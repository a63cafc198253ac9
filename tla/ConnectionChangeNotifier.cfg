SPECIFICATION NotifierSpec
CONSTANTS
    Invokers = {loop, app}
    MaxTokens = 3
    SizeT = 8
INVARIANTS
    OverrunsOnlyForNewcomers
    EachCalledOnce
