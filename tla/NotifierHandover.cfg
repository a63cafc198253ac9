SPECIFICATION Spec
CONSTANTS
    r1 = r1
    n1 = n1
    n2 = n2
    Realms = {r1}
    Notifiers = {n1, n2}
    RealmOf <- MCRealmOf
    Lists = {n2}
    MaxVersion = 3
INVARIANTS
    RunTogether
    PinCoversNew
    NoFailedAssertion
    NoLostWakeUp
PROPERTIES
    NeverBack
    ToldMatchesView
    NeverRepeated
CHECK_DEADLOCK FALSE
