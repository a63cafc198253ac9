SPECIFICATION RegistrySpec
CONSTANTS
    Threads = {t1, t2}
    Loop = loop
    MaxObjects = 3
INVARIANTS
    OneSessionPerPath
    ReferencedIsRegistered
CHECK_DEADLOCK FALSE
