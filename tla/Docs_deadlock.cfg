SPECIFICATION RegistrySpec
CONSTANTS
    Threads = {t1, t2}
    Loop = loop
    MaxObjects = 2
INVARIANTS
    NoLockCycle
CHECK_DEADLOCK FALSE
