SPECIFICATION Spec
CONSTANTS
    r1 = r1
    n1 = n1
    n2 = n2
    Realms = {r1}
    Notifiers = {n1, n2}
    RealmOf <- MCRealmOf
    Lists = {n2}
    MaxVersion = 3
PROPERTIES
    SuppressedNotTold
CHECK_DEADLOCK FALSE
