SPECIFICATION Spec
CONSTANTS
    Keys = {k1, k2, k3, k4, k5}
    Hosts = {1, 2}
    TTLs = {0, 3}
    UnknownTTL = 2
    MinTTL = 1
    MaxTTL = 2
    MaxSize = 4
    Fraction = 2
    Absent = absent
    NoHost = nohost
    MaxTime = 2
    MaxClock = 3
SYMMETRY MCKeys
INVARIANTS
    CapHolds
    LookupIsGreatest
    VictimsStay
    ShedsAmongOldest
