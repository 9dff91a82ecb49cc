SPECIFICATION Spec
CONSTANTS
    r1 = r1
    r2 = r2
    k1 = k1
    k2 = k2
    Readers = {r1, r2}
    Workers = {w1, w2}
    Key = {k1, k2}
    Garbage = garbage
    NoMsg = nomsg
    Log <- MCMixedLog
    ChanCap = 1
    MaxLives = 2
SYMMETRY MCSymmetry
INVARIANTS
    NoSendAfterClose
    NoMessageForgotten
    DuplicatesAreCovered
    ShutdownDrains
PROPERTIES
    WritesOnce
