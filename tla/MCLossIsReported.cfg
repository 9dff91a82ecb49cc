SPECIFICATION Spec
CONSTANTS
    Workers = {w1, w2}
    Timer = timer
    Main = main
    NumRows = 5
    MaxSize = 2
    MaxBuffer = 3
    Attempts = 2
    MaxOutages = 2
    Malformed = {2}
INVARIANT
    LossIsReported
