SPECIFICATION FairSpec
CONSTANTS
    Workers = {w1, w2}
    Timer = timer
    Main = main
    NumRows = 4
    MaxSize = 2
    MaxBuffer = 3
    Attempts = 2
    MaxOutages = 1
    Malformed = {2}
INVARIANTS
    ExactlyOnePlace
    DropCounterExact
    HealthyBufferBound
    OnlyTimerOutlivesWait
PROPERTIES
    LossIsLastResort
    ImplementsSink
    RowsSettle
    ShutdownCompletes
    FinalDrainForces
