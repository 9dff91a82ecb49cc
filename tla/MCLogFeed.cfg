SPECIFICATION FairSpec
CONSTANTS
    NumFiles = 2
    Lengths <- MCLengths
    MaxRead = 2
    MaxRotations <- MCRotations
    Kinds = {"dhcp", "radius"}
    KindOf <- MCKindOf
    Ignored <- MCIgnored
    Refused <- MCRefused
    MaxBuffer = 1
    Attempts = 2
    MaxOutages = 1
    MaxFailures = 1
INVARIANTS
    FeedTypeOK
    HandledInOrder
    NoLineSkipped
    EventsInOnePlace
PROPERTIES
    ShedIsBackstop
    LinesRead
    EventsSettle
