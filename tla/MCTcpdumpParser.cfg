SPECIFICATION Spec
CONSTANTS
    Half = 2
    Forward <- MCForward
    SwitchAt = 2
    Jitter = 1
    Host = {"client", "resolver", "forwarder"}
    Packets <- MCPackets
    Resolver = "resolver"
    NoHost = "none"
    LastDay = 2
    MaxRotations = 1
INVARIANTS
    StampIsTrue
    ClientAsked
