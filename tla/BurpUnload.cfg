SPECIFICATION Spec
CHECK_DEADLOCK FALSE
SYMMETRY MCSymmetry
VIEW MCView
CONSTANTS
    auto = auto
    unloader = unloader
    w1 = w1
    w2 = w2
    a1 = a1
    a2 = a2
    NoAddr = NoAddr
    AnyPort = AnyPort
    AutoThread = auto
    Unloader = unloader
    Default = a1
    Workers <- MCWorkers
    Callers <- MCCallers
    Addrs <- MCAddrs
    Fallbacks <- MCFallbacks
    MaxClicks = 1
    MaxQueue = 1
INVARIANT UnloadLeavesNoServer
