SPECIFICATION Spec
CONSTANTS
    c1 = c1
    t1 = t1
    t2 = t2
    p1 = p1
    p2 = p2
    Call <- OneCall
    Tool <- TwoTools
    PlatformTool <- TwoPlatformTools
    Composition <- Declared
    Lifetimes = {3, 9}
    MinRenew = 2
    CallTimeout = 1
    mintAttempts = 2
    mintFirstDelay = 1
    MaxRotations = 1
    Latency = 1
INVARIANTS
    RefusedMeansUnrenewed
PROPERTIES
    ExpiredIsRenewed
    ShutdownEnds
CHECK_DEADLOCK FALSE
