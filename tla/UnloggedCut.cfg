SPECIFICATION Spec
CONSTANTS
    p1 = p1  p2 = p2  p3 = p3  a = a  b = b
    Torn = Torn
    DefaultName = DefaultName
    Run = {p1, p2}
    Requests <- Cuts
    Frames <- SixSamples
    SampleRate = 3
    Millis = 2
    LockedRanges <- LockedMiddle
    AtOnce = 1
    MaxKills = 0
    MaxReplaced = 0
SYMMETRY Invocations
CHECK_DEADLOCK FALSE
INVARIANT EveryLockedReadIsLogged
