SPECIFICATION Spec
CONSTANTS
    p1 = p1  p2 = p2  p3 = p3  a = a  b = b
    Torn = Torn
    DefaultName = DefaultName
    Run = {p1, p2, p3}
    Requests <- AllRequests
    Frames <- SixSamples
    SampleRate = 3
    Millis = 2
    LockedRanges <- LockedMiddle
    AtOnce = 2
    MaxKills = 1
    MaxReplaced = 1
SYMMETRY Invocations
CHECK_DEADLOCK FALSE
INVARIANT CutClipTypeOK
INVARIANT ClipIdsUnique
INVARIANT LockedNeedsEvaluation
INVARIANT LockedEntriesAreLogged
INVARIANT EntryDescribesItsClip
INVARIANT NoEntryIsLost
