SPECIFICATION Spec
CONSTANTS
    e1 = e1  e2 = e2  e3 = e3  e4 = e4  e5 = e5
    s1 = s1  s2 = s2  s3 = s3
    ja = ja  vi = vi
    ta = ta  tb = tb  empty = empty
    nobody = nobody
    SegmentId = {1, 2}
    EventId = {e1, e2, e3}
    Events <- ChainEvents
    SpeakerId = {s1, s2, s3}
    Text = {ta, tb, empty}
    EmptyText = empty
    Language = {ja, vi}
    NoSpeaker = nobody
    Radix = 3
    OrdinalPad = 2
    StreamPad = 2
INVARIANT NoAliasOnDisplay
