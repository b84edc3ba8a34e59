SPECIFICATION Spec
CONSTANTS
    e1 = e1  e2 = e2  e3 = e3
    live = live  recovery = recovery
    s1 = s1  s2 = s2
    ja = ja  vi = vi
    ta = ta  tb = tb  empty = empty
    nobody = nobody
    SegmentId = {1}
    EventId = {e1, e2, e3}
    SpeakerId = {s1, s2}
    Text = {ta, tb, empty}
    EmptyText = empty
    Language = {ja, vi}
    NoSpeaker = nobody
    Events <- LoggedEvents
    Consumer = {live, recovery}
    Sealers = {live}
    MaxLog = 4
INVARIANT ReplayTypeOK
INVARIANT ReplayIsExact
INVARIANT SealOnlyFreezes
PROPERTY Converges
