SPECIFICATION Spec
CONSTANTS
    Absent = Absent
    Files <- Recordings
    CanonicalRate = 14
    Precision = 12
    MaxReplaced = 1
INVARIANT CanonicalIsExact
