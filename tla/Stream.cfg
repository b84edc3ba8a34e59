SPECIFICATION Spec
CONSTANTS
    Missing = Missing
    Byte = 2
    Size <- Bits
    MaxSampleOffset = 15
    ProtocolMajor = 1
    ProtocolMinor = 0
    BytesPerSample = 2
    MaxSamples = 2
    MaxFrameBytes = 35
    Radix = 2
    OrdinalPad = 2
    StreamPad = 1
    Versions <- Builds
    Counts = {0, 1, 2, 3}
    Glitches = {13}
    Foreign <- OutOfRange
    MaxCapture = 16
    MaxSent = 2
    MaxStreams = 3
CHECK_DEADLOCK FALSE
INVARIANT StreamTypeOK
INVARIANT WireIsReadable
INVARIANT NoFalseAlarm
PROPERTY ImplementsTape
