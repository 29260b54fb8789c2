SPECIFICATION Spec
CONSTANTS
    Payloads <- MCPayloads
    FrameOf <- MCFrameOf
    Fits <- MCFits
    Jpeg <- MCJpeg
    AssemblyTimeout = 2
    ErrorAge = 3
    None = None
    Chunks = 2
    NotJpeg <- MCNotJpeg
    TooBig <- MCTooBig
    MaxFlight = 3
    Networks <- MCNetworks
INVARIANTS
    ShownFrameWhole
    NeverTorn
    DisplayFollowsAgent
PROPERTIES
    NeverBackwards
    ShownInTime
CHECK_DEADLOCK FALSE
