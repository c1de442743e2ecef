\* Two overlapping uploads of one key.
SPECIFICATION Spec
CONSTANTS
    p1 = p1
    p2 = p2
    p3 = p3
    k1 = k1
    k2 = k2
    short = short
    long = long
    Procs = {p1, p2}
    Keys = {k1}
    Streams = {short, long}
    Length <- Lengths
    NoSum = NoSum
    Hole = Hole
    ReaderFails = FALSE
    Offsets = {1}
    Sizes = {1}
    MaxCalls = 2
    MaxFaults = 0

CHECK_DEADLOCK FALSE
INVARIANTS
    UploadOkMeansStored
