\* Overlapping calls on one key, a failing reader and a failing system call.
SPECIFICATION Spec
CONSTANTS
    p1 = p1
    p2 = p2
    p3 = p3
    k1 = k1
    k2 = k2
    short = short
    long = long
    Procs = {p1, p2}
    Keys = {k1}
    Streams = {short, long}
    Length <- Lengths
    NoSum = NoSum
    Hole = Hole
    ReaderFails = TRUE
    Offsets = {0, 1, 2}
    Sizes = {0, 1, 2}
    MaxCalls = 3
    MaxFaults = 1
SYMMETRY Symmetry
CHECK_DEADLOCK FALSE
INVARIANTS
    TypeOK
    UploadStores
    FailureLeavesNothing
    ReadsStored
PROPERTIES
    IsObjectStore
