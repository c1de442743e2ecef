\* Every operation, overlapping, with at most one failing call.
SPECIFICATION Spec
CONSTANTS
    p1 = p1
    p2 = p2
    short = short
    long = long
    Procs = {p1, p2}
    Keys <- BlobKeys
    Streams = {short, long}
    Length <- Lengths
    NoSum = NoSum
    Hole = Hole
    ReaderFails = FALSE
    BlobCalls <- BlobOps
    MaxOps = 3
    MaxCalls = 3
    MaxFaults = 1
SYMMETRY Symmetry
CHECK_DEADLOCK FALSE
INVARIANTS
    TypeOK
    OpenYieldsWhole
    TempFilesRemoved
    StoredMatchesChecksum
    UploadSucceeds
    RowOutlivesObject
