\* Two goroutines, one failing seam call, every operation.
SPECIFICATION Spec
CONSTANTS
    p1 = p1
    p2 = p2
    s1 = s1
    Procs = {p1, p2}
    Slots = {s1}
    Calls <- Ops
    Attachables = {"blob", "signed", "unsaved", "upload"}
    CachesBlob = TRUE
    MaxCalls = 3
    MaxBatch = 2
    MaxFaults = 1
SYMMETRY Symmetry
CHECK_DEADLOCK FALSE
INVARIANTS
    TypeOK
    NothingLost
    NoOrphanObjects
    
    
    OkMeansDone
    RetryProgress
