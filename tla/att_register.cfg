\* A lone caller with every operation, and concurrent OneAttached.Attach with
\* failing seams.
SPECIFICATION UseSpec
CONSTANTS
    p1 = p1
    p2 = p2
    s1 = s1
    s2 = s2
    loner = p1
    Procs = {p1, p2}
    Slots = {s1, s2}
    Calls <- OneCalls
    Attachables = {"blob", "unsaved", "upload", "other"}
    CachesBlob = TRUE
    MaxCalls = 4
    MaxAttachCalls = 3
    MaxBatch = 1
    MaxFaults = 2
CHECK_DEADLOCK FALSE
INVARIANTS
    AloneKeepsOne
PROPERTIES
    IsRegister
