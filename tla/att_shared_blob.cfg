\* One blob attached twice, then ManyAttached.Purge.
SPECIFICATION Spec
CONSTANTS
    p1 = p1
    p2 = p2
    p3 = p3
    s1 = s1
    s2 = s2
    Procs = {p1}
    Slots = {s1}
    Calls <- ManyCalls
    Attachables = {"blob", "upload"}
    CachesBlob = TRUE
    MaxCalls = 3
    MaxBatch = 2
    MaxFaults = 0

CHECK_DEADLOCK FALSE
INVARIANTS
    ManyPurgeRemovesAll
