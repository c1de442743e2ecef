\* Two concurrent OneAttached.Attach on one association.
SPECIFICATION Spec
CONSTANTS
    p1 = p1
    p2 = p2
    p3 = p3
    s1 = s1
    s2 = s2
    Procs = {p1, p2}
    Slots = {s1}
    Calls <- AttachCalls
    Attachables = {"upload"}
    CachesBlob = TRUE
    MaxCalls = 2
    MaxBatch = 1
    MaxFaults = 0

CHECK_DEADLOCK FALSE
INVARIANTS
    SingleAttachment
