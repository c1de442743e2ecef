\* Calls that walk the rows of an association while others remove them; rows carry
\* no *Blob, so that Attachment.Blob asks the store.
SPECIFICATION FairSpec
CONSTANTS
    p1 = p1
    p2 = p2
    p3 = p3
    s1 = s1
    s2 = s2
    Procs = {p1, p2}
    Slots = {s1}
    Calls <- RemoveCalls
    Attachables = {"unsaved", "upload"}
    CachesBlob = FALSE
    MaxCalls = 3
    MaxBatch = 2
    MaxFaults = 1

CHECK_DEADLOCK FALSE
INVARIANTS
    IdsNameOneRow
PROPERTIES
    CallsReturn
