\* Signed ids, direct-upload URLs and a token of the host, presented while the clock
\* runs and blobs are purged.
SPECIFICATION Spec
CONSTANTS
    p1 = p1
    Procs = {p1}
    Purposes = {"", "blob_id", "blob_token", "my.own"}
    Dotted = {"my.own"}
    Lifetimes = {0, 2}
    Millisecond = 2
    Never = Never
    Envelope = Envelope
    NoValue = NoValue
    CanSign = {TRUE, FALSE}
    MaxTime = 3
    MaxBlobs = 2
    MaxTokens = 1
    MaxFaults = 1
CHECK_DEADLOCK FALSE
INVARIANTS
    TypeOK
    AcceptedInTime
    NotExpiredEarly
    AcceptedForPurpose
PROPERTIES
    PurgedStaysGone
