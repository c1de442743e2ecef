------------------------------ MODULE ModelStore ------------------------------
(***************************************************************************)
(* The persistence seam of store.go, in the form of its reference          *)
(* implementation MemStore.  One mutex guards every method, so a method is *)
(* one atomic step of the goroutine that calls it; the modules that extend *)
(* this one take one operator per step.                                    *)
(*                                                                         *)
(* A blob is named by its row id: buildBlob draws a fresh random key for   *)
(* every blob, so a row id and a service key name the same object.  An     *)
(* attachment row keeps the columns the callers read: its id, the          *)
(* association it belongs to (record type, record id and name, here one    *)
(* "slot") and the blob it binds.                                          *)
(***************************************************************************)
EXTENDS Integers, FiniteSets

CONSTANT Slots    \* associations: (record_type, record_id, name) triples

VARIABLES
    blobs,        \* ids of the rows of active_storage_blobs
    attachments,  \* rows of active_storage_attachments
    nextBlobID,   \* last blob id handed out
    nextAttID     \* last attachment id handed out

storeVars == <<blobs, attachments, nextBlobID, nextAttID>>

Row == [id : Nat, slot : Slots, blob : Nat]

\* NewMemStore: both tables empty, both counters at zero.
NewMemStore ==
    /\ blobs = {}
    /\ attachments = {}
    /\ nextBlobID = 0
    /\ nextAttID = 0

\* Faulty variants: the counter is not advanced; the id is the length of the
\* table, so ids are used again.
InsertBlobStuck ==
    /\ nextBlobID' = nextBlobID
    /\ blobs' = blobs \union {nextBlobID + 1}
    /\ UNCHANGED <<attachments, nextAttID>>

InsertBlobByLength ==
    /\ nextBlobID' = Cardinality(blobs) + 1
    /\ blobs' = blobs \union {nextBlobID'}
    /\ UNCHANGED <<attachments, nextAttID>>

\* A row id is taken from a counter that is only ever incremented.
InsertBlob ==
    /\ nextBlobID' = nextBlobID + 1
    /\ blobs' = blobs \union {nextBlobID'}
    /\ UNCHANGED <<attachments, nextAttID>>

\* FindBlob answers with the row, or with ErrBlobNotFound.
FindBlob(b) == b \in blobs

\* DeleteBlob where the row exists; otherwise it returns ErrBlobNotFound and
\* the table keeps its value.
DeleteBlob(b) ==
    /\ FindBlob(b)
    /\ blobs' = blobs \ {b}
    /\ UNCHANGED <<attachments, nextBlobID, nextAttID>>

\* Faulty variant: the id is the length of the table, so ids are used again.
InsertAttachmentByLength(s, b) ==
    /\ nextAttID' = Cardinality(attachments) + 1
    /\ attachments' = {r \in attachments : r.id # nextAttID'}
                        \union {[id |-> nextAttID', slot |-> s, blob |-> b]}
    /\ UNCHANGED <<blobs, nextBlobID>>

\* InsertAttachment writes the row at its new id: a map store, so it would
\* overwrite a row that already had the id.
InsertAttachment(s, b) ==
    /\ nextAttID' = nextAttID + 1
    /\ attachments' = {r \in attachments : r.id # nextAttID'}
                        \union {[id |-> nextAttID', slot |-> s, blob |-> b]}
    /\ UNCHANGED <<blobs, nextBlobID>>

\* The rows of one association.  Their order is the order of their ids, which
\* First and Newest below read off.
FindAttachments(s) == {r \in attachments : r.slot = s}

RowsWithID(i) == {r \in attachments : r.id = i}

\* DeleteAttachment where the row exists (otherwise ErrAttachmentNotFound).
DeleteAttachment(i) ==
    /\ RowsWithID(i) # {}
    /\ attachments' = attachments \ RowsWithID(i)
    /\ UNCHANGED <<blobs, nextBlobID, nextAttID>>

\* The row a loop over a result of FindAttachments handles first, and the row
\* atts[len(atts)-1], as sets of at most one row.
First(S) == {r \in S : \A q \in S : r.id <= q.id}
Newest(S) == {r \in S : \A q \in S : q.id <= r.id}

StoreTypeOK ==
    /\ nextBlobID \in Nat
    /\ nextAttID \in Nat
    /\ blobs \subseteq 1 .. nextBlobID
    /\ attachments \subseteq Row
    /\ \A r \in attachments : r.id \in 1 .. nextAttID
=============================================================================
