------------------------------ MODULE Attachments ------------------------------
(***************************************************************************)
(* The association API of attachment.go (OneAttached and ManyAttached) with *)
(* the blob operations it meets, CreateAndUpload, Upload and Purge.        *)
(*                                                                         *)
(* No call holds a lock: each is a sequence of calls to the two seams, the *)
(* ModelStore and the Service, and calls of different goroutines interleave *)
(* between any two of them.  A process is a goroutine; pc[p] names the seam *)
(* call it makes next.  A seam call may also fail, for whatever reason the *)
(* host's store or service has; the program then returns the error at once, *)
(* so what a failed call leaves behind is also what a crash there leaves.  *)
(*                                                                         *)
(* Config.FindBlob hands out every row from its insertion on, and callers   *)
(* keep the *Blob: they attach, upload and purge blobs that are still being *)
(* created, or that are gone.  The bytes of an object are not modelled      *)
(* here, only whether the service holds one; the object of an unsaved blob  *)
(* belongs to no row and is not followed.                                   *)
(***************************************************************************)
EXTENDS ModelStore, Sequences

CONSTANTS
    Procs,        \* goroutines
    Calls,        \* the operations callers use
    Attachables,  \* the kinds of value callers pass to Attach
    CachesBlob,   \* do rows read from the store carry their *Blob (MemStore: yes)
    MaxCalls,     \* bound: calls made in a behaviour
    MaxBatch,     \* bound: attachables given to one ManyAttached.Attach
    MaxFaults     \* bound: seam calls that fail in a behaviour

Ops == {"create", "one.Attach", "one.Detach", "one.Purge",
        "many.Attach", "many.Detach", "many.Purge", "att.Purge",
        "blob.Upload", "blob.Purge"}
Kinds == {"blob", "signed", "unsaved", "upload", "other"}

ASSUME CallsAssumption == Calls \subseteq Ops
ASSUME KindsAssumption == Attachables \subseteq Kinds
ASSUME BoundsAssumption ==
    /\ MaxCalls \in Nat /\ MaxBatch \in Nat /\ MaxFaults \in Nat
    /\ CachesBlob \in BOOLEAN

VARIABLES
    objects,    \* blobs whose bytes the service holds
    known,      \* blobs an upload of which has returned nil
    pc,         \* the seam call the process makes next
    op, slot,   \* the call in progress (or the last one) and its association
    args,       \* attachables still to attach
    blob,       \* the local *Blob
    listed,     \* the rows the call read with FindAttachments
    pending,    \* those of them it has still to remove
    result,     \* what the last call returned
    calls, faults,  \* calls begun and seam failures so far
    dismissed,  \* history: rows removed by Detach or Purge
    replaced,   \* history: rows removed by OneAttached.Attach
    released,   \* history: blobs a caller purged directly
    failed,     \* history: blobs an upload of which has failed
    revived     \* history: blobs whose bytes were stored after a purge

locals == <<op, slot, args, blob, listed, pending>>
histories == <<dismissed, replaced, released, failed, revived>>
vars == <<storeVars, objects, known, pc, locals, result, calls, faults, histories>>

Attachers == {"one.Attach", "many.Attach"}
Purgers == {"one.Purge", "many.Purge", "att.Purge"}
Detachers == {"one.Detach", "many.Detach"}
Labels == {"idle", "blobFor", "InsertBlob", "Upload", "FindAttachments",
           "InsertAttachment", "Blob", "DeleteAttachment", "Delete", "DeleteBlob"}

\* The blobs a caller can hold: FindBlob has found each of them once, if only
\* between its insertion and the end of its upload.
Held == 1 .. nextBlobID

\* What a caller can pass to Attach: a blob it holds, as *Blob or signed id; a
\* *Blob of BuildAfterUpload, which has no row and so the id 0; an Upload; or a
\* value of a type blobFor does not know.
Values == [kind : Attachables \intersect {"blob", "signed"}, blob : Held]
            \union [kind : Attachables \ {"blob", "signed"}, blob : {0}]

\* OneAttached.Attach takes one attachable, ManyAttached.Attach any number.
BatchSizes(o) == IF o = "one.Attach" THEN {1} ELSE 1 .. MaxBatch

Init ==
    /\ NewMemStore
    /\ objects = {} /\ known = {}
    /\ pc = [p \in Procs |-> "idle"]
    /\ op = [p \in Procs |-> "create"]
    /\ \E s \in Slots : slot = [p \in Procs |-> s]
    /\ args = [p \in Procs |-> <<>>]
    /\ blob = [p \in Procs |-> 0]
    /\ listed = [p \in Procs |-> {}]
    /\ pending = [p \in Procs |-> {}]
    /\ result = [p \in Procs |-> "none"]
    /\ calls = 0 /\ faults = 0
    /\ dismissed = {} /\ replaced = {} /\ released = {} /\ failed = {} /\ revived = {}

-----------------------------------------------------------------------------
(* Callers.                                                                 *)

\* Faulty variant: Attachment.Purge always asks the store for the blob.
FirstStepUncached(o) == IF o \in Purgers THEN "Blob" ELSE "DeleteAttachment"

\* A cached blob costs Attachment.Purge no call to the store; Detach needs none.
FirstStep(o) ==
    IF o \in Purgers /\ ~ CachesBlob THEN "Blob" ELSE "DeleteAttachment"

Begin(p, o, s, items, b, rows, first) ==
    /\ pc[p] = "idle" /\ calls < MaxCalls /\ o \in Calls
    /\ calls' = calls + 1
    /\ pc' = [pc EXCEPT ![p] = first]
    /\ op' = [op EXCEPT ![p] = o]
    /\ slot' = [slot EXCEPT ![p] = s]
    /\ args' = [args EXCEPT ![p] = items]
    /\ blob' = [blob EXCEPT ![p] = b]
    /\ listed' = [listed EXCEPT ![p] = rows]
    /\ pending' = [pending EXCEPT ![p] = rows]
    /\ result' = [result EXCEPT ![p] = "none"]
    /\ UNCHANGED <<storeVars, objects, known, faults, dismissed, replaced, failed, revived>>

BeginCreate(p) ==
    /\ Begin(p, "create", slot[p], <<>>, 0, {}, "InsertBlob")
    /\ UNCHANGED released

BeginAttach(p) ==
    /\ \E o \in Attachers, s \in Slots : \E n \in BatchSizes(o) :
         \E items \in [1 .. n -> Values] : Begin(p, o, s, items, 0, {}, "blobFor")
    /\ UNCHANGED released

BeginRemove(p) ==
    /\ \E o \in (Detachers \union Purgers) \ {"att.Purge"}, s \in Slots :
         Begin(p, o, s, <<>>, 0, {}, "FindAttachments")
    /\ UNCHANGED released

\* Attachment.Purge on an *Attachment a caller holds, whose row may be gone.
BeginRowPurge(p) ==
    /\ \E r \in attachments \union dismissed \union replaced :
         Begin(p, "att.Purge", r.slot, <<>>, 0, {r}, FirstStep("att.Purge"))
    /\ UNCHANGED released

\* Blob.Upload asks for no row.
BeginBlobUpload(p) == \E b \in Held :
    /\ Begin(p, "blob.Upload", slot[p], <<>>, b, {}, "Upload")
    /\ UNCHANGED released

BeginBlobPurge(p) == \E b \in Held :
    /\ Begin(p, "blob.Purge", slot[p], <<>>, b, {}, "Delete")
    /\ released' = released \union {b}

-----------------------------------------------------------------------------
(* Control inside a call.                                                   *)

Goto(p, l) == pc' = [pc EXCEPT ![p] = l] /\ UNCHANGED result

Return(p, r) ==
    /\ pc' = [pc EXCEPT ![p] = "idle"]
    /\ result' = [result EXCEPT ![p] = r]

CountFault == faults < MaxFaults /\ faults' = faults + 1

\* A seam call fails: nothing was changed, and the error is returned.
Fault(p) ==
    /\ CountFault
    /\ Return(p, "err")
    /\ UNCHANGED <<storeVars, objects, known, locals, calls, histories>>

\* Faulty variants: a missing row counts as success, or is waited for.
NotFoundIsOk(p) ==
    /\ Return(p, "ok")
    /\ UNCHANGED <<storeVars, objects, known, locals, calls, faults, histories>>

NotFoundRetries(p) == UNCHANGED vars

\* A lookup or a delete answers that the row does not exist.
NotFound(p) ==
    /\ Return(p, "err")
    /\ UNCHANGED <<storeVars, objects, known, locals, calls, faults, histories>>

\* With its blob resolved, OneAttached.Attach looks for the row to replace and
\* ManyAttached.Attach inserts the new row.
AfterBlobFor(o) == IF o = "one.Attach" THEN "FindAttachments" ELSE "InsertAttachment"

\* The loop over the remaining rows, left when there is none.
NextRow(p) ==
    IF pending'[p] = {} THEN Return(p, "ok") ELSE Goto(p, FirstStep(op[p]))

-----------------------------------------------------------------------------
(* The seam calls.                                                          *)

\* Config.blobFor: a *Blob is used as it is, an Upload goes through
\* CreateAndUpload, a signed id through FindBlob, anything else is refused.
BlobFor(p) ==
    /\ pc[p] = "blobFor"
    /\ LET a == Head(args[p]) IN
         \/ /\ \/ a.kind \in {"blob", "unsaved"}
               \/ a.kind = "signed" /\ FindBlob(a.blob)
            /\ blob' = [blob EXCEPT ![p] = a.blob]
            /\ Goto(p, AfterBlobFor(op[p]))
            /\ UNCHANGED <<storeVars, objects, known, op, slot, args, listed,
                           pending, calls, faults, histories>>
         \/ /\ a.kind = "upload"
            /\ Goto(p, "InsertBlob")
            /\ UNCHANGED <<storeVars, objects, known, locals, calls, faults, histories>>
         \/ \/ a.kind = "other"
            \/ a.kind = "signed" /\ ~ FindBlob(a.blob)
            /\ NotFound(p)
         \/ a.kind = "signed" /\ Fault(p)

\* CreateAndUpload persists the row first ...
CreateRow(p) ==
    /\ pc[p] = "InsertBlob"
    /\ \/ /\ InsertBlob
          /\ blob' = [blob EXCEPT ![p] = nextBlobID']
          /\ Goto(p, "Upload")
          /\ UNCHANGED <<objects, known, op, slot, args, listed, pending,
                         calls, faults, histories>>
       \/ Fault(p)

\* Bytes of b that are stored now are stored for nobody: its row is gone, or is
\* about to be deleted by a Purge that is done with the object.
Purged(b) == \/ b \notin blobs
             \/ \E q \in Procs : pc[q] = "DeleteBlob" /\ blob[q] = b

Stored(b) ==
    /\ objects' = objects \union {b}
    /\ revived' = IF Purged(b) THEN revived \union {b} ELSE revived

\* A failed upload may have stored nothing, may leave what it has written, or may
\* have removed it with the object it replaced.
NotStored(b) ==
    /\ CountFault
    /\ \/ Stored(b)
       \/ objects' \in {objects, objects \ {b}} /\ UNCHANGED revived
    /\ failed' = failed \union {b}

UploadDone(p) ==
    /\ Stored(blob[p])
    /\ known' = known \union {blob[p]}
    /\ IF op[p] \in Attachers THEN Goto(p, AfterBlobFor(op[p])) ELSE Return(p, "ok")
    /\ UNCHANGED <<storeVars, locals, calls, faults, dismissed, replaced, released, failed>>

\* Faulty variant: a failed upload takes the row away again.
UploadBytesRollsBack(p) ==
    /\ pc[p] = "Upload"
    /\ \/ UploadDone(p)
       \/ /\ NotStored(blob[p])
          /\ DeleteBlob(blob[p])
          /\ Return(p, "err")
          /\ UNCHANGED <<known, locals, calls, dismissed, replaced, released>>

\* ... and then uploads the bytes; a failed upload leaves the row.
UploadBytes(p) ==
    /\ pc[p] = "Upload"
    /\ \/ UploadDone(p)
       \/ /\ NotStored(blob[p])
          /\ Return(p, "err")
          /\ UNCHANGED <<storeVars, known, locals, calls, dismissed, replaced, released>>

\* OneAttached reads the last row of its association, ManyAttached all of them.
Lookup(p) == LET rows == FindAttachments(slot[p]) IN
    IF op[p] \in {"one.Attach", "one.Detach", "one.Purge"} THEN Newest(rows) ELSE rows

ReadRows(p) ==
    /\ pc[p] = "FindAttachments"
    /\ \/ /\ listed' = [listed EXCEPT ![p] = Lookup(p)]
          /\ pending' = [pending EXCEPT ![p] = Lookup(p)]
          /\ IF op[p] = "one.Attach" THEN Goto(p, "InsertAttachment") ELSE NextRow(p)
          /\ UNCHANGED <<storeVars, objects, known, op, slot, args, blob,
                         calls, faults, histories>>
       \/ Fault(p)

\* Faulty variant: the row found by OneAttached.Attach is left in place.
AfterInsertKeeps(p) ==
    IF args'[p] # <<>> THEN Goto(p, "blobFor") ELSE Return(p, "ok")

\* On to the next attachable, or to the row to replace.
AfterInsert(p) ==
    CASE args'[p] # <<>> -> Goto(p, "blobFor")
      [] args'[p] = <<>> /\ pending[p] # {} -> Goto(p, "DeleteAttachment")
      [] OTHER -> Return(p, "ok")

\* The new row binds the resolved blob, whether or not its row still exists.
InsertRow(p) ==
    /\ pc[p] = "InsertAttachment"
    /\ \/ /\ InsertAttachment(slot[p], blob[p])
          /\ args' = [args EXCEPT ![p] = Tail(@)]
          /\ AfterInsert(p)
          /\ UNCHANGED <<objects, known, op, slot, blob, listed, pending,
                         calls, faults, histories>>
       \/ Fault(p)

\* Attachment.Blob for a row that carries no *Blob.
LoadBlob(p) ==
    /\ pc[p] = "Blob"
    /\ \E r \in First(pending[p]) :
         \/ /\ FindBlob(r.blob)
            /\ Goto(p, "DeleteAttachment")
            /\ UNCHANGED <<storeVars, objects, known, locals, calls, faults, histories>>
         \/ ~ FindBlob(r.blob) /\ NotFound(p)
         \/ Fault(p)

\* Faulty variant: OneAttached.Attach looks the row up when it deletes it.
DoomedNow(p) ==
    IF op[p] = "one.Attach" THEN Newest(FindAttachments(slot[p])) ELSE First(pending[p])

\* The row the call removes next.
Doomed(p) == First(pending[p])

\* Faulty variant: a replaced row's blob is purged as well.
AfterDeletePurgesAll(p, r) ==
    IF op[p] \in Purgers \union {"one.Attach"}
    THEN /\ blob' = [blob EXCEPT ![p] = r.blob]
         /\ Goto(p, "Delete")
         /\ UNCHANGED pending
    ELSE /\ pending' = [pending EXCEPT ![p] = @ \ {r}]
         /\ NextRow(p)
         /\ UNCHANGED blob

\* Where a call goes on once it has removed row r.
AfterDelete(p, r) ==
    IF op[p] \in Purgers
    THEN /\ blob' = [blob EXCEPT ![p] = r.blob]
         /\ Goto(p, "Delete")
         /\ UNCHANGED pending
    ELSE /\ pending' = [pending EXCEPT ![p] = @ \ {r}]
         /\ NextRow(p)
         /\ UNCHANGED blob

DeleteRow(p) ==
    /\ pc[p] = "DeleteAttachment"
    /\ \E r \in Doomed(p) :
         \/ /\ DeleteAttachment(r.id)
            /\ AfterDelete(p, r)
            /\ IF op[p] = "one.Attach"
               THEN /\ replaced' = replaced \union RowsWithID(r.id)
                    /\ UNCHANGED dismissed
               ELSE /\ dismissed' = dismissed \union RowsWithID(r.id)
                    /\ UNCHANGED replaced
            /\ UNCHANGED <<objects, known, op, slot, args, listed, calls, faults,
                           released, failed, revived>>
         \/ RowsWithID(r.id) = {} /\ NotFound(p)
         \/ Fault(p)

\* Faulty variant: a purge through a row forgets the row of the blob.
DeleteObjectOnly(p) ==
    /\ pc[p] = "Delete"
    /\ objects' = objects \ {blob[p]}
    /\ pending' = [pending EXCEPT ![p] = @ \ First(@)]
    /\ NextRow(p)
    /\ UNCHANGED <<storeVars, known, op, slot, args, blob, listed, calls, faults, histories>>

\* Blob.Purge deletes the object first (a missing object is not an error) ...
DeleteObject(p) ==
    /\ pc[p] = "Delete"
    /\ \/ /\ objects' = objects \ {blob[p]}
          /\ Goto(p, "DeleteBlob")
          /\ UNCHANGED <<storeVars, known, locals, calls, faults, histories>>
       \/ Fault(p)

\* ... and then the row (a missing row is).
DeleteBlobRow(p) ==
    /\ pc[p] = "DeleteBlob"
    /\ \/ /\ DeleteBlob(blob[p])
          /\ pending' = [pending EXCEPT ![p] = @ \ First(@)]
          /\ NextRow(p)
          /\ UNCHANGED <<objects, known, op, slot, args, blob, listed,
                         calls, faults, histories>>
       \/ ~ FindBlob(blob[p]) /\ NotFound(p)
       \/ Fault(p)

-----------------------------------------------------------------------------

BeginCall(p) ==
    \/ BeginCreate(p) \/ BeginAttach(p) \/ BeginRemove(p)
    \/ BeginRowPurge(p) \/ BeginBlobUpload(p) \/ BeginBlobPurge(p)

Step(p) ==
    \/ BlobFor(p) \/ CreateRow(p) \/ UploadBytes(p) \/ ReadRows(p) \/ InsertRow(p)
    \/ LoadBlob(p) \/ DeleteRow(p) \/ DeleteObject(p) \/ DeleteBlobRow(p)

Next == \E p \in Procs : BeginCall(p) \/ Step(p)

Spec == Init /\ [][Next]_vars

\* A goroutine that is inside a call keeps running; callers need not call.
FairSpec == Spec /\ \A p \in Procs : WF_vars(Step(p))

-----------------------------------------------------------------------------
(* Properties.                                                              *)

Refs == attachments \union dismissed \union replaced
Stale == UNION {listed[p] : p \in Procs}

ServiceTypeOK ==
    /\ objects \subseteq Nat /\ known \subseteq Nat
    /\ released \subseteq Nat /\ failed \subseteq Nat /\ revived \subseteq Nat

PlaceTypeOK ==
    /\ pc \in [Procs -> Labels]
    /\ op \in [Procs -> Ops]
    /\ slot \in [Procs -> Slots]
    /\ result \in [Procs -> {"none", "ok", "err"}]

LocalTypeOK ==
    /\ args \in [Procs -> Seq([kind : Kinds, blob : Nat])]
    /\ blob \in [Procs -> Nat]
    /\ listed \in [Procs -> SUBSET Row]
    /\ pending \in [Procs -> SUBSET Row]

CountTypeOK ==
    /\ calls \in 0 .. MaxCalls
    /\ faults \in 0 .. MaxFaults
    /\ dismissed \subseteq Row
    /\ replaced \subseteq Row

\* Every variable keeps its type: the columns of store.go and the locals of the
\* calls of attachment.go and blob.go.
TypeOK == StoreTypeOK /\ ServiceTypeOK /\ PlaceTypeOK /\ LocalTypeOK /\ CountTypeOK

\* An attachment id names one row for good: the ids a call holds since its
\* FindAttachments, however long ago, never delete a row it did not read.
\* (attachment.go deletes by id, store.go never reuses one.)
IdsNameOneRow ==
    \A r, q \in Refs \union Stale : r.id = q.id => r = q

\* OneAttached.Attach never costs the record its attachment: whatever row it
\* replaced, a newer row of the same association is there, or was removed by a
\* Detach or a Purge.  (Attach inserts the new row before it deletes the old.)
NothingLost ==
    \A r \in replaced : \E m \in attachments \union dismissed :
        m.slot = r.slot /\ m.id > r.id

\* The service holds bytes no row knows of only if an upload stored them when a
\* Purge had already deleted the object: a Purge that stops half way leaves none
\* (it deletes the object before the row), and neither does a creation that fails
\* (it persists the row before it uploads).
NoOrphanObjects == objects \ blobs \subseteq revived

\* Without a failing seam a row without bytes is in the middle of an upload or
\* of a purge, whatever the interleaving.  (The rows of direct uploads, whose
\* bytes the client brings, are in module Blob.)
BrokenOnlyByFault ==
    faults = 0 => \A b \in blobs \ objects : \E p \in Procs :
        blob[p] = b /\ pc[p] \in {"Upload", "DeleteBlob"}

\* A blob that was uploaded keeps its row until it is purged, by a caller or
\* through an attachment, and its bytes unless another upload of it fails:
\* replacing and detaching leave both in place.
HandedOutIsStored ==
    \A b \in known :
        \/ b \in blobs /\ b \in objects \union failed
        \/ b \in released
        \/ \E r \in dismissed : r.blob = b

\* What a call that returned nil has taken away for good: the row of a blob, and
\* its bytes, unless an upload stored them after the Purge had deleted them.
GoneForGood(b) == b \notin blobs /\ (b \in objects => b \in revived)

\* A Detach or Purge that returns nil has removed every row it read, and none of
\* them comes back; a Purge also the blobs of those rows and their bytes, for good.
OkMeansDone ==
    \A p \in Procs : pc[p] = "idle" /\ result[p] = "ok" =>
        /\ listed[p] \intersect attachments = {}
        /\ op[p] \in Purgers => \A r \in listed[p] : GoneForGood(r.blob)
        /\ op[p] = "blob.Purge" => GoneForGood(blob[p])

\* A call that returns an error though no seam failed has found that one of its
\* rows was gone, or has removed one: calling it again gets further.
RetryProgress ==
    CachesBlob /\ faults = 0 =>
        \A p \in Procs : result[p] = "err" /\ listed[p] # {} =>
            \E r \in listed[p] : r \notin attachments

\* Every call returns: the loops run over a list read once.
CallsReturn == \A p \in Procs : pc[p] # "idle" ~> pc[p] = "idle"

\* "OneAttached models a has_one_attached association: a single, named attachment
\* on a record", and Attach replaces "any existing attachment": when no seam has
\* failed and every call has returned nil, an association has at most one row.
SingleAttachment ==
    faults = 0 /\ (\A p \in Procs : pc[p] = "idle" /\ result[p] # "err") =>
        \A s \in Slots : Cardinality(FindAttachments(s)) <= 1

\* "Purge removes all attachment records and purges their blobs": when a lone
\* ManyAttached.Purge has returned and no seam has failed, no row it read is left.
ManyPurgeRemovesAll ==
    \A p \in Procs :
        faults = 0 /\ pc[p] = "idle" /\ op[p] = "many.Purge" =>
            listed[p] \intersect attachments = {}

\* The last row of an association, as the register of HasOne: what
\* OneAttached.Attachment returns.
Current(s) ==
    IF FindAttachments(s) = {} THEN [id |-> 0, blob |-> 0]
    ELSE LET r == CHOOSE r \in Newest(FindAttachments(s)) : TRUE
         IN [id |-> r.id, blob |-> r.blob]

Registers == [s \in Slots |-> Current(s)]

\* The associations a Detach or a Purge is about to take a row from.
Clearing == {slot[p] : p \in {q \in Procs :
                pc[q] = "DeleteAttachment" /\ op[q] \in Detachers \union Purgers}}

Register == INSTANCE HasOne WITH
    Blobs <- Nat,
    current <- Registers,
    last <- nextAttID,
    clearing <- Clearing

\* OneAttached is a register: an attach takes effect in one step, a value is lost
\* to nothing but a newer one or a Detach or Purge under way, and one replaced,
\* detached or purged never comes back.
IsRegister == Register!Spec
=============================================================================
