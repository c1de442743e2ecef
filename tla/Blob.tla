--------------------------------- MODULE Blob ---------------------------------
(***************************************************************************)
(* The operations of blob.go, composed of the row operations of ModelStore *)
(* and the calls of DiskService: a blob operation is a frame on top of a   *)
(* service call, at[p] is where its process stands in it, and while at[p]  *)
(* is "service" the steps of DiskService run.                              *)
(*                                                                         *)
(* A *Blob is shared: MemStore hands every caller the same pointer, so its *)
(* Checksum is one variable per blob.  Blobs are numbered as they are      *)
(* built, and the number is also the storage key, which buildBlob draws    *)
(* fresh.  A blob's row id is 0 until InsertBlob assigns it.               *)
(***************************************************************************)
EXTENDS DiskService

CONSTANTS
    BlobCalls,   \* the operations callers use
    MaxOps       \* bound: operations begun in a behaviour

BlobOps == {"CreateAndUpload", "BuildAfterUpload", "CreateBeforeDirectUpload",
            "PUT", "Upload", "Download", "Open", "Purge"}

ASSUME BlobCallsAssumption == BlobCalls \subseteq BlobOps
ASSUME OpsAssumption == MaxOps \in Nat /\ MaxOps <= MaxCalls
ASSUME KeysAssumption == Keys = 1 .. MaxOps

VARIABLES
    blobs, nextBlobID,  \* the rows of ModelStore
    built,       \* number of blobs built
    handed,      \* blobs a caller has been given
    id,          \* id[b]: b.ID
    checksum,    \* checksum[b]: b.Checksum
    minted,      \* minted[b]: the checksums tokens of direct uploads to b carry
    at, frame,   \* where each process stands, and in which operation
    cur,         \* the blob it works on
    input,       \* the content it was given
    token,       \* the checksum in the token of a PUT
    outcome,     \* what its last operation returned, or will once its file is gone
    temps,       \* temps[p]: the temporary files of its Opens that exist
    ops,         \* operations begun so far
    overlapped,  \* history: blobs two calls have changed at a time
    revived,     \* history: blobs whose object an upload created after a purge
                 \* had deleted it
    stuck,       \* history: the removals of its temporary files that failed
    late         \* history: blobs PUT with a token older than their checksum

Store == INSTANCE ModelStore WITH Slots <- {}, attachments <- {}, nextAttID <- 0

rowVars == <<blobs, nextBlobID, id>>
sums == <<checksum, minted, late>>
history == <<overlapped, revived>>
tempVars == <<temps, stuck>>
frameVars == <<frame, cur, input, token>>
blobVars == <<rowVars, built, handed, sums, at, frameVars, outcome, tempVars, ops, history>>
vars == <<diskVars, blobVars>>

Init ==
    /\ DiskInit
    /\ blobs = {} /\ nextBlobID = 0 /\ built = 0 /\ handed = {}
    /\ id = [b \in Keys |-> 0]
    /\ checksum = [b \in Keys |-> NoSum]
    /\ minted = [b \in Keys |-> {}] /\ late = {}
    /\ at = [p \in Procs |-> "idle"]
    /\ frame = [p \in Procs |-> "none"]
    /\ cur = [p \in Procs |-> 0]
    /\ input = [p \in Procs |-> NoSum]
    /\ token = [p \in Procs |-> NoSum]
    /\ outcome = [p \in Procs |-> "none"]
    /\ temps = [p \in Procs |-> 0] /\ stuck = [p \in Procs |-> 0] /\ ops = 0
    /\ overlapped = {} /\ revived = {}

-----------------------------------------------------------------------------

Creators == {"CreateAndUpload", "BuildAfterUpload", "CreateBeforeDirectUpload"}
Changers == Creators \union {"PUT", "Upload", "Purge"}

Changing(q, b) == at[q] # "idle" /\ cur[q] = b /\ frame[q] \in Changers

\* The blobs a caller can get hold of: those it was given and those Config.FindBlob
\* finds by row number, from InsertBlob on, whether or not their bytes ever come.
Held == handed \union {b \in 1 .. built : Store!FindBlob(id[b])}

Enter(p, o, b, v, c, first) ==
    /\ at[p] = "idle" /\ ops < MaxOps /\ o \in BlobCalls
    /\ ops' = ops + 1
    /\ at' = [at EXCEPT ![p] = first]
    /\ frame' = [frame EXCEPT ![p] = o]
    /\ cur' = [cur EXCEPT ![p] = b]
    /\ input' = [input EXCEPT ![p] = v]
    /\ token' = [token EXCEPT ![p] = c]
    /\ outcome' = [outcome EXCEPT ![p] = "none"]
    /\ overlapped' = IF o \in Changers /\ \E q \in Procs : Changing(q, b)
                     THEN overlapped \union {b} ELSE overlapped
    /\ handed' = IF o \in Creators THEN handed ELSE handed \union {b}
    /\ UNCHANGED <<diskVars, rowVars, tempVars, revived>>

\* unfurl and buildBlob: a new blob with a fresh key and the checksum of its
\* content (for a direct upload: of the content the client announces).
EnterCreate(p) == \E o \in Creators, v \in Streams :
    /\ Enter(p, o, built + 1, v, NoSum,
             IF o = "BuildAfterUpload" THEN "uploadBytes" ELSE "InsertBlob")
    /\ built' = built + 1
    /\ checksum' = [checksum EXCEPT ![built + 1] = v]
    /\ minted' = [minted EXCEPT ![built + 1] = {v}]
    /\ UNCHANGED late

\* The host stores what the client of a direct upload PUTs, with the checksum of
\* the client's token: whichever b.Checksum was when DirectUpload minted it.
EnterPut(p) == \E b \in Held, v \in Streams : \E c \in minted[b] :
    /\ Enter(p, "PUT", b, v, c, "uploadBytes")
    /\ late' = IF c = checksum[b] THEN late ELSE late \union {b}
    /\ UNCHANGED <<built, checksum, minted>>

\* Blob.Upload reads all of its content first.
EnterUpload(p) == \E b \in Held, v \in Streams :
    /\ Enter(p, "Upload", b, v, NoSum, "Checksum")
    /\ UNCHANGED <<built, sums>>

EnterRead(p) == \E o \in {"Download", "Open"}, b \in Held :
    /\ Enter(p, o, b, NoSum, NoSum, "Download")
    /\ UNCHANGED <<built, sums>>

\* Faulty variant: Blob.Purge deletes the row and leaves the object.
EnterPurgeRow(p) == \E b \in Held :
    /\ Enter(p, "Purge", b, NoSum, NoSum, "DeleteBlob")
    /\ UNCHANGED <<built, sums>>

EnterPurge(p) == \E b \in Held :
    /\ Enter(p, "Purge", b, NoSum, NoSum, "Delete")
    /\ UNCHANGED <<built, sums>>

-----------------------------------------------------------------------------

Advance(p, l) == at' = [at EXCEPT ![p] = l] /\ UNCHANGED outcome

Finish(p, r) ==
    /\ at' = [at EXCEPT ![p] = "idle"]
    /\ outcome' = [outcome EXCEPT ![p] = r]

\* The store fails: nothing was changed, and the error is returned.
StoreFault(p) ==
    /\ CountFault
    /\ Finish(p, "err")
    /\ UNCHANGED <<dir, data, pc, callVars, handles, result, calls, diskHistory>>
    /\ UNCHANGED <<rowVars, built, handed, sums, frameVars, tempVars, ops, history>>

InsertRow(p) ==
    /\ at[p] = "InsertBlob"
    /\ \/ /\ Store!InsertBlob
          /\ id' = [id EXCEPT ![cur[p]] = nextBlobID']
          /\ IF frame[p] = "CreateAndUpload"
             THEN Advance(p, "uploadBytes") /\ UNCHANGED handed
             ELSE Finish(p, "ok") /\ handed' = handed \union {cur[p]}
          /\ UNCHANGED <<diskVars, built, sums, frameVars, tempVars, ops, history>>
       \/ StoreFault(p)

\* Faulty variant: a checksum that is there is kept.
NewChecksumKept(b, v) == IF checksum[b] = NoSum THEN v ELSE checksum[b]

\* What Blob.Upload stores in b.Checksum.
NewChecksum(b, v) == v

\* Blob.Upload writes the shared ByteSize and Checksum (and no row) ...
SetChecksum(p) ==
    /\ at[p] = "Checksum"
    /\ checksum' = [checksum EXCEPT ![cur[p]] = NewChecksum(cur[p], input[p])]
    /\ minted' = [minted EXCEPT ![cur[p]] = @ \union {checksum'[cur[p]]}]
    /\ Advance(p, "uploadBytes")
    /\ UNCHANGED <<diskVars, rowVars, built, handed, late, frameVars, tempVars, ops, history>>

\* Faulty variant: the service is given no checksum.
NoChecksum(p) == NoSum

\* ... and uploadBytes reads the shared Checksum again for the service; a PUT
\* brings the one of its token.
PassedChecksum(p) == IF frame[p] = "PUT" THEN token[p] ELSE checksum[cur[p]]

CallService(p) ==
    /\ \/ at[p] = "uploadBytes" /\ Upload(p, cur[p], input[p], PassedChecksum(p))
       \/ at[p] = "Download" /\ Download(p, cur[p])
       \/ at[p] = "Delete" /\ Delete(p, cur[p])
    /\ Advance(p, "service")
    /\ UNCHANGED <<rowVars, built, handed, sums, frameVars, tempVars, ops, history>>

\* The service has done what q called it for.
Deleted(q) == at[q] = "service" /\ result[q] = "ok"

\* A Purge has deleted the object of b, and the row or is about to delete that.
Purged(b) ==
    \/ id[b] # 0 /\ id[b] \notin blobs
    \/ \E q \in Procs : /\ frame[q] = "Purge" /\ cur[q] = b
                        /\ at[q] = "DeleteBlob" \/ Deleted(q)

InService(p) ==
    /\ at[p] = "service" /\ DiskStep(p)
    /\ revived' = IF dir[cur[p]] = 0 /\ dir'[cur[p]] # 0 /\ Purged(cur[p])
                  THEN revived \union {cur[p]} ELSE revived
    /\ UNCHANGED <<rowVars, built, handed, sums, at, frameVars, outcome, tempVars, ops, overlapped>>

\* The service has returned; its error is returned at once.
ServiceReturned(p) ==
    /\ at[p] = "service" /\ pc[p] = "idle"
    /\ CASE result[p] = "err" -> Finish(p, "err") /\ UNCHANGED handed
         [] result[p] = "ok" /\ frame[p] = "Open" -> Advance(p, "compare") /\ UNCHANGED handed
         [] result[p] = "ok" /\ frame[p] = "Purge" -> Advance(p, "DeleteBlob") /\ UNCHANGED handed
         [] OTHER -> Finish(p, "ok") /\ handed' = handed \union {cur[p]}
    /\ UNCHANGED <<diskVars, rowVars, built, sums, frameVars, tempVars, ops, history>>

\* Blob.Purge deletes the row last; a blob that was never saved has none.
DeleteRow(p) ==
    /\ at[p] = "DeleteBlob"
    /\ \/ /\ Store!DeleteBlob(id[cur[p]])
          /\ Finish(p, "ok")
          /\ UNCHANGED <<diskVars, id, built, handed, sums, frameVars, tempVars, ops, history>>
       \/ /\ ~ Store!FindBlob(id[cur[p]])
          /\ Finish(p, "err")
          /\ UNCHANGED <<diskVars, rowVars, built, handed, sums, frameVars, tempVars, ops, history>>
       \/ StoreFault(p)

-----------------------------------------------------------------------------
(* Blob.Open, once it has downloaded the bytes.                             *)

\* Faulty variant: the bytes are taken as they come.
IntactAlways(p) == TRUE

\* checksumOf(data) = b.Checksum, with the Checksum of now.
Intact(p) == checksum[cur[p]] # NoSum /\ got[p] = Whole(checksum[cur[p]])

Compare(p) ==
    /\ at[p] = "compare"
    /\ \/ Intact(p) /\ Advance(p, "CreateTemp")
       \/ ~ Intact(p) /\ Finish(p, "err")
    /\ UNCHANGED <<diskVars, rowVars, built, handed, sums, frameVars, tempVars, ops, history>>

CreateTemp(p) ==
    /\ at[p] = "CreateTemp"
    /\ \/ /\ temps' = [temps EXCEPT ![p] = @ + 1]
          /\ Advance(p, "FillTemp")
          /\ UNCHANGED <<diskVars, rowVars, built, handed, sums, frameVars, stuck, ops, history>>
       \/ StoreFault(p)

\* Open has its result and goes on to remove the temporary file.
GiveUp(p, r) ==
    /\ at' = [at EXCEPT ![p] = "Remove"]
    /\ outcome' = [outcome EXCEPT ![p] = r]

\* Faulty variant: Open returns at once when the file cannot be filled.
FillFailsAtOnce(p) == Finish(p, "err")

FillFails(p) == GiveUp(p, "err")

\* Write, Close and os.Open of the temporary file.
FillTemp(p) ==
    /\ at[p] = "FillTemp"
    /\ \/ Advance(p, "fn") /\ UNCHANGED faults
       \/ CountFault /\ FillFails(p)
    /\ UNCHANGED <<dir, data, pc, callVars, handles, result, calls, diskHistory>>
    /\ UNCHANGED <<rowVars, built, handed, sums, frameVars, tempVars, ops, history>>

\* The caller's function returns, with or without an error.
RunFn(p) ==
    /\ at[p] = "fn"
    /\ \E r \in {"ok", "err"} : GiveUp(p, r)
    /\ UNCHANGED <<diskVars, rowVars, built, handed, sums, frameVars, tempVars, ops, history>>

\* fsRemove is best effort: where it fails the file stays and nobody is told.
RemoveTemp(p) ==
    /\ at[p] = "Remove"
    /\ Advance(p, "idle")
    /\ \/ temps' = [temps EXCEPT ![p] = @ - 1] /\ UNCHANGED <<stuck, faults>>
       \/ CountFault /\ stuck' = [stuck EXCEPT ![p] = @ + 1] /\ UNCHANGED temps
    /\ UNCHANGED <<dir, data, pc, callVars, handles, result, calls, diskHistory>>
    /\ UNCHANGED <<rowVars, built, handed, sums, frameVars, ops, history>>

-----------------------------------------------------------------------------

BlobStep(p) ==
    \/ InsertRow(p) \/ SetChecksum(p) \/ CallService(p) \/ InService(p)
    \/ ServiceReturned(p) \/ DeleteRow(p)
    \/ Compare(p) \/ CreateTemp(p) \/ FillTemp(p) \/ RunFn(p) \/ RemoveTemp(p)

Next == \E p \in Procs :
    \/ EnterCreate(p) \/ EnterPut(p) \/ EnterUpload(p) \/ EnterRead(p) \/ EnterPurge(p)
    \/ BlobStep(p)

Spec == Init /\ [][Next]_vars

-----------------------------------------------------------------------------

BlobLabels == {"idle", "InsertBlob", "Checksum", "uploadBytes", "Download", "Delete", "service",
               "DeleteBlob", "compare", "CreateTemp", "FillTemp", "fn", "Remove"}

RowTypeOK ==
    /\ nextBlobID \in Nat /\ blobs \subseteq 1 .. nextBlobID
    /\ id \in [Keys -> 0 .. nextBlobID]
    /\ ops \in 0 .. MaxOps /\ built \in 0 .. ops /\ handed \subseteq 1 .. built
    /\ temps \in [Procs -> Int] /\ stuck \in [Procs -> Nat]
    /\ revived \subseteq 1 .. built

SumTypeOK ==
    /\ checksum \in [Keys -> Streams \union {NoSum}]
    /\ minted \in [Keys -> SUBSET Streams]
    /\ late \subseteq handed /\ overlapped \subseteq handed

FrameTypeOK ==
    /\ at \in [Procs -> BlobLabels]
    /\ frame \in [Procs -> BlobOps \union {"none"}]
    /\ cur \in [Procs -> 0 .. built]
    /\ input \in [Procs -> Streams \union {NoSum}]
    /\ token \in [Procs -> Streams \union {NoSum}]
    /\ outcome \in [Procs -> {"none", "ok", "err"}]
    /\ \A p \in Procs : pc[p] # "idle" => at[p] = "service"

\* Every variable keeps its type; row ids are those the store gave out.
TypeOK == RowTypeOK /\ SumTypeOK /\ FrameTypeOK

\* The function given to Open sees one content whole, though uploads of the same
\* blob truncate and rewrite the object while it is downloaded.
OpenYieldsWhole ==
    \A p \in Procs : at[p] = "fn" => \E v \in Streams : got[p] = Whole(v)

\* A temporary file outlives its Open only where its own removal failed: whichever
\* call before that fails and whatever the caller's function returns, there are as
\* many files as removals that failed, and one more while an Open has its own.
TempFilesRemoved ==
    \A p \in Procs :
        temps[p] = stuck[p] + IF at[p] \in {"FillTemp", "fn", "Remove"} THEN 1 ELSE 0

\* With no failing seam, the object of a blob, where there is one, has the blob's
\* checksum whenever nobody is changing the blob; unless two calls have changed it
\* at a time, or the client of a direct upload came with a token from before the
\* blob was uploaded anew.
StoredMatchesChecksum ==
    faults = 0 => \A b \in handed \ (late \union overlapped) :
        dir[b] # 0 /\ (\A q \in Procs : ~ Changing(q, b)) =>
            Stored(b) = Whole(checksum[b])

\* Uploading to a blob that no two calls have changed at a time, with no failing
\* seam, succeeds: it is not taken for a corruption.
UploadSucceeds ==
    faults = 0 => \A p \in Procs :
        /\ frame[p] \in {"CreateAndUpload", "BuildAfterUpload", "Upload"}
        /\ cur[p] \notin overlapped
        => outcome[p] # "err"

\* A Purge leaves no object without a row, whatever fails and whoever purges, be it
\* a blob found by its number while it is created or after that failed: the one way
\* to such an object, which nobody could find any more, is an upload that creates it
\* after a Purge has deleted it.  A row without an object can be purged again.
RowOutlivesObject ==
    \A b \in 1 .. built \ revived : dir[b] # 0 /\ id[b] # 0 => id[b] \in blobs
=============================================================================
