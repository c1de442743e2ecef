--------------------------------- MODULE Variant ---------------------------------
(***************************************************************************)
(* The variants of variant.go: Variant.Process, Variant.Processed and the  *)
(* key both use, with Blob.Purge, on top of the calls of DiskService.      *)
(*                                                                         *)
(* The objects are those of the blobs, uploaded before the behaviour       *)
(* starts and possibly uploaded anew during it, and those of their         *)
(* variants.  Any number of processes may process the same variant at a    *)
(* time.  The Transformer is a seam: it is a function of its input, which  *)
(* may be a mixture of two contents, and it may fail.  A Transformer and a *)
(* verifier for the keys are configured; without them Process and          *)
(* Processed return before they touch anything.                            *)
(***************************************************************************)
EXTENDS DiskService

CONSTANTS
    Blobs,       \* the blobs: numbers from one
    Contents,    \* what blobs may contain
    Torn,        \* what is read of a blob while it is written: no content of it
    Variations,  \* the transformations
    Original,    \* no transformation
    MaxOps       \* bound: operations begun in a behaviour

ASSUME BlobsAssumption == IsFiniteSet(Blobs) /\ Blobs = 1 .. Cardinality(Blobs)
ASSUME VariationsAssumption == Original \notin Variations
ASSUME VariantKeys == Keys = Blobs \X (Variations \union {Original})
ASSUME TornAssumption == Torn \notin Contents
ASSUME VariantStreams ==
    Streams = (Contents \union {Torn}) \X (Variations \union {Original})
ASSUME VariantOpsAssumption == MaxOps \in Nat /\ 2 * MaxOps <= MaxCalls

\* No two contents are empty: different contents are told apart when they are read.
ASSUME ContentsAssumption == \A c, d \in Contents :
    Length[<<c, Original>>] = 0 /\ Length[<<d, Original>>] = 0 => c = d

\* Blob.Upload and Process give the service bytes that are in memory.
ASSUME ReaderAssumption == ~ ReaderFails

VARIABLES
    content,   \* content[b]: what b was last given to contain
    at, frame, \* where each process stands, and in which operation
    target,    \* the blob and the variation it works on
    outcome,   \* what its last operation returned
    ops,       \* operations begun so far
    processed, \* history: variants processed since their blob was uploaded
    had,       \* history: had[b]: all that b was given to contain
    mixed      \* history: blobs used by another call while they were uploaded

variantHistory == <<processed, had, mixed>>
variantVars == <<content, at, frame, target, outcome, ops, variantHistory>>
vars == <<diskVars, variantVars>>

\* Faulty variant: the source is always the same blob.
FirstBlobKey(b) == <<1, Original>>

\* The key of a blob's own object.
BlobKey(b) == <<b, Original>>

\* Faulty variant: the key of the blob is no part of the key.
SharedKey(b, t) == <<1, t>>

\* "variants/<blob.key>/<digest of the variation's key>": one key for one blob
\* and one variation, and none of a blob's own (those have no slash).
Key(b, t) == <<b, t>>

Init ==
    /\ content \in [Blobs -> Contents]
    /\ \A b, c \in Blobs : b # c => content[b] # content[c]
    /\ dir = [k \in Keys |-> IF k[2] = Original THEN k[1] ELSE 0]
    /\ data = [b \in Blobs |-> Whole(<<content[b], Original>>)]
    /\ CallsInit
    /\ at = [p \in Procs |-> "idle"]
    /\ frame = [p \in Procs |-> "none"]
    /\ \E k \in Keys : target = [p \in Procs |-> k]
    /\ outcome = [p \in Procs |-> "none"]
    /\ ops = 0 /\ processed = {}
    /\ had = [b \in Blobs |-> {content[b]}]
    /\ mixed = {}

\* Process q works on blob b, in one of the operations os.
Using(q, b, os) == at[q] # "idle" /\ frame[q] \in os /\ target[q][1] = b

\* An Upload beside another call, or another call beside an Upload.
Mixes(o, b) == \E q \in Procs :
    Using(q, b, IF o = "Upload" THEN {"Process", "Upload", "Purge"} ELSE {"Upload"})

Enter(p, o, b, t, first) ==
    /\ at[p] = "idle" /\ ops < MaxOps
    /\ ops' = ops + 1
    /\ at' = [at EXCEPT ![p] = first]
    /\ frame' = [frame EXCEPT ![p] = o]
    /\ target' = [target EXCEPT ![p] = <<b, t>>]
    /\ outcome' = [outcome EXCEPT ![p] = "none"]
    /\ mixed' = IF Mixes(o, b) THEN mixed \union {b} ELSE mixed

EnterVariant(p) == \E b \in Blobs, t \in Variations :
    /\ \/ Enter(p, "Process", b, t, "Download")
       \/ Enter(p, "Processed", b, t, "Exist")
    /\ UNCHANGED <<diskVars, content, had, processed>>

\* Blob.Purge, as far as the service goes: the variants stay.
EnterPurge(p) == \E b \in Blobs :
    /\ Enter(p, "Purge", b, Original, "Delete")
    /\ UNCHANGED <<diskVars, content, had, processed>>

\* Blob.Upload of new content to the blob's own key, which does not change; nor do
\* those of its variants, which stay as they are.
EnterUpload(p) == \E b \in Blobs, c \in Contents :
    /\ Enter(p, "Upload", b, Original, "service")
    /\ Upload(p, BlobKey(b), <<c, Original>>, <<c, Original>>)
    /\ content' = [content EXCEPT ![b] = c]
    /\ had' = [had EXCEPT ![b] = @ \union {c}]
    /\ processed' = {v \in processed : v[1] # b}

Advance(p, l) == at' = [at EXCEPT ![p] = l] /\ UNCHANGED outcome

Finish(p, r) ==
    /\ at' = [at EXCEPT ![p] = "idle"]
    /\ outcome' = [outcome EXCEPT ![p] = r]

TargetKey(p) == Key(target[p][1], target[p][2])

\* The content downloaded, and the transformer's output for it, uploaded with no
\* checksum.
Source(p) ==
    IF \E c \in Contents : got[p] = Whole(<<c, Original>>)
    THEN CHOOSE c \in Contents : got[p] = Whole(<<c, Original>>) ELSE Torn
Output(p) == <<Source(p), target[p][2]>>

CallService(p) ==
    /\ \/ at[p] = "Download" /\ Download(p, BlobKey(target[p][1]))
       \/ at[p] = "Upload" /\ Upload(p, TargetKey(p), Output(p), NoSum)
       \/ at[p] = "Delete" /\ Delete(p, BlobKey(target[p][1]))
    /\ Advance(p, "service")
    /\ UNCHANGED <<content, frame, target, ops, variantHistory>>

InService(p) == at[p] = "service" /\ DiskStep(p) /\ UNCHANGED variantVars

ServiceReturned(p) ==
    /\ at[p] = "service" /\ pc[p] = "idle"
    /\ IF result[p] = "ok" /\ op[p] = "Download"
       THEN Advance(p, "Transform") /\ UNCHANGED processed
       ELSE /\ Finish(p, result[p])
            /\ processed' = IF result[p] = "ok" /\ frame[p] = "Process"
                            THEN processed \union {target[p]} ELSE processed
    /\ UNCHANGED <<diskVars, content, frame, target, ops, had, mixed>>

\* The transformation is made in memory; what was downloaded stays in got[p].
Transform(p) ==
    /\ at[p] = "Transform"
    /\ \/ Advance(p, "Upload") /\ UNCHANGED faults
       \/ CountFault /\ Finish(p, "err")
    /\ UNCHANGED <<dir, data, pc, callVars, handles, result, calls, diskHistory>>
    /\ UNCHANGED <<content, frame, target, ops, variantHistory>>

\* Service.Exist, one fsStat of the path.
Exist(p) ==
    /\ at[p] = "Exist"
    /\ \/ /\ dir[TargetKey(p)] # 0
          /\ Finish(p, "true")
          /\ UNCHANGED faults
       \/ /\ dir[TargetKey(p)] = 0
          /\ Finish(p, "false")
          /\ UNCHANGED faults
       \/ CountFault /\ Finish(p, "err")
    /\ UNCHANGED <<dir, data, pc, callVars, handles, result, calls, diskHistory>>
    /\ UNCHANGED <<content, frame, target, ops, variantHistory>>

Next == \E p \in Procs :
    \/ EnterVariant(p) \/ EnterPurge(p) \/ EnterUpload(p)
    \/ CallService(p) \/ InService(p) \/ ServiceReturned(p) \/ Transform(p) \/ Exist(p)

Spec == Init /\ [][Next]_vars

-----------------------------------------------------------------------------

\* Every variable keeps its type, and what is transformed is a content of the blob,
\* unless a failed upload of it could not remove what it had written: two failures.
TypeOK ==
    /\ dir \in [Keys -> 0 .. Len(data)]
    /\ at \in [Procs -> {"idle", "Download", "Transform", "Upload", "service", "Exist", "Delete"}]
    /\ frame \in [Procs -> {"none", "Process", "Processed", "Purge", "Upload"}]
    /\ target \in [Procs -> Keys]
    /\ outcome \in [Procs -> {"none", "ok", "err", "true", "false"}]
    /\ ops \in 0 .. MaxOps
    /\ processed \subseteq Blobs \X Variations
    /\ had \in [Blobs -> SUBSET Contents] /\ mixed \subseteq Blobs
    /\ faults <= 1 => \A p \in Procs :
         at[p] \in {"Transform", "Upload"} /\ target[p][1] \notin mixed =>
             Source(p) \in had[target[p][1]]

Rendition(c, t) == Whole(<<c, t>>)

BeingWritten(k) == \E q \in Procs : pc[q] \in {"copy", "close", "cleanup"} /\ key[q] = k

\* Where nobody is writing a variant, there is nothing or all of it, made from a
\* content of its own blob, though several calls write it over one another and one
\* of them fails; unless a call read the blob while it was uploaded.
VariantWhole ==
    faults <= 1 => \A b \in Blobs \ mixed, t \in Variations :
        dir[Key(b, t)] # 0 /\ ~ BeingWritten(Key(b, t)) =>
            \E c \in had[b] : Stored(Key(b, t)) = Rendition(c, t)

\* Once a Process has returned nil and nobody is processing the variant again, it
\* is there, purged blob or not, if no call has failed, and it is made from what the
\* blob contains now; if the blob has been uploaded anew, from the first Process
\* after that on.
ProcessStores ==
    faults = 0 => \A v \in processed :
        v[1] \notin mixed /\ ~ BeingWritten(Key(v[1], v[2])) =>
            /\ dir[Key(v[1], v[2])] # 0
            /\ Stored(Key(v[1], v[2])) = Rendition(content[v[1]], v[2])
=============================================================================
