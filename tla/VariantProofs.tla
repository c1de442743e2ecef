------------------------------ MODULE VariantProofs ------------------------------
(***************************************************************************)
(* The variants under any number of goroutines, blobs, variations and       *)
(* contents of any length.                                                  *)
(*                                                                         *)
(* Several Processes of one variant write one file, each from an offset of  *)
(* its own, truncating what the others have written.  That is harmless as   *)
(* long as they write the same chunks: then whoever truncated the file last *)
(* fills it from its start, and the file is whole when that one is done.    *)
(* They write the same because they have read the same, and they have as    *)
(* long as nobody uploads the blob while it is processed.                   *)
(***************************************************************************)
EXTENDS Variant, DiskProofs, FiniteSetTheorems

VariantLabels == {"idle", "Download", "Transform", "Upload", "service", "Exist", "Delete"}
VariantFrames == {"none", "Process", "Processed", "Purge", "Upload"}

ShapeOK ==
    /\ content \in [Blobs -> Contents]
    /\ at \in [Procs -> VariantLabels] /\ frame \in [Procs -> VariantFrames]
    /\ target \in [Procs -> Keys]
    /\ outcome \in [Procs -> {"none", "ok", "err", "true", "false"}]
    /\ ops \in 0 .. MaxOps
    /\ processed \subseteq Blobs \X Variations
    /\ had \in [Blobs -> SUBSET Contents] /\ mixed \subseteq Blobs

\* The service call of an operation, and how far it is.
CallAt(p) ==
    /\ at[p] = "service" =>
         \/ frame[p] = "Process" /\ op[p] = "Download" /\ key[p] = BlobKey(target[p][1])
         \/ frame[p] = "Process" /\ op[p] = "Upload" /\ key[p] = target[p] /\ sum[p] = NoSum
         \/ frame[p] = "Purge" /\ op[p] = "Delete" /\ key[p] = BlobKey(target[p][1])
         \/ frame[p] = "Upload" /\ op[p] = "Upload" /\ key[p] = BlobKey(target[p][1])
                                                  /\ sum[p] = stream[p]
    /\ pc[p] = "copy" => off[p] <= limit[p]
    /\ pc[p] = "close" => off[p] = limit[p]
    /\ pc[p] = "cleanup" => faults # 0

\* Which operation is where.
FrameAt(p) ==
    /\ at[p] \in {"Download", "Transform", "Upload"} => frame[p] = "Process"
    /\ at[p] = "Delete" => frame[p] = "Purge"
    /\ at[p] = "Exist" => frame[p] = "Processed"
    /\ at[p] # "idle" /\ frame[p] = "Process" => target[p][2] \in Variations
    /\ pc[p] # "idle" => at[p] = "service"

FrameOK == \A p \in Procs : FrameAt(p) /\ CallAt(p)

TypedInv == ServiceInv /\ ShapeOK /\ FrameOK

\* Process p begins an operation, or goes on with it.
VariantCall(p) == EnterVariant(p) \/ EnterPurge(p) \/ EnterUpload(p)
VariantStep(p) ==
    CallService(p) \/ InService(p) \/ ServiceReturned(p) \/ Transform(p) \/ Exist(p)

-----------------------------------------------------------------------------
(* What a step does to the service, and whose step it is.                   *)

LEMMA TypedParts ==
  ASSUME TypedInv
  PROVE  ShapeOK /\ DiskTypeOK /\ PlaceOK /\ FrameOK
  BY DEF TypedInv, ServiceInv, Owners, DiskType

LEMMA DiskTypes ==
  ASSUME DiskTypeOK
  PROVE  /\ pc \in [Procs -> DiskLabels] /\ result \in [Procs -> {"none", "ok", "err"}]
         /\ off \in [Procs -> Nat] /\ got \in [Procs -> Seq(Chunks)] /\ fd \in [Procs -> 0 .. Len(data)]
         /\ data \in Seq(Seq(Chunks)) /\ Len(data) \in Nat /\ dir \in [Keys -> 0 .. Len(data)]
         /\ faults \in Nat
  <1>1. FileTypeOK /\ PlaceTypeOK /\ HandleTypeOK
    BY DEF DiskTypeOK
  <1>2. data \in Seq(Seq(Chunks)) /\ dir \in [Keys -> 0 .. Len(data)] /\ faults \in Nat
    BY <1>1, DiskBoundsAssumption DEF FileTypeOK, Chunks
  <1>3. pc \in [Procs -> DiskLabels] /\ result \in [Procs -> {"none", "ok", "err"}]
    BY <1>1 DEF PlaceTypeOK
  <1>4. off \in [Procs -> Nat] /\ got \in [Procs -> Seq(Chunks)] /\ fd \in [Procs -> 0 .. Len(data)]
    BY <1>1 DEF HandleTypeOK, Chunks
  <1> QED BY <1>2, <1>3, <1>4

LEMMA KeyFacts ==
  /\ \A b \in Blobs : BlobKey(b) \in Keys /\ BlobKey(b)[1] = b /\ BlobKey(b)[2] = Original
  /\ \A b \in Blobs, t \in Variations : /\ Key(b, t) \in Keys /\ Key(b, t)[1] = b
                                       /\ Key(b, t)[2] = t /\ t # Original
  /\ \A k \in Keys : /\ k[1] \in Blobs /\ k[2] \in Variations \union {Original}
                    /\ k = Key(k[1], k[2])
  BY VariantKeys, VariationsAssumption DEF BlobKey, Key

LEMMA OriginalStreams == \A c \in Contents : <<c, Original>> \in Streams
  BY VariantStreams

LEMMA OutputStream ==
  ASSUME ShapeOK, NEW p \in Procs
  PROVE  Output(p) \in Streams /\ Source(p) \in Contents \union {Torn} /\ TargetKey(p) = target[p]
  <1>1. target[p] \in Keys
    BY DEF ShapeOK
  <1>2. Source(p) \in Contents \union {Torn}
    <2>1. CASE \E c \in Contents : got[p] = Whole(<<c, Original>>)
      <3>1. Source(p) = CHOOSE c \in Contents : got[p] = Whole(<<c, Original>>)
        BY <2>1 DEF Source
      <3> QED BY <2>1, <3>1
    <2>2. CASE ~ \E c \in Contents : got[p] = Whole(<<c, Original>>)
      BY <2>2 DEF Source
    <2> QED BY <2>1, <2>2
  <1> QED BY <1>1, <1>2, KeyFacts, VariantStreams DEF Output, TargetKey

\* The service calls of an operation that has begun.
LEMMA ServiceCalled ==
  ASSUME ShapeOK, NEW p \in Procs, CallService(p)
  PROVE  \/ /\ at[p] = "Download"
            /\ Begin(p, "Download", BlobKey(target[p][1]), NoSum, NoSum, 0, 0, "open")
         \/ /\ at[p] = "Upload"
            /\ Begin(p, "Upload", target[p], Output(p), NoSum, 0, Length[Output(p)], "create")
         \/ /\ at[p] = "Delete"
            /\ Begin(p, "Delete", BlobKey(target[p][1]), NoSum, NoSum, 0, 0, "remove")
  BY OutputStream DEF CallService, Download, Upload, Delete

LEMMA ServiceEffect ==
  ASSUME ShapeOK, NEW p \in Procs, VariantCall(p) \/ VariantStep(p)
  PROVE  DiskCall(p) \/ DiskStep(p) \/ Quiet
  <1>0. target[p] \in Keys /\ BlobKey(target[p][1]) \in Keys
    BY KeyFacts DEF ShapeOK
  <1>1. CASE EnterVariant(p) \/ EnterPurge(p) \/ ServiceReturned(p)
    BY <1>1 DEF EnterVariant, EnterPurge, ServiceReturned, Quiet, diskVars
  <1>2. CASE EnterUpload(p)
    <2>1. PICK b \in Blobs, c \in Contents : Upload(p, BlobKey(b), <<c, Original>>, <<c, Original>>)
      BY <1>2 DEF EnterUpload
    <2>2. /\ Opens(p, "Upload", BlobKey(b), <<c, Original>>, 0, Length[<<c, Original>>], "create")
          /\ BlobKey(b) \in Keys
      BY KeyFacts, OriginalStreams DEF Opens
    <2> QED BY <2>1, <2>2, OriginalStreams DEF DiskCall, Upload
  <1>3. CASE CallService(p)
    <2>1. CASE Begin(p, "Download", BlobKey(target[p][1]), NoSum, NoSum, 0, 0, "open")
      <3>1. Opens(p, "Download", BlobKey(target[p][1]), NoSum, 0, 0, "open")
        BY DEF Opens
      <3> QED BY <1>0, <2>1, <3>1 DEF DiskCall
    <2>2. CASE Begin(p, "Upload", target[p], Output(p), NoSum, 0, Length[Output(p)], "create")
      <3>1. Opens(p, "Upload", target[p], Output(p), 0, Length[Output(p)], "create")
        BY OutputStream DEF Opens
      <3> QED BY <1>0, <2>2, <3>1, OutputStream DEF DiskCall
    <2>3. CASE Begin(p, "Delete", BlobKey(target[p][1]), NoSum, NoSum, 0, 0, "remove")
      <3>1. Opens(p, "Delete", BlobKey(target[p][1]), NoSum, 0, 0, "remove")
        BY DEF Opens
      <3> QED BY <1>0, <2>3, <3>1 DEF DiskCall
    <2> QED BY <1>3, <2>1, <2>2, <2>3, ServiceCalled
  <1>4. CASE InService(p)
    BY <1>4 DEF InService
  <1>5. CASE Transform(p) \/ Exist(p)
    BY <1>5 DEF Transform, Exist, Quiet
  <1> QED BY <1>1, <1>2, <1>3, <1>4, <1>5 DEF VariantCall, VariantStep

LEMMA ServiceKept ==
  ASSUME ServiceInv, ShapeOK, NEW p \in Procs, VariantCall(p) \/ VariantStep(p)
  PROVE  ServiceInv'
  BY ServiceEffect, ServiceStep, ServiceQuiet

\* The operations that begin with no call of the service.
Starts(o, t, l) ==
    \/ o = "Process" /\ t \in Variations /\ l = "Download"
    \/ o = "Processed" /\ t \in Variations /\ l = "Exist"
    \/ o = "Purge" /\ t = Original /\ l = "Delete"

LEMMA CallBegins ==
  ASSUME NEW p \in Procs, VariantCall(p)
  PROVE  \/ EnterUpload(p)
         \/ /\ \E b \in Blobs, t \in Variations \union {Original}, o \in VariantFrames,
                  l \in VariantLabels : Enter(p, o, b, t, l) /\ Starts(o, t, l)
            /\ UNCHANGED <<diskVars, content, had, processed>>
  <1>0. /\ {"Process", "Processed", "Purge"} \subseteq VariantFrames
        /\ {"Download", "Exist", "Delete"} \subseteq VariantLabels
    BY DEF VariantFrames, VariantLabels
  <1>1. CASE EnterVariant(p)
    <2>1. PICK b \in Blobs, t \in Variations :
            /\ Enter(p, "Process", b, t, "Download") \/ Enter(p, "Processed", b, t, "Exist")
            /\ UNCHANGED <<diskVars, content, had, processed>>
      BY <1>1 DEF EnterVariant
    <2>2. Starts("Process", t, "Download") /\ Starts("Processed", t, "Exist")
      BY DEF Starts
    <2> QED BY <1>0, <2>1, <2>2
  <1>2. CASE EnterPurge(p)
    <2>1. PICK b \in Blobs : /\ Enter(p, "Purge", b, Original, "Delete")
                            /\ UNCHANGED <<diskVars, content, had, processed>>
      BY <1>2 DEF EnterPurge
    <2>2. Starts("Purge", Original, "Delete")
      BY DEF Starts
    <2> QED BY <1>0, <2>1, <2>2
  <1> QED BY <1>1, <1>2 DEF VariantCall

\* An operation goes on: its blob stays, and nobody gives a blob another content.
LEMMA StepFrame ==
  ASSUME TypedInv, NEW p \in Procs, VariantStep(p)
  PROVE  /\ UNCHANGED <<content, frame, target, ops, had, mixed>>
         /\ at[p] # "idle" /\ \E l \in VariantLabels : at' = [at EXCEPT ![p] = l]
         /\ \/ outcome' = outcome
            \/ \E r \in {"none", "ok", "err", "true", "false"} : outcome' = [outcome EXCEPT ![p] = r]
         /\ \/ processed' = processed
            \/ /\ processed' = processed \union {target[p]} /\ frame[p] = "Process"
               /\ at[p] = "service" /\ pc[p] = "idle" /\ result[p] = "ok" /\ op[p] # "Download"
  <1>0. \A l : l \in {"idle", "service", "Transform", "Upload"} => l \in VariantLabels
    BY DEF VariantLabels
  <1>1. CASE CallService(p)
    BY <1>0, <1>1 DEF CallService, Advance, variantHistory
  <1>2. CASE InService(p)
    <2>1. at' = at /\ at = [at EXCEPT ![p] = at[p]] /\ at[p] \in VariantLabels
      BY <1>2 DEF InService, variantVars, TypedInv, ShapeOK
    <2> QED BY <1>2, <2>1 DEF InService, variantVars, variantHistory
  <1>3. CASE ServiceReturned(p)
    <2>1. at[p] = "service" /\ pc[p] = "idle" /\ UNCHANGED <<content, frame, target, ops, had, mixed>>
      BY <1>3 DEF ServiceReturned
    <2>2. CASE result[p] = "ok" /\ op[p] = "Download"
      BY <1>0, <1>3, <2>1, <2>2 DEF ServiceReturned, Advance
    <2>3. CASE ~ (result[p] = "ok" /\ op[p] = "Download")
      <3>1. Finish(p, result[p]) /\ result[p] \in {"none", "ok", "err"}
        BY <1>3, <2>3, TypedParts DEF ServiceReturned, DiskTypeOK, PlaceTypeOK
      <3>2. processed' = IF result[p] = "ok" /\ frame[p] = "Process"
                         THEN processed \union {target[p]} ELSE processed
        BY <1>3, <2>3 DEF ServiceReturned
      <3> QED BY <1>0, <2>1, <2>3, <3>1, <3>2 DEF Finish
    <2> QED BY <2>2, <2>3
  <1>4. CASE Transform(p) \/ Exist(p)
    BY <1>0, <1>4 DEF Transform, Exist, Advance, Finish, variantHistory
  <1> QED BY <1>1, <1>2, <1>3, <1>4 DEF VariantStep

\* A step is of one goroutine: the others stay where they are.
LEMMA OthersStay ==
  ASSUME TypedInv, NEW p \in Procs, VariantCall(p) \/ VariantStep(p), NEW q \in Procs, q # p
  PROVE  /\ at'[q] = at[q] /\ frame'[q] = frame[q] /\ target'[q] = target[q]
         /\ outcome'[q] = outcome[q]
         /\ pc'[q] = pc[q] /\ op'[q] = op[q] /\ key'[q] = key[q] /\ stream'[q] = stream[q]
         /\ sum'[q] = sum[q] /\ fd'[q] = fd[q] /\ off'[q] = off[q] /\ limit'[q] = limit[q]
         /\ got'[q] = got[q] /\ result'[q] = result[q]
  <1>1. /\ pc'[q] = pc[q] /\ op'[q] = op[q] /\ key'[q] = key[q] /\ stream'[q] = stream[q]
        /\ sum'[q] = sum[q] /\ fd'[q] = fd[q] /\ off'[q] = off[q] /\ limit'[q] = limit[q]
        /\ got'[q] = got[q] /\ result'[q] = result[q]
    <2>1. CASE Quiet
      BY <2>1 DEF Quiet, callVars, handles
    <2>2. CASE DiskCall(p) \/ DiskStep(p)
      BY <2>2, OthersKept DEF TypedInv, ServiceInv, Owners, DiskType
    <2> QED BY <2>1, <2>2, ServiceEffect DEF TypedInv
  <1> USE DEF TypedInv, ShapeOK
  <1>2. CASE VariantCall(p)
    <2>1. PICK b, t, o, l : Enter(p, o, b, t, l)
      <3>1. CASE EnterUpload(p)
        BY <3>1 DEF EnterUpload
      <3> QED BY <1>2, <3>1, CallBegins
    <2> QED BY <1>1, <2>1 DEF Enter
  <1>3. CASE VariantStep(p)
    BY <1>1, <1>3, StepFrame
  <1> QED BY <1>2, <1>3

LEMMA FaultsGrow ==
  ASSUME TypedInv, NEW p \in Procs, VariantCall(p) \/ VariantStep(p)
  PROVE  faults \in Nat /\ faults' \in Nat /\ (faults' = faults \/ faults' = faults + 1)
  <1>1. faults \in Nat
    BY DiskBoundsAssumption, TypedParts DEF DiskTypeOK, FileTypeOK
  <1>2. faults' = faults \/ faults' = faults + 1
    <2>1. CASE Quiet
      BY <2>1 DEF Quiet, CountFault
    <2>2. CASE DiskCall(p)
      <3>1. PICK o, k, v, c, from, upto, l : Begin(p, o, k, v, c, from, upto, l)
        BY <2>2 DEF DiskCall
      <3> QED BY <3>1 DEF Begin
    <2>3. CASE DiskStep(p)
      BY <2>3 DEF DiskStep, DiskFault, Create, Copy, Close, Cleanup, Remove, Open, Read, CountFault
    <2> QED BY <2>1, <2>2, <2>3, ServiceEffect DEF TypedInv
  <1> QED BY <1>1, <1>2

-----------------------------------------------------------------------------
(* Types and places.                                                        *)

LEMMA ShapeStep ==
  ASSUME TypedInv, NEW p \in Procs, VariantCall(p) \/ VariantStep(p)
  PROVE  ShapeOK'
  <1> USE DEF TypedInv, ShapeOK
  <1>0. "none" \in VariantFrames /\ "Upload" \in VariantFrames /\ "service" \in VariantLabels
        /\ \A n \in Nat : n < MaxOps /\ n \in 0 .. MaxOps => n + 1 \in 0 .. MaxOps
    BY VariantOpsAssumption DEF VariantFrames, VariantLabels
  <1>1. CASE VariantCall(p) /\ ~ EnterUpload(p)
    <2>1. PICK b \in Blobs, t \in Variations \union {Original}, o \in VariantFrames,
               l \in VariantLabels : Enter(p, o, b, t, l)
      BY <1>1, CallBegins
    <2>2. UNCHANGED <<content, had, processed>>
      BY <1>1, CallBegins
    <2>3. <<b, t>> \in Keys
      BY VariantKeys
    <2>4. mixed' \subseteq Blobs
      BY <2>1, Zenon DEF Enter
    <2>5. ops' \in 0 .. MaxOps
      BY <1>0, <2>1, VariantOpsAssumption DEF Enter
    <2> QED BY <2>1, <2>2, <2>3, <2>4, <2>5 DEF Enter
  <1>2. CASE EnterUpload(p)
    <2>1. PICK b \in Blobs, c \in Contents :
            /\ Enter(p, "Upload", b, Original, "service")
            /\ content' = [content EXCEPT ![b] = c]
            /\ had' = [had EXCEPT ![b] = @ \union {c}]
            /\ processed' = {v \in processed : v[1] # b}
      BY <1>2 DEF EnterUpload
    <2>2. <<b, Original>> \in Keys
      BY VariantKeys
    <2>3. mixed' \subseteq Blobs
      BY <2>1, Zenon DEF Enter
    <2>4. ops' \in 0 .. MaxOps
      BY <1>0, <2>1, VariantOpsAssumption DEF Enter
    <2>5. processed' \subseteq Blobs \X Variations
      BY <2>1, Zenon
    <2> QED BY <1>0, <2>1, <2>2, <2>3, <2>4, <2>5 DEF Enter
  <1>3. CASE VariantStep(p)
    <2>1. processed' \subseteq Blobs \X Variations
      <3>1. CASE processed' = processed
        BY <3>1
      <3>2. CASE processed' = processed \union {target[p]} /\ frame[p] = "Process" /\ at[p] = "service"
        <4>1. target[p][1] \in Blobs /\ target[p][2] \in Variations /\ target[p] \in Blobs \X (Variations \union {Original})
          BY <3>2, VariantKeys DEF FrameOK, FrameAt
        <4>2. target[p] \in Blobs \X Variations
          BY <4>1
        <4> QED BY <3>2, <4>2
      <3> QED BY <1>3, <3>1, <3>2, StepFrame
    <2> QED BY <1>3, <2>1, StepFrame
  <1> QED BY <1>1, <1>2, <1>3

LEMMA FrameStep ==
  ASSUME TypedInv, NEW p \in Procs, VariantCall(p) \/ VariantStep(p), NEW q \in Procs
  PROVE  FrameAt(q)'
  <1>0. /\ at \in [Procs -> VariantLabels] /\ frame \in [Procs -> VariantFrames]
        /\ target \in [Procs -> Keys] /\ pc \in [Procs -> DiskLabels]
    BY TypedParts DEF ShapeOK, DiskTypeOK, PlaceTypeOK
  <1>1. FrameAt(q)
    BY DEF TypedInv, FrameOK
  <1>2. CASE q # p
    BY <1>1, <1>2, OthersStay DEF FrameAt
  <1>3. CASE q = p /\ VariantCall(p) /\ ~ EnterUpload(p)
    <2>1. PICK b \in Blobs, t \in Variations \union {Original}, o \in VariantFrames,
               l \in VariantLabels : Enter(p, o, b, t, l) /\ Starts(o, t, l)
      BY <1>3, CallBegins
    <2>2. pc' = pc /\ at[p] = "idle"
      BY <1>3, <2>1, CallBegins DEF diskVars, Enter
    <2>3. at'[p] = l /\ frame'[p] = o /\ target'[p] = <<b, t>>
      BY <1>0, <2>1 DEF Enter
    <2> QED BY <1>1, <1>3, <2>1, <2>2, <2>3 DEF Starts, FrameAt
  <1>4. CASE q = p /\ EnterUpload(p)
    <2>1. at'[p] = "service" /\ frame'[p] = "Upload"
      BY <1>0, <1>4 DEF EnterUpload, Enter
    <2> QED BY <1>4, <2>1 DEF FrameAt
  <1>5. CASE q = p /\ VariantStep(p)
    <2>1. frame' = frame /\ target' = target /\ at[p] # "idle"
      BY <1>5, StepFrame
    <2>2. CASE CallService(p)
      <3>1. at'[p] = "service"
        BY <1>0, <2>2 DEF CallService, Advance
      <3> QED BY <1>1, <1>5, <2>1, <3>1 DEF FrameAt
    <2>3. CASE InService(p)
      <3>1. at[p] = "service" /\ at' = at
        BY <2>3 DEF InService, variantVars
      <3> QED BY <1>1, <1>5, <2>1, <3>1 DEF FrameAt
    <2>4. CASE ServiceReturned(p)
      <3>1. pc'[p] = "idle" /\ at[p] = "service"
        BY <2>4 DEF ServiceReturned, diskVars
      <3>2. CASE op[p] = "Download" /\ at'[p] = "Transform"
        <4>1. frame[p] = "Process"
          BY <3>1, <3>2 DEF TypedInv, FrameOK, CallAt
        <4> QED BY <1>1, <1>5, <2>1, <3>1, <3>2, <4>1 DEF FrameAt
      <3>3. CASE at'[p] = "idle"
        BY <1>5, <3>1, <3>3 DEF FrameAt
      <3>4. (op[p] = "Download" /\ at'[p] = "Transform") \/ at'[p] = "idle"
        BY <1>0, <2>4 DEF ServiceReturned, Advance, Finish
      <3> QED BY <3>2, <3>3, <3>4
    <2>5. CASE Transform(p) \/ Exist(p)
      <3>1. pc' = pc /\ at[p] \in {"Transform", "Exist"}
        BY <2>5 DEF Transform, Exist
      <3>2. at'[p] = "idle" \/ (at'[p] = "Upload" /\ at[p] = "Transform")
        BY <1>0, <2>5 DEF Transform, Exist, Advance, Finish
      <3> QED BY <1>1, <1>5, <2>1, <3>1, <3>2 DEF FrameAt
    <2> QED BY <1>5, <2>2, <2>3, <2>4, <2>5 DEF VariantStep
  <1> QED BY <1>2, <1>3, <1>4, <1>5

\* What a call of the service leaves in the variables of its process.
LEMMA BeginEffect ==
  ASSUME TypedInv, NEW p \in Procs, NEW o, NEW k, NEW v, NEW c, NEW upto, NEW l,
         Begin(p, o, k, v, c, 0, upto, l)
  PROVE  /\ pc'[p] = l /\ op'[p] = o /\ key'[p] = k /\ stream'[p] = v /\ sum'[p] = c
         /\ fd'[p] = 0 /\ off'[p] = 0 /\ got'[p] = <<>> /\ result'[p] = "none"
         /\ dir' = dir /\ data' = data /\ faults' = faults
         /\ alone'[p] <=> \A r \in Procs \ {p} : ~ Mutating(r, k)
         /\ \A q \in Procs \ {p} : alone'[q] <=> alone[q] /\ ~ (o \in Mutators /\ key[q] = k)
  <1>1. /\ pc'[p] = l /\ op'[p] = o /\ key'[p] = k /\ stream'[p] = v /\ sum'[p] = c
        /\ fd'[p] = 0 /\ off'[p] = 0 /\ got'[p] = <<>> /\ result'[p] = "none"
        /\ dir' = dir /\ data' = data /\ faults' = faults
    BY TypedParts DEF Begin, DiskTypeOK, PlaceTypeOK, HandleTypeOK
  <1>2. alone' = [q \in Procs |->
                   IF q = p THEN \A r \in Procs \ {p} : ~ Mutating(r, k)
                   ELSE alone[q] /\ ~ (o \in Mutators /\ key[q] = k)]
    BY DEF Begin
  <1>3. alone'[p] <=> \A r \in Procs \ {p} : ~ Mutating(r, k)
    BY <1>2, Zenon
  <1>4. ASSUME NEW q \in Procs, q # p PROVE alone'[q] <=> alone[q] /\ ~ (o \in Mutators /\ key[q] = k)
    BY <1>2, <1>4, Zenon
  <1> QED BY <1>1, <1>3, <1>4

LEMMA CallStep ==
  ASSUME TypedInv, NEW p \in Procs, VariantCall(p) \/ VariantStep(p), NEW q \in Procs
  PROVE  CallAt(q)'
  <1>0. /\ at \in [Procs -> VariantLabels] /\ frame \in [Procs -> VariantFrames]
        /\ target \in [Procs -> Keys] /\ pc \in [Procs -> DiskLabels]
        /\ off \in [Procs -> Nat] /\ limit \in [Procs -> Nat]
    BY TypedParts DEF ShapeOK, DiskTypeOK, PlaceTypeOK, HandleTypeOK
  <1>1. CallAt(q) /\ FrameAt(q)
    BY DEF TypedInv, FrameOK
  <1>2. faults # 0 => faults' # 0
    BY FaultsGrow
  <1>3. CASE q # p
    BY <1>1, <1>2, <1>3, OthersStay DEF CallAt
  <1>4. CASE q = p /\ VariantCall(p) /\ ~ EnterUpload(p)
    <2>1. PICK b \in Blobs, t \in Variations \union {Original}, o \in VariantFrames,
               l \in VariantLabels : Enter(p, o, b, t, l) /\ Starts(o, t, l)
      BY <1>4, CallBegins
    <2>2. pc'[p] = "idle"
      BY <1>1, <1>4, <2>1, CallBegins DEF diskVars, Enter, FrameAt
    <2>3. at'[p] # "service"
      BY <1>0, <2>1 DEF Enter, Starts
    <2> QED BY <1>4, <2>2, <2>3 DEF CallAt
  <1>5. CASE q = p /\ EnterUpload(p)
    <2>1. PICK b \in Blobs, c \in Contents :
            /\ Enter(p, "Upload", b, Original, "service")
            /\ Begin(p, "Upload", BlobKey(b), <<c, Original>>, <<c, Original>>, 0,
                     Length[<<c, Original>>], "create")
      BY <1>5 DEF EnterUpload, Upload
    <2>2. /\ pc'[p] = "create" /\ op'[p] = "Upload" /\ key'[p] = BlobKey(b) /\ sum'[p] = stream'[p]
      BY <2>1, BeginEffect
    <2>3. frame'[p] = "Upload" /\ target'[p][1] = b
      BY <1>0, <2>1 DEF Enter
    <2> QED BY <1>5, <2>2, <2>3 DEF CallAt
  <1>6. CASE q = p /\ CallService(p)
    <2>1. frame' = frame /\ target' = target
      BY <1>6 DEF CallService
    <2>2. CASE at[p] = "Download" /\ Begin(p, "Download", BlobKey(target[p][1]), NoSum, NoSum, 0, 0, "open")
      BY <1>1, <1>6, <2>1, <2>2, BeginEffect DEF CallAt, FrameAt
    <2>3. CASE at[p] = "Upload" /\ Begin(p, "Upload", target[p], Output(p), NoSum, 0, Length[Output(p)], "create")
      BY <1>1, <1>6, <2>1, <2>3, BeginEffect DEF CallAt, FrameAt
    <2>4. CASE at[p] = "Delete" /\ Begin(p, "Delete", BlobKey(target[p][1]), NoSum, NoSum, 0, 0, "remove")
      BY <1>1, <1>6, <2>1, <2>4, BeginEffect DEF CallAt, FrameAt
    <2> QED BY <1>6, <2>2, <2>3, <2>4, ServiceCalled DEF TypedInv
  <1>7. CASE q = p /\ InService(p)
    <2>1. UNCHANGED <<at, frame, target, op, key, stream, sum>>
      BY <1>7 DEF InService, variantVars, DiskStep, DiskFault, Create, Copy, Close, Cleanup, Remove, Open,
                  Read, callVars
    <2>2. DiskStep(p)
      BY <1>7 DEF InService
    <2>3. CASE DiskFault(p)
      <3>1. pc'[p] = "idle"
        BY <1>0, <2>3 DEF DiskFault, Return
      <3> QED BY <1>1, <1>7, <2>1, <3>1 DEF CallAt
    <2>4. CASE Create(p) /\ ~ DiskFault(p)
      <3>1. pc[p] = "create" /\ pc'[p] = "copy" /\ UNCHANGED <<off, limit>>
        BY <1>0, <2>4 DEF Create, Goto
      <3>2. off[p] = 0
        BY <3>1, TypedParts DEF PlaceOK, PlaceAt
      <3> QED BY <1>0, <1>1, <1>7, <2>1, <3>1, <3>2 DEF CallAt
    <2>5. CASE Copy(p)
      <3>1. CASE off[p] < limit[p] /\ off' = [off EXCEPT ![p] = @ + 1] /\ UNCHANGED <<pc, limit>>
        <4>1. off'[p] = off[p] + 1 /\ limit'[p] = limit[p] /\ off[p] + 1 <= limit[p] /\ pc'[p] = pc[p]
          BY <1>0, <3>1
        <4> QED BY <1>1, <1>7, <2>1, <2>5, <4>1 DEF CallAt, Copy
      <3>2. CASE off[p] = limit[p] /\ Goto(p, "close") /\ UNCHANGED <<off, limit>>
        <4>1. pc'[p] = "close" /\ off'[p] = limit'[p]
          BY <1>0, <3>2 DEF Goto
        <4> QED BY <1>1, <1>7, <2>1, <4>1 DEF CallAt
      <3>3. CASE CountFault /\ Goto(p, "cleanup")
        <4>1. pc'[p] = "cleanup" /\ faults' # 0
          BY <1>0, <3>3, FaultsGrow DEF Goto, CountFault
        <4> QED BY <1>1, <1>7, <2>1, <4>1 DEF CallAt
      <3> QED BY <2>5, <3>1, <3>2, <3>3, ReaderAssumption DEF Copy, handles
    <2>6. CASE Close(p)
      <3>1. DigestMatches(p)
        <4>1. at[p] = "service" /\ op[p] = "Upload"
          BY <1>7, <2>6, TypedParts DEF InService, Close, PlaceOK, PlaceAt
        <4> QED BY <1>1, <1>7, <4>1 DEF CallAt, DigestMatches
      <3>2. Return(p, "ok") \/ (CountFault /\ Goto(p, "cleanup"))
        BY <2>6, <3>1 DEF Close
      <3>3. pc'[p] = "idle" \/ (pc'[p] = "cleanup" /\ faults' # 0)
        BY <1>0, <3>2, FaultsGrow DEF Return, Goto, CountFault
      <3> QED BY <1>1, <1>7, <2>1, <3>3 DEF CallAt
    <2>7. CASE Cleanup(p) \/ Remove(p) \/ Open(p) \/ Read(p)
      <3>1. pc'[p] \in {"idle", "read"}
        BY <1>0, <2>7 DEF Cleanup, Remove, Open, Read, DiskFault, Goto, Return
      <3> QED BY <1>1, <1>7, <2>1, <3>1 DEF CallAt
    <2> QED BY <2>2, <2>3, <2>4, <2>5, <2>6, <2>7 DEF DiskStep
  <1>8. CASE q = p /\ (ServiceReturned(p) \/ Transform(p) \/ Exist(p))
    <2>1. pc' = pc /\ pc[p] = "idle"
      BY <1>1, <1>8 DEF ServiceReturned, Transform, Exist, diskVars, FrameAt
    <2>2. at'[p] # "service"
      BY <1>0, <1>8 DEF ServiceReturned, Transform, Exist, Advance, Finish
    <2> QED BY <1>8, <2>1, <2>2 DEF CallAt
  <1> QED BY <1>3, <1>4, <1>5, <1>6, <1>7, <1>8 DEF VariantStep

LEMMA TypedStep ==
  ASSUME TypedInv, NEW p \in Procs, VariantCall(p) \/ VariantStep(p)
  PROVE  TypedInv'
  <1>1. ServiceInv'
    BY ServiceKept DEF TypedInv
  <1>2. ShapeOK'
    BY ShapeStep
  <1>3. FrameOK'
    BY FrameStep, CallStep DEF FrameOK
  <1> QED BY <1>1, <1>2, <1>3 DEF TypedInv

LEMMA WholeIsFile ==
  ASSUME NEW v \in Streams
  PROVE  Whole(v) \in Seq(Chunks) /\ Len(Whole(v)) = Length[v] /\ Length[v] \in Nat
  <1>1. Length[v] \in Nat /\ v \in Chunks
    BY LengthAssumption DEF Chunks
  <1>2. Whole(v) \in [1 .. Length[v] -> Chunks]
    BY <1>1 DEF Whole
  <1>3. Whole(v) \in Seq(Chunks)
    BY <1>1, <1>2, SeqDef
  <1>4. DOMAIN Whole(v) = 1 .. Length[v]
    BY DEF Whole
  <1> QED BY <1>1, <1>3, <1>4, LenProperties

LEMMA TypedInit == Init => TypedInv
  <1> SUFFICES ASSUME Init PROVE TypedInv
    OBVIOUS
  <1> DEFINE n == Cardinality(Blobs)
  <1>0. n \in Nat /\ Blobs = 1 .. n
    BY BlobsAssumption, FS_CardinalityType
  <1> HIDE DEF n
  <1>1. ASSUME NEW b \in Blobs PROVE Whole(<<content[b], Original>>) \in Seq(Chunks)
    BY OriginalStreams, WholeIsFile DEF Init
  <1>2. data \in [1 .. n -> Seq(Chunks)]
    BY <1>0, <1>1 DEF Init
  <1>3. data \in Seq(Seq(Chunks)) /\ Len(data) = n
    BY <1>0, <1>2, SeqDef, LenProperties
  <1>4. ASSUME NEW k \in Keys
        PROVE  dir[k] = IF k[2] = Original THEN k[1] ELSE 0
    BY DEF Init
  <1>5. dir \in [Keys -> 0 .. Len(data)]
    <2>1. ASSUME NEW k \in Keys PROVE (IF k[2] = Original THEN k[1] ELSE 0) \in 0 .. n
      <3>1. k[1] \in 1 .. n
        BY <1>0, KeyFacts
      <3> QED BY <1>0, <3>1
    <2> QED BY <1>3, <2>1 DEF Init
  <1>6. \A k, l \in Keys : dir[k] = dir[l] => k = l \/ dir[k] = 0
    <2> SUFFICES ASSUME NEW k \in Keys, NEW l \in Keys, dir[k] = dir[l], dir[k] # 0
                 PROVE  k = l
      OBVIOUS
    <2>1. k[2] = Original /\ l[2] = Original /\ k[1] = l[1]
      BY <1>4
    <2>2. k = Key(k[1], k[2]) /\ l = Key(l[1], l[2])
      BY KeyFacts
    <2> QED BY <2>1, <2>2
  <1>7. ServiceInv
    BY <1>3, <1>5, <1>6, ServiceInit DEF Init
  <1>8. ShapeOK
    BY VariantOpsAssumption DEF Init, ShapeOK, VariantLabels, VariantFrames
  <1>9. FrameOK
    BY DEF Init, CallsInit, FrameOK, FrameAt, CallAt
  <1> QED BY <1>7, <1>8, <1>9 DEF TypedInv

-----------------------------------------------------------------------------
(* A blob that no other call uses while it is uploaded.                     *)

Uploads(q, b) == Using(q, b, {"Upload"})

\* The upload of a blob that is not mixed has the blob for itself, writes what the
\* blob now contains, and makes its variants old.
LoneAt(b) ==
    /\ content[b] \in had[b]
    /\ \A q \in Procs : Uploads(q, b) =>
         /\ \A r \in Procs \ {q} : ~ Using(r, b, {"Process", "Upload", "Purge"})
         /\ alone[q] /\ stream[q] = <<content[b], Original>>
         /\ \A t \in Variations : <<b, t>> \notin processed

LoneOK == \A b \in Blobs \ mixed : LoneAt(b)

\* What a call that has begun is about stays.
LEMMA StepKeeps ==
  ASSUME NEW p \in Procs, DiskStep(p)
  PROVE  UNCHANGED <<op, key, stream, sum, alone>>
  BY DEF DiskStep, DiskFault, Create, Copy, Close, Cleanup, Remove, Open, Read, callVars, diskHistory

LEMMA UploadPlace ==
  ASSUME TypedInv, NEW q \in Procs, NEW b \in Blobs, Uploads(q, b)
  PROVE  at[q] = "service" /\ op[q] = "Upload" /\ key[q] = BlobKey(b) /\ sum[q] = stream[q]
  <1>1. FrameAt(q) /\ CallAt(q) /\ at[q] \in VariantLabels
    BY DEF TypedInv, FrameOK, ShapeOK
  <1>2. at[q] # "idle" /\ frame[q] = "Upload" /\ target[q][1] = b
    BY DEF Uploads, Using
  <1>3. at[q] = "service"
    BY <1>1, <1>2 DEF FrameAt, VariantLabels
  <1> QED BY <1>1, <1>2, <1>3 DEF CallAt

\* Who mutates an object works on its blob.
LEMMA MutatorUses ==
  ASSUME TypedInv, NEW q \in Procs, NEW k \in Keys, Mutating(q, k)
  PROVE  /\ at[q] = "service" /\ target[q][1] = k[1]
         /\ \/ frame[q] = "Process" /\ op[q] = "Upload" /\ target[q] = k /\ k[2] \in Variations
                                   /\ sum[q] = NoSum
            \/ frame[q] = "Purge" /\ op[q] = "Delete" /\ k[2] = Original
            \/ frame[q] = "Upload" /\ op[q] = "Upload" /\ k[2] = Original /\ sum[q] = stream[q]
  <1>1. FrameAt(q) /\ CallAt(q) /\ target[q] \in Keys
    BY DEF TypedInv, FrameOK, ShapeOK
  <1>2. at[q] = "service" /\ op[q] \in {"Upload", "Delete"} /\ key[q] = k
    BY <1>1 DEF Mutating, Mutators, FrameAt
  <1>3. target[q][1] \in Blobs
    BY <1>1, KeyFacts
  <1>4. BlobKey(target[q][1])[1] = target[q][1] /\ BlobKey(target[q][1])[2] = Original
    BY <1>3, KeyFacts
  <1>5. CASE frame[q] = "Process" /\ op[q] = "Upload" /\ key[q] = target[q] /\ sum[q] = NoSum
    BY <1>1, <1>2, <1>5 DEF FrameAt
  <1>6. CASE frame[q] = "Purge" /\ op[q] = "Delete" /\ key[q] = BlobKey(target[q][1])
    BY <1>2, <1>4, <1>6
  <1>7. CASE frame[q] = "Upload" /\ op[q] = "Upload" /\ key[q] = BlobKey(target[q][1]) /\ sum[q] = stream[q]
    BY <1>2, <1>4, <1>7
  <1> QED BY <1>1, <1>2, <1>5, <1>6, <1>7 DEF CallAt

\* An operation on a blob that begins, and does not mix it.
LEMMA NotMixed ==
  ASSUME TypedInv, NEW p \in Procs, NEW o, NEW b1, NEW t, NEW l, Enter(p, o, b1, t, l),
         NEW b \in Blobs \ mixed'
  PROVE  /\ b \notin mixed
         /\ b1 = b => \A q \in Procs :
              ~ Using(q, b, IF o = "Upload" THEN {"Process", "Upload", "Purge"} ELSE {"Upload"})
  <1>1. mixed' = IF Mixes(o, b1) THEN mixed \union {b1} ELSE mixed
    BY DEF Enter
  <1>2. CASE Mixes(o, b1)
    <2>1. mixed' = mixed \union {b1}
      BY <1>1, <1>2
    <2> QED BY <2>1
  <1>3. CASE ~ Mixes(o, b1)
    <2>1. mixed' = mixed
      BY <1>1, <1>3
    <2>2. b1 = b => ~ \E q \in Procs :
            Using(q, b, IF o = "Upload" THEN {"Process", "Upload", "Purge"} ELSE {"Upload"})
      BY <1>3, Zenon DEF Mixes
    <2> QED BY <2>1, <2>2
  <1> QED BY <1>2, <1>3

\* The use of a blob: what begins, and what goes on or ends.
LEMMA UseAfterEnter ==
  ASSUME TypedInv, NEW p \in Procs, VariantCall(p), NEW o, NEW b1, NEW t, NEW l, Enter(p, o, b1, t, l),
         NEW q \in Procs, NEW b, NEW os, Using(q, b, os)'
  PROVE  IF q = p THEN b1 = b /\ o \in os ELSE Using(q, b, os)
  <1>1. CASE q = p
    <2>1. frame'[p] = o /\ target'[p] = <<b1, t>>
      BY DEF Enter, TypedInv, ShapeOK
    <2> QED BY <1>1, <2>1 DEF Using
  <1>2. CASE q # p
    BY <1>2, OthersStay DEF Using
  <1> QED BY <1>1, <1>2

LEMMA UseAfterStep ==
  ASSUME TypedInv, NEW p \in Procs, VariantStep(p), NEW q \in Procs, NEW b, NEW os, Using(q, b, os)'
  PROVE  Using(q, b, os)
  BY StepFrame, OthersStay DEF Using

LEMMA LoneStep ==
  ASSUME TypedInv, LoneOK, NEW p \in Procs, VariantCall(p) \/ VariantStep(p),
         NEW b \in Blobs \ mixed'
  PROVE  b \notin mixed /\ LoneAt(b)'
  <1>1. CASE VariantCall(p) /\ ~ EnterUpload(p)
    <2>1. PICK b1 \in Blobs, t \in Variations \union {Original}, o \in VariantFrames,
               l \in VariantLabels : Enter(p, o, b1, t, l) /\ Starts(o, t, l)
      BY <1>1, CallBegins
    <2>2. UNCHANGED <<content, had, processed, alone, stream>>
      BY <1>1, CallBegins DEF diskVars, diskHistory, callVars
    <2>3. o # "Upload"
      BY <2>1 DEF Starts
    <2>4. b \notin mixed /\ (b1 = b => \A q \in Procs : ~ Uploads(q, b))
      BY <2>1, <2>3, NotMixed DEF Uploads
    <2>5. LoneAt(b)
      BY <2>4 DEF LoneOK
    <2>6. \A q \in Procs : Uploads(q, b)' => q # p /\ Uploads(q, b)
      BY <1>1, <2>1, <2>3, UseAfterEnter DEF Uploads
    <2>7. ASSUME NEW q \in Procs, Uploads(q, b)', NEW r \in Procs \ {q}
          PROVE  ~ Using(r, b, {"Process", "Upload", "Purge"})'
      <3>1. Uploads(q, b) /\ b1 # b
        BY <2>4, <2>6, <2>7
      <3>2. ~ Using(r, b, {"Process", "Upload", "Purge"})
        BY <2>5, <3>1 DEF LoneAt
      <3> QED BY <1>1, <2>1, <3>1, <3>2, UseAfterEnter
    <2> QED BY <2>2, <2>4, <2>5, <2>6, <2>7 DEF LoneAt
  <1>2. CASE EnterUpload(p)
    <2>1. PICK b1 \in Blobs, c \in Contents :
            /\ Enter(p, "Upload", b1, Original, "service")
            /\ Begin(p, "Upload", BlobKey(b1), <<c, Original>>, <<c, Original>>, 0,
                     Length[<<c, Original>>], "create")
            /\ content' = [content EXCEPT ![b1] = c]
            /\ had' = [had EXCEPT ![b1] = @ \union {c}]
            /\ processed' = {v \in processed : v[1] # b1}
      BY <1>2 DEF EnterUpload, Upload
    <2>2. VariantCall(p)
      BY <1>2 DEF VariantCall
    <2>3. b \notin mixed /\ (b1 = b => \A q \in Procs : ~ Using(q, b, {"Process", "Upload", "Purge"}))
      BY <2>1, NotMixed
    <2>4. LoneAt(b)
      BY <2>3 DEF LoneOK
    <2>5. content \in [Blobs -> Contents] /\ had \in [Blobs -> SUBSET Contents]
      BY DEF TypedInv, ShapeOK
    <2>6. \A q \in Procs : Uploads(q, b)' => IF q = p THEN b1 = b ELSE Uploads(q, b)
      BY <2>1, <2>2, UseAfterEnter DEF Uploads
    <2>7. CASE b1 = b
      <3>1. content'[b] = c /\ c \in had'[b]
        BY <2>1, <2>5, <2>7
      <3>2. \A q \in Procs : Uploads(q, b)' => q = p
        BY <2>3, <2>6, <2>7 DEF Uploads, Using
      <3>3. ASSUME NEW r \in Procs \ {p} PROVE ~ Using(r, b, {"Process", "Upload", "Purge"})'
        BY <2>1, <2>2, <2>3, <2>7, UseAfterEnter
      <3>4. ASSUME NEW r \in Procs \ {p} PROVE ~ Mutating(r, BlobKey(b))
        <4>1. ~ Using(r, b, {"Process", "Upload", "Purge"})
          BY <2>3, <2>7
        <4> QED BY <4>1, MutatorUses, KeyFacts DEF Using
      <3>5. stream'[p] = <<c, Original>> /\ alone'[p]
        BY <2>1, <2>7, <3>4, BeginEffect
      <3>6. \A t \in Variations : <<b, t>> \notin processed'
        BY <2>1, <2>7
      <3>7. ASSUME NEW q \in Procs, Uploads(q, b)'
            PROVE  /\ \A r \in Procs \ {q} : ~ Using(r, b, {"Process", "Upload", "Purge"})'
                   /\ alone'[q] /\ stream'[q] = <<content'[b], Original>>
                   /\ \A t \in Variations : <<b, t>> \notin processed'
        <4>1. q = p
          BY <3>2, <3>7
        <4> QED BY <3>1, <3>3, <3>5, <3>6, <4>1
      <3> QED BY <2>3, <3>1, <3>7 DEF LoneAt
    <2>8. CASE b1 # b
      <3>1. content'[b] = content[b] /\ had'[b] = had[b]
        BY <2>1, <2>5, <2>8
      <3>2. ASSUME NEW q \in Procs, Uploads(q, b)'
            PROVE  /\ \A r \in Procs \ {q} : ~ Using(r, b, {"Process", "Upload", "Purge"})'
                   /\ alone'[q] /\ stream'[q] = <<content'[b], Original>>
        <4>1. q # p /\ Uploads(q, b)
          BY <2>6, <2>8, <3>2
        <4>2. ASSUME NEW r \in Procs \ {q} PROVE ~ Using(r, b, {"Process", "Upload", "Purge"})'
          <5>1. ~ Using(r, b, {"Process", "Upload", "Purge"})
            BY <2>4, <4>1 DEF LoneAt
          <5> QED BY <2>1, <2>2, <2>8, <5>1, UseAfterEnter
        <4>3. key[q] = BlobKey(b) /\ BlobKey(b) # BlobKey(b1)
          BY <2>8, <4>1, UploadPlace, KeyFacts
        <4>4. alone[q] /\ stream[q] = <<content[b], Original>>
          BY <2>4, <4>1 DEF LoneAt
        <4>5. alone'[q]
          BY <2>1, <4>1, <4>3, <4>4, BeginEffect
        <4>6. stream'[q] = stream[q]
          BY <2>2, <4>1, OthersStay
        <4> QED BY <3>1, <4>2, <4>4, <4>5, <4>6
      <3>3. \A q \in Procs : Uploads(q, b)' => \A t \in Variations : <<b, t>> \notin processed'
        BY <2>1, <2>4, <2>6, <2>8 DEF LoneAt
      <3>4. content'[b] \in had'[b]
        BY <2>4, <3>1 DEF LoneAt
      <3> QED BY <2>3, <3>2, <3>3, <3>4 DEF LoneAt
    <2> QED BY <2>3, <2>7, <2>8
  <1>3. CASE VariantStep(p)
    <2>1. UNCHANGED <<content, had, mixed>>
      BY <1>3, StepFrame
    <2>2. b \notin mixed /\ LoneAt(b)
      BY <2>1 DEF LoneOK
    <2>3. ASSUME NEW q \in Procs, Uploads(q, b)'
          PROVE  /\ \A r \in Procs \ {q} : ~ Using(r, b, {"Process", "Upload", "Purge"})'
                 /\ alone'[q] /\ stream'[q] = <<content[b], Original>>
                 /\ \A t \in Variations : <<b, t>> \notin processed'
      <3>1. Uploads(q, b)
        BY <1>3, <2>3, UseAfterStep DEF Uploads
      <3>2. /\ \A r \in Procs \ {q} : ~ Using(r, b, {"Process", "Upload", "Purge"})
            /\ alone[q] /\ stream[q] = <<content[b], Original>>
            /\ \A t \in Variations : <<b, t>> \notin processed
        BY <2>2, <3>1 DEF LoneAt
      <3>3. at[q] = "service" /\ key[q] = BlobKey(b)
        BY <3>1, UploadPlace
      <3>4. \A r \in Procs \ {q} : ~ Using(r, b, {"Process", "Upload", "Purge"})'
        BY <1>3, <3>2, UseAfterStep
      <3>5. ASSUME NEW t \in Variations PROVE <<b, t>> \notin processed'
        <4>1. CASE processed' = processed
          BY <3>2, <4>1
        <4>2. CASE processed' = processed \union {target[p]} /\ frame[p] = "Process" /\ at[p] = "service"
          <5>1. p # q
            BY <3>1, <4>2 DEF Uploads, Using
          <5>2. target[p][1] # b
            BY <3>2, <4>2, <5>1 DEF Using
          <5> QED BY <3>2, <4>2, <5>2
        <4> QED BY <1>3, <4>1, <4>2, StepFrame
      <3>6. alone'[q] /\ stream'[q] = stream[q]
        <4>1. CASE InService(p)
          BY <3>2, <4>1, StepKeeps DEF InService
        <4>2. CASE CallService(p)
          <5>1. q # p
            BY <3>3, <4>2 DEF CallService
          <5>2. stream'[q] = stream[q]
            BY <1>3, <5>1, OthersStay
          <5>3. target[p] \in Keys /\ FrameAt(p)
            BY DEF TypedInv, ShapeOK, FrameOK
          <5>4. CASE at[p] = "Download" /\ Begin(p, "Download", BlobKey(target[p][1]), NoSum, NoSum, 0, 0, "open")
            BY <3>2, <5>1, <5>2, <5>4, BeginEffect DEF Mutators
          <5>5. CASE at[p] = "Upload" /\ Begin(p, "Upload", target[p], Output(p), NoSum, 0, Length[Output(p)], "create")
            <6>1. target[p] # key[q]
              BY <3>3, <5>3, <5>5, KeyFacts DEF FrameAt
            <6> QED BY <3>2, <5>1, <5>2, <5>5, <6>1, BeginEffect
          <5>6. CASE at[p] = "Delete" /\ Begin(p, "Delete", BlobKey(target[p][1]), NoSum, NoSum, 0, 0, "remove")
            <6>1. target[p][1] # b
              BY <3>2, <5>1, <5>3, <5>6 DEF Using, FrameAt
            <6>2. BlobKey(target[p][1]) # key[q]
              BY <3>3, <5>3, <6>1, KeyFacts
            <6> QED BY <3>2, <5>1, <5>2, <5>6, <6>2, BeginEffect
          <5> QED BY <4>2, <5>4, <5>5, <5>6, ServiceCalled DEF TypedInv
        <4>3. CASE ServiceReturned(p) \/ Transform(p) \/ Exist(p)
          BY <3>2, <4>3 DEF ServiceReturned, Transform, Exist, diskVars, diskHistory, callVars
        <4> QED BY <1>3, <4>1, <4>2, <4>3 DEF VariantStep
      <3> QED BY <3>2, <3>4, <3>5, <3>6
    <2> QED BY <2>1, <2>2, <2>3 DEF LoneAt
  <1> QED BY <1>1, <1>2, <1>3

-----------------------------------------------------------------------------
(* What the Processes of a blob read.                                       *)

Filling == {"copy", "close", "cleanup"}

\* An upload of blob b is at one of the system calls ls.
Renewing(b, ls) == \E q \in Procs : pc[q] \in ls /\ key[q] = BlobKey(b)

\* A Process that reads content c: the file it has open has it, whatever becomes of
\* the path, and nobody writes that file.
ReadsContent(p, c) ==
    /\ at[p] \in {"Transform", "Upload"} => got[p] = Whole(<<c, Original>>)
    /\ at[p] = "service" /\ op[p] = "Download" =>
         /\ pc[p] = "open" => got[p] = <<>> /\ off[p] = 0
         /\ pc[p] = "read" =>
              /\ data[fd[p]] = Whole(<<c, Original>>) /\ off[p] <= Length[<<c, Original>>]
              /\ got[p] = Prefix(<<c, Original>>, off[p])
              /\ \A q \in Procs : pc[q] = "copy" => fd[q] # fd[p]
         /\ pc[p] = "idle" /\ result[p] = "ok" => got[p] = Whole(<<c, Original>>)
    /\ at[p] = "service" /\ op[p] = "Upload" => stream[p] = <<c, target[p][2]>>

\* Every Process of b works on c, which is what is stored unless b is being uploaded,
\* and what b contains unless an upload has failed.
Settled(b, c) ==
    /\ \A p \in Procs : Using(p, b, {"Process"}) => ReadsContent(p, c)
    /\ dir[BlobKey(b)] # 0 /\ ~ Renewing(b, Filling) => Stored(BlobKey(b)) = Whole(<<c, Original>>)
    /\ faults = 0 /\ ~ Renewing(b, Filling \union {"create"}) => c = content[b]

SettledOK == faults <= 1 => \A b \in Blobs \ mixed : \E c \in had[b] : Settled(b, c)

LEMMA WholeTellsApart ==
  ASSUME NEW c \in Contents, NEW d \in Contents, Whole(<<c, Original>>) = Whole(<<d, Original>>)
  PROVE  c = d
  <1> DEFINE v == <<c, Original>>
             w == <<d, Original>>
  <1>1. v \in Streams /\ w \in Streams
    BY OriginalStreams
  <1>2. Length[v] = Length[w] /\ Length[v] \in Nat
    BY <1>1, WholeIsFile
  <1>3. CASE Length[v] = 0
    BY <1>2, <1>3, ContentsAssumption
  <1>4. CASE Length[v] # 0
    <2>1. 1 \in 1 .. Length[v] /\ 1 \in 1 .. Length[w]
      BY <1>2, <1>4
    <2>2. Whole(v)[1] = v /\ Whole(w)[1] = w
      BY <2>1, Zenon DEF Whole
    <2> QED BY <2>2
  <1> QED BY <1>3, <1>4

LEMMA SourceIs ==
  ASSUME NEW p \in Procs, NEW c \in Contents, got[p] = Whole(<<c, Original>>)
  PROVE  Source(p) = c
  <1>1. Source(p) = CHOOSE d \in Contents : got[p] = Whole(<<d, Original>>)
    BY DEF Source
  <1>2. Source(p) \in Contents /\ got[p] = Whole(<<Source(p), Original>>)
    BY <1>1
  <1> QED BY <1>2, WholeTellsApart

LEMMA ReadPrefix ==
  ASSUME NEW v, NEW n \in Nat
  PROVE  Append(Prefix(v, n), v) = Prefix(v, n + 1) /\ Len(Prefix(v, n)) = n
  BY DEF Prefix

\* The file of a reader of a blob that is not mixed is left alone.
LEMMA ReadFileKept ==
  ASSUME TypedInv, LoneOK, NEW p \in Procs, DiskCall(p) \/ DiskStep(p), NEW b \in Blobs \ mixed,
         NEW q \in Procs, Using(q, b, {"Process"}), at[q] = "service", pc[q] = "read", q # p,
         \A r \in Procs : pc[r] = "copy" => fd[r] # fd[q]
  PROVE  data'[fd[q]] = data[fd[q]] /\ \A r \in Procs : pc'[r] = "copy" => fd'[r] # fd'[q]
  <1>0. /\ Len(data) \in Nat /\ key[p] \in Keys /\ dir[key[p]] \in 0 .. Len(data)
        /\ fd[q] \in 1 .. Len(data) /\ data \in Seq(Seq(Chunks))
        /\ fd \in [Procs -> 0 .. Len(data)] /\ pc \in [Procs -> DiskLabels]
    BY TypeFacts, TypedParts DEF DiskTypeOK, FileTypeOK, PlaceTypeOK, HandleTypeOK, Chunks
  <1>1. key[q] = BlobKey(b) /\ BlobKey(b) \in Keys
    <2>1. op[q] # "Upload" /\ FrameAt(q) /\ CallAt(q)
      BY TypedParts DEF FrameOK, PlaceOK, PlaceAt
    <2> QED BY <2>1, KeyFacts DEF CallAt, Using
  <1>2. ASSUME NEW r \in Procs, r # p
        PROVE  fd'[r] = fd[r] /\ pc'[r] = pc[r]
    BY <1>2, OthersKept DEF TypedInv, ServiceInv, Owners, DiskType
  <1>3. data'[fd[q]] = data[fd[q]] /\ (pc'[p] = "copy" => fd'[p] # fd[q])
    <2>1. CASE DiskCall(p)
      <3>1. PICK o, k, v, c, from, upto, l :
               Begin(p, o, k, v, c, from, upto, l) /\ Opens(p, o, k, v, from, upto, l)
        BY <2>1 DEF DiskCall
      <3>2. data' = data /\ pc'[p] # "copy"
        BY <1>0, <3>1 DEF Begin, Opens
      <3> QED BY <3>2
    <2>2. CASE DiskFault(p)
      BY <1>0, <2>2 DEF DiskFault, Return
    <2>3. CASE Create(p) /\ ~ DiskFault(p)
      <3>1. CASE Truncated(p)
        <4>1. fd'[p] = dir[key[p]] /\ data' = [data EXCEPT ![dir[key[p]]] = <<>>]
          BY <1>0, <3>1 DEF Truncated
        <4>2. dir[key[p]] # fd[q]
          <5> SUFFICES ASSUME dir[key[p]] = fd[q] PROVE FALSE
            OBVIOUS
          <5>1. key[p] = BlobKey(b)
            BY <1>0, <1>1 DEF TypedInv, ServiceInv, Owners, ApartOK
          <5>2. Mutating(p, BlobKey(b)) /\ op[p] = "Upload"
            BY <2>3, <5>1, TypedParts DEF Create, Mutating, Mutators, PlaceOK, PlaceAt
          <5>3. Uploads(p, b)
            BY <1>1, <5>2, MutatorUses, KeyFacts DEF Uploads, Using
          <5> QED BY <5>3 DEF LoneOK, LoneAt, Using
        <4> QED BY <1>0, <4>1, <4>2
      <3>2. CASE Created(p)
        BY <1>0, <3>2 DEF Created
      <3> QED BY <2>3, <3>1, <3>2, CreateEffect DEF TypedInv, ServiceInv, Owners, DiskType
    <2>4. CASE Copy(p)
      BY <1>0, <2>4 DEF Copy, Goto, handles
    <2>5. CASE Close(p) \/ Cleanup(p)
      BY <1>0, <2>5 DEF Close, Cleanup, Goto, Return
    <2>6. CASE (Remove(p) \/ Open(p) \/ Read(p)) /\ ~ DiskFault(p)
      BY <1>0, <2>6 DEF Remove, Open, Read, Goto, Return
    <2> QED BY <2>1, <2>2, <2>3, <2>4, <2>5, <2>6 DEF DiskStep
  <1> QED BY <1>2, <1>3

LEMMA OtherReads ==
  ASSUME TypedInv, LoneOK, NEW p \in Procs, VariantCall(p) \/ VariantStep(p), NEW b \in Blobs \ mixed,
         NEW q \in Procs, q # p, Using(q, b, {"Process"}), NEW c, ReadsContent(q, c)
  PROVE  ReadsContent(q, c)'
  <1>1. /\ at'[q] = at[q] /\ target'[q] = target[q] /\ pc'[q] = pc[q] /\ op'[q] = op[q]
        /\ stream'[q] = stream[q] /\ fd'[q] = fd[q] /\ off'[q] = off[q] /\ got'[q] = got[q]
        /\ result'[q] = result[q]
    BY OthersStay
  <1>2. ASSUME at[q] = "service", op[q] = "Download", pc[q] = "read"
        PROVE  data'[fd[q]] = data[fd[q]] /\ \A r \in Procs : pc'[r] = "copy" => fd'[r] # fd'[q]
    <2>1. \A r \in Procs : pc[r] = "copy" => fd[r] # fd[q]
      BY <1>2 DEF ReadsContent
    <2>2. CASE Quiet
      BY <2>1, <2>2 DEF Quiet, handles
    <2>3. CASE DiskCall(p) \/ DiskStep(p)
      BY <1>2, <2>1, <2>3, ReadFileKept
    <2> QED BY <2>2, <2>3, ServiceEffect DEF TypedInv
  <1> QED BY <1>1, <1>2 DEF ReadsContent

\* Who is at a mutating system call of a blob's object uploads or purges the blob.
LEMMA RenewerUploads ==
  ASSUME TypedInv, NEW b \in Blobs, NEW q \in Procs, key[q] = BlobKey(b),
         pc[q] \in Filling \union {"create"}
  PROVE  Uploads(q, b) /\ Mutating(q, BlobKey(b))
  <1>1. op[q] = "Upload"
    BY TypedParts DEF Filling, PlaceOK, PlaceAt
  <1>2. Mutating(q, BlobKey(b))
    BY <1>1 DEF Mutating, Mutators, Filling
  <1> QED BY <1>1, <1>2, MutatorUses, KeyFacts DEF Uploads, Using

LEMMA OwnReads ==
  ASSUME TypedInv, LoneOK, NEW p \in Procs, VariantCall(p) \/ VariantStep(p), NEW b \in Blobs \ mixed,
         NEW c \in Contents, Settled(b, c), Using(p, b, {"Process"})'
  PROVE  ReadsContent(p, c)'
  <1>0. /\ at \in [Procs -> VariantLabels] /\ frame \in [Procs -> VariantFrames]
        /\ target \in [Procs -> Keys] /\ pc \in [Procs -> DiskLabels]
        /\ result \in [Procs -> {"none", "ok", "err"}]
        /\ off \in [Procs -> Nat] /\ got \in [Procs -> Seq(Chunks)] /\ fd \in [Procs -> 0 .. Len(data)]
        /\ data \in Seq(Seq(Chunks)) /\ Len(data) \in Nat /\ dir \in [Keys -> 0 .. Len(data)]
    BY TypedParts, DiskTypes DEF ShapeOK
  <1>1. FrameAt(p) /\ CallAt(p) /\ PlaceAt(p)
    BY TypedParts DEF FrameOK, PlaceOK
  <1> DEFINE v == <<c, Original>>
  <1>2. v \in Streams /\ Whole(v) \in Seq(Chunks) /\ Len(Whole(v)) = Length[v] /\ Length[v] \in Nat
    BY OriginalStreams, WholeIsFile
  <1> HIDE DEF v
  <1>3. CASE VariantCall(p) /\ ~ EnterUpload(p)
    <2>1. PICK b1 \in Blobs, t \in Variations \union {Original}, o \in VariantFrames,
               l \in VariantLabels : Enter(p, o, b1, t, l) /\ Starts(o, t, l)
      BY <1>3, CallBegins
    <2>2. at'[p] = l
      BY <1>0, <2>1 DEF Enter
    <2> QED BY <2>1, <2>2 DEF Starts, ReadsContent
  <1>4. CASE EnterUpload(p)
    <2>1. frame'[p] = "Upload"
      BY <1>0, <1>4 DEF EnterUpload, Enter
    <2> QED BY <2>1 DEF Using
  <1>5. CASE VariantStep(p)
    <2>0. UNCHANGED <<frame, target>> /\ at[p] # "idle"
      BY <1>5, StepFrame
    <2>1. Using(p, b, {"Process"}) /\ frame[p] = "Process" /\ target[p][1] = b /\ at'[p] # "idle"
      BY <1>5, <2>0 DEF Using
    <2>2. ReadsContent(p, c)
      BY <2>1 DEF Settled
    <2>3. CASE CallService(p)
      <3>1. at'[p] = "service"
        BY <1>0, <2>3 DEF CallService, Advance
      <3>2. CASE at[p] = "Download" /\ Begin(p, "Download", BlobKey(target[p][1]), NoSum, NoSum, 0, 0, "open")
        BY <3>1, <3>2, BeginEffect DEF ReadsContent
      <3>3. CASE at[p] = "Upload" /\ Begin(p, "Upload", target[p], Output(p), NoSum, 0, Length[Output(p)], "create")
        <4>1. Output(p) = <<c, target[p][2]>>
          BY <2>2, <3>3, SourceIs DEF ReadsContent, Output
        <4>2. op'[p] = "Upload" /\ stream'[p] = Output(p)
          BY <3>3, BeginEffect
        <4> QED BY <2>0, <3>1, <4>1, <4>2 DEF ReadsContent
      <3>4. at[p] # "Delete"
        BY <1>1, <2>1 DEF FrameAt
      <3> QED BY <2>3, <3>2, <3>3, <3>4, ServiceCalled DEF TypedInv
    <2>4. CASE InService(p) /\ op[p] # "Download"
      <3>1. UNCHANGED <<at, target, op, stream>> /\ at[p] = "service"
        BY <2>4, StepKeeps DEF InService, variantVars
      <3> QED BY <2>2, <2>4, <3>1 DEF ReadsContent
    <2>5. CASE InService(p) /\ op[p] = "Download"
      <3>0. /\ UNCHANGED <<at, target, op, stream>> /\ at[p] = "service" /\ DiskStep(p)
            /\ key[p] = BlobKey(b)
        BY <1>1, <2>1, <2>5, StepKeeps DEF InService, variantVars, CallAt
      <3>1. CASE DiskFault(p)
        <4>1. pc'[p] = "idle" /\ result'[p] = "err"
          BY <1>0, <3>1 DEF DiskFault, Return
        <4> QED BY <3>0, <4>1, <2>5 DEF ReadsContent
      <3>2. CASE Open(p) /\ ~ DiskFault(p) /\ dir[key[p]] = 0
        <4>1. pc'[p] = "idle" /\ result'[p] = "err"
          BY <1>0, <3>2 DEF Open, Return
        <4> QED BY <3>0, <4>1, <2>5 DEF ReadsContent
      <3>3. CASE Open(p) /\ ~ DiskFault(p) /\ dir[key[p]] # 0
        <4>1. /\ pc[p] = "open" /\ pc' = [pc EXCEPT ![p] = "read"] /\ fd' = [fd EXCEPT ![p] = dir[key[p]]]
              /\ UNCHANGED <<data, off, got>>
          BY <3>3 DEF Open, Goto
        <4>2. got[p] = <<>> /\ off[p] = 0
          BY <2>2, <2>5, <3>0, <4>1 DEF ReadsContent
        <4>3. ~ Renewing(b, Filling)
          <5> SUFFICES ASSUME NEW q \in Procs, pc[q] \in Filling, key[q] = BlobKey(b) PROVE FALSE
            BY DEF Renewing
          <5>1. Uploads(q, b)
            BY RenewerUploads
          <5> QED BY <2>1, <5>1 DEF LoneOK, LoneAt, Using, Uploads
        <4>4. data[dir[key[p]]] = Whole(v)
          BY <3>0, <3>3, <4>3 DEF Settled, Stored, v
        <4>5. ASSUME NEW q \in Procs, pc'[q] = "copy" PROVE fd'[q] # fd'[p]
          <5>1. q # p /\ pc[q] = "copy" /\ fd'[q] = fd[q] /\ fd'[p] = dir[key[p]]
            BY <1>0, <4>1, <4>5
          <5>2. fd[q] = dir[key[p]] => key[q] = key[p]
            BY <3>0, <3>3, KeyFacts DEF TypedInv, ServiceInv, Owners, ApartOK
          <5>3. key[q] # key[p]
            BY <3>0, <4>3, <5>1 DEF Renewing, Filling
          <5> QED BY <5>1, <5>2, <5>3
        <4>6. /\ pc'[p] = "read" /\ data'[fd'[p]] = Whole(v) /\ off'[p] = 0 /\ got'[p] = Prefix(v, 0)
          BY <1>0, <4>1, <4>2, <4>4, NoChunks
        <4>7. 0 <= Length[v]
          BY <1>2
        <4> QED BY <2>5, <3>0, <4>5, <4>6, <4>7 DEF ReadsContent, v
      <3>4. CASE Read(p) /\ ~ DiskFault(p)
        <4>0. /\ pc[p] = "read" /\ data[fd[p]] = Whole(v) /\ off[p] <= Length[v]
              /\ got[p] = Prefix(v, off[p]) /\ off[p] \in Nat
              /\ \A q \in Procs : pc[q] = "copy" => fd[q] # fd[p]
          BY <1>0, <2>2, <2>5, <3>0, <3>4 DEF ReadsContent, Read, v
        <4>1. CASE ~ AtEnd(p)
          <5>1. /\ got' = [got EXCEPT ![p] = Append(@, File(p)[off[p] + 1])]
                /\ off' = [off EXCEPT ![p] = @ + 1] /\ UNCHANGED <<data, pc, fd>>
            BY <3>4, <4>1 DEF Read
          <5>2. off[p] < Length[v]
            BY <1>2, <4>0, <4>1 DEF AtEnd, File
          <5>3. off[p] + 1 \in 1 .. Length[v] /\ off[p] + 1 <= Length[v]
            BY <1>2, <4>0, <5>2
          <5>4. File(p)[off[p] + 1] = v
            BY <4>0, <5>3, Zenon DEF File, Whole
          <5>5. got'[p] = Prefix(v, off[p] + 1) /\ off'[p] = off[p] + 1
            BY <1>0, <4>0, <5>1, <5>4, ReadPrefix
          <5> QED BY <2>5, <3>0, <4>0, <5>1, <5>3, <5>5 DEF ReadsContent, v
        <4>2. CASE AtEnd(p)
          <5>1. pc'[p] = "idle" /\ got' = got
            BY <1>0, <3>4, <4>2 DEF Read, Return, handles
          <5>2. off[p] = Length[v]
            BY <1>2, <2>5, <4>0, <4>2 DEF AtEnd, File
          <5>3. got'[p] = Whole(v)
            BY <4>0, <5>1, <5>2 DEF Prefix, Whole
          <5> QED BY <2>5, <3>0, <5>1, <5>3 DEF ReadsContent, v
        <4> QED BY <4>1, <4>2
      <3>5. ~ (Create(p) \/ Copy(p) \/ Close(p) \/ Cleanup(p) \/ Remove(p)) \/ DiskFault(p)
        BY <1>1, <2>5 DEF Create, Copy, Close, Cleanup, Remove, PlaceAt
      <3> QED BY <3>0, <3>1, <3>2, <3>3, <3>4, <3>5 DEF DiskStep
    <2>6. CASE ServiceReturned(p)
      <3>1. /\ at'[p] = "Transform" /\ result[p] = "ok" /\ op[p] = "Download"
            /\ at[p] = "service" /\ pc[p] = "idle" /\ got' = got
        BY <1>0, <2>1, <2>6 DEF ServiceReturned, Advance, Finish, diskVars, handles
      <3> QED BY <2>2, <3>1 DEF ReadsContent
    <2>7. CASE Transform(p)
      <3>1. at'[p] = "Upload" /\ at[p] = "Transform" /\ got' = got
        BY <1>0, <2>1, <2>7 DEF Transform, Advance, Finish, handles
      <3> QED BY <2>2, <3>1 DEF ReadsContent
    <2>8. CASE Exist(p)
      BY <1>1, <2>1, <2>8 DEF Exist, FrameAt
    <2> QED BY <1>5, <2>3, <2>4, <2>5, <2>6, <2>7, <2>8 DEF VariantStep
  <1> QED BY <1>3, <1>4, <1>5

\* A step of somebody who has not the blob's object in hand leaves it, and the uploads of it.
LEMMA ObjectLeft ==
  ASSUME TypedInv, NEW p \in Procs, VariantCall(p) \/ VariantStep(p), NEW k \in Keys, ~ Mutating(p, k)
  PROVE  /\ dir'[k] = dir[k] /\ (dir[k] # 0 => Stored(k)' = Stored(k))
         /\ \A q \in Procs : Mutating(q, k) => /\ pc'[q] = pc[q] /\ key'[q] = key[q]
  <1>1. dir'[k] = dir[k] /\ (dir[k] # 0 => data'[dir[k]] = data[dir[k]])
    <2>1. CASE Quiet
      BY <2>1 DEF Quiet
    <2>2. CASE DiskCall(p) \/ DiskStep(p)
      BY <2>2, NotMine DEF TypedInv, ServiceInv
    <2> QED BY <2>1, <2>2, ServiceEffect DEF TypedInv
  <1>2. ASSUME NEW q \in Procs, Mutating(q, k) PROVE pc'[q] = pc[q] /\ key'[q] = key[q]
    BY <1>2, OthersStay
  <1> QED BY <1>1, <1>2 DEF Stored

\* Who has an object in hand takes a step in the service.
LEMMA MutatorStep ==
  ASSUME TypedInv, NEW p \in Procs, VariantCall(p) \/ VariantStep(p), NEW k \in Keys, Mutating(p, k)
  PROVE  InService(p) /\ DiskStep(p) /\ UNCHANGED variantVars /\ UNCHANGED <<op, key, stream, sum, alone>>
  <1>1. at[p] = "service" /\ pc[p] # "idle"
    BY MutatorUses DEF Mutating
  <1>2. ~ VariantCall(p)
    <2>1. VariantCall(p) => \E o, b, t, l : Enter(p, o, b, t, l)
      BY DEF VariantCall, EnterVariant, EnterPurge, EnterUpload
    <2> QED BY <1>1, <2>1 DEF Enter
  <1>3. InService(p)
    BY <1>1, <1>2 DEF VariantStep, CallService, ServiceReturned, Transform, Exist
  <1> QED BY <1>3, StepKeeps DEF InService

\* The object of a blob between its uploads, but for an upload that ends well.
LEMMA ObjectStep ==
  ASSUME TypedInv, LoneOK, NEW p \in Procs, VariantCall(p) \/ VariantStep(p), NEW b \in Blobs \ mixed,
         NEW c \in Contents, Settled(b, c), faults' <= 1,
         ~ (Uploads(p, b) /\ Close(p) /\ Return(p, "ok"))
  PROVE  /\ dir'[BlobKey(b)] # 0 /\ ~ Renewing(b, Filling)' =>
              Stored(BlobKey(b))' = Whole(<<c, Original>>)
         /\ faults' = 0 /\ ~ Renewing(b, Filling \union {"create"})' => c = content'[b]
  <1> DEFINE k == BlobKey(b)
             Object == dir[k] # 0 /\ ~ Renewing(b, Filling) => Stored(k) = Whole(<<c, Original>>)
             Latest == faults = 0 /\ ~ Renewing(b, Filling \union {"create"}) => c = content[b]
  <1>0. /\ k \in Keys /\ Object /\ Latest /\ pc \in [Procs -> DiskLabels] /\ dir \in [Keys -> 0 .. Len(data)]
        /\ PlaceAt(p) /\ CallAt(p) /\ faults \in Nat /\ (faults' = 0 => faults = 0)
        /\ content \in [Blobs -> Contents]
    BY TypedParts, DiskTypes, KeyFacts, FaultsGrow DEF Settled, ShapeOK, PlaceOK, FrameOK
  <1>1. ASSUME NEW ls \in {Filling, Filling \union {"create"}}, Renewing(b, ls), ~ Renewing(b, ls)'
        PROVE  Mutating(p, k) /\ pc[p] \in ls /\ key[p] = k
    <2>1. PICK q \in Procs : pc[q] \in ls /\ key[q] = k
      BY <1>1 DEF Renewing
    <2>2. Mutating(q, k)
      BY <2>1, RenewerUploads
    <2>3. q = p
      <3> SUFFICES ASSUME q # p PROVE FALSE
        OBVIOUS
      <3>1. pc'[q] = pc[q] /\ key'[q] = key[q]
        BY OthersStay
      <3> QED BY <1>1, <2>1, <3>1 DEF Renewing
    <2> QED BY <2>1, <2>2, <2>3
  <1>2. CASE ~ Mutating(p, k)
    <2>1. dir'[k] = dir[k] /\ (dir[k] # 0 => Stored(k)' = Stored(k)) /\ k' = k
      BY <1>0, <1>2, ObjectLeft DEF BlobKey
    <2>2. \A ls \in {Filling, Filling \union {"create"}} : Renewing(b, ls) => Renewing(b, ls)'
      BY <1>1, <1>2
    <2>3. content'[b] = content[b] \/ Renewing(b, Filling \union {"create"})'
      <3>1. CASE EnterUpload(p)
        <4>1. PICK b1 \in Blobs, c1 \in Contents :
                /\ content' = [content EXCEPT ![b1] = c1]
                /\ Begin(p, "Upload", BlobKey(b1), <<c1, Original>>, <<c1, Original>>, 0,
                         Length[<<c1, Original>>], "create")
          BY <3>1 DEF EnterUpload, Upload
        <4>2. pc'[p] = "create" /\ key'[p] = BlobKey(b1)
          BY <4>1, BeginEffect
        <4> QED BY <1>0, <4>1, <4>2 DEF Renewing
      <3>2. CASE ~ EnterUpload(p)
        BY <3>2, CallBegins, StepFrame
      <3> QED BY <3>1, <3>2
    <2> QED BY <1>0, <2>1, <2>2, <2>3
  <1>3. CASE Mutating(p, k)
    <2>0. /\ DiskStep(p) /\ UNCHANGED <<content, op, key>> /\ key[p] = k /\ op[p] \in Mutators
      BY <1>0, <1>3, MutatorStep DEF variantVars, Mutating
    <2>1. ASSUME pc'[p] \in Filling PROVE Renewing(b, Filling)' /\ Renewing(b, Filling \union {"create"})'
      BY <2>0, <2>1 DEF Renewing
    <2>2. CASE DiskFault(p) /\ pc[p] \in {"create", "remove"}
      <3>1. UNCHANGED <<dir, data>> /\ faults' # 0 /\ pc[p] \notin Filling
        BY <1>0, <2>2 DEF DiskFault, CountFault, Filling
      <3>2. Renewing(b, Filling) => Renewing(b, Filling)'
        BY <1>1, <3>1
      <3> QED BY <1>0, <3>1, <3>2 DEF Stored
    <2>3. CASE (Create(p) /\ ~ DiskFault(p)) \/ Copy(p)
      <3>1. pc'[p] \in Filling
        BY <1>0, <2>3 DEF Create, Copy, Goto, Filling
      <3> QED BY <2>1, <3>1
    <2>4. CASE Close(p)
      <3>1. Uploads(p, b)
        BY <1>0, <2>0, <2>4, RenewerUploads DEF Close, Filling
      <3>2. pc'[p] = "cleanup"
        BY <1>0, <2>4, <3>1 DEF Close, Goto
      <3> QED BY <2>1, <3>2 DEF Filling
    <2>5. CASE Cleanup(p)
      <3>1. faults # 0
        BY <1>0, <2>5 DEF Cleanup, CallAt
      <3>2. CASE CountFault
        BY <1>0, <3>1, <3>2 DEF CountFault
      <3>3. CASE dir' = [dir EXCEPT ![key[p]] = 0]
        BY <1>0, <2>0, <3>1, <3>3
      <3> QED BY <2>5, <3>2, <3>3 DEF Cleanup
    <2>6. CASE Remove(p) /\ ~ DiskFault(p)
      <3>1. dir'[k] = 0 /\ pc[p] \notin Filling \union {"create"}
        BY <1>0, <2>0, <2>6 DEF Remove, Filling
      <3>2. Renewing(b, Filling \union {"create"}) => Renewing(b, Filling \union {"create"})'
        BY <1>1, <3>1
      <3> QED BY <1>0, <2>0, <3>1, <3>2
    <2>7. ~ Open(p) /\ ~ Read(p)
      BY <1>0, <2>0 DEF Open, Read, PlaceAt, Mutators
    <2>8. DiskStep(p) => \/ DiskFault(p) /\ pc[p] \in {"create", "remove"}
                         \/ (Create(p) /\ ~ DiskFault(p)) \/ Copy(p) \/ Close(p) \/ Cleanup(p)
                         \/ (Remove(p) /\ ~ DiskFault(p))
      BY <2>7 DEF DiskStep, Create, Remove
    <2> QED BY <2>0, <2>2, <2>3, <2>4, <2>5, <2>6, <2>8
  <1> QED BY <1>2, <1>3

\* An upload that ends well leaves what it was given.
LEMMA UploadEnds ==
  ASSUME TypedInv, LoneOK, NEW p \in Procs, VariantCall(p) \/ VariantStep(p), NEW b \in Blobs \ mixed,
         Uploads(p, b), Close(p), Return(p, "ok"), NEW c, c = content[b]
  PROVE  c \in had'[b] /\ Settled(b, c)'
  <1>1. op[p] = "Upload" /\ key[p] = BlobKey(b) /\ pc[p] = "close" /\ BlobKey(b) \in Keys
    BY UploadPlace, KeyFacts DEF Close
  <1>2. Mutating(p, BlobKey(b))
    BY <1>1 DEF Mutating, Mutators
  <1>3. UNCHANGED <<op, key, stream, alone, content, had, at, frame, target>>
    BY <1>1, <1>2, MutatorStep DEF variantVars, variantHistory
  <1>4. /\ content[b] \in had[b] /\ alone[p] /\ stream[p] = <<content[b], Original>>
        /\ \A r \in Procs \ {p} : ~ Using(r, b, {"Process", "Upload", "Purge"})
    BY DEF LoneOK, LoneAt
  <1>5. pc'[p] = "idle" /\ result'[p] = "ok"
    BY TypedParts DEF Return, DiskTypeOK, PlaceTypeOK
  <1>6. UploadAt(p)'
    BY ServiceKept DEF TypedInv, ServiceInv, UploadOK
  <1>7. Stored(BlobKey(b))' = Whole(<<c, Original>>)
    BY <1>1, <1>3, <1>4, <1>5, <1>6 DEF UploadAt, Stored, BlobKey
  <1>8. ASSUME NEW q \in Procs PROVE ~ Using(q, b, {"Process"})'
    BY <1>3, <1>4 DEF Using, Uploads
  <1> QED BY <1>3, <1>4, <1>7, <1>8 DEF Settled

LEMMA SettledStep ==
  ASSUME TypedInv, LoneOK, NEW p \in Procs, VariantCall(p) \/ VariantStep(p), NEW b \in Blobs \ mixed',
         NEW c \in had[b], Settled(b, c), faults' <= 1
  PROVE  \E d \in had'[b] : Settled(b, d)'
  <1>1. b \notin mixed
    BY LoneStep
  <1>2. c \in Contents /\ had \in [Blobs -> SUBSET Contents]
    <2>1. had \in [Blobs -> SUBSET Contents] /\ b \in Blobs
      BY DEF TypedInv, ShapeOK
    <2>2. had[b] \in SUBSET Contents
      BY <2>1
    <2> QED BY <2>1, <2>2
  <1>3. CASE Uploads(p, b) /\ Close(p) /\ Return(p, "ok")
    <2>1. PICK d : d = content[b]
      OBVIOUS
    <2> QED BY <1>1, <1>3, <2>1, UploadEnds
  <1>4. CASE ~ (Uploads(p, b) /\ Close(p) /\ Return(p, "ok"))
    <2>1. c \in had'[b]
      <3>1. CASE EnterUpload(p)
        BY <1>2, <3>1 DEF EnterUpload
      <3>2. CASE ~ EnterUpload(p)
        BY <3>2, CallBegins, StepFrame
      <3> QED BY <3>1, <3>2
    <2>2. ASSUME NEW q \in Procs, Using(q, b, {"Process"})'
          PROVE  ReadsContent(q, c)'
      <3>1. CASE q = p
        BY <1>1, <1>2, <2>2, <3>1, OwnReads
      <3>2. CASE q # p
        <4>1. Using(q, b, {"Process"})
          BY <2>2, <3>2, OthersStay DEF Using
        <4>2. ReadsContent(q, c)
          BY <4>1 DEF Settled
        <4> QED BY <1>1, <3>2, <4>1, <4>2, OtherReads
      <3> QED BY <3>1, <3>2
    <2>3. /\ dir'[BlobKey(b)] # 0 /\ ~ Renewing(b, Filling)' =>
              Stored(BlobKey(b))' = Whole(<<c, Original>>)
          /\ faults' = 0 /\ ~ Renewing(b, Filling \union {"create"})' => c = content'[b]
      BY <1>1, <1>2, <1>4, ObjectStep
    <2>4. Settled(b, c)'
      BY <2>2, <2>3 DEF Settled, BlobKey
    <2> QED BY <2>1, <2>4
  <1> QED BY <1>3, <1>4

LEMMA SettledKept ==
  ASSUME TypedInv, LoneOK, SettledOK, NEW p \in Procs, VariantCall(p) \/ VariantStep(p)
  PROVE  SettledOK'
  <1> SUFFICES ASSUME faults' <= 1, NEW b \in Blobs \ mixed'
               PROVE  \E d \in had'[b] : Settled(b, d)'
    BY DEF SettledOK
  <1>1. b \notin mixed
    BY LoneStep
  <1>2. faults <= 1
    BY FaultsGrow
  <1>3. PICK c \in had[b] : Settled(b, c)
    BY <1>1, <1>2 DEF SettledOK
  <1> QED BY <1>3, SettledStep

-----------------------------------------------------------------------------
(* A file that several writers of one stream write.                         *)

\* Nothing but chunks of v, and gaps.
Clean(file, v) == Len(file) <= Length[v] /\ \A i \in 1 .. Len(file) : file[i] \in {v, Hole}

\* The first n chunks of v are there.
Filled(file, v, n) == n <= Len(file) /\ \A i \in 1 .. n : file[i] = v

LEMMA PutAtIs ==
  ASSUME NEW file \in Seq(Chunks), NEW o \in Nat, NEW v \in Chunks
  PROVE  /\ Len(PutAt(file, o, v)) = IF o < Len(file) THEN Len(file) ELSE o + 1
         /\ \A i \in 1 .. Len(PutAt(file, o, v)) :
              PutAt(file, o, v)[i] = IF i = o + 1 THEN v ELSE IF i <= Len(file) THEN file[i] ELSE Hole
  <1> DEFINE n == IF o < Len(file) THEN Len(file) ELSE o + 1
             f == PutAt(file, o, v)
  <1>1. f \in Seq(Chunks) /\ n \in Nat
    BY PutAtType
  <1>2. f = [i \in 1 .. n |-> f[i]]
    BY Zenon DEF PutAt
  <1> HIDE DEF n
  <1>3. DOMAIN f = 1 .. n
    BY <1>2, Zenon
  <1>4. Len(f) = n
    BY <1>1, <1>3, LenProperties
  <1>5. ASSUME NEW i \in 1 .. n
        PROVE  f[i] = IF i = o + 1 THEN v ELSE IF i <= Len(file) THEN file[i] ELSE Hole
    <2>0. i \in 1 .. IF o < Len(file) THEN Len(file) ELSE o + 1
      BY <1>5 DEF n
    <2>1. CASE i = o + 1
      BY <2>0, <2>1, Zenon DEF PutAt
    <2>2. CASE i # o + 1 /\ i <= Len(file)
      BY <2>0, <2>2, Zenon DEF PutAt
    <2>3. CASE i # o + 1 /\ ~ i <= Len(file)
      BY <2>0, <2>3, Zenon DEF PutAt
    <2> QED BY <2>1, <2>2, <2>3
  <1> QED BY <1>4, <1>5 DEF n

LEMMA EmptyIsClean ==
  ASSUME NEW v \in Streams
  PROVE  Clean(<<>>, v) /\ Filled(<<>>, v, 0)
  BY WholeIsFile DEF Clean, Filled

LEMMA WholeIsClean ==
  ASSUME NEW v \in Streams
  PROVE  Clean(Whole(v), v) /\ Filled(Whole(v), v, Length[v])
  <1>1. Len(Whole(v)) = Length[v] /\ Length[v] \in Nat
    BY WholeIsFile
  <1>2. \A i \in 1 .. Length[v] : Whole(v)[i] = v
    BY Zenon DEF Whole
  <1> QED BY <1>1, <1>2 DEF Clean, Filled

\* What is clean and filled to its end is whole.
LEMMA FilledIsWhole ==
  ASSUME NEW v \in Streams, NEW file \in Seq(Chunks), Clean(file, v), Filled(file, v, Length[v])
  PROVE  file = Whole(v)
  <1>1. Length[v] \in Nat /\ Len(file) = Length[v] /\ \A i \in 1 .. Length[v] : file[i] = v
    BY WholeIsFile DEF Clean, Filled
  <1>2. file = [i \in 1 .. Length[v] |-> file[i]]
    BY <1>1
  <1>3. file = [i \in 1 .. Length[v] |-> v]
    BY <1>1, <1>2, Zenon
  <1> QED BY <1>3 DEF Whole

\* A chunk of the same stream keeps a file clean and filled, and fills it up.
LEMMA ChunkOfSame ==
  ASSUME NEW v \in Streams, NEW file \in Seq(Chunks), NEW o \in Nat, o < Length[v], Clean(file, v)
  PROVE  /\ Clean(PutAt(file, o, v), v)
         /\ \A n \in Nat : Filled(file, v, n) => Filled(PutAt(file, o, v), v, n)
         /\ Filled(file, v, o) => Filled(PutAt(file, o, v), v, o + 1)
         /\ file = Whole(v) => PutAt(file, o, v) = Whole(v)
  <1> DEFINE f == PutAt(file, o, v)
  <1>0. v \in Chunks /\ Length[v] \in Nat
    BY WholeIsFile DEF Chunks
  <1>1. /\ f \in Seq(Chunks) /\ Len(f) = IF o < Len(file) THEN Len(file) ELSE o + 1
        /\ \A i \in 1 .. Len(f) :
             f[i] = IF i = o + 1 THEN v ELSE IF i <= Len(file) THEN file[i] ELSE Hole
    BY <1>0, PutAtIs, PutAtType
  <1> HIDE DEF f
  <1>2. Clean(f, v)
    BY <1>0, <1>1 DEF Clean
  <1>3. \A n \in Nat : Filled(file, v, n) => Filled(f, v, n)
    BY <1>1 DEF Filled
  <1>4. Filled(file, v, o) => Filled(f, v, o + 1)
    BY <1>1 DEF Filled
  <1>5. file = Whole(v) => f = Whole(v)
    BY <1>0, <1>1, <1>2, <1>3, WholeIsClean, FilledIsWhole
  <1> QED BY <1>2, <1>3, <1>4, <1>5 DEF f

-----------------------------------------------------------------------------
(* The objects of the variants.                                             *)

\* Process q has open the file that is stored under k.
Writing(q, k) == pc[q] \in {"copy", "close"} /\ key[q] = k /\ fd[q] = dir[k]

\* Process q will fill what is stored under k, or remove it.
Covers(q, k) ==
    \/ pc[q] = "cleanup" /\ key[q] = k
    \/ Writing(q, k) /\ Filled(Stored(k), stream[q], off[q])

\* A variant is stored, and who writes its file writes the same.
Made(b, t) == \E d \in had[b] :
    /\ Stored(Key(b, t)) = Rendition(d, t)
    /\ \A q \in Procs : Writing(q, Key(b, t)) => stream[q] = <<d, t>>

\* A variant has been created since its blob was uploaded.
Fresh(b, t) ==
    \/ <<b, t>> \in processed
    \/ \E q \in Procs :
         /\ at[q] = "service" /\ key[q] = Key(b, t)
         /\ pc[q] \in {"copy", "close"} \/ (pc[q] = "idle" /\ result[q] = "ok")

CleanOK(b, t) == \A q \in Procs : Writing(q, Key(b, t)) => Clean(Stored(Key(b, t)), stream[q])

MadeOK(b, t) ==
    dir[Key(b, t)] # 0 => Made(b, t) \/ \E q \in Procs : Covers(q, Key(b, t))

FreshOK(b, t) == faults = 0 /\ Fresh(b, t) =>
    /\ dir[Key(b, t)] # 0
    /\ Stored(Key(b, t)) = Rendition(content[b], t) \/ \E q \in Procs : Covers(q, Key(b, t))

FileOK(b, t) == CleanOK(b, t) /\ MadeOK(b, t) /\ FreshOK(b, t)

FilesOK == faults <= 1 => \A b \in Blobs \ mixed, t \in Variations : FileOK(b, t)

\* Who writes a variant, and what.
LEMMA WriterIs ==
  ASSUME TypedInv, NEW b \in Blobs, NEW t \in Variations, NEW c \in Contents, Settled(b, c),
         NEW q \in Procs, key[q] = Key(b, t), pc[q] \in Filling \union {"create"}
  PROVE  /\ Mutating(q, Key(b, t)) /\ Using(q, b, {"Process"}) /\ sum[q] = NoSum
         /\ stream[q] = <<c, t>> /\ stream[q] \in Streams /\ limit[q] = Length[stream[q]]
  <1>1. op[q] = "Upload" /\ stream[q] \in Streams /\ limit[q] = Length[stream[q]]
    BY TypedParts DEF Filling, PlaceOK, PlaceAt
  <1>2. Mutating(q, Key(b, t))
    BY <1>1 DEF Mutating, Mutators, Filling
  <1>3. /\ at[q] = "service" /\ target[q][1] = b /\ frame[q] = "Process" /\ target[q] = Key(b, t)
        /\ sum[q] = NoSum
    BY <1>2, MutatorUses, KeyFacts
  <1>4. Using(q, b, {"Process"}) /\ target[q][2] = t
    BY <1>3, KeyFacts DEF Using
  <1>5. stream[q] = <<c, t>>
    BY <1>1, <1>3, <1>4 DEF Settled, ReadsContent
  <1> QED BY <1>1, <1>2, <1>3, <1>4, <1>5

\* What a writer has open.
LEMMA WriterHas ==
  ASSUME TypedInv, NEW q \in Procs, NEW k \in Keys, Writing(q, k)
  PROVE  /\ Mutating(q, k) /\ dir[k] # 0 /\ fd[q] \in 1 .. Len(data) /\ Stored(k) \in Seq(Chunks)
         /\ off[q] \in Nat /\ off[q] <= limit[q]
  <1>1. op[q] = "Upload" /\ fd[q] # 0
    BY TypedParts DEF Writing, PlaceOK, PlaceAt
  <1>2. fd[q] \in 1 .. Len(data) /\ off[q] \in Nat
    BY TypeFacts DEF Writing, TypedInv, ServiceInv, Owners, DiskType
  <1>3. data[fd[q]] \in Seq(Chunks)
    BY <1>2, TypedParts DEF DiskTypeOK, FileTypeOK, Chunks
  <1>4. off[q] <= limit[q]
    BY TypedParts DEF Writing, FrameOK, CallAt, DiskTypeOK, HandleTypeOK
  <1> QED BY <1>1, <1>2, <1>3, <1>4 DEF Writing, Mutating, Mutators, Stored

\* A mutation begins at its first system call.
LEMMA NewMutator ==
  ASSUME TypedInv, NEW p \in Procs, VariantCall(p) \/ VariantStep(p), NEW k, ~ Mutating(p, k), Mutating(p, k)'
  PROVE  pc'[p] \in {"create", "remove"} /\ at'[p] = "service"
  <1>1. CASE DiskCall(p)
    <2>1. PICK o : \E k1 \in Keys, v, c \in Streams \union {NoSum} : \E from, upto, l :
             Begin(p, o, k1, v, c, from, upto, l) /\ Opens(p, o, k1, v, from, upto, l)
      BY <1>1 DEF DiskCall
    <2>2. PICK k1 \in Keys, v, c \in Streams \union {NoSum} : \E from, upto, l :
             Begin(p, o, k1, v, c, from, upto, l) /\ Opens(p, o, k1, v, from, upto, l)
      BY <2>1
    <2>3. PICK from, upto, l :
             Begin(p, o, k1, v, c, from, upto, l) /\ Opens(p, o, k1, v, from, upto, l)
      BY <2>2
    <2>4. pc'[p] = l /\ op'[p] = o
      BY <2>3, TypedParts DEF Begin, DiskTypeOK, PlaceTypeOK
    <2> QED BY <2>3, <2>4, TypedStep DEF Opens, Mutating, Mutators, TypedInv, FrameOK, FrameAt
  <1>2. CASE DiskStep(p)
    <2>1. UNCHANGED <<op, key>> /\ pc[p] # "idle"
      BY <1>2, StepKeeps DEF DiskStep, Create, Copy, Close, Cleanup, Remove, Open, Read
    <2> QED BY <2>1 DEF Mutating
  <1>3. CASE Quiet
    BY <1>3 DEF Quiet, callVars, Mutating
  <1> QED BY <1>1, <1>2, <1>3, ServiceEffect DEF TypedInv

LEMMA HadGrows ==
  ASSUME TypedInv, NEW p \in Procs, VariantCall(p) \/ VariantStep(p), NEW b \in Blobs
  PROVE  /\ had[b] \in SUBSET Contents /\ had[b] \subseteq had'[b]
         /\ content'[b] # content[b] => EnterUpload(p) /\ Uploads(p, b)'
  <1>0. /\ had \in [Blobs -> SUBSET Contents] /\ content \in [Blobs -> Contents]
        /\ at \in [Procs -> VariantLabels] /\ frame \in [Procs -> VariantFrames] /\ target \in [Procs -> Keys]
    BY DEF TypedInv, ShapeOK
  <1>1. CASE EnterUpload(p)
    <2>1. PICK b1 \in Blobs, c \in Contents :
            /\ Enter(p, "Upload", b1, Original, "service")
            /\ content' = [content EXCEPT ![b1] = c]
            /\ had' = [had EXCEPT ![b1] = @ \union {c}]
      BY <1>1 DEF EnterUpload
    <2>2. had[b] \subseteq had'[b] /\ (content'[b] = content[b] \/ b1 = b)
      BY <1>0, <2>1
    <2>3. at'[p] = "service" /\ frame'[p] = "Upload" /\ target'[p][1] = b1
      BY <1>0, <2>1 DEF Enter
    <2> QED BY <1>0, <1>1, <2>2, <2>3 DEF Uploads, Using
  <1>2. CASE ~ EnterUpload(p)
    <2>1. UNCHANGED <<content, had>>
      BY <1>2, CallBegins, StepFrame
    <2> QED BY <1>0, <2>1
  <1> QED BY <1>1, <1>2

\* The writers of a file that the step does not reach.
LEMMA WritersLeft ==
  ASSUME TypedInv, NEW p \in Procs, VariantCall(p) \/ VariantStep(p), NEW k \in Keys, ~ Mutating(p, k),
         NEW q \in Procs
  PROVE  /\ Writing(q, k)' <=> Writing(q, k)
         /\ Writing(q, k) => stream'[q] = stream[q]
         /\ Covers(q, k)' <=> Covers(q, k)
  <1>1. dir'[k] = dir[k] /\ (dir[k] # 0 => Stored(k)' = Stored(k))
    BY ObjectLeft
  <1>2. PlaceAt(q) /\ PlaceAt(q)'
    BY ServiceKept DEF TypedInv, ServiceInv, Owners, DiskType, PlaceOK
  <1>3. CASE q = p
    <2>1. pc[p] \in Filling => key[p] # k
      BY <1>2, <1>3 DEF PlaceAt, Filling, Mutating, Mutators
    <2>2. ASSUME pc'[p] \in Filling, key'[p] = k PROVE FALSE
      <3>1. Mutating(p, k)'
        BY <1>2, <1>3, <2>2 DEF PlaceAt, Filling, Mutating, Mutators
      <3>2. pc'[p] \in {"create", "remove"}
        BY <3>1, NewMutator
      <3> QED BY <2>2, <3>2 DEF Filling
    <2> QED BY <1>3, <2>1, <2>2 DEF Writing, Covers, Filling
  <1>4. CASE q # p
    <2>1. /\ pc'[q] = pc[q] /\ key'[q] = key[q] /\ fd'[q] = fd[q] /\ stream'[q] = stream[q]
          /\ off'[q] = off[q]
      BY <1>4, OthersStay
    <2>2. Writing(q, k) => dir[k] # 0
      BY <1>2 DEF Writing, PlaceAt
    <2> QED BY <1>1, <2>1, <2>2 DEF Writing, Covers
  <1> QED BY <1>3, <1>4

\* What is new is new because of somebody who has the object in hand.
LEMMA FreshLeft ==
  ASSUME TypedInv, LoneOK, NEW p \in Procs, VariantCall(p) \/ VariantStep(p), NEW b \in Blobs \ mixed',
         NEW t \in Variations, ~ Mutating(p, Key(b, t)), Fresh(b, t)'
  PROVE  Fresh(b, t) /\ content'[b] = content[b]
  <1> DEFINE k == Key(b, t)
  <1>0. k \in Keys /\ k = <<b, t>> /\ k[2] # Original /\ t # Original
    BY KeyFacts DEF Key
  <1>1. ASSUME NEW q \in Procs, at[q] = "service", key[q] = k, result[q] = "ok" \/ pc[q] # "idle"
        PROVE  target[q] = k /\ frame[q] = "Process" /\ op[q] = "Upload"
    <2>1. CallAt(q) /\ target[q] \in Keys
      BY DEF TypedInv, FrameOK, ShapeOK
    <2>2. BlobKey(target[q][1])[2] = Original
      BY <2>1, KeyFacts
    <2> QED BY <1>0, <1>1, <2>1, <2>2 DEF CallAt
  <1>2. Fresh(b, t)
    <2>1. CASE <<b, t>> \in processed'
      <3>1. CASE VariantCall(p)
        <4>1. <<b, t>> \in processed
          BY <2>1, <3>1, CallBegins DEF EnterUpload
        <4> QED BY <4>1 DEF Fresh
      <3>2. CASE VariantStep(p) /\ <<b, t>> \notin processed
        <4>1. /\ target[p] = k /\ frame[p] = "Process" /\ at[p] = "service" /\ pc[p] = "idle"
              /\ result[p] = "ok" /\ op[p] # "Download"
          BY <1>0, <2>1, <3>2, StepFrame
        <4>2. CallAt(p)
          BY DEF TypedInv, FrameOK
        <4>3. key[p] = k
          BY <4>1, <4>2 DEF CallAt
        <4> QED BY <4>1, <4>3 DEF Fresh
      <3> QED BY <3>1, <3>2 DEF Fresh
    <2>2. ASSUME NEW q \in Procs, at'[q] = "service", key'[q] = k,
                 pc'[q] \in {"copy", "close"} \/ (pc'[q] = "idle" /\ result'[q] = "ok")
          PROVE  Fresh(b, t)
      <3>1. CASE q # p
        BY <2>2, <3>1, OthersStay DEF Fresh
      <3>2. CASE q = p
        <4>0. TypedInv'
          BY TypedStep
        <4>1. op'[p] = "Upload"
          <5>1. CallAt(p)' /\ target'[p] \in Keys
            BY <4>0 DEF TypedInv, FrameOK, ShapeOK
          <5>2. (BlobKey(target[p][1])[2])' = Original
            BY <5>1, KeyFacts DEF BlobKey
          <5>3. key'[p][2] # Original
            BY <1>0, <2>2, <3>2
          <5> QED BY <2>2, <3>2, <5>1, <5>2, <5>3 DEF CallAt
        <4>2. InService(p)
          <5>1. CASE VariantCall(p) \/ CallService(p)
            <6>1. CASE VariantCall(p) /\ ~ EnterUpload(p)
              <7>1. PICK b1 \in Blobs, t1 \in Variations \union {Original}, o \in VariantFrames,
                         l \in VariantLabels : Enter(p, o, b1, t1, l) /\ Starts(o, t1, l)
                BY <6>1, CallBegins
              <7>2. at'[p] = l
                BY <7>1 DEF Enter, TypedInv, ShapeOK
              <7> QED BY <2>2, <3>2, <7>1, <7>2 DEF Starts
            <6>2. CASE EnterUpload(p)
              <7>1. PICK b1 \in Blobs, c1 \in Contents :
                      Begin(p, "Upload", BlobKey(b1), <<c1, Original>>, <<c1, Original>>, 0,
                            Length[<<c1, Original>>], "create")
                BY <6>2 DEF EnterUpload, Upload
              <7>2. pc'[p] = "create"
                BY <7>1, BeginEffect
              <7> QED BY <2>2, <3>2, <7>2
            <6>3. CASE CallService(p)
              <7>1. pc'[p] \in {"open", "create", "remove"}
                BY <6>3, ServiceCalled, BeginEffect DEF TypedInv
              <7> QED BY <2>2, <3>2, <7>1
            <6> QED BY <5>1, <6>1, <6>2, <6>3
          <5>2. CASE ServiceReturned(p) \/ Transform(p) \/ Exist(p)
            <6>1. at'[p] # "service"
              BY <5>2 DEF ServiceReturned, Transform, Exist, Advance, Finish, TypedInv, ShapeOK
            <6> QED BY <2>2, <3>2, <6>1
          <5> QED BY <5>1, <5>2 DEF VariantStep
        <4>3. pc[p] # "idle" /\ UNCHANGED <<op, key>>
          BY <4>2, StepKeeps DEF InService, DiskStep, Create, Copy, Close, Cleanup, Remove, Open, Read
        <4>4. Mutating(p, k)
          BY <2>2, <3>2, <4>1, <4>3 DEF Mutating, Mutators
        <4> QED BY <4>4
      <3> QED BY <3>1, <3>2
    <2> QED BY <2>1, <2>2 DEF Fresh, Key
  <1>3. content'[b] = content[b]
    <2> SUFFICES ASSUME content'[b] # content[b] PROVE FALSE
      OBVIOUS
    <2>1. EnterUpload(p) /\ VariantCall(p)
      BY HadGrows DEF VariantCall
    <2>2. PICK b1 \in Blobs :
            /\ Enter(p, "Upload", b1, Original, "service")
            /\ processed' = {v \in processed : v[1] # b1}
      BY <2>1 DEF EnterUpload
    <2>3. b1 = b
      <3>1. Uploads(p, b)'
        BY HadGrows
      <3> QED BY <2>1, <2>2, <3>1, UseAfterEnter DEF Uploads
    <2>4. \A q \in Procs : ~ Using(q, b, {"Process", "Upload", "Purge"})
      BY <2>2, <2>3, NotMixed
    <2>5. <<b, t>> \notin processed'
      BY <2>2, <2>3
    <2>6. PICK q \in Procs : /\ at'[q] = "service" /\ key'[q] = k
                             /\ pc'[q] \in {"copy", "close"} \/ (pc'[q] = "idle" /\ result'[q] = "ok")
      BY <2>5 DEF Fresh, Key
    <2>7. q # p
      <3>1. pc'[p] = "create"
        <4>1. PICK b2 \in Blobs, c1 \in Contents :
                Begin(p, "Upload", BlobKey(b2), <<c1, Original>>, <<c1, Original>>, 0,
                      Length[<<c1, Original>>], "create")
          BY <2>1 DEF EnterUpload, Upload
        <4> QED BY <4>1, BeginEffect
      <3> QED BY <2>6, <3>1
    <2>8. at[q] = "service" /\ key[q] = k /\ (pc[q] # "idle" \/ result[q] = "ok")
      BY <2>6, <2>7, OthersStay
    <2>9. target[q] = k /\ frame[q] = "Process"
      BY <1>1, <2>8
    <2> QED BY <1>0, <2>4, <2>8, <2>9 DEF Using
  <1> QED BY <1>2, <1>3

\* A file stays as good as it was under a step that does not reach it.
LEMMA FileLeft ==
  ASSUME TypedInv, LoneOK, NEW p \in Procs, VariantCall(p) \/ VariantStep(p), NEW b \in Blobs \ mixed',
         NEW t \in Variations, FileOK(b, t), ~ Mutating(p, Key(b, t))
  PROVE  FileOK(b, t)'
  <1> DEFINE k == Key(b, t)
  <1>0. k \in Keys /\ k' = k
    BY KeyFacts DEF Key
  <1>1. dir'[k] = dir[k] /\ (dir[k] # 0 => Stored(k)' = Stored(k))
    BY <1>0, ObjectLeft
  <1>2. ASSUME NEW q \in Procs
        PROVE  /\ Writing(q, k)' <=> Writing(q, k)
               /\ Writing(q, k) => stream'[q] = stream[q] /\ dir[k] # 0
               /\ Covers(q, k)' <=> Covers(q, k)
    BY <1>0, WritersLeft, WriterHas
  <1>3. CleanOK(b, t)'
    BY <1>0, <1>1, <1>2 DEF FileOK, CleanOK, Key
  <1>4. Made(b, t) /\ dir[k] # 0 => Made(b, t)'
    BY <1>0, <1>1, <1>2, HadGrows DEF Made, Key
  <1>5. (\E q \in Procs : Covers(q, k)) => (\E q \in Procs : Covers(q, k))'
    BY <1>0, <1>2
  <1>6. MadeOK(b, t)'
    BY <1>0, <1>1, <1>4, <1>5 DEF FileOK, MadeOK, Key
  <1>7. FreshOK(b, t)'
    <2> SUFFICES ASSUME faults' = 0, Fresh(b, t)'
                 PROVE  /\ dir'[k] # 0
                        /\ \/ Stored(k)' = Rendition(content'[b], t)
                           \/ (\E q \in Procs : Covers(q, k))'
      BY <1>0 DEF FreshOK, Key
    <2>1. faults = 0
      BY FaultsGrow
    <2>2. Fresh(b, t) /\ content'[b] = content[b]
      BY FreshLeft
    <2> QED BY <1>1, <1>5, <2>1, <2>2 DEF FileOK, FreshOK
  <1> QED BY <1>3, <1>6, <1>7 DEF FileOK

\* What the steps of who has a file in hand have in common.
LEMMA InHand ==
  ASSUME TypedInv, LoneOK, NEW p \in Procs, VariantCall(p) \/ VariantStep(p), NEW b \in Blobs \ mixed,
         NEW t \in Variations, NEW c \in had[b], Settled(b, c), Mutating(p, Key(b, t))
  PROVE  /\ DiskStep(p) /\ UNCHANGED <<op, key, stream, content, had, processed, at>>
         /\ key[p] = Key(b, t) /\ at[p] = "service" /\ op[p] = "Upload"
         /\ pc[p] \in Filling \union {"create"} /\ c \in Contents
         /\ stream[p] = <<c, t>> /\ stream[p] \in Streams /\ sum[p] = NoSum
         /\ limit[p] = Length[stream[p]]
         /\ faults = 0 => c = content[b]
         /\ \A q \in Procs : key[q] = Key(b, t) /\ pc[q] \in Filling \union {"create"} =>
              stream[q] = <<c, t>>
         /\ \A q \in Procs \ {p} : /\ pc'[q] = pc[q] /\ fd'[q] = fd[q] /\ off'[q] = off[q]
                                   /\ result'[q] = result[q]
  <1>0. Key(b, t) \in Keys /\ c \in Contents
    <2>1. had \in [Blobs -> SUBSET Contents] /\ b \in Blobs
      BY DEF TypedInv, ShapeOK
    <2>2. had[b] \in SUBSET Contents
      BY <2>1
    <2> QED BY <2>1, <2>2, KeyFacts
  <1>1. /\ DiskStep(p) /\ UNCHANGED <<op, key, stream, content, had, processed, at>>
    BY <1>0, MutatorStep DEF variantVars, variantHistory
  <1>2. at[p] = "service" /\ op[p] = "Upload" /\ key[p] = Key(b, t)
    BY <1>0, MutatorUses, KeyFacts DEF Mutating
  <1>3. pc[p] \in Filling \union {"create"}
    BY <1>1, <1>2, TypedParts
    DEF DiskStep, Create, Copy, Close, Cleanup, Remove, Open, Read, Filling, PlaceOK, PlaceAt
  <1>4. \A q \in Procs : key[q] = Key(b, t) /\ pc[q] \in Filling \union {"create"} =>
          stream[q] = <<c, t>> /\ Using(q, b, {"Process"}) /\ sum[q] = NoSum
            /\ stream[q] \in Streams /\ limit[q] = Length[stream[q]]
    BY <1>0, WriterIs
  <1>5. faults = 0 => c = content[b]
    <2>1. ~ Renewing(b, Filling \union {"create"})
      <3> SUFFICES ASSUME NEW q \in Procs, pc[q] \in Filling \union {"create"}, key[q] = BlobKey(b)
                   PROVE  FALSE
        BY DEF Renewing
      <3>1. Uploads(q, b) /\ Using(p, b, {"Process"})
        BY <1>2, <1>3, <1>4, RenewerUploads
      <3> QED BY <3>1 DEF LoneOK, LoneAt, Using, Uploads
    <2> QED BY <2>1 DEF Settled
  <1>6. \A q \in Procs \ {p} : /\ pc'[q] = pc[q] /\ fd'[q] = fd[q] /\ off'[q] = off[q]
                              /\ result'[q] = result[q]
    BY OthersStay
  <1> QED BY <1>0, <1>1, <1>2, <1>3, <1>4, <1>5, <1>6

\* A file stays good in the hands of those who write it: they write the same.
LEMMA FileInHand ==
  ASSUME TypedInv, LoneOK, NEW p \in Procs, VariantCall(p) \/ VariantStep(p), NEW b \in Blobs \ mixed,
         NEW t \in Variations, NEW c \in had[b], Settled(b, c), FileOK(b, t), Mutating(p, Key(b, t)),
         faults' <= 1
  PROVE  FileOK(b, t)'
  <1> DEFINE k == Key(b, t)
             v == <<c, t>>
             Covered == \E q \in Procs : Covers(q, k)
  <1>0. /\ pc \in [Procs -> DiskLabels] /\ dir \in [Keys -> 0 .. Len(data)]
        /\ fd \in [Procs -> 0 .. Len(data)] /\ off \in [Procs -> Nat] /\ data \in Seq(Seq(Chunks))
        /\ Len(data) \in Nat /\ k \in Keys /\ faults \in Nat /\ (faults' = 0 => faults = 0)
    <2>1. k \in Keys
      BY KeyFacts
    <2>2. faults \in Nat /\ (faults' = 0 => faults = 0)
      BY FaultsGrow
    <2> HIDE DEF k, v, Covered
    <2> QED BY <2>1, <2>2, TypedParts DEF DiskTypeOK, FileTypeOK, PlaceTypeOK, HandleTypeOK, Chunks
  <1>1. /\ DiskStep(p) /\ UNCHANGED <<op, key, stream, content, had, processed, at>>
        /\ key[p] = k /\ at[p] = "service" /\ op[p] = "Upload"
        /\ pc[p] \in Filling \union {"create"} /\ c \in Contents
        /\ stream[p] = v /\ v \in Streams /\ sum[p] = NoSum /\ limit[p] = Length[v]
        /\ faults = 0 => c = content[b]
        /\ \A q \in Procs : key[q] = k /\ pc[q] \in Filling \union {"create"} => stream[q] = v
        /\ \A q \in Procs \ {p} : pc'[q] = pc[q] /\ fd'[q] = fd[q] /\ off'[q] = off[q]
    BY InHand
  <1>2. PlaceAt(p) /\ CallAt(p) /\ PlaceAt(p)' /\ \A q \in Procs : PlaceAt(q)
    BY ServiceKept DEF TypedInv, ServiceInv, Owners, DiskType, PlaceOK, FrameOK
  <1> HIDE DEF k, v
  <1>3. /\ CleanOK(b, t)' <=> \A q \in Procs : Writing(q, k)' => Clean(Stored(k), stream[q])'
        /\ MadeOK(b, t)' <=> (dir'[k] # 0 => Made(b, t)' \/ Covered')
        /\ FreshOK(b, t)' <=> (faults' = 0 /\ Fresh(b, t)' =>
              dir'[k] # 0 /\ (Stored(k)' = Rendition(content'[b], t) \/ Covered'))
        /\ CleanOK(b, t) <=> \A q \in Procs : Writing(q, k) => Clean(Stored(k), stream[q])
        /\ MadeOK(b, t) <=> (dir[k] # 0 => Made(b, t) \/ Covered)
        /\ FreshOK(b, t) <=> (faults = 0 /\ Fresh(b, t) =>
              dir[k] # 0 /\ (Stored(k) = Rendition(content[b], t) \/ Covered))
    BY DEF CleanOK, MadeOK, FreshOK, k, Key
  <1>4. ASSUME NEW q \in Procs, Writing(q, k)'
        PROVE  stream'[q] = v /\ fd'[q] # 0
    <2>1. CASE q = p
      BY <1>1, <1>2, <1>4, <2>1 DEF Writing, PlaceAt
    <2>2. CASE q # p
      BY <1>1, <1>2, <1>4, <2>2 DEF Writing, PlaceAt, Filling
    <2> QED BY <2>1, <2>2
  <1>5. Rendition(c, t) = Whole(v)
    BY DEF Rendition, v
  <1>6. Stored(k)' = Whole(v) => Made(b, t)'
    BY <1>1, <1>4, <1>5 DEF Made, k, v, Key, Rendition, Whole
  \* The file is left, and so are those who write it but for p.
  <1>7. ASSUME dir' = dir, dir[k] # 0 => Stored(k)' = Stored(k),
               Writing(p, k)' => Writing(p, k),
               Covers(p, k) => Covered' \/ Stored(k) = Whole(v),
               faults' = 0 => pc[p] \in {"copy", "close"}
        PROVE  FileOK(b, t)'
    <2>1. ASSUME NEW q \in Procs, Writing(q, k)' PROVE Writing(q, k) /\ dir[k] # 0
      <3>1. Writing(q, k)
        BY <1>1, <1>7, <2>1 DEF Writing
      <3> QED BY <1>2, <3>1 DEF Writing, PlaceAt
    <2>2. CleanOK(b, t)'
      BY <1>1, <1>3, <1>7, <2>1 DEF FileOK
    <2>3. ASSUME dir[k] # 0, Covered PROVE Covered' \/ Stored(k) = Whole(v)
      <3>1. PICK q \in Procs : Covers(q, k)
        BY <2>3
      <3>2. CASE q # p
        <4>1. Covers(q, k)'
          BY <1>1, <1>7, <2>3, <3>1, <3>2 DEF Covers, Writing
        <4> QED BY <4>1
      <3> QED BY <1>7, <3>1, <3>2
    <2>4. Made(b, t) /\ dir[k] # 0 => Made(b, t)'
      BY <1>1, <1>7, <2>1 DEF Made, k, Key, Rendition, Whole
    <2>5. MadeOK(b, t)'
      BY <1>3, <1>6, <1>7, <2>3, <2>4 DEF FileOK
    <2>6. FreshOK(b, t)'
      <3> SUFFICES ASSUME faults' = 0
                   PROVE  dir[k] # 0 /\ (Stored(k)' = Rendition(content[b], t) \/ Covered')
        BY <1>1, <1>3, <1>7
      <3>1. Fresh(b, t) /\ faults = 0
        BY <1>0, <1>1, <1>7 DEF Fresh, k
      <3>2. dir[k] # 0 /\ (Stored(k) = Rendition(content[b], t) \/ Covered)
        BY <1>3, <3>1 DEF FileOK
      <3>3. c = content[b]
        BY <1>1, <3>1
      <3> QED BY <1>5, <1>7, <2>3, <3>2, <3>3
    <2> QED BY <2>2, <2>5, <2>6 DEF FileOK
  <1>8. CASE Create(p) /\ DiskFault(p)
    <2>1. UNCHANGED <<dir, data>> /\ pc[p] = "create" /\ pc'[p] = "idle" /\ faults' # 0
      BY <1>0, <1>8 DEF Create, DiskFault, Return, CountFault
    <2>2. ~ Writing(p, k)' /\ ~ Covers(p, k) /\ Stored(k)' = Stored(k)
      BY <2>1 DEF Writing, Covers, Stored, k, Key
    <2> QED BY <1>7, <2>1, <2>2
  <1>9. CASE Create(p) /\ ~ DiskFault(p)
    <2>1. pc'[p] = "copy" /\ off' = off /\ off[p] = 0
      BY <1>0, <1>2, <1>9 DEF Create, Goto, PlaceAt
    <2>2. dir'[k] = fd'[p] /\ data'[fd'[p]] = <<>>
      <3>1. CASE Truncated(p)
        BY <1>0, <1>1, <3>1 DEF Truncated
      <3>2. CASE Created(p)
        <4>1. Len(data') = Len(data) + 1 /\ data'[Len(data')] = <<>>
          BY <1>0, <3>2, EmptyFile DEF Created
        <4> QED BY <1>0, <1>1, <3>2, <4>1 DEF Created
      <3> QED BY <1>9, <3>1, <3>2, CreateEffect DEF TypedInv, ServiceInv, Owners, DiskType
    <2>3. Stored(k)' = <<>> /\ dir'[k] # 0
      BY <1>2, <2>1, <2>2 DEF Stored, PlaceAt, k, Key
    <2>4. Clean(<<>>, v) /\ Filled(<<>>, v, 0)
      BY <1>1, EmptyIsClean
    <2>5. \A q \in Procs : Writing(q, k)' => Clean(Stored(k), stream[q])'
      BY <1>4, <2>3, <2>4 DEF Clean
    <2>6. Covers(p, k)'
      BY <1>1, <2>1, <2>2, <2>3, <2>4 DEF Covers, Writing, Filled
    <2> QED BY <1>3, <2>3, <2>5, <2>6 DEF FileOK
  <1>10. CASE pc[p] = "copy" /\ Written(p) /\ UNCHANGED pc /\ off' = [off EXCEPT ![p] = @ + 1]
    <2>0. /\ fd[p] \in 1 .. Len(data) /\ off[p] \in Nat /\ off[p] < Length[v] /\ UNCHANGED <<dir, fd>>
          /\ data' = [data EXCEPT ![fd[p]] = PutAt(@, off[p], v)] /\ off'[p] = off[p] + 1
          /\ faults' = 0 => pc[p] \in {"copy", "close"}
      BY <1>0, <1>1, <1>10, TypeFacts DEF Written, TypedInv, ServiceInv, Owners, DiskType
    <2>1. CASE fd[p] # dir[k]
      <3>1. Stored(k)' = Stored(k)
        BY <1>0, <2>0, <2>1 DEF Stored, k, Key
      <3>2. ~ Writing(p, k)' /\ ~ Covers(p, k)
        BY <1>10, <2>0, <2>1 DEF Writing, Covers, k, Key
      <3> QED BY <1>7, <2>0, <3>1, <3>2
    <2>2. CASE fd[p] = dir[k]
      <3>1. Writing(p, k)
        BY <1>1, <1>10, <2>2 DEF Writing
      <3>2. Clean(Stored(k), v) /\ Stored(k) \in Seq(Chunks) /\ dir[k] # 0
        BY <1>0, <1>1, <1>3, <3>1, WriterHas DEF FileOK
      <3>3. Stored(k)' = PutAt(Stored(k), off[p], v)
        BY <1>0, <2>0, <2>2 DEF Stored, k, Key
      <3>4. /\ Clean(Stored(k), v)'
            /\ \A n \in Nat : Filled(Stored(k), v, n) => Filled(PutAt(Stored(k), off[p], v), v, n)
            /\ Filled(Stored(k), v, off[p]) => Filled(PutAt(Stored(k), off[p], v), v, off[p] + 1)
            /\ Stored(k) = Whole(v) => Stored(k)' = Whole(v)
        BY <1>1, <2>0, <3>2, <3>3, ChunkOfSame DEF Clean, v
      <3>5. \A q \in Procs : Writing(q, k)' => Clean(Stored(k), stream[q])'
        BY <1>4, <3>4 DEF Clean
      <3>6. Made(b, t) => Stored(k)' = Whole(v)
        BY <1>1, <3>1, <3>4 DEF Made, Rendition, k, v
      <3>7. ASSUME NEW q \in Procs, Covers(q, k) PROVE Covers(q, k)'
        <4>1. CASE q = p
          BY <1>1, <1>10, <2>0, <2>2, <3>3, <3>4, <3>7, <4>1 DEF Covers, Writing, Filled
        <4>2. CASE q # p /\ Writing(q, k)
          <5>1. stream[q] = v /\ off[q] \in Nat
            BY <1>0, <1>1, <4>2 DEF Writing, Filling
          <5> QED BY <1>1, <1>10, <2>0, <3>3, <3>4, <3>7, <4>2, <5>1 DEF Covers, Writing, Filled
        <4>3. CASE q # p /\ pc[q] = "cleanup"
          BY <1>1, <3>7, <4>3 DEF Covers, Writing
        <4> QED BY <3>7, <4>1, <4>2, <4>3 DEF Covers
      <3>8. MadeOK(b, t)'
        BY <1>3, <1>6, <3>2, <3>6, <3>7 DEF FileOK
      <3>9. FreshOK(b, t)'
        <4> SUFFICES ASSUME faults' = 0
                     PROVE  dir'[k] # 0 /\ (Stored(k)' = Rendition(content[b], t) \/ Covered')
          BY <1>1, <1>3
        <4>1. Fresh(b, t) /\ faults = 0
          BY <1>0, <1>1, <1>10 DEF Fresh, k
        <4>2. c = content[b] /\ (Stored(k) = Rendition(content[b], t) \/ Covered)
          BY <1>1, <1>3, <4>1 DEF FileOK
        <4> QED BY <1>5, <2>0, <3>2, <3>4, <3>7, <4>2
      <3> QED BY <1>3, <3>5, <3>8, <3>9 DEF FileOK
    <2> QED BY <2>1, <2>2
  <1>11. CASE Copy(p) /\ off[p] = limit[p] /\ Goto(p, "close") /\ UNCHANGED <<dir, data, handles>>
    <2>1. /\ pc[p] = "copy" /\ pc'[p] = "close" /\ UNCHANGED <<dir, data, fd, off>>
      BY <1>0, <1>11 DEF Copy, Goto, handles
    <2>2. Stored(k)' = Stored(k) /\ (Writing(p, k)' => Writing(p, k))
      BY <1>1, <2>1 DEF Writing, Stored, k, Key
    <2>3. Covers(p, k) => Covered'
      BY <1>1, <2>1, <2>2 DEF Covers, Writing, k, Key
    <2> QED BY <1>7, <2>1, <2>2, <2>3
  <1>12. CASE pc[p] \in {"copy", "close"} /\ CountFault /\ Goto(p, "cleanup") /\ UNCHANGED <<dir, data>>
    <2>1. UNCHANGED <<dir, data>> /\ pc'[p] = "cleanup" /\ faults' # 0
      BY <1>0, <1>12 DEF Goto, CountFault
    <2>2. ~ Writing(p, k)' /\ Covers(p, k)' /\ Stored(k)' = Stored(k)
      BY <1>1, <2>1 DEF Writing, Covers, Stored, k, Key
    <2> QED BY <1>7, <2>1, <2>2
  <1>13. CASE Close(p) /\ Return(p, "ok")
    <2>1. pc[p] = "close" /\ pc'[p] = "idle" /\ UNCHANGED <<dir, data>>
      BY <1>0, <1>13 DEF Close, Return
    <2>2. ~ Writing(p, k)' /\ Stored(k)' = Stored(k)
      BY <2>1 DEF Writing, Stored, k, Key
    <2>3. ASSUME Covers(p, k) PROVE Stored(k) = Whole(v)
      <3>1. Writing(p, k) /\ Filled(Stored(k), v, Length[v])
        BY <1>1, <1>2, <2>1, <2>3 DEF Covers, CallAt
      <3>2. Clean(Stored(k), v) /\ Stored(k) \in Seq(Chunks)
        BY <1>0, <1>1, <1>3, <3>1, WriterHas DEF FileOK
      <3> QED BY <1>1, <3>1, <3>2, FilledIsWhole
    <2> QED BY <1>7, <2>1, <2>2, <2>3
  <1>14. CASE Cleanup(p)
    <2>1. pc[p] = "cleanup" /\ faults # 0
      BY <1>2, <1>14 DEF Cleanup, CallAt
    <2>2. ~ CountFault
      BY <1>0, <2>1 DEF CountFault
    <2>3. dir'[k] = 0 /\ faults' # 0
      BY <1>0, <1>1, <1>14, <2>1, <2>2 DEF Cleanup
    <2>4. \A q \in Procs : ~ Writing(q, k)'
      BY <1>4, <2>3 DEF Writing, k, Key
    <2> QED BY <1>3, <2>3, <2>4 DEF FileOK
  <1>15. Create(p) \/ Copy(p) \/ Close(p) \/ Cleanup(p)
    BY <1>1 DEF DiskStep, Remove, Open, Read, Filling
  <1>16. CASE Copy(p)
    <2>1. pc[p] = "copy"
      BY <1>16 DEF Copy
    <2> QED BY <1>10, <1>11, <1>12, <1>16, <2>1, ReaderAssumption DEF Copy, Written
  <1>17. CASE Close(p)
    <2>1. pc[p] = "close" /\ DigestMatches(p) /\ UNCHANGED <<dir, data>>
      BY <1>1, <1>17 DEF Close, DigestMatches
    <2> QED BY <1>12, <1>13, <1>17, <2>1 DEF Close
  <1> QED BY <1>8, <1>9, <1>14, <1>15, <1>16, <1>17

LEMMA FilesStep ==
  ASSUME TypedInv, LoneOK, SettledOK, FilesOK, NEW p \in Procs, VariantCall(p) \/ VariantStep(p)
  PROVE  FilesOK'
  <1> SUFFICES ASSUME faults' <= 1, NEW b \in Blobs \ mixed', NEW t \in Variations
               PROVE  FileOK(b, t)'
    BY DEF FilesOK
  <1>1. b \in Blobs \ mixed /\ faults <= 1
    BY LoneStep, FaultsGrow
  <1>2. FileOK(b, t)
    BY <1>1 DEF FilesOK
  <1>3. PICK c \in had[b] : Settled(b, c)
    BY <1>1 DEF SettledOK
  <1>4. CASE Mutating(p, Key(b, t))
    BY <1>1, <1>2, <1>3, <1>4, FileInHand
  <1>5. CASE ~ Mutating(p, Key(b, t))
    BY <1>2, <1>5, FileLeft
  <1> QED BY <1>4, <1>5

-----------------------------------------------------------------------------
(* The invariant.                                                           *)

VariantInv == TypedInv /\ LoneOK /\ SettledOK /\ FilesOK

LEMMA VariantInit == Init => VariantInv
  <1> SUFFICES ASSUME Init PROVE VariantInv
    OBVIOUS
  <1>1. TypedInv
    BY TypedInit
  <1>2. /\ \A p \in Procs : at[p] = "idle" /\ pc[p] = "idle"
        /\ content \in [Blobs -> Contents] /\ \A b \in Blobs : had[b] = {content[b]}
        /\ \A b \in Blobs : data[b] = Whole(<<content[b], Original>>)
        /\ \A k \in Keys : dir[k] = IF k[2] = Original THEN k[1] ELSE 0
        /\ processed = {}
    BY DEF Init, CallsInit
  <1>3. LoneOK
    BY <1>2 DEF LoneOK, LoneAt, Uploads, Using
  <1>4. ASSUME NEW b \in Blobs PROVE content[b] \in had[b] /\ Settled(b, content[b])
    <2>1. Stored(BlobKey(b)) = Whole(<<content[b], Original>>)
      <3>1. dir[BlobKey(b)] = b
        BY <1>2, KeyFacts
      <3> QED BY <1>2, <3>1 DEF Stored
    <2>2. \A p \in Procs : ~ Using(p, b, {"Process"})
      BY <1>2 DEF Using
    <2> QED BY <1>2, <2>1, <2>2 DEF Settled
  <1>5. SettledOK
    BY <1>4 DEF SettledOK
  <1>6. ASSUME NEW b \in Blobs, NEW t \in Variations PROVE FileOK(b, t)
    <2>1. dir[Key(b, t)] = 0
      BY <1>2, KeyFacts
    <2>2. \A q \in Procs : ~ Writing(q, Key(b, t))
      BY <1>2 DEF Writing
    <2>3. ~ Fresh(b, t)
      <3> SUFFICES ASSUME NEW q \in Procs, at[q] = "service" PROVE FALSE
        BY <1>2 DEF Fresh
      <3> QED BY <1>2
    <2> QED BY <2>1, <2>2, <2>3 DEF FileOK, CleanOK, MadeOK, FreshOK
  <1>7. FilesOK
    BY <1>6 DEF FilesOK
  <1> QED BY <1>1, <1>3, <1>5, <1>7 DEF VariantInv

LEMMA VariantNext == VariantInv /\ [Next]_vars => VariantInv'
  <1> SUFFICES ASSUME VariantInv, [Next]_vars PROVE VariantInv'
    OBVIOUS
  <1>1. CASE Next
    <2>1. PICK p \in Procs : VariantCall(p) \/ VariantStep(p)
      BY <1>1 DEF Next, VariantCall, VariantStep
    <2>2. TypedInv'
      BY <2>1, TypedStep DEF VariantInv
    <2>3. LoneOK'
      BY <2>1, LoneStep DEF VariantInv, LoneOK
    <2>4. SettledOK'
      BY <2>1, SettledKept DEF VariantInv
    <2>5. FilesOK'
      BY <2>1, FilesStep DEF VariantInv
    <2> QED BY <2>2, <2>3, <2>4, <2>5 DEF VariantInv
  <1>2. CASE UNCHANGED vars
    <2> USE <1>2 DEF vars, diskVars, variantVars, callVars, handles, diskHistory, variantHistory, VariantInv
    <2>1. TypedInv'
      <3>1. ServiceInv'
        <4>1. Quiet
          BY DEF Quiet
        <4> QED BY <4>1, ServiceQuiet DEF TypedInv
      <3>2. ShapeOK'
        BY DEF TypedInv, ShapeOK
      <3>3. FrameOK'
        BY DEF TypedInv, FrameOK, FrameAt, CallAt
      <3> QED BY <3>1, <3>2, <3>3 DEF TypedInv
    <2>2. LoneOK'
      BY DEF LoneOK, LoneAt, Uploads, Using
    <2>3. SettledOK'
      BY DEF SettledOK, Settled, ReadsContent, Renewing, Using, Stored
    <2>4. FilesOK'
      <3>1. ASSUME NEW b \in Blobs, NEW t \in Variations, FileOK(b, t) PROVE FileOK(b, t)'
        <4>1. CleanOK(b, t)'
          BY <3>1 DEF FileOK, CleanOK, Clean, Writing, Stored, Key
        <4>2. Made(b, t) <=> Made(b, t)'
          BY DEF Made, Rendition, Whole, Writing, Stored, Key
        <4>3. \A q \in Procs : Covers(q, Key(b, t)) <=> Covers(q, Key(b, t))'
          BY DEF Covers, Filled, Writing, Stored, Key
        <4>4. MadeOK(b, t)'
          BY <3>1, <4>2, <4>3 DEF FileOK, MadeOK, Key
        <4>5. Fresh(b, t)' => Fresh(b, t)
          BY DEF Fresh, Key
        <4>6. FreshOK(b, t)'
          BY <3>1, <4>3, <4>5 DEF FileOK, FreshOK, Rendition, Whole, Stored, Key
        <4> QED BY <4>1, <4>4, <4>6 DEF FileOK
      <3> QED BY <3>1 DEF FilesOK
    <2> QED BY <2>1, <2>2, <2>3, <2>4
  <1> QED BY <1>1, <1>2

LEMMA VariantInductive == Spec => []VariantInv
  BY VariantInit, VariantNext, PTL DEF Spec

-----------------------------------------------------------------------------

\* Every variable of Process, Processed, Purge and Upload keeps its type, and what
\* Process hands the transformer is a content that its own blob was given
\* (variant.go:151-187), unless the blob was uploaded meanwhile or two calls of the
\* filesystem have failed.
THEOREM VariantTypeCorrect == Spec => []TypeOK
  <1>1. VariantInv => TypeOK
    <2> SUFFICES ASSUME VariantInv PROVE TypeOK
      OBVIOUS
    <2>1. dir \in [Keys -> 0 .. Len(data)]
      BY TypedParts DEF VariantInv, DiskTypeOK, FileTypeOK
    <2>2. ASSUME faults <= 1, NEW p \in Procs, at[p] \in {"Transform", "Upload"},
                 target[p][1] \notin mixed
          PROVE  Source(p) \in had[target[p][1]]
      <3> DEFINE b == target[p][1]
      <3>1. target[p] \in Keys /\ frame[p] = "Process"
        BY <2>2 DEF VariantInv, TypedInv, ShapeOK, FrameOK, FrameAt
      <3>2. b \in Blobs \ mixed /\ Using(p, b, {"Process"})
        BY <2>2, <3>1, KeyFacts DEF Using
      <3>3. had[b] \in SUBSET Contents
        BY <3>2 DEF VariantInv, TypedInv, ShapeOK
      <3>4. PICK c \in had[b] : Settled(b, c)
        BY <2>2, <3>2 DEF VariantInv, SettledOK
      <3>5. got[p] = Whole(<<c, Original>>)
        BY <2>2, <3>2, <3>4 DEF Settled, ReadsContent
      <3>6. Source(p) = c
        BY <3>3, <3>4, <3>5, SourceIs
      <3> QED BY <3>4, <3>6
    <2> QED BY <2>1, <2>2 DEF VariantInv, TypedInv, ShapeOK, VariantLabels, VariantFrames, TypeOK
  <1> QED BY <1>1, VariantInductive, PTL

\* Where nobody writes a variant there is nothing, or all of it, made from a content
\* of its own blob, however many Processes write over one another into the final path
\* (variant.go:151-187, disk_service.go:55-81) and though one of them fails.
THEOREM VariantsAreWhole == Spec => []VariantWhole
  <1>1. VariantInv => VariantWhole
    <2> SUFFICES ASSUME VariantInv, faults <= 1, NEW b \in Blobs \ mixed, NEW t \in Variations,
                        dir[Key(b, t)] # 0, ~ BeingWritten(Key(b, t))
                 PROVE  \E c \in had[b] : Stored(Key(b, t)) = Rendition(c, t)
      BY DEF VariantWhole
    <2>1. MadeOK(b, t)
      BY DEF VariantInv, FilesOK, FileOK
    <2>2. ASSUME NEW q \in Procs PROVE ~ Covers(q, Key(b, t))
      BY DEF BeingWritten, Covers, Writing
    <2> QED BY <2>1, <2>2 DEF MadeOK, Made
  <1> QED BY <1>1, VariantInductive, PTL

\* What a Process has returned for is stored, and made from what the blob contains
\* now, whoever has written over it since (variant.go:151-187).
THEOREM ProcessedIsStored == Spec => []ProcessStores
  <1>1. VariantInv => ProcessStores
    <2> SUFFICES ASSUME VariantInv, faults = 0, NEW v \in processed, v[1] \notin mixed,
                        ~ BeingWritten(Key(v[1], v[2]))
                 PROVE  /\ dir[Key(v[1], v[2])] # 0
                        /\ Stored(Key(v[1], v[2])) = Rendition(content[v[1]], v[2])
      BY DEF ProcessStores
    <2>1. v[1] \in Blobs \ mixed /\ v[2] \in Variations /\ v = <<v[1], v[2]>>
      BY DEF VariantInv, TypedInv, ShapeOK
    <2>2. FreshOK(v[1], v[2]) /\ Fresh(v[1], v[2])
      BY <2>1 DEF VariantInv, FilesOK, FileOK, Fresh
    <2>3. ASSUME NEW q \in Procs PROVE ~ Covers(q, Key(v[1], v[2]))
      BY DEF BeingWritten, Covers, Writing
    <2> QED BY <2>2, <2>3 DEF FreshOK
  <1> QED BY <1>1, VariantInductive, PTL
=============================================================================
