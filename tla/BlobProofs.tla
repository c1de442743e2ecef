------------------------------- MODULE BlobProofs -------------------------------
(***************************************************************************)
(* The operations of blob.go under any number of goroutines, blobs and      *)
(* failing calls.                                                           *)
(*                                                                         *)
(* The service underneath keeps ServiceInv whoever uses it.  On top of it   *)
(* go what each frame has done so far, and, for a blob that no two calls    *)
(* change at a time, that its checksum and its object belong together.      *)
(***************************************************************************)
EXTENDS Blob, DiskProofs

Uploaders == {"CreateAndUpload", "BuildAfterUpload", "PUT", "Upload"}
Getters == {"Download", "Open"}

\* Which operation is where, and which service call it makes.
FrameAt(p) ==
    /\ at[p] = "InsertBlob" => frame[p] \in {"CreateAndUpload", "CreateBeforeDirectUpload"}
    /\ at[p] = "uploadBytes" => frame[p] \in Uploaders
    /\ at[p] = "Checksum" => frame[p] = "Upload"
    /\ at[p] = "Download" => frame[p] \in Getters
    /\ at[p] \in {"Delete", "DeleteBlob"} => frame[p] = "Purge"
    /\ at[p] \in {"compare", "CreateTemp", "FillTemp", "fn", "Remove"} => frame[p] = "Open"
    /\ at[p] = "service" =>
         /\ key[p] = cur[p]
         /\ \/ op[p] = "Upload" /\ frame[p] \in Uploaders /\ stream[p] = input[p]
            \/ op[p] = "Download" /\ frame[p] \in Getters
            \/ op[p] = "Delete" /\ frame[p] = "Purge"
    /\ at[p] # "idle" => cur[p] \in 1 .. built
    /\ at[p] # "idle" /\ frame[p] \in Uploaders \union Creators => input[p] \in Streams

FrameOK == \A p \in Procs : FrameAt(p)

BlobType == TypeOK /\ FrameOK

Creating(q, b) == at[q] # "idle" /\ cur[q] = b /\ frame[q] \in Creators

\* How the operations begin: o on blob b, with content v and token c, at label l.
Begins(o, b, v, c, l) ==
    \/ /\ o \in Creators /\ b = built + 1 /\ v \in Streams /\ c = NoSum
       /\ l = IF o = "BuildAfterUpload" THEN "uploadBytes" ELSE "InsertBlob"
       /\ built' = built + 1
       /\ checksum' = [checksum EXCEPT ![b] = v]
       /\ minted' = [minted EXCEPT ![b] = {v}]
       /\ late' = late
    \/ /\ o = "PUT" /\ b \in 1 .. built /\ v \in Streams /\ c \in Streams /\ l = "uploadBytes"
       /\ late' = IF c = checksum[b] THEN late ELSE late \union {b}
       /\ UNCHANGED <<built, checksum, minted>>
    \/ /\ o = "Upload" /\ b \in 1 .. built /\ v \in Streams /\ c = NoSum /\ l = "Checksum"
       /\ UNCHANGED <<built, sums>>
    \/ /\ o \in Getters /\ b \in 1 .. built /\ v = NoSum /\ c = NoSum /\ l = "Download"
       /\ UNCHANGED <<built, sums>>
    \/ /\ o = "Purge" /\ b \in 1 .. built /\ v = NoSum /\ c = NoSum /\ l = "Delete"
       /\ UNCHANGED <<built, sums>>

\* Goroutine p begins an operation.
BlobCall(p) == EnterCreate(p) \/ EnterPut(p) \/ EnterUpload(p) \/ EnterRead(p) \/ EnterPurge(p)

LEMMA KeysFacts ==
  ASSUME TypeOK
  PROVE  /\ built \in Nat /\ ops \in Nat /\ MaxOps \in Nat /\ built <= ops /\ ops <= MaxOps
         /\ 1 .. built \subseteq Keys /\ (ops < MaxOps => built + 1 \in Keys)
         /\ 0 \notin Keys
  BY KeysAssumption, OpsAssumption DEF TypeOK, RowTypeOK

LEMMA HeldAreBuilt ==
  ASSUME TypeOK
  PROVE  Held \subseteq 1 .. built
  BY DEF TypeOK, RowTypeOK, Held

LEMMA CallBegins ==
  ASSUME TypeOK, NEW p \in Procs, BlobCall(p)
  PROVE  \E o \in BlobOps : \E b \in Keys : \E v, c \in Streams \union {NoSum} : \E l :
           Enter(p, o, b, v, c, l) /\ Begins(o, b, v, c, l)
  <1>1. CASE EnterCreate(p)
    <2>1. PICK o \in Creators, v \in Streams :
            /\ Enter(p, o, built + 1, v, NoSum,
                     IF o = "BuildAfterUpload" THEN "uploadBytes" ELSE "InsertBlob")
            /\ built' = built + 1
            /\ checksum' = [checksum EXCEPT ![built + 1] = v]
            /\ minted' = [minted EXCEPT ![built + 1] = {v}]
            /\ late' = late
      BY <1>1 DEF EnterCreate
    <2>2. built + 1 \in Keys
      BY <2>1, KeysFacts DEF Enter
    <2>3. Begins(o, built + 1, v, NoSum,
                 IF o = "BuildAfterUpload" THEN "uploadBytes" ELSE "InsertBlob")
      BY <2>1, Zenon DEF Begins
    <2>4. o \in BlobOps
      BY DEF Creators, BlobOps
    <2> QED BY <2>1, <2>2, <2>3, <2>4
  <1>2. CASE EnterPut(p)
    <2>1. PICK b \in Held, v \in Streams : \E c \in minted[b] :
            /\ Enter(p, "PUT", b, v, c, "uploadBytes")
            /\ late' = IF c = checksum[b] THEN late ELSE late \union {b}
            /\ UNCHANGED <<built, checksum, minted>>
      BY <1>2 DEF EnterPut
    <2>2. PICK c \in minted[b] :
            /\ Enter(p, "PUT", b, v, c, "uploadBytes")
            /\ late' = IF c = checksum[b] THEN late ELSE late \union {b}
            /\ UNCHANGED <<built, checksum, minted>>
      BY <2>1
    <2>3. b \in 1 .. built /\ b \in Keys
      BY HeldAreBuilt, KeysFacts
    <2>4. c \in Streams
      BY <2>3 DEF TypeOK, SumTypeOK
    <2>5. Begins("PUT", b, v, c, "uploadBytes")
      BY <2>2, <2>3, <2>4, Zenon DEF Begins
    <2> QED BY <2>2, <2>3, <2>4, <2>5 DEF BlobOps
  <1>3. CASE EnterUpload(p)
    <2>1. PICK b \in Held, v \in Streams :
            Enter(p, "Upload", b, v, NoSum, "Checksum") /\ UNCHANGED <<built, sums>>
      BY <1>3 DEF EnterUpload
    <2>2. b \in 1 .. built /\ b \in Keys
      BY HeldAreBuilt, KeysFacts
    <2>3. Begins("Upload", b, v, NoSum, "Checksum")
      BY <2>1, <2>2, Zenon DEF Begins
    <2> QED BY <2>1, <2>2, <2>3 DEF BlobOps
  <1>4. CASE EnterRead(p)
    <2>1. PICK o \in Getters, b \in Held :
            Enter(p, o, b, NoSum, NoSum, "Download") /\ UNCHANGED <<built, sums>>
      BY <1>4 DEF EnterRead, Getters
    <2>2. b \in 1 .. built /\ b \in Keys
      BY HeldAreBuilt, KeysFacts
    <2>3. Begins(o, b, NoSum, NoSum, "Download")
      BY <2>1, <2>2, Zenon DEF Begins
    <2> QED BY <2>1, <2>2, <2>3 DEF BlobOps, Getters
  <1>5. CASE EnterPurge(p)
    <2>1. PICK b \in Held : Enter(p, "Purge", b, NoSum, NoSum, "Delete") /\ UNCHANGED <<built, sums>>
      BY <1>5 DEF EnterPurge
    <2>2. b \in 1 .. built /\ b \in Keys
      BY HeldAreBuilt, KeysFacts
    <2>3. Begins("Purge", b, NoSum, NoSum, "Delete")
      BY <2>1, <2>2, Zenon DEF Begins
    <2> QED BY <2>1, <2>2, <2>3 DEF BlobOps
  <1> QED BY <1>1, <1>2, <1>3, <1>4, <1>5 DEF BlobCall

-----------------------------------------------------------------------------
(* What a step does to the service, and whose step it is.                   *)

\* The calls of the service, and the frames they are made in.
Calls(p, o, v, c, l) ==
    \/ o = "Upload" /\ at[p] = "uploadBytes" /\ v = input[p] /\ c = PassedChecksum(p) /\ l = "create"
    \/ o = "Download" /\ at[p] = "Download" /\ v = NoSum /\ c = NoSum /\ l = "open"
    \/ o = "Delete" /\ at[p] = "Delete" /\ v = NoSum /\ c = NoSum /\ l = "remove"

LEMMA ServiceCalled ==
  ASSUME BlobType, NEW p \in Procs, CallService(p)
  PROVE  \E o : \E v, c \in Streams \union {NoSum} : \E upto, l :
           /\ Begin(p, o, cur[p], v, c, 0, upto, l) /\ Calls(p, o, v, c, l)
           /\ cur[p] \in Keys /\ Opens(p, o, cur[p], v, 0, upto, l)
  <1>0. cur[p] \in Keys
    BY KeysFacts DEF BlobType, FrameOK, FrameAt, CallService
  <1>1. CASE at[p] = "uploadBytes" /\ Upload(p, cur[p], input[p], PassedChecksum(p))
    <2>1. input[p] \in Streams
      BY <1>1 DEF BlobType, FrameOK, FrameAt
    <2>2. PassedChecksum(p) \in Streams \union {NoSum}
      BY <1>0 DEF BlobType, TypeOK, SumTypeOK, FrameTypeOK, PassedChecksum
    <2>3. Begin(p, "Upload", cur[p], input[p], PassedChecksum(p), 0, Length[input[p]], "create")
      BY <1>1 DEF Upload
    <2>4. /\ Calls(p, "Upload", input[p], PassedChecksum(p), "create")
          /\ Opens(p, "Upload", cur[p], input[p], 0, Length[input[p]], "create")
      BY <1>1, <2>1 DEF Calls, Opens
    <2> QED BY <1>0, <2>1, <2>2, <2>3, <2>4
  <1>2. CASE at[p] = "Download" /\ Download(p, cur[p])
    <2>1. Begin(p, "Download", cur[p], NoSum, NoSum, 0, 0, "open")
      BY <1>2 DEF Download
    <2>2. Calls(p, "Download", NoSum, NoSum, "open") /\ Opens(p, "Download", cur[p], NoSum, 0, 0, "open")
      BY <1>2 DEF Calls, Opens
    <2> QED BY <1>0, <2>1, <2>2
  <1>3. CASE at[p] = "Delete" /\ Delete(p, cur[p])
    <2>1. Begin(p, "Delete", cur[p], NoSum, NoSum, 0, 0, "remove")
      BY <1>3 DEF Delete
    <2>2. Calls(p, "Delete", NoSum, NoSum, "remove") /\ Opens(p, "Delete", cur[p], NoSum, 0, 0, "remove")
      BY <1>3 DEF Calls, Opens
    <2> QED BY <1>0, <2>1, <2>2
  <1> QED BY <1>1, <1>2, <1>3 DEF CallService

LEMMA ServiceEffect ==
  ASSUME BlobType, NEW p \in Procs, BlobCall(p) \/ BlobStep(p)
  PROVE  DiskCall(p) \/ DiskStep(p) \/ Quiet
  <1> USE DEF Quiet, diskVars
  <1>1. CASE BlobCall(p)
    BY <1>1 DEF BlobCall, EnterCreate, EnterPut, EnterUpload, EnterRead, EnterPurge, Enter
  <1>2. CASE StoreFault(p)
    BY <1>2 DEF StoreFault
  <1>3. CASE InsertRow(p) \/ DeleteRow(p) \/ CreateTemp(p)
    BY <1>2, <1>3 DEF InsertRow, DeleteRow, CreateTemp
  <1>4. CASE SetChecksum(p) \/ ServiceReturned(p) \/ Compare(p) \/ RunFn(p)
    BY <1>4 DEF SetChecksum, ServiceReturned, Compare, RunFn
  <1>5. CASE FillTemp(p) \/ RemoveTemp(p)
    BY <1>5 DEF FillTemp, RemoveTemp
  <1>6. CASE CallService(p)
    BY <1>6, ServiceCalled DEF DiskCall
  <1>7. CASE InService(p)
    BY <1>7 DEF InService
  <1> QED BY <1>1, <1>3, <1>4, <1>5, <1>6, <1>7 DEF BlobStep

\* An operation goes on: its arguments stay, and no blob is built.
LEMMA StepFrame ==
  ASSUME BlobType, NEW p \in Procs, BlobStep(p)
  PROVE  /\ UNCHANGED <<built, frameVars, ops, overlapped, late>> /\ handed \subseteq handed'
         /\ at[p] # "idle" /\ (\E l \in BlobLabels : at' = [at EXCEPT ![p] = l])
         /\ outcome' = outcome \/ \E r \in {"ok", "err"} : outcome' = [outcome EXCEPT ![p] = r]
  <1>0. \A l : l \in {"idle", "uploadBytes", "service", "CreateTemp", "FillTemp", "fn", "Remove"} => l \in BlobLabels
    BY DEF BlobLabels
  <1>1. CASE StoreFault(p) /\ at[p] # "idle"
    BY <1>0, <1>1 DEF StoreFault, Finish, sums, history
  <1>2. CASE InsertRow(p)
    BY <1>0, <1>1, <1>2 DEF InsertRow, Finish, Advance, sums, history
  <1>3. CASE DeleteRow(p) \/ CreateTemp(p)
    BY <1>0, <1>1, <1>3 DEF DeleteRow, CreateTemp, Finish, Advance, sums, history
  <1>4. CASE SetChecksum(p) \/ CallService(p)
    BY <1>0, <1>4 DEF SetChecksum, CallService, Advance, sums, history
  <1>5. CASE Compare(p) \/ FillTemp(p) \/ RunFn(p) \/ RemoveTemp(p)
    BY <1>0, <1>5 DEF Compare, FillTemp, FillFails, RunFn, RemoveTemp, GiveUp, Finish, Advance, sums, history
  <1>6. CASE ServiceReturned(p)
    <2>1. /\ at[p] = "service"
          /\ \/ Finish(p, "err") /\ UNCHANGED handed
             \/ \E l \in BlobLabels : Advance(p, l) /\ UNCHANGED handed
             \/ Finish(p, "ok") /\ handed' = handed \union {cur[p]}
      <3>1. "compare" \in BlobLabels /\ "DeleteBlob" \in BlobLabels
        BY DEF BlobLabels
      <3> QED BY <1>6, <3>1, Zenon DEF ServiceReturned
    <2>2. UNCHANGED <<built, sums, frameVars, ops, history>>
      BY <1>6 DEF ServiceReturned
    <2> QED BY <1>0, <2>1, <2>2 DEF Finish, Advance, sums, history
  <1>7. CASE InService(p)
    <2>1. at' = at /\ at = [at EXCEPT ![p] = at[p]]
      BY <1>7 DEF InService, blobVars, BlobType, TypeOK, FrameTypeOK
    <2>2. at[p] \in BlobLabels
      BY DEF BlobType, TypeOK, FrameTypeOK
    <2> QED BY <1>7, <2>1, <2>2 DEF InService, blobVars, sums
  <1> QED BY <1>2, <1>3, <1>4, <1>5, <1>6, <1>7 DEF BlobStep

LEMMA ServiceKept ==
  ASSUME ServiceInv, BlobType, NEW p \in Procs, BlobCall(p) \/ BlobStep(p)
  PROVE  ServiceInv'
  BY ServiceEffect, ServiceStep, ServiceQuiet

\* A step is of one goroutine: the others stay where they are.
LEMMA OthersStay ==
  ASSUME ServiceInv, BlobType, NEW p \in Procs, BlobCall(p) \/ BlobStep(p), NEW q \in Procs, q # p
  PROVE  /\ at'[q] = at[q] /\ frame'[q] = frame[q] /\ cur'[q] = cur[q] /\ input'[q] = input[q]
         /\ token'[q] = token[q] /\ outcome'[q] = outcome[q]
         /\ pc'[q] = pc[q] /\ op'[q] = op[q] /\ key'[q] = key[q] /\ stream'[q] = stream[q]
         /\ sum'[q] = sum[q] /\ fd'[q] = fd[q] /\ got'[q] = got[q] /\ result'[q] = result[q]
         /\ leftover'[q] = leftover[q]
  <1>1. /\ pc'[q] = pc[q] /\ op'[q] = op[q] /\ key'[q] = key[q] /\ stream'[q] = stream[q]
        /\ sum'[q] = sum[q] /\ fd'[q] = fd[q] /\ got'[q] = got[q] /\ result'[q] = result[q]
        /\ leftover'[q] = leftover[q]
    <2>1. CASE Quiet
      BY <2>1 DEF Quiet, callVars, handles, diskHistory
    <2>2. CASE DiskCall(p) \/ DiskStep(p)
      BY <2>2, OthersKept DEF ServiceInv, Owners, DiskType
    <2> QED BY <2>1, <2>2, ServiceEffect
  <1> USE DEF BlobType, TypeOK, FrameTypeOK
  <1>2. CASE BlobCall(p)
    <2>1. PICK o \in BlobOps : \E b \in Keys : \E v, c \in Streams \union {NoSum} : \E l :
             Enter(p, o, b, v, c, l)
      BY <1>2, CallBegins
    <2> QED BY <1>1, <2>1 DEF Enter
  <1>3. CASE BlobStep(p)
    BY <1>1, <1>3, StepFrame DEF frameVars
  <1> QED BY <1>2, <1>3

-----------------------------------------------------------------------------
(* Types.                                                                   *)

\* Rows come with InsertBlob and go with DeleteBlob.
LEMMA RowEffect ==
  ASSUME NEW p \in Procs, BlobStep(p)
  PROVE  \/ UNCHANGED rowVars
         \/ /\ at[p] = "InsertBlob"
            /\ nextBlobID' = nextBlobID + 1 /\ blobs' = blobs \union {nextBlobID'}
            /\ id' = [id EXCEPT ![cur[p]] = nextBlobID']
         \/ /\ at[p] = "DeleteBlob" /\ id[cur[p]] \in blobs
            /\ UNCHANGED <<id, nextBlobID>> /\ blobs' = blobs \ {id[cur[p]]}
  <1>1. CASE StoreFault(p)
    BY <1>1 DEF StoreFault
  <1>2. CASE InsertRow(p)
    BY <1>1, <1>2 DEF InsertRow, Store!InsertBlob
  <1>3. CASE DeleteRow(p)
    BY <1>1, <1>3 DEF DeleteRow, Store!DeleteBlob, Store!FindBlob
  <1>4. CASE CreateTemp(p) \/ ServiceReturned(p)
    BY <1>1, <1>4 DEF ServiceReturned, CreateTemp
  <1>5. CASE SetChecksum(p) \/ CallService(p) \/ Compare(p) \/ FillTemp(p) \/ RunFn(p) \/ RemoveTemp(p)
    BY <1>5 DEF SetChecksum, CallService, Compare, FillTemp, RunFn, RemoveTemp
  <1>6. CASE InService(p)
    BY <1>6 DEF InService, blobVars
  <1> QED BY <1>2, <1>3, <1>4, <1>5, <1>6 DEF BlobStep

\* Temporary files come with CreateTemp and go with RemoveTemp, which may fail; and
\* an object that comes back after a purge comes back by a call of the service.
LEMMA TempEffect ==
  ASSUME BlobType, NEW p \in Procs, BlobStep(p)
  PROVE  /\ temps' \in [Procs -> Int] /\ stuck' \in [Procs -> Nat]
         /\ \A q \in Procs \ {p} : temps'[q] = temps[q] /\ stuck'[q] = stuck[q]
         /\ ~ CreateTemp(p) /\ ~ RemoveTemp(p) => UNCHANGED tempVars
         /\ revived' \subseteq revived \union {cur[p]} /\ revived \subseteq revived'
  <1>0. temps \in [Procs -> Int] /\ stuck \in [Procs -> Nat]
    BY DEF BlobType, TypeOK, RowTypeOK
  <1>1. CASE UNCHANGED <<tempVars, history>>
    BY <1>0, <1>1 DEF tempVars, history
  <1>2. CASE StoreFault(p)
    BY <1>1, <1>2 DEF StoreFault
  <1>3. CASE InsertRow(p) \/ DeleteRow(p)
    BY <1>1, <1>2, <1>3 DEF InsertRow, DeleteRow
  <1>4. CASE ServiceReturned(p)
    <2>1. UNCHANGED <<tempVars, history>>
      BY <1>4, Zenon DEF ServiceReturned
    <2> QED BY <1>1, <2>1
  <1>5. CASE SetChecksum(p) \/ CallService(p) \/ Compare(p) \/ FillTemp(p) \/ RunFn(p)
    BY <1>1, <1>5 DEF SetChecksum, CallService, Compare, FillTemp, RunFn
  <1>6. CASE InService(p)
    BY <1>0, <1>6 DEF InService, tempVars
  <1>7. CASE CreateTemp(p)
    BY <1>0, <1>2, <1>7 DEF CreateTemp, history
  <1>8. CASE RemoveTemp(p)
    BY <1>0, <1>8 DEF RemoveTemp, history
  <1> QED BY <1>3, <1>4, <1>5, <1>6, <1>7, <1>8 DEF BlobStep

LEMMA RowTypeStep ==
  ASSUME BlobType, NEW p \in Procs, BlobCall(p) \/ BlobStep(p)
  PROVE  RowTypeOK'
  <1> USE DEF BlobType, TypeOK, RowTypeOK
  <1>1. CASE BlobCall(p)
    <2>1. PICK o \in BlobOps : \E b \in Keys : \E v, c \in Streams \union {NoSum} : \E l :
             Enter(p, o, b, v, c, l) /\ Begins(o, b, v, c, l)
      BY <1>1, CallBegins
    <2>2. PICK b \in Keys : \E v, c \in Streams \union {NoSum} : \E l :
             Enter(p, o, b, v, c, l) /\ Begins(o, b, v, c, l)
      BY <2>1
    <2>3. /\ ops < MaxOps /\ ops' = ops + 1 /\ UNCHANGED <<rowVars, tempVars, revived>>
          /\ handed' = IF o \in Creators THEN handed ELSE handed \union {b}
      BY <2>2 DEF Enter
    <2>4. /\ built' \in {built, built + 1}
          /\ o \notin Creators => b \in 1 .. built
      BY <2>2 DEF Begins, Creators
    <2>5. ops' \in 0 .. MaxOps /\ built' \in 0 .. ops' /\ 1 .. built \subseteq 1 .. built'
      BY <2>3, <2>4, KeysFacts
    <2>6. handed' \subseteq 1 .. built
      BY <2>3, <2>4
    <2> QED BY <2>3, <2>5, <2>6 DEF rowVars, tempVars
  <1>2. CASE BlobStep(p)
    <2>1. built' = built /\ ops' = ops /\ cur[p] \in 1 .. built
      BY <1>2, StepFrame DEF FrameOK, FrameAt
    <2>2. handed' \in {handed, handed \union {cur[p]}}
      <3>1. CASE StoreFault(p)
        BY <3>1 DEF StoreFault
      <3>2. CASE InsertRow(p)
        BY <3>1, <3>2 DEF InsertRow
      <3>3. CASE ServiceReturned(p)
        BY <3>3, Zenon DEF ServiceReturned
      <3>4. CASE DeleteRow(p) \/ CreateTemp(p)
        BY <3>1, <3>4 DEF DeleteRow, CreateTemp
      <3>5. CASE SetChecksum(p) \/ CallService(p) \/ Compare(p) \/ FillTemp(p) \/ RunFn(p) \/ RemoveTemp(p)
        BY <3>5 DEF SetChecksum, CallService, Compare, FillTemp, RunFn, RemoveTemp
      <3>6. CASE InService(p)
        BY <3>6 DEF InService, blobVars
      <3> QED BY <1>2, <3>2, <3>3, <3>4, <3>5, <3>6 DEF BlobStep
    <2>3. temps' \in [Procs -> Int] /\ stuck' \in [Procs -> Nat] /\ revived' \subseteq 1 .. built
      BY <1>2, <2>1, TempEffect DEF FrameOK
    <2>4. \/ UNCHANGED rowVars
          \/ /\ nextBlobID' = nextBlobID + 1 /\ blobs' = blobs \union {nextBlobID'}
             /\ id' = [id EXCEPT ![cur[p]] = nextBlobID']
          \/ UNCHANGED <<id, nextBlobID>> /\ blobs' \subseteq blobs
      BY <1>2, RowEffect
    <2>5. nextBlobID' \in Nat /\ blobs' \subseteq 1 .. nextBlobID' /\ id' \in [Keys -> 0 .. nextBlobID']
      <3>1. /\ nextBlobID + 1 \in Nat /\ nextBlobID + 1 \in 1 .. nextBlobID + 1
            /\ 1 .. nextBlobID \subseteq 1 .. nextBlobID + 1 /\ 0 .. nextBlobID \subseteq 0 .. nextBlobID + 1
            /\ nextBlobID + 1 \in 0 .. nextBlobID + 1
        OBVIOUS
      <3>2. CASE UNCHANGED rowVars \/ (UNCHANGED <<id, nextBlobID>> /\ blobs' \subseteq blobs)
        BY <3>2 DEF rowVars
      <3>3. CASE /\ nextBlobID' = nextBlobID + 1 /\ blobs' = blobs \union {nextBlobID'}
                 /\ id' = [id EXCEPT ![cur[p]] = nextBlobID']
        <4>1. nextBlobID' \in Nat /\ blobs' \subseteq 1 .. nextBlobID'
          BY <3>1, <3>3
        <4>2. id' \in [Keys -> 0 .. nextBlobID']
          BY <3>1, <3>3
        <4> QED BY <4>1, <4>2
      <3> QED BY <2>4, <3>2, <3>3
    <2> QED BY <2>1, <2>2, <2>3, <2>5
  <1> QED BY <1>1, <1>2

\* Once an operation has begun only Blob.Upload sets a checksum.
LEMMA SumsKept ==
  ASSUME NEW p \in Procs, BlobStep(p), ~ SetChecksum(p)
  PROVE  UNCHANGED sums
  BY DEF BlobStep, StoreFault, InsertRow, CallService, InService, ServiceReturned,
         DeleteRow, Compare, CreateTemp, FillTemp, RunFn, RemoveTemp

LEMMA SumTypeStep ==
  ASSUME BlobType, NEW p \in Procs, BlobCall(p) \/ BlobStep(p)
  PROVE  SumTypeOK'
  <1> USE DEF BlobType, TypeOK, SumTypeOK
  <1>1. CASE BlobCall(p)
    <2>1. PICK o \in BlobOps : \E b \in Keys : \E v, c \in Streams \union {NoSum} : \E l :
             Enter(p, o, b, v, c, l) /\ Begins(o, b, v, c, l)
      BY <1>1, CallBegins
    <2>2. PICK b \in Keys : \E v, c \in Streams \union {NoSum} : \E l :
             Enter(p, o, b, v, c, l) /\ Begins(o, b, v, c, l)
      BY <2>1
    <2>3. PICK v, c \in Streams \union {NoSum} : \E l :
             Enter(p, o, b, v, c, l) /\ Begins(o, b, v, c, l)
      BY <2>2
    <2>4. /\ handed' = IF o \in Creators THEN handed ELSE handed \union {b}
          /\ overlapped' = IF o \in Changers /\ \E q \in Procs : Changing(q, b)
                           THEN overlapped \union {b} ELSE overlapped
      BY <2>3 DEF Enter
    <2>5. o \in Creators => \A q \in Procs : ~ Changing(q, b)
      <3>1. o \in Creators => b = built + 1
        BY <2>3 DEF Begins, Creators, Getters
      <3> QED BY <3>1, KeysFacts DEF Changing, FrameOK, FrameAt
    <2>6. overlapped' \subseteq handed'
      BY <2>4, <2>5 DEF Creators
    <2>7. late' \subseteq handed'
      BY <2>3, <2>4 DEF Begins, Creators, sums
    <2>8. checksum' \in [Keys -> Streams \union {NoSum}] /\ minted' \in [Keys -> SUBSET Streams]
      BY <2>3 DEF Begins, sums
    <2> QED BY <2>6, <2>7, <2>8
  <1>2. CASE BlobStep(p)
    <2>1. UNCHANGED <<overlapped, late>> /\ handed \subseteq handed'
      BY <1>2, StepFrame
    <2>2. checksum' \in [Keys -> Streams \union {NoSum}] /\ minted' \in [Keys -> SUBSET Streams]
      <3>1. CASE SetChecksum(p)
        <4>1. cur[p] \in Keys /\ input[p] \in Streams
          BY <3>1, KeysFacts DEF SetChecksum, FrameOK, FrameAt, Uploaders
        <4> QED BY <3>1, <4>1 DEF SetChecksum, NewChecksum
      <3>2. CASE ~ SetChecksum(p)
        BY <1>2, <3>2, SumsKept DEF sums
      <3> QED BY <3>1, <3>2
    <2> QED BY <2>1, <2>2
  <1> QED BY <1>1, <1>2

LEMMA FrameTypeStep ==
  ASSUME ServiceInv, BlobType, NEW p \in Procs, BlobCall(p) \/ BlobStep(p)
  PROVE  FrameTypeOK'
  <1>0. /\ at \in [Procs -> BlobLabels] /\ frame \in [Procs -> BlobOps \union {"none"}]
        /\ cur \in [Procs -> 0 .. built] /\ input \in [Procs -> Streams \union {NoSum}]
        /\ token \in [Procs -> Streams \union {NoSum}] /\ outcome \in [Procs -> {"none", "ok", "err"}]
        /\ \A q \in Procs : pc[q] # "idle" => at[q] = "service"
    BY DEF BlobType, TypeOK, FrameTypeOK
  <1>1. ASSUME NEW q \in Procs, q # p PROVE pc'[q] # "idle" => at'[q] = "service"
    BY <1>0, <1>1, OthersStay
  <1>2. CASE BlobCall(p)
    <2>1. PICK o \in BlobOps : \E b \in Keys : \E v, c \in Streams \union {NoSum} : \E l :
             Enter(p, o, b, v, c, l) /\ Begins(o, b, v, c, l)
      BY <1>2, CallBegins DEF BlobType
    <2>2. PICK b \in Keys : \E v, c \in Streams \union {NoSum} : \E l :
             Enter(p, o, b, v, c, l) /\ Begins(o, b, v, c, l)
      BY <2>1
    <2>3. PICK v, c \in Streams \union {NoSum} : \E l :
             Enter(p, o, b, v, c, l) /\ Begins(o, b, v, c, l)
      BY <2>2
    <2>4. PICK l : Enter(p, o, b, v, c, l) /\ Begins(o, b, v, c, l)
      BY <2>3
    <2>5. l \in BlobLabels
      BY <2>4 DEF Begins, BlobLabels
    <2>6. built' \in {built, built + 1} /\ (b = built' \/ b \in 1 .. built)
      BY <2>4 DEF Begins
    <2>7. b \in 0 .. built' /\ 0 .. built \subseteq 0 .. built'
      BY <2>6, KeysFacts DEF BlobType
    <2>8. /\ at[p] = "idle" /\ at' = [at EXCEPT ![p] = l] /\ frame' = [frame EXCEPT ![p] = o]
          /\ cur' = [cur EXCEPT ![p] = b] /\ input' = [input EXCEPT ![p] = v]
          /\ token' = [token EXCEPT ![p] = c] /\ outcome' = [outcome EXCEPT ![p] = "none"]
          /\ pc' = pc
      BY <2>4 DEF Enter, diskVars
    <2>9. pc'[p] = "idle"
      BY <1>0, <2>8
    <2>10. cur' \in [Procs -> 0 .. built']
      BY <1>0, <2>7, <2>8
    <2> QED BY <1>0, <1>1, <2>5, <2>8, <2>9, <2>10 DEF FrameTypeOK
  <1>3. CASE BlobStep(p)
    <2>1. /\ UNCHANGED <<built, frame, cur, input, token>>
          /\ (\E l \in BlobLabels : at' = [at EXCEPT ![p] = l])
          /\ outcome' = outcome \/ \E r \in {"ok", "err"} : outcome' = [outcome EXCEPT ![p] = r]
      BY <1>3, StepFrame DEF frameVars
    <2>2. pc'[p] # "idle" => at'[p] = "service"
      <3>1. CASE CallService(p)
        BY <1>0, <3>1 DEF CallService, Advance
      <3>2. CASE InService(p)
        BY <1>0, <3>2 DEF InService, blobVars
      <3>3. CASE ~ CallService(p) /\ ~ InService(p)
        <4>1. pc' = pc /\ pc[p] = "idle"
          <5>1. CASE ServiceReturned(p)
            BY <5>1, Zenon DEF ServiceReturned, diskVars
          <5>2. CASE InsertRow(p) \/ SetChecksum(p) \/ DeleteRow(p) \/ Compare(p)
            BY <1>0, <5>2 DEF StoreFault, InsertRow, SetChecksum, DeleteRow, Compare, diskVars
          <5>3. CASE CreateTemp(p) \/ FillTemp(p) \/ RunFn(p) \/ RemoveTemp(p)
            BY <1>0, <5>3 DEF StoreFault, CreateTemp, FillTemp, RunFn, RemoveTemp, diskVars
          <5> QED BY <1>3, <3>3, <5>1, <5>2, <5>3 DEF BlobStep
        <4> QED BY <4>1
      <3> QED BY <3>1, <3>2, <3>3
    <2>3. \A q \in Procs : pc'[q] # "idle" => at'[q] = "service"
      BY <1>1, <2>2
    <2>4. at' \in [Procs -> BlobLabels] /\ outcome' \in [Procs -> {"none", "ok", "err"}]
      BY <1>0, <2>1
    <2> QED BY <1>0, <2>1, <2>3, <2>4 DEF FrameTypeOK
  <1> QED BY <1>2, <1>3

LEMMA FrameOKStep ==
  ASSUME ServiceInv, BlobType, NEW p \in Procs, BlobCall(p) \/ BlobStep(p)
  PROVE  FrameOK'
  <1>0. /\ at \in [Procs -> BlobLabels] /\ frame \in [Procs -> BlobOps \union {"none"}]
        /\ cur \in [Procs -> 0 .. built] /\ input \in [Procs -> Streams \union {NoSum}]
        /\ \A q \in Procs : pc[q] # "idle" => at[q] = "service"
        /\ built \in Nat
    BY KeysFacts DEF BlobType, TypeOK, FrameTypeOK
  <1>1. ASSUME NEW q \in Procs, q # p PROVE FrameAt(q)'
    <2>1. FrameAt(q)
      BY DEF BlobType, FrameOK
    <2>2. 1 .. built \subseteq 1 .. built'
      <3>1. CASE BlobCall(p)
        <4>1. PICK o \in BlobOps : \E b \in Keys : \E v, c \in Streams \union {NoSum} : \E l :
                 Begins(o, b, v, c, l)
          BY <3>1, CallBegins DEF BlobType
        <4>2. built' \in {built, built + 1}
          BY <4>1 DEF Begins
        <4> QED BY <1>0, <4>2
      <3>2. CASE BlobStep(p)
        BY <3>2, StepFrame
      <3> QED BY <3>1, <3>2
    <2> QED BY <1>1, <2>1, <2>2, OthersStay DEF FrameAt
  <1>2. ASSUME BlobCall(p) PROVE FrameAt(p)'
    <2>1. PICK o \in BlobOps : \E b \in Keys : \E v, c \in Streams \union {NoSum} : \E l :
             Enter(p, o, b, v, c, l) /\ Begins(o, b, v, c, l)
      BY <1>2, CallBegins DEF BlobType
    <2>2. PICK b \in Keys : \E v, c \in Streams \union {NoSum} : \E l :
             Enter(p, o, b, v, c, l) /\ Begins(o, b, v, c, l)
      BY <2>1
    <2>3. PICK v, c \in Streams \union {NoSum} : \E l :
             Enter(p, o, b, v, c, l) /\ Begins(o, b, v, c, l)
      BY <2>2
    <2>4. PICK l : Enter(p, o, b, v, c, l) /\ Begins(o, b, v, c, l)
      BY <2>3
    <2>5. at'[p] = l /\ frame'[p] = o /\ cur'[p] = b /\ input'[p] = v
      BY <1>0, <2>4 DEF Enter
    <2>6. b \in 1 .. built'
      <3>1. \/ built' = built + 1 /\ b = built + 1
            \/ built' = built /\ b \in 1 .. built
        BY <2>4 DEF Begins, sums
      <3> QED BY <1>0, <3>1
    <2>7. \/ l = "InsertBlob" /\ o \in {"CreateAndUpload", "CreateBeforeDirectUpload"} /\ v \in Streams
          \/ l = "uploadBytes" /\ o \in Uploaders /\ v \in Streams
          \/ l = "Checksum" /\ o = "Upload" /\ v \in Streams
          \/ l = "Download" /\ o \in Getters
          \/ l = "Delete" /\ o = "Purge"
      <3>1. \/ /\ o \in Creators /\ v \in Streams
               /\ l = IF o = "BuildAfterUpload" THEN "uploadBytes" ELSE "InsertBlob"
            \/ o = "PUT" /\ l = "uploadBytes" /\ v \in Streams
            \/ l = "Checksum" /\ o = "Upload" /\ v \in Streams
            \/ l = "Download" /\ o \in Getters
            \/ l = "Delete" /\ o = "Purge"
        BY <2>4, Zenon DEF Begins
      <3>2. CASE o \in Creators /\ v \in Streams /\ o = "BuildAfterUpload"
        BY <3>1, <3>2 DEF Creators, Uploaders, Getters
      <3>3. CASE o \in Creators /\ v \in Streams /\ o # "BuildAfterUpload"
        BY <3>1, <3>3 DEF Creators, Uploaders, Getters
      <3>4. CASE ~ (o \in Creators /\ v \in Streams)
        BY <3>1, <3>4 DEF Creators, Uploaders, Getters
      <3> QED BY <3>2, <3>3, <3>4
    <2> QED BY <2>5, <2>6, <2>7 DEF FrameAt, Uploaders, Creators, Getters
  <1>3. ASSUME BlobStep(p) PROVE FrameAt(p)'
    <2>a. UNCHANGED <<built, frame, cur, input>>
      BY <1>3, StepFrame DEF frameVars
    <2>b. FrameAt(p)
      BY DEF BlobType, FrameOK
    <2>0. FrameAt(p) /\ UNCHANGED <<built, frame, cur, input>>
      BY <2>a, <2>b
    <2>1. CASE at'[p] = "idle"
      BY <2>1 DEF FrameAt
    <2>2. CASE InsertRow(p) /\ at'[p] # "idle"
      <3>1. at'[p] = "uploadBytes" /\ frame[p] = "CreateAndUpload" /\ at[p] = "InsertBlob"
        BY <1>0, <2>2 DEF InsertRow, StoreFault, Advance, Finish
      <3> QED BY <2>0, <3>1 DEF FrameAt, Uploaders
    <2>3. CASE SetChecksum(p)
      <3>1. at'[p] = "uploadBytes" /\ at[p] = "Checksum"
        BY <1>0, <2>3 DEF SetChecksum, Advance
      <3> QED BY <2>0, <3>1 DEF FrameAt, Uploaders
    <2>4. CASE CallService(p)
      <3>1. PICK o : \E v, c \in Streams \union {NoSum} : \E upto, l :
               Begin(p, o, cur[p], v, c, 0, upto, l) /\ Calls(p, o, v, c, l)
        BY <2>4, ServiceCalled
      <3>2. PICK v, c \in Streams \union {NoSum} : \E upto, l :
               Begin(p, o, cur[p], v, c, 0, upto, l) /\ Calls(p, o, v, c, l)
        BY <3>1
      <3>3. key'[p] = cur[p] /\ op'[p] = o /\ stream'[p] = v
        BY <3>2 DEF Begin, ServiceInv, Owners, DiskType, DiskTypeOK, PlaceTypeOK
      <3>4. at'[p] = "service" /\ at[p] # "idle"
        BY <1>0, <2>4 DEF CallService, Advance
      <3>5. \/ o = "Upload" /\ at[p] = "uploadBytes" /\ v = input[p]
            \/ o = "Download" /\ at[p] = "Download"
            \/ o = "Delete" /\ at[p] = "Delete"
        BY <3>2 DEF Calls
      <3> QED BY <2>0, <3>3, <3>4, <3>5 DEF FrameAt
    <2>5. CASE InService(p)
      <3>1. UNCHANGED callVars /\ at' = at
        BY <2>5 DEF InService, blobVars, DiskStep, DiskFault, Create, Copy, Close, Cleanup, Remove, Open, Read
      <3> QED BY <2>0, <3>1 DEF FrameAt, callVars
    <2>6. CASE ServiceReturned(p) /\ at'[p] # "idle"
      <3>1. \/ frame[p] = "Open" /\ Advance(p, "compare")
            \/ frame[p] = "Purge" /\ Advance(p, "DeleteBlob")
            \/ Finish(p, "ok") \/ Finish(p, "err")
        BY <2>6, Zenon DEF ServiceReturned
      <3>2. at[p] = "service"
        BY <2>6 DEF ServiceReturned
      <3>3. (frame[p] = "Open" /\ at'[p] = "compare") \/ (frame[p] = "Purge" /\ at'[p] = "DeleteBlob")
        BY <1>0, <2>6, <3>1 DEF Advance, Finish
      <3> QED BY <2>0, <3>2, <3>3 DEF FrameAt
    <2>7. CASE (Compare(p) \/ CreateTemp(p) \/ FillTemp(p) \/ RunFn(p)) /\ at'[p] # "idle"
      <3>1. /\ at'[p] \in {"CreateTemp", "FillTemp", "fn", "Remove"}
            /\ at[p] \in {"compare", "CreateTemp", "FillTemp", "fn"}
        BY <1>0, <2>7 DEF Compare, CreateTemp, FillTemp, FillFails, RunFn, GiveUp, StoreFault, Advance, Finish
      <3> QED BY <2>0, <3>1 DEF FrameAt
    <2>8. CASE DeleteRow(p) \/ RemoveTemp(p)
      <3>1. at'[p] = "idle"
        BY <1>0, <2>8 DEF DeleteRow, RemoveTemp, StoreFault, Advance, Finish
      <3> QED BY <2>1, <3>1
    <2> QED BY <1>3, <2>1, <2>2, <2>3, <2>4, <2>5, <2>6, <2>7, <2>8 DEF BlobStep
  <1> QED BY <1>1, <1>2, <1>3 DEF FrameOK

TypedInv == ServiceInv /\ BlobType

LEMMA TypedInit == Init => TypedInv
  <1> SUFFICES ASSUME Init PROVE TypedInv
    OBVIOUS
  <1>1. ServiceInv
    <2>1. /\ data \in Seq(Seq(Chunks)) /\ dir \in [Keys -> 0 .. Len(data)]
          /\ \A k, l \in Keys : dir[k] = dir[l] => k = l \/ dir[k] = 0
      BY DEF Init, DiskInit
    <2> QED BY <2>1, ServiceInit DEF Init, DiskInit
  <1>2. RowTypeOK
    BY OpsAssumption DEF Init, RowTypeOK
  <1>3. SumTypeOK
    BY DEF Init, SumTypeOK
  <1>4. FrameTypeOK
    BY DEF Init, DiskInit, CallsInit, FrameTypeOK, BlobLabels
  <1>5. FrameOK
    BY DEF Init, FrameOK, FrameAt
  <1> QED BY <1>1, <1>2, <1>3, <1>4, <1>5 DEF TypedInv, BlobType, TypeOK

LEMMA TypedStep ==
  ASSUME TypedInv, NEW p \in Procs, BlobCall(p) \/ BlobStep(p)
  PROVE  TypedInv'
  BY ServiceKept, RowTypeStep, SumTypeStep, FrameTypeStep, FrameOKStep DEF TypedInv, BlobType, TypeOK

LEMMA StepsAre ==
  ASSUME Next
  PROVE  \E p \in Procs : BlobCall(p) \/ BlobStep(p)
  BY DEF Next, BlobCall

LEMMA TypedStutter ==
  ASSUME TypedInv, UNCHANGED vars
  PROVE  TypedInv'
  <1>1. ServiceInv'
    BY ServiceQuiet DEF TypedInv, Quiet, vars, diskVars
  <1>2. RowTypeOK' /\ SumTypeOK'
    BY DEF TypedInv, BlobType, TypeOK, RowTypeOK, SumTypeOK, vars, blobVars, rowVars, sums, history, tempVars
  <1>3. FrameTypeOK'
    BY DEF TypedInv, BlobType, TypeOK, FrameTypeOK, vars, diskVars, blobVars, frameVars
  <1>4. FrameOK'
    BY DEF TypedInv, BlobType, FrameOK, FrameAt, vars, diskVars, callVars, blobVars, frameVars
  <1> QED BY <1>1, <1>2, <1>3, <1>4 DEF TypedInv, BlobType, TypeOK

\* The frames and the service calls under them hold together in every behaviour.
THEOREM BlobTyped == Spec => []TypedInv
  <1>1. TypedInv /\ [Next]_vars => TypedInv'
    BY StepsAre, TypedStep, TypedStutter
  <1> QED BY <1>1, TypedInit, PTL DEF Spec

\* Every variable keeps its type; in particular a call of the service belongs to an
\* operation, and the rows are among those the store gave out.
THEOREM BlobTypeCorrect == Spec => []TypeOK
  <1>1. TypedInv => TypeOK
    BY DEF TypedInv, BlobType
  <1> QED BY <1>1, BlobTyped, PTL

-----------------------------------------------------------------------------
(* Blob.Open.                                                               *)

\* An operation begins with the labels of blob.go's first steps, and nothing else
\* of the service, the rows and the temporary files changes.
LEMMA CallFrame ==
  ASSUME TypedInv, NEW p \in Procs, BlobCall(p)
  PROVE  /\ at[p] = "idle" /\ UNCHANGED <<diskVars, rowVars, tempVars, revived>>
         /\ at'[p] \in {"InsertBlob", "uploadBytes", "Checksum", "Download", "Delete"}
  <1>1. PICK o \in BlobOps : \E b \in Keys : \E v, c \in Streams \union {NoSum} : \E l :
           Enter(p, o, b, v, c, l) /\ Begins(o, b, v, c, l)
    BY CallBegins DEF TypedInv, BlobType
  <1>2. PICK b \in Keys : \E v, c \in Streams \union {NoSum} : \E l :
           Enter(p, o, b, v, c, l) /\ Begins(o, b, v, c, l)
    BY <1>1
  <1>3. PICK v, c \in Streams \union {NoSum} : \E l :
           Enter(p, o, b, v, c, l) /\ Begins(o, b, v, c, l)
    BY <1>2
  <1>4. PICK l : Enter(p, o, b, v, c, l) /\ Begins(o, b, v, c, l)
    BY <1>3
  <1>5. at'[p] = l
    BY <1>4 DEF Enter, TypedInv, BlobType, TypeOK, FrameTypeOK
  <1>6. l \in {"InsertBlob", "uploadBytes", "Checksum", "Download", "Delete"}
    BY <1>4, Zenon DEF Begins
  <1> QED BY <1>4, <1>5, <1>6 DEF Enter

\* Where the steps of an operation lead; a call of the service goes on at "service".
LEMMA StepPlaces ==
  ASSUME TypedInv, NEW p \in Procs, BlobStep(p)
  PROVE  \/ InsertRow(p) /\ at[p] = "InsertBlob" /\ at'[p] \in {"idle", "uploadBytes"}
         \/ SetChecksum(p) /\ at[p] = "Checksum" /\ at'[p] = "uploadBytes"
         \/ CallService(p) /\ at[p] \in {"uploadBytes", "Download", "Delete"} /\ at'[p] = "service"
         \/ InService(p) /\ at[p] = "service" /\ at'[p] = "service"
         \/ ServiceReturned(p) /\ at[p] = "service" /\ at'[p] \in {"idle", "compare", "DeleteBlob"}
         \/ DeleteRow(p) /\ at[p] = "DeleteBlob" /\ at'[p] = "idle"
         \/ Compare(p) /\ at[p] = "compare" /\ at'[p] \in {"idle", "CreateTemp"}
         \/ CreateTemp(p) /\ at[p] = "CreateTemp" /\ at'[p] \in {"idle", "FillTemp"}
         \/ FillTemp(p) /\ at[p] = "FillTemp" /\ at'[p] \in {"fn", "Remove"}
         \/ RunFn(p) /\ at[p] = "fn" /\ at'[p] = "Remove"
         \/ RemoveTemp(p) /\ at[p] = "Remove" /\ at'[p] = "idle"
  <1>0. at \in [Procs -> BlobLabels]
    BY DEF TypedInv, BlobType, TypeOK, FrameTypeOK
  <1>1. CASE InsertRow(p)
    BY <1>0, <1>1 DEF InsertRow, StoreFault, Finish, Advance
  <1>2. CASE SetChecksum(p) \/ CallService(p)
    BY <1>0, <1>2 DEF SetChecksum, CallService, Advance
  <1>3. CASE InService(p)
    BY <1>3 DEF InService, blobVars
  <1>4. CASE ServiceReturned(p)
    <2>1. at[p] = "service" /\ (Finish(p, "err") \/ Advance(p, "compare")
                                  \/ Advance(p, "DeleteBlob") \/ Finish(p, "ok"))
      BY <1>4, Zenon DEF ServiceReturned
    <2> QED BY <1>0, <1>4, <2>1 DEF Finish, Advance
  <1>5. CASE DeleteRow(p) \/ RemoveTemp(p)
    BY <1>0, <1>5 DEF DeleteRow, RemoveTemp, StoreFault, Finish, Advance
  <1>6. CASE Compare(p) \/ CreateTemp(p) \/ FillTemp(p) \/ RunFn(p)
    BY <1>0, <1>6 DEF Compare, CreateTemp, FillTemp, FillFails, RunFn, GiveUp, StoreFault, Finish, Advance
  <1> QED BY <1>1, <1>2, <1>3, <1>4, <1>5, <1>6 DEF BlobStep

\* What Open hands to the function passed the comparison before the temporary file.
GotOK ==
    \A p \in Procs : at[p] \in {"CreateTemp", "FillTemp", "fn"} => \E v \in Streams : got[p] = Whole(v)

OpenInv == TempFilesRemoved /\ GotOK

\* The temporary file of the Open that stands at label l.
OwnTemp(l) == IF l \in {"FillTemp", "fn", "Remove"} THEN 1 ELSE 0

LEMMA OpenStep ==
  ASSUME TypedInv, OpenInv, NEW p \in Procs, BlobCall(p) \/ BlobStep(p)
  PROVE  OpenInv'
  <1>0. ASSUME NEW q \in Procs, q # p
        PROVE  at'[q] = at[q] /\ got'[q] = got[q] /\ temps'[q] = temps[q] /\ stuck'[q] = stuck[q]
    <2>1. CASE BlobCall(p)
      BY <1>0, <2>1, OthersStay, CallFrame DEF TypedInv, tempVars
    <2>2. CASE BlobStep(p)
      BY <1>0, <2>2, OthersStay, TempEffect DEF TypedInv
    <2> QED BY <2>1, <2>2
  <1>1. temps'[p] = stuck'[p] + OwnTemp(at'[p])
    <2>0. /\ temps[p] = stuck[p] + OwnTemp(at[p])
          /\ temps \in [Procs -> Int] /\ stuck \in [Procs -> Nat] /\ at \in [Procs -> BlobLabels]
      BY DEF OpenInv, TempFilesRemoved, OwnTemp, TypedInv, BlobType, TypeOK, RowTypeOK, FrameTypeOK
    <2>1. CASE BlobCall(p)
      BY <2>0, <2>1, CallFrame DEF tempVars, OwnTemp
    <2>2. CASE CreateTemp(p)
      BY <2>0, <2>2 DEF CreateTemp, StoreFault, Advance, Finish, OwnTemp, tempVars
    <2>3. CASE RemoveTemp(p)
      BY <2>0, <2>3 DEF RemoveTemp, Advance, OwnTemp
    <2>4. CASE BlobStep(p) /\ ~ CreateTemp(p) /\ ~ RemoveTemp(p)
      <3>1. UNCHANGED tempVars
        BY <2>4, TempEffect DEF TypedInv
      <3>2. OwnTemp(at'[p]) = OwnTemp(at[p])
        BY <2>4, StepPlaces DEF OwnTemp
      <3> QED BY <2>0, <3>1, <3>2 DEF tempVars
    <2> QED BY <2>1, <2>2, <2>3, <2>4
  <1>2. TempFilesRemoved'
    <2> SUFFICES ASSUME NEW q \in Procs PROVE temps'[q] = stuck'[q] + OwnTemp(at'[q])
      BY DEF TempFilesRemoved, OwnTemp
    <2>1. CASE q = p
      BY <1>1, <2>1
    <2>2. CASE q # p
      <3>1. temps[q] = stuck[q] + OwnTemp(at[q])
        BY DEF OpenInv, TempFilesRemoved, OwnTemp
      <3> QED BY <1>0, <2>2, <3>1
    <2> QED BY <2>1, <2>2
  <1>3. at'[p] \in {"CreateTemp", "FillTemp", "fn"} => \E v \in Streams : got'[p] = Whole(v)
    <2>0. at[p] \in {"CreateTemp", "FillTemp", "fn"} => \E v \in Streams : got[p] = Whole(v)
      BY DEF OpenInv, GotOK
    <2>1. CASE BlobCall(p)
      BY <2>1, CallFrame
    <2>2. CASE Compare(p)
      <3>1. cur[p] \in Keys /\ got' = got
        <4>1. at[p] # "idle" /\ got' = got
          BY <2>2 DEF Compare, diskVars, handles
        <4>2. cur[p] \in 1 .. built
          BY <4>1 DEF TypedInv, BlobType, FrameOK, FrameAt
        <4> QED BY <4>1, <4>2, KeysFacts DEF TypedInv, BlobType
      <3>2. CASE Intact(p)
        BY <3>1, <3>2 DEF Intact, TypedInv, BlobType, TypeOK, SumTypeOK
      <3>3. CASE ~ Intact(p)
        BY <2>2, <3>3 DEF Compare, Finish, TypedInv, BlobType, TypeOK, FrameTypeOK
      <3> QED BY <3>2, <3>3
    <2>3. CASE CreateTemp(p) \/ FillTemp(p)
      <3>1. got' = got /\ at[p] \in {"CreateTemp", "FillTemp"}
        BY <2>3 DEF CreateTemp, FillTemp, StoreFault, diskVars, handles
      <3> QED BY <2>0, <3>1
    <2>4. CASE BlobStep(p) /\ ~ Compare(p) /\ ~ CreateTemp(p) /\ ~ FillTemp(p)
      BY <2>4, StepPlaces
    <2> QED BY <2>1, <2>2, <2>3, <2>4
  <1>4. GotOK'
    <2>1. ASSUME NEW q \in Procs, at'[q] \in {"CreateTemp", "FillTemp", "fn"}
          PROVE  \E v \in Streams : got'[q] = Whole(v)
      BY <1>0, <1>3, <2>1 DEF OpenInv, GotOK
    <2>2. \A v : Whole(v)' = Whole(v)
      BY DEF Whole
    <2> QED BY <2>1, <2>2 DEF GotOK
  <1> QED BY <1>2, <1>4 DEF OpenInv

LEMMA OpenInvariant == Spec => []OpenInv
  <1>1. Init => OpenInv
    BY DEF Init, OpenInv, TempFilesRemoved, GotOK
  <1>2. TypedInv /\ OpenInv /\ [Next]_vars => OpenInv'
    <2>1. ASSUME OpenInv, UNCHANGED vars PROVE OpenInv'
      BY <2>1 DEF OpenInv, TempFilesRemoved, GotOK, Whole, vars, diskVars, handles, blobVars, tempVars
    <2> QED BY <2>1, StepsAre, OpenStep
  <1> QED BY <1>1, <1>2, BlobTyped, PTL DEF Spec

\* A temporary file outlives its Open only where its own removal failed, whichever of
\* the calls before fails, whatever the caller's function returns and however many
\* Opens run.
THEOREM NoTempLeft == Spec => []TempFilesRemoved
  <1>1. OpenInv => TempFilesRemoved
    BY DEF OpenInv
  <1> QED BY <1>1, OpenInvariant, PTL

\* The function given to Open sees one content whole, though uploads of the blob
\* rewrite the object, and its checksum, while it is downloaded.
THEOREM OpenSeesWhole == Spec => []OpenYieldsWhole
  <1>1. OpenInv => OpenYieldsWhole
    BY DEF OpenInv, GotOK, OpenYieldsWhole
  <1> QED BY <1>1, OpenInvariant, PTL

-----------------------------------------------------------------------------
(* Blobs, their rows and their objects.                                     *)

\* The operation a goroutine begins, as its frame then says.
LEMMA CallIs ==
  ASSUME TypedInv, NEW p \in Procs, BlobCall(p)
  PROVE  /\ Begins(frame'[p], cur'[p], input'[p], token'[p], at'[p])
         /\ cur'[p] \in Keys /\ at[p] = "idle" /\ outcome'[p] = "none"
         /\ overlapped' = IF frame'[p] \in Changers /\ \E q \in Procs : Changing(q, cur'[p])
                          THEN overlapped \union {cur'[p]} ELSE overlapped
         /\ handed' = IF frame'[p] \in Creators THEN handed ELSE handed \union {cur'[p]}
  <1>1. PICK o \in BlobOps : \E b \in Keys : \E v, c \in Streams \union {NoSum} : \E l :
           Enter(p, o, b, v, c, l) /\ Begins(o, b, v, c, l)
    BY CallBegins DEF TypedInv, BlobType
  <1>2. PICK b \in Keys : \E v, c \in Streams \union {NoSum} : \E l :
           Enter(p, o, b, v, c, l) /\ Begins(o, b, v, c, l)
    BY <1>1
  <1>3. PICK v, c \in Streams \union {NoSum} : \E l :
           Enter(p, o, b, v, c, l) /\ Begins(o, b, v, c, l)
    BY <1>2
  <1>4. PICK l : Enter(p, o, b, v, c, l) /\ Begins(o, b, v, c, l)
    BY <1>3
  <1>5. /\ frame'[p] = o /\ cur'[p] = b /\ input'[p] = v /\ token'[p] = c /\ at'[p] = l
        /\ at[p] = "idle" /\ outcome'[p] = "none"
    BY <1>4 DEF Enter, TypedInv, BlobType, TypeOK, FrameTypeOK
  <1>6. Begins(frame'[p], cur'[p], input'[p], token'[p], at'[p])
    BY <1>4, <1>5, Zenon
  <1> QED BY <1>4, <1>5, <1>6 DEF Enter

\* What the operation a goroutine begins is about: a blob that is new, or one built before.
LEMMA CallKinds ==
  ASSUME TypedInv, NEW p \in Procs, BlobCall(p)
  PROVE  /\ \/ frame'[p] \in Creators /\ cur'[p] = built + 1 /\ built' = built + 1
               /\ checksum' = [checksum EXCEPT ![built + 1] = input'[p]] /\ input'[p] \in Streams
               /\ at'[p] \in {"InsertBlob", "uploadBytes"} /\ late' = late
            \/ frame'[p] \in {"PUT", "Upload", "Purge"} \union Getters /\ cur'[p] \in 1 .. built
               /\ UNCHANGED <<built, checksum>> /\ at'[p] # "InsertBlob" /\ late \subseteq late'
         /\ built \in Nat /\ cur'[p] \in Keys
  <1>0. Begins(frame'[p], cur'[p], input'[p], token'[p], at'[p]) /\ cur'[p] \in Keys
    BY CallIs
  <1>1. built \in Nat
    BY KeysFacts DEF TypedInv, BlobType
  <1>2. at'[p] \in {"InsertBlob", "uploadBytes", "Checksum", "Download", "Delete"}
    BY CallFrame
  <1>3. CASE frame'[p] \in Creators
    <2>1. /\ cur'[p] = built + 1 /\ built' = built + 1 /\ input'[p] \in Streams /\ late' = late
          /\ checksum' = [checksum EXCEPT ![built + 1] = input'[p]]
      BY <1>0, <1>3 DEF Begins, Creators, Getters
    <2>2. at'[p] \in {"InsertBlob", "uploadBytes"}
      BY <1>0, <1>3 DEF Begins, Creators, Getters
    <2> QED BY <1>0, <1>1, <1>3, <2>1, <2>2
  <1>4. CASE frame'[p] \notin Creators
    <2>1. /\ frame'[p] \in {"PUT", "Upload", "Purge"} \union Getters /\ cur'[p] \in 1 .. built
          /\ UNCHANGED <<built, checksum>> /\ late \subseteq late'
      BY <1>0, <1>4 DEF Begins, sums
    <2>2. at'[p] # "InsertBlob"
      BY <1>0, <1>4 DEF Begins
    <2> QED BY <1>0, <1>1, <2>1, <2>2
  <1> QED BY <1>3, <1>4

\* Only a call of the service changes the directory, and only where its operation
\* uploads or purges.
LEMMA DirKept ==
  ASSUME TypedInv, NEW p \in Procs, BlobCall(p) \/ BlobStep(p), NEW b \in Keys, dir'[b] # dir[b]
  PROVE  /\ BlobStep(p) /\ at[p] = "service" /\ pc[p] # "idle" /\ cur[p] = b
         /\ frame[p] \in Uploaders \union {"Purge"}
         /\ dir'[b] # 0 => frame[p] \in Uploaders
  <1>1. DiskCall(p) \/ DiskStep(p)
    BY ServiceEffect DEF TypedInv, Quiet
  <1>2. Mutating(p, b)
    BY <1>1, NotMine DEF TypedInv, ServiceInv
  <1>3. pc[p] # "idle" /\ op[p] \in Mutators /\ key[p] = b
    BY <1>2 DEF Mutating
  <1>4. at[p] = "service"
    BY <1>3 DEF TypedInv, BlobType, TypeOK, FrameTypeOK
  <1>5. /\ cur[p] = b
        /\ op[p] = "Upload" => frame[p] \in Uploaders
        /\ op[p] = "Delete" => frame[p] = "Purge"
    BY <1>3, <1>4 DEF TypedInv, BlobType, FrameOK, FrameAt
  <1>6. BlobStep(p)
    BY <1>4, CallFrame
  <1>7. dir'[b] # 0 => op[p] = "Upload"
    <2>1. dir \in [Keys -> 0 .. Len(data)] /\ PlaceAt(p)
      BY DEF TypedInv, ServiceInv, Owners, DiskType, PlaceOK, DiskTypeOK, FileTypeOK
    <2>2. FilesKept \/ Truncated(p) \/ Created(p) \/ Written(p) \/ Removed(p)
      BY <1>1, FileEffect DEF TypedInv, ServiceInv, Owners, DiskType
    <2>3. CASE Created(p)
      BY <2>1, <2>3 DEF Created, PlaceAt
    <2>4. CASE Removed(p)
      BY <1>3, <2>1, <2>4 DEF Removed
    <2> QED BY <2>2, <2>3, <2>4 DEF FilesKept, Truncated, Written
  <1> QED BY <1>3, <1>4, <1>5, <1>6, <1>7 DEF Mutators

\* An operation that goes on keeps its blob.
LEMMA WorkKept ==
  ASSUME TypedInv, NEW p \in Procs, BlobStep(p), NEW q \in Procs, NEW b
  PROVE  /\ Creating(q, b)' => Creating(q, b)
         /\ Changing(q, b)' => Changing(q, b)
         /\ frame'[q] = frame[q] /\ cur'[q] = cur[q] /\ (at'[q] # "idle" => at[q] # "idle")
  <1>1. UNCHANGED <<frame, cur>> /\ at[p] # "idle"
    BY StepFrame DEF TypedInv, BlobType, frameVars
  <1>2. q # p => at'[q] = at[q]
    BY OthersStay DEF TypedInv
  <1> QED BY <1>1, <1>2 DEF Creating, Changing

\* Rows belong to one blob, and blobs that are not built have neither row nor object.
RowsOK ==
    /\ \A b, c \in Keys : id[b] = id[c] => b = c \/ id[b] = 0
    /\ \A b \in Keys : b > built => id[b] = 0 /\ dir[b] = 0
    /\ \A b \in 1 .. built : checksum[b] \in Streams
    /\ \A q \in Procs : at[q] = "InsertBlob" => id[cur[q]] = 0
    /\ \A q, r \in Procs, b \in Keys : Creating(q, b) /\ Creating(r, b) => q = r

LEMMA RowsCall ==
  ASSUME TypedInv, RowsOK, NEW p \in Procs, BlobCall(p)
  PROVE  RowsOK'
  <1>0. /\ built \in Nat /\ cur'[p] \in Keys /\ Keys \subseteq Nat
        /\ UNCHANGED <<id, dir>> /\ built' \in Nat
    BY KeysFacts, CallFrame, CallKinds, KeysAssumption, OpsAssumption DEF rowVars, diskVars
  <1>1. ASSUME NEW q \in Procs, q # p PROVE at'[q] = at[q] /\ frame'[q] = frame[q] /\ cur'[q] = cur[q]
    BY <1>1, OthersStay DEF TypedInv
  <1>2. ASSUME NEW q \in Procs PROVE cur[q] \in 0 .. built
    BY DEF TypedInv, BlobType, TypeOK, FrameTypeOK
  <1>3. checksum \in [Keys -> Streams \union {NoSum}]
    BY DEF TypedInv, BlobType, TypeOK, SumTypeOK
  <1>4. CASE /\ frame'[p] \in Creators /\ cur'[p] = built + 1 /\ built' = built + 1
             /\ checksum' = [checksum EXCEPT ![built + 1] = input'[p]] /\ input'[p] \in Streams
    <2>1. built + 1 \in Keys /\ id[built + 1] = 0
      BY <1>0, <1>4 DEF RowsOK
    <2>2. \A b \in 1 .. built' : checksum'[b] \in Streams
      <3> SUFFICES ASSUME NEW b \in 1 .. built' PROVE checksum'[b] \in Streams
        OBVIOUS
      <3>1. b = built + 1 \/ b \in 1 .. built
        BY <1>0, <1>4
      <3>2. 1 .. built \subseteq Keys
        BY KeysFacts DEF TypedInv, BlobType
      <3> QED BY <1>0, <1>3, <1>4, <2>1, <3>1, <3>2 DEF RowsOK
    <2>3. \A q \in Procs : at'[q] = "InsertBlob" => id[cur'[q]] = 0
      BY <1>1, <1>4, <2>1 DEF RowsOK
    <2>4. \A q \in Procs : q # p => cur'[q] # built + 1
      BY <1>0, <1>1, <1>2
    <2>5. \A q, r \in Procs, b \in Keys : Creating(q, b)' /\ Creating(r, b)' => q = r
      <3> SUFFICES ASSUME NEW q \in Procs, NEW r \in Procs, NEW b \in Keys,
                          Creating(q, b)', Creating(r, b)'
                   PROVE  q = r
        OBVIOUS
      <3>1. cur'[q] = b /\ cur'[r] = b
        BY DEF Creating
      <3>2. CASE q = p \/ r = p
        BY <1>4, <2>4, <3>1, <3>2
      <3>3. CASE q # p /\ r # p
        BY <1>1, <3>3 DEF Creating, RowsOK
      <3> QED BY <3>2, <3>3
    <2>6. \A b \in Keys : b > built' => id[b] = 0 /\ dir[b] = 0
      BY <1>0, <1>4 DEF RowsOK
    <2> QED BY <1>0, <2>2, <2>3, <2>5, <2>6 DEF RowsOK
  <1>5. CASE frame'[p] \notin Creators /\ UNCHANGED <<built, checksum>> /\ at'[p] # "InsertBlob"
    <2>1. \A q, b : Creating(q, b)' /\ q \in Procs => q # p /\ Creating(q, b)
      BY <1>1, <1>5 DEF Creating
    <2>2. \A q \in Procs : at'[q] = "InsertBlob" => id[cur'[q]] = 0
      BY <1>1, <1>5 DEF RowsOK
    <2> QED BY <1>0, <1>5, <2>1, <2>2 DEF RowsOK
  <1> QED BY <1>4, <1>5, CallKinds DEF Creators, Getters

LEMMA RowsStep ==
  ASSUME TypedInv, RowsOK, NEW p \in Procs, BlobStep(p)
  PROVE  RowsOK'
  <1>0. /\ built' = built /\ at[p] # "idle" /\ UNCHANGED <<frame, cur>>
        /\ built \in Nat /\ 1 .. built \subseteq Keys /\ Keys \subseteq Nat
    BY StepFrame, KeysFacts, KeysAssumption, OpsAssumption DEF TypedInv, BlobType, frameVars
  <1>1. cur[p] \in 1 .. built
    BY <1>0 DEF TypedInv, BlobType, FrameOK, FrameAt
  <1>2. id \in [Keys -> 0 .. nextBlobID] /\ nextBlobID \in Nat
    BY DEF TypedInv, BlobType, TypeOK, RowTypeOK
  <1>3. at[p] = "InsertBlob" => Creating(p, cur[p])
    BY <1>0 DEF TypedInv, BlobType, FrameOK, FrameAt, Creating, Creators
  <1>4. /\ \A b, c \in Keys : id'[b] = id'[c] => b = c \/ id'[b] = 0
        /\ \A b \in Keys : b # cur[p] => id'[b] = id[b]
        /\ id'[cur[p]] # id[cur[p]] => at[p] = "InsertBlob"
    <2>1. CASE id' = id
      BY <2>1 DEF RowsOK
    <2>2. CASE at[p] = "InsertBlob" /\ id' = [id EXCEPT ![cur[p]] = nextBlobID + 1]
      <3>1. \A b \in Keys : id[b] # nextBlobID + 1
        BY <1>2
      <3>2. cur[p] \in Keys
        BY <1>0, <1>1
      <3> QED BY <1>2, <2>2, <3>1, <3>2 DEF RowsOK
    <2> QED BY <2>1, <2>2, RowEffect DEF rowVars
  <1>5. \A b \in Keys : b > built => id'[b] = 0 /\ dir'[b] = 0
    <2> SUFFICES ASSUME NEW b \in Keys, b > built PROVE id'[b] = 0 /\ dir'[b] = 0
      OBVIOUS
    <2>1. b # cur[p] /\ id[b] = 0 /\ dir[b] = 0
      BY <1>0, <1>1 DEF RowsOK
    <2> QED BY <1>4, <2>1, DirKept
  <1>6. \A b \in 1 .. built : checksum'[b] \in Streams
    <2>1. CASE SetChecksum(p)
      <3>1. input[p] \in Streams
        BY <2>1 DEF SetChecksum, TypedInv, BlobType, FrameOK, FrameAt, Uploaders
      <3>2. checksum \in [Keys -> Streams \union {NoSum}]
        BY DEF TypedInv, BlobType, TypeOK, SumTypeOK
      <3> QED BY <1>0, <1>1, <2>1, <3>1, <3>2 DEF SetChecksum, NewChecksum, RowsOK
    <2>2. CASE ~ SetChecksum(p)
      <3>1. checksum' = checksum
        BY <2>2, SumsKept DEF sums
      <3> QED BY <3>1 DEF RowsOK
    <2> QED BY <2>1, <2>2
  <1>7. \A q \in Procs : at'[q] = "InsertBlob" => id'[cur[q]] = 0
    <2> SUFFICES ASSUME NEW q \in Procs, at'[q] = "InsertBlob" PROVE id'[cur[q]] = 0
      OBVIOUS
    <2>1. q # p /\ at[q] = "InsertBlob"
      BY StepPlaces, OthersStay DEF TypedInv
    <2>2. cur[q] \in Keys /\ Creating(q, cur[q])
      BY <1>0, <2>1 DEF TypedInv, BlobType, FrameOK, FrameAt, Creating, Creators
    <2>3. cur[q] = cur[p] => at[p] # "InsertBlob"
      BY <1>3, <2>1, <2>2 DEF RowsOK
    <2> QED BY <1>4, <2>1, <2>2, <2>3 DEF RowsOK
  <1>8. \A q, r \in Procs, b \in Keys : Creating(q, b)' /\ Creating(r, b)' => q = r
    BY WorkKept DEF RowsOK
  <1> QED BY <1>0, <1>4, <1>5, <1>6, <1>7, <1>8 DEF RowsOK

\* A blob that a purge has deleted has no object unless an upload created it again.
PurgedOK == \A b \in 1 .. built \ revived : Purged(b) => dir[b] = 0

LEMMA PurgedCall ==
  ASSUME TypedInv, RowsOK, PurgedOK, NEW p \in Procs, BlobCall(p)
  PROVE  PurgedOK'
  <1>0. /\ built \in Nat /\ UNCHANGED <<id, dir, blobs, result, revived>>
        /\ at'[p] \in {"InsertBlob", "uploadBytes", "Checksum", "Download", "Delete"}
    BY CallFrame, CallKinds DEF rowVars, diskVars
  <1> SUFFICES ASSUME NEW b \in 1 .. built' \ revived', Purged(b)' PROVE dir[b] = 0
    BY <1>0 DEF PurgedOK
  <1>1. CASE b \in 1 .. built
    <2>1. ASSUME NEW q \in Procs, q # p
          PROVE  at'[q] = at[q] /\ frame'[q] = frame[q] /\ cur'[q] = cur[q]
      BY <2>1, OthersStay DEF TypedInv
    <2>2. Purged(b)
      BY <1>0, <2>1 DEF Purged, Deleted
    <2> QED BY <1>0, <1>1, <2>2 DEF PurgedOK
  <1>2. CASE b \notin 1 .. built
    <2>1. b = built + 1 /\ b \in Keys
      BY <1>0, <1>2, CallKinds
    <2> QED BY <1>0, <2>1 DEF RowsOK
  <1> QED BY <1>1, <1>2

\* A purge that has come to the row has removed the object.
LEMMA PurgeRemoves ==
  ASSUME TypedInv, NEW p \in Procs, BlobStep(p), frame[p] = "Purge",
         at[p] = "service" /\ pc[p] = "idle" /\ result[p] = "ok" => dir[cur[p]] = 0,
         at'[p] = "DeleteBlob" \/ (at'[p] = "service" /\ result'[p] = "ok")
  PROVE  dir'[cur[p]] = 0
  <1>0. /\ at[p] # "idle" /\ cur[p] \in Keys /\ key[p] \in Keys
        /\ dir \in [Keys -> 0 .. Len(data)] /\ pc \in [Procs -> DiskLabels]
        /\ result \in [Procs -> {"none", "ok", "err"}] /\ PlaceAt(p)
    <2>1. at[p] # "idle"
      BY StepFrame DEF TypedInv, BlobType
    <2>2. cur[p] \in Keys
      BY <2>1, KeysFacts DEF TypedInv, BlobType, FrameOK, FrameAt
    <2> QED BY <2>1, <2>2 DEF TypedInv, ServiceInv, Owners, DiskType, DiskTypeOK, FileTypeOK, PlaceTypeOK, PlaceOK
  <1>1. CASE at'[p] = "DeleteBlob"
    <2>1. ServiceReturned(p) /\ at[p] = "service"
      BY <1>1, StepPlaces
    <2>2. pc[p] = "idle" /\ result[p] = "ok" /\ dir' = dir
      <3>1. pc[p] = "idle" /\ dir' = dir /\ (result[p] = "err" => Finish(p, "err"))
            /\ (result[p] = "none" => Finish(p, "ok"))
        BY <2>1, Zenon DEF ServiceReturned, diskVars
      <3>2. ~ Finish(p, "err") /\ ~ Finish(p, "ok")
        BY <1>1 DEF Finish, TypedInv, BlobType, TypeOK, FrameTypeOK
      <3> QED BY <1>0, <3>1, <3>2
    <2> QED BY <2>1, <2>2
  <1>2. CASE at'[p] = "service" /\ result'[p] = "ok"
    <2>1. CASE InService(p)
      <3>1. at[p] = "service" /\ DiskStep(p)
        BY <2>1 DEF InService
      <3>2. key[p] = cur[p] /\ op[p] = "Delete"
        BY <3>1 DEF TypedInv, BlobType, FrameOK, FrameAt, Uploaders, Getters
      <3>3. Remove(p)
        BY <1>0, <3>1, <3>2 DEF PlaceAt, DiskStep, Create, Copy, Close, Cleanup, Open, Read
      <3>4. ~ DiskFault(p)
        BY <1>0, <1>2 DEF DiskFault, Return
      <3> QED BY <1>0, <3>2, <3>3, <3>4 DEF Remove
    <2>2. CASE CallService(p)
      <3>1. PICK o : \E v, c \in Streams \union {NoSum} : \E upto, l :
               Begin(p, o, cur[p], v, c, 0, upto, l) /\ Opens(p, o, cur[p], v, 0, upto, l)
        BY <2>2, ServiceCalled DEF TypedInv
      <3>2. result'[p] = "none"
        BY <1>0, <3>1 DEF Begin
      <3> QED BY <1>2, <3>2
    <2> QED BY <1>2, <2>1, <2>2, StepPlaces
  <1> QED BY <1>1, <1>2

\* A step that deletes a row is the last of a purge of that blob.
LEMMA RowGoes ==
  ASSUME TypedInv, RowsOK, NEW p \in Procs, BlobStep(p), NEW b \in Keys,
         id'[b] # 0, id'[b] \notin blobs'
  PROVE  \/ id[b] # 0 /\ id[b] \notin blobs
         \/ at[p] = "DeleteBlob" /\ frame[p] = "Purge" /\ cur[p] = b
  <1>0. cur[p] \in Keys
    <2>1. at[p] # "idle"
      BY StepFrame DEF TypedInv, BlobType
    <2> QED BY <2>1, KeysFacts DEF TypedInv, BlobType, FrameOK, FrameAt
  <1> SUFFICES ASSUME ~ (id[b] # 0 /\ id[b] \notin blobs)
               PROVE  at[p] = "DeleteBlob" /\ frame[p] = "Purge" /\ cur[p] = b
    OBVIOUS
  <1>1. /\ at[p] = "DeleteBlob" /\ id[cur[p]] \in blobs
        /\ UNCHANGED <<id, nextBlobID>> /\ blobs' = blobs \ {id[cur[p]]}
    <2>1. CASE UNCHANGED rowVars
      BY <2>1 DEF rowVars
    <2>2. CASE /\ blobs' = blobs \union {nextBlobID'}
               /\ id' = [id EXCEPT ![cur[p]] = nextBlobID']
      BY <1>0, <2>2 DEF TypedInv, BlobType, TypeOK, RowTypeOK
    <2> QED BY <2>1, <2>2, RowEffect
  <1>2. b = cur[p]
    BY <1>0, <1>1 DEF RowsOK
  <1>3. frame[p] = "Purge"
    BY <1>1 DEF TypedInv, BlobType, FrameOK, FrameAt
  <1> QED BY <1>1, <1>2, <1>3

LEMMA PurgedStep ==
  ASSUME TypedInv, RowsOK, PurgedOK, NEW p \in Procs, BlobStep(p)
  PROVE  PurgedOK'
  <1>0. /\ UNCHANGED <<built, frame, cur>> /\ 1 .. built \subseteq Keys /\ revived \subseteq revived'
    BY StepFrame, KeysFacts, TempEffect DEF TypedInv, BlobType, frameVars
  <1> SUFFICES ASSUME NEW b \in 1 .. built \ revived', Purged(b)' PROVE dir'[b] = 0
    BY <1>0 DEF PurgedOK
  <1>1. b \in Keys /\ b \in 1 .. built \ revived
    BY <1>0
  <1>2. CASE Purged(b)
    <2>1. dir[b] = 0
      BY <1>1, <1>2 DEF PurgedOK
    <2>2. SUFFICES ASSUME dir'[b] # 0 PROVE FALSE
      OBVIOUS
    <2>3. at[p] = "service" /\ pc[p] # "idle" /\ cur[p] = b
      BY <1>1, <2>1, <2>2, DirKept
    <2>4. CASE InService(p)
      BY <1>2, <2>1, <2>2, <2>3, <2>4 DEF InService
    <2>5. CASE ServiceReturned(p)
      BY <2>3, <2>5 DEF ServiceReturned
    <2> QED BY <2>3, <2>4, <2>5, StepPlaces
  <1>3. CASE ~ Purged(b)
    <2>1. ~ (id'[b] # 0 /\ id'[b] \notin blobs')
      BY <1>1, <1>3, RowGoes DEF Purged
    <2>2. PICK q \in Procs : /\ frame'[q] = "Purge" /\ cur'[q] = b
                             /\ at'[q] = "DeleteBlob" \/ Deleted(q)'
      BY <2>1 DEF Purged, Deleted
    <2>3. frame[q] = "Purge" /\ cur[q] = b /\ ~ Deleted(q) /\ at[q] # "DeleteBlob"
      BY <1>0, <1>3, <2>2 DEF Purged, Deleted
    <2>4. q = p
      BY <2>2, <2>3, OthersStay DEF TypedInv, Deleted
    <2> QED BY <2>2, <2>3, <2>4, PurgeRemoves DEF Deleted
  <1> QED BY <1>2, <1>3

LEMMA RowInvariant == Spec => [](RowsOK /\ PurgedOK)
  <1>1. Init => RowsOK /\ PurgedOK
    <2> SUFFICES ASSUME Init PROVE RowsOK /\ PurgedOK
      OBVIOUS
    <2>1. RowsOK
      BY DEF Init, DiskInit, RowsOK, Creating
    <2>2. 1 .. built = {}
      BY DEF Init
    <2> QED BY <2>1, <2>2 DEF PurgedOK
  <1>2. TypedInv /\ (RowsOK /\ PurgedOK) /\ [Next]_vars => (RowsOK /\ PurgedOK)'
    <2>1. ASSUME RowsOK, PurgedOK, UNCHANGED vars PROVE RowsOK' /\ PurgedOK'
      <3>1. RowsOK'
        BY <2>1 DEF RowsOK, Creating, vars, diskVars, blobVars, rowVars, frameVars, sums
      <3>2. PurgedOK'
        BY <2>1 DEF PurgedOK, Purged, Deleted, vars, diskVars, blobVars, rowVars, frameVars, history
      <3> QED BY <3>1, <3>2
    <2> QED BY <2>1, StepsAre, RowsCall, RowsStep, PurgedCall, PurgedStep
  <1> QED BY <1>1, <1>2, BlobTyped, PTL DEF Spec

\* A purge leaves no object without a row, with any number of goroutines creating,
\* finding, uploading to and purging blobs, and whatever fails: only an upload that
\* creates the object after a purge has deleted it does.
THEOREM RowStays == Spec => []RowOutlivesObject
  <1>1. PurgedOK => RowOutlivesObject
    BY DEF PurgedOK, Purged, RowOutlivesObject
  <1> QED BY <1>1, RowInvariant, PTL

-----------------------------------------------------------------------------
(* What a service call has returned, as far as a blob operation depends on it. *)

\* An upload that is stored has the digest it was given; with no failing call one
\* that is not was written and removed again, and, unless its reader failed, for
\* its digest.
ResultAt(p) ==
    /\ pc[p] = "idle" /\ op[p] # "none" => result[p] # "none"
    /\ pc[p] = "idle" /\ op[p] = "Upload" /\ result[p] = "ok" => DigestMatches(p)
    /\ faults = 0 =>
         /\ ~ leftover[p]
         /\ pc[p] = "idle" /\ op[p] = "Upload" /\ result[p] = "err" => fd[p] # 0
         /\ op[p] = "Delete" => result[p] # "err"
    /\ faults = 0 /\ ~ ReaderFails =>
         /\ pc[p] = "cleanup" => ~ DigestMatches(p)
         /\ pc[p] = "idle" /\ op[p] = "Upload" /\ result[p] = "err" => ~ DigestMatches(p)

ResultOK == \A p \in Procs : ResultAt(p)

LEMMA NoFault ==
  ASSUME ServiceInv, CountFault
  PROVE  faults' # 0
  BY DiskBoundsAssumption DEF ServiceInv, Owners, DiskType, DiskTypeOK, FileTypeOK, CountFault

LEMMA OwnResult ==
  ASSUME ServiceInv, ResultOK, NEW p \in Procs, DiskCall(p) \/ DiskStep(p)
  PROVE  ResultAt(p)'
  <1>0. /\ pc \in [Procs -> DiskLabels] /\ result \in [Procs -> {"none", "ok", "err"}]
        /\ op \in [Procs -> {"none", "Upload", "Delete", "Download", "DownloadChunk"}]
        /\ leftover \in [Procs -> BOOLEAN]
    BY DEF ServiceInv, Owners, DiskType, DiskTypeOK, PlaceTypeOK, HistoryTypeOK
  <1>1. PlaceAt(p) /\ ResultAt(p)
    BY DEF ServiceInv, Owners, DiskType, PlaceOK, ResultOK
  <1>2. CASE DiskCall(p)
    <2>1. PICK o : \E k \in Keys, v, c \in Streams \union {NoSum} : \E from, upto, l :
             Begin(p, o, k, v, c, from, upto, l) /\ Opens(p, o, k, v, from, upto, l)
      BY <1>2 DEF DiskCall
    <2>2. pc'[p] \notin {"idle", "cleanup"} /\ ~ leftover'[p] /\ result'[p] = "none"
      BY <1>0, <2>1 DEF Begin, Opens
    <2> QED BY <2>2 DEF ResultAt
  <1>3. CASE DiskFault(p)
    <2>1. faults' # 0 /\ result'[p] = "err"
      BY <1>0, <1>3, NoFault DEF DiskFault, Return
    <2> QED BY <2>1 DEF ResultAt
  <1>4. CASE DiskStep(p) /\ ~ DiskFault(p)
    <2>1. UNCHANGED <<op, sum, stream>>
      BY <1>4 DEF DiskStep, Create, Copy, Close, Cleanup, Remove, Open, Read, callVars
    <2>2. DigestMatches(p)' <=> DigestMatches(p)
      BY <2>1 DEF DigestMatches
    <2>3. CASE Create(p)
      <3>1. pc'[p] = "copy" /\ faults' = faults /\ leftover' = leftover /\ result' = result
        BY <1>0, <1>4, <2>3 DEF Create, Goto
      <3> QED BY <1>1, <2>1, <3>1 DEF ResultAt
    <2>4. CASE Copy(p)
      <3>1. leftover' = leftover /\ result' = result /\ pc[p] = "copy" /\ op[p] = "Upload"
        BY <1>1, <2>4 DEF Copy, Goto, diskHistory, PlaceAt
      <3>2. \/ pc'[p] \in {"copy", "close"} /\ faults' = faults
            \/ pc'[p] = "cleanup" /\ (CountFault \/ (ReaderFails /\ faults' = faults))
        BY <1>0, <2>4 DEF Copy, Goto
      <3> QED BY <1>1, <2>1, <3>1, <3>2, NoFault DEF ResultAt
    <2>5. CASE Close(p)
      <3>1. leftover' = leftover /\ op[p] = "Upload"
        BY <1>1, <2>5 DEF Close, PlaceAt, diskHistory
      <3>2. \/ DigestMatches(p) /\ pc'[p] = "idle" /\ result'[p] = "ok" /\ faults' = faults
            \/ pc'[p] = "cleanup" /\ (CountFault \/ (~ DigestMatches(p) /\ faults' = faults))
        BY <1>0, <2>5 DEF Close, Return, Goto
      <3> QED BY <1>1, <2>1, <2>2, <3>1, <3>2, NoFault DEF ResultAt
    <2>6. CASE Cleanup(p)
      <3>1. /\ pc[p] = "cleanup" /\ pc'[p] = "idle" /\ result'[p] = "err" /\ fd' = fd
            /\ op[p] = "Upload" /\ fd[p] # 0
        BY <1>0, <1>1, <2>6 DEF Cleanup, Return, PlaceAt, handles
      <3>2. CountFault \/ (faults' = faults /\ leftover' = leftover)
        BY <2>6 DEF Cleanup
      <3> QED BY <1>1, <2>1, <2>2, <3>1, <3>2, NoFault DEF ResultAt
    <2>7. CASE Remove(p)
      <3>1. /\ op[p] = "Delete" /\ pc'[p] = "idle" /\ result'[p] = "ok"
            /\ faults' = faults /\ leftover' = leftover
        BY <1>0, <1>1, <1>4, <2>7 DEF Remove, Return, PlaceAt, diskHistory
      <3> QED BY <1>1, <2>1, <3>1 DEF ResultAt
    <2>8. CASE Open(p) \/ Read(p)
      <3>1. /\ op[p] \in {"Download", "DownloadChunk"} /\ pc'[p] # "cleanup"
            /\ pc'[p] = "idle" => result'[p] # "none"
            /\ faults' = faults /\ leftover' = leftover
        BY <1>0, <1>1, <1>4, <2>8 DEF Open, Read, Return, Goto, PlaceAt, diskHistory
      <3> QED BY <1>1, <2>1, <3>1 DEF ResultAt
    <2> QED BY <1>4, <2>3, <2>4, <2>5, <2>6, <2>7, <2>8 DEF DiskStep
  <1> QED BY <1>2, <1>3, <1>4

\* Failures are counted, never forgotten.
LEMMA FaultsGrow ==
  ASSUME TypedInv, NEW p \in Procs, BlobCall(p) \/ BlobStep(p), faults' = 0
  PROVE  faults = 0 /\ ~ CountFault
  <1>0. faults \in Nat
    BY DiskBoundsAssumption DEF TypedInv, ServiceInv, Owners, DiskType, DiskTypeOK, FileTypeOK
  <1>1. ~ CountFault
    BY NoFault DEF TypedInv
  <1>2. CASE Quiet
    BY <1>1, <1>2 DEF Quiet
  <1>3. CASE DiskCall(p)
    <2>1. PICK o : \E k \in Keys, v, c \in Streams \union {NoSum} : \E from, upto, l :
             Begin(p, o, k, v, c, from, upto, l)
      BY <1>3 DEF DiskCall
    <2>2. faults' = faults
      BY <2>1 DEF Begin
    <2> QED BY <1>1, <2>2
  <1>4. CASE DiskStep(p)
    BY <1>1, <1>4 DEF DiskStep, DiskFault, Create, Copy, Close, Cleanup, Remove, Open, Read
  <1> QED BY <1>1, <1>2, <1>3, <1>4, ServiceEffect DEF TypedInv

LEMMA ResultStep ==
  ASSUME TypedInv, ResultOK, NEW p \in Procs, BlobCall(p) \/ BlobStep(p)
  PROVE  ResultOK'
  <1>1. ASSUME NEW q \in Procs, q # p PROVE ResultAt(q)'
    <2>1. /\ pc'[q] = pc[q] /\ op'[q] = op[q] /\ stream'[q] = stream[q] /\ sum'[q] = sum[q]
          /\ fd'[q] = fd[q] /\ result'[q] = result[q] /\ leftover'[q] = leftover[q]
      BY <1>1, OthersStay DEF TypedInv
    <2>2. DigestMatches(q)' <=> DigestMatches(q)
      BY <2>1 DEF DigestMatches
    <2>3. ResultAt(q)
      BY DEF ResultOK
    <2> QED BY <2>1, <2>2, <2>3, FaultsGrow DEF ResultAt
  <1>2. ResultAt(p)'
    <2>1. CASE Quiet
      <3>1. UNCHANGED <<pc, op, stream, sum, fd, result, leftover>>
        BY <2>1 DEF Quiet, callVars, handles, diskHistory
      <3>2. DigestMatches(p)' <=> DigestMatches(p)
        BY <3>1 DEF DigestMatches
      <3>3. ResultAt(p)
        BY DEF ResultOK
      <3> QED BY <3>1, <3>2, <3>3, FaultsGrow DEF ResultAt
    <2>2. CASE DiskCall(p) \/ DiskStep(p)
      BY <2>2, OwnResult DEF TypedInv
    <2> QED BY <2>1, <2>2, ServiceEffect DEF TypedInv
  <1> QED BY <1>1, <1>2 DEF ResultOK

-----------------------------------------------------------------------------
(* A blob that one call changes at a time.                                  *)

SingleOK ==
    \A b \in Keys \ overlapped : \A p, q \in Procs : Changing(p, b) /\ Changing(q, b) => p = q

\* Its service call is alone with the key.
LoneOK ==
    \A b \in Keys \ overlapped : \A p \in Procs : Changing(p, b) /\ at[p] = "service" => alone[p]

LEMMA SingleStep ==
  ASSUME TypedInv, SingleOK, NEW p \in Procs, BlobCall(p) \/ BlobStep(p)
  PROVE  SingleOK'
  <1>1. CASE BlobCall(p)
    <2>1. ASSUME NEW q \in Procs, q # p PROVE at'[q] = at[q] /\ frame'[q] = frame[q] /\ cur'[q] = cur[q]
      BY <2>1, OthersStay DEF TypedInv
    <2>2. /\ overlapped \subseteq overlapped'
          /\ frame'[p] \in Changers /\ (\E q \in Procs : Changing(q, cur'[p])) => cur'[p] \in overlapped'
      BY <1>1, CallIs
    <2>3. ASSUME NEW b \in Keys \ overlapped', NEW q \in Procs, NEW r \in Procs,
                 Changing(q, b)', Changing(r, b)', q # r
          PROVE  FALSE
      <3>1. CASE q # p /\ r # p
        BY <2>1, <2>2, <2>3, <3>1 DEF Changing, SingleOK
      <3>2. CASE q = p
        <4>1. r # p /\ Changing(r, b)
          BY <2>1, <2>3, <3>2 DEF Changing
        <4>2. frame'[p] \in Changers /\ cur'[p] = b
          BY <2>3, <3>2 DEF Changing
        <4> QED BY <2>2, <4>1, <4>2
      <3>3. CASE r = p
        <4>1. q # p /\ Changing(q, b)
          BY <2>1, <2>3, <3>3 DEF Changing
        <4>2. frame'[p] \in Changers /\ cur'[p] = b
          BY <2>3, <3>3 DEF Changing
        <4> QED BY <2>2, <4>1, <4>2
      <3> QED BY <3>1, <3>2, <3>3
    <2> QED BY <2>3 DEF SingleOK
  <1>2. CASE BlobStep(p)
    BY <1>2, WorkKept, StepFrame DEF SingleOK, TypedInv, BlobType, history
  <1> QED BY <1>1, <1>2

\* Who changes a file of a key changes the blob.
LEMMA MutatingChanges ==
  ASSUME TypedInv, NEW p \in Procs, NEW b, Mutating(p, b)
  PROVE  Changing(p, b) /\ at[p] = "service"
  <1>1. pc[p] # "idle" /\ op[p] \in Mutators /\ key[p] = b
    BY DEF Mutating
  <1>2. at[p] = "service"
    BY <1>1 DEF TypedInv, BlobType, TypeOK, FrameTypeOK
  <1>3. cur[p] = b /\ frame[p] \in Uploaders \union {"Purge"}
    BY <1>1, <1>2 DEF TypedInv, BlobType, FrameOK, FrameAt, Mutators
  <1> QED BY <1>2, <1>3 DEF Changing, Changers, Creators, Uploaders

LEMMA LoneStep ==
  ASSUME TypedInv, SingleOK, LoneOK, NEW p \in Procs, BlobCall(p) \/ BlobStep(p)
  PROVE  LoneOK'
  <1>0. alone \in [Procs -> BOOLEAN]
    BY DEF TypedInv, ServiceInv, Owners, DiskType, DiskTypeOK, HistoryTypeOK
  <1> SUFFICES ASSUME NEW b \in Keys \ overlapped', NEW q \in Procs,
                      Changing(q, b)', at'[q] = "service"
               PROVE  alone'[q]
    BY DEF LoneOK
  <1>1. CASE BlobCall(p)
    <2>1. q # p /\ overlapped \subseteq overlapped' /\ alone' = alone
      BY <1>1, CallFrame, CallIs DEF diskVars, diskHistory
    <2>2. at'[q] = at[q] /\ frame'[q] = frame[q] /\ cur'[q] = cur[q]
      BY <2>1, OthersStay DEF TypedInv
    <2> QED BY <2>1, <2>2 DEF Changing, LoneOK
  <1>2. CASE BlobStep(p) /\ ~ CallService(p)
    <2>1. alone' = alone
      <3>1. CASE InService(p)
        BY <3>1 DEF InService, DiskStep, Create, Copy, Close, Cleanup, Remove, Open, Read, DiskFault, diskHistory
      <3>2. CASE ServiceReturned(p)
        BY <3>2, Zenon DEF ServiceReturned, diskVars, diskHistory
      <3>3. CASE ~ InService(p) /\ ~ ServiceReturned(p)
        BY <1>2, <3>3 DEF BlobStep, InsertRow, SetChecksum, DeleteRow, Compare, CreateTemp, FillTemp,
                          RunFn, RemoveTemp, StoreFault, diskVars, diskHistory
      <3> QED BY <3>1, <3>2, <3>3
    <2>2. Changing(q, b) /\ b \in Keys \ overlapped
      BY <1>2, WorkKept, StepFrame DEF TypedInv, BlobType, history
    <2>3. at[q] = "service"
      BY <1>2, StepPlaces, OthersStay DEF TypedInv
    <2> QED BY <2>1, <2>2, <2>3 DEF LoneOK
  <1>3. CASE CallService(p)
    <2>0. BlobStep(p)
      BY <1>3 DEF BlobStep
    <2>1. Changing(q, b) /\ b \in Keys \ overlapped
      BY <2>0, WorkKept, StepFrame DEF TypedInv, BlobType, history
    <2>2. PICK o : \E v, c \in Streams \union {NoSum} : \E upto, l :
             Begin(p, o, cur[p], v, c, 0, upto, l) /\ Calls(p, o, v, c, l)
      BY <1>3, ServiceCalled DEF TypedInv
    <2>3. /\ alone'[p] = \A r \in Procs \ {p} : ~ Mutating(r, cur[p])
          /\ q # p => alone'[q] = (alone[q] /\ ~ (o \in Mutators /\ key[q] = cur[p]))
      BY <2>2 DEF Begin
    <2>4. CASE q = p
      <3>1. cur[p] = b
        BY <2>1, <2>4 DEF Changing
      <3>2. \A r \in Procs \ {p} : ~ Mutating(r, b)
        BY <2>1, <2>4, MutatingChanges DEF SingleOK
      <3> QED BY <2>3, <2>4, <3>1, <3>2
    <2>5. CASE q # p
      <3>1. at[q] = "service" /\ cur[q] = b
        BY <2>1, <2>5, <2>0, OthersStay DEF TypedInv, Changing
      <3>2. alone[q] /\ key[q] = b
        BY <2>1, <3>1 DEF LoneOK, TypedInv, BlobType, FrameOK, FrameAt
      <3>3. o \in Mutators => Changing(p, cur[p])
        <4>1. o \in Mutators => at[p] \in {"uploadBytes", "Delete"}
          BY <2>2 DEF Calls, Mutators
        <4>2. at[p] = "uploadBytes" => frame[p] \in Uploaders
          BY DEF TypedInv, BlobType, FrameOK, FrameAt
        <4>3. at[p] = "Delete" => frame[p] = "Purge"
          BY DEF TypedInv, BlobType, FrameOK, FrameAt
        <4> QED BY <4>1, <4>2, <4>3 DEF Changing, Changers, Creators, Uploaders
      <3>4. ~ (o \in Mutators /\ key[q] = cur[p])
        BY <2>1, <2>5, <3>2, <3>3 DEF SingleOK
      <3> QED BY <2>3, <2>5, <3>2, <3>4
    <2> QED BY <2>4, <2>5
  <1> QED BY <1>1, <1>2, <1>3

\* Its checksum is the one of the content its call was given, and the service gets it.
SumAt(p) == at[p] # "idle" /\ cur[p] \notin overlapped =>
    /\ frame[p] \in {"CreateAndUpload", "BuildAfterUpload"} => checksum[cur[p]] = input[p]
    /\ frame[p] = "Upload" /\ at[p] # "Checksum" => checksum[cur[p]] = input[p]
    /\ frame[p] = "PUT" /\ cur[p] \notin late => checksum[cur[p]] = token[p]
    /\ at[p] = "service" /\ frame[p] \in Uploaders =>
         sum[p] = IF frame[p] = "PUT" THEN token[p] ELSE checksum[cur[p]]

SumOK == \A p \in Procs : SumAt(p)

LEMMA SumCall ==
  ASSUME TypedInv, SumOK, NEW p \in Procs, BlobCall(p)
  PROVE  SumOK'
  <1>0. /\ sum' = sum /\ built \in Nat /\ cur'[p] \in Keys
        /\ late \subseteq late' /\ overlapped \subseteq overlapped'
        /\ at'[p] \in {"InsertBlob", "uploadBytes", "Checksum", "Download", "Delete"}
    BY CallFrame, CallKinds, CallIs DEF diskVars, callVars
  <1>1. ASSUME NEW q \in Procs, q # p PROVE SumAt(q)'
    <2>1. /\ at'[q] = at[q] /\ frame'[q] = frame[q] /\ cur'[q] = cur[q] /\ input'[q] = input[q]
          /\ token'[q] = token[q]
      BY <1>1, OthersStay DEF TypedInv
    <2>2. at[q] # "idle" => checksum'[cur[q]] = checksum[cur[q]]
      <3>1. at[q] # "idle" => cur[q] \in 1 .. built /\ cur[q] \in Keys
        BY KeysFacts DEF TypedInv, BlobType, FrameOK, FrameAt
      <3>2. CASE checksum' = checksum
        BY <3>2
      <3>3. CASE checksum' = [checksum EXCEPT ![built + 1] = input'[p]]
        BY <1>0, <3>1, <3>3 DEF TypedInv, BlobType, TypeOK, SumTypeOK
      <3> QED BY <3>2, <3>3, CallKinds
    <2>3. SumAt(q)
      BY DEF SumOK
    <2> QED BY <1>0, <2>1, <2>2, <2>3 DEF SumAt
  <1>2. SumAt(p)'
    <2>1. Begins(frame'[p], cur'[p], input'[p], token'[p], at'[p])
      BY CallIs
    <2>2. frame'[p] \in Creators => checksum'[cur'[p]] = input'[p]
      <3>1. CASE frame'[p] \in Creators
        <4>1. cur'[p] = built + 1 /\ checksum' = [checksum EXCEPT ![built + 1] = input'[p]]
          BY <3>1, CallKinds DEF Creators, Getters
        <4> QED BY <1>0, <4>1 DEF TypedInv, BlobType, TypeOK, SumTypeOK
      <3> QED BY <3>1
    <2>3. frame'[p] = "Upload" => at'[p] = "Checksum"
      BY <2>1 DEF Begins, Creators, Getters
    <2>4. frame'[p] = "PUT" /\ cur'[p] \notin late' => checksum'[cur'[p]] = token'[p]
      <3>1. CASE frame'[p] = "PUT"
        <4>1. /\ late' = IF token'[p] = checksum[cur'[p]] THEN late ELSE late \union {cur'[p]}
              /\ checksum' = checksum
          BY <2>1, <3>1 DEF Begins, Creators, Getters
        <4> QED BY <4>1
      <3> QED BY <3>1
    <2> QED BY <1>0, <2>2, <2>3, <2>4 DEF SumAt, Creators
  <1> QED BY <1>1, <1>2 DEF SumOK

LEMMA SumStep ==
  ASSUME TypedInv, SingleOK, SumOK, NEW p \in Procs, BlobStep(p)
  PROVE  SumOK'
  <1>0. UNCHANGED <<frame, cur, input, token, late, overlapped>> /\ at[p] # "idle"
    BY StepFrame DEF TypedInv, BlobType, frameVars, history
  <1>1. cur[p] \in Keys
    BY <1>0, KeysFacts DEF TypedInv, BlobType, FrameOK, FrameAt
  <1>2. CASE SetChecksum(p)
    <2>1. /\ at[p] = "Checksum" /\ at'[p] = "uploadBytes" /\ sum' = sum
          /\ checksum' = [checksum EXCEPT ![cur[p]] = input[p]]
      BY <1>2 DEF SetChecksum, NewChecksum, Advance, diskVars, callVars,
                  TypedInv, BlobType, TypeOK, FrameTypeOK
    <2>2. frame[p] = "Upload" /\ Changing(p, cur[p])
      BY <2>1 DEF TypedInv, BlobType, FrameOK, FrameAt, Changing, Changers
    <2>3. checksum'[cur[p]] = input[p] /\ \A b : b # cur[p] /\ b \in Keys => checksum'[b] = checksum[b]
      BY <1>1, <2>1 DEF TypedInv, BlobType, TypeOK, SumTypeOK
    <2>4. ASSUME NEW q \in Procs, q # p PROVE SumAt(q)'
      <3>1. at'[q] = at[q]
        BY <2>4, OthersStay DEF TypedInv
      <3>2. SumAt(q) /\ (at[q] # "idle" => cur[q] \in Keys)
        BY KeysFacts DEF SumOK, TypedInv, BlobType, FrameOK, FrameAt
      <3>3. CASE cur[q] # cur[p]
        BY <1>0, <2>1, <2>3, <3>1, <3>2, <3>3 DEF SumAt
      <3>4. CASE cur[q] = cur[p] /\ cur[q] \notin overlapped
        <4>1. ~ Changing(q, cur[p])
          BY <1>1, <2>2, <2>4, <3>4 DEF SingleOK
        <4> QED BY <1>0, <3>1, <3>4, <4>1 DEF SumAt, Changing, Changers, Creators, Uploaders
      <3> QED BY <1>0, <3>3, <3>4 DEF SumAt
    <2>5. SumAt(p)'
      BY <1>0, <2>1, <2>2, <2>3 DEF SumAt
    <2> QED BY <2>4, <2>5 DEF SumOK
  <1>3. CASE ~ SetChecksum(p)
    <2>1. checksum' = checksum
      BY <1>3, SumsKept DEF sums
    <2>2. ASSUME NEW q \in Procs, q # p PROVE SumAt(q)'
      <3>1. at'[q] = at[q] /\ sum'[q] = sum[q]
        BY <2>2, OthersStay DEF TypedInv
      <3> QED BY <1>0, <2>1, <3>1 DEF SumOK, SumAt
    <2>3. SumAt(p)'
      <3>1. SumAt(p) /\ at[p] # "Checksum"
        BY <1>3, StepPlaces DEF SumOK
      <3>2. CASE CallService(p)
        <4>1. PICK o : \E v, c \in Streams \union {NoSum} : \E upto, l :
                 Begin(p, o, cur[p], v, c, 0, upto, l) /\ Calls(p, o, v, c, l)
          BY <3>2, ServiceCalled DEF TypedInv
        <4>2. PICK v, c \in Streams \union {NoSum} : \E upto, l :
                 Begin(p, o, cur[p], v, c, 0, upto, l) /\ Calls(p, o, v, c, l)
          BY <4>1
        <4>3. sum'[p] = c
          BY <4>2 DEF Begin, TypedInv, ServiceInv, Owners, DiskType, DiskTypeOK, PlaceTypeOK
        <4>4. frame[p] \in Uploaders => at[p] = "uploadBytes"
          BY <4>2 DEF Calls, TypedInv, BlobType, FrameOK, FrameAt, Uploaders, Getters
        <4>5. at[p] = "uploadBytes" => c = PassedChecksum(p)
          BY <4>2 DEF Calls
        <4> QED BY <1>0, <2>1, <3>1, <4>3, <4>4, <4>5 DEF SumAt, PassedChecksum
      <3>3. CASE InService(p)
        <4>1. UNCHANGED <<at, sum>>
          BY <3>3 DEF InService, blobVars, DiskStep, DiskFault, Create, Copy, Close, Cleanup, Remove, Open, Read,
                      callVars
        <4> QED BY <1>0, <2>1, <3>1, <4>1 DEF SumAt
      <3>4. CASE ~ CallService(p) /\ ~ InService(p)
        <4>1. at'[p] # "service" /\ at'[p] # "Checksum"
          BY <3>4, StepPlaces
        <4> QED BY <1>0, <2>1, <3>1, <4>1 DEF SumAt
      <3> QED BY <3>2, <3>3, <3>4
    <2> QED BY <2>2, <2>3 DEF SumOK
  <1> QED BY <1>2, <1>3

-----------------------------------------------------------------------------
(* The object and the checksum of such a blob.                              *)

LoneInv == SingleOK /\ LoneOK /\ SumOK /\ ResultOK

LEMMA LoneInvStep ==
  ASSUME TypedInv, LoneInv, NEW p \in Procs, BlobCall(p) \/ BlobStep(p)
  PROVE  LoneInv'
  BY SingleStep, LoneStep, SumCall, SumStep, ResultStep DEF LoneInv

LEMMA LoneInvariant == Spec => []LoneInv
  <1>1. Init => LoneInv
    BY DEF Init, DiskInit, CallsInit, LoneInv, SingleOK, LoneOK, Changing, SumOK, SumAt, ResultOK, ResultAt
  <1>2. TypedInv /\ LoneInv /\ [Next]_vars => LoneInv'
    <2>1. ASSUME LoneInv, UNCHANGED vars PROVE LoneInv'
      <3> USE DEF vars, diskVars, callVars, handles, diskHistory, blobVars, frameVars, sums, history
      <3>1. SingleOK' /\ LoneOK'
        BY <2>1 DEF LoneInv, SingleOK, LoneOK, Changing
      <3>2. SumOK'
        BY <2>1 DEF LoneInv, SumOK, SumAt
      <3>3. ResultOK'
        BY <2>1 DEF LoneInv, ResultOK, ResultAt, DigestMatches
      <3> QED BY <3>1, <3>2, <3>3 DEF LoneInv
    <2> QED BY <2>1, StepsAre, LoneInvStep
  <1> QED BY <1>1, <1>2, BlobTyped, PTL DEF Spec

\* While nobody changes the blob its object has its checksum; a creation has not
\* stored one before InsertBlob returns, and a purge none left once Delete has.
StoredAt(b) ==
    /\ dir[b] # 0 /\ (\A q \in Procs : ~ Changing(q, b)) => Stored(b) = Whole(checksum[b])
    /\ \A q \in Procs : Changing(q, b) =>
         /\ at[q] = "InsertBlob" => dir[b] = 0
         /\ at[q] = "service" /\ pc[q] = "idle" /\ op[q] = "Delete" => dir[b] = 0
         /\ at[q] = "DeleteBlob" => dir[b] = 0

StoredOK == faults = 0 => \A b \in 1 .. built \ (late \union overlapped) : StoredAt(b)

LEMMA StoredCall ==
  ASSUME TypedInv, RowsOK, StoredOK, NEW p \in Procs, BlobCall(p)
  PROVE  StoredOK'
  <1>0. /\ built \in Nat /\ UNCHANGED <<dir, data, pc, op>> /\ at[p] = "idle"
        /\ late \subseteq late' /\ overlapped \subseteq overlapped'
        /\ at'[p] \in {"InsertBlob", "uploadBytes", "Checksum", "Download", "Delete"}
    BY CallFrame, CallKinds, CallIs DEF diskVars, callVars
  <1>1. ASSUME NEW q \in Procs, q # p PROVE at'[q] = at[q] /\ frame'[q] = frame[q] /\ cur'[q] = cur[q]
    BY <1>1, OthersStay DEF TypedInv
  <1> SUFFICES ASSUME faults' = 0, NEW b \in 1 .. built' \ (late' \union overlapped')
               PROVE  StoredAt(b)'
    BY DEF StoredOK
  <1>2. faults = 0
    BY FaultsGrow
  <1>3. b = built + 1 \/ b \in 1 .. built \ (late \union overlapped)
    BY <1>0, CallKinds
  <1>4. CASE b = built + 1
    <2>1. b \in Keys
      BY <1>0, <1>4, CallKinds
    <2>2. dir[b] = 0
      BY <1>0, <1>4, <2>1 DEF RowsOK
    <2> QED BY <1>0, <2>2 DEF StoredAt
  <1>5. CASE b \in 1 .. built \ (late \union overlapped)
    <2>1. StoredAt(b)
      BY <1>2, <1>5 DEF StoredOK
    <2>2. b \in Keys /\ checksum \in [Keys -> Streams \union {NoSum}]
      BY <1>5, KeysFacts DEF TypedInv, BlobType, TypeOK, SumTypeOK
    <2>3. checksum'[b] = checksum[b]
      BY <1>0, <1>5, <2>2, CallKinds
    <2>4. (\A q \in Procs : ~ Changing(q, b)') => \A q \in Procs : ~ Changing(q, b)
      BY <1>0, <1>1 DEF Changing
    <2>5. dir'[b] # 0 /\ (\A q \in Procs : ~ Changing(q, b)') => Stored(b)' = Whole(checksum'[b])
      BY <1>0, <2>1, <2>3, <2>4 DEF StoredAt, Stored
    <2>6. cur'[p] = b => at'[p] # "InsertBlob"
      BY <1>0, <1>5, CallKinds
    <2>7. ASSUME NEW q \in Procs, Changing(q, b)'
          PROVE  /\ at'[q] = "InsertBlob" => dir'[b] = 0
                 /\ at'[q] = "service" /\ pc'[q] = "idle" /\ op'[q] = "Delete" => dir'[b] = 0
                 /\ at'[q] = "DeleteBlob" => dir'[b] = 0
      <3>1. CASE q = p
        BY <1>0, <2>6, <2>7, <3>1 DEF Changing
      <3>2. CASE q # p
        BY <1>0, <1>1, <2>1, <2>7, <3>2 DEF Changing, StoredAt
      <3> QED BY <3>1, <3>2
    <2>8. Whole(checksum[b])' = Whole(checksum'[b])
      BY DEF Whole
    <2> QED BY <2>5, <2>7, <2>8 DEF StoredAt
  <1> QED BY <1>3, <1>4, <1>5

\* A step of a goroutine that does not change the blob.
LEMMA StoredOther ==
  ASSUME TypedInv, NEW p \in Procs, BlobStep(p), NEW b \in Keys, StoredAt(b), ~ Changing(p, b)
  PROVE  StoredAt(b)'
  <1>1. ~ Mutating(p, b)
    BY MutatingChanges
  <1>2. dir'[b] = dir[b] /\ (dir[b] # 0 => data'[dir[b]] = data[dir[b]])
    <2>1. CASE Quiet
      BY <2>1 DEF Quiet
    <2>2. CASE DiskCall(p) \/ DiskStep(p)
      BY <1>1, <2>2, NotMine DEF TypedInv, ServiceInv
    <2> QED BY <2>1, <2>2, ServiceEffect DEF TypedInv
  <1>3. checksum'[b] = checksum[b]
    <2>1. CASE SetChecksum(p)
      <3>1. frame[p] = "Upload" /\ at[p] = "Checksum"
        BY <2>1 DEF SetChecksum, TypedInv, BlobType, FrameOK, FrameAt
      <3>2. cur[p] # b
        BY <3>1 DEF Changing, Changers
      <3> QED BY <2>1, <3>2 DEF SetChecksum, TypedInv, BlobType, TypeOK, SumTypeOK
    <2>2. CASE ~ SetChecksum(p)
      BY <2>2, SumsKept DEF sums
    <2> QED BY <2>1, <2>2
  <1>4. ASSUME NEW q \in Procs
        PROVE  /\ Changing(q, b)' <=> Changing(q, b)
               /\ q # p => at'[q] = at[q] /\ pc'[q] = pc[q] /\ op'[q] = op[q]
    <2>1. CASE q = p
      BY <2>1, WorkKept
    <2>2. CASE q # p
      BY <2>2, OthersStay DEF TypedInv, Changing
    <2> QED BY <2>1, <2>2
  <1>5. Whole(checksum[b])' = Whole(checksum'[b])
    BY DEF Whole
  <1>6. dir'[b] # 0 /\ (\A q \in Procs : ~ Changing(q, b)') => Stored(b)' = Whole(checksum'[b])
    BY <1>2, <1>3, <1>4 DEF StoredAt, Stored
  <1>7. ASSUME NEW q \in Procs, Changing(q, b)'
        PROVE  /\ at'[q] = "InsertBlob" => dir'[b] = 0
               /\ at'[q] = "service" /\ pc'[q] = "idle" /\ op'[q] = "Delete" => dir'[b] = 0
               /\ at'[q] = "DeleteBlob" => dir'[b] = 0
    <2>1. q # p /\ Changing(q, b)
      BY <1>4, <1>7
    <2> QED BY <1>2, <1>4, <2>1 DEF StoredAt
  <1> QED BY <1>5, <1>6, <1>7 DEF StoredAt

\* What an upload that has returned has stored.
LEMMA UploadedRight ==
  ASSUME TypedInv, RowsOK, LoneInv, faults = 0, NEW p \in Procs,
         Changing(p, cur[p]), cur[p] \in 1 .. built \ (late \union overlapped),
         at[p] = "service", pc[p] = "idle", frame[p] \in Uploaders
  PROVE  dir[cur[p]] # 0 => Stored(cur[p]) = Whole(checksum[cur[p]])
  <1>1. /\ op[p] = "Upload" /\ key[p] = cur[p] /\ stream[p] = input[p] /\ cur[p] \in Keys
    BY KeysFacts DEF TypedInv, BlobType, FrameOK, FrameAt, Uploaders, Getters
  <1>2. alone[p] /\ UploadAt(p) /\ ResultAt(p) /\ SumAt(p)
    BY <1>1 DEF LoneInv, LoneOK, ResultOK, SumOK, TypedInv, ServiceInv, UploadOK
  <1>3. checksum[cur[p]] \in Streams /\ sum[p] = checksum[cur[p]]
    BY <1>2 DEF RowsOK, SumAt, Changing
  <1>4. CASE result[p] = "ok"
    <2>1. dir[cur[p]] # 0 /\ data[dir[cur[p]]] = Whole(stream[p])
      BY <1>1, <1>2, <1>4 DEF UploadAt
    <2>2. sum[p] = stream[p]
      BY <1>1, <1>2, <1>3, <1>4, NoSumAssumption DEF ResultAt, DigestMatches
    <2> QED BY <1>3, <2>1, <2>2 DEF Stored
  <1>5. CASE result[p] = "err"
    BY <1>1, <1>2, <1>5 DEF UploadAt, ResultAt
  <1>6. result[p] \in {"ok", "err"}
    BY <1>1, <1>2 DEF ResultAt, TypedInv, ServiceInv, Owners, DiskType, DiskTypeOK, PlaceTypeOK
  <1> QED BY <1>4, <1>5, <1>6

\* A step of the goroutine that changes the blob.
LEMMA StoredOwn ==
  ASSUME TypedInv, RowsOK, LoneInv, NEW p \in Procs, BlobStep(p), faults' = 0,
         cur[p] \in 1 .. built \ (late \union overlapped), StoredAt(cur[p]), Changing(p, cur[p])
  PROVE  StoredAt(cur[p])'
  <1> DEFINE b == cur[p]
  <1>0. /\ b \in Keys /\ UNCHANGED <<cur, frame>> /\ faults = 0 /\ at[p] # "idle"
        /\ b \in Keys \ overlapped /\ frame[p] \in Changers
    BY StepFrame, FaultsGrow, KeysFacts DEF TypedInv, BlobType, frameVars, Changing
  <1>1. at[p] # "service" => dir'[b] = dir[b]
    BY <1>0, DirKept
  <1>2. frame[p] # "Open" /\ frame[p] # "Download"
    BY <1>0 DEF Changers, Creators
  <1>3. ASSUME \A q \in Procs : ~ Changing(q, b)', dir'[b] # 0
        PROVE  Stored(b)' = Whole(checksum'[b])
    <2>1. at'[p] = "idle"
      BY <1>0, <1>3 DEF Changing
    <2>2. CASE ServiceReturned(p)
      <3>1. /\ at[p] = "service" /\ pc[p] = "idle" /\ UNCHANGED <<dir, data, checksum>>
            /\ result[p] = "ok" /\ frame[p] = "Purge" => Advance(p, "DeleteBlob")
        BY <1>2, <2>2, Zenon DEF ServiceReturned, diskVars, sums
      <3>2. frame[p] # "Purge"
        <4>1. SUFFICES ASSUME frame[p] = "Purge" PROVE FALSE
          OBVIOUS
        <4>2. op[p] = "Delete"
          BY <3>1, <4>1 DEF TypedInv, BlobType, FrameOK, FrameAt, Uploaders, Getters
        <4>3. result[p] = "ok"
          BY <1>0, <3>1, <4>2 DEF LoneInv, ResultOK, ResultAt, TypedInv, ServiceInv, Owners, DiskType,
                                  DiskTypeOK, PlaceTypeOK
        <4>4. Advance(p, "DeleteBlob")
          BY <3>1, <4>1, <4>3
        <4> QED BY <2>1, <4>4 DEF Advance, TypedInv, BlobType, TypeOK, FrameTypeOK
      <3>3. frame[p] \in Uploaders
        BY <1>2, <3>1, <3>2 DEF TypedInv, BlobType, FrameOK, FrameAt, Getters
      <3>4. Stored(b) = Whole(checksum[b])
        BY <1>0, <1>3, <3>1, <3>3, UploadedRight
      <3> QED BY <1>0, <3>1, <3>4 DEF Stored
    <2>3. CASE ~ ServiceReturned(p)
      <3>1. at[p] \in {"InsertBlob", "DeleteBlob"}
        <4>1. at[p] \in {"compare", "CreateTemp", "FillTemp", "fn", "Remove"} => frame[p] = "Open"
          BY DEF TypedInv, BlobType, FrameOK, FrameAt
        <4> QED BY <1>2, <2>1, <2>3, <4>1, StepPlaces
      <3>2. dir[b] = 0
        BY <3>1 DEF StoredAt
      <3> QED BY <1>1, <1>3, <3>1, <3>2
    <2> QED BY <2>2, <2>3
  <1>4. ASSUME NEW q \in Procs, Changing(q, b)' PROVE q = p
    <2>1. Changing(q, b)
      BY <1>4, WorkKept
    <2> QED BY <1>0, <2>1 DEF LoneInv, SingleOK
  <1>5. at'[p] # "InsertBlob"
    BY StepPlaces
  <1>6. ASSUME frame[p] = "Purge",
               \/ at'[p] = "DeleteBlob"
               \/ at'[p] = "service" /\ pc'[p] = "idle" /\ op'[p] = "Delete"
        PROVE  dir'[b] = 0
    <2>1. at[p] = "service" /\ pc[p] = "idle" /\ result[p] = "ok" => dir[b] = 0
      <3>1. at[p] = "service" => op[p] = "Delete"
        BY <1>6 DEF TypedInv, BlobType, FrameOK, FrameAt, Uploaders, Getters
      <3> QED BY <3>1 DEF StoredAt
    <2>2. pc'[p] = "idle" /\ op'[p] = "Delete" => result'[p] = "ok"
      <3>1. ResultAt(p)' /\ result'[p] \in {"none", "ok", "err"}
        BY LoneInvStep, TypedStep DEF LoneInv, ResultOK, TypedInv, ServiceInv, Owners, DiskType, DiskTypeOK, PlaceTypeOK
      <3> QED BY <3>1 DEF ResultAt
    <2> QED BY <1>6, <2>1, <2>2, PurgeRemoves
  <1>7. ASSUME \/ at'[p] = "DeleteBlob"
               \/ at'[p] = "service" /\ pc'[p] = "idle" /\ op'[p] = "Delete"
        PROVE  frame[p] = "Purge"
    <2>1. (FrameAt(p))'
      BY TypedStep DEF TypedInv, BlobType, FrameOK
    <2> QED BY <1>0, <1>7, <2>1 DEF FrameAt
  <1>8. b' = b /\ Whole(checksum[b])' = Whole(checksum'[b])
    BY <1>0 DEF Whole
  <1>9. /\ dir'[b] # 0 /\ (\A q \in Procs : ~ Changing(q, b)') => Stored(b)' = Whole(checksum'[b])
        /\ \A q \in Procs : Changing(q, b)' =>
             /\ at'[q] = "InsertBlob" => dir'[b] = 0
             /\ at'[q] = "service" /\ pc'[q] = "idle" /\ op'[q] = "Delete" => dir'[b] = 0
             /\ at'[q] = "DeleteBlob" => dir'[b] = 0
    BY <1>3, <1>4, <1>5, <1>6, <1>7
  <1> QED BY <1>0, <1>8, <1>9 DEF StoredAt, Changing, Stored, Whole

LEMMA StoredStep ==
  ASSUME TypedInv, RowsOK, LoneInv, StoredOK, NEW p \in Procs, BlobStep(p)
  PROVE  StoredOK'
  <1>0. UNCHANGED <<built, late, overlapped>> /\ 1 .. built \subseteq Keys
    BY StepFrame, KeysFacts DEF TypedInv, BlobType, history
  <1> SUFFICES ASSUME faults' = 0, NEW b \in 1 .. built \ (late \union overlapped)
               PROVE  StoredAt(b)'
    BY <1>0 DEF StoredOK
  <1>1. b \in Keys /\ StoredAt(b)
    BY <1>0, FaultsGrow DEF StoredOK
  <1>2. CASE Changing(p, b)
    <2>1. b = cur[p]
      BY <1>2 DEF Changing
    <2>2. StoredAt(cur[p])' /\ cur' = cur
      BY <1>1, <1>2, <2>1, StoredOwn, StepFrame DEF TypedInv, BlobType, frameVars
    <2> QED BY <2>1, <2>2 DEF StoredAt, Changing, Stored, Whole
  <1>3. CASE ~ Changing(p, b)
    BY <1>1, <1>3, StoredOther
  <1> QED BY <1>2, <1>3

LEMMA StoredInvariant == Spec => []StoredOK
  <1>1. Init => StoredOK
    <2>1. Init => 1 .. built = {}
      BY DEF Init
    <2> QED BY <2>1 DEF StoredOK
  <1>2. TypedInv /\ RowsOK /\ LoneInv /\ StoredOK /\ [Next]_vars => StoredOK'
    <2>1. ASSUME StoredOK, UNCHANGED vars PROVE StoredOK'
      BY <2>1 DEF StoredOK, StoredAt, Stored, Whole, Changing, vars, diskVars, callVars, blobVars, frameVars,
                  sums, history
    <2> QED BY <2>1, StepsAre, StoredCall, StoredStep
  <1> QED BY <1>1, <1>2, BlobTyped, RowInvariant, LoneInvariant, PTL DEF Spec

\* With no failing call, and though any number of goroutines create, upload, open
\* and purge blobs, the object of a blob nobody is changing has the blob's checksum:
\* unless two of them changed it at a time, or the client of a direct upload came
\* with a token from before the blob was uploaded anew.
THEOREM ChecksumIsOfObject == Spec => []StoredMatchesChecksum
  <1>1. TypedInv /\ StoredOK => StoredMatchesChecksum
    <2> SUFFICES ASSUME TypedInv, StoredOK, faults = 0, NEW b \in handed \ (late \union overlapped),
                        dir[b] # 0, \A q \in Procs : ~ Changing(q, b)
                 PROVE  Stored(b) = Whole(checksum[b])
      BY DEF StoredMatchesChecksum
    <2>1. b \in 1 .. built \ (late \union overlapped)
      BY DEF TypedInv, BlobType, TypeOK, RowTypeOK
    <2> QED BY <2>1 DEF StoredOK, StoredAt
  <1> QED BY <1>1, BlobTyped, StoredInvariant, PTL

-----------------------------------------------------------------------------
(* Uploading is not taken for a corruption.                                 *)

\* uploadBytes gives the service a bytes.Reader, and that does not fail.
LEMMA UploadNotRefused ==
  ASSUME ~ ReaderFails, TypedInv, LoneInv, UploadSucceeds, NEW p \in Procs, BlobCall(p) \/ BlobStep(p)
  PROVE  UploadSucceeds'
  <1> SUFFICES ASSUME faults' = 0, NEW q \in Procs,
                      frame'[q] \in {"CreateAndUpload", "BuildAfterUpload", "Upload"}, cur'[q] \notin overlapped',
                      outcome'[q] = "err"
               PROVE  FALSE
    BY DEF UploadSucceeds
  <1>0. faults = 0 /\ ~ CountFault
    BY FaultsGrow
  <1>1. overlapped \subseteq overlapped'
    BY CallIs, StepFrame DEF TypedInv, BlobType, history
  <1>2. CASE q # p
    BY <1>0, <1>1, <1>2, OthersStay DEF UploadSucceeds, TypedInv
  <1>3. CASE q = p /\ BlobCall(p)
    BY <1>3, CallIs
  <1>4. CASE q = p /\ BlobStep(p)
    <2>1. UNCHANGED <<frame, cur, overlapped>> /\ at[p] # "idle"
      BY <1>4, StepFrame DEF TypedInv, BlobType, frameVars, history
    <2>2. outcome[p] # "err"
      BY <1>0, <1>4, <2>1 DEF UploadSucceeds
    <2>3. outcome \in [Procs -> {"none", "ok", "err"}]
      BY DEF TypedInv, BlobType, TypeOK, FrameTypeOK
    <2>4. at[p] \in {"DeleteBlob", "compare", "CreateTemp", "FillTemp", "fn", "Remove"} =>
            frame[p] \in {"Open", "Purge"}
      BY DEF TypedInv, BlobType, FrameOK, FrameAt
    <2>5. CASE ServiceReturned(p)
      <3>1. at[p] = "service" /\ pc[p] = "idle" /\ result[p] = "err"
        <4>1. /\ at[p] = "service" /\ pc[p] = "idle"
              /\ result[p] # "err" => Finish(p, "ok") \/ UNCHANGED outcome
          BY <2>5, Zenon DEF ServiceReturned, Advance
        <4>2. ~ Finish(p, "ok") /\ outcome' # outcome
          BY <1>4, <2>2, <2>3 DEF Finish
        <4> QED BY <4>1, <4>2
      <3>2. op[p] = "Upload" /\ stream[p] = input[p] /\ frame[p] \in Uploaders
        BY <1>4, <2>1, <3>1 DEF TypedInv, BlobType, FrameOK, FrameAt, Uploaders, Getters
      <3>3. sum[p] = input[p]
        BY <1>4, <2>1, <3>1, <3>2 DEF LoneInv, SumOK, SumAt
      <3>4. ~ DigestMatches(p)
        BY <1>0, <3>1, <3>2 DEF LoneInv, ResultOK, ResultAt
      <3> QED BY <3>2, <3>3, <3>4 DEF DigestMatches
    <2>6. CASE ~ ServiceReturned(p)
      <3>1. at[p] \notin {"DeleteBlob", "compare", "CreateTemp", "FillTemp", "fn", "Remove"}
        BY <1>4, <2>1, <2>4
      <3>2. InsertRow(p) \/ SetChecksum(p) \/ CallService(p) \/ InService(p)
        BY <1>4, <2>6, <3>1, StepPlaces
      <3>3. outcome' = outcome \/ Finish(p, "ok")
        BY <1>0, <3>2 DEF InsertRow, StoreFault, SetChecksum, CallService, InService, Advance, blobVars
      <3> QED BY <1>4, <2>2, <2>3, <3>3 DEF Finish
    <2> QED BY <2>5, <2>6
  <1> QED BY <1>2, <1>3, <1>4

\* Uploading to a blob that no two calls have changed at a time succeeds when no call
\* fails: the shared Checksum read by uploadBytes is the one of the bytes it sends.
THEOREM UploadIsAccepted ==
  ASSUME ~ ReaderFails
  PROVE  Spec => []UploadSucceeds
  <1>1. Init => UploadSucceeds
    BY DEF Init, UploadSucceeds
  <1>2. TypedInv /\ LoneInv /\ UploadSucceeds /\ [Next]_vars => UploadSucceeds'
    <2>1. ASSUME UploadSucceeds, UNCHANGED vars PROVE UploadSucceeds'
      BY <2>1 DEF UploadSucceeds, vars, diskVars, blobVars, frameVars, history
    <2> QED BY <2>1, StepsAre, UploadNotRefused
  <1> QED BY <1>1, <1>2, BlobTyped, LoneInvariant, PTL DEF Spec
=============================================================================
