------------------------------- MODULE DiskProofs -------------------------------
(***************************************************************************)
(* The disk service under any number of goroutines, keys and contents of   *)
(* any length, calls and failing system calls.                             *)
(*                                                                         *)
(* A path is shared, an inode is not: whatever happens to the directory, a *)
(* handle and an entry that name the same inode belong to the same key.    *)
(* So the file of a key is written only by the uploads of that key, and an  *)
(* upload that is alone finds at every step what its last step left.       *)
(***************************************************************************)
EXTENDS DiskService, SequenceTheorems, TLAPS

Chunks == Streams \union {Hole}

\* How the calls begin: o on key k, of stream v, from system call l.
Opens(p, o, k, v, from, upto, l) ==
    \/ o = "Upload" /\ v \in Streams /\ from = 0 /\ upto = Length[v] /\ l = "create"
    \/ o = "Delete" /\ v = NoSum /\ from = 0 /\ upto = 0 /\ l = "remove"
    \/ o = "Download" /\ v = NoSum /\ from = 0 /\ upto = 0 /\ l = "open"
    \/ o = "DownloadChunk" /\ v = NoSum /\ from \in Nat /\ upto \in Nat /\ l = "open"

\* Goroutine p begins a call of the Service interface.
DiskCall(p) == \E o : \E k \in Keys, v, c \in Streams \union {NoSum} : \E from, upto, l :
    Begin(p, o, k, v, c, from, upto, l) /\ Opens(p, o, k, v, from, upto, l)

-----------------------------------------------------------------------------
(* Files.                                                                   *)

LEMMA PutAtType ==
  ASSUME NEW file \in Seq(Chunks), NEW o \in Nat, NEW c \in Chunks
  PROVE  PutAt(file, o, c) \in Seq(Chunks)
  <1> DEFINE n == IF o < Len(file) THEN Len(file) ELSE o + 1
  <1>1. n \in Nat
    OBVIOUS
  <1>2. ASSUME NEW i \in 1 .. n PROVE PutAt(file, o, c)[i] \in Chunks
    <2>1. CASE i = o + 1
      <3>1. PutAt(file, o, c)[i] = c
        BY <2>1, Zenon DEF PutAt
      <3> QED BY <3>1
    <2>2. CASE i # o + 1 /\ i <= Len(file)
      <3>1. PutAt(file, o, c)[i] = file[i]
        BY <2>2, Zenon DEF PutAt
      <3> QED BY <2>2, <3>1
    <2>3. CASE i # o + 1 /\ ~ i <= Len(file)
      <3>1. PutAt(file, o, c)[i] = Hole
        BY <2>3, Zenon DEF PutAt
      <3> QED BY <3>1 DEF Chunks
    <2> QED BY <2>1, <2>2, <2>3
  <1>3. PutAt(file, o, c) \in [1 .. n -> Chunks]
    <2> DEFINE f == PutAt(file, o, c)
    <2>1. f = [i \in 1 .. n |-> f[i]]
      BY Zenon DEF PutAt
    <2> HIDE DEF f, n
    <2> QED BY <1>2, <2>1 DEF f
  <1> QED BY <1>1, <1>3, SeqDef

LEMMA ZeroIn == \A n \in Nat : 0 \in 0 .. n
  OBVIOUS

LEMMA EmptyFile == <<>> \in Seq(Chunks)
  OBVIOUS

\* A chunk of a file of some inode is replaced, or a new inode appended.
LEMMA FileChanged ==
  ASSUME NEW files \in Seq(Seq(Chunks)), NEW i \in 1 .. Len(files), NEW f \in Seq(Chunks)
  PROVE  /\ [files EXCEPT ![i] = f] \in Seq(Seq(Chunks))
         /\ Len([files EXCEPT ![i] = f]) = Len(files)
  OBVIOUS

LEMMA FileAdded ==
  ASSUME NEW files \in Seq(Seq(Chunks))
  PROVE  /\ Append(files, <<>>) \in Seq(Seq(Chunks))
         /\ Len(Append(files, <<>>)) = Len(files) + 1
  BY EmptyFile

-----------------------------------------------------------------------------
(* What a step does to the files.                                           *)

FilesKept == UNCHANGED <<dir, data>>

Truncated(p) ==
    /\ pc[p] = "create" /\ dir[key[p]] # 0
    /\ data' = [data EXCEPT ![dir[key[p]]] = <<>>] /\ UNCHANGED dir
    /\ fd' = [fd EXCEPT ![p] = dir[key[p]]]

Created(p) ==
    /\ pc[p] = "create" /\ dir[key[p]] = 0
    /\ data' = Append(data, <<>>)
    /\ dir' = [dir EXCEPT ![key[p]] = Len(data')]
    /\ fd' = [fd EXCEPT ![p] = Len(data')]

Written(p) ==
    /\ pc[p] = "copy" /\ off[p] < limit[p]
    /\ data' = [data EXCEPT ![fd[p]] = PutAt(@, off[p], stream[p])]
    /\ UNCHANGED <<dir, fd>>

Removed(p) ==
    /\ pc[p] \in {"cleanup", "remove"}
    /\ dir' = [dir EXCEPT ![key[p]] = 0]
    /\ UNCHANGED <<data, fd>>

LEMMA CreateEffect ==
  ASSUME DiskTypeOK, NEW p \in Procs, Create(p), ~ DiskFault(p)
  PROVE  Truncated(p) \/ Created(p)
  <1>1. pc[p] = "create" /\ OpenForWrite(key[p]) /\ fd' = [fd EXCEPT ![p] = dir'[key[p]]]
    BY DEF Create
  <1>2. CASE dir[key[p]] # 0
    BY <1>1, <1>2 DEF OpenForWrite, Truncated
  <1>3. CASE dir[key[p]] = 0
    <2>1. dir'[key[p]] = Len(data')
      BY <1>1, <1>3 DEF OpenForWrite, DiskTypeOK, FileTypeOK, PlaceTypeOK
    <2> QED BY <1>1, <1>3, <2>1 DEF OpenForWrite, Created
  <1> QED BY <1>2, <1>3

LEMMA FileEffect ==
  ASSUME DiskTypeOK, NEW p \in Procs, DiskCall(p) \/ DiskStep(p)
  PROVE  FilesKept \/ Truncated(p) \/ Created(p) \/ Written(p) \/ Removed(p)
  <1>1. CASE DiskCall(p)
    BY <1>1 DEF DiskCall, Begin, FilesKept
  <1>2. CASE DiskFault(p)
    BY <1>2 DEF DiskFault, FilesKept
  <1>3. CASE Create(p) /\ ~ DiskFault(p)
    BY <1>3, CreateEffect
  <1>4. CASE Copy(p)
    BY <1>4 DEF Copy, FilesKept, Written
  <1>5. CASE Close(p) \/ Cleanup(p)
    BY <1>5 DEF Close, Cleanup, FilesKept, Removed, handles
  <1>6. CASE (Remove(p) \/ Open(p) \/ Read(p)) /\ ~ DiskFault(p)
    BY <1>6 DEF Remove, Open, Read, FilesKept, Removed, handles
  <1> QED BY <1>1, <1>2, <1>3, <1>4, <1>5, <1>6 DEF DiskStep

LEMMA TypeFacts ==
  ASSUME DiskTypeOK, NEW p \in Procs
  PROVE  /\ Len(data) \in Nat /\ key[p] \in Keys
         /\ dir[key[p]] \in 0 .. Len(data) /\ fd[p] \in 0 .. Len(data)
         /\ off[p] \in Nat /\ limit[p] \in Nat
         /\ pc[p] \in {"copy", "close", "read"} => fd[p] \in 1 .. Len(data)
  <1>1. Len(data) \in Nat /\ key[p] \in Keys /\ off[p] \in Nat /\ limit[p] \in Nat
    BY DEF DiskTypeOK, FileTypeOK, PlaceTypeOK, HandleTypeOK
  <1>2. dir[key[p]] \in 0 .. Len(data) /\ fd[p] \in 0 .. Len(data)
    BY <1>1 DEF DiskTypeOK, FileTypeOK, HandleTypeOK
  <1>3. pc[p] \in {"copy", "close", "read"} => fd[p] # 0
    BY DEF DiskTypeOK, HandleTypeOK
  <1>4. fd[p] # 0 => fd[p] \in 1 .. Len(data)
    BY <1>1, <1>2
  <1> QED BY <1>1, <1>2, <1>3, <1>4

\* Files only get more, and stay files.
LEMMA FilesGrow ==
  ASSUME DiskTypeOK, NEW p \in Procs, DiskCall(p) \/ DiskStep(p), pc[p] = "copy" => stream[p] \in Streams
  PROVE  /\ data' \in Seq(Seq(Chunks)) /\ Len(data) <= Len(data')
         /\ dir' \in [Keys -> 0 .. Len(data')]
         /\ Truncated(p) \/ Created(p) => fd' \in [Procs -> 0 .. Len(data')] /\ fd'[p] # 0
  <1>0. /\ data \in Seq(Seq(Chunks)) /\ dir \in [Keys -> 0 .. Len(data)]
        /\ fd \in [Procs -> 0 .. Len(data)] /\ Len(data) \in Nat
    BY DEF DiskTypeOK, FileTypeOK, HandleTypeOK, Chunks
  <1> DEFINE Grown == /\ data' \in Seq(Seq(Chunks)) /\ Len(data) <= Len(data')
                      /\ dir' \in [Keys -> 0 .. Len(data')]
  <1>1. CASE FilesKept /\ ~ Truncated(p) /\ ~ Created(p)
    BY <1>0, <1>1 DEF FilesKept
  <1>2. CASE Truncated(p)
    <2>1. dir[key[p]] \in 1 .. Len(data)
      BY <1>0, <1>2, TypeFacts DEF Truncated
    <2>2. data' \in Seq(Seq(Chunks)) /\ Len(data') = Len(data)
      BY <1>0, <1>2, <2>1, EmptyFile, FileChanged DEF Truncated
    <2>3. Grown
      BY <1>0, <1>2, <2>2 DEF Truncated
    <2>4. fd' \in [Procs -> 0 .. Len(data')] /\ fd'[p] # 0
      BY <1>0, <1>2, <2>1, <2>2 DEF Truncated
    <2> QED BY <1>2, <2>3, <2>4
  <1>3. CASE Created(p)
    <2>1. data' \in Seq(Seq(Chunks)) /\ Len(data') = Len(data) + 1
      BY <1>0, <1>3, FileAdded DEF Created
    <2>2. 0 .. Len(data) \subseteq 0 .. Len(data') /\ Len(data') \in 0 .. Len(data') /\ Len(data') # 0
      BY <1>0, <2>1
    <2>3. dir' \in [Keys -> 0 .. Len(data')] /\ fd' \in [Procs -> 0 .. Len(data')] /\ fd'[p] # 0
      BY <1>0, <1>3, <2>2 DEF Created
    <2> QED BY <1>0, <1>3, <2>1, <2>3
  <1>4. CASE Written(p)
    <2>1. fd[p] \in 1 .. Len(data) /\ off[p] \in Nat /\ stream[p] \in Chunks
      BY <1>4, TypeFacts DEF Written, Chunks
    <2>2. data[fd[p]] \in Seq(Chunks)
      BY <1>0, <2>1
    <2>3. PutAt(data[fd[p]], off[p], stream[p]) \in Seq(Chunks)
      BY <2>1, <2>2, PutAtType
    <2>4. data' \in Seq(Seq(Chunks)) /\ Len(data') = Len(data)
      BY <1>0, <1>4, <2>1, <2>3, FileChanged DEF Written
    <2> QED BY <1>0, <1>4, <2>4 DEF Written, Truncated, Created
  <1>5. CASE Removed(p)
    <2>1. 0 \in 0 .. Len(data)
      BY <1>0, ZeroIn, Zenon
    <2>2. dir' \in [Keys -> 0 .. Len(data)] /\ data' = data
      BY <1>0, <1>5, <2>1 DEF Removed
    <2>3. Len(data) <= Len(data)
      BY <1>0
    <2> QED BY <1>0, <1>5, <2>2, <2>3, Zenon DEF Removed, Truncated, Created
  <1> QED BY <1>1, <1>2, <1>3, <1>4, <1>5, FileEffect

-----------------------------------------------------------------------------
(* What a step does to the calls.                                           *)

\* Which call is at which system call, and what an upload has to write.
PlaceAt(p) ==
    /\ pc[p] \in {"create", "copy", "close", "cleanup"} => op[p] = "Upload"
    /\ pc[p] = "remove" => op[p] = "Delete"
    /\ pc[p] \in {"open", "read"} => op[p] \in {"Download", "DownloadChunk"}
    /\ op[p] = "Upload" => stream[p] \in Streams /\ limit[p] = Length[stream[p]]
    /\ pc[p] = "create" => fd[p] = 0 /\ off[p] = 0
    /\ pc[p] \in {"copy", "close", "cleanup"} => fd[p] # 0
    /\ pc[p] # "idle" => result[p] = "none"

PlaceOK == \A p \in Procs : PlaceAt(p)

DiskType == DiskTypeOK /\ PlaceOK

\* A step is of one goroutine: the others keep their locals, and only lose history.
LEMMA OthersKept ==
  ASSUME DiskTypeOK, NEW p \in Procs, DiskCall(p) \/ DiskStep(p), NEW q \in Procs, q # p
  PROVE  /\ pc'[q] = pc[q] /\ op'[q] = op[q] /\ key'[q] = key[q] /\ stream'[q] = stream[q]
         /\ sum'[q] = sum[q] /\ fd'[q] = fd[q] /\ off'[q] = off[q] /\ limit'[q] = limit[q]
         /\ got'[q] = got[q]
         /\ result'[q] = result[q] /\ leftover'[q] = leftover[q]
         /\ expect'[q] = expect[q] \/ expect'[q] = {}
         /\ alone'[q] => alone[q]
  <1> USE DEF DiskTypeOK, PlaceTypeOK, HandleTypeOK, HistoryTypeOK
  <1>1. CASE DiskCall(p)
    <2>1. PICK o : \E k \in Keys, v, c \in Streams \union {NoSum} : \E from, upto, l :
             Begin(p, o, k, v, c, from, upto, l)
      BY <1>1 DEF DiskCall
    <2>2. PICK k \in Keys, v, c \in Streams \union {NoSum} : \E from, upto, l :
             Begin(p, o, k, v, c, from, upto, l)
      BY <2>1
    <2> QED BY <2>2 DEF Begin
  <1>2. CASE DiskFault(p)
    BY <1>2 DEF DiskFault, Return, callVars, handles, diskHistory
  <1>3. CASE Create(p)
    BY <1>2, <1>3 DEF Create, Goto, callVars
  <1>4. CASE Copy(p)
    BY <1>4 DEF Copy, Goto, callVars, handles, diskHistory
  <1>5. CASE Close(p) \/ Cleanup(p)
    BY <1>5 DEF Close, Cleanup, Goto, Return, callVars, handles, diskHistory
  <1>6. CASE Remove(p) \/ Open(p) \/ Read(p)
    BY <1>2, <1>6 DEF Remove, Open, Read, Goto, Return, callVars, handles, diskHistory
  <1> QED BY <1>1, <1>3, <1>4, <1>5, <1>6 DEF DiskStep

-----------------------------------------------------------------------------
(* Types.                                                                   *)

LEMMA InitType ==
  ASSUME CallsInit, data \in Seq(Seq(Chunks)), dir \in [Keys -> 0 .. Len(data)]
  PROVE  DiskType
  <1> USE DEF CallsInit
  <1>1. FileTypeOK
    BY DiskBoundsAssumption DEF FileTypeOK, Chunks
  <1>2. PlaceTypeOK
    BY DEF PlaceTypeOK, DiskLabels
  <1>3. HandleTypeOK
    <2>1. 0 \in 0 .. Len(data) /\ 0 \in Nat
      BY ZeroIn
    <2> QED BY <2>1, EmptyFile DEF HandleTypeOK, Chunks
  <1>4. HistoryTypeOK
    BY DEF HistoryTypeOK
  <1>5. PlaceOK
    BY DEF PlaceOK, PlaceAt
  <1> QED BY <1>1, <1>2, <1>3, <1>4, <1>5 DEF DiskType, DiskTypeOK

LEMMA FileTypeStep ==
  ASSUME DiskType, NEW p \in Procs, DiskCall(p) \/ DiskStep(p)
  PROVE  FileTypeOK'
  <1>1. pc[p] = "copy" => stream[p] \in Streams
    BY DEF DiskType, PlaceOK, PlaceAt
  <1>2. data' \in Seq(Seq(Chunks)) /\ dir' \in [Keys -> 0 .. Len(data')]
    BY <1>1, FilesGrow DEF DiskType
  <1>3. calls' \in 0 .. MaxCalls /\ faults' \in 0 .. MaxFaults
    <2>1. calls \in 0 .. MaxCalls /\ faults \in 0 .. MaxFaults
      BY DEF DiskType, DiskTypeOK, FileTypeOK
    <2>2. CASE DiskCall(p)
      <3>1. PICK o : \E k \in Keys, v, c \in Streams \union {NoSum} : \E from, upto, l :
               Begin(p, o, k, v, c, from, upto, l)
        BY <2>2 DEF DiskCall
      <3>2. calls < MaxCalls /\ calls' = calls + 1 /\ faults' = faults
        BY <3>1 DEF Begin
      <3> QED BY <2>1, <3>2, DiskBoundsAssumption
    <2>3. CASE DiskStep(p)
      <3>1. calls' = calls /\ (faults' = faults \/ CountFault)
        BY <2>3 DEF DiskStep, DiskFault, Create, Copy, Close, Cleanup, Remove, Open, Read
      <3> QED BY <2>1, <3>1, DiskBoundsAssumption DEF CountFault
    <2> QED BY <2>2, <2>3
  <1> QED BY <1>2, <1>3 DEF FileTypeOK, Chunks

LEMMA PlaceTypeStep ==
  ASSUME DiskType, NEW p \in Procs, DiskCall(p) \/ DiskStep(p)
  PROVE  PlaceTypeOK'
  <1> USE DEF DiskType, DiskTypeOK, PlaceTypeOK, DiskLabels
  <1>1. CASE DiskCall(p)
    <2>1. PICK o : \E k \in Keys, v, c \in Streams \union {NoSum} : \E from, upto, l :
             Begin(p, o, k, v, c, from, upto, l) /\ Opens(p, o, k, v, from, upto, l)
      BY <1>1 DEF DiskCall
    <2>2. PICK k \in Keys, v, c \in Streams \union {NoSum} : \E from, upto, l :
             Begin(p, o, k, v, c, from, upto, l) /\ Opens(p, o, k, v, from, upto, l)
      BY <2>1
    <2> QED BY <2>2 DEF Begin, Opens
  <1>2. CASE DiskStep(p)
    <2>1. /\ UNCHANGED callVars
          /\ \E l \in DiskLabels : pc' = [pc EXCEPT ![p] = l]
          /\ result' = result \/ \E r \in {"ok", "err"} : result' = [result EXCEPT ![p] = r]
      <3>1. CASE DiskFault(p)
        BY <3>1 DEF DiskFault, Return
      <3>2. CASE Create(p)
        BY <3>1, <3>2 DEF Create, Goto
      <3>3. CASE Copy(p)
        BY <3>3 DEF Copy, Goto
      <3>4. CASE Close(p) \/ Cleanup(p)
        BY <3>4 DEF Close, Cleanup, Goto, Return
      <3>5. CASE Remove(p) \/ Open(p)
        BY <3>1, <3>5 DEF Remove, Open, Goto, Return
      <3>6. CASE Read(p)
        BY <3>1, <3>6 DEF Read, Goto, Return
      <3> QED BY <1>2, <3>2, <3>3, <3>4, <3>5, <3>6 DEF DiskStep
    <2> QED BY <2>1 DEF callVars
  <1> QED BY <1>1, <1>2

\* The handle of the goroutine that takes the step.
LEMMA OwnHandle ==
  ASSUME DiskType, NEW p \in Procs, DiskCall(p) \/ DiskStep(p)
  PROVE  /\ \/ fd' = fd \/ fd' = [fd EXCEPT ![p] = 0]
            \/ fd' = [fd EXCEPT ![p] = dir[key[p]]]
            \/ Truncated(p) \/ Created(p)
         /\ pc'[p] \in {"copy", "close", "read"} => fd'[p] # 0
  <1> USE DEF DiskType, DiskTypeOK, PlaceTypeOK, HandleTypeOK
  <1>0. Truncated(p) \/ Created(p) => fd'[p] # 0
    BY FilesGrow DEF PlaceOK, PlaceAt
  <1>1. CASE DiskCall(p)
    <2>1. PICK o : \E k \in Keys, v, c \in Streams \union {NoSum} : \E from, upto, l :
             Begin(p, o, k, v, c, from, upto, l) /\ Opens(p, o, k, v, from, upto, l)
      BY <1>1 DEF DiskCall
    <2>2. fd' = [fd EXCEPT ![p] = 0] /\ pc'[p] \notin {"copy", "close", "read"}
      BY <2>1 DEF Begin, Opens
    <2> QED BY <2>2
  <1>2. CASE DiskFault(p)
    BY <1>2 DEF DiskFault, Return, handles
  <1>3. CASE Create(p) /\ ~ DiskFault(p)
    BY <1>0, <1>3, CreateEffect
  <1>4. CASE Copy(p)
    BY <1>4 DEF Copy, Goto, handles
  <1>5. CASE Close(p) \/ Cleanup(p)
    BY <1>5 DEF Close, Cleanup, Goto, Return, handles
  <1>6. CASE Open(p)
    BY <1>2, <1>6 DEF Open, Goto, Return, handles
  <1>7. CASE Remove(p) \/ Read(p)
    BY <1>2, <1>7 DEF Remove, Read, Return, handles
  <1> QED BY <1>1, <1>2, <1>3, <1>4, <1>5, <1>6, <1>7 DEF DiskStep

\* What is read is in the file.
LEMMA ChunkRead ==
  ASSUME NEW file \in Seq(Chunks), NEW o \in Nat, ~ o >= Len(file)
  PROVE  file[o + 1] \in Chunks
  OBVIOUS

\* The offset, the limit and the chunks read of the goroutine that takes the step.
LEMMA OwnOffset ==
  ASSUME DiskType, NEW p \in Procs, DiskCall(p) \/ DiskStep(p)
  PROVE  /\ off' = off \/ \E n \in Nat : off' = [off EXCEPT ![p] = n]
         /\ limit' = limit \/ \E n \in Nat : limit' = [limit EXCEPT ![p] = n]
         /\ got' = got \/ \E g \in Seq(Chunks) : got' = [got EXCEPT ![p] = g]
  <1>0. off[p] \in Nat /\ limit[p] \in Nat /\ got[p] \in Seq(Chunks)
    BY DEF DiskType, DiskTypeOK, HandleTypeOK, Chunks
  <1>1. CASE DiskCall(p)
    <2>1. PICK o : \E k \in Keys, v, c \in Streams \union {NoSum} : \E from, upto, l :
             Begin(p, o, k, v, c, from, upto, l) /\ Opens(p, o, k, v, from, upto, l)
      BY <1>1 DEF DiskCall
    <2>2. PICK k \in Keys, v, c \in Streams \union {NoSum} : \E from, upto, l :
             Begin(p, o, k, v, c, from, upto, l) /\ Opens(p, o, k, v, from, upto, l)
      BY <2>1
    <2>3. PICK from, upto, l :
             Begin(p, o, k, v, c, from, upto, l) /\ Opens(p, o, k, v, from, upto, l)
      BY <2>2
    <2>4. from \in Nat /\ upto \in Nat
      BY <2>3, LengthAssumption DEF Opens
    <2>5. /\ off' = [off EXCEPT ![p] = from] /\ limit' = [limit EXCEPT ![p] = upto]
          /\ got' = [got EXCEPT ![p] = <<>>]
      BY <2>3 DEF Begin
    <2> QED BY <2>4, <2>5, EmptyFile
  <1>2. CASE DiskFault(p)
    BY <1>2 DEF DiskFault, handles
  <1>3. CASE Create(p)
    BY <1>2, <1>3 DEF Create
  <1>4. CASE Copy(p)
    BY <1>0, <1>4 DEF Copy, handles
  <1>5. CASE Close(p) \/ Cleanup(p)
    BY <1>5 DEF Close, Cleanup, handles
  <1>6. CASE Remove(p) \/ Open(p)
    BY <1>2, <1>6 DEF Remove, Open, handles
  <1>7. CASE Read(p) /\ ~ DiskFault(p)
    <2>1. CASE AtEnd(p)
      BY <1>7, <2>1 DEF Read, handles
    <2>2. CASE ~ AtEnd(p)
      <3>1. /\ got' = [got EXCEPT ![p] = Append(got[p], File(p)[off[p] + 1])]
            /\ off' = [off EXCEPT ![p] = off[p] + 1] /\ limit' = limit
        BY <1>7, <2>2 DEF Read
      <3>2. File(p) \in Seq(Chunks)
        BY <1>7, TypeFacts DEF Read, File, DiskType, DiskTypeOK, FileTypeOK, Chunks
      <3>3. File(p)[off[p] + 1] \in Chunks
        BY <1>0, <2>2, <3>2, ChunkRead DEF AtEnd
      <3>4. Append(got[p], File(p)[off[p] + 1]) \in Seq(Chunks)
        BY <1>0, <3>3
      <3>5. off[p] + 1 \in Nat
        BY <1>0
      <3> QED BY <3>1, <3>4, <3>5
    <2> QED BY <2>1, <2>2
  <1> QED BY <1>1, <1>2, <1>3, <1>4, <1>5, <1>6, <1>7 DEF DiskStep

LEMMA HandleTypeStep ==
  ASSUME DiskType, NEW p \in Procs, DiskCall(p) \/ DiskStep(p)
  PROVE  HandleTypeOK'
  <1>0. /\ fd \in [Procs -> 0 .. Len(data)] /\ off \in [Procs -> Nat]
        /\ limit \in [Procs -> Nat] /\ got \in [Procs -> Seq(Chunks)]
        /\ dir[key[p]] \in 0 .. Len(data)
    BY TypeFacts DEF DiskType, DiskTypeOK, HandleTypeOK, Chunks
  <1>1. 0 .. Len(data) \subseteq 0 .. Len(data') /\ 0 \in 0 .. Len(data')
    <2>1. data' \in Seq(Seq(Chunks)) /\ Len(data) <= Len(data') /\ data \in Seq(Seq(Chunks))
      BY FilesGrow DEF DiskType, DiskTypeOK, FileTypeOK, PlaceOK, PlaceAt, Chunks
    <2>2. Len(data) \in Nat /\ Len(data') \in Nat
      BY <2>1
    <2> QED BY <2>1, <2>2
  <1>2. fd' \in [Procs -> 0 .. Len(data')]
    <2>1. CASE fd' = fd \/ fd' = [fd EXCEPT ![p] = 0] \/ fd' = [fd EXCEPT ![p] = dir[key[p]]]
      BY <1>0, <1>1, <2>1
    <2>2. CASE Truncated(p) \/ Created(p)
      BY <2>2, FilesGrow DEF DiskType, PlaceOK, PlaceAt
    <2> QED BY <2>1, <2>2, OwnHandle
  <1>3. off' \in [Procs -> Nat] /\ limit' \in [Procs -> Nat] /\ got' \in [Procs -> Seq(Chunks)]
    BY <1>0, OwnOffset
  <1>4. ASSUME NEW q \in Procs, pc'[q] \in {"copy", "close", "read"} PROVE fd'[q] # 0
    <2>1. CASE q = p
      BY <1>4, <2>1, OwnHandle
    <2>2. CASE q # p
      BY <1>4, <2>2, OthersKept DEF DiskType, DiskTypeOK, HandleTypeOK
    <2> QED BY <2>1, <2>2
  <1> QED BY <1>2, <1>3, <1>4 DEF HandleTypeOK, Chunks

LEMMA HistoryTypeStep ==
  ASSUME DiskType, NEW p \in Procs, DiskCall(p) \/ DiskStep(p)
  PROVE  HistoryTypeOK'
  <1> USE DEF DiskType, DiskTypeOK, PlaceTypeOK, HistoryTypeOK
  <1>1. CASE DiskCall(p)
    <2>1. PICK o : \E k \in Keys, v, c \in Streams \union {NoSum} : \E from, upto, l :
             Begin(p, o, k, v, c, from, upto, l)
      BY <1>1 DEF DiskCall
    <2>2. PICK k \in Keys, v, c \in Streams \union {NoSum} : \E from, upto, l :
             Begin(p, o, k, v, c, from, upto, l)
      BY <2>1
    <2>3. /\ leftover' = [leftover EXCEPT ![p] = FALSE]
          /\ expect' = [expect EXCEPT ![p] = {}]
          /\ spoilt' \in {spoilt \union {k}, spoilt}
      BY <2>2 DEF Begin
    <2>4. alone' = [q \in Procs |->
                   IF q = p THEN \A r \in Procs \ {p} : ~ Mutating(r, k)
                   ELSE alone[q] /\ ~ (o \in Mutators /\ key[q] = k)]
      BY <2>2 DEF Begin
    <2>5. alone' \in [Procs -> BOOLEAN]
      BY <2>4, Zenon
    <2> QED BY <2>3, <2>5
  <1>2. CASE DiskFault(p)
    BY <1>2 DEF DiskFault, diskHistory
  <1>3. CASE Create(p)
    BY <1>2, <1>3 DEF Create
  <1>4. CASE Copy(p) \/ Close(p)
    BY <1>4 DEF Copy, Close, diskHistory
  <1>5. CASE Cleanup(p)
    BY <1>5 DEF Cleanup
  <1>6. CASE Remove(p) \/ Read(p)
    BY <1>2, <1>6 DEF Remove, Read, diskHistory
  <1>7. CASE Open(p) /\ ~ DiskFault(p)
    <2>1. CASE dir[key[p]] = 0
      BY <1>7, <2>1 DEF Open, diskHistory
    <2>2. CASE dir[key[p]] # 0
      <3>1. dir[key[p]] \in 1 .. Len(data)
        BY <2>2, TypeFacts
      <3>2. Stored(key[p]) \in Seq(Streams \union {Hole})
        BY <3>1 DEF FileTypeOK, Stored
      <3>3. /\ UNCHANGED <<alone, leftover, spoilt>>
            /\ \/ expect' = [expect EXCEPT ![p] = {}]
               \/ expect' = [expect EXCEPT ![p] = {Stored(key[p])}]
        BY <1>7, <2>2 DEF Open
      <3>4. {Stored(key[p])} \in SUBSET Seq(Streams \union {Hole})
        BY <3>2, Zenon
      <3>5. expect' \in [Procs -> SUBSET Seq(Streams \union {Hole})]
        BY <3>3, <3>4
      <3> QED BY <3>3, <3>5
    <2> QED BY <2>1, <2>2
  <1> QED BY <1>1, <1>2, <1>3, <1>4, <1>5, <1>6, <1>7 DEF DiskStep

LEMMA PlaceOKStep ==
  ASSUME DiskType, NEW p \in Procs, DiskCall(p) \/ DiskStep(p)
  PROVE  PlaceOK'
  <1>1. ASSUME NEW q \in Procs, q # p PROVE PlaceAt(q)'
    BY <1>1, OthersKept DEF DiskType, PlaceOK, PlaceAt
  <1>2. PlaceAt(p)'
    <2> USE DEF DiskType, DiskTypeOK, PlaceTypeOK, PlaceOK, PlaceAt
    <2>1. CASE DiskCall(p)
      <3>1. PICK o : \E k \in Keys, v, c \in Streams \union {NoSum} : \E from, upto, l :
               Begin(p, o, k, v, c, from, upto, l) /\ Opens(p, o, k, v, from, upto, l)
        BY <2>1 DEF DiskCall
      <3>2. PICK k \in Keys, v, c \in Streams \union {NoSum} : \E from, upto, l :
               Begin(p, o, k, v, c, from, upto, l) /\ Opens(p, o, k, v, from, upto, l)
        BY <3>1
      <3>3. PICK from, upto, l :
               Begin(p, o, k, v, c, from, upto, l) /\ Opens(p, o, k, v, from, upto, l)
        BY <3>2
      <3>4. /\ pc'[p] = l /\ op'[p] = o /\ stream'[p] = v /\ fd'[p] = 0 /\ off'[p] = from
            /\ limit'[p] = upto /\ result'[p] = "none"
        BY <3>3 DEF Begin, HandleTypeOK
      <3> QED BY <3>3, <3>4 DEF Opens
    <2>2. CASE DiskFault(p)
      BY <2>2 DEF DiskFault, Return, handles, callVars
    <2>3. CASE Create(p) /\ ~ DiskFault(p)
      <3>1. fd'[p] # 0
        BY <2>3, CreateEffect, FilesGrow
      <3> QED BY <2>3, <3>1 DEF Create, Goto, callVars
    <2>4. CASE Copy(p)
      BY <2>4 DEF Copy, Goto, handles, callVars
    <2>5. CASE Close(p) \/ Cleanup(p)
      BY <2>5 DEF Close, Cleanup, Goto, Return, handles, callVars
    <2>6. CASE Remove(p) \/ Open(p) \/ Read(p)
      BY <2>2, <2>6 DEF Remove, Open, Read, Goto, Return, handles, callVars
    <2> QED BY <2>1, <2>2, <2>3, <2>4, <2>5, <2>6 DEF DiskStep
  <1> QED BY <1>1, <1>2 DEF PlaceOK

-----------------------------------------------------------------------------
(* Whose file an inode is, and who is alone with a key.                     *)

\* An inode is of one key: the keys' entries differ, and an open file that is
\* still in the directory is under the key of its call.
ApartOK ==
    /\ \A k, l \in Keys : dir[k] = dir[l] => k = l \/ dir[k] = 0
    /\ \A p \in Procs, k \in Keys : fd[p] # 0 /\ dir[k] = fd[p] => key[p] = k

\* alone[p] says that nobody else is mutating the key, and it holds of whoever
\* mutates a key that is not spoilt.
AloneOK == \A p \in Procs :
    /\ alone[p] => \A q \in Procs \ {p} : ~ Mutating(q, key[p])
    /\ Mutating(p, key[p]) /\ key[p] \notin spoilt => alone[p]

\* A call begins, or a call goes on and its arguments stay.
LEMMA OwnCall ==
  ASSUME DiskType, NEW p \in Procs, DiskCall(p) \/ DiskStep(p)
  PROVE  \/ pc[p] = "idle" /\ fd'[p] = 0 /\ FilesKept
         \/ pc[p] # "idle" /\ UNCHANGED <<callVars, alone>>
  <1>1. CASE DiskCall(p)
    <2>1. PICK o : \E k \in Keys, v, c \in Streams \union {NoSum} : \E from, upto, l :
             Begin(p, o, k, v, c, from, upto, l)
      BY <1>1 DEF DiskCall
    <2>2. pc[p] = "idle" /\ fd' = [fd EXCEPT ![p] = 0] /\ FilesKept
      BY <2>1 DEF Begin, FilesKept
    <2> QED BY <2>2 DEF DiskType, DiskTypeOK, HandleTypeOK
  <1>2. CASE DiskStep(p)
    BY <1>2 DEF DiskStep, DiskFault, Create, Copy, Close, Cleanup, Remove, Open, Read,
                diskHistory, callVars
  <1> QED BY <1>1, <1>2

LEMMA ApartStep ==
  ASSUME DiskType, ApartOK, NEW p \in Procs, DiskCall(p) \/ DiskStep(p)
  PROVE  ApartOK'
  <1>0. /\ dir \in [Keys -> 0 .. Len(data)] /\ fd \in [Procs -> 0 .. Len(data)]
        /\ Len(data) \in Nat /\ key \in [Procs -> Keys] /\ key[p] \in Keys
    BY TypeFacts DEF DiskType, DiskTypeOK, FileTypeOK, PlaceTypeOK, HandleTypeOK
  <1>1. ASSUME NEW q \in Procs, q # p PROVE fd'[q] = fd[q] /\ key'[q] = key[q]
    BY <1>1, OthersKept DEF DiskType
  <1>2. CASE pc[p] = "idle"
    <2>1. fd'[p] = 0 /\ dir' = dir
      BY <1>2, OwnCall DEF FilesKept
    <2> QED BY <1>1, <2>1 DEF ApartOK
  <1>3. CASE pc[p] # "idle"
    <2>0. key' = key
      BY <1>3, OwnCall DEF callVars
    <2>1. CASE FilesKept /\ ~ Truncated(p) /\ ~ Created(p)
      <3>1. dir' = dir
        BY <2>1 DEF FilesKept
      <3>2. fd'[p] \in {fd[p], 0, dir[key[p]]}
        BY <1>0, <2>1, OwnHandle
      <3> QED BY <1>0, <1>1, <2>0, <3>1, <3>2 DEF ApartOK
    <2>2. CASE Truncated(p)
      BY <1>0, <2>0, <2>2 DEF Truncated, ApartOK
    <2>3. CASE Created(p)
      <3>1. Len(data') = Len(data) + 1
        BY <2>3, FileAdded DEF Created, DiskType, DiskTypeOK, FileTypeOK, Chunks
      <3>2. ASSUME NEW k \in Keys, k # key[p] PROVE dir'[k] = dir[k] /\ dir'[k] # dir'[key[p]]
        BY <1>0, <2>3, <3>1, <3>2 DEF Created
      <3>3. ASSUME NEW q \in Procs, q # p PROVE fd'[q] = fd[q] /\ dir'[key[p]] # fd[q]
        BY <1>0, <1>1, <2>3, <3>1, <3>3 DEF Created
      <3>4. fd'[p] = dir'[key[p]]
        BY <1>0, <2>3 DEF Created
      <3> QED BY <1>0, <2>0, <3>2, <3>3, <3>4 DEF ApartOK
    <2>4. CASE Written(p)
      BY <2>0, <2>4 DEF Written, ApartOK
    <2>5. CASE Removed(p)
      BY <1>0, <2>0, <2>5 DEF Removed, ApartOK
    <2> QED BY <2>1, <2>2, <2>3, <2>4, <2>5, FileEffect DEF DiskType
  <1> QED BY <1>2, <1>3

LEMMA AloneStep ==
  ASSUME DiskType, AloneOK, NEW p \in Procs, DiskCall(p) \/ DiskStep(p)
  PROVE  AloneOK'
  <1> USE DEF DiskType, DiskTypeOK, PlaceTypeOK, HistoryTypeOK
  <1>1. ASSUME NEW q \in Procs, q # p, NEW k
        PROVE  key'[q] = key[q] /\ (Mutating(q, k)' <=> Mutating(q, k)) /\ (alone'[q] => alone[q])
    BY <1>1, OthersKept DEF Mutating
  <1>2. CASE DiskCall(p)
    <2>1. PICK o : \E k \in Keys, v, c \in Streams \union {NoSum} : \E from, upto, l :
             Begin(p, o, k, v, c, from, upto, l)
      BY <1>2 DEF DiskCall
    <2>2. PICK k \in Keys : \E v, c \in Streams \union {NoSum} : \E from, upto, l :
             Begin(p, o, k, v, c, from, upto, l)
      BY <2>1
    <2>3. /\ alone' = [q \in Procs |->
                   IF q = p THEN \A r \in Procs \ {p} : ~ Mutating(r, k)
                   ELSE alone[q] /\ ~ (o \in Mutators /\ key[q] = k)]
          /\ spoilt' = IF o \in Mutators /\ ~ alone'[p] THEN spoilt \union {k} ELSE spoilt
          /\ key' = [key EXCEPT ![p] = k] /\ op' = [op EXCEPT ![p] = o]
      BY <2>2 DEF Begin
    <2>4. key'[p] = k /\ op'[p] = o
      BY <2>3
    <2>5. alone'[p] <=> \A r \in Procs \ {p} : ~ Mutating(r, k)
      BY <2>3, Zenon
    <2>6. ASSUME NEW q \in Procs, q # p
          PROVE  alone'[q] <=> alone[q] /\ ~ (o \in Mutators /\ key[q] = k)
      BY <2>3, <2>6, Zenon
    <2>7. \A j : Mutating(p, j)' => o \in Mutators /\ j = k
      BY <2>4 DEF Mutating
    <2>8. \A q \in Procs : alone'[q] => \A r \in Procs \ {q} : ~ Mutating(r, key[q])'
      <3> SUFFICES ASSUME NEW q \in Procs, alone'[q], NEW r \in Procs \ {q}
                   PROVE  ~ Mutating(r, key[q])'
        OBVIOUS
      <3>1. CASE q = p
        <4>1. r # p /\ ~ Mutating(r, k)
          BY <2>5, <3>1
        <4>2. ~ (Mutating(r, k))'
          BY <4>1, OthersKept DEF Mutating
        <4> QED BY <2>4, <3>1, <4>2 DEF Mutating
      <3>2. CASE q # p /\ r = p
        <4>1. key'[q] = key[q] /\ ~ (o \in Mutators /\ key[q] = k)
          BY <1>1, <2>6, <3>2
        <4> QED BY <2>4, <3>2, <4>1 DEF Mutating
      <3>3. CASE q # p /\ r # p
        <4>1. alone[q] /\ key'[q] = key[q]
          BY <1>1, <3>3
        <4>2. ~ Mutating(r, key[q])
          BY <4>1 DEF AloneOK
        <4> QED BY <3>3, <4>1, <4>2, OthersKept DEF Mutating
      <3> QED BY <3>1, <3>2, <3>3
    <2>9. \A q \in Procs : Mutating(q, key[q])' /\ key'[q] \notin spoilt' => alone'[q]
      <3> SUFFICES ASSUME NEW q \in Procs, Mutating(q, key[q])', key'[q] \notin spoilt'
                   PROVE  alone'[q]
        OBVIOUS
      <3>1. CASE q = p
        BY <2>3, <2>4, <3>1 DEF Mutating
      <3>2. CASE q # p
        <4>1. key'[q] = key[q] /\ Mutating(q, key[q]) /\ key[q] \notin spoilt
          BY <2>3, <3>2, OthersKept DEF Mutating
        <4>2. alone[q]
          BY <4>1 DEF AloneOK
        <4>3. o \in Mutators /\ key[q] = k => ~ alone'[p]
          BY <2>5, <3>2, <4>1
        <4>4. ~ (o \in Mutators /\ key[q] = k)
          BY <2>3, <4>1, <4>3
        <4> QED BY <2>6, <3>2, <4>2, <4>4
      <3> QED BY <3>1, <3>2
    <2> QED BY <2>8, <2>9 DEF AloneOK
  <1>3. CASE DiskStep(p)
    <2>1. pc[p] # "idle" /\ op' = op /\ key' = key /\ alone' = alone
      BY <1>3, OwnCall DEF callVars, DiskStep, Create, Copy, Close, Cleanup, Remove, Open, Read
    <2>2. spoilt \subseteq spoilt'
      BY <1>3 DEF DiskStep, DiskFault, Create, Copy, Close, Cleanup, Remove, Open, Read, diskHistory
    <2>3. \A q \in Procs : \A k : Mutating(q, k)' => Mutating(q, k)
      BY <2>1, OthersKept DEF Mutating
    <2> QED BY <2>1, <2>2, <2>3 DEF AloneOK, Mutating
  <1> QED BY <1>2, <1>3

-----------------------------------------------------------------------------
(* What is stored under a key.                                              *)

Owners == DiskType /\ ApartOK /\ AloneOK

\* A step of a goroutine that does not mutate a key leaves what is stored there.
LEMMA NotMine ==
  ASSUME Owners, NEW p \in Procs, DiskCall(p) \/ DiskStep(p),
         NEW k \in Keys, ~ Mutating(p, k)
  PROVE  dir'[k] = dir[k] /\ (dir[k] # 0 => data'[dir[k]] = data[dir[k]])
  <1>0. /\ dir \in [Keys -> 0 .. Len(data)] /\ Len(data) \in Nat /\ key[p] \in Keys
        /\ dir[k] \in 0 .. Len(data) /\ data \in Seq(Seq(Chunks))
    BY TypeFacts DEF Owners, DiskType, DiskTypeOK, FileTypeOK, Chunks
  <1>1. pc[p] \in {"create", "copy", "cleanup", "remove"} => key[p] # k
    BY DEF Owners, DiskType, PlaceOK, PlaceAt, Mutating, Mutators
  <1>2. CASE FilesKept
    BY <1>2 DEF FilesKept
  <1>3. CASE Truncated(p)
    BY <1>0, <1>1, <1>3 DEF Truncated, Owners, ApartOK
  <1>4. CASE Created(p)
    BY <1>0, <1>1, <1>4 DEF Created
  <1>5. CASE Written(p)
    <2>1. fd[p] # 0 /\ key[p] # k
      BY <1>1, <1>5, TypeFacts DEF Written, Owners, DiskType
    <2>2. dir[k] # fd[p]
      BY <2>1 DEF Owners, ApartOK
    <2> QED BY <1>0, <1>5, <2>2 DEF Written
  <1>6. CASE Removed(p)
    BY <1>0, <1>1, <1>6 DEF Removed
  <1> QED BY <1>2, <1>3, <1>4, <1>5, <1>6, FileEffect DEF Owners, DiskType

\* The first chunks of a stream.
Prefix(v, n) == [i \in 1 .. n |-> v]

LEMMA NoChunks == \A v : Prefix(v, 0) = <<>>
  BY DEF Prefix

LEMMA NextChunk ==
  ASSUME NEW v, NEW n \in Nat
  PROVE  PutAt(Prefix(v, n), n, v) = Prefix(v, n + 1)
  <1>1. Len(Prefix(v, n)) = n
    BY DEF Prefix
  <1> DEFINE m == IF n < Len(Prefix(v, n)) THEN Len(Prefix(v, n)) ELSE n + 1
  <1>2. m = n + 1
    BY <1>1
  <1>3. ASSUME NEW i \in 1 .. m PROVE PutAt(Prefix(v, n), n, v)[i] = v
    <2>1. CASE i = n + 1
      BY <2>1, Zenon DEF PutAt
    <2>2. CASE i # n + 1
      <3>1. i <= Len(Prefix(v, n)) /\ i \in 1 .. n
        BY <1>1, <1>2, <2>2
      <3>2. PutAt(Prefix(v, n), n, v)[i] = Prefix(v, n)[i]
        BY <2>2, <3>1, Zenon DEF PutAt
      <3> QED BY <3>1, <3>2 DEF Prefix
    <2> QED BY <2>1, <2>2
  <1>4. PutAt(Prefix(v, n), n, v) = [i \in 1 .. m |-> PutAt(Prefix(v, n), n, v)[i]]
    BY Zenon DEF PutAt
  <1> HIDE DEF m
  <1>5. PutAt(Prefix(v, n), n, v) = [i \in 1 .. m |-> v]
    BY <1>3, <1>4, Zenon
  <1> QED BY <1>2, <1>5 DEF Prefix

\* What an upload that is alone has done so far.
UploadAt(p) == op[p] = "Upload" /\ alone[p] =>
    /\ pc[p] \in {"copy", "close"} =>
         dir[key[p]] = fd[p] /\ off[p] <= limit[p] /\ data[fd[p]] = Prefix(stream[p], off[p])
    /\ pc[p] = "close" => off[p] = limit[p]
    /\ pc[p] = "idle" /\ result[p] = "ok" =>
         dir[key[p]] # 0 /\ data[dir[key[p]]] = Whole(stream[p])
    /\ pc[p] = "idle" /\ result[p] = "err" /\ fd[p] # 0 /\ ~ leftover[p] => dir[key[p]] = 0

UploadOK == \A p \in Procs : UploadAt(p)

\* While an upload is alone nothing another goroutine does reaches its file.
LEMMA OtherUpload ==
  ASSUME Owners, UploadOK, NEW p \in Procs, DiskCall(p) \/ DiskStep(p), NEW q \in Procs, q # p
  PROVE  UploadAt(q)'
  <1> SUFFICES ASSUME op'[q] = "Upload", alone'[q]
               PROVE  UploadAt(q)'
    BY DEF UploadAt
  <1>1. /\ pc'[q] = pc[q] /\ op'[q] = op[q] /\ key'[q] = key[q] /\ stream'[q] = stream[q]
        /\ fd'[q] = fd[q] /\ off'[q] = off[q] /\ limit'[q] = limit[q]
        /\ result'[q] = result[q] /\ leftover'[q] = leftover[q] /\ alone[q]
    BY OthersKept DEF Owners, DiskType
  <1>2. key[q] \in Keys
    BY TypeFacts DEF Owners, DiskType
  <1>3. ~ Mutating(p, key[q])
    BY <1>1 DEF Owners, AloneOK
  <1>4. dir'[key[q]] = dir[key[q]] /\ (dir[key[q]] # 0 => data'[dir[key[q]]] = data[dir[key[q]]])
    BY <1>2, <1>3, NotMine
  <1>5. pc[q] \in {"copy", "close"} => fd[q] # 0
    BY DEF Owners, DiskType, PlaceOK, PlaceAt
  <1>6. UploadAt(q)
    BY DEF UploadOK
  <1> QED BY <1>1, <1>4, <1>5, <1>6 DEF UploadAt

LEMMA OwnUpload ==
  ASSUME Owners, UploadOK, NEW p \in Procs, DiskCall(p) \/ DiskStep(p)
  PROVE  UploadAt(p)'
  <1>0. /\ Len(data) \in Nat /\ key[p] \in Keys /\ dir[key[p]] \in 0 .. Len(data)
        /\ fd[p] \in 0 .. Len(data) /\ off[p] \in Nat /\ limit[p] \in Nat
        /\ data \in Seq(Seq(Chunks)) /\ dir \in [Keys -> 0 .. Len(data)]
    BY TypeFacts DEF Owners, DiskType, DiskTypeOK, FileTypeOK, Chunks
  <1>1. pc \in [Procs -> DiskLabels] /\ result \in [Procs -> {"none", "ok", "err"}]
    BY DEF Owners, DiskType, DiskTypeOK, PlaceTypeOK
  <1>2. /\ fd \in [Procs -> 0 .. Len(data)] /\ off \in [Procs -> Nat]
        /\ leftover \in [Procs -> BOOLEAN]
    BY DEF Owners, DiskType, DiskTypeOK, HandleTypeOK, HistoryTypeOK
  <1>3. PlaceAt(p) /\ UploadAt(p)
    BY DEF Owners, DiskType, PlaceOK, UploadOK
  <1>4. CASE DiskCall(p)
    <2>1. PICK o : \E k \in Keys, v, c \in Streams \union {NoSum} : \E from, upto, l :
             Begin(p, o, k, v, c, from, upto, l) /\ Opens(p, o, k, v, from, upto, l)
      BY <1>4 DEF DiskCall
    <2>2. pc'[p] \notin {"copy", "close", "idle"}
      BY <1>1, <2>1 DEF Begin, Opens
    <2> QED BY <2>2 DEF UploadAt
  <1>5. CASE Create(p) /\ DiskFault(p)
    <2>1. pc[p] = "create" /\ pc'[p] = "idle" /\ result'[p] = "err" /\ fd' = fd
      BY <1>1, <1>5 DEF Create, DiskFault, Return, handles
    <2> QED BY <1>3, <2>1 DEF UploadAt, PlaceAt
  <1>6. CASE Create(p) /\ ~ DiskFault(p)
    <2>1. /\ pc'[p] = "copy" /\ key' = key /\ stream' = stream /\ off' = off /\ limit' = limit
          /\ off[p] = 0
      BY <1>1, <1>3, <1>6 DEF Create, Goto, callVars, PlaceAt
    <2>2. dir'[key[p]] = fd'[p] /\ data'[fd'[p]] = <<>>
      <3>1. CASE Truncated(p)
        BY <1>0, <1>2, <3>1 DEF Truncated
      <3>2. CASE Created(p)
        <4>1. Len(data') = Len(data) + 1 /\ data'[Len(data')] = <<>>
          BY <1>0, <3>2, EmptyFile DEF Created
        <4> QED BY <1>0, <1>2, <3>2, <4>1 DEF Created
      <3> QED BY <1>6, <3>1, <3>2, CreateEffect DEF Owners, DiskType
    <2> QED BY <1>0, <2>1, <2>2, NoChunks DEF UploadAt
  <1>7. CASE Copy(p)
    <2>0. pc[p] = "copy" /\ op[p] = "Upload"
      BY <1>3, <1>7 DEF Copy, PlaceAt
    <2>1. CASE off[p] < limit[p] /\ Written(p) /\ off' = [off EXCEPT ![p] = @ + 1]
               /\ UNCHANGED <<pc, callVars, limit, alone>>
      <3>1. fd[p] \in 1 .. Len(data)
        BY <2>0, TypeFacts DEF Owners, DiskType
      <3>2. /\ pc'[p] = "copy" /\ off'[p] = off[p] + 1 /\ off'[p] <= limit'[p]
            /\ dir' = dir /\ fd' = fd /\ key' = key /\ stream' = stream /\ alone' = alone
        BY <1>0, <1>2, <2>0, <2>1 DEF Written, callVars
      <3>3. data'[fd[p]] = PutAt(data[fd[p]], off[p], stream[p])
        BY <1>0, <2>1, <3>1 DEF Written
      <3>4. alone[p] => dir[key[p]] = fd[p] /\ data[fd[p]] = Prefix(stream[p], off[p])
        BY <1>3, <2>0 DEF UploadAt
      <3>5. alone[p] => data'[fd[p]] = Prefix(stream[p], off[p] + 1)
        BY <1>0, <3>3, <3>4, NextChunk
      <3> QED BY <3>2, <3>4, <3>5 DEF UploadAt
    <2>2. CASE off[p] = limit[p] /\ Goto(p, "close")
               /\ UNCHANGED <<dir, data, callVars, handles, diskHistory>>
      <3>1. /\ pc'[p] = "close" /\ off'[p] = limit'[p]
            /\ UNCHANGED <<dir, data, key, stream, fd, off, limit, op, alone>>
        BY <1>1, <2>2 DEF Goto, callVars, handles, diskHistory
      <3> QED BY <1>3, <2>0, <3>1 DEF UploadAt
    <2>3. CASE Goto(p, "cleanup")
      BY <1>1, <2>3 DEF Goto, UploadAt
    <2> QED BY <1>7, <2>1, <2>2, <2>3 DEF Copy, Written, diskHistory
  <1>8. CASE Close(p)
    <2>0. pc[p] = "close" /\ op[p] = "Upload" /\ UNCHANGED <<dir, data, key, stream, alone>>
      BY <1>3, <1>8 DEF Close, PlaceAt, callVars, diskHistory
    <2>1. CASE Return(p, "ok")
      <3>1. pc'[p] = "idle" /\ result'[p] = "ok"
        BY <1>1, <2>1 DEF Return
      <3>2. alone[p] => dir[key[p]] # 0 /\ data[dir[key[p]]] = Prefix(stream[p], Length[stream[p]])
        BY <1>3, <2>0 DEF UploadAt, PlaceAt
      <3> QED BY <2>0, <3>1, <3>2 DEF UploadAt, Prefix, Whole
    <2>2. CASE Goto(p, "cleanup")
      BY <1>1, <2>2 DEF Goto, UploadAt
    <2> QED BY <1>8, <2>1, <2>2 DEF Close
  <1>9. CASE Cleanup(p)
    <2>1. pc'[p] = "idle" /\ result'[p] = "err" /\ key' = key
      BY <1>1, <1>9 DEF Cleanup, Return, callVars
    <2>2. dir'[key[p]] = 0 \/ leftover'[p]
      BY <1>0, <1>2, <1>9 DEF Cleanup
    <2> QED BY <2>1, <2>2 DEF UploadAt
  <1>10. CASE Remove(p) \/ Open(p) \/ Read(p)
    <2>1. op[p] # "Upload" /\ op' = op
      BY <1>3, <1>10 DEF Remove, Open, Read, DiskFault, PlaceAt, callVars
    <2> QED BY <2>1 DEF UploadAt
  <1> QED BY <1>4, <1>5, <1>6, <1>7, <1>8, <1>9, <1>10 DEF DiskStep

-----------------------------------------------------------------------------
(* What every user of the service can rely on.                              *)

ServiceInv == Owners /\ UploadOK

\* A step of a user of the service that makes no call, and may fail elsewhere.
Quiet ==
    /\ UNCHANGED <<dir, data, pc, callVars, handles, result, calls, diskHistory>>
    /\ faults' = faults \/ CountFault

LEMMA ServiceInit ==
  ASSUME CallsInit, data \in Seq(Seq(Chunks)), dir \in [Keys -> 0 .. Len(data)],
         \A k, l \in Keys : dir[k] = dir[l] => k = l \/ dir[k] = 0
  PROVE  ServiceInv
  <1>1. ApartOK /\ AloneOK
    BY DEF CallsInit, ApartOK, AloneOK, Mutating
  <1>2. UploadOK
    BY DEF CallsInit, UploadOK, UploadAt
  <1> QED BY <1>1, <1>2, InitType DEF ServiceInv, Owners

LEMMA ServiceStep ==
  ASSUME ServiceInv, NEW p \in Procs, DiskCall(p) \/ DiskStep(p)
  PROVE  ServiceInv'
  <1> USE DEF ServiceInv, Owners
  <1>1. DiskType'
    BY FileTypeStep, PlaceTypeStep, HandleTypeStep, HistoryTypeStep, PlaceOKStep
       DEF DiskType, DiskTypeOK
  <1>2. ApartOK' /\ AloneOK'
    BY ApartStep, AloneStep
  <1>3. UploadOK'
    BY OwnUpload, OtherUpload DEF UploadOK
  <1> QED BY <1>1, <1>2, <1>3

LEMMA ServiceQuiet ==
  ASSUME ServiceInv, Quiet
  PROVE  ServiceInv'
  <1> USE DEF Quiet, callVars, handles, diskHistory
  <1>1. calls' \in 0 .. MaxCalls /\ faults' \in 0 .. MaxFaults
    BY DiskBoundsAssumption DEF ServiceInv, Owners, DiskType, DiskTypeOK, FileTypeOK, CountFault
  <1>2. DiskType'
    BY <1>1 DEF ServiceInv, Owners, DiskType, DiskTypeOK, FileTypeOK, PlaceTypeOK, HandleTypeOK,
                HistoryTypeOK, PlaceOK, PlaceAt
  <1>3. ApartOK' /\ AloneOK'
    BY DEF ServiceInv, Owners, ApartOK, AloneOK, Mutating
  <1>4. UploadOK'
    BY DEF ServiceInv, UploadOK, UploadAt
  <1> QED BY <1>2, <1>3, <1>4 DEF ServiceInv, Owners
=============================================================================
