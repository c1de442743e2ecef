--------------------------- MODULE DiskClientsProofs ---------------------------
(***************************************************************************)
(* What the callers of the disk service get of it: an upload stores its     *)
(* stream or nothing, a read returns what it opened, and the service is an  *)
(* ObjectStore.                                                             *)
(***************************************************************************)
EXTENDS DiskClients, DiskProofs

LEMMA ClientCalls ==
  ASSUME NEW p \in Procs, ClientUpload(p) \/ ClientDelete(p) \/ ClientRead(p)
  PROVE  DiskCall(p)
  <1> USE DEF DiskCall
  <1>1. CASE ClientUpload(p)
    <2>1. PICK k \in Keys, v \in Streams, c \in Streams \union {NoSum} : Upload(p, k, v, c)
      BY <1>1 DEF ClientUpload
    <2>2. /\ Begin(p, "Upload", k, v, c, 0, Length[v], "create")
          /\ Opens(p, "Upload", k, v, 0, Length[v], "create")
      BY <2>1 DEF Upload, Opens
    <2> QED BY <2>2
  <1>2. CASE ClientDelete(p)
    <2>1. PICK k \in Keys : Begin(p, "Delete", k, NoSum, NoSum, 0, 0, "remove")
      BY <1>2 DEF ClientDelete, Delete
    <2>2. Opens(p, "Delete", k, NoSum, 0, 0, "remove")
      BY DEF Opens
    <2> QED BY <2>1, <2>2
  <1>3. CASE ClientRead(p)
    <2>1. PICK k \in Keys : \/ Download(p, k)
                           \/ \E offset \in Offsets, length \in Sizes : DownloadChunk(p, k, offset, length)
      BY <1>3 DEF ClientRead
    <2>2. CASE Download(p, k)
      <3>1. /\ Begin(p, "Download", k, NoSum, NoSum, 0, 0, "open")
            /\ Opens(p, "Download", k, NoSum, 0, 0, "open")
        BY <2>2 DEF Download, Opens
      <3> QED BY <3>1
    <2>3. CASE \E offset \in Offsets, length \in Sizes : DownloadChunk(p, k, offset, length)
      <3>1. PICK offset \in Offsets, length \in Sizes :
              Begin(p, "DownloadChunk", k, NoSum, NoSum, offset, offset + length, "open")
        BY <2>3 DEF DownloadChunk
      <3>2. Opens(p, "DownloadChunk", k, NoSum, offset, offset + length, "open")
        BY RangesAssumption DEF Opens
      <3> QED BY <3>1, <3>2
    <2> QED BY <2>1, <2>2, <2>3
  <1> QED BY <1>1, <1>2, <1>3

-----------------------------------------------------------------------------
(* What a read returns.                                                     *)

Reads == {"Download", "DownloadChunk"}

\* A call that saw an object nobody was writing, and what it has read of it so far.
ReadAt(p) ==
    /\ expect[p] # {} => op[p] \in Reads
    /\ pc[p] = "open" => got[p] = <<>> /\ (op[p] = "Download" => off[p] = 0)
    /\ op[p] \in Reads => Len(got[p]) <= off[p]
    /\ op[p] = "Download" => off[p] = Len(got[p])
    /\ pc[p] = "read" => \A c \in expect[p] :
         /\ data[fd[p]] = c
         /\ \A q \in Procs : pc[q] = "copy" => fd[q] # fd[p]
         /\ got[p] # <<>> => off[p] <= Len(c) /\ (op[p] = "DownloadChunk" => off[p] <= limit[p])
         /\ \A i \in 1 .. Len(got[p]) : got[p][i] = c[off[p] - Len(got[p]) + i]
    /\ pc[p] = "idle" /\ result[p] = "ok" => \A c \in expect[p] : got[p] = Slice(p, c)

ReadOK == \A p \in Procs : ReadAt(p)

\* The file of a read that still has something to return is left alone, and no
\* upload comes to write it.
LEMMA ReadFileKept ==
  ASSUME Owners, ReadOK, NEW p \in Procs, DiskCall(p) \/ DiskStep(p),
         NEW q \in Procs, q # p, pc[q] = "read", NEW c \in expect'[q]
  PROVE  c \in expect[q] /\ data'[fd[q]] = c /\ (pc'[p] = "copy" => fd'[p] # fd[q])
  <1>0. /\ Len(data) \in Nat /\ key[p] \in Keys /\ dir[key[p]] \in 0 .. Len(data)
        /\ fd[q] \in 1 .. Len(data) /\ data \in Seq(Seq(Chunks))
        /\ fd \in [Procs -> 0 .. Len(data)] /\ fd[p] \in 0 .. Len(data)
    BY TypeFacts DEF Owners, DiskType, DiskTypeOK, FileTypeOK, HandleTypeOK, Chunks
  <1>1. c \in expect[q]
    BY OthersKept DEF Owners, DiskType
  <1>2. data[fd[q]] = c /\ (pc[p] = "copy" => fd[p] # fd[q])
    BY <1>1 DEF ReadOK, ReadAt
  <1>3. pc \in [Procs -> DiskLabels]
    BY DEF Owners, DiskType, DiskTypeOK, PlaceTypeOK
  <1>4. CASE DiskCall(p)
    <2>0. pc[p] = "idle"
      <3>1. PICK o : \E k \in Keys, v, c1 \in Streams \union {NoSum} : \E from, upto, l :
               Begin(p, o, k, v, c1, from, upto, l)
        BY <1>4 DEF DiskCall
      <3> QED BY <3>1 DEF Begin
    <2>1. FilesKept /\ fd'[p] = 0
      BY <2>0, OwnCall DEF Owners
    <2> QED BY <1>0, <1>1, <1>2, <2>1 DEF FilesKept
  <1>5. CASE DiskFault(p)
    BY <1>1, <1>2, <1>3, <1>5 DEF DiskFault, Return
  <1>6. CASE Create(p) /\ ~ DiskFault(p)
    <2>1. fd'[p] # fd[q]
      BY <1>6 DEF Create
    <2>2. CASE Truncated(p)
      BY <1>0, <1>1, <1>2, <2>1, <2>2 DEF Truncated
    <2>3. CASE Created(p)
      BY <1>0, <1>1, <1>2, <2>1, <2>3 DEF Created
    <2> QED BY <1>6, <2>2, <2>3, CreateEffect DEF Owners, DiskType
  <1>7. CASE Copy(p)
    BY <1>0, <1>1, <1>2, <1>3, <1>7 DEF Copy, Goto, handles
  <1>8. CASE Close(p) \/ Cleanup(p)
    BY <1>1, <1>2, <1>3, <1>8 DEF Close, Cleanup, Goto, Return
  <1>9. CASE Remove(p) \/ Open(p) \/ Read(p)
    BY <1>1, <1>2, <1>3, <1>5, <1>9 DEF Remove, Open, Read, Goto, Return
  <1> QED BY <1>4, <1>6, <1>5, <1>7, <1>8, <1>9 DEF DiskStep

LEMMA OtherRead ==
  ASSUME Owners, ReadOK, NEW p \in Procs, DiskCall(p) \/ DiskStep(p), NEW q \in Procs, q # p
  PROVE  ReadAt(q)'
  <1>1. /\ pc'[q] = pc[q] /\ op'[q] = op[q] /\ fd'[q] = fd[q] /\ off'[q] = off[q]
        /\ limit'[q] = limit[q] /\ got'[q] = got[q] /\ result'[q] = result[q]
        /\ expect'[q] = expect[q] \/ expect'[q] = {}
    BY OthersKept DEF Owners, DiskType
  <1>2. ReadAt(q)
    BY DEF ReadOK
  <1>3. ASSUME pc[q] = "read", NEW c \in expect'[q]
        PROVE  /\ c \in expect[q] /\ data'[fd[q]] = c
               /\ \A r \in Procs : pc'[r] = "copy" => fd'[r] # fd[q]
    <2>1. c \in expect[q] /\ data'[fd[q]] = c /\ (pc'[p] = "copy" => fd'[p] # fd[q])
      BY <1>3, ReadFileKept
    <2>2. ASSUME NEW r \in Procs, r # p, pc'[r] = "copy" PROVE fd'[r] # fd[q]
      <3>1. pc[r] = "copy" /\ fd'[r] = fd[r]
        BY <2>2, OthersKept DEF Owners, DiskType
      <3> QED BY <1>2, <1>3, <2>1, <3>1 DEF ReadAt
    <2> QED BY <2>1, <2>2
  <1>4. \A c : Slice(q, c)' = Slice(q, c)
    BY <1>1 DEF Slice
  <1> QED BY <1>1, <1>2, <1>3, <1>4 DEF ReadAt

\* One more chunk is read.
LEMMA ReadMore ==
  ASSUME NEW c \in Seq(Chunks), NEW g \in Seq(Chunks), NEW o \in Nat, NEW h \in Seq(Chunks),
         Len(g) <= o, ~ o >= Len(c), h = Append(g, c[o + 1]),
         \A i \in 1 .. Len(g) : g[i] = c[o - Len(g) + i]
  PROVE  /\ Len(h) = Len(g) + 1 /\ Len(h) <= o + 1 /\ o + 1 <= Len(c)
         /\ \A i \in 1 .. Len(h) : h[i] = c[(o + 1) - Len(h) + i]
  OBVIOUS

\* At the end of the file everything has been read,
LEMMA ReadAll ==
  ASSUME NEW c \in Seq(Chunks), NEW g \in Seq(Chunks), NEW o \in Nat, o = Len(g),
         o >= Len(c), g # <<>> => o <= Len(c),
         \A i \in 1 .. Len(g) : g[i] = c[o - Len(g) + i]
  PROVE  g = c
  OBVIOUS

\* or the range asked for, cut at the end of the file.
LEMMA ReadRange ==
  ASSUME NEW c \in Seq(Chunks), NEW g \in Seq(Chunks), NEW o \in Nat, NEW l \in Nat,
         Len(g) <= o, o >= Len(c) \/ o >= l, g # <<>> => o <= Len(c) /\ o <= l,
         \A i \in 1 .. Len(g) : g[i] = c[o - Len(g) + i]
  PROVE  g = SubSeq(c, o - Len(g) + 1, IF l < Len(c) THEN l ELSE Len(c))
  <1> DEFINE start == o - Len(g)
             end == IF l < Len(c) THEN l ELSE Len(c)
  <1>0. start \in Nat /\ end \in 0 .. Len(c) /\ Len(g) \in Nat
    OBVIOUS
  <1>1. CASE g = <<>>
    <2>1. start = o /\ end <= o
      BY <1>1
    <2> HIDE DEF start, end
    <2>2. SubSeq(c, start + 1, end) = <<>>
      BY <1>0, <2>1
    <2> QED BY <1>1, <2>2 DEF start, end
  <1>2. CASE g # <<>>
    <2>1. end = start + Len(g) /\ Len(g) > 0
      BY <1>2
    <2>2. \A i \in 1 .. Len(g) : g[i] = c[start + i]
      OBVIOUS
    <2> HIDE DEF start, end
    <2>3. /\ SubSeq(c, start + 1, end) \in Seq(Chunks) /\ Len(SubSeq(c, start + 1, end)) = Len(g)
          /\ \A i \in 1 .. Len(g) : SubSeq(c, start + 1, end)[i] = c[start + i]
      BY <1>0, <2>1, SubSeqProperties
    <2>4. SubSeq(c, start + 1, end) = g
      BY <2>2, <2>3, SeqEqual
    <2> QED BY <2>4 DEF start, end
  <1> QED BY <1>1, <1>2

LEMMA OwnRead ==
  ASSUME Owners, ReadOK, NEW p \in Procs, DiskCall(p) \/ DiskStep(p)
  PROVE  ReadAt(p)'
  <1>0. /\ Len(data) \in Nat /\ key[p] \in Keys /\ dir[key[p]] \in 0 .. Len(data)
        /\ off[p] \in Nat /\ limit[p] \in Nat /\ got[p] \in Seq(Chunks)
        /\ data \in Seq(Seq(Chunks))
    BY TypeFacts DEF Owners, DiskType, DiskTypeOK, FileTypeOK, HandleTypeOK, Chunks
  <1>1. /\ pc \in [Procs -> DiskLabels] /\ result \in [Procs -> {"none", "ok", "err"}]
        /\ off \in [Procs -> Nat] /\ got \in [Procs -> Seq(Chunks)]
        /\ expect \in [Procs -> SUBSET Seq(Chunks)] /\ fd \in [Procs -> 0 .. Len(data)]
    BY DEF Owners, DiskType, DiskTypeOK, PlaceTypeOK, HandleTypeOK, HistoryTypeOK, Chunks
  <1>2. PlaceAt(p) /\ ReadAt(p)
    BY DEF Owners, DiskType, PlaceOK, ReadOK
  <1>3. CASE DiskCall(p)
    <2>1. PICK o : \E k \in Keys, v, c \in Streams \union {NoSum} : \E from, upto, l :
             Begin(p, o, k, v, c, from, upto, l) /\ Opens(p, o, k, v, from, upto, l)
      BY <1>3 DEF DiskCall
    <2>2. PICK k \in Keys, v, c \in Streams \union {NoSum} : \E from, upto, l :
             Begin(p, o, k, v, c, from, upto, l) /\ Opens(p, o, k, v, from, upto, l)
      BY <2>1
    <2>3. PICK from, upto, l :
             Begin(p, o, k, v, c, from, upto, l) /\ Opens(p, o, k, v, from, upto, l)
      BY <2>2
    <2>4. op \in [Procs -> {"none", "Upload", "Delete", "Download", "DownloadChunk"}]
      BY DEF Owners, DiskType, DiskTypeOK, PlaceTypeOK
    <2>5. /\ pc'[p] = l /\ op'[p] = o /\ off'[p] = from /\ got'[p] = <<>> /\ expect'[p] = {}
      BY <1>1, <2>3, <2>4 DEF Begin
    <2>6. l \notin {"idle", "read"}
      BY <2>3 DEF Opens
    <2>7. o = "Download" => from = 0
      BY <2>3 DEF Opens
    <2>8. o \in Reads => from \in Nat
      BY <2>3 DEF Opens, Reads
    <2>9. Len(<<>>) = 0 /\ (from \in Nat => 0 <= from)
      OBVIOUS
    <2> QED BY <2>5, <2>6, <2>7, <2>8, <2>9 DEF ReadAt
  <1>4. CASE DiskFault(p)
    <2>1. /\ pc'[p] = "idle" /\ result'[p] = "err"
          /\ UNCHANGED <<op, off, got, expect>>
      BY <1>1, <1>4 DEF DiskFault, Return, callVars, handles, diskHistory
    <2> QED BY <1>2, <2>1 DEF ReadAt
  <1>5. CASE Create(p) \/ Copy(p) \/ Close(p) \/ Cleanup(p)
    <2>1. op[p] = "Upload" /\ op' = op
      BY <1>2, <1>5 DEF Create, Copy, Close, Cleanup, DiskFault, PlaceAt, callVars
    <2>2. expect[p] = {}
      BY <1>2, <2>1 DEF ReadAt, Reads
    <2>3. expect'[p] = {}
      <3>1. CASE expect' = expect
        BY <2>2, <3>1
      <3>2. CASE Create(p)
        BY <1>4, <2>2, <3>2 DEF Create, diskHistory, DiskFault
      <3> QED BY <1>5, <3>1, <3>2 DEF Copy, Close, Cleanup, diskHistory
    <2>4. pc'[p] # "open"
      BY <1>1, <1>5 DEF Create, Copy, Close, Cleanup, DiskFault, Goto, Return
    <2> QED BY <2>1, <2>3, <2>4 DEF ReadAt, Reads
  <1>6. CASE Remove(p)
    <2>1. op[p] = "Delete" /\ op' = op /\ expect' = expect /\ pc'[p] # "open"
      BY <1>1, <1>2, <1>6 DEF Remove, DiskFault, Return, PlaceAt, callVars, diskHistory
    <2>2. expect'[p] = {}
      BY <1>2, <2>1 DEF ReadAt, Reads
    <2> QED BY <2>1, <2>2 DEF ReadAt, Reads
  <1>7. CASE Open(p) /\ ~ DiskFault(p)
    <2>0. pc[p] = "open" /\ op[p] \in Reads /\ got[p] = <<>> /\ UNCHANGED <<op, off, got, limit>>
      BY <1>2, <1>7 DEF Open, PlaceAt, ReadAt, Reads, callVars, handles
    <2>1. CASE dir[key[p]] = 0
      <3>1. pc'[p] = "idle" /\ result'[p] = "err" /\ expect' = expect
        BY <1>1, <1>7, <2>1 DEF Open, Return, diskHistory
      <3> QED BY <1>2, <2>0, <3>1 DEF ReadAt
    <2>2. CASE dir[key[p]] # 0
      <3>1. /\ pc' = [pc EXCEPT ![p] = "read"] /\ fd' = [fd EXCEPT ![p] = dir[key[p]]]
            /\ data' = data
            /\ expect' = [expect EXCEPT ![p] =
                  IF \E q \in Procs : Mutating(q, key[p]) THEN {} ELSE {Stored(key[p])}]
        BY <1>7, <2>2 DEF Open, Goto
      <3>2. pc'[p] = "read" /\ fd'[p] = dir[key[p]]
        BY <1>1, <3>1
      <3>3. ASSUME NEW c \in expect'[p]
            PROVE  /\ data'[fd'[p]] = c
                   /\ \A q \in Procs : pc'[q] = "copy" => fd'[q] # fd'[p]
        <4>1. (\A q \in Procs : ~ Mutating(q, key[p])) /\ c = Stored(key[p])
          BY <1>1, <3>1, <3>3
        <4>2. ASSUME NEW q \in Procs, pc'[q] = "copy" PROVE fd'[q] # fd'[p]
          <5>1. q # p /\ pc[q] = "copy" /\ fd'[q] = fd[q]
            BY <1>1, <3>1, <3>2, <4>2
          <5>2. op[q] = "Upload" /\ fd[q] # 0
            BY <5>1 DEF Owners, DiskType, PlaceOK, PlaceAt
          <5>3. key[q] # key[p]
            BY <4>1, <5>1, <5>2 DEF Mutating, Mutators
          <5> QED BY <1>0, <3>2, <5>1, <5>2, <5>3 DEF Owners, ApartOK
        <4> QED BY <3>1, <3>2, <4>1, <4>2 DEF Stored
      <3>4. got'[p] = <<>> /\ Len(got'[p]) = 0 /\ op'[p] = op[p] /\ off'[p] = off[p]
        BY <2>0
      <3>5. (op[p] \in Reads => Len(got[p]) <= off[p]) /\ (op[p] = "Download" => off[p] = Len(got[p]))
        BY <1>2 DEF ReadAt
      <3> QED BY <2>0, <3>2, <3>3, <3>4, <3>5 DEF ReadAt
    <2> QED BY <2>1, <2>2
  <1>8. CASE Read(p) /\ ~ DiskFault(p) /\ ~ AtEnd(p)
    <2>0. pc[p] = "read" /\ op[p] \in Reads /\ UNCHANGED <<op, pc, fd, data, expect, limit>>
      BY <1>2, <1>8 DEF Read, PlaceAt, Reads, callVars, diskHistory
    <2>1. /\ off' = [off EXCEPT ![p] = off[p] + 1]
          /\ got' = [got EXCEPT ![p] = Append(got[p], File(p)[off[p] + 1])]
      BY <1>8 DEF Read
    <2>2. off'[p] = off[p] + 1 /\ got'[p] = Append(got[p], File(p)[off[p] + 1])
      BY <1>1, <2>1
    <2>3. File(p) \in Seq(Chunks) /\ ~ off[p] >= Len(File(p))
      BY <1>0, <1>8, <2>0, TypeFacts DEF File, AtEnd, Owners, DiskType
    <2>4. got'[p] \in Seq(Chunks) /\ Len(got'[p]) = Len(got[p]) + 1
      BY <1>0, <2>2, <2>3, ChunkRead
    <2>5. /\ Len(got[p]) <= off[p] /\ (op[p] = "Download" => off[p] = Len(got[p]))
      BY <1>2, <2>0 DEF ReadAt
    <2>6. Len(got'[p]) <= off'[p] /\ (op[p] = "Download" => off'[p] = Len(got'[p]))
      BY <1>0, <2>2, <2>4, <2>5
    <2>7. op[p] = "DownloadChunk" => off'[p] <= limit[p]
      BY <1>0, <1>8, <2>2 DEF AtEnd
    <2>8. ASSUME NEW c \in expect[p]
          PROVE  /\ off'[p] <= Len(c)
                 /\ \A i \in 1 .. Len(got'[p]) : got'[p][i] = c[off'[p] - Len(got'[p]) + i]
      <3>1. File(p) = c /\ \A i \in 1 .. Len(got[p]) : got[p][i] = c[off[p] - Len(got[p]) + i]
        BY <1>2, <2>0 DEF ReadAt, File
      <3>2. /\ c \in Seq(Chunks) /\ ~ off[p] >= Len(c)
            /\ got'[p] = Append(got[p], c[off[p] + 1])
        BY <2>2, <2>3, <3>1
      <3> DEFINE g == got[p]
                 h == got'[p]
                 o == off[p]
      <3>3. /\ c \in Seq(Chunks) /\ g \in Seq(Chunks) /\ o \in Nat /\ h \in Seq(Chunks)
            /\ Len(g) <= o /\ ~ o >= Len(c) /\ h = Append(g, c[o + 1])
            /\ \A i \in 1 .. Len(g) : g[i] = c[o - Len(g) + i]
        BY <1>0, <2>4, <2>5, <3>1, <3>2
      <3> HIDE DEF g, h, o
      <3>4. o + 1 <= Len(c) /\ \A i \in 1 .. Len(h) : h[i] = c[(o + 1) - Len(h) + i]
        BY <3>3, ReadMore
      <3> QED BY <2>2, <3>4 DEF g, h, o
    <2>9. \A c \in expect[p] : /\ data[fd[p]] = c
                              /\ \A q \in Procs : pc[q] = "copy" => fd[q] # fd[p]
      BY <1>2, <2>0 DEF ReadAt
    <2> QED BY <2>0, <2>6, <2>7, <2>8, <2>9 DEF ReadAt
  <1>9. CASE Read(p) /\ ~ DiskFault(p) /\ AtEnd(p)
    <2>0. /\ pc[p] = "read" /\ op[p] \in Reads /\ pc'[p] = "idle"
          /\ UNCHANGED <<op, fd, data, off, got, expect, limit>>
      BY <1>1, <1>2, <1>9 DEF Read, Return, PlaceAt, Reads, callVars, handles, diskHistory
    <2>1. ASSUME NEW c \in expect[p] PROVE got[p] = Slice(p, c)
      <3>0. c \in Seq(Chunks)
        BY <1>1
      <3>1. /\ File(p) = c /\ Len(got[p]) <= off[p] /\ (op[p] = "Download" => off[p] = Len(got[p]))
            /\ got[p] # <<>> => off[p] <= Len(c) /\ (op[p] = "DownloadChunk" => off[p] <= limit[p])
            /\ \A i \in 1 .. Len(got[p]) : got[p][i] = c[off[p] - Len(got[p]) + i]
        BY <1>2, <2>0 DEF ReadAt, File
      <3>2. CASE op[p] = "Download"
        <4>1. off[p] >= Len(c)
          BY <1>9, <3>1, <3>2 DEF AtEnd
        <4>2. got[p] = c
          BY <1>0, <3>0, <3>1, <3>2, <4>1, ReadAll
        <4> QED BY <3>2, <4>2 DEF Slice
      <3>3. CASE op[p] = "DownloadChunk"
        <4>1. off[p] >= Len(c) \/ off[p] >= limit[p]
          BY <1>9, <3>1 DEF AtEnd
        <4>2. got[p] = SubSeq(c, off[p] - Len(got[p]) + 1,
                              IF limit[p] < Len(c) THEN limit[p] ELSE Len(c))
          BY <1>0, <3>0, <3>1, <3>3, <4>1, ReadRange
        <4> QED BY <3>3, <4>2 DEF Slice
      <3> QED BY <2>0, <3>2, <3>3 DEF Reads
    <2>2. \A c : Slice(p, c)' = Slice(p, c)
      BY <2>0 DEF Slice
    <2> QED BY <1>2, <2>0, <2>1, <2>2 DEF ReadAt
  <1> QED BY <1>3, <1>4, <1>5, <1>6, <1>7, <1>8, <1>9 DEF DiskStep

-----------------------------------------------------------------------------
(* The invariant.                                                           *)

DiskInv == ServiceInv /\ ReadOK

LEMMA InitInv == Init => DiskInv
  <1> SUFFICES ASSUME Init PROVE DiskInv
    OBVIOUS
  <1>1. /\ data \in Seq(Seq(Chunks)) /\ dir \in [Keys -> 0 .. Len(data)]
        /\ \A k, l \in Keys : dir[k] = dir[l] => k = l \/ dir[k] = 0
    BY DEF Init, DiskInit
  <1>2. ServiceInv
    BY <1>1, ServiceInit DEF Init, DiskInit
  <1>3. ReadOK
    BY DEF Init, DiskInit, CallsInit, ReadOK, ReadAt, Reads
  <1> QED BY <1>2, <1>3 DEF DiskInv

LEMMA InvStep ==
  ASSUME DiskInv, [Next]_diskVars
  PROVE  DiskInv'
  <1>1. CASE UNCHANGED diskVars
    <2>1. ServiceInv'
      BY <1>1, ServiceQuiet DEF DiskInv, Quiet, diskVars
    <2>2. ReadOK'
      BY <1>1 DEF DiskInv, ReadOK, ReadAt, Slice, diskVars, callVars, handles, diskHistory
    <2> QED BY <2>1, <2>2 DEF DiskInv
  <1>2. ASSUME NEW p \in Procs, DiskCall(p) \/ DiskStep(p) PROVE DiskInv'
    <2>1. ServiceInv'
      BY <1>2, ServiceStep DEF DiskInv
    <2>2. ReadOK'
      BY <1>2, OwnRead, OtherRead DEF DiskInv, ServiceInv, ReadOK
    <2> QED BY <2>1, <2>2 DEF DiskInv
  <1> QED BY <1>1, <1>2, ClientCalls DEF Next

\* The invariant holds of every behaviour.
THEOREM DiskInvariant == Spec => []DiskInv
  BY InitInv, InvStep, PTL DEF Spec

\* Every variable keeps its type: in particular a handle and a directory entry are
\* always inodes that exist, and io.Copy never runs without a file.
THEOREM DiskTypeCorrect == Spec => []TypeOK
  <1>1. DiskInv => TypeOK
    BY DEF DiskInv, ServiceInv, Owners, DiskType, TypeOK
  <1> QED BY <1>1, DiskInvariant, PTL

\* An Upload that returned nil stored its stream whole, of whatever length and
\* whatever the other goroutines did to other keys, as long as it was alone with
\* its own.
THEOREM UploadIsStored == Spec => []UploadStores
  <1>1. DiskInv => UploadStores
    BY DEF DiskInv, ServiceInv, UploadOK, UploadAt, UploadStores, Stored
  <1> QED BY <1>1, DiskInvariant, PTL

\* An Upload that was alone and failed after os.Create leaves nothing under its
\* key, unless the removal of the partial file failed too.
THEOREM FailureCleansUp == Spec => []FailureLeavesNothing
  <1>1. DiskInv => FailureLeavesNothing
    BY DEF DiskInv, ServiceInv, UploadOK, UploadAt, FailureLeavesNothing
  <1> QED BY <1>1, DiskInvariant, PTL

\* A read that opened an object nobody was writing returns that object, or the
\* range of it that was asked for, though deletes and uploads of the key run
\* meanwhile: unless one truncates the very file it has open.
THEOREM ReadIsStored == Spec => []ReadsStored
  <1>1. DiskInv => ReadsStored
    BY DEF DiskInv, ReadOK, ReadAt, ReadsStored
  <1> QED BY <1>1, DiskInvariant, PTL

-----------------------------------------------------------------------------
(* The service as an object store.                                          *)

\* Who is writing a key changes only with the goroutine that takes the step.
LEMMA WritersKept ==
  ASSUME DiskType, NEW p \in Procs, DiskCall(p) \/ DiskStep(p), NEW k,
         Writing(p, k)' <=> Writing(p, k)
  PROVE  (\E q \in Procs : Writing(q, k))' <=> \E q \in Procs : Writing(q, k)
  <1>1. ASSUME NEW q \in Procs, q # p PROVE Writing(q, k)' <=> Writing(q, k)
    BY <1>1, OthersKept DEF Writing, DiskType
  <1> QED BY <1>1

\* What a call that begins changes: nothing but, perhaps, that its key is spoilt.
LEMMA ObjectsOfCall ==
  ASSUME DiskType, NEW p \in Procs, DiskCall(p), NEW k \in Keys
  PROVE  /\ Object(k)' = Object(k) \/ Object(k)' = {}
         /\ k # key'[p] => Object(k)' = Object(k)
  <1>1. PICK o : \E j \in Keys, v, c \in Streams \union {NoSum} : \E from, upto, l :
           Begin(p, o, j, v, c, from, upto, l) /\ Opens(p, o, j, v, from, upto, l)
    BY DEF DiskCall
  <1>2. PICK j \in Keys : \E v, c \in Streams \union {NoSum} : \E from, upto, l :
           Begin(p, o, j, v, c, from, upto, l) /\ Opens(p, o, j, v, from, upto, l)
    BY <1>1
  <1>3. /\ pc[p] = "idle" /\ pc'[p] \in {"create", "remove", "open"} /\ key'[p] = j
        /\ UNCHANGED <<dir, data>> /\ spoilt' \in {spoilt, spoilt \union {j}}
    BY <1>2 DEF Begin, Opens, DiskType, DiskTypeOK, PlaceTypeOK
  <1>4. Writing(p, k)' <=> Writing(p, k)
    BY <1>3 DEF Writing
  <1>5. (\E q \in Procs : Writing(q, k))' <=> \E q \in Procs : Writing(q, k)
    BY <1>4, WritersKept
  <1> QED BY <1>3, <1>5 DEF Object, Stored

\* A step touches the objects of its own key only.
LEMMA OtherObjects ==
  ASSUME Owners, NEW p \in Procs, DiskStep(p), NEW k \in Keys, k # key[p]
  PROVE  Object(k)' = Object(k)
  <1>1. key' = key
    BY OwnCall DEF Owners, callVars, DiskStep, Create, Copy, Close, Cleanup, Remove, Open, Read
  <1>2. dir'[k] = dir[k] /\ (dir[k] # 0 => data'[dir[k]] = data[dir[k]])
    BY NotMine DEF Mutating
  <1>3. k \in spoilt' <=> k \in spoilt
    BY DEF DiskStep, DiskFault, Create, Copy, Close, Cleanup, Remove, Open, Read, diskHistory
  <1>4. (\E q \in Procs : Writing(q, k))' <=> \E q \in Procs : Writing(q, k)
    BY <1>1, WritersKept DEF Writing, Owners
  <1> QED BY <1>2, <1>3, <1>4 DEF Object, Stored

\* Its own object disappears, or appears whole when the upload returns.
LEMMA OwnObject ==
  ASSUME DiskInv, NEW p \in Procs, DiskStep(p), NEW k \in Keys, k = key[p]
  PROVE  \/ Object(k)' = Object(k) \/ Object(k)' = {}
         \/ Object(k) = {} /\ \E v \in Streams : Object(k)' = {Whole(v)}
  <1>0. /\ pc \in [Procs -> DiskLabels] /\ dir \in [Keys -> 0 .. Len(data)]
        /\ key' = key /\ PlaceAt(p)
    BY TypeFacts, OwnCall DEF DiskInv, ServiceInv, Owners, DiskType, DiskTypeOK, FileTypeOK, PlaceTypeOK, PlaceOK,
       callVars, DiskStep, Create, Copy, Close, Cleanup, Remove, Open, Read
  <1>1. CASE pc'[p] \in {"copy", "close", "cleanup"}
    <2>1. Writing(p, k)'
      BY <1>0, <1>1 DEF Writing
    <2> QED BY <1>0, <2>1 DEF Object
  <1>2. CASE pc[p] \notin {"copy", "close", "cleanup"} /\ pc'[p] \notin {"copy", "close", "cleanup"}
             /\ UNCHANGED <<dir, data, spoilt>>
    <2>1. Writing(p, k)' <=> Writing(p, k)
      BY <1>2 DEF Writing
    <2>2. (\E q \in Procs : Writing(q, k))' <=> \E q \in Procs : Writing(q, k)
      BY <2>1, WritersKept DEF DiskInv, ServiceInv, Owners
    <2> QED BY <1>0, <1>2, <2>2 DEF Object, Stored
  <1>3. CASE Close(p) /\ Return(p, "ok")
    <2>1. /\ pc[p] = "close" /\ op[p] = "Upload" /\ stream[p] \in Streams
          /\ limit[p] = Length[stream[p]] /\ UNCHANGED <<dir, data, spoilt>>
      BY <1>0, <1>3 DEF Close, PlaceAt, diskHistory
    <2>2. Object(k) = {}
      BY <2>1 DEF Object, Writing
    <2>3. k \notin spoilt => data[dir[k]] = Whole(stream[p])
      <3>1. k \notin spoilt => alone[p]
        BY <2>1 DEF DiskInv, ServiceInv, Owners, AloneOK, Mutating, Mutators
      <3>2. alone[p] => data[dir[k]] = Prefix(stream[p], Length[stream[p]])
        BY <2>1 DEF DiskInv, ServiceInv, UploadOK, UploadAt
      <3>3. Prefix(stream[p], Length[stream[p]]) = Whole(stream[p])
        BY DEF Prefix, Whole
      <3> QED BY <3>1, <3>2, <3>3
    <2>4. Object(k)' \in {{}, {Whole(stream[p])}}
      BY <1>0, <2>1, <2>3 DEF Object, Stored
    <2> QED BY <1>0, <2>1, <2>2, <2>4
  <1>4. CASE Cleanup(p)
    <2>1. dir'[k] = 0 \/ k \in spoilt'
      BY <1>0, <1>4 DEF Cleanup
    <2> QED BY <1>0, <2>1 DEF Object
  <1>5. CASE Remove(p) /\ ~ DiskFault(p)
    <2>1. dir'[k] = 0
      BY <1>0, <1>5 DEF Remove
    <2> QED BY <1>0, <2>1 DEF Object
  <1>6. CASE (Create(p) \/ Remove(p)) /\ DiskFault(p)
    BY <1>0, <1>2, <1>6 DEF Create, Remove, DiskFault, Return, diskHistory
  <1>7. CASE Open(p) \/ Read(p)
    BY <1>0, <1>2, <1>7 DEF Open, Read, DiskFault, Goto, Return, diskHistory
  <1>8. CASE (Create(p) /\ ~ DiskFault(p)) \/ Copy(p) \/ (Close(p) /\ ~ Return(p, "ok"))
    BY <1>0, <1>1, <1>8 DEF Create, Copy, Close, Goto
  <1> QED BY <1>3, <1>4, <1>5, <1>6, <1>7, <1>8 DEF DiskStep

\* One key's object is put or removed, or nothing changes.
LEMMA OneObject ==
  ASSUME NEW k \in Keys,
         \/ Object(k)' = Object(k) \/ Object(k)' = {}
         \/ Object(k) = {} /\ \E v \in Streams : Object(k)' = {Whole(v)},
         \A j \in Keys \ {k} : Object(j)' = Object(j)
  PROVE  [Objects!Next]_ObjectsNow
  <1>1. ASSUME NEW j \in Keys PROVE ObjectsNow[j] = Object(j) /\ ObjectsNow'[j] = Object(j)'
    BY DEF ObjectsNow
  <1>2. ObjectsNow' = [ObjectsNow EXCEPT ![k] = Object(k)']
    BY DEF ObjectsNow
  <1>3. CASE Object(k)' = Object(k)
    BY <1>3 DEF ObjectsNow
  <1>4. CASE Object(k)' = {} /\ Object(k) # {}
    BY <1>1, <1>2, <1>4 DEF Objects!Next, Objects!Remove
  <1>5. CASE Object(k) = {} /\ \E v \in Streams : Object(k)' = {Whole(v)}
    <2>1. \E c \in {Whole(v) : v \in Streams} : Object(k)' = {c}
      BY <1>5
    <2> QED BY <1>1, <1>2, <1>5, <2>1 DEF Objects!Next, Objects!Put
  <1> QED BY <1>3, <1>4, <1>5

LEMMA ObjectStoreStep ==
  ASSUME DiskInv, [Next]_diskVars
  PROVE  [Objects!Next]_ObjectsNow
  <1>1. CASE UNCHANGED diskVars
    BY <1>1 DEF diskVars, callVars, handles, diskHistory, ObjectsNow, Object, Stored, Writing
  <1>2. ASSUME NEW p \in Procs, DiskCall(p) PROVE [Objects!Next]_ObjectsNow
    <2>1. PICK k \in Keys : k = key'[p]
      BY <1>2, PlaceTypeStep DEF DiskInv, ServiceInv, Owners, PlaceTypeOK
    <2>2. Object(k)' = Object(k) \/ Object(k)' = {}
      BY <1>2, ObjectsOfCall DEF DiskInv, ServiceInv, Owners
    <2>3. \A j \in Keys \ {k} : Object(j)' = Object(j)
      BY <1>2, <2>1, ObjectsOfCall DEF DiskInv, ServiceInv, Owners
    <2> QED BY <2>2, <2>3, OneObject
  <1>3. ASSUME NEW p \in Procs, DiskStep(p) PROVE [Objects!Next]_ObjectsNow
    <2>1. PICK k \in Keys : k = key[p]
      BY TypeFacts DEF DiskInv, ServiceInv, Owners, DiskType
    <2>2. \/ Object(k)' = Object(k) \/ Object(k)' = {}
          \/ Object(k) = {} /\ \E v \in Streams : Object(k)' = {Whole(v)}
      BY <1>3, <2>1, OwnObject
    <2>3. \A j \in Keys \ {k} : Object(j)' = Object(j)
      BY <1>3, <2>1, OtherObjects DEF DiskInv, ServiceInv
    <2> QED BY <2>2, <2>3, OneObject
  <1> QED BY <1>1, <1>2, <1>3, ClientCalls DEF Next

\* The disk service implements an ObjectStore: a key whose mutations do not overlap
\* holds nothing or one content, whole, each step changes one key at most, and an
\* object is replaced by way of nothing, until a partial file cannot be removed.
THEOREM DiskIsObjectStore == Spec => IsObjectStore
  <1>1. Init => Objects!Init
    BY DEF Init, DiskInit, Objects!Init, ObjectsNow, Object
  <1> QED BY <1>1, ObjectStoreStep, DiskInvariant, PTL DEF Spec, IsObjectStore, Objects!Spec
=============================================================================
