------------------------------ MODULE DiskService ------------------------------
(***************************************************************************)
(* The local-filesystem service of disk_service.go: Upload, Download,      *)
(* DownloadChunk and Delete as the system calls they make, interleaved with *)
(* those of other goroutines on the same key.                              *)
(*                                                                         *)
(* The filesystem is a directory from keys to inodes and the bytes of the  *)
(* inodes: a handle keeps its inode when the entry is removed or replaced, *)
(* creating an existing file truncates it in place, and each handle has an *)
(* offset of its own.  Bytes come in the chunks io.Copy moves (32 KB); a   *)
(* file is a sequence of chunks, each named by the stream it came from, and *)
(* a Hole where nothing was written.  The digest of a stream is the stream *)
(* itself: MD5 is taken to tell the streams of a behaviour apart.          *)
(***************************************************************************)
EXTENDS Integers, Sequences, FiniteSets

CONSTANTS
    Procs,       \* goroutines
    Keys,        \* storage keys
    Streams,     \* the contents that are uploaded
    Length,      \* their lengths in chunks
    ReaderFails, \* may the caller's io.Reader fail
    MaxCalls,    \* bound: calls made in a behaviour
    MaxFaults,   \* bound: system calls that fail in a behaviour
    NoSum,       \* the empty checksum
    Hole         \* a chunk that was never written

ASSUME LengthAssumption == Length \in [Streams -> Nat]
ASSUME NoSumAssumption == NoSum \notin Streams /\ Hole \notin Streams
ASSUME DiskBoundsAssumption ==
    MaxCalls \in Nat /\ MaxFaults \in Nat /\ ReaderFails \in BOOLEAN

VARIABLES
    dir,         \* dir[k]: the inode the path of key k names, 0 for none
    data,        \* data[i]: the chunks of inode i
    pc,          \* the system call the process makes next
    op, key,     \* the call in progress, or the last one
    stream,      \* what an Upload reads from its io.Reader
    sum,         \* the checksum it was given
    fd,          \* the inode of the open file, 0 for none
    off, limit,  \* its offset, and where a read stops
    got,         \* the chunks a read has returned
    result,      \* what the last call returned
    calls, faults,  \* calls begun and system calls failed so far
    alone,       \* history: no other mutation of the key ran during or after the call
    leftover,    \* history: the call failed to remove its partial file
    expect,      \* history: what a reader found stored when it opened the file
    spoilt       \* history: keys whose mutations overlapped, or with a leftover

callVars == <<op, key, stream, sum>>
handles == <<fd, off, limit, got>>
diskHistory == <<alone, leftover, expect, spoilt>>
diskVars == <<dir, data, pc, callVars, handles, result, calls, faults, diskHistory>>

DiskLabels == {"idle", "create", "copy", "close", "cleanup", "remove", "open", "read"}
Mutators == {"Upload", "Delete"}

\* The file a stream leaves when it is written whole.
Whole(v) == [i \in 1 .. Length[v] |-> v]

\* No call has been made yet.
CallsInit ==
    /\ pc = [p \in Procs |-> "idle"]
    /\ op = [p \in Procs |-> "none"]
    /\ \E k \in Keys : key = [p \in Procs |-> k]
    /\ stream = [p \in Procs |-> NoSum]
    /\ sum = [p \in Procs |-> NoSum]
    /\ fd = [p \in Procs |-> 0]
    /\ off = [p \in Procs |-> 0]
    /\ limit = [p \in Procs |-> 0]
    /\ got = [p \in Procs |-> <<>>]
    /\ result = [p \in Procs |-> "none"]
    /\ calls = 0 /\ faults = 0
    /\ alone = [p \in Procs |-> FALSE]
    /\ leftover = [p \in Procs |-> FALSE]
    /\ expect = [p \in Procs |-> {}]
    /\ spoilt = {}

\* An empty root directory.
DiskInit ==
    /\ dir = [k \in Keys |-> 0]
    /\ data = <<>>
    /\ CallsInit

-----------------------------------------------------------------------------
(* The calls of the Service interface.                                      *)

\* A mutation of key k is in progress in process q.
Mutating(q, k) == pc[q] # "idle" /\ op[q] \in Mutators /\ key[q] = k

Begin(p, o, k, v, c, from, upto, first) ==
    /\ pc[p] = "idle" /\ calls < MaxCalls
    /\ calls' = calls + 1
    /\ pc' = [pc EXCEPT ![p] = first]
    /\ op' = [op EXCEPT ![p] = o]
    /\ key' = [key EXCEPT ![p] = k]
    /\ stream' = [stream EXCEPT ![p] = v]
    /\ sum' = [sum EXCEPT ![p] = c]
    /\ fd' = [fd EXCEPT ![p] = 0]
    /\ off' = [off EXCEPT ![p] = from]
    /\ limit' = [limit EXCEPT ![p] = upto]
    /\ got' = [got EXCEPT ![p] = <<>>]
    /\ result' = [result EXCEPT ![p] = "none"]
    /\ alone' = [q \in Procs |->
                   IF q = p THEN \A r \in Procs \ {p} : ~ Mutating(r, k)
                   ELSE alone[q] /\ ~ (o \in Mutators /\ key[q] = k)]
    /\ leftover' = [leftover EXCEPT ![p] = FALSE]
    /\ expect' = [expect EXCEPT ![p] = {}]
    /\ spoilt' = IF o \in Mutators /\ ~ alone'[p] THEN spoilt \union {k} ELSE spoilt
    /\ UNCHANGED <<dir, data, faults>>

Upload(p, k, v, c) == Begin(p, "Upload", k, v, c, 0, Length[v], "create")
Delete(p, k) == Begin(p, "Delete", k, NoSum, NoSum, 0, 0, "remove")
Download(p, k) == Begin(p, "Download", k, NoSum, NoSum, 0, 0, "open")
DownloadChunk(p, k, offset, length) ==
    Begin(p, "DownloadChunk", k, NoSum, NoSum, offset, offset + length, "open")

Return(p, r) ==
    /\ pc' = [pc EXCEPT ![p] = "idle"]
    /\ result' = [result EXCEPT ![p] = r]

Goto(p, l) == pc' = [pc EXCEPT ![p] = l] /\ UNCHANGED result

CountFault == faults < MaxFaults /\ faults' = faults + 1

\* A system call fails and the call returns its error.
DiskFault(p) ==
    /\ CountFault
    /\ Return(p, "err")
    /\ UNCHANGED <<dir, data, callVars, handles, calls, diskHistory>>

\* What a path names, and what a writer at offset o makes of a file.
Stored(k) == data[dir[k]]
PutAt(file, o, c) ==
    [i \in 1 .. IF o < Len(file) THEN Len(file) ELSE o + 1 |->
        CASE i = o + 1 -> c
          [] i # o + 1 /\ i <= Len(file) -> file[i]
          [] OTHER -> Hole]

-----------------------------------------------------------------------------
(* Upload.                                                                  *)

\* Faulty variant: the file is opened without O_TRUNC.
OpenForWriteKeeps(k) ==
    IF dir[k] # 0 THEN UNCHANGED <<dir, data>>
    ELSE /\ data' = Append(data, <<>>)
         /\ dir' = [dir EXCEPT ![k] = Len(data')]

\* os.Create: a file that is there is truncated in place.
OpenForWrite(k) ==
    IF dir[k] # 0
    THEN /\ data' = [data EXCEPT ![dir[k]] = <<>>]
         /\ UNCHANGED dir
    ELSE /\ data' = Append(data, <<>>)
         /\ dir' = [dir EXCEPT ![k] = Len(data')]

\* Faulty variant: the error of fsCreate is not looked at.
CreateUnchecked(p) ==
    /\ pc[p] = "create"
    /\ \/ /\ OpenForWrite(key[p])
          /\ fd' = [fd EXCEPT ![p] = dir'[key[p]]]
          /\ UNCHANGED faults
       \/ CountFault /\ UNCHANGED <<dir, data, fd>>
    /\ Goto(p, "copy")
    /\ UNCHANGED <<callVars, off, limit, got, calls, diskHistory>>

\* MkdirAll and fsCreate; a failure of either leaves what was stored.  Those who
\* read a file that is truncated lose what they opened.
Create(p) ==
    /\ pc[p] = "create"
    /\ \/ /\ OpenForWrite(key[p])
          /\ fd' = [fd EXCEPT ![p] = dir'[key[p]]]
          /\ Goto(p, "copy")
          /\ expect' = [q \in Procs |->
                IF pc[q] = "read" /\ fd[q] = fd'[p] THEN {} ELSE expect[q]]
          /\ UNCHANGED <<callVars, off, limit, got, calls, faults, alone, leftover, spoilt>>
       \/ DiskFault(p)

\* io.Copy writes the next chunk of the stream at the handle's own offset; a
\* failing read of the stream or write of the file ends it.
Copy(p) ==
    /\ pc[p] = "copy"
    /\ \/ /\ off[p] < limit[p]
          /\ data' = [data EXCEPT ![fd[p]] = PutAt(@, off[p], stream[p])]
          /\ off' = [off EXCEPT ![p] = @ + 1]
          /\ UNCHANGED <<dir, pc, callVars, fd, limit, got, result, calls, faults, diskHistory>>
       \/ /\ off[p] = limit[p]
          /\ Goto(p, "close")
          /\ UNCHANGED <<dir, data, callVars, handles, calls, faults, diskHistory>>
       \/ /\ \/ ReaderFails /\ UNCHANGED faults
             \/ CountFault
          /\ Goto(p, "cleanup")
          /\ UNCHANGED <<dir, data, callVars, handles, calls, diskHistory>>

\* The digest is of the bytes read from the stream, not of the file.
DigestMatches(p) == sum[p] \in {NoSum, stream[p]}

\* Close, and the comparison of the digest where a checksum was given.
Close(p) ==
    /\ pc[p] = "close"
    /\ \/ DigestMatches(p) /\ Return(p, "ok") /\ UNCHANGED faults
       \/ ~ DigestMatches(p) /\ Goto(p, "cleanup") /\ UNCHANGED faults
       \/ CountFault /\ Goto(p, "cleanup")
    /\ UNCHANGED <<dir, data, callVars, handles, calls, diskHistory>>

\* Faulty variant: the partial file stays.
CleanupSkipped(p) ==
    /\ pc[p] = "cleanup"
    /\ Return(p, "err")
    /\ UNCHANGED <<dir, data, callVars, handles, calls, faults, diskHistory>>

\* fsRemove of the path, whichever file it names by now; its error is ignored.
Cleanup(p) ==
    /\ pc[p] = "cleanup"
    /\ Return(p, "err")
    /\ \/ /\ dir' = [dir EXCEPT ![key[p]] = 0]
          /\ UNCHANGED <<faults, leftover, spoilt>>
       \/ /\ CountFault
          /\ leftover' = [leftover EXCEPT ![p] = TRUE]
          /\ spoilt' = spoilt \union {key[p]}
          /\ UNCHANGED dir
    /\ UNCHANGED <<data, callVars, handles, calls, alone, expect>>

-----------------------------------------------------------------------------
(* Delete, Download and DownloadChunk.                                      *)

\* Removing a key that is not there succeeds.
Remove(p) ==
    /\ pc[p] = "remove"
    /\ \/ /\ dir' = [dir EXCEPT ![key[p]] = 0]
          /\ Return(p, "ok")
          /\ UNCHANGED <<data, callVars, handles, calls, faults, diskHistory>>
       \/ DiskFault(p)

\* os.Open; what is stored now is remembered if nobody is writing it.
Open(p) ==
    /\ pc[p] = "open"
    /\ \/ /\ dir[key[p]] # 0
          /\ fd' = [fd EXCEPT ![p] = dir[key[p]]]
          /\ expect' = [expect EXCEPT ![p] =
                IF \E q \in Procs : Mutating(q, key[p]) THEN {} ELSE {Stored(key[p])}]
          /\ Goto(p, "read")
          /\ UNCHANGED <<dir, data, callVars, off, limit, got, calls, faults, alone, leftover, spoilt>>
       \/ /\ dir[key[p]] = 0
          /\ Return(p, "err")
          /\ UNCHANGED <<dir, data, callVars, handles, calls, faults, diskHistory>>
       \/ DiskFault(p)

\* Faulty variant: each read looks the key up again.
FileNow(p) == IF dir[key[p]] = 0 THEN <<>> ELSE Stored(key[p])

\* The open file.
File(p) == data[fd[p]]

\* A read ends at the end of the file or, for DownloadChunk, of the range.
AtEnd(p) ==
    \/ off[p] >= Len(File(p))
    \/ op[p] = "DownloadChunk" /\ off[p] >= limit[p]

\* The next chunk at the handle's own offset; the end is not an error.
Read(p) ==
    /\ pc[p] = "read"
    /\ \/ /\ ~ AtEnd(p)
          /\ got' = [got EXCEPT ![p] = Append(@, File(p)[off[p] + 1])]
          /\ off' = [off EXCEPT ![p] = @ + 1]
          /\ UNCHANGED <<dir, data, pc, callVars, fd, limit, result, calls, faults, diskHistory>>
       \/ /\ AtEnd(p)
          /\ Return(p, "ok")
          /\ UNCHANGED <<dir, data, callVars, handles, calls, faults, diskHistory>>
       \/ DiskFault(p)

DiskStep(p) ==
    \/ Create(p) \/ Copy(p) \/ Close(p) \/ Cleanup(p)
    \/ Remove(p) \/ Open(p) \/ Read(p)

-----------------------------------------------------------------------------

FileTypeOK ==
    /\ data \in Seq(Seq(Streams \union {Hole}))
    /\ dir \in [Keys -> 0 .. Len(data)]
    /\ calls \in 0 .. MaxCalls /\ faults \in 0 .. MaxFaults

PlaceTypeOK ==
    /\ pc \in [Procs -> DiskLabels]
    /\ op \in [Procs -> {"none", "Upload", "Delete", "Download", "DownloadChunk"}]
    /\ key \in [Procs -> Keys]
    /\ stream \in [Procs -> Streams \union {NoSum}]
    /\ sum \in [Procs -> Streams \union {NoSum}]
    /\ result \in [Procs -> {"none", "ok", "err"}]

HandleTypeOK ==
    /\ fd \in [Procs -> 0 .. Len(data)]
    /\ off \in [Procs -> Nat] /\ limit \in [Procs -> Nat]
    /\ got \in [Procs -> Seq(Streams \union {Hole})]
    /\ \A p \in Procs : pc[p] \in {"copy", "close", "read"} => fd[p] # 0

HistoryTypeOK ==
    /\ alone \in [Procs -> BOOLEAN] /\ leftover \in [Procs -> BOOLEAN]
    /\ expect \in [Procs -> SUBSET Seq(Streams \union {Hole})]
    /\ spoilt \subseteq Keys

\* Every variable keeps its type, and an open file is an inode that exists.
DiskTypeOK == FileTypeOK /\ PlaceTypeOK /\ HandleTypeOK /\ HistoryTypeOK
=============================================================================
