------------------------------ MODULE DiskClients ------------------------------
(***************************************************************************)
(* The disk service under callers that use its interface directly, and the *)
(* properties of what it stores.                                           *)
(***************************************************************************)
EXTENDS DiskService

CONSTANTS Offsets, Sizes  \* ranges given to DownloadChunk

ASSUME RangesAssumption == Offsets \subseteq Nat /\ Sizes \subseteq Nat

\* A checksum, where one is given, is the digest of some content.
ClientUpload(p) == \E k \in Keys, v \in Streams, c \in Streams \union {NoSum} :
    Upload(p, k, v, c)

ClientDelete(p) == \E k \in Keys : Delete(p, k)

ClientRead(p) == \E k \in Keys :
    \/ Download(p, k)
    \/ \E offset \in Offsets, length \in Sizes : DownloadChunk(p, k, offset, length)

Init == DiskInit

Next == \E p \in Procs :
    ClientUpload(p) \/ ClientDelete(p) \/ ClientRead(p) \/ DiskStep(p)

Spec == Init /\ [][Next]_diskVars

-----------------------------------------------------------------------------

\* Every variable keeps its type, and an open file is an inode that exists.
TypeOK == DiskTypeOK

\* An Upload that returned nil stored its stream whole, if no other mutation of
\* the key ran during it or has begun since.
UploadStores ==
    \A p \in Procs :
        pc[p] = "idle" /\ op[p] = "Upload" /\ result[p] = "ok" /\ alone[p] =>
            dir[key[p]] # 0 /\ Stored(key[p]) = Whole(stream[p])

\* An Upload that failed after it created its file leaves nothing under the key,
\* neither a part of its stream nor the object that was there, if it ran alone
\* and the file could be removed.
FailureLeavesNothing ==
    \A p \in Procs :
        pc[p] = "idle" /\ op[p] = "Upload" /\ result[p] = "err" /\ fd[p] # 0
        /\ alone[p] /\ ~ leftover[p] => dir[key[p]] = 0

\* What a read of content c returns: all of it, or the range asked for.
Slice(p, c) ==
    LET start == off[p] - Len(got[p])
        end == IF limit[p] < Len(c) THEN limit[p] ELSE Len(c)
    IN IF op[p] = "Download" THEN c ELSE SubSeq(c, start + 1, end)

\* A read that opened an object nobody was writing returns it (or the range it
\* asked for, cut at the end), though the object is deleted and the key is given
\* a new one meanwhile; unless an upload overwrites it in place.
ReadsStored ==
    \A p \in Procs : pc[p] = "idle" /\ result[p] = "ok" =>
        \A c \in expect[p] : got[p] = Slice(p, c)

\* Process q has opened the file of key k for writing and is not done.
Writing(q, k) == pc[q] \in {"copy", "close", "cleanup"} /\ key[q] = k

\* The object under key k, if there is one that nobody is writing.
Object(k) ==
    IF dir[k] = 0 \/ k \in spoilt \/ \E q \in Procs : Writing(q, k) THEN {} ELSE {Stored(k)}

ObjectsNow == [k \in Keys |-> Object(k)]

Objects == INSTANCE ObjectStore WITH
    Contents <- {Whole(v) : v \in Streams},
    store <- ObjectsNow

\* For a key whose mutations do not overlap the service is an ObjectStore, until a
\* partial file cannot be removed: whatever fails otherwise, no part of a stream
\* is found under the key once its Upload has returned.
IsObjectStore == Objects!Spec

\* "verifying the stored bytes' base64 MD5 against it": when every Upload of a key
\* has returned nil, each with the checksum of its stream, and none is running,
\* the key holds the stream of one of them.
UploadOkMeansStored ==
    \A k \in Keys :
        /\ \A p \in Procs : /\ pc[p] = "idle" /\ op[p] = "Upload" /\ key[p] = k
                            /\ result[p] = "ok" /\ sum[p] = stream[p]
        => \E p \in Procs : dir[k] # 0 /\ Stored(k) = Whole(stream[p])
=============================================================================
