------------------------------ MODULE DirectUploads ------------------------------
(***************************************************************************)
(* Signed ids and direct uploads: Blob.SignedID, Config.FindSignedBlob,    *)
(* Config.CreateForDirectUpload, Blob.DirectUpload and the disk service's  *)
(* URLForDirectUpload, under a clock that runs and blobs that are purged.  *)
(*                                                                         *)
(* A signed id is a token that never expires, the URL of a direct upload   *)
(* one that carries the blob's key and an expiry.  Whoever was given a     *)
(* token may present it at any later time.  A blob and its key have one    *)
(* number, as in ModelStore.  The clock of the disk service, which sets an *)
(* expiry, and that of the verifier, which checks it, are the same.  The   *)
(* disk service's verifier is a RailsVerifier; the signer of the Config is *)
(* one too, or an HMACSigner.                                              *)
(***************************************************************************)
EXTENDS Verifier, FiniteSets

CONSTANTS
    Procs,      \* goroutines
    Lifetimes,  \* the values given as expiresIn
    CanSign,    \* does a service mint URLs: {TRUE} if each does, BOOLEAN if some do
    MaxTime,    \* bound: the last tick of the clock
    MaxBlobs,   \* bound: blobs created
    MaxTokens,  \* bound: tokens handed out when a host makes one of its own
    MaxFaults   \* bound: store calls that fail

ASSUME LifetimesAssumption == Lifetimes \subseteq Int
ASSUME UploadBoundsAssumption ==
    /\ MaxTime \in Nat /\ MaxBlobs \in Nat /\ MaxTokens \in Nat /\ MaxFaults \in Nat
    /\ CanSign \subseteq BOOLEAN

VARIABLES
    signer,     \* what Config.Signer is
    blobs, nextBlobID,  \* the rows of ModelStore
    now,        \* the clock
    issued,     \* tokens handed out, each with when and for how long
    pc,         \* what the process does next
    blob,       \* the id it works on
    lifetime,   \* the expiresIn it was given
    asked,      \* the token it presented last
    wanted,     \* the purpose it presented it for
    checkedAt,  \* when it was checked
    answer,     \* what Verified or FindSignedBlob returned
    faults,
    purged      \* history: blobs that were purged

Store == INSTANCE ModelStore WITH Slots <- {}, attachments <- {}, nextAttID <- 0

rowVars == <<blobs, nextBlobID>>
locals == <<blob, lifetime, asked, wanted, checkedAt>>
vars == <<signer, rowVars, now, issued, pc, locals, answer, faults, purged>>

\* What a holder knows of a token besides the token.
Handed(t, made, life) == [token |-> t, made |-> made, life |-> life]

NoToken == Handed(Sign(0, ""), 0, 0)
NoAnswer == [err |-> "none", value |-> NoValue]

Init ==
    /\ signer \in {"rails", "hmac"}
    /\ blobs = {} /\ nextBlobID = 0
    /\ now = 0 /\ issued = {}
    /\ pc = [p \in Procs |-> "idle"]
    /\ blob = [p \in Procs |-> 0]
    /\ lifetime = [p \in Procs |-> 0]
    /\ asked = [p \in Procs |-> NoToken]
    /\ wanted = [p \in Procs |-> ""]
    /\ checkedAt = [p \in Procs |-> 0]
    /\ answer = [p \in Procs |-> NoAnswer]
    /\ faults = 0 /\ purged = {}

Goto(p, l) == pc' = [pc EXCEPT ![p] = l]

Answer(p, a) == answer' = [answer EXCEPT ![p] = a] /\ Goto(p, "idle")

StoreFault(p) ==
    /\ faults < MaxFaults
    /\ faults' = faults + 1
    /\ Answer(p, [err |-> "fault", value |-> NoValue])
    /\ UNCHANGED <<rowVars, now, issued, locals, purged>>

Tick ==
    /\ now < MaxTime
    /\ now' = now + 1
    /\ UNCHANGED <<rowVars, issued, pc, locals, answer, faults, purged>>

-----------------------------------------------------------------------------

\* CreateForDirectUpload persists the row of a blob without bytes ...
CreateBeforeDirectUpload(p) ==
    /\ pc[p] = "idle" /\ nextBlobID < MaxBlobs
    /\ \/ /\ Store!InsertBlob
          /\ blob' = [blob EXCEPT ![p] = nextBlobID']
          /\ \E d \in Lifetimes : lifetime' = [lifetime EXCEPT ![p] = d]
          /\ Goto(p, "DirectUpload")
          /\ UNCHANGED <<now, issued, asked, wanted, checkedAt, answer, faults, purged>>
       \/ StoreFault(p)

\* URLForDirectUpload: an expiry only for a positive expiresIn.
ExpiresAt(d) == IF d > 0 THEN now + d ELSE Never

\* Blob.SignedID: the id as an integer by a Verifier, as a string by a plain Signer.
SignedID(b) ==
    IF signer = "rails" THEN Generate("int", b, "blob_id", Never) ELSE HMACSign(b, "blob_id")

\* ... and mints its signed id and its URL.  Where the service cannot, the row
\* stays and the caller has no way to name it.
DirectUpload(p) ==
    /\ pc[p] = "DirectUpload"
    /\ \/ /\ TRUE \in CanSign
          /\ issued' = issued \union
                {Handed(SignedID(blob[p]), now, 0),
                 Handed(Generate("hash", blob[p], "blob_token", ExpiresAt(lifetime[p])),
                        now, lifetime[p])}
          /\ Answer(p, NoAnswer)
       \/ /\ FALSE \in CanSign
          /\ Answer(p, [err |-> "ErrNotDirectUploadable", value |-> NoValue])
          /\ UNCHANGED issued
    /\ UNCHANGED <<rowVars, now, locals, faults, purged>>

\* A host makes tokens of its own: with Verifier.Generate, with Signer.Sign.
GenerateOther(p) ==
    /\ pc[p] = "idle" /\ Cardinality(issued) < MaxTokens
    /\ \E b \in blobs, u \in Purposes :
         \/ \E d \in Lifetimes : issued' = issued \union
               {Handed(Generate("int", b, u, ExpiresAt(d)), now, d)}
         \/ issued' = issued \union
               {Handed(IF signer = "rails" THEN Sign(b, u) ELSE HMACSign(b, u), now, 0)}
    /\ UNCHANGED <<rowVars, now, pc, locals, answer, faults, purged>>

\* Blob.Purge, as far as the rows go: one step, by any other goroutine.
Purge ==
    /\ \E b \in blobs : Store!DeleteBlob(b) /\ purged' = purged \union {b}
    /\ UNCHANGED <<now, issued, pc, locals, answer, faults>>

-----------------------------------------------------------------------------

\* Signer.Verify of the Config's signer.
SignerVerify(t, u) ==
    IF signer = "rails" THEN Verify(t, u, now) ELSE HMACVerify(t, u)

\* How FindSignedBlob reads a signed id: with the Verifier, if the signer is one,
\* the payload has to be an integer.
ReadSignedID(t) ==
    LET v == IF signer = "rails" THEN Verified(t, "blob_id", now)
             ELSE HMACVerify(t, "blob_id")
    IN  IF v.err = "nil" /\ signer = "rails" /\ t.text # "int"
        THEN [err |-> "ErrSyntax", value |-> NoValue] ELSE v

\* FindSignedBlob reads the id and then asks the store; the host verifies the token
\* of a PUT, or one of its own.
Present(p) ==
    /\ pc[p] = "idle"
    /\ \E t \in issued, u \in Purposes :
         /\ asked' = [asked EXCEPT ![p] = t]
         /\ wanted' = [wanted EXCEPT ![p] = u]
         /\ checkedAt' = [checkedAt EXCEPT ![p] = now]
         /\ \/ /\ u = "blob_id" /\ ReadSignedID(t.token).err = "nil"
               /\ blob' = [blob EXCEPT ![p] = ReadSignedID(t.token).value]
               /\ answer' = [answer EXCEPT ![p] = NoAnswer]
               /\ Goto(p, "FindBlob")
            \/ /\ u = "blob_id" /\ ReadSignedID(t.token).err # "nil"
               /\ Answer(p, ReadSignedID(t.token))
               /\ UNCHANGED blob
            \/ /\ Answer(p, Verified(t.token, u, now)) \/ Answer(p, SignerVerify(t.token, u))
               /\ UNCHANGED blob
    /\ UNCHANGED <<rowVars, now, issued, lifetime, faults, purged>>

FindBlob(p) ==
    /\ pc[p] = "FindBlob"
    /\ \/ /\ Answer(p, IF Store!FindBlob(blob[p])
                       THEN [err |-> "nil", value |-> blob[p]]
                       ELSE [err |-> "ErrBlobNotFound", value |-> NoValue])
          /\ UNCHANGED <<rowVars, now, issued, locals, faults, purged>>
       \/ StoreFault(p)

Next ==
    /\ \/ Tick \/ Purge
       \/ \E p \in Procs :
            \/ CreateBeforeDirectUpload(p) \/ DirectUpload(p) \/ GenerateOther(p)
            \/ Present(p) \/ FindBlob(p)
    /\ UNCHANGED signer

Spec == Init /\ [][Next]_vars

-----------------------------------------------------------------------------

Answers == [err : Errors \union {"none", "fault", "ErrBlobNotFound", "ErrSyntax",
                                 "ErrNotDirectUploadable"},
            value : Nat \union {NoValue, Envelope}]

TokenTypeOK(t) ==
    /\ t.made \in 0 .. now /\ t.life \in Int
    /\ t.token.form \in {"bare", "wrapped", "hmac"} /\ t.token.text \in {"int", "string", "hash"}
    /\ t.token.value \in 0 .. nextBlobID
    /\ t.token.purpose \in Purposes \union {"", "blob_id", "blob_token"}
    /\ t.token.exp \in Nat \union {Never}

RowTypeOK ==
    /\ nextBlobID \in 0 .. MaxBlobs
    /\ blobs \subseteq 1 .. nextBlobID /\ purged \subseteq 1 .. nextBlobID
    /\ now \in 0 .. MaxTime /\ faults \in 0 .. MaxFaults

PlaceTypeOK ==
    /\ signer \in {"rails", "hmac"}
    /\ pc \in [Procs -> {"idle", "DirectUpload", "FindBlob"}]
    /\ wanted \in [Procs -> Purposes \union {""}]
    /\ answer \in [Procs -> Answers]

LocalTypeOK ==
    /\ blob \in [Procs -> 0 .. nextBlobID]
    /\ lifetime \in [Procs -> Lifetimes \union {0}]
    /\ checkedAt \in [Procs -> 0 .. now]

\* Every variable keeps its type: no token names a blob that was never created.
TypeOK ==
    /\ RowTypeOK /\ PlaceTypeOK /\ LocalTypeOK
    /\ \A t \in issued : TokenTypeOK(t)
    /\ \A p \in Procs : TokenTypeOK(asked[p])

Accepted(p) == answer[p].err = "nil" \/ pc[p] = "FindBlob"

\* "expiresIn bounds the signed URL": a token made to last for a time is accepted
\* only before that time is over, whatever its expiry is cut down to; if it is
\* presented for a purpose, for Verified with none looks at no expiry.
AcceptedInTime ==
    \A p \in Procs : Accepted(p) /\ asked[p].life # 0 /\ wanted[p] # "" =>
        checkedAt[p] < asked[p].made + asked[p].life

\* A token is not refused as expired before the last millisecond of its life.
NotExpiredEarly ==
    \A p \in Procs : answer[p].err = "ErrExpired" =>
        /\ asked[p].life > 0
        /\ checkedAt[p] > asked[p].made + asked[p].life - Millisecond

\* A signed id never names a blob again once its blob was purged, neither a blob
\* created later nor, to a FindSignedBlob that verified it before the purge and
\* asks the store after it, the old one.
PurgedStaysGone ==
    [][\A p \in Procs : pc[p] = "FindBlob" /\ pc'[p] = "idle" /\ answer'[p].err = "nil" =>
         blob[p] \notin purged]_vars

\* "A token minted for one purpose cannot be replayed for another", whichever signer
\* and whichever of its two interfaces minted it and reads it: one that is accepted
\* for a purpose was made for it, and yields the value it was made of.
AcceptedForPurpose ==
    \A p \in Procs : answer[p].err = "nil" /\ wanted[p] # "" =>
        /\ asked[p].token.purpose = wanted[p]
        /\ answer[p].value = asked[p].token.value
=============================================================================
