--------------------------- MODULE DirectUploadsProofs ---------------------------
(***************************************************************************)
(* When a token is accepted, and what for: the promises of signer.go and    *)
(* blob.go for any number of goroutines, blobs, tokens and purposes, any    *)
(* lifetimes, and any number of ticks in a millisecond.                     *)
(*                                                                         *)
(* A token carries its expiry from the moment it is made, so what holds of  *)
(* the tokens handed out holds of the one a goroutine presents; and the     *)
(* answer it got is the one the token earned at the time it was checked.    *)
(***************************************************************************)
EXTENDS DirectUploads, TLAPS

Act(p) ==
    \/ CreateBeforeDirectUpload(p) \/ DirectUpload(p) \/ GenerateOther(p)
    \/ Present(p) \/ FindBlob(p)

-----------------------------------------------------------------------------
(* The operators of Verifier.                                               *)

LEMMA FormattedBounds ==
  ASSUME NEW t \in Nat
  PROVE  /\ Formatted(t) \in Nat
         /\ Formatted(t) <= t /\ t - Millisecond < Formatted(t)
  <1>1. t % Millisecond \in Nat /\ t % Millisecond < Millisecond
    BY MillisecondAssumption
  <1>2. t % Millisecond <= t
    BY MillisecondAssumption
  <1> QED BY <1>1, <1>2, MillisecondAssumption DEF Formatted

\* The expiry a token is given for a lifetime d.
Expiry(made, d) == IF d > 0 THEN Formatted(made + d) ELSE Never

LEMMA ExpiryType ==
  ASSUME NEW made \in Nat, NEW d \in Int
  PROVE  Expiry(made, d) \in Nat \union {Never}
  <1>1. CASE d > 0
    <2>1. made + d \in Nat
      BY <1>1
    <2> QED BY <1>1, <2>1, FormattedBounds DEF Expiry
  <1>2. CASE ~ d > 0
    BY <1>2 DEF Expiry
  <1> QED BY <1>1, <1>2

\* A token of a RailsVerifier.
RailsToken(t, value, purpose, exp) ==
    /\ t.form \in {"bare", "wrapped"} /\ (t.form = "bare" => purpose = "" /\ exp = Never)
    /\ t.value = value /\ t.purpose = purpose /\ t.exp = exp

LEMMA Generated ==
  ASSUME NEW text, NEW value, NEW purpose, NEW made \in Nat, NEW d \in Int,
         NEW e, d > 0 => e = made + d, ~ d > 0 => e = Never
  PROVE  /\ RailsToken(Generate(text, value, purpose, e), value, purpose, Expiry(made, d))
         /\ Generate(text, value, purpose, e).text = text
  <1>1. CASE d > 0
    <2>1. e # Never
      BY <1>1, NeverAssumption
    <2> QED BY <1>1, <2>1 DEF Generate, WrapMetadata, Token, RailsToken, Expiry
  <1>2. CASE ~ d > 0
    BY <1>2 DEF Generate, WrapMetadata, Token, RailsToken, Expiry
  <1> QED BY <1>1, <1>2

LEMMA GeneratedForEver ==
  ASSUME NEW text, NEW value, NEW purpose
  PROVE  /\ RailsToken(Generate(text, value, purpose, Never), value, purpose, Never)
         /\ Generate(text, value, purpose, Never).text = text
  BY DEF Generate, WrapMetadata, Token, RailsToken

-----------------------------------------------------------------------------
(* Types.                                                                   *)

LEMMA NoTokenType ==
  ASSUME now \in Nat, nextBlobID \in Nat
  PROVE  TokenTypeOK(NoToken)
  <1>1. RailsToken(Sign(0, ""), 0, "", Never) /\ Sign(0, "").text = "string"
    BY GeneratedForEver DEF Sign
  <1>2. NoToken.token = Sign(0, "") /\ NoToken.made = 0 /\ NoToken.life = 0
    BY DEF NoToken, Handed
  <1>3. 0 \in 0 .. now /\ 0 \in 0 .. nextBlobID /\ 0 \in Int
    OBVIOUS
  <1> QED BY <1>1, <1>2, <1>3, Zenon DEF TokenTypeOK, RailsToken

LEMMA InitType == Init => TypeOK
  <1> SUFFICES ASSUME Init PROVE TypeOK
    OBVIOUS
  <1>1. now \in Nat /\ nextBlobID \in Nat
    BY DEF Init
  <1>2. \A p \in Procs : TokenTypeOK(asked[p])
    BY <1>1, NoTokenType DEF Init
  <1>3. NoAnswer \in Answers
    BY DEF NoAnswer, Answers
  <1>4. RowTypeOK
    <2>1. now = 0 /\ nextBlobID = 0 /\ faults = 0 /\ blobs = {} /\ purged = {}
      BY DEF Init
    <2> QED BY <2>1, UploadBoundsAssumption DEF RowTypeOK
  <1>5. PlaceTypeOK
    BY <1>3 DEF Init, PlaceTypeOK
  <1>6. LocalTypeOK
    <2>1. /\ now = 0 /\ nextBlobID = 0
          /\ blob = [p \in Procs |-> 0] /\ lifetime = [p \in Procs |-> 0]
          /\ checkedAt = [p \in Procs |-> 0]
      BY DEF Init
    <2> QED BY <2>1 DEF LocalTypeOK
  <1> QED BY <1>2, <1>4, <1>5, <1>6 DEF Init, TypeOK

\* The tokens one step may hand out.
Minted(t) == \E b \in 0 .. nextBlobID, d \in Lifetimes \union {0} :
    /\ t.made = now /\ t.life = d
    /\ t.token.value = b /\ t.token.text \in {"int", "string", "hash"}
    /\ t.token.purpose \in Purposes \union {"blob_id", "blob_token"}
    /\ \/ RailsToken(t.token, b, t.token.purpose, Expiry(now, d))
       \/ t.token.form = "hmac" /\ t.token.exp = Never /\ d = 0

LEMMA Counters == TypeOK => now \in Nat /\ nextBlobID \in Nat
  BY UploadBoundsAssumption DEF TypeOK, RowTypeOK

LEMMA RailsMinted ==
  ASSUME TypeOK, NEW text \in {"int", "string", "hash"}, NEW b \in 0 .. nextBlobID,
         NEW u \in Purposes \union {"blob_id", "blob_token"}, NEW d \in Lifetimes \union {0}
  PROVE  /\ Minted(Handed(Generate(text, b, u, ExpiresAt(d)), now, d))
         /\ Minted(Handed(Generate(text, b, u, Never), now, 0))
  <1>1. now \in Nat /\ d \in Int
    BY Counters, LifetimesAssumption
  <1>2. /\ RailsToken(Generate(text, b, u, ExpiresAt(d)), b, u, Expiry(now, d))
        /\ Generate(text, b, u, ExpiresAt(d)).text = text
    <2>1. /\ d > 0 => ExpiresAt(d) = now + d
          /\ ~ d > 0 => ExpiresAt(d) = Never
      BY DEF ExpiresAt
    <2> QED BY <1>1, <2>1, Generated
  <1>3. /\ RailsToken(Generate(text, b, u, Never), b, u, Never)
        /\ Generate(text, b, u, Never).text = text
    BY GeneratedForEver
  <1>4. Expiry(now, 0) = Never
    BY DEF Expiry
  <1>5. Minted(Handed(Generate(text, b, u, ExpiresAt(d)), now, d))
    BY <1>2 DEF Minted, Handed, RailsToken
  <1>6. Minted(Handed(Generate(text, b, u, Never), now, 0))
    BY <1>3, <1>4 DEF Minted, Handed, RailsToken
  <1> QED BY <1>5, <1>6

LEMMA HMACMinted ==
  ASSUME TypeOK, NEW b \in 0 .. nextBlobID, NEW u \in Purposes \union {"blob_id", "blob_token"}
  PROVE  Minted(Handed(HMACSign(b, u), now, 0))
  BY DEF Minted, Handed, HMACSign, Token

LEMMA Mints ==
  ASSUME TypeOK, NEW p \in Procs, DirectUpload(p) \/ GenerateOther(p), NEW t \in issued' \ issued
  PROVE  Minted(t)
  <1>0. /\ blob[p] \in 0 .. nextBlobID /\ blobs \subseteq 0 .. nextBlobID
        /\ lifetime[p] \in Lifetimes \union {0}
    BY DEF TypeOK, RowTypeOK, LocalTypeOK
  <1>1. CASE DirectUpload(p)
    <2>1. \/ t = Handed(SignedID(blob[p]), now, 0)
          \/ t = Handed(Generate("hash", blob[p], "blob_token", ExpiresAt(lifetime[p])),
                        now, lifetime[p])
      BY <1>1 DEF DirectUpload
    <2>2. Minted(Handed(SignedID(blob[p]), now, 0))
      BY <1>0, RailsMinted, HMACMinted DEF SignedID
    <2> QED BY <1>0, <2>1, <2>2, RailsMinted
  <1>2. CASE GenerateOther(p)
    <2>1. PICK b \in blobs, u \in Purposes :
            \/ \E d \in Lifetimes : t = Handed(Generate("int", b, u, ExpiresAt(d)), now, d)
            \/ t = Handed(IF signer = "rails" THEN Sign(b, u) ELSE HMACSign(b, u), now, 0)
      BY <1>2 DEF GenerateOther
    <2> QED BY <1>0, <2>1, RailsMinted, HMACMinted DEF Sign
  <1> QED BY <1>1, <1>2

LEMMA MintedType ==
  ASSUME TypeOK, NEW t, Minted(t)
  PROVE  TokenTypeOK(t)
  <1>1. PICK b \in 0 .. nextBlobID, d \in Lifetimes \union {0} :
          /\ t.made = now /\ t.life = d
          /\ t.token.value = b /\ t.token.text \in {"int", "string", "hash"}
          /\ t.token.purpose \in Purposes \union {"blob_id", "blob_token"}
          /\ \/ RailsToken(t.token, b, t.token.purpose, Expiry(now, d))
             \/ t.token.form = "hmac" /\ t.token.exp = Never /\ d = 0
    BY DEF Minted
  <1>2. now \in Nat /\ d \in Int
    BY Counters, LifetimesAssumption
  <1>3. t.token.exp \in Nat \union {Never} /\ t.token.form \in {"bare", "wrapped", "hmac"}
    BY <1>1, <1>2, ExpiryType DEF RailsToken
  <1>4. t.made \in 0 .. now
    BY <1>1, <1>2
  <1> QED BY <1>1, <1>2, <1>3, <1>4, Zenon DEF TokenTypeOK

-----------------------------------------------------------------------------
(* What a reader makes of a token.                                          *)

\* What is signed as a bare value or by an HMACSigner has no expiry, and a bare
\* value has no purpose.
FormOK(t) ==
    /\ t.form = "bare" => t.purpose = ""
    /\ t.form # "wrapped" => t.exp = Never

InTime(t, at) == t.exp # Never => at < t.exp

\* An answer that says the truth of the token it is for.
Sound(a, t, u, at) ==
    /\ a \in Answers
    /\ a.err = "nil" /\ u # "" => t.purpose = u /\ a.value = t.value /\ InTime(t, at)
    /\ a.err = "ErrExpired" => t.exp # Never /\ ~ at < t.exp

LEMMA RefusedSound ==
  ASSUME NEW t, NEW u, NEW at
  PROVE  Sound(Refused, t, u, at)
  BY DEF Sound, Refused, Answers, Errors

LEMMA ValueSound ==
  ASSUME NEW t, t.value \in Nat, NEW u, NEW at, t.purpose = u, InTime(t, at)
  PROVE  Sound([err |-> "nil", value |-> t.value], t, u, at)
  BY DEF Sound, Answers, Errors

LEMMA HMACVerifySound ==
  ASSUME NEW t, FormOK(t), t.value \in Nat, NEW u, NEW at
  PROVE  Sound(HMACVerify(t, u), t, u, at)
  <1>1. CASE t.form = "hmac" /\ t.purpose \notin Dotted /\ t.purpose = u
    <2>1. InTime(t, at)
      BY <1>1 DEF FormOK, InTime
    <2>2. HMACVerify(t, u) = [err |-> "nil", value |-> t.value]
      BY <1>1 DEF HMACVerify
    <2> QED BY <1>1, <2>1, <2>2, ValueSound
  <1>2. CASE ~ (t.form = "hmac" /\ t.purpose \notin Dotted /\ t.purpose = u)
    BY <1>2, RefusedSound DEF HMACVerify
  <1> QED BY <1>1, <1>2

LEMMA VerifiedSound ==
  ASSUME NEW t, t.form \in {"bare", "wrapped", "hmac"}, FormOK(t), t.value \in Nat, NEW u, NEW at
  PROVE  Sound(Verified(t, u, at), t, u, at)
  <1>1. CASE t.form = "hmac" \/ (u # "" /\ ~ ForPurpose(t, u))
    <2>1. Verified(t, u, at) = Refused
      BY <1>1 DEF Verified
    <2> QED BY <2>1, RefusedSound
  <1>2. CASE t.form # "hmac" /\ u = ""
    <2>1. PICK v \in {Envelope, t.value} : Verified(t, u, at) = [err |-> "nil", value |-> v]
      BY <1>2 DEF Verified
    <2>2. [err |-> "nil", value |-> v] \in Answers
      BY DEF Answers, Errors
    <2>3. Verified(t, u, at).err = "nil" /\ "nil" # "ErrExpired"
      BY <2>1
    <2> QED BY <1>2, <2>1, <2>2, <2>3, Zenon DEF Sound
  <1>3. CASE t.form # "hmac" /\ u # "" /\ ForPurpose(t, u) /\ Expired(t, at)
    <2>1. Verified(t, u, at) = [err |-> "ErrExpired", value |-> NoValue]
      BY <1>3 DEF Verified
    <2>2. t.exp # Never /\ ~ at < t.exp
      BY <1>3 DEF Expired
    <2>3. Sound([err |-> "ErrExpired", value |-> NoValue], t, u, at)
      BY <2>2 DEF Sound, Answers, Errors
    <2> QED BY <2>1, <2>3
  <1>4. CASE t.form # "hmac" /\ u # "" /\ ForPurpose(t, u) /\ ~ Expired(t, at)
    <2>1. Verified(t, u, at) = [err |-> "nil", value |-> t.value]
      BY <1>4 DEF Verified
    <2>2. t.purpose = u /\ InTime(t, at)
      BY <1>4 DEF ForPurpose, Expired, InTime
    <2> QED BY <2>1, <2>2, ValueSound
  <1> QED BY <1>1, <1>2, <1>3, <1>4

LEMMA VerifySound ==
  ASSUME NEW t, t.form \in {"bare", "wrapped", "hmac"}, FormOK(t), t.value \in Nat, NEW u
  PROVE  Sound(SignerVerify(t, u), t, u, now)
  <1>1. Verify(t, u, now) \in {Refused, Verified(t, u, now)}
    BY DEF Verify
  <1> QED BY <1>1, VerifiedSound, HMACVerifySound, RefusedSound DEF SignerVerify

LEMMA ReadSound ==
  ASSUME NEW t, t.form \in {"bare", "wrapped", "hmac"}, FormOK(t), t.value \in Nat
  PROVE  Sound(ReadSignedID(t), t, "blob_id", now)
  <1> DEFINE syntax == [err |-> "ErrSyntax", value |-> NoValue]
  <1>1. ReadSignedID(t) \in {syntax, Verified(t, "blob_id", now), HMACVerify(t, "blob_id")}
    BY DEF ReadSignedID
  <1>2. Sound(syntax, t, "blob_id", now)
    BY DEF Sound, Answers, Errors
  <1> QED BY <1>1, <1>2, VerifiedSound, HMACVerifySound

-----------------------------------------------------------------------------
(* What a step does to the rows, the clock and the tokens.                  *)

\* The counters only grow, and what is purged is gone.
RowEffect ==
    /\ RowTypeOK' /\ nextBlobID <= nextBlobID' /\ now <= now'
    /\ blobs \intersect purged = {} => blobs' \intersect purged' = {}

LEMMA CreateRowEffect ==
  ASSUME TypeOK, NEW p \in Procs, CreateBeforeDirectUpload(p)
  PROVE  RowEffect
  <1>0. RowTypeOK
    BY DEF TypeOK
  <1>1. CASE StoreFault(p)
    <2>1. /\ faults < MaxFaults /\ faults' = faults + 1
          /\ UNCHANGED <<blobs, nextBlobID, now, purged>>
      BY <1>1 DEF StoreFault, rowVars
    <2> QED BY <1>0, <2>1, UploadBoundsAssumption DEF RowEffect, RowTypeOK
  <1>2. CASE ~ StoreFault(p)
    <2>1. /\ nextBlobID < MaxBlobs
          /\ nextBlobID' = nextBlobID + 1 /\ blobs' = blobs \union {nextBlobID'}
          /\ UNCHANGED <<now, faults, purged>>
      BY <1>2 DEF CreateBeforeDirectUpload, Store!InsertBlob
    <2>2. nextBlobID \in Nat /\ nextBlobID' \in 0 .. MaxBlobs /\ nextBlobID' \notin purged
      BY <1>0, <2>1, UploadBoundsAssumption DEF RowTypeOK
    <2>3. 1 .. nextBlobID \subseteq 1 .. nextBlobID' /\ nextBlobID' \in 1 .. nextBlobID'
      BY <2>1, <2>2
    <2>4. RowTypeOK'
      BY <1>0, <2>1, <2>2, <2>3 DEF RowTypeOK
    <2>5. nextBlobID <= nextBlobID' /\ now <= now'
      BY <1>0, <2>1, <2>2, UploadBoundsAssumption DEF RowTypeOK
    <2> QED BY <2>1, <2>2, <2>4, <2>5 DEF RowEffect
  <1> QED BY <1>1, <1>2

LEMMA PurgeRowEffect ==
  ASSUME TypeOK, Purge
  PROVE  RowEffect
  <1>1. RowTypeOK
    BY DEF TypeOK
  <1>2. PICK b \in blobs : /\ blobs' = blobs \ {b} /\ purged' = purged \union {b}
                           /\ UNCHANGED <<nextBlobID, now, faults>>
    BY DEF Purge, Store!DeleteBlob
  <1> QED BY <1>1, <1>2, UploadBoundsAssumption DEF RowEffect, RowTypeOK

LEMMA OtherRowEffect ==
  ASSUME TypeOK,
         Tick \/ \E p \in Procs : DirectUpload(p) \/ GenerateOther(p) \/ Present(p) \/ FindBlob(p)
  PROVE  RowEffect
  <1>1. RowTypeOK
    BY DEF TypeOK
  <1>2. UNCHANGED <<blobs, nextBlobID, purged>>
    BY DEF Tick, DirectUpload, GenerateOther, Present, FindBlob, StoreFault, rowVars
  <1>3. /\ UNCHANGED now \/ (now < MaxTime /\ now' = now + 1)
        /\ UNCHANGED faults \/ (faults < MaxFaults /\ faults' = faults + 1)
    BY DEF Tick, DirectUpload, GenerateOther, Present, FindBlob, StoreFault
  <1> QED BY <1>1, <1>2, <1>3, UploadBoundsAssumption DEF RowEffect, RowTypeOK

\* The tokens handed out, and the one a goroutine has presented.
TokenEffect ==
    /\ issued \subseteq issued'
    /\ \A t \in issued' \ issued : Minted(t)
    /\ \A p \in Procs : asked'[p] \in issued \union {asked[p]}

TokenOK(t) ==
    /\ TokenTypeOK(t) /\ FormOK(t.token)
    /\ t.life \in Lifetimes \union {0} /\ t.token.exp = Expiry(t.made, t.life)

TokensOK ==
    /\ \A t \in issued : TokenOK(t)
    /\ \A p \in Procs : TokenOK(asked[p])

AskedOK == asked = [p \in Procs |-> asked[p]]

LEMMA TokenStep ==
  ASSUME TypeOK, AskedOK, Tick \/ Purge \/ \E p \in Procs : Act(p)
  PROVE  TokenEffect /\ AskedOK'
  <1> USE DEF AskedOK
  <1>1. CASE Tick \/ Purge
    BY <1>1 DEF Tick, Purge, TokenEffect, locals
  <1> SUFFICES ASSUME NEW p \in Procs, Act(p) PROVE TokenEffect /\ AskedOK'
    BY <1>1
  <1>2. CASE CreateBeforeDirectUpload(p) \/ FindBlob(p)
    BY <1>2 DEF CreateBeforeDirectUpload, FindBlob, StoreFault, TokenEffect, locals
  <1>3. CASE DirectUpload(p) \/ GenerateOther(p)
    BY <1>3, Mints DEF DirectUpload, GenerateOther, TokenEffect, locals
  <1>4. CASE Present(p)
    BY <1>4 DEF Present, TokenEffect
  <1> QED BY <1>2, <1>3, <1>4 DEF Act

LEMMA TokensStep ==
  ASSUME TypeOK, TokensOK, RowEffect, TokenEffect
  PROVE  TokensOK'
  <1> SUFFICES ASSUME NEW t, TokenOK(t) \/ Minted(t)
               PROVE  /\ TokenTypeOK(t)' /\ FormOK(t.token)
                      /\ t.life \in Lifetimes \union {0} /\ t.token.exp = Expiry(t.made, t.life)
    BY DEF TokensOK, TokenEffect, TokenOK
  <1>1. TokenOK(t)
    <2>1. CASE Minted(t)
      <3>1. PICK b \in 0 .. nextBlobID, d \in Lifetimes \union {0} :
              /\ t.made = now /\ t.life = d /\ t.token.value = b
              /\ \/ RailsToken(t.token, b, t.token.purpose, Expiry(now, d))
                 \/ t.token.form = "hmac" /\ t.token.exp = Never /\ d = 0
        BY <2>1 DEF Minted
      <3>2. Expiry(now, 0) = Never
        BY DEF Expiry
      <3> QED BY <2>1, <3>1, <3>2, MintedType DEF TokenOK, FormOK, RailsToken
    <2> QED BY <2>1
  <1>2. t.made \in 0 .. now /\ t.token.value \in 0 .. nextBlobID
    BY <1>1 DEF TokenOK, TokenTypeOK
  <1>3. /\ now \in Nat /\ now' \in Nat /\ now <= now'
        /\ nextBlobID \in Nat /\ nextBlobID' \in Nat /\ nextBlobID <= nextBlobID'
    BY Counters, UploadBoundsAssumption DEF RowEffect, RowTypeOK
  <1>4. t.made \in 0 .. now' /\ t.token.value \in 0 .. nextBlobID'
    BY <1>2, <1>3
  <1> QED BY <1>1, <1>4, Zenon DEF TokenOK, TokenTypeOK

-----------------------------------------------------------------------------
(* What a step does to the answers.                                         *)

\* The answer a goroutine got, or is about to get from the store, says the truth of
\* the token it presented, at the time it was checked.
AnswerOK(p) == LET t == asked[p].token IN
    /\ Sound(answer[p], t, wanted[p], checkedAt[p])
    /\ pc[p] = "FindBlob" =>
         /\ wanted[p] = "blob_id" /\ t.purpose = "blob_id" /\ blob[p] = t.value
         /\ InTime(t, checkedAt[p])

AnswersOK == \A p \in Procs : AnswerOK(p)

UseInv ==
    /\ TypeOK /\ AskedOK /\ TokensOK /\ AnswersOK
    /\ blobs \intersect purged = {}

LEMMA SilentSound ==
  ASSUME NEW e \in {"none", "fault", "ErrBlobNotFound", "ErrNotDirectUploadable"},
         NEW t, NEW u, NEW at
  PROVE  Sound([err |-> e, value |-> NoValue], t, u, at)
  BY DEF Sound, Answers, Errors

LEMMA TokenFacts ==
  ASSUME UseInv, NEW t \in issued \union {asked[p] : p \in Procs}
  PROVE  t.token.form \in {"bare", "wrapped", "hmac"} /\ FormOK(t.token) /\ t.token.value \in Nat
  <1>1. TokenOK(t)
    BY DEF UseInv, TokensOK
  <1>2. t.token.value \in 0 .. nextBlobID /\ t.token.form \in {"bare", "wrapped", "hmac"}
    BY <1>1 DEF TokenOK, TokenTypeOK
  <1>3. nextBlobID \in Nat
    BY Counters DEF UseInv
  <1>4. t.token.value \in Nat
    BY <1>2, <1>3
  <1> QED BY <1>1, <1>2, <1>4 DEF TokenOK

\* A goroutine's answer changes, and nothing of it that it was given for.
Replies(p, a) ==
    /\ answer' = [answer EXCEPT ![p] = a] /\ pc' = [pc EXCEPT ![p] = "idle"]
    /\ UNCHANGED locals

LEMMA ReplyStep ==
  ASSUME UseInv, UNCHANGED signer, NEW p \in Procs, NEW a, Replies(p, a),
         Sound(a, asked[p].token, wanted[p], checkedAt[p])
  PROVE  AnswersOK' /\ PlaceTypeOK'
  <1>1. pc \in [Procs -> {"idle", "DirectUpload", "FindBlob"}] /\ answer \in [Procs -> Answers]
    BY DEF UseInv, TypeOK, PlaceTypeOK
  <1>2. a \in Answers
    BY DEF Sound
  <1>3. PlaceTypeOK'
    BY <1>1, <1>2 DEF UseInv, TypeOK, PlaceTypeOK, Replies, locals
  <1>4. /\ answer'[p] = a /\ pc'[p] = "idle"
        /\ \A q \in Procs \ {p} : answer'[q] = answer[q] /\ pc'[q] = pc[q]
        /\ UNCHANGED <<asked, wanted, checkedAt, blob>>
    BY <1>1 DEF Replies, locals
  <1>5. ASSUME NEW q \in Procs PROVE AnswerOK(q)'
    <2>1. CASE q = p
      BY <1>4, <2>1 DEF AnswerOK
    <2>2. CASE q # p
      BY <1>4, <2>2 DEF UseInv, AnswersOK, AnswerOK
    <2> QED BY <2>1, <2>2
  <1> QED BY <1>3, <1>5 DEF AnswersOK

LEMMA FaultStep ==
  ASSUME UseInv, UNCHANGED signer, NEW p \in Procs, StoreFault(p)
  PROVE  AnswersOK' /\ PlaceTypeOK'
  BY SilentSound, ReplyStep DEF StoreFault, Answer, Goto, Replies

LEMMA CreateAnswers ==
  ASSUME UseInv, UNCHANGED signer, NEW p \in Procs, CreateBeforeDirectUpload(p), ~ StoreFault(p)
  PROVE  AnswersOK' /\ PlaceTypeOK'
  <1>1. /\ pc \in [Procs -> {"idle", "DirectUpload", "FindBlob"}]
        /\ blob \in [Procs -> 0 .. nextBlobID]
    BY DEF UseInv, TypeOK, PlaceTypeOK, LocalTypeOK
  <1>2. /\ pc' = [pc EXCEPT ![p] = "DirectUpload"] /\ blob' = [blob EXCEPT ![p] = nextBlobID']
        /\ UNCHANGED <<asked, wanted, checkedAt, answer>>
    BY DEF CreateBeforeDirectUpload, Goto
  <1>3. PlaceTypeOK'
    BY <1>1, <1>2 DEF UseInv, TypeOK, PlaceTypeOK
  <1>4. ASSUME NEW q \in Procs PROVE AnswerOK(q)'
    <2>1. pc'[q] = "FindBlob" => pc[q] = "FindBlob" /\ blob'[q] = blob[q]
      BY <1>1, <1>2
    <2> QED BY <1>2, <2>1 DEF UseInv, AnswersOK, AnswerOK
  <1> QED BY <1>3, <1>4 DEF AnswersOK

LEMMA DirectUploadAnswers ==
  ASSUME UseInv, UNCHANGED signer, NEW p \in Procs, DirectUpload(p)
  PROVE  AnswersOK' /\ PlaceTypeOK'
  <1>1. PICK e \in {"none", "ErrNotDirectUploadable"} : Replies(p, [err |-> e, value |-> NoValue])
    BY DEF DirectUpload, Answer, Goto, Replies, NoAnswer
  <1> QED BY <1>1, SilentSound, ReplyStep

LEMMA FindBlobAnswers ==
  ASSUME UseInv, UNCHANGED signer, NEW p \in Procs, FindBlob(p), ~ StoreFault(p)
  PROVE  AnswersOK' /\ PlaceTypeOK'
  <1>1. PICK a \in {[err |-> "nil", value |-> blob[p]], [err |-> "ErrBlobNotFound", value |-> NoValue]} :
          Replies(p, a)
    BY DEF FindBlob, Answer, Goto, Replies
  <1>2. Sound([err |-> "nil", value |-> blob[p]], asked[p].token, wanted[p], checkedAt[p])
    <2>1. AnswerOK(p) /\ pc[p] = "FindBlob"
      BY DEF UseInv, AnswersOK, FindBlob
    <2>2. asked[p].token.value \in Nat
      BY TokenFacts
    <2> QED BY <2>1, <2>2, ValueSound DEF AnswerOK
  <1> QED BY <1>1, <1>2, SilentSound, ReplyStep

LEMMA PresentAnswers ==
  ASSUME UseInv, UNCHANGED signer, NEW p \in Procs, Present(p)
  PROVE  AnswersOK' /\ PlaceTypeOK'
  <1>0. /\ pc \in [Procs -> {"idle", "DirectUpload", "FindBlob"}]
        /\ answer \in [Procs -> Answers] /\ wanted \in [Procs -> Purposes \union {""}]
        /\ blob \in [Procs -> 0 .. nextBlobID] /\ checkedAt \in [Procs -> 0 .. now]
        /\ asked = [q \in Procs |-> asked[q]]
    BY DEF UseInv, TypeOK, PlaceTypeOK, LocalTypeOK, AskedOK
  <1>1. PICK t \in issued, u \in Purposes :
          /\ asked' = [asked EXCEPT ![p] = t]
          /\ wanted' = [wanted EXCEPT ![p] = u]
          /\ checkedAt' = [checkedAt EXCEPT ![p] = now]
          /\ \/ /\ u = "blob_id" /\ ReadSignedID(t.token).err = "nil"
                /\ blob' = [blob EXCEPT ![p] = ReadSignedID(t.token).value]
                /\ answer' = [answer EXCEPT ![p] = NoAnswer]
                /\ Goto(p, "FindBlob")
             \/ /\ u = "blob_id" /\ ReadSignedID(t.token).err # "nil"
                /\ Answer(p, ReadSignedID(t.token))
                /\ UNCHANGED blob
             \/ /\ Answer(p, Verified(t.token, u, now)) \/ Answer(p, SignerVerify(t.token, u))
                /\ UNCHANGED blob
    BY DEF Present
  <1>2. /\ Sound(ReadSignedID(t.token), t.token, "blob_id", now)
        /\ Sound(Verified(t.token, u, now), t.token, u, now)
        /\ Sound(SignerVerify(t.token, u), t.token, u, now)
    BY TokenFacts, ReadSound, VerifiedSound, VerifySound
  <1>3. Sound(NoAnswer, t.token, u, now)
    BY SilentSound DEF NoAnswer
  <1>4. PICK a, l :
          /\ l \in {"idle", "FindBlob"}
          /\ answer' = [answer EXCEPT ![p] = a] /\ pc' = [pc EXCEPT ![p] = l]
          /\ Sound(a, t.token, u, now)
          /\ l = "FindBlob" => /\ u = "blob_id" /\ blob' = [blob EXCEPT ![p] = t.token.value]
                               /\ t.token.purpose = "blob_id" /\ InTime(t.token, now)
          /\ l = "idle" => UNCHANGED blob
    <2>1. CASE ReadSignedID(t.token).err = "nil" /\ Goto(p, "FindBlob")
      BY <1>0, <1>1, <1>2, <1>3, <2>1 DEF Goto, Answer, Sound
    <2>2. CASE ~ (ReadSignedID(t.token).err = "nil" /\ Goto(p, "FindBlob"))
      BY <1>1, <1>2, <2>2 DEF Goto, Answer
    <2> QED BY <2>1, <2>2
  <1>5. /\ answer'[p] = a /\ pc'[p] = l /\ asked'[p] = t /\ wanted'[p] = u /\ checkedAt'[p] = now
        /\ l = "FindBlob" => blob'[p] = t.token.value
        /\ \A q \in Procs \ {p} :
             /\ answer'[q] = answer[q] /\ pc'[q] = pc[q] /\ asked'[q] = asked[q]
             /\ wanted'[q] = wanted[q] /\ checkedAt'[q] = checkedAt[q] /\ blob'[q] = blob[q]
    BY <1>0, <1>1, <1>4
  <1>6. PlaceTypeOK'
    <2>1. a \in Answers
      BY <1>4 DEF Sound
    <2> QED BY <1>0, <1>1, <1>4, <2>1 DEF UseInv, TypeOK, PlaceTypeOK
  <1>7. ASSUME NEW q \in Procs PROVE AnswerOK(q)'
    <2>1. CASE q = p
      BY <1>4, <1>5, <2>1 DEF AnswerOK
    <2>2. CASE q # p
      BY <1>5, <2>2 DEF UseInv, AnswersOK, AnswerOK
    <2> QED BY <2>1, <2>2
  <1> QED BY <1>6, <1>7 DEF AnswersOK

LEMMA LocalStep ==
  ASSUME UseInv, RowEffect, Tick \/ Purge \/ \E p \in Procs : Act(p)
  PROVE  LocalTypeOK'
  <1>0. /\ now \in Nat /\ now' \in Nat /\ now <= now'
        /\ nextBlobID \in Nat /\ nextBlobID' \in Nat /\ nextBlobID <= nextBlobID'
    BY Counters, UploadBoundsAssumption DEF UseInv, RowEffect, RowTypeOK
  <1>1. /\ 0 .. now \subseteq 0 .. now' /\ now \in 0 .. now'
        /\ 0 .. nextBlobID \subseteq 0 .. nextBlobID' /\ nextBlobID' \in 0 .. nextBlobID'
    BY <1>0
  <1>2. LocalTypeOK
    BY DEF UseInv, TypeOK
  <1>3. CASE Tick \/ Purge
    BY <1>1, <1>2, <1>3 DEF Tick, Purge, LocalTypeOK, locals
  <1> SUFFICES ASSUME NEW p \in Procs, Act(p) PROVE LocalTypeOK'
    BY <1>3
  <1>4. CASE StoreFault(p) \/ DirectUpload(p) \/ GenerateOther(p) \/ FindBlob(p)
    BY <1>1, <1>2, <1>4 DEF StoreFault, DirectUpload, GenerateOther, FindBlob, LocalTypeOK, locals
  <1>5. CASE CreateBeforeDirectUpload(p) /\ ~ StoreFault(p)
    <2>1. PICK d \in Lifetimes : lifetime' = [lifetime EXCEPT ![p] = d]
      BY <1>5 DEF CreateBeforeDirectUpload
    <2>2. blob' = [blob EXCEPT ![p] = nextBlobID'] /\ UNCHANGED checkedAt
      BY <1>5 DEF CreateBeforeDirectUpload
    <2> QED BY <1>1, <1>2, <2>1, <2>2 DEF LocalTypeOK
  <1>6. CASE Present(p)
    <2>1. /\ checkedAt' = [checkedAt EXCEPT ![p] = now] /\ UNCHANGED lifetime
          /\ UNCHANGED blob \/ \E t \in issued : /\ ReadSignedID(t.token).err = "nil"
                                  /\ blob' = [blob EXCEPT ![p] = ReadSignedID(t.token).value]
      BY <1>6 DEF Present
    <2>2. ASSUME NEW t \in issued, ReadSignedID(t.token).err = "nil"
          PROVE  ReadSignedID(t.token).value \in 0 .. nextBlobID
      <3>1. ReadSignedID(t.token).value = t.token.value
        BY <2>2, TokenFacts, ReadSound DEF Sound
      <3>2. TokenTypeOK(t)
        BY DEF UseInv, TypeOK
      <3> QED BY <3>1, <3>2 DEF TokenTypeOK
    <2> QED BY <1>1, <1>2, <2>1, <2>2 DEF LocalTypeOK
  <1> QED BY <1>4, <1>5, <1>6 DEF Act

LEMMA RowStep ==
  ASSUME TypeOK, Tick \/ Purge \/ \E p \in Procs : Act(p)
  PROVE  RowEffect
  BY CreateRowEffect, PurgeRowEffect, OtherRowEffect DEF Act

LEMMA AnswersStep ==
  ASSUME UseInv, UNCHANGED signer, Tick \/ Purge \/ \E p \in Procs : Act(p)
  PROVE  AnswersOK' /\ PlaceTypeOK'
  <1> USE DEF UseInv, TypeOK, PlaceTypeOK, AnswersOK, AnswerOK
  <1>1. CASE Tick \/ Purge
    BY <1>1 DEF Tick, Purge, locals
  <1>2. ASSUME NEW p \in Procs, GenerateOther(p) PROVE AnswersOK' /\ PlaceTypeOK'
    BY <1>2 DEF GenerateOther, locals
  <1> QED BY <1>1, <1>2, FaultStep, CreateAnswers, DirectUploadAnswers, FindBlobAnswers,
             PresentAnswers DEF Act

LEMMA UseInit == Init => UseInv
  <1> SUFFICES ASSUME Init PROVE UseInv
    OBVIOUS
  <1>1. RailsToken(Sign(0, ""), 0, "", Never)
    BY GeneratedForEver DEF Sign
  <1>2. NoToken.token = Sign(0, "") /\ NoToken.made = 0 /\ NoToken.life = 0
    BY DEF NoToken, Handed
  <1>3. Expiry(0, 0) = Never
    BY DEF Expiry
  <1>4. TokenTypeOK(NoToken)
    BY NoTokenType DEF Init
  <1>5. TokenOK(NoToken)
    BY <1>1, <1>2, <1>3, <1>4 DEF TokenOK, FormOK, RailsToken
  <1>6. TokensOK /\ AskedOK
    BY <1>5 DEF Init, TokensOK, AskedOK
  <1>7. AnswersOK
    BY SilentSound DEF Init, AnswersOK, AnswerOK, NoAnswer
  <1> QED BY <1>6, <1>7, InitType DEF Init, UseInv

LEMMA UseNext == UseInv /\ [Next]_vars => UseInv'
  <1>1. ASSUME UseInv, Next PROVE UseInv'
    <2>1. UNCHANGED signer /\ (Tick \/ Purge \/ \E p \in Procs : Act(p))
      BY <1>1 DEF Next, Act
    <2>2. RowEffect
      BY <1>1, <2>1, RowStep DEF UseInv
    <2>3. TokenEffect /\ AskedOK'
      BY <1>1, <2>1, TokenStep DEF UseInv
    <2>4. TokensOK'
      BY <1>1, <2>2, <2>3, TokensStep DEF UseInv
    <2>5. LocalTypeOK' /\ AnswersOK' /\ PlaceTypeOK'
      BY <1>1, <2>1, <2>2, LocalStep, AnswersStep
    <2>6. TypeOK'
      BY <2>2, <2>4, <2>5 DEF RowEffect, TypeOK, TokensOK, TokenOK
    <2> QED BY <1>1, <2>2, <2>3, <2>4, <2>5, <2>6 DEF UseInv, RowEffect
  <1>2. ASSUME UseInv, UNCHANGED vars PROVE UseInv'
    BY <1>2 DEF UseInv, TypeOK, RowTypeOK, PlaceTypeOK, LocalTypeOK, TokenTypeOK, AskedOK, TokensOK,
                TokenOK, AnswersOK, AnswerOK, vars, rowVars, locals
  <1> QED BY <1>1, <1>2

LEMMA UseInvariant == Spec => []UseInv
  BY UseInit, UseNext, PTL DEF Spec

-----------------------------------------------------------------------------
(* What tokens promise.                                                     *)

\* The rows, the tokens and the answers keep their types; no token names a blob that
\* was never created (blob.go:217, 398).
THEOREM TokensTypeCorrect == Spec => []TypeOK
  BY UseInvariant, PTL DEF UseInv

\* A token that is accepted for a purpose was made for it, and yields the value it was
\* made of: Verify, Verified and FindSignedBlob of either signer (signer.go:54, 176).
THEOREM PurposeKept == Spec => []AcceptedForPurpose
  <1>1. UseInv => AcceptedForPurpose
    BY DEF UseInv, AnswersOK, AnswerOK, Sound, AcceptedForPurpose
  <1> QED BY <1>1, UseInvariant, PTL

\* The numbers alone.
LEMMA ExpiryNear ==
  ASSUME NEW made \in Nat, NEW life \in Int, life > 0
  PROVE  /\ Expiry(made, life) \in Nat /\ Expiry(made, life) <= made + life
         /\ made + life - Millisecond < Expiry(made, life)
  <1>1. PICK end \in Nat : end = made + life
    OBVIOUS
  <1>2. Expiry(made, life) = Formatted(end)
    BY <1>1 DEF Expiry
  <1>3. /\ Formatted(end) \in Nat
        /\ Formatted(end) <= end /\ end - Millisecond < Formatted(end)
    BY FormattedBounds
  <1> QED BY <1>1, <1>2, <1>3, MillisecondAssumption

LEMMA NotNever == \A e \in Nat : e # Never
  BY NeverAssumption

LEMMA BeforeEnd ==
  ASSUME NEW made \in Nat, NEW life \in Nat, NEW e \in Nat, NEW at \in Nat,
         e <= made + life, at < e
  PROVE  at < made + life
  OBVIOUS

LEMMA AfterEnd ==
  ASSUME NEW made \in Nat, NEW life \in Int, NEW e \in Nat, NEW at \in Nat,
         made + life - Millisecond < e, ~ at < e
  PROVE  at > made + life - Millisecond
  BY MillisecondAssumption

LEMMA Positive == \A life \in Nat : life # 0 => life > 0
  OBVIOUS

LEMMA UpTo == \A n \in Nat : 0 .. n \subseteq Nat
  OBVIOUS

\* What a goroutine keeps of the token it presented is of these types.
LEMMA AskedFacts ==
  ASSUME UseInv, NEW p \in Procs
  PROVE  /\ asked[p].life \in Int /\ asked[p].life \in Lifetimes \union {0}
         /\ asked[p].made \in Nat /\ checkedAt[p] \in Nat
  <1>1. now \in Nat
    BY Counters DEF UseInv
  <1>2. asked[p].made \in 0 .. now /\ checkedAt[p] \in 0 .. now
    BY DEF UseInv, TokensOK, TokenOK, TokenTypeOK, TypeOK, LocalTypeOK
  <1>3. asked[p].life \in Int /\ asked[p].life \in Lifetimes \union {0}
    BY DEF UseInv, TokensOK, TokenOK, TokenTypeOK
  <1> QED BY <1>1, <1>2, <1>3, UpTo, Zenon

\* The expiry of a token that was made to last.
LEMMA ExpiryBounds ==
  ASSUME UseInv, NEW p \in Procs
  PROVE  LET t == asked[p] IN
         /\ t.life > 0 => /\ t.token.exp \in Nat /\ t.token.exp <= t.made + t.life
                          /\ t.made + t.life - Millisecond < t.token.exp
         /\ ~ t.life > 0 => t.token.exp = Never
  <1>1. asked[p].token.exp = Expiry(asked[p].made, asked[p].life)
    BY DEF UseInv, TokensOK, TokenOK
  <1>2. ~ asked[p].life > 0 => asked[p].token.exp = Never
    BY <1>1 DEF Expiry
  <1> QED BY <1>1, <1>2, AskedFacts, ExpiryNear, Zenon

\* Without negative lifetimes (a negative expiresIn asks for no expiry: disk_service.go:71),
\* a token made to last for a time is accepted for a purpose only before that time is over.
THEOREM LifetimeBounds ==
  ASSUME Lifetimes \subseteq Nat
  PROVE  Spec => []AcceptedInTime
  <1>1. UseInv => AcceptedInTime
    <2> SUFFICES ASSUME UseInv, NEW p \in Procs, Accepted(p), asked[p].life # 0, wanted[p] # ""
                 PROVE  checkedAt[p] < asked[p].made + asked[p].life
      BY DEF AcceptedInTime
    <2>1. asked[p].life \in Nat /\ asked[p].made \in Nat /\ checkedAt[p] \in Nat
      BY AskedFacts
    <2>2. asked[p].life > 0
      BY <2>1, Positive, Zenon
    <2>3. asked[p].token.exp \in Nat /\ asked[p].token.exp <= asked[p].made + asked[p].life
      BY <2>2, ExpiryBounds, Zenon
    <2>4. InTime(asked[p].token, checkedAt[p])
      BY DEF UseInv, AnswersOK, AnswerOK, Sound, Accepted
    <2>5. asked[p].token.exp # Never
      BY <2>3, NotNever, Zenon
    <2>6. checkedAt[p] < asked[p].token.exp
      BY <2>4, <2>5, Zenon DEF InTime
    <2> QED BY <2>1, <2>3, <2>6, BeforeEnd, Zenon
  <1> QED BY <1>1, UseInvariant, PTL

\* A token that is refused as expired was made to last, and not before the last
\* millisecond of its life (signer.go:153, 210).
THEOREM RefusedOnlyLate == Spec => []NotExpiredEarly
  <1>1. UseInv => NotExpiredEarly
    <2> SUFFICES ASSUME UseInv, NEW p \in Procs, answer[p].err = "ErrExpired"
                 PROVE  /\ asked[p].life > 0
                        /\ checkedAt[p] > asked[p].made + asked[p].life - Millisecond
      BY DEF NotExpiredEarly
    <2>1. asked[p].life \in Int /\ asked[p].made \in Nat /\ checkedAt[p] \in Nat
      BY AskedFacts
    <2>2. asked[p].token.exp # Never /\ ~ checkedAt[p] < asked[p].token.exp
      BY DEF UseInv, AnswersOK, AnswerOK, Sound
    <2>3. asked[p].life > 0
      BY <2>2, ExpiryBounds, Zenon
    <2>4. /\ asked[p].token.exp \in Nat
          /\ asked[p].made + asked[p].life - Millisecond < asked[p].token.exp
      BY <2>3, ExpiryBounds, Zenon
    <2> QED BY <2>1, <2>2, <2>3, <2>4, AfterEnd, Zenon
  <1> QED BY <1>1, UseInvariant, PTL

\* A signed id never yields a blob that was purged, whether it was verified before the
\* purge or after it: no blob id is used again (blob.go:266, store.go:56).
THEOREM PurgedForGood == Spec => PurgedStaysGone
  <1> DEFINE Ok == \A p \in Procs : pc[p] = "FindBlob" /\ pc'[p] = "idle" /\ answer'[p].err = "nil" =>
                     blob[p] \notin purged
  <1>1. UseInv /\ [Next]_vars => [Ok]_vars
    <2> SUFFICES ASSUME UseInv, Next, NEW p \in Procs,
                        pc[p] = "FindBlob", pc'[p] = "idle", answer'[p].err = "nil"
                 PROVE  blob[p] \notin purged
      OBVIOUS
    <2>1. FindBlob(p)
      <3>1. ASSUME NEW q \in Procs, q # p, Act(q) PROVE pc'[p] = pc[p]
        BY <3>1 DEF Act, CreateBeforeDirectUpload, DirectUpload, GenerateOther, Present, FindBlob,
                    StoreFault, Answer, Goto, UseInv, TypeOK, PlaceTypeOK
      <3>2. pc'[p] # pc[p] /\ ~ Tick /\ ~ Purge
        BY DEF Tick, Purge
      <3>3. Act(p)
        BY <3>1, <3>2 DEF Next, Act
      <3> QED BY <3>3 DEF Act, CreateBeforeDirectUpload, DirectUpload, GenerateOther, Present
    <2>2. /\ answer \in [Procs -> Answers]
          /\ \/ answer' = [answer EXCEPT ![p] = IF Store!FindBlob(blob[p])
                                               THEN [err |-> "nil", value |-> blob[p]]
                                               ELSE [err |-> "ErrBlobNotFound", value |-> NoValue]]
             \/ answer' = [answer EXCEPT ![p] = [err |-> "fault", value |-> NoValue]]
      BY <2>1 DEF FindBlob, StoreFault, Answer, UseInv, TypeOK, PlaceTypeOK
    <2>3. blob[p] \in blobs
      BY <2>2 DEF Store!FindBlob
    <2> QED BY <2>3 DEF UseInv
  <1> QED BY <1>1, UseInvariant, PTL DEF Spec, PurgedStaysGone
=============================================================================
