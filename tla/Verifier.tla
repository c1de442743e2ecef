-------------------------------- MODULE Verifier --------------------------------
(***************************************************************************)
(* The tokens of signer.go: RailsVerifier.Generate and Verified for typed  *)
(* values, its Sign and Verify for strings, and HMACSigner's Sign and      *)
(* Verify, which know a purpose but no expiry.                             *)
(*                                                                         *)
(* A token is the payload it signs, in the form of its signer.  The HMACs   *)
(* are taken to be ideal: a string that verifies is one that the same kind  *)
(* of signer returned, so only such strings are presented here.  Time is   *)
(* in ticks finer than the milliseconds an expiry is written with.         *)
(***************************************************************************)
EXTENDS Integers

CONSTANTS
    Purposes,     \* the purposes tokens are made for; "" is none
    Dotted,       \* those with a dot in them
    Millisecond,  \* ticks in a millisecond
    Never,        \* the zero time: no expiry
    Envelope,     \* the bytes of a metadata envelope, where a value is expected
    NoValue       \* no value: an error was returned

ASSUME MillisecondAssumption == Millisecond \in Nat \ {0}
ASSUME NeverAssumption == Never \notin Int
ASSUME EnvelopeAssumption == Envelope \notin Int /\ NoValue \notin Int

ASSUME DottedAssumption == Dotted \subseteq Purposes

Errors == {"nil", "ErrInvalidSignature", "ErrExpired"}
Refused == [err |-> "ErrInvalidSignature", value |-> NoValue]

\* form: how the payload is signed; text: what its value is serialized from.
Token(form, text, value, purpose, exp) ==
    [form |-> form, text |-> text, value |-> value, purpose |-> purpose, exp |-> exp]

-----------------------------------------------------------------------------
(* HMACSigner.                                                              *)

\* Sign: "purpose.data.mac".
HMACSign(value, purpose) == Token("hmac", "string", value, purpose, Never)

\* Verify splits at the dots and wants three parts: a purpose with a dot makes four.
HMACVerify(t, purpose) ==
    IF t.form = "hmac" /\ t.purpose \notin Dotted /\ t.purpose = purpose
    THEN [err |-> "nil", value |-> t.value] ELSE Refused

-----------------------------------------------------------------------------
(* RailsVerifier.                                                           *)

\* Faulty variant: an expiry is written without its milliseconds.
WithoutMillis(t) == t - (t % (1000 * Millisecond))

\* Format("2006-01-02T15:04:05.000Z") cuts what is below a millisecond off.
Formatted(t) == t - (t % Millisecond)

\* wrapMetadata: the envelope with the purpose and the expiry.
WrapMetadata(text, value, purpose, expiresAt) ==
    Token("wrapped", text, value, purpose,
          IF expiresAt = Never THEN Never ELSE Formatted(expiresAt))

\* Without a purpose and an expiry the payload is the bare value.
Generate(text, value, purpose, expiresAt) ==
    IF purpose = "" /\ expiresAt = Never
    THEN Token("bare", text, value, "", Never)
    ELSE WrapMetadata(text, value, purpose, expiresAt)

\* Faulty variant: a token is good up to and including its expiry.
ExpiredAfter(t, now) == t.exp # Never /\ t.exp < now

\* ! now.Before(exp)
Expired(t, now) == t.exp # Never /\ ~ now < t.exp

\* Faulty variant: any envelope will do.
AnyPurpose(t, purpose) == t.form = "wrapped"

\* A bare value that is read as an envelope has no purpose at all.
ForPurpose(t, purpose) == t.form = "wrapped" /\ t.purpose = purpose

\* What Verified returns at time now: a value, or an error.  Asked for no purpose
\* it returns the payload as it is.
Verified(t, purpose, now) ==
    CASE t.form = "hmac" -> Refused
      [] t.form # "hmac" /\ purpose = "" ->
           [err |-> "nil", value |-> IF t.form = "wrapped" THEN Envelope ELSE t.value]
      [] t.form # "hmac" /\ purpose # "" /\ ~ ForPurpose(t, purpose) -> Refused
      [] t.form # "hmac" /\ purpose # "" /\ ForPurpose(t, purpose) /\ Expired(t, now) ->
           [err |-> "ErrExpired", value |-> NoValue]
      [] OTHER -> [err |-> "nil", value |-> t.value]

\* Sign and Verify: a JSON string, and nothing but one.
Sign(value, purpose) == Generate("string", value, purpose, Never)

Verify(t, purpose, now) ==
    LET v == Verified(t, purpose, now) IN
    IF v.err = "nil" /\ (t.text # "string" \/ v.value = Envelope) THEN Refused ELSE v
=============================================================================
