-------------------------------- MODULE HasOne --------------------------------
(***************************************************************************)
(* What has_one_attached promises, without rows: each association is a     *)
(* register that holds the value attached last, or nothing.  Values are    *)
(* numbered in the order they are attached, so that a value once           *)
(* overwritten or cleared can never be read again.                         *)
(***************************************************************************)
EXTENDS Integers

CONSTANTS
    Slots,      \* the associations
    Blobs       \* what may be attached

VARIABLES
    current,    \* current[s]: the attachment read from s, or Nothing
    last,       \* number of the attachment made last
    clearing    \* associations someone is detaching or purging

Nothing == [id |-> 0, blob |-> 0]

Init ==
    /\ current = [s \in Slots |-> Nothing]
    /\ last = 0
    /\ clearing = {}

\* The new value replaces the old one in one step.
Attach(s) ==
    /\ last' = last + 1
    /\ current'[s].blob \in Blobs
    /\ current' = [current EXCEPT ![s] = [id |-> last + 1, blob |-> current'[s].blob]]
    /\ UNCHANGED clearing

\* A Detach or a Purge comes up to its effect, and may end without it.
Ask(s) == clearing' = clearing \union {s} /\ UNCHANGED <<current, last>>
GiveUp(s) == clearing' = clearing \ {s} /\ UNCHANGED <<current, last>>

\* Only such a call empties an association.
Clear(s) ==
    /\ s \in clearing
    /\ current' = [current EXCEPT ![s] = Nothing]
    /\ clearing' = clearing \ {s}
    /\ UNCHANGED last

Next == \E s \in Slots : Attach(s) \/ Ask(s) \/ GiveUp(s) \/ Clear(s)

Spec == Init /\ [][Next]_<<current, last, clearing>>
=============================================================================
