------------------------------ MODULE ObjectStore ------------------------------
(***************************************************************************)
(* What a storage service promises of its objects when each key has one    *)
(* writer at a time: under a key there is nothing or one content, whole.   *)
(* An object is stored, replaced by way of nothing, and removed.           *)
(***************************************************************************)
CONSTANTS
    Keys,
    Contents    \* the contents that may be stored

VARIABLE store  \* store[k]: the content under k as a set of at most one

Init == store = [k \in Keys |-> {}]

Put(k) == \E c \in Contents :
    /\ store[k] = {}
    /\ store' = [store EXCEPT ![k] = {c}]

Remove(k) ==
    /\ store[k] # {}
    /\ store' = [store EXCEPT ![k] = {}]

Next == \E k \in Keys : Put(k) \/ Remove(k)

Spec == Init /\ [][Next]_store
=============================================================================
