------------------------------ MODULE MCRegister ------------------------------
(***************************************************************************)
(* Two ways of using has_one_attached in which it keeps its promise: one    *)
(* caller at a time and no failing seam, or concurrent callers that only    *)
(* attach.                                                                  *)
(***************************************************************************)
EXTENDS Attachments

CONSTANTS
    loner,           \* the goroutine that makes every call when used alone
    MaxAttachCalls   \* bound: calls made by concurrent callers

VARIABLE use

OneCalls == {"create", "one.Attach", "one.Detach", "one.Purge", "att.Purge"}

UseInit == Init /\ use \in {"alone", "attach"}

\* What callers of each kind refrain from; use stays what it was chosen to be.
Keeps ==
    /\ \/ /\ use = "alone"
          /\ faults' = 0
          /\ \A p \in Procs \ {loner} : pc'[p] = "idle"
       \/ /\ use = "attach"
          /\ calls' <= MaxAttachCalls
          /\ \A p \in Procs : op'[p] \in {"create", "one.Attach"}
    /\ UNCHANGED use

UseNext == Next /\ Keeps

UseSpec == UseInit /\ [][UseNext]_<<vars, use>>

\* An association used by one caller at a time holds at most one row after calls
\* that returned nil: OneAttached.Attach takes the row it replaced away.
AloneKeepsOne == use = "alone" => SingleAttachment
=============================================================================
