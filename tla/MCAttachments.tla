---------------------------- MODULE MCAttachments ----------------------------
(* Instances of Attachments for TLC.                                        *)
EXTENDS Attachments, TLC

\* Goroutines and associations are interchangeable.
Symmetry == Permutations(Procs) \union Permutations(Slots)

AttachCalls == {"create", "one.Attach"}
RemoveCalls == {"many.Attach", "many.Detach", "one.Purge", "many.Purge", "att.Purge"}
ManyCalls == {"create", "many.Attach", "many.Purge"}
=============================================================================
