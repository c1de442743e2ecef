-------------------------------- MODULE MCDisk --------------------------------
(* Instances of DiskClients for TLC.                                        *)
EXTENDS DiskClients, TLC

CONSTANTS short, long

\* Goroutines are interchangeable, and keys.
Symmetry == Permutations(Procs) \union Permutations(Keys)

\* One content shorter than the other.
Lengths == (short :> 1) @@ (long :> 2)
=============================================================================
