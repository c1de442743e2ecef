------------------------------- MODULE MCVariant -------------------------------
(* Instances of Variant for TLC.                                            *)
EXTENDS Variant, TLC

CONSTANTS image, other, thumb

\* Goroutines are interchangeable.
Symmetry == Permutations(Procs)

ObjectKeys == Blobs \X (Variations \union {Original})
Images == (Contents \union {Torn}) \X (Variations \union {Original})

\* Every object has two chunks, so that a part of one is seen.
Lengths == [s \in Images |-> 2]
=============================================================================
