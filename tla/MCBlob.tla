-------------------------------- MODULE MCBlob --------------------------------
(* Instances of Blob for TLC.                                               *)
EXTENDS Blob, TLC

CONSTANTS short, long

Symmetry == Permutations(Procs)

Lengths == (short :> 1) @@ (long :> 2)

\* The keys of the blobs a behaviour can build.
BlobKeys == 1 .. MaxOps
=============================================================================
