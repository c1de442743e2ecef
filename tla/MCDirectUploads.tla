--------------------------- MODULE MCDirectUploads ---------------------------
(* Instances of DirectUploads for TLC.                                      *)
EXTENDS DirectUploads, TLC
=============================================================================
