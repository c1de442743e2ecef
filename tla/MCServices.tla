------------------------------ MODULE MCServices ------------------------------
(* Instances of Services for TLC.                                           *)
EXTENDS Services, TLC

CONSTANTS main, spare, backup

\* Two services of one name and one of another.
ServiceNames == (main :> "local") @@ (spare :> "local") @@ (backup :> "backup")
=============================================================================
