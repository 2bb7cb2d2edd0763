------------------------------- MODULE MCBatch -------------------------------
(* The instances of Batch that TLC checks.                                 *)
EXTENDS Batch

CONSTANTS b1, b2

TwoAndOne == b1 :> 2 @@ b2 :> 1
Two == b1 :> 2
=============================================================================
