--------------------------- MODULE MCBatchBuilder ---------------------------
(* The instance of BatchValidation that TLC checks: batches of up to four  *)
(* operations, and all graphs of three operations.                         *)
EXTENDS BatchValidation

OfThree == {[x \in Node |-> IF x = 3 THEN {} ELSE g[x]] : g \in [0 .. 2 -> SUBSET (0 .. 2)]}
=============================================================================
