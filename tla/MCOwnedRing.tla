--------------------------- MODULE MCOwnedRing ---------------------------
(* Instance of OwnedRing for TLC. Buffers are interchangeable: no action   *)
(* names one of them. The symmetry is used by the safety runs only.        *)
EXTENDS OwnedRing, TLC

BufSymmetry == Permutations(Buf)
=============================================================================
