---------------------------- MODULE MCOperations ----------------------------
(* Instance of Operations for TLC. All buffers have the same size, so that *)
(* their handles are told apart by the index alone. Of the two buffers the *)
(* user can lend, one is too long for 32 bits.                             *)
EXTENDS Operations

CONSTANTS m1, m2

SameSize(r) == 1

ShortAndLong == m1 :> 3 @@ m2 :> 4

(* The uses are interchangeable.                                           *)
Symmetry == Permutations(Use)
=============================================================================
