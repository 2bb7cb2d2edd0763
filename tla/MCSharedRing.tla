---------------------------- MODULE MCSharedRing ----------------------------
(* The instance of SharedRing that TLC checks.                             *)
EXTENDS SharedRing
=============================================================================
