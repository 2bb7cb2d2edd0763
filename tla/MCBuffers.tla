----------------------------- MODULE MCBuffers ------------------------------
(* The instance of Buffers that TLC checks. The groups are below, at and   *)
(* above the number of indices.                                            *)
EXTENDS Buffers
=============================================================================
