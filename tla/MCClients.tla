----------------------------- MODULE MCClients -----------------------------
(* Instance of Clients for TLC.                                            *)
EXTENDS Clients
=============================================================================
