------------------------------- MODULE Compat -------------------------------
(***************************************************************************)
(* compat::File and compat::Socket: a reader and a writer over one         *)
(* descriptor. They share nothing but that and the Ring; a File also       *)
(* closes the descriptor when it is dropped, before its adapters are       *)
(* dropped, whose futures then leave their operations to the orphan        *)
(* tracker. The kernel goes on with those.                                 *)
(***************************************************************************)
EXTENDS Naturals, FiniteSets, Sequences, SequencesExt

CONSTANTS Available, Room, MaxAsk, MaxReads, Size, MaxBytes, MaxOffer

ASSUME CompatAssumption == /\ {Available, MaxAsk, MaxOffer} \subseteq Nat
                           /\ {Room, Size} \subseteq Nat \ {0}

VARIABLES seekable, taken, internal, flight, data, cached, pos, reads,
          delivered, squeezed

VARIABLES place, memory, write, offered, carries, since, wire, cut, refused,
          unreported, flushed

VARIABLE open  \* the File exists and its descriptor is open

Reader == INSTANCE ReadAdapter
Writer == INSTANCE WriteAdapter

readVars == <<seekable, taken, internal, flight, data, cached, pos, reads,
              delivered, squeezed>>
writeVars == <<seekable, place, memory, write, offered, carries, since, wire, cut,
               refused, unreported, flushed>>
vars == <<readVars, writeVars, open>>

Init == Reader!Init /\ Writer!Init /\ open = TRUE

Read == /\ open
        /\ \E ask \in 0 .. MaxAsk : Reader!PollRead(ask)
        /\ UNCHANGED <<writeVars, open>>

Write == /\ open
         /\ Writer!PollFlush \/ \E n \in 0 .. MaxOffer : Writer!PollWrite(n)
         /\ UNCHANGED <<readVars, open>>

(* The kernel answers; for an orphan nobody sees the answer, but its bytes *)
(* are taken or written all the same.                                      *)
Kernel == /\ \/ Reader!KernelRead /\ UNCHANGED writeVars
             \/ Writer!KernelWrite /\ UNCHANGED readVars
          /\ UNCHANGED open

(* Drop for File closes the descriptor; then its adapters go, and with     *)
(* them their futures. What is in flight becomes an orphan.                *)
Drop == open /\ open' = FALSE /\ UNCHANGED <<readVars, writeVars>>

Next == Read \/ Write \/ Kernel \/ Drop

Spec == Init /\ [][Next]_vars

---------------------------------------------------------------------------
(* A reader of a File or Socket gets the stream whole, in order and once   *)
(* (ReadAdapter).                                                          *)
StreamIntact == Reader!StreamIntact

(* A flush that succeeds is one (WriteAdapter).                            *)
FlushedOnWire == Writer!FlushedOnWire

(* Accepted bytes go out in order (WriteAdapter).                          *)
FirstInOrder == Writer!FirstInOrder
=============================================================================
