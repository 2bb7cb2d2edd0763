------------------------------- MODULE Clients -------------------------------
(***************************************************************************)
(* Two ways of using a Ring without its futures: the tokio adapters, with  *)
(* a File or a Socket (Compat), and a task that waits for an operation of  *)
(* the borrowed API in await_completion or in a future of that API         *)
(* (Awaiting). The adapters borrow the Ring, and the borrowed API needs it *)
(* alone: while an adapter lives nothing of the other can be called, so a  *)
(* behaviour shows one of them.                                            *)
(***************************************************************************)
EXTENDS Compat

CONSTANTS
  Op,          \* operations of the borrowed API
  BlockAfter,  \* polls of try_complete_by_id before it blocks (50 in the code)
  None

ASSUME AwaitingAssumption == BlockAfter \in Nat /\ None \notin Op

VARIABLES asyncFd, polls, unused, kernel, cq, cache, wakers, event, ready, op, at,  \* of Awaiting
          shown                                                        \* which one is shown

Await == INSTANCE Awaiting

awaitVars == <<asyncFd, polls, unused, kernel, cq, cache, wakers, event, ready, op, at>>
allVars == <<vars, awaitVars, shown>>

(* Bound: the one that is not shown has one initial state.                 *)
ClientsInit ==
  /\ Init /\ Await!Init
  /\ shown \in {"adapters", "awaiting"}
  /\ shown = "adapters" => ~asyncFd /\ polls = 0
  /\ shown = "awaiting" => ~seekable

ClientsNext == /\ \/ shown = "adapters" /\ Next /\ UNCHANGED awaitVars
                  \/ shown = "awaiting" /\ Await!Next /\ UNCHANGED vars
               /\ UNCHANGED shown

ClientsSpec == ClientsInit /\ [][ClientsNext]_allVars /\ Await!Fairness

(* A task that waits gets the answer (Awaiting).                           *)
AwaitedResolves == Await!AwaitedResolves
=============================================================================
