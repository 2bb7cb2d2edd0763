------------------------------ MODULE Backends ------------------------------
(***************************************************************************)
(* What a program does until it has a Ring (Setup), and the backend it may *)
(* have got, the fallback on epoll (Epoll). All of the first is over when  *)
(* the second has anything to do, and a backend does not ask how it was    *)
(* chosen, so a behaviour shows one of them.                               *)
(***************************************************************************)
EXTENDS Epoll

CONSTANTS
  Machine,   \* the machines the program may run on
  MaxCalls,  \* bound: calls of setters on one configuration
  None

ASSUME MachineAssumption ==
  \A m \in Machine : m.version \in Nat \X Nat /\ m.cpus \in Nat \ {0}

VARIABLES machine, calls, features, detected, advanced, config, runtime, ring,  \* of Setup
          moving                                                      \* which one is shown

Start == INSTANCE Setup

startVars == <<machine, calls, features, detected, advanced, config, runtime, ring>>
allVars == <<vars, startVars, moving>>

(* Bound: the fallback is shown on one machine. It does not read it.       *)
BackendsInit ==
  /\ Init /\ Start!Init
  /\ moving \in {"start", "epoll"}
  /\ moving = "epoll" => machine = CHOOSE m \in Machine : TRUE

BackendsNext == /\ \/ moving = "epoll" /\ Next /\ UNCHANGED startVars
                   \/ moving = "start" /\ Start!Next /\ UNCHANGED vars
                /\ UNCHANGED moving

BackendsSpec == BackendsInit /\ [][BackendsNext]_allVars /\ Fairness

(* What is detected grows with the version (Setup).                        *)
DetectionGrows == Start!DetectionGrows

(* The optimal configuration suits the kernel (Setup).                     *)
OptimalFits == Start!OptimalFits

(* There is no ring with a taskrun flag (Setup).                           *)
TaskrunIsRefused == Start!TaskrunIsRefused
=============================================================================
