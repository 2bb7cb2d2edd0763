--------------------------- MODULE BatchValidation --------------------------
(***************************************************************************)
(* A batch being built, and the searches of DependencySearch on it: a      *)
(* caller may ask has_circular_dependencies of it at any time, and its     *)
(* submission sorts it. Both hold the batch while they run. The searches   *)
(* are also asked of graphs no batch has, as their documentation does      *)
(* (validation.rs 48 to 66); nothing is shared with the batch then, which  *)
(* is left empty for it.                                                   *)
(***************************************************************************)
EXTENDS BatchBuilder, Sequences, Functions

CONSTANT Asked  \* the graphs asked about that need not be a batch's

ASSUME AskedAssumption == Asked \subseteq Graph

VARIABLES task, graph, count, roots, path, todo, seen, order, verdict

Search == INSTANCE DependencySearch

searchVars == <<task, graph, count, roots, path, todo, seen, order, verdict>>

ValidationInit == Init /\ Search!Init

Build == task = "none" /\ Next /\ UNCHANGED searchVars

Validate ==
  /\ ~searching /\ task = "none"
  /\ \E t \in {"check", "sort"} :
       \/ Search!Begin(t, deps, len)
       \/ len = 0 /\ \E g \in Asked : Search!Begin(t, g, MaxOperations)
  /\ UNCHANGED vars

Proceed == Search!Next /\ UNCHANGED vars

ValidationNext == Build \/ Validate \/ Proceed

ValidationSpec == ValidationInit /\ [][ValidationNext]_<<vars, searchVars>>

---------------------------------------------------------------------------
(* has_circular_dependencies and dependency_order find a cycle exactly     *)
(* when there is one (DependencySearch).                                   *)
CyclesAreFound == Search!CyclesAreFound

(* The sort that submit_batch runs succeeds on every batch that can be     *)
(* built, and puts each of its operations after all it depends on          *)
(* (batch_operations.rs 122, validation.rs 182).                           *)
OrderIsTopological ==
  /\ graph = deps => verdict # "cycle"
  /\ task = "sort" /\ verdict = "ok" => Search!Topological(order, graph, count)
=============================================================================
