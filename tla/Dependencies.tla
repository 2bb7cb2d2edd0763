---------------------------- MODULE Dependencies ----------------------------
(***************************************************************************)
(* Dependency graphs of a Batch: g[x] is the set of operations that x      *)
(* depends on. What the graph algorithms of ring/batch/validation.rs are   *)
(* to compute is defined here without any algorithm.                       *)
(***************************************************************************)
EXTENDS Naturals

CONSTANT MaxOperations  \* Batch.max_operations (1024 in the code)

ASSUME MaxOperationsAssumption == MaxOperations \in Nat

Node == 0 .. (MaxOperations - 1)

Graph == [Node -> SUBSET Node]

NoEdges == [x \in Node |-> {}]

AddEdge(g, x, y) == [g EXCEPT ![x] = @ \union {y}]

(* S holds with any operation all it depends on.                           *)
Closed(g, S) == \A x \in S : g[x] \subseteq S

(* a and everything a depends on, directly or not.                         *)
Reach(g, a) == {x \in Node : \A S \in SUBSET Node :
                               a \in S /\ Closed(g, S) => x \in S}

Acyclic(g) == \A x \in Node : \A y \in g[x] : x \notin Reach(g, y)
=============================================================================
