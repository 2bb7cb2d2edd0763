----------------------------- MODULE BatchGraph -----------------------------
(***************************************************************************)
(* What a Batch promises while it is built: add_dependency refuses exactly *)
(* the dependencies that are out of bounds or would close a cycle. How it  *)
(* finds out is left to BatchBuilder.                                      *)
(***************************************************************************)
EXTENDS Dependencies

VARIABLES
  len,    \* Batch.operations.len()
  deps,   \* Batch.dependencies
  answer  \* whether the last call returned Ok

vars == <<len, deps, answer>>

Init == len = 0 /\ deps = NoEdges /\ answer = "none"

AddOperation ==
  /\ len < MaxOperations
  /\ len' = len + 1
  /\ answer' = "ok"
  /\ UNCHANGED deps

(* The batch is full or the operation invalid.                             *)
RefuseOperation == answer' = "error" /\ UNCHANGED <<len, deps>>

Allowed(x, y) == x < len /\ y < len /\ x # y /\ x \notin Reach(deps, y)

AddDependency(x, y) ==
  /\ Allowed(x, y)
  /\ deps' = AddEdge(deps, x, y)
  /\ answer' = "ok"
  /\ UNCHANGED len

RefuseDependency(x, y) ==
  /\ ~Allowed(x, y)
  /\ answer' = "error"
  /\ UNCHANGED <<len, deps>>

Clear == len' = 0 /\ deps' = NoEdges /\ UNCHANGED answer

Next == \/ AddOperation \/ RefuseOperation \/ Clear
        \/ \E x, y \in Node : AddDependency(x, y) \/ RefuseDependency(x, y)

Spec == Init /\ [][Next]_vars
=============================================================================
