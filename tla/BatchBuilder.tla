---------------------------- MODULE BatchBuilder ----------------------------
(***************************************************************************)
(* A Batch being built (ring/batch/core.rs), with the depth-first search   *)
(* by which add_dependency looks for a cycle (validation.rs                *)
(* would_create_cycle), one turn of its loop per step. Nothing else runs   *)
(* during the search: add_dependency holds &mut self. The Vec that serves  *)
(* as the stack is a set from which any element may be popped.             *)
(***************************************************************************)
EXTENDS Dependencies

VARIABLES
  len,         \* Batch.operations.len()
  deps,        \* Batch.dependencies
  answer,      \* whether the last call returned Ok
  searching,   \* would_create_cycle is running
  dependent,   \* arguments of add_dependency
  dependency,
  stack,       \* locals of would_create_cycle
  visited

vars == <<len, deps, answer, searching, dependent, dependency, stack, visited>>
search == <<searching, dependent, dependency, stack, visited>>

Init ==
  /\ len = 0 /\ deps = NoEdges /\ answer = "none"
  /\ searching = FALSE /\ dependent = 0 /\ dependency = 0
  /\ stack = {} /\ visited = {}

AddOperation ==
  /\ ~searching
  /\ \/ len < MaxOperations /\ len' = len + 1 /\ answer' = "ok"
     \/ len' = len /\ answer' = "error"  \* full, or an invalid operation
  /\ UNCHANGED <<deps, search>>

RefuseDependency(x, y) ==
  /\ ~searching
  /\ x >= len \/ y >= len \/ x = y
  /\ answer' = "error"
  /\ UNCHANGED <<len, deps, search>>

AddDependency(x, y) ==
  /\ ~searching
  /\ x < len /\ y < len /\ x # y
  /\ searching' = TRUE
  /\ dependent' = x /\ dependency' = y
  /\ stack' = {y} /\ visited' = {}
  /\ UNCHANGED <<len, deps, answer>>

Return == searching' = FALSE /\ dependent' = 0 /\ dependency' = 0
          /\ stack' = {} /\ visited' = {}

FindCycle ==
  /\ searching
  /\ dependent \in stack
  /\ Return
  /\ answer' = "error"
  /\ UNCHANGED <<len, deps>>

SkipVisited(x) ==
  /\ searching
  /\ x \in stack /\ x # dependent /\ x \in visited
  /\ stack' = stack \ {x}
  /\ UNCHANGED <<len, deps, answer, searching, dependent, dependency, visited>>

(* Seeded fault: only the direct dependencies are looked at.               *)
PushNothing(x) == {}

Push(x) == deps[x]

Visit(x) ==
  /\ searching
  /\ x \in stack /\ x # dependent /\ x \notin visited
  /\ visited' = visited \union {x}
  /\ stack' = (stack \ {x}) \union Push(x)
  /\ UNCHANGED <<len, deps, answer, searching, dependent, dependency>>

FindNone ==
  /\ searching
  /\ stack = {}
  /\ deps' = AddEdge(deps, dependent, dependency)
  /\ answer' = "ok"
  /\ Return
  /\ UNCHANGED len

Clear ==
  /\ ~searching
  /\ len' = 0 /\ deps' = NoEdges
  /\ UNCHANGED <<answer, search>>

Next == \/ AddOperation \/ Clear
        \/ \E x, y \in Node : AddDependency(x, y) \/ RefuseDependency(x, y)
        \/ FindCycle \/ FindNone
        \/ \E x \in Node : Visit(x) \/ SkipVisited(x)

Spec == Init /\ [][Next]_vars

---------------------------------------------------------------------------
(* Types. A dependency names operations of the batch: the batch futures    *)
(* index their results with it (batch_future.rs 194).                      *)
TypeOK ==
  /\ len \in 0 .. MaxOperations
  /\ deps \in Graph
  /\ answer \in {"none", "ok", "error"}
  /\ searching \in BOOLEAN
  /\ dependent \in Nat /\ dependency \in Nat
  /\ searching => /\ dependent < len /\ dependency < len
                  /\ dependent # dependency
  /\ stack \subseteq Node /\ visited \subseteq Node
  /\ \A x \in Node : deps[x] # {} => x < len
  /\ \A x \in Node : \A y \in deps[x] : y < len

(* No operation of a batch ever depends on itself, directly or through     *)
(* others, whatever dependencies are added.                                *)
NoCycle == Acyclic(deps)

(* The loop of would_create_cycle: what is on the stack or visited is      *)
(* something the new dependency depends on, what has been visited is       *)
(* followed up, and the dependent is not among it.                         *)
SearchInv ==
  searching =>
    /\ stack \union visited \subseteq Reach(deps, dependency)
    /\ dependency \in stack \union visited
    /\ dependent \notin visited
    /\ \A x \in visited : deps[x] \subseteq stack \union visited

IInv == TypeOK /\ NoCycle /\ SearchInv

(* The search implements the promise: add_dependency refuses exactly what  *)
(* would close a cycle (validation.rs 131), and accepts everything else.   *)
Promise == INSTANCE BatchGraph

Implements == Promise!Spec
=============================================================================
