-------------------------- MODULE DependencySearch --------------------------
(***************************************************************************)
(* The two recursive searches of ring/batch/validation.rs, one turn of a   *)
(* loop per step: the check for circular dependencies, and the topological *)
(* sort that the submission of a batch runs. "path" is the recursion: the  *)
(* operations whose calls have not returned, the last one running. In what *)
(* order the Vec of an operation or the keys of the map come is open.      *)
(***************************************************************************)
EXTENDS Dependencies, Sequences, Functions

VARIABLES
  task,     \* "check" has_circular_dependencies, "sort" dependency_order
  graph,    \* their argument dependencies
  count,    \* the argument operation_count
  roots,    \* what the outer loop has not reached yet
  path,     \* the calls of has_cycle or visit_node, as rec_stack or temp_visited
  todo,     \* what the loop of each of these calls has not reached yet
  seen,     \* visited
  order,    \* result; of the check, the operations whose calls have returned
  verdict   \* "none", "cycle" (true, or the error) or "ok"

Init ==
  /\ task = "none" /\ verdict = "none"
  /\ graph = NoEdges /\ count = 0
  /\ roots = {} /\ path = <<>> /\ order = <<>>
  /\ todo = NoEdges /\ seen = {}

OnPath(x) == x \in Range(path)
Top == path[Len(path)]
Running == task # "none" /\ verdict = "none"

Keys(g) == {x \in Node : g[x] # {}}
Count(n) == {x \in Node : x < n}

(* Seeded fault: the outer loop looks at one operation only.               *)
FirstRoot(t, g, n) ==
  LET R == IF t = "check" THEN Keys(g) ELSE Count(n)
  IN {x \in R : \A y \in R : x <= y}

Roots(t, g, n) == IF t = "check" THEN Keys(g) ELSE Count(n)

Begin(t, g, n) ==
  /\ task' = t /\ graph' = g /\ count' = n
  /\ roots' = Roots(t, g, n)
  /\ UNCHANGED <<path, todo, seen, order, verdict>>

(* A call of has_cycle or of visit_node begins.                            *)
Enter(x, left) ==
  /\ path' = Append(path, x)
  /\ todo' = [left EXCEPT ![x] = graph[x]]
  /\ seen' = IF task = "check" THEN seen \union {x} ELSE seen

(* The outer loop; the sort goes through the operations in order.          *)
TakeRoot(x) ==
  /\ Running /\ path = <<>>
  /\ x \in roots /\ (task = "sort" => \A y \in roots : x <= y)
  /\ roots' = roots \ {x}
  /\ IF x \in seen THEN UNCHANGED <<path, todo, seen>> ELSE Enter(x, todo)
  /\ UNCHANGED <<task, graph, count, order, verdict>>

(* The loop over the dependencies, at x.                                   *)
Look(x) == Running /\ path # <<>> /\ x \in todo[Top]
Looked(x) == [todo EXCEPT ![Top] = @ \ {x}]

(* has_cycle asks visited first, visit_node the path.                      *)
Unseen(x) == x \notin seen /\ (task = "sort" => ~OnPath(x))

Descend(x) ==
  /\ Look(x) /\ Unseen(x)
  /\ Enter(x, Looked(x))
  /\ UNCHANGED <<task, graph, count, roots, order, verdict>>

Pass(x) ==
  /\ Look(x) /\ ~Unseen(x) /\ ~OnPath(x)
  /\ todo' = Looked(x)
  /\ UNCHANGED <<task, graph, count, roots, path, seen, order, verdict>>

FindCycle(x) ==
  /\ Look(x) /\ ~Unseen(x) /\ OnPath(x)
  /\ verdict' = "cycle"
  /\ UNCHANGED <<task, graph, count, roots, path, todo, seen, order>>

(* Seeded fault: the result is reversed, as a sort in pre-order needs it.  *)
PutFirst(x) == <<x>> \o order

Put(x) == Append(order, x)

(* The call is through with its loop.                                      *)
Return ==
  /\ Running /\ path # <<>> /\ todo[Top] = {}
  /\ path' = SubSeq(path, 1, Len(path) - 1)
  /\ seen' = seen \union {Top}
  /\ order' = Put(Top)
  /\ UNCHANGED <<task, graph, count, roots, todo, verdict>>

Finish ==
  /\ Running /\ path = <<>> /\ roots = {}
  /\ verdict' = "ok"
  /\ UNCHANGED <<task, graph, count, roots, path, todo, seen, order>>

(* The caller has the result; the locals are gone.                         *)
End ==
  /\ task # "none" /\ verdict # "none"
  /\ task' = "none" /\ verdict' = "none"
  /\ graph' = NoEdges /\ count' = 0
  /\ roots' = {} /\ path' = <<>> /\ order' = <<>>
  /\ todo' = NoEdges /\ seen' = {}

Next == \/ \E x \in Node : TakeRoot(x) \/ Descend(x) \/ Pass(x) \/ FindCycle(x)
        \/ Return \/ Finish \/ End

---------------------------------------------------------------------------
(* Whatever the graph, both searches end in a cycle exactly when there is  *)
(* one, no matter where they start and in what order they go (validation.rs*)
(* 35, 182).                                                               *)
CyclesAreFound == verdict # "none" => (verdict = "cycle" <=> ~Acyclic(graph))

(* Each operation of the batch is there once, after all it depends on.     *)
Topological(out, g, n) ==
  /\ Range(out) = 0 .. (n - 1)
  /\ \A i, j \in DOMAIN out : out[i] = out[j] => i = j
  /\ \A i, j \in DOMAIN out : out[j] \in g[out[i]] => j < i
=============================================================================
