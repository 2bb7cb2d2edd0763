------------------------- MODULE BatchBuilderProofs -------------------------
(***************************************************************************)
(* For a batch of any size: the dependency graph never has a cycle, and    *)
(* the search in add_dependency refuses exactly the dependencies that      *)
(* would close one. For any graph and any order of iteration: the          *)
(* recursive searches report a cycle exactly when there is one, and the    *)
(* sort is topological. Nothing is assumed but that the size is a number   *)
(* and that what is asked about are graphs.                                *)
(***************************************************************************)
EXTENDS BatchValidation, SequenceTheorems, TLAPS

---------------------------------------------------------------------------
(* Reach is a closure.                                                     *)

LEMMA ReachSelf ==
  ASSUME NEW g \in Graph, NEW a \in Node
  PROVE  a \in Reach(g, a)
BY DEF Reach

LEMMA ReachClosed ==
  ASSUME NEW g \in Graph, NEW a \in Node
  PROVE  Reach(g, a) \in SUBSET Node /\ Closed(g, Reach(g, a))
<1>1. Reach(g, a) \in SUBSET Node
  BY DEF Reach
<1>2. ASSUME NEW x \in Reach(g, a), NEW y \in g[x]
      PROVE  y \in Reach(g, a)
  <2>1. x \in Node /\ y \in Node
    BY <1>1 DEF Graph
  <2>2. ASSUME NEW S \in SUBSET Node, a \in S, Closed(g, S)
        PROVE  y \in S
    <3>1. x \in S
      BY <2>2 DEF Reach
    <3>2. QED
      BY <3>1, <2>2 DEF Closed
  <2>3. QED
    BY <2>1, <2>2 DEF Reach
<1>3. QED
  BY <1>1, <1>2 DEF Closed

LEMMA ReachLeast ==
  ASSUME NEW g, NEW a, NEW S \in SUBSET Node, a \in S, Closed(g, S)
  PROVE  Reach(g, a) \subseteq S
BY DEF Reach

(* Adding a dependency on something that does not lead back closes no      *)
(* cycle.                                                                  *)
LEMMA AddEdgeAcyclic ==
  ASSUME NEW g \in Graph, NEW d \in Node, NEW e \in Node,
         Acyclic(g), d \notin Reach(g, e)
  PROVE  AddEdge(g, d, e) \in Graph /\ Acyclic(AddEdge(g, d, e))
<1> DEFINE h == AddEdge(g, d, e)
<1>1. h \in Graph
  BY DEF AddEdge, Graph
<1>2. \A x \in Node : h[x] = IF x = d THEN g[x] \union {e} ELSE g[x]
  BY DEF AddEdge, Graph
<1> HIDE DEF h
<1>3. ASSUME NEW S \in SUBSET Node, Closed(g, S), d \notin S
      PROVE  Closed(h, S)
  BY <1>2, <1>3 DEF Closed
<1>4. ASSUME NEW x \in Node, NEW y \in h[x]
      PROVE  x \notin Reach(h, y)
  <2>1. CASE x = d /\ y = e
    <3>1. Reach(h, e) \subseteq Reach(g, e)
      BY <1>3, ReachClosed, ReachSelf, ReachLeast
    <3>2. QED
      BY <2>1, <3>1
  <2>2. CASE y \in g[x]
    <3>1. y \in Node /\ x \notin Reach(g, y)
      BY <2>2 DEF Graph, Acyclic
    <3>2. CASE d \notin Reach(g, y)
      <4>1. Reach(h, y) \subseteq Reach(g, y)
        BY <1>3, <3>1, <3>2, ReachClosed, ReachSelf, ReachLeast
      <4>2. QED
        BY <3>1, <4>1
    <3>3. CASE d \in Reach(g, y)
      <4> DEFINE U == Reach(g, y) \union Reach(g, e)
      <4>1. U \in SUBSET Node /\ e \in U /\ y \in U
        BY <3>1, ReachClosed, ReachSelf
      <4>2. Closed(g, U)
        BY <3>1, ReachClosed DEF Closed
      <4>3. Closed(h, U)
        BY <1>2, <4>1, <4>2 DEF Closed
      <4>4. Reach(h, y) \subseteq U
        BY <4>1, <4>3, ReachLeast
      <4>5. x \notin Reach(g, e)
        <5>1. SUFFICES ASSUME x \in Reach(g, e) PROVE FALSE
          OBVIOUS
        <5>2. y \in Reach(g, e) /\ Closed(g, Reach(g, e))
          BY <5>1, <2>2, ReachClosed DEF Closed
        <5>3. Reach(g, y) \subseteq Reach(g, e)
          BY <5>2, ReachClosed, ReachLeast
        <5>4. QED
          BY <3>3, <5>3
      <4>6. QED
        BY <3>1, <4>4, <4>5
    <3>4. QED
      BY <3>2, <3>3
  <2>3. QED
    BY <1>2, <1>4, <2>1, <2>2
<1>5. Acyclic(h)
  BY <1>4 DEF Acyclic
<1>6. QED
  BY <1>1, <1>5 DEF h

LEMMA NoEdgesAcyclic == NoEdges \in Graph /\ Acyclic(NoEdges)
BY DEF NoEdges, Graph, Acyclic

---------------------------------------------------------------------------
(* The invariant of the search loop.                                       *)

LEMMA Outcome ==
  ASSUME IInv, searching
  PROVE  /\ dependent \in Node /\ dependency \in Node
         /\ dependent \in stack => dependent \in Reach(deps, dependency)
         /\ stack = {} => dependent \notin Reach(deps, dependency)
<1>1. dependent \in Node /\ dependency \in Node
  BY MaxOperationsAssumption DEF IInv, TypeOK, Node
<1>2. dependent \in stack => dependent \in Reach(deps, dependency)
  BY DEF IInv, SearchInv
<1>3. ASSUME stack = {}
      PROVE  dependent \notin Reach(deps, dependency)
  <2>1. visited \in SUBSET Node /\ dependency \in visited
    BY <1>3 DEF IInv, TypeOK, SearchInv
  <2>2. Closed(deps, visited)
    BY <1>3 DEF IInv, SearchInv, Closed
  <2>3. Reach(deps, dependency) \subseteq visited
    BY <2>1, <2>2, ReachLeast
  <2>4. QED
    BY <2>3 DEF IInv, SearchInv
<1>4. QED
  BY <1>1, <1>2, <1>3

LEMMA TypeStep ==
  ASSUME IInv, [Next]_vars
  PROVE  TypeOK'
<1> USE MaxOperationsAssumption DEF IInv
<1>1. CASE AddOperation
  <2>1. len' \in 0 .. MaxOperations /\ len <= len'
    BY <1>1 DEF TypeOK, AddOperation
  <2>2. \A x \in Node : \A y \in deps[x] : y \in Node
    BY DEF TypeOK, Graph
  <2>3. /\ \A x \in Node : deps[x] # {} => x < len'
        /\ \A x \in Node : \A y \in deps[x] : y < len'
    BY <2>1, <2>2 DEF TypeOK, Node
  <2>4. QED
    BY <1>1, <2>1, <2>3 DEF TypeOK, AddOperation, search
<1>2. CASE Clear
  BY <1>2 DEF TypeOK, Clear, search, NoEdges, Graph, Node
<1>3. ASSUME NEW x \in Node, NEW y \in Node, AddDependency(x, y)
      PROVE  TypeOK'
  BY <1>3 DEF TypeOK, AddDependency, Node
<1>4. ASSUME NEW x \in Node, NEW y \in Node, RefuseDependency(x, y)
      PROVE  TypeOK'
  BY <1>4 DEF TypeOK, RefuseDependency, search
<1>5. CASE FindCycle
  BY <1>5 DEF TypeOK, FindCycle, Return
<1>6. CASE FindNone
  <2>1. dependent \in Node /\ dependency \in Node /\ dependent < len /\ dependency < len
    BY <1>6, Outcome DEF TypeOK, FindNone
  <2>2. deps' \in Graph
    BY <1>6, <2>1 DEF TypeOK, FindNone, AddEdge, Graph
  <2>3. \A x \in Node : deps'[x] = IF x = dependent THEN deps[x] \union {dependency} ELSE deps[x]
    BY <1>6, <2>1 DEF TypeOK, FindNone, AddEdge, Graph
  <2>4. QED
    BY <1>6, <2>1, <2>2, <2>3 DEF TypeOK, FindNone, Return
<1>7. ASSUME NEW x \in Node, Visit(x)
      PROVE  TypeOK'
  BY <1>7 DEF TypeOK, Visit, Push, Graph
<1>8. ASSUME NEW x \in Node, SkipVisited(x)
      PROVE  TypeOK'
  BY <1>8 DEF TypeOK, SkipVisited
<1>9. CASE UNCHANGED vars
  BY <1>9 DEF TypeOK, vars
<1>10. QED
  BY <1>1, <1>2, <1>3, <1>4, <1>5, <1>6, <1>7, <1>8, <1>9 DEF Next

LEMMA SearchStep ==
  ASSUME IInv, [Next]_vars
  PROVE  NoCycle' /\ SearchInv'
<1> USE MaxOperationsAssumption DEF IInv
<1>1. CASE AddOperation
  BY <1>1 DEF AddOperation, search, NoCycle, SearchInv
<1>2. CASE Clear
  BY <1>2, NoEdgesAcyclic DEF Clear, search, NoCycle, SearchInv
<1>3. ASSUME NEW x \in Node, NEW y \in Node, AddDependency(x, y)
      PROVE  NoCycle' /\ SearchInv'
  <2>1. y \in Reach(deps, y)
    BY ReachSelf DEF TypeOK
  <2>2. QED
    BY <1>3, <2>1 DEF AddDependency, NoCycle, SearchInv
<1>4. ASSUME NEW x \in Node, NEW y \in Node, RefuseDependency(x, y)
      PROVE  NoCycle' /\ SearchInv'
  BY <1>4 DEF RefuseDependency, search, NoCycle, SearchInv
<1>5. CASE FindCycle
  BY <1>5 DEF FindCycle, Return, NoCycle, SearchInv
<1>6. CASE FindNone
  <2>1. NoCycle'
    BY <1>6, Outcome, AddEdgeAcyclic DEF TypeOK, FindNone, NoCycle
  <2>2. SearchInv'
    BY <1>6 DEF FindNone, Return, SearchInv
  <2>3. QED
    BY <2>1, <2>2
<1>7. ASSUME NEW x \in Node, Visit(x)
      PROVE  NoCycle' /\ SearchInv'
  <2>1. x \in Reach(deps, dependency) /\ x # dependent
    BY <1>7 DEF Visit, SearchInv
  <2>2. deps[x] \subseteq Reach(deps, dependency)
    BY <1>7, <2>1, Outcome, ReachClosed DEF Visit, Closed, TypeOK
  <2>3. QED
    BY <1>7, <2>1, <2>2 DEF Visit, Push, NoCycle, SearchInv
<1>8. ASSUME NEW x \in Node, SkipVisited(x)
      PROVE  NoCycle' /\ SearchInv'
  BY <1>8 DEF SkipVisited, NoCycle, SearchInv
<1>9. CASE UNCHANGED vars
  BY <1>9 DEF vars, NoCycle, SearchInv
<1>10. QED
  BY <1>1, <1>2, <1>3, <1>4, <1>5, <1>6, <1>7, <1>8, <1>9 DEF Next

(* IInv, which adds the invariant of the loop of would_create_cycle to the *)
(* two properties below, holds of every batch.                             *)
THEOREM Inductive == Spec => []IInv
<1>1. Init => IInv
  <2>1. ASSUME Init
        PROVE  TypeOK
    <3>1. deps \in Graph /\ \A x \in Node : deps[x] = {}
      BY <2>1, NoEdgesAcyclic DEF Init, NoEdges
    <3>2. len \in 0 .. MaxOperations
      BY <2>1, MaxOperationsAssumption DEF Init
    <3>3. searching \in BOOLEAN /\ ~searching
      BY <2>1 DEF Init
    <3>4. QED
      BY <2>1, <3>1, <3>2, <3>3 DEF Init, TypeOK
  <2>2. ASSUME Init
        PROVE  NoCycle /\ SearchInv
    BY <2>2, NoEdgesAcyclic DEF Init, NoCycle, SearchInv
  <2>3. QED
    BY <2>1, <2>2 DEF IInv
<1>2. IInv /\ [Next]_vars => IInv'
  BY TypeStep, SearchStep DEF IInv
<1>3. QED
  BY <1>1, <1>2, PTL DEF Spec

(* A dependency always names operations of the batch, so that the batch    *)
(* futures may index their results with it.                                *)
THEOREM DependenciesInBatch == Spec => []TypeOK
<1>1. IInv => TypeOK
  BY DEF IInv
<1>2. QED
  BY <1>1, Inductive, PTL

(* No operation of a batch ever depends on itself.                         *)
THEOREM NeverCircular == Spec => []NoCycle
<1>1. IInv => NoCycle
  BY DEF IInv
<1>2. QED
  BY <1>1, Inductive, PTL

---------------------------------------------------------------------------
(* The search implements the promise.                                      *)

LEMMA SameReach ==
  /\ \A g, a : Promise!Reach(g, a) = Reach(g, a)
  /\ \A g, x, y : Promise!AddEdge(g, x, y) = AddEdge(g, x, y)
  /\ Promise!NoEdges = NoEdges /\ Promise!Node = Node
BY DEF Promise!Reach, Reach, Promise!AddEdge, AddEdge, Promise!NoEdges, NoEdges,
       Promise!Node, Node, Promise!Closed, Closed

LEMMA PromiseStep ==
  ASSUME IInv, [Next]_vars
  PROVE  [Promise!Next]_(Promise!vars)
<1> USE SameReach DEF Promise!Next, Promise!vars
<1>1. CASE AddOperation
  BY <1>1 DEF AddOperation, search, Promise!AddOperation, Promise!RefuseOperation
<1>2. CASE Clear
  BY <1>2 DEF Clear, Promise!Clear
<1>3. ASSUME NEW x \in Node, NEW y \in Node, AddDependency(x, y)
      PROVE  [Promise!Next]_(Promise!vars)
  BY <1>3 DEF AddDependency
<1>4. ASSUME NEW x \in Node, NEW y \in Node, RefuseDependency(x, y)
      PROVE  [Promise!Next]_(Promise!vars)
  <2>1. ~(x < len /\ y < len /\ x # y)
    BY <1>4, MaxOperationsAssumption DEF RefuseDependency, IInv, TypeOK, Node
  <2>2. Promise!RefuseDependency(x, y)
    BY <1>4, <2>1 DEF RefuseDependency, Promise!RefuseDependency, Promise!Allowed
  <2>3. QED
    BY <2>2
<1>5. CASE FindCycle
  <2>1. dependent \in Node /\ dependency \in Node
        /\ dependent \in Reach(deps, dependency)
    BY <1>5, Outcome DEF FindCycle
  <2>2. Promise!RefuseDependency(dependent, dependency)
    BY <1>5, <2>1 DEF FindCycle, Promise!RefuseDependency, Promise!Allowed
  <2>3. QED
    BY <2>1, <2>2
<1>6. CASE FindNone
  <2>1. dependent \in Node /\ dependency \in Node
        /\ dependent \notin Reach(deps, dependency)
    BY <1>6, Outcome DEF FindNone
  <2>2. Promise!AddDependency(dependent, dependency)
    BY <1>6, <2>1 DEF FindNone, IInv, TypeOK, Promise!AddDependency, Promise!Allowed
  <2>3. QED
    BY <2>1, <2>2
<1>7. ASSUME NEW x \in Node, Visit(x) \/ SkipVisited(x)
      PROVE  [Promise!Next]_(Promise!vars)
  BY <1>7 DEF Visit, SkipVisited
<1>8. CASE UNCHANGED vars
  BY <1>8 DEF vars
<1>9. QED
  BY <1>1, <1>2, <1>3, <1>4, <1>5, <1>6, <1>7, <1>8 DEF Next

(* Every behaviour of the batch with its search is one of BatchGraph: what *)
(* add_dependency answers is right in both directions.                     *)
THEOREM SearchImplementsPromise == Spec => Implements
<1>1. Init => Promise!Init
  BY SameReach DEF Init, Promise!Init
<1>2. IInv /\ [Next]_vars => [Promise!Next]_(Promise!vars)
  BY PromiseStep
<1>3. QED
  BY <1>1, <1>2, Inductive, PTL DEF Spec, Implements, Promise!Spec

---------------------------------------------------------------------------
(* The searches. Done are the operations whose calls have returned, OnPath *)
(* those whose calls have not.                                             *)

Done == Range(order)
OnPath == Range(path)
Wanted == IF task = "check" THEN {x \in Node : graph[x] # {}} ELSE {x \in Node : x < count}

WalkTypes ==
  /\ task \in {"none", "check", "sort"} /\ verdict \in {"none", "cycle", "ok"}
  /\ graph \in Graph /\ count \in Nat /\ roots \in SUBSET Node
  /\ path \in Seq(Node) /\ order \in Seq(Node)
  /\ todo \in [Node -> SUBSET Node] /\ seen \in SUBSET Node

(* Each call on the path was made for what an earlier one depends on.      *)
CallsNested ==
  /\ \A i, j \in 1 .. Len(path) : path[i] = path[j] => i = j
  /\ \A i \in 1 .. Len(path) : path[i] \notin Done
  /\ \A i, j \in 1 .. Len(path) : i <= j => path[j] \in Reach(graph, path[i])

(* What the loop of a call has passed is done, or is the next call.        *)
LoopsGoOn ==
  \A i \in 1 .. Len(path) :
    /\ todo[path[i]] \subseteq graph[path[i]]
    /\ \A y \in graph[path[i]] \ todo[path[i]] :
         y \in Done \/ (i < Len(path) /\ y = path[i + 1])

PutInOrder ==
  /\ \A i, j \in 1 .. Len(order) : order[i] = order[j] => i = j
  /\ \A i \in 1 .. Len(order) : \A y \in graph[order[i]] :
       \E j \in 1 .. Len(order) : j < i /\ order[j] = y

(* Everything the search is about is done, on the path or still to come,   *)
(* and every operation with dependencies is part of it; the sort meets     *)
(* nothing else.                                                           *)
AllReached ==
  /\ Wanted \subseteq roots \union Done \union OnPath
  /\ \A x \in Node : graph[x] # {} => x \in Wanted
  /\ task = "sort" => /\ roots \union Done \union OnPath \subseteq Wanted
                      /\ \A x \in Node : graph[x] \subseteq Wanted

Remembered == seen = IF task = "check" THEN Done \union OnPath ELSE Done

Outcomes ==
  /\ verdict = "cycle" => ~Acyclic(graph)
  /\ verdict = "ok" => path = <<>> /\ roots = {}
  /\ task = "none" => /\ verdict = "none" /\ graph = NoEdges /\ count = 0
                      /\ path = <<>> /\ order = <<>> /\ seen = {} /\ roots = {}
  /\ task = "sort" => count <= MaxOperations

WalkInv == /\ WalkTypes /\ CallsNested /\ LoopsGoOn /\ PutInOrder
           /\ AllReached /\ Remembered /\ Outcomes

(* The instance's copies of the definitions are the module's own.          *)
LEMMA SearchWords ==
  /\ \A s : Search!Range(s) = Range(s)
  /\ \A g : Search!Acyclic(g) <=> Acyclic(g)
  /\ \A x : Search!OnPath(x) <=> x \in OnPath
  /\ \A t, g, n : Search!Roots(t, g, n) =
       IF t = "check" THEN {x \in Node : g[x] # {}} ELSE {x \in Node : x < n}
<1>1. \A s : Search!Range(s) = Range(s)
  BY DEF Search!Range, Range
<1>2. \A x : Search!OnPath(x) <=> x \in OnPath
  BY <1>1 DEF Search!OnPath, OnPath
<1>3. Search!Node = Node
  BY DEF Search!Node, Node
<1>4. \A t, g, n : Search!Roots(t, g, n) =
        IF t = "check" THEN {x \in Node : g[x] # {}} ELSE {x \in Node : x < n}
  BY <1>3 DEF Search!Roots, Search!Keys, Search!Count
<1>5. \A g, a : Search!Reach(g, a) = Reach(g, a)
  BY <1>3 DEF Search!Reach, Reach, Search!Closed, Closed
<1>6. \A g : Search!Acyclic(g) <=> Acyclic(g)
  BY <1>3, <1>5 DEF Search!Acyclic, Acyclic
<1>7. QED
  BY <1>1, <1>2, <1>4, <1>6

(* Sequences: one element more, and one less.                              *)
LEMMA OneMore ==
  ASSUME NEW s \in Seq(Node), NEW x \in Node
  PROVE  /\ Append(s, x) \in Seq(Node) /\ Len(Append(s, x)) = Len(s) + 1
         /\ \A i \in 1 .. Len(s) : Append(s, x)[i] = s[i]
         /\ Append(s, x)[Len(s) + 1] = x
         /\ Range(Append(s, x)) = Range(s) \union {x}
<1>1. /\ Append(s, x) \in Seq(Node) /\ Len(Append(s, x)) = Len(s) + 1
      /\ \A i \in 1 .. Len(s) : Append(s, x)[i] = s[i]
      /\ Append(s, x)[Len(s) + 1] = x
  BY AppendProperties
<1>2. Range(Append(s, x)) = {Append(s, x)[i] : i \in 1 .. Len(Append(s, x))}
      /\ Range(s) = {s[i] : i \in 1 .. Len(s)}
  BY <1>1, RangeEquality
<1>3. Len(s) \in Nat
  OBVIOUS
<1>4. \A i : i \in 1 .. Len(s) + 1 <=> i \in 1 .. Len(s) \/ i = Len(s) + 1
  BY <1>3
<1>5. QED
  BY <1>1, <1>2, <1>3, <1>4

LEMMA OneLess ==
  ASSUME NEW s \in Seq(Node), s # <<>>
  PROVE  /\ Len(s) \in Nat \ {0} /\ s[Len(s)] \in Node
         /\ SubSeq(s, 1, Len(s) - 1) \in Seq(Node)
         /\ Len(SubSeq(s, 1, Len(s) - 1)) = Len(s) - 1
         /\ \A i \in 1 .. Len(s) - 1 : SubSeq(s, 1, Len(s) - 1)[i] = s[i]
         /\ Range(s) = Range(SubSeq(s, 1, Len(s) - 1)) \union {s[Len(s)]}
<1> DEFINE t == SubSeq(s, 1, Len(s) - 1)
<1>1. Len(s) \in Nat \ {0}
  OBVIOUS
<1>2. \A i \in 1 .. Len(s) : s[i] \in Node
  OBVIOUS
<1>3. t \in Seq(Node) /\ Len(t) = Len(s) - 1
      /\ \A i \in 1 .. Len(s) - 1 : t[i] = s[i]
  <2> DEFINE n == Len(s) - 1
  <2>1. /\ 1 \in Int /\ n \in Int /\ n \in Nat
        /\ \A i \in 1 .. n : i \in 1 .. Len(s) /\ 1 + i - 1 = i
    BY <1>1
  <2>2. \A i \in 1 .. n : s[i] \in Node
    BY <1>2, <2>1
  <2> HIDE DEF n
  <2>3. /\ SubSeq(s, 1, n) \in Seq(Node)
        /\ Len(SubSeq(s, 1, n)) = IF 1 <= n THEN n - 1 + 1 ELSE 0
        /\ \A i \in 1 .. n - 1 + 1 : SubSeq(s, 1, n)[i] = s[1 + i - 1]
    BY <2>1, <2>2, SubSeqProperties
  <2>4. n - 1 + 1 = n /\ (IF 1 <= n THEN n - 1 + 1 ELSE 0) = n
    BY <2>1
  <2>5. t = SubSeq(s, 1, n)
    BY DEF n
  <2> HIDE DEF t
  <2>6. t \in Seq(Node) /\ Len(t) = n /\ \A i \in 1 .. n : t[i] = s[i]
    BY <2>1, <2>3, <2>4, <2>5
  <2>7. QED
    BY <2>6 DEF n
<1> HIDE DEF t
<1>4. Range(s) = {s[i] : i \in 1 .. Len(s)} /\ Range(t) = {t[i] : i \in 1 .. Len(t)}
  BY <1>3, RangeEquality
<1>5. \A i : i \in 1 .. Len(s) <=> i \in 1 .. Len(s) - 1 \/ i = Len(s)
  BY <1>1
<1>6. Range(s) = Range(t) \union {s[Len(s)]}
  BY <1>3, <1>4, <1>5
<1>7. QED
  BY <1>1, <1>2, <1>3, <1>6 DEF t

LEMMA PathIs ==
  ASSUME WalkTypes
  PROVE  /\ Len(path) \in Nat /\ Len(order) \in Nat
         /\ OnPath = {path[i] : i \in 1 .. Len(path)} /\ OnPath \in SUBSET Node
         /\ Done = {order[i] : i \in 1 .. Len(order)} /\ Done \in SUBSET Node
         /\ path = <<>> => OnPath = {}
<1>1. /\ OnPath = {path[i] : i \in 1 .. Len(path)}
      /\ Done = {order[i] : i \in 1 .. Len(order)}
  BY RangeEquality DEF WalkTypes, OnPath, Done
<1>2. Len(path) \in Nat /\ Len(order) \in Nat
  BY DEF WalkTypes
<1>3. /\ \A i \in 1 .. Len(path) : path[i] \in Node
      /\ \A i \in 1 .. Len(order) : order[i] \in Node
  BY DEF WalkTypes
<1>4. path = <<>> => 1 .. Len(path) = {}
  OBVIOUS
<1>5. QED
  BY <1>1, <1>2, <1>3, <1>4

(* A call begins for something not met before, made by the outer loop or   *)
(* by the loop of the last call.                                           *)
LEMMA EnterStep ==
  ASSUME WalkInv, NEW x \in Node, x \notin Done, x \notin OnPath,
         NEW left \in [Node -> SUBSET Node], Search!Enter(x, left),
         UNCHANGED <<task, graph, count, order, verdict>>,
         \A i \in 1 .. Len(path) :
           /\ left[path[i]] \subseteq graph[path[i]]
           /\ x \in Reach(graph, path[i])
           /\ \A y \in graph[path[i]] \ left[path[i]] :
                \/ y \in Done \/ (i < Len(path) /\ y = path[i + 1])
                \/ i = Len(path) /\ y = x
  PROVE  /\ path' \in Seq(Node) /\ todo' \in [Node -> SUBSET Node]
         /\ seen' \in SUBSET Node
         /\ OnPath' = OnPath \union {x} /\ Done' = Done
         /\ CallsNested' /\ LoopsGoOn' /\ Remembered' /\ PutInOrder'
<1> USE DEF WalkInv
<1> DEFINE m == Len(path)
<1>1. /\ path' = Append(path, x)
      /\ todo' = [left EXCEPT ![x] = graph[x]]
      /\ seen' = IF task = "check" THEN seen \union {x} ELSE seen
  BY DEF Search!Enter
<1>2. /\ m \in Nat /\ OnPath = {path[i] : i \in 1 .. m}
      /\ \A i \in 1 .. m : path[i] \in Node
      /\ graph \in Graph /\ graph[x] \in SUBSET Node
  <2>1. m \in Nat /\ OnPath = {path[i] : i \in 1 .. m}
    BY PathIs
  <2>2. \A i \in 1 .. m : path[i] \in Node
    BY DEF WalkTypes
  <2>3. graph \in Graph /\ graph[x] \in SUBSET Node
    BY DEF WalkTypes, Graph
  <2>4. QED
    BY <2>1, <2>2, <2>3
<1>3. /\ path' \in Seq(Node) /\ Len(path') = m + 1
      /\ \A i \in 1 .. m : path'[i] = path[i]
      /\ path'[m + 1] = x
      /\ OnPath' = OnPath \union {x}
  BY <1>1, OneMore DEF WalkTypes, OnPath
<1>4. Done' = Done
  BY DEF Done
<1> HIDE DEF m
<1>5. \A i \in 1 .. m : path[i] # x
  BY <1>2
<1>6. \A i : i \in 1 .. Len(path') <=> i \in 1 .. m \/ i = m + 1
  BY <1>2, <1>3
<1>7. todo' \in [Node -> SUBSET Node] /\ todo'[x] = graph[x]
      /\ \A i \in 1 .. m : todo'[path[i]] = left[path[i]]
  BY <1>1, <1>2, <1>5
<1>8. CallsNested'
  <2>1. ASSUME NEW i \in 1 .. Len(path'), NEW j \in 1 .. Len(path'), path'[i] = path'[j]
        PROVE  i = j
    BY <1>3, <1>5, <1>6, <2>1 DEF CallsNested, m
  <2>2. \A i \in 1 .. Len(path') : path'[i] \notin Done
    BY <1>3, <1>6 DEF CallsNested, m
  <2>3. ASSUME NEW i \in 1 .. Len(path'), NEW j \in 1 .. Len(path'), i <= j
        PROVE  path'[j] \in Reach(graph, path'[i])
    <3>1. CASE i = m + 1
      <4>1. j = m + 1
        BY <1>2, <1>6, <2>3, <3>1
      <4>2. x \in Reach(graph, x)
        BY <1>2, ReachSelf
      <4>3. QED
        BY <1>3, <3>1, <4>1, <4>2
    <3>2. CASE i \in 1 .. m /\ j = m + 1
      BY <1>3, <3>2 DEF m
    <3>3. CASE i \in 1 .. m /\ j \in 1 .. m
      BY <1>3, <2>3, <3>3 DEF CallsNested, m
    <3>4. QED
      BY <1>6, <3>1, <3>2, <3>3
  <2>4. Reach(graph, path[1])' = Reach(graph', path'[1])
    OBVIOUS
  <2>5. \A i : Reach(graph', path'[i]) = Reach(graph, path'[i])
    OBVIOUS
  <2>6. QED
    BY <1>4, <2>1, <2>2, <2>3, <2>5 DEF CallsNested
<1>9. LoopsGoOn'
  <2> SUFFICES ASSUME NEW i \in 1 .. Len(path')
               PROVE  /\ todo'[path'[i]] \subseteq graph[path'[i]]
                      /\ \A y \in graph[path'[i]] \ todo'[path'[i]] :
                           y \in Done \/ (i < Len(path') /\ y = path'[i + 1])
    BY <1>4 DEF LoopsGoOn
  <2>1. CASE i = m + 1
    BY <1>3, <1>7, <2>1
  <2>2. CASE i \in 1 .. m
    <3>1. /\ todo'[path'[i]] = left[path[i]] /\ path'[i] = path[i]
          /\ i < Len(path')
      BY <1>2, <1>3, <1>7, <2>2
    <3>2. i < m => i + 1 \in 1 .. m /\ path'[i + 1] = path[i + 1]
      BY <1>2, <1>3, <2>2
    <3>3. i = m => path'[i + 1] = x
      BY <1>3
    <3>4. QED
      BY <2>2, <3>1, <3>2, <3>3 DEF m
  <2>3. QED
    BY <1>6, <2>1, <2>2
<1>10. seen' \in SUBSET Node /\ Remembered'
  BY <1>1, <1>3, <1>4 DEF Remembered, WalkTypes
<1>11. PutInOrder'
  BY DEF PutInOrder
<1>12. QED
  BY <1>3, <1>4, <1>7, <1>8, <1>9, <1>10, <1>11

(* The outer loop.                                                         *)
LEMMA RootStep ==
  ASSUME WalkInv, NEW x \in Node, Search!TakeRoot(x)
  PROVE  WalkInv'
<1> USE DEF WalkInv
<1>1. /\ task # "none" /\ verdict = "none" /\ path = <<>> /\ x \in roots
      /\ roots' = roots \ {x}
      /\ IF x \in seen THEN UNCHANGED <<path, todo, seen>> ELSE Search!Enter(x, todo)
      /\ UNCHANGED <<task, graph, count, order, verdict>>
  BY DEF Search!TakeRoot, Search!Running
<1>2. OnPath = {} /\ 1 .. Len(path) = {} /\ seen = Done
  <2>1. OnPath = {} /\ Len(path) = 0
    BY <1>1, PathIs
  <2>2. QED
    BY <2>1 DEF Remembered
<1>3. CASE x \in seen
  <2>1. UNCHANGED <<path, todo, seen>>
    BY <1>1, <1>3
  <2>2. OnPath' = OnPath /\ Done' = Done /\ Wanted' = Wanted
    BY <1>1, <2>1 DEF OnPath, Done, Wanted
  <2>3. WalkTypes' /\ CallsNested' /\ LoopsGoOn' /\ PutInOrder'
    BY <1>1, <1>2, <2>1, <2>2 DEF WalkTypes, CallsNested, LoopsGoOn, PutInOrder
  <2>4. AllReached'
    BY <1>1, <1>2, <1>3, <2>2 DEF AllReached
  <2>5. Remembered' /\ Outcomes'
    BY <1>1, <2>1, <2>2 DEF Remembered, Outcomes
  <2>6. QED
    BY <2>3, <2>4, <2>5
<1>4. CASE x \notin seen
  <2>1. Search!Enter(x, todo)
    BY <1>1, <1>4
  <2>2. /\ path' \in Seq(Node) /\ todo' \in [Node -> SUBSET Node] /\ seen' \in SUBSET Node
        /\ OnPath' = OnPath \union {x} /\ Done' = Done
        /\ CallsNested' /\ LoopsGoOn' /\ Remembered' /\ PutInOrder'
    BY <1>1, <1>2, <1>4, <2>1, EnterStep DEF WalkTypes
  <2>3. Wanted' = Wanted
    BY <1>1 DEF Wanted
  <2>4. AllReached'
    BY <1>1, <2>2, <2>3 DEF AllReached
  <2>5. WalkTypes' /\ Outcomes'
    BY <1>1, <2>2 DEF WalkTypes, Outcomes
  <2>6. QED
    BY <2>2, <2>4, <2>5
<1>5. QED
  BY <1>3, <1>4

(* What the last call looks at: something it depends on.                   *)
LEMMA LookFacts ==
  ASSUME WalkInv, NEW x \in Node, Search!Look(x)
  PROVE  /\ task # "none" /\ verdict = "none" /\ path # <<>>
         /\ Len(path) \in Nat \ {0} /\ path[Len(path)] \in Node
         /\ Search!Top = path[Len(path)]
         /\ x \in todo[path[Len(path)]] /\ x \in graph[path[Len(path)]]
         /\ \A i \in 1 .. Len(path) : x \in Reach(graph, path[i])
         /\ Search!Looked(x) \in [Node -> SUBSET Node]
         /\ Search!Looked(x) = [todo EXCEPT ![path[Len(path)]] = @ \ {x}]
<1> USE DEF WalkInv
<1> DEFINE m == Len(path)
<1>1. /\ task # "none" /\ verdict = "none" /\ path # <<>>
      /\ Search!Top = path[m] /\ x \in todo[path[m]]
  BY DEF Search!Look, Search!Running, Search!Top
<1>2. m \in Nat \ {0} /\ path[m] \in Node
  BY <1>1, OneLess DEF WalkTypes
<1>3. m \in 1 .. m
  BY <1>2
<1>4. x \in graph[path[m]]
  BY <1>1, <1>3 DEF LoopsGoOn
<1>5. ASSUME NEW i \in 1 .. m
      PROVE  x \in Reach(graph, path[i])
  <2>1. i <= m
    BY <1>2
  <2>2. path[m] \in Reach(graph, path[i])
    BY <1>3, <2>1 DEF CallsNested
  <2>3. path[i] \in Node /\ graph \in Graph
    BY DEF WalkTypes
  <2>4. Closed(graph, Reach(graph, path[i]))
    BY <2>3, ReachClosed
  <2>5. QED
    BY <1>4, <2>2, <2>4 DEF Closed
<1>6. Search!Looked(x) = [todo EXCEPT ![path[m]] = @ \ {x}]
  BY <1>1 DEF Search!Looked
<1>7. Search!Looked(x) \in [Node -> SUBSET Node]
  BY <1>2, <1>6 DEF WalkTypes
<1>8. QED
  BY <1>1, <1>2, <1>4, <1>5, <1>6, <1>7

(* After the look, the loops are where they were but for x.                *)
LEMMA LookedFacts ==
  ASSUME WalkInv, NEW x \in Node, Search!Look(x), NEW i \in 1 .. Len(path)
  PROVE  /\ Search!Looked(x)[path[i]] \subseteq graph[path[i]]
         /\ \A y \in graph[path[i]] \ Search!Looked(x)[path[i]] :
              \/ y \in Done \/ (i < Len(path) /\ y = path[i + 1])
              \/ i = Len(path) /\ y = x
<1> USE DEF WalkInv
<1> DEFINE m == Len(path)
           left == Search!Looked(x)
<1>1. /\ m \in Nat \ {0} /\ path[m] \in Node /\ path[i] \in Node
      /\ left = [todo EXCEPT ![path[m]] = @ \ {x}]
  BY LookFacts DEF WalkTypes
<1>2. /\ todo[path[i]] \subseteq graph[path[i]]
      /\ \A y \in graph[path[i]] \ todo[path[i]] :
           y \in Done \/ (i < m /\ y = path[i + 1])
  BY DEF LoopsGoOn
<1>3. CASE i = m
  BY <1>1, <1>2, <1>3 DEF WalkTypes
<1>4. CASE i # m
  <2>1. path[i] # path[m]
    <3>1. m \in 1 .. m
      BY <1>1
    <3>2. QED
      BY <1>4, <3>1 DEF CallsNested
  <2>2. left[path[i]] = todo[path[i]]
    BY <1>1, <2>1 DEF WalkTypes
  <2>3. QED
    BY <1>2, <2>2
<1>5. QED
  BY <1>3, <1>4

LEMMA DescendStep ==
  ASSUME WalkInv, NEW x \in Node, Search!Descend(x)
  PROVE  WalkInv'
<1> USE DEF WalkInv
<1>1. /\ Search!Look(x) /\ Search!Unseen(x) /\ Search!Enter(x, Search!Looked(x))
      /\ UNCHANGED <<task, graph, count, roots, order, verdict>>
  BY DEF Search!Descend
<1>2. x \notin Done /\ x \notin OnPath
  <2>1. task \in {"check", "sort"}
    BY <1>1, LookFacts DEF WalkTypes
  <2>2. QED
    BY <1>1, <2>1, SearchWords DEF Search!Unseen, Remembered
<1>3. /\ path' \in Seq(Node) /\ todo' \in [Node -> SUBSET Node] /\ seen' \in SUBSET Node
      /\ OnPath' = OnPath \union {x} /\ Done' = Done
      /\ CallsNested' /\ LoopsGoOn' /\ Remembered' /\ PutInOrder'
  <2>1. Search!Looked(x) \in [Node -> SUBSET Node]
        /\ \A i \in 1 .. Len(path) : x \in Reach(graph, path[i])
    BY <1>1, LookFacts
  <2>2. \A i \in 1 .. Len(path) :
          /\ Search!Looked(x)[path[i]] \subseteq graph[path[i]]
          /\ \A y \in graph[path[i]] \ Search!Looked(x)[path[i]] :
               \/ y \in Done \/ (i < Len(path) /\ y = path[i + 1])
               \/ i = Len(path) /\ y = x
    BY <1>1, LookedFacts
  <2> DEFINE left == Search!Looked(x)
  <2> HIDE DEF left
  <2>3. QED
    BY <1>1, <1>2, <2>1, <2>2, EnterStep DEF left
<1>4. Wanted' = Wanted
  BY <1>1 DEF Wanted
<1>5. task = "sort" => x \in Wanted
  BY <1>1, LookFacts DEF AllReached
<1>6. AllReached'
  BY <1>1, <1>3, <1>4, <1>5 DEF AllReached
<1>7. WalkTypes' /\ Outcomes'
  BY <1>1, <1>3, LookFacts DEF WalkTypes, Outcomes
<1>8. QED
  BY <1>3, <1>6, <1>7

LEMMA PassStep ==
  ASSUME WalkInv, NEW x \in Node, Search!Pass(x)
  PROVE  WalkInv'
<1> USE DEF WalkInv
<1>1. /\ Search!Look(x) /\ ~Search!Unseen(x) /\ x \notin OnPath
      /\ todo' = Search!Looked(x)
      /\ UNCHANGED <<task, graph, count, roots, path, seen, order, verdict>>
  BY SearchWords DEF Search!Pass
<1>2. x \in Done
  BY <1>1, SearchWords DEF Search!Unseen, Remembered
<1>3. OnPath' = OnPath /\ Done' = Done /\ Wanted' = Wanted
  BY <1>1 DEF OnPath, Done, Wanted
<1>4. WalkTypes' /\ Outcomes'
  BY <1>1, LookFacts DEF WalkTypes, Outcomes
<1>5. LoopsGoOn'
  BY <1>1, <1>2, <1>3, LookedFacts DEF LoopsGoOn
<1>6. CallsNested' /\ PutInOrder' /\ AllReached' /\ Remembered'
  BY <1>1, <1>3 DEF CallsNested, PutInOrder, AllReached, Remembered
<1>7. QED
  BY <1>4, <1>5, <1>6

(* A dependency that is on the path closes a cycle.                        *)
LEMMA CycleStep ==
  ASSUME WalkInv, NEW x \in Node, Search!FindCycle(x)
  PROVE  WalkInv'
<1> USE DEF WalkInv
<1>1. /\ Search!Look(x) /\ x \in OnPath /\ verdict' = "cycle"
      /\ UNCHANGED <<task, graph, count, roots, path, todo, seen, order>>
  BY SearchWords DEF Search!FindCycle
<1>2. PICK i \in 1 .. Len(path) : x = path[i]
  BY <1>1, PathIs
<1>3. /\ Len(path) \in 1 .. Len(path) /\ i <= Len(path)
      /\ path[Len(path)] \in Node /\ x \in graph[path[Len(path)]]
  BY <1>1, LookFacts
<1>4. path[Len(path)] \in Reach(graph, x)
  BY <1>2, <1>3 DEF CallsNested
<1>5. ~Acyclic(graph)
  BY <1>3, <1>4 DEF Acyclic
<1>6. OnPath' = OnPath /\ Done' = Done /\ Wanted' = Wanted
  BY <1>1 DEF OnPath, Done, Wanted
<1>7. WalkTypes' /\ LoopsGoOn'
  BY <1>1, <1>6 DEF WalkTypes, LoopsGoOn
<1>8. Outcomes'
  BY <1>1, <1>5, LookFacts DEF Outcomes
<1>9. CallsNested' /\ PutInOrder' /\ AllReached' /\ Remembered'
  BY <1>1, <1>6 DEF CallsNested, PutInOrder, AllReached, Remembered
<1>10. QED
  BY <1>7, <1>8, <1>9

(* A call returns: all it depends on is done, and so is it now.            *)
LEMMA ReturnStep ==
  ASSUME WalkInv, Search!Return
  PROVE  WalkInv'
<1> USE DEF WalkInv
<1> DEFINE m == Len(path)
           k == Len(order)
           x == path[m]
<1>1. /\ task # "none" /\ verdict = "none" /\ path # <<>> /\ todo[x] = {}
      /\ path' = SubSeq(path, 1, m - 1)
      /\ seen' = seen \union {x} /\ order' = Append(order, x)
      /\ UNCHANGED <<task, graph, count, roots, todo, verdict>>
  BY DEF Search!Return, Search!Running, Search!Top, Search!Put
<1>2. /\ m \in Nat \ {0} /\ x \in Node /\ path' \in Seq(Node) /\ Len(path') = m - 1
      /\ \A i \in 1 .. m - 1 : path'[i] = path[i]
      /\ OnPath = OnPath' \union {x}
  BY <1>1, OneLess DEF WalkTypes, OnPath
<1>3. /\ k \in Nat /\ order' \in Seq(Node) /\ Len(order') = k + 1
      /\ \A i \in 1 .. k : order'[i] = order[i]
      /\ order'[k + 1] = x
      /\ Done' = Done \union {x}
  BY <1>1, <1>2, OneMore, PathIs DEF WalkTypes, Done
<1>4. /\ \A i \in 1 .. m : path[i] = x => i = m
      /\ x \notin Done /\ x \notin OnPath'
  <2>1. m \in 1 .. m
    BY <1>2
  <2>2. \A i \in 1 .. m : path[i] = x => i = m
    BY <2>1 DEF CallsNested
  <2>3. x \notin Done
    BY <2>1 DEF CallsNested
  <2>4. OnPath' = {path'[i] : i \in 1 .. m - 1}
    BY <1>2, RangeEquality DEF OnPath
  <2> HIDE DEF x, m
  <2>5. QED
    BY <1>2, <2>2, <2>3, <2>4
<1>5. \A y \in graph[x] : y \in Done
  <2>1. m \in 1 .. m /\ ~(m < m)
    BY <1>2
  <2>2. QED
    BY <1>1, <2>1 DEF LoopsGoOn
<1> HIDE DEF x, m, k
<1>6. \A i : i \in 1 .. m - 1 => i \in 1 .. m /\ i # m /\ i + 1 \in 1 .. m
  BY <1>2
<1>7. CallsNested'
  <2>1. \A i, j \in 1 .. m - 1 : path'[i] = path'[j] => i = j
    BY <1>2, <1>6 DEF CallsNested, m
  <2>2. \A i \in 1 .. m - 1 : path'[i] \notin Done'
    BY <1>2, <1>3, <1>4, <1>6 DEF CallsNested, m
  <2>3. \A i, j \in 1 .. m - 1 : i <= j => path'[j] \in Reach(graph, path'[i])
    BY <1>2, <1>6 DEF CallsNested, m
  <2>4. \A i : Reach(graph', path'[i]) = Reach(graph, path'[i])
    BY <1>1
  <2>5. QED
    BY <1>2, <2>1, <2>2, <2>3, <2>4 DEF CallsNested
<1>8. LoopsGoOn'
  <2> SUFFICES ASSUME NEW i \in 1 .. m - 1
               PROVE  /\ todo[path[i]] \subseteq graph[path[i]]
                      /\ \A y \in graph[path[i]] \ todo[path[i]] :
                           y \in Done' \/ (i < m - 1 /\ y = path'[i + 1])
    <3>1. /\ todo' = todo /\ graph' = graph /\ Len(path') = m - 1
          /\ \A i \in 1 .. m - 1 : path'[i] = path[i]
      BY <1>1, <1>2
    <3>2. QED
      BY <3>1 DEF LoopsGoOn
  <2>1. /\ i \in 1 .. m /\ todo[path[i]] \subseteq graph[path[i]]
        /\ \A y \in graph[path[i]] \ todo[path[i]] :
             y \in Done \/ (i < m /\ y = path[i + 1])
    BY <1>6 DEF LoopsGoOn, m
  <2>2. i = m - 1 => path[i + 1] = x
    BY <1>2 DEF x
  <2>3. i # m - 1 => i < m - 1 /\ path'[i + 1] = path[i + 1]
    BY <1>2
  <2>4. QED
    BY <1>3, <2>1, <2>2, <2>3
<1>9. PutInOrder'
  <2>1. \A i : i \in 1 .. Len(order') <=> i \in 1 .. k \/ i = k + 1
    BY <1>3
  <2>2. \A i \in 1 .. k : order[i] \in Done
    BY PathIs DEF k
  <2>3. \A i, j \in 1 .. Len(order') : order'[i] = order'[j] => i = j
    BY <1>3, <1>4, <2>1, <2>2 DEF PutInOrder, k
  <2>4. ASSUME NEW i \in 1 .. Len(order'), NEW y \in graph[order'[i]]
        PROVE  \E j \in 1 .. Len(order') : j < i /\ order'[j] = y
    <3>1. CASE i \in 1 .. k
      <4>1. PICK j \in 1 .. k : j < i /\ order[j] = y
        BY <1>3, <2>4, <3>1 DEF PutInOrder, k
      <4>2. QED
        BY <1>3, <2>1, <4>1
    <3>2. CASE i = k + 1
      <4>1. y \in Done
        BY <1>3, <1>5, <2>4, <3>2
      <4>2. PICK j \in 1 .. k : order[j] = y
        BY <4>1, PathIs DEF k
      <4>3. j < i /\ order'[j] = y
        BY <1>3, <3>2, <4>2
      <4>4. QED
        BY <2>1, <4>3
    <3>3. QED
      BY <2>1, <3>1, <3>2
  <2>5. QED
    BY <1>1, <2>3, <2>4 DEF PutInOrder
<1>10. Wanted' = Wanted
  BY <1>1 DEF Wanted
<1>11. AllReached'
  BY <1>1, <1>2, <1>3, <1>10 DEF AllReached
<1>12. Remembered'
  BY <1>1, <1>2, <1>3 DEF Remembered
<1>13. WalkTypes' /\ Outcomes'
  BY <1>1, <1>2, <1>3 DEF WalkTypes, Outcomes
<1>14. QED
  BY <1>7, <1>8, <1>9, <1>11, <1>12, <1>13

(* A search that has not begun, whatever it is about.                      *)
LEMMA FreshHolds ==
  ASSUME WalkTypes, path = <<>>, order = <<>>
  PROVE  /\ OnPath = {} /\ Done = {} /\ CallsNested /\ LoopsGoOn /\ PutInOrder
         /\ (seen = {} => Remembered)
<1>1. OnPath = {} /\ Len(path) = 0 /\ Len(order) = 0
  BY PathIs
<1>2. 1 .. Len(path) = {} /\ 1 .. Len(order) = {}
  BY <1>1
<1>3. Done = {}
  BY <1>2, PathIs
<1>4. QED
  BY <1>1, <1>2, <1>3 DEF CallsNested, LoopsGoOn, PutInOrder, Remembered

NoSearch ==
  /\ task = "none" /\ verdict = "none" /\ graph = NoEdges /\ count = 0 /\ roots = {}
  /\ path = <<>> /\ order = <<>> /\ todo = NoEdges /\ seen = {}

LEMMA IdleHolds == NoSearch => WalkInv
<1> SUFFICES ASSUME NoSearch PROVE WalkInv
  OBVIOUS
<1> USE DEF NoSearch
<1>1. NoEdges \in Graph /\ \A x \in Node : NoEdges[x] = {}
  BY DEF NoEdges, Graph
<1>2. \A x \in Node : ~(x < 0)
  BY MaxOperationsAssumption DEF Node
<1>3. WalkTypes
  BY <1>1 DEF WalkTypes, Graph
<1>4. AllReached
  BY <1>1, <1>2 DEF AllReached, Wanted
<1>5. QED
  BY <1>3, <1>4, FreshHolds DEF WalkInv, Outcomes

LEMMA BeginStep ==
  ASSUME WalkInv, IInv, Validate
  PROVE  WalkInv'
<1> USE DEF WalkInv
<1>1. PICK t \in {"check", "sort"}, g \in Graph, n \in 0 .. MaxOperations :
        /\ Search!Begin(t, g, n)
        /\ \A x \in Node : /\ g[x] # {} => x < n
                           /\ \A y \in g[x] : y \in Node /\ y < n
  <2>1. deps \in Graph /\ len \in 0 .. MaxOperations
        /\ \A x \in Node : /\ deps[x] # {} => x < len
                           /\ \A y \in deps[x] : y \in Node /\ y < len
    BY DEF IInv, TypeOK, Graph
  <2>2. ASSUME NEW g \in Graph, NEW x \in Node
        PROVE  x < MaxOperations /\ \A y \in g[x] : y \in Node /\ y < MaxOperations
    <3>1. g[x] \subseteq Node
      BY DEF Graph
    <3>2. \A y \in Node : y < MaxOperations
      BY MaxOperationsAssumption DEF Node
    <3>3. QED
      BY <3>1, <3>2
  <2>3. MaxOperations \in 0 .. MaxOperations
    BY MaxOperationsAssumption
  <2>4. QED
    BY <2>1, <2>2, <2>3, AskedAssumption DEF Validate
<1>2. /\ task' = t /\ graph' = g /\ count' = n
      /\ roots' = IF t = "check" THEN {x \in Node : g[x] # {}} ELSE {x \in Node : x < n}
      /\ UNCHANGED <<path, todo, seen, order, verdict>>
      /\ task = "none"
  BY <1>1, SearchWords DEF Search!Begin, Validate
<1>3. path = <<>> /\ order = <<>> /\ seen = {} /\ verdict = "none"
  BY <1>2 DEF Outcomes
<1>4. n \in Nat /\ n <= MaxOperations
  BY <1>1, MaxOperationsAssumption
<1>5. WalkTypes'
  BY <1>2, <1>3, <1>4 DEF WalkTypes
<1>6. OnPath' = {} /\ Done' = {}
  BY <1>2, <1>3, FreshHolds DEF OnPath, Done
<1>7. CallsNested' /\ LoopsGoOn' /\ PutInOrder' /\ Remembered'
  <2>1. /\ path' = <<>> /\ order' = <<>> /\ 1 .. Len(path') = {} /\ 1 .. Len(order') = {}
        /\ seen' = {}
    BY <1>2, <1>3
  <2>2. QED
    BY <1>6, <2>1 DEF CallsNested, LoopsGoOn, PutInOrder, Remembered
<1>8. Wanted' = roots'
  BY <1>2 DEF Wanted
<1>9. \A x \in Node : graph'[x] # {} => x \in Wanted'
  BY <1>1, <1>2, <1>8
<1>10. t = "sort" => \A x \in Node : graph'[x] \subseteq Wanted'
  BY <1>1, <1>2, <1>8
<1>11. AllReached'
  BY <1>2, <1>6, <1>8, <1>9, <1>10 DEF AllReached
<1>12. Outcomes'
  BY <1>2, <1>3, <1>4 DEF Outcomes
<1>13. QED
  BY <1>5, <1>7, <1>11, <1>12

LEMMA WalkStep ==
  ASSUME WalkInv, IInv, [ValidationNext]_<<vars, searchVars>>
  PROVE  WalkInv'
<1>1. ASSUME UNCHANGED searchVars
      PROVE  WalkInv'
  <2>1. UNCHANGED <<task, graph, count, roots, path, todo, seen, order, verdict>>
    BY <1>1 DEF searchVars
  <2>2. OnPath' = OnPath /\ Done' = Done /\ Wanted' = Wanted
    BY <2>1 DEF OnPath, Done, Wanted
  <2>3. WalkTypes' /\ CallsNested' /\ LoopsGoOn' /\ PutInOrder'
    BY <2>1, <2>2 DEF WalkInv, WalkTypes, CallsNested, LoopsGoOn, PutInOrder
  <2>4. AllReached' /\ Remembered' /\ Outcomes'
    BY <2>1, <2>2 DEF WalkInv, AllReached, Remembered, Outcomes
  <2>5. QED
    BY <2>3, <2>4 DEF WalkInv
<1>2. CASE Validate
  BY <1>2, BeginStep
<1>3. ASSUME NEW x \in Node,
             \/ Search!TakeRoot(x) \/ Search!Descend(x) \/ Search!Pass(x) \/ Search!FindCycle(x)
      PROVE  WalkInv'
  BY <1>3, RootStep, DescendStep, PassStep, CycleStep
<1>4. CASE Search!Return
  BY <1>4, ReturnStep
<1>5. CASE Search!Finish
  <2>1. /\ task # "none" /\ path = <<>> /\ roots = {} /\ verdict' = "ok"
        /\ UNCHANGED <<task, graph, count, roots, path, todo, seen, order>>
    BY <1>5 DEF Search!Finish, Search!Running
  <2>2. OnPath' = OnPath /\ Done' = Done /\ Wanted' = Wanted
    BY <2>1 DEF OnPath, Done, Wanted
  <2>3. WalkTypes' /\ CallsNested' /\ LoopsGoOn' /\ PutInOrder'
    BY <2>1, <2>2 DEF WalkInv, WalkTypes, CallsNested, LoopsGoOn, PutInOrder
  <2>4. AllReached' /\ Remembered' /\ Outcomes'
    BY <2>1, <2>2 DEF WalkInv, AllReached, Remembered, Outcomes
  <2>5. QED
    BY <2>3, <2>4 DEF WalkInv
<1>6. CASE Search!End
  <2>1. NoSearch'
    BY <1>6 DEF Search!End, Search!NoEdges, Search!Node, NoEdges, Node, NoSearch
  <2>2. QED
    BY <2>1, IdleHolds, PTL
<1>7. Search!Node = Node
  BY DEF Search!Node, Node
<1>8. QED
  BY <1>1, <1>2, <1>3, <1>4, <1>5, <1>6, <1>7
     DEF ValidationNext, Build, Proceed, Search!Next

(* A batch whose searches are modelled too is a batch: what is proved of   *)
(* BatchBuilder holds of it.                                               *)
LEMMA BatchInside == ValidationSpec => Spec
<1>1. ValidationInit => Init
  BY DEF ValidationInit
<1>2. [ValidationNext]_<<vars, searchVars>> => [Next]_vars
  BY DEF ValidationNext, Build, Validate, Proceed
<1>3. QED
  BY <1>1, <1>2, PTL DEF ValidationSpec, Spec

(* WalkInv, by which the searches are right, holds of both, on the graph   *)
(* of any batch and on any other.                                          *)
THEOREM SearchesInductive == ValidationSpec => []WalkInv
<1>1. ValidationInit => WalkInv
  <2>1. ValidationInit => NoSearch
    BY DEF ValidationInit, Search!Init, Search!NoEdges, Search!Node, NoEdges, Node, NoSearch
  <2>2. QED
    BY <2>1, IdleHolds
<1>2. WalkInv /\ IInv /\ [ValidationNext]_<<vars, searchVars>> => WalkInv'
  BY WalkStep
<1>3. QED
  BY <1>1, <1>2, BatchInside, Inductive, PTL DEF ValidationSpec

(* A search that ends well has put everything with dependencies in order,  *)
(* which no cycle allows.                                                  *)
LEMMA OrderedIsAcyclic ==
  ASSUME WalkInv, verdict = "ok"
  PROVE  Acyclic(graph)
<1> USE DEF WalkInv
<1> SUFFICES ASSUME NEW x \in Node, NEW y \in graph[x], x \in Reach(graph, y)
             PROVE  FALSE
  BY DEF Acyclic
<1>1. x \in Done
  <2>1. OnPath = {} /\ roots = {}
    BY PathIs DEF Outcomes
  <2>2. QED
    BY <2>1 DEF AllReached
<1>2. PICK i \in 1 .. Len(order) : order[i] = x
  BY <1>1, PathIs
<1> DEFINE S == {order[j] : j \in {k \in 1 .. Len(order) : k < i}}
<1>3. /\ Len(order) \in Nat /\ S \in SUBSET Node
      /\ \A z \in S : \E j \in 1 .. Len(order) : j < i /\ z = order[j]
      /\ \A j \in 1 .. Len(order) : j < i => order[j] \in S
  BY PathIs DEF WalkTypes
<1> HIDE DEF S
<1>4. Closed(graph, S)
  <2> SUFFICES ASSUME NEW z \in S, NEW v \in graph[z] PROVE v \in S
    BY DEF Closed
  <2>1. PICK j \in 1 .. Len(order) : j < i /\ z = order[j]
    BY <1>3
  <2>2. PICK k \in 1 .. Len(order) : k < j /\ order[k] = v
    BY <2>1 DEF PutInOrder
  <2>3. k < i
    BY <1>3, <2>1, <2>2
  <2>4. QED
    BY <1>3, <2>2, <2>3
<1>5. y \in S
  <2>1. PICK j \in 1 .. Len(order) : j < i /\ order[j] = y
    BY <1>2 DEF PutInOrder
  <2>2. QED
    BY <1>3, <2>1
<1>6. x \in S
  BY <1>3, <1>4, <1>5, ReachLeast
<1>7. PICK j \in 1 .. Len(order) : j < i /\ x = order[j]
  BY <1>3, <1>6
<1>8. j = i
  BY <1>2, <1>7 DEF PutInOrder
<1>9. QED
  BY <1>3, <1>7, <1>8

(* has_circular_dependencies and dependency_order report a cycle exactly   *)
(* when there is one, for every graph of every size, every order of its    *)
(* Vecs and of the map (validation.rs 74 to 115, 226 to 302).              *)
THEOREM SearchesAreRight == ValidationSpec => []CyclesAreFound
<1>1. WalkInv => CyclesAreFound
  <2>1. SUFFICES ASSUME WalkInv PROVE CyclesAreFound
    OBVIOUS
  <2>2. verdict = "ok" => Acyclic(graph)
    BY <2>1, OrderedIsAcyclic
  <2>3. verdict = "cycle" => ~Acyclic(graph)
    BY <2>1 DEF WalkInv, Outcomes
  <2>4. verdict \in {"none", "cycle", "ok"}
    BY <2>1 DEF WalkInv, WalkTypes
  <2>5. QED
    BY <2>2, <2>3, <2>4, SearchWords DEF CyclesAreFound, Search!CyclesAreFound
<1>2. QED
  BY <1>1, SearchesInductive, PTL

(* The sort of submit_batch never fails on a batch that was built, and     *)
(* puts each of its operations, once, after all that it depends on         *)
(* (ring/core/batch_operations.rs 122, validation.rs 226 to 302).          *)
THEOREM SortsAreTopological == ValidationSpec => []OrderIsTopological
<1>1. ASSUME WalkInv, NoCycle
      PROVE  OrderIsTopological
  <2> USE <1>1 DEF WalkInv
  <2>1. graph = deps => verdict # "cycle"
    BY DEF NoCycle, Outcomes
  <2>2. ASSUME task = "sort", verdict = "ok"
        PROVE  Search!Topological(order, graph, count)
    <3>1. OnPath = {} /\ roots = {}
      BY <2>2, PathIs DEF Outcomes
    <3>2. Wanted = {x \in Node : x < count} /\ Done = Wanted
      BY <2>2, <3>1 DEF Wanted, AllReached
    <3>3. count \in Nat /\ count <= MaxOperations
      BY <2>2 DEF Outcomes, WalkTypes
    <3>4. {x \in Node : x < count} = 0 .. (count - 1)
      BY <3>3, MaxOperationsAssumption DEF Node
    <3>5. Range(order) = 0 .. (count - 1)
      BY <3>2, <3>4 DEF Done
    <3>6. DOMAIN order = 1 .. Len(order) /\ Len(order) \in Nat
      BY DEF WalkTypes
    <3>7. \A i, j \in DOMAIN order : order[i] = order[j] => i = j
      BY <3>6 DEF PutInOrder
    <3>8. ASSUME NEW i \in DOMAIN order, NEW j \in DOMAIN order,
                 order[j] \in graph[order[i]]
          PROVE  j < i
      <4>1. PICK k \in 1 .. Len(order) : k < i /\ order[k] = order[j]
        BY <3>6, <3>8 DEF PutInOrder
      <4>2. QED
        BY <3>6, <3>7, <4>1
    <3>9. QED
      BY <3>5, <3>7, <3>8, SearchWords DEF Search!Topological
  <2>3. QED
    BY <2>1, <2>2 DEF OrderIsTopological
<1>2. QED
  BY <1>1, SearchesInductive, BatchInside, NeverCircular, PTL
=============================================================================
