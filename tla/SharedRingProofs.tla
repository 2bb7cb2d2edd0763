-------------------------- MODULE SharedRingProofs --------------------------
(***************************************************************************)
(* Proofs about SharedRing, for any number of operations. SharedInv is     *)
(* inductive. Its first part (the types, the ids that were handed out, the *)
(* place of each answer, the orphan table) holds whether ids collide or    *)
(* not; its second part (Apart) says that without a collision no two       *)
(* unfinished operations go by one id, and what follows for the tables and *)
(* for the answers that were given out.                                    *)
(***************************************************************************)
EXTENDS SharedRing, FiniteSetTheorems, WellFoundedInduction, TLAPS

Stages == {"unused", "waiting", "done", "dropped", "failed"}
Replies == {"none", "ok", "error", "idle", "polled"}

TypeOK ==
  /\ ring \in {"open", "dropped", "panicked", "crashed"}
  /\ nextOwned \in Nat \ {0} /\ nextTracked \in Nat \ {0}
  /\ polls \in 0 .. (BlockAfter + 1)
  /\ api \in [Op -> {"none", "owned", "borrowed"}]
  /\ id \in [Op -> Id \union {0}]
  /\ stage \in [Op -> Stages]
  /\ kernel \subseteq Op /\ cq \in Seq(Op)
  /\ inFlight \subseteq Id /\ tracked \subseteq Id
  /\ cache \in [Id -> Op \union {NoOp}]
  /\ orphans \in [Id -> Op \union {NoOp}]
  /\ reply \in Replies
  /\ got \in [Op -> Op \union {NoOp}]
  /\ collided \in BOOLEAN

(* Each counter is ahead of every id it handed out, and no further than    *)
(* the operations that were submitted; an id names one operation per API.  *)
Ids ==
  /\ \A o \in Op : o \notin Submitted =>
       api[o] = "none" /\ nextOwned =< o /\ nextTracked =< o
  /\ \A o \in Submitted :
       /\ id[o] \in Id
       /\ \/ api[o] = "owned" /\ id[o] < nextOwned
          \/ api[o] = "borrowed" /\ id[o] < nextTracked
  /\ \A o, p \in Submitted : api[o] = api[p] /\ id[o] = id[p] => o = p

Given == {got[o] : o \in Op} \ {NoOp}

(* An answer is in one place, once, and in the cache under its own id.     *)
Places ==
  /\ kernel \union ToSet(cq) \union CachedOps \union Given \subseteq Submitted
  /\ kernel \intersect (ToSet(cq) \union CachedOps \union Given) = {}
  /\ ToSet(cq) \intersect (CachedOps \union Given) = {}
  /\ CachedOps \intersect Given = {}
  /\ \A k, m \in DOMAIN cq : cq[k] = cq[m] => k = m
  /\ \A i \in Id : cache[i] # NoOp => id[cache[i]] = i
  /\ AnswerDeliveredOnce

OrphansDropped ==
  \A i \in Id : orphans[i] # NoOp =>
    /\ orphans[i] \in Submitted /\ id[orphans[i]] = i
    /\ api[orphans[i]] = "owned" /\ stage[orphans[i]] = "dropped"

(* What an id stands for.                                                  *)
Apart ==
  /\ \A o, p \in Submitted :
       id[o] = id[p] /\ Unfinished(o) /\ Unfinished(p) => o = p
  /\ \A o \in Submitted : api[o] = "borrowed" /\ Underway(o) => id[o] \in tracked
  /\ InFlightExact
  /\ \A o \in Op : got[o] \in {NoOp, o}

SharedInv == TypeOK /\ Ids /\ Places /\ OrphansDropped /\ (~collided => Apart)

---------------------------------------------------------------------------
(* Every non-empty set of numbers has a least one.                         *)
LEMMA LeastNumber ==
  ASSUME NEW T \in SUBSET Nat, T # {}
  PROVE  Min(T) \in T /\ \A j \in T : Min(T) =< j
  <1> DEFINE R == OpToRel(<, Nat)
  <1>1. IsWellFoundedOn(R, Nat) BY NatLessThanWellFounded
  <1>2. \A i, j \in Nat : i < j => <<i, j>> \in R BY DEF OpToRel
  <1> HIDE DEF R
  <1>3. PICK i \in T : \A j \in T : ~ (<<j, i>> \in R) BY <1>1, WFMin
  <1>4. \A j \in T : i =< j
    <2> SUFFICES ASSUME NEW j \in T PROVE i =< j OBVIOUS
    <2>1. ~ (j < i) BY <1>2, <1>3
    <2> QED BY <2>1
  <1> QED BY <1>4 DEF Min

(* Every non-empty set of numbers up to a bound has a greatest one.        *)
LEMMA GreatestNumber ==
  ASSUME NEW n \in Nat, NEW T \in SUBSET (1 .. n), T # {}
  PROVE  Max(T) \in T /\ \A j \in T : j =< Max(T)
  <1> DEFINE D == {n - j : j \in T}
  <1>1. D \in SUBSET Nat /\ D # {}
    <2>1. \A j \in T : n - j \in Nat OBVIOUS
    <2> QED BY <2>1
  <1>2. Min(D) \in D /\ \A d \in D : Min(D) =< d
    <2> HIDE DEF D
    <2> QED BY <1>1, LeastNumber
  <1>3. PICK i \in T : \A j \in T : n - i =< n - j BY <1>2
  <1>4. \A j \in T : j =< i BY <1>3
  <1> QED BY <1>4 DEF Max

(* Append adds one element at the end, and the empty sequence has none.    *)
LEMMA Appended ==
  ASSUME NEW S, NEW s \in Seq(S), NEW e \in S
  PROVE  /\ Append(s, e) \in Seq(S)
         /\ ToSet(Append(s, e)) = ToSet(s) \union {e}
         /\ DOMAIN Append(s, e) = 1 .. Len(s) + 1
         /\ DOMAIN s = 1 .. Len(s)
         /\ \A k \in 1 .. Len(s) : Append(s, e)[k] = s[k]
         /\ Append(s, e)[Len(s) + 1] = e
  <1>1. /\ Append(s, e) \in Seq(S)
        /\ Len(s) \in Nat /\ Len(Append(s, e)) = Len(s) + 1
        /\ Append(s, e)[Len(s) + 1] = e
        /\ \A k \in 1 .. Len(s) : Append(s, e)[k] = s[k]
    OBVIOUS
  <1>2. DOMAIN s = 1 .. Len(s) /\ DOMAIN Append(s, e) = 1 .. Len(s) + 1
    BY <1>1
  <1> QED BY <1>1, <1>2 DEF ToSet

LEMMA NoEntries ==
  /\ <<>> \in Seq(Op)
  /\ ToSet(<<>>) = {}
  /\ \A k : k \notin DOMAIN <<>>
  <1>1. <<>> \in Seq(Op) OBVIOUS
  <1>2. ToSet(<<>>) = {} BY DEF ToSet
  <1>3. \A k : k \notin DOMAIN <<>> OBVIOUS
  <1> QED BY <1>1, <1>2, <1>3

(* The elements of two sequences one after the other.                      *)
LEMMA Concatenated ==
  ASSUME NEW S, NEW s \in Seq(S), NEW t \in Seq(S)
  PROVE  s \o t \in Seq(S) /\ ToSet(s \o t) = ToSet(s) \union ToSet(t)
  <1>1. /\ s \o t \in Seq(S) /\ Len(s) \in Nat /\ Len(t) \in Nat
        /\ Len(s \o t) = Len(s) + Len(t)
        /\ \A k \in 1 .. Len(s) : (s \o t)[k] = s[k]
        /\ \A k \in 1 .. Len(t) : (s \o t)[Len(s) + k] = t[k]
    OBVIOUS
  <1>2. /\ DOMAIN s = 1 .. Len(s) /\ DOMAIN t = 1 .. Len(t)
        /\ DOMAIN (s \o t) = 1 .. Len(s) + Len(t)
    BY <1>1
  <1>3. ToSet(s \o t) \subseteq ToSet(s) \union ToSet(t)
    <2> SUFFICES ASSUME NEW k \in 1 .. Len(s) + Len(t)
                 PROVE  (s \o t)[k] \in ToSet(s) \union ToSet(t)
      BY <1>2 DEF ToSet
    <2>1. CASE k =< Len(s) BY <1>1, <1>2, <2>1 DEF ToSet
    <2>2. CASE k > Len(s)
      <3>1. k - Len(s) \in 1 .. Len(t) /\ k = Len(s) + (k - Len(s)) BY <1>1, <2>2
      <3>2. (s \o t)[k] = t[k - Len(s)] BY <1>1, <3>1
      <3> QED BY <1>2, <3>1, <3>2 DEF ToSet
    <2> QED BY <1>1, <2>1, <2>2
  <1>4. ToSet(s) \subseteq ToSet(s \o t)
    BY <1>1, <1>2 DEF ToSet
  <1>5. ToSet(t) \subseteq ToSet(s \o t)
    <2> SUFFICES ASSUME NEW k \in 1 .. Len(t) PROVE t[k] \in ToSet(s \o t)
      BY <1>2 DEF ToSet
    <2>1. Len(s) + k \in 1 .. Len(s) + Len(t) BY <1>1
    <2> QED BY <1>1, <1>2, <2>1 DEF ToSet
  <1> QED BY <1>1, <1>3, <1>4, <1>5

(* An arrangement of a finite set holds all of it.                         *)
LEMMA Arranged ==
  ASSUME NEW S, IsFiniteSet(S), NEW s \in SetToSeqs(S)
  PROVE  s \in Seq(S) /\ ToSet(s) = S
  <1> DEFINE n == Cardinality(S)
  <1>1. n \in Nat BY FS_CardinalityType
  <1>2. s \in Injection(1 .. n, S) BY DEF SetToSeqs, Injection, IsInjective
  <1>3. Cardinality(1 .. n) = n BY <1>1, FS_Interval
  <1>4. s \in Surjection(1 .. n, S) BY <1>2, <1>3, FS_Injection
  <1>5. s \in [1 .. n -> S] BY <1>2 DEF Injection
  <1> HIDE DEF n
  <1>6. s \in Seq(S) /\ Len(s) = n BY <1>1, <1>5
  <1>7. ToSet(s) = S BY <1>4, <1>5 DEF Surjection, ToSet
  <1> QED BY <1>6, <1>7

---------------------------------------------------------------------------
(* The positions of an id in a list of entries.                            *)
LEMMA WithFacts ==
  ASSUME NEW entries \in Seq(Op), NEW i
  PROVE  /\ With(entries, i) \subseteq DOMAIN entries
         /\ DOMAIN entries = 1 .. Len(entries) /\ Len(entries) \in Nat
         /\ \A k \in With(entries, i) :
              entries[k] \in ToSet(entries) /\ entries[k] \in Op /\ id[entries[k]] = i
         /\ With(entries, i) = {} <=> \A p \in ToSet(entries) : id[p] # i
         /\ With(entries, i) # {} =>
              /\ Min(With(entries, i)) \in With(entries, i)
              /\ \A k \in With(entries, i) : Min(With(entries, i)) =< k
         /\ \A T \in SUBSET With(entries, i) : T # {} => Max(T) \in T
  <1>1. DOMAIN entries = 1 .. Len(entries) /\ Len(entries) \in Nat OBVIOUS
  <1>2. /\ With(entries, i) \subseteq 1 .. Len(entries)
        /\ With(entries, i) \subseteq DOMAIN entries
    BY <1>1 DEF With
  <1>3. With(entries, i) \in SUBSET Nat BY <1>2
  <1>4. \A k \in With(entries, i) :
          entries[k] \in ToSet(entries) /\ entries[k] \in Op /\ id[entries[k]] = i
    BY <1>1 DEF With, ToSet
  <1>5. With(entries, i) = {} <=> \A p \in ToSet(entries) : id[p] # i
    BY <1>1 DEF With, ToSet
  <1>6. ASSUME NEW T \in SUBSET With(entries, i), T # {}
        PROVE  Max(T) \in T
    <2>1. T \in SUBSET (1 .. Len(entries)) BY <1>2
    <2> QED BY <1>1, <1>6, <2>1, GreatestNumber
  <1> QED BY <1>1, <1>2, <1>3, <1>4, <1>5, <1>6, LeastNumber

---------------------------------------------------------------------------
(* What every call that consumes answers does. An answer leaves the queue  *)
(* or the cache for the cache or for one caller that waits under its id;   *)
(* an id leaves the tracker only with an answer that has it.               *)
Stored == ToSet(cq) \union CachedOps

Moves ==
  /\ (cq' = cq /\ inFlight' = inFlight) \/ DrainBackend
  /\ cache' \in [Id -> Op \union {NoOp}]
  /\ \A i \in Id :
       \/ cache'[i] \in {NoOp, cache[i]}
       \/ cq' = <<>> /\ cache'[i] \in ToSet(cq) /\ id[cache'[i]] = i

Hands ==
  /\ stage' \in [Op -> Stages] /\ got' \in [Op -> Op \union {NoOp}]
  /\ \A o \in Op :
       \/ got'[o] = got[o] /\ stage'[o] = stage[o]
       \/ /\ Waiting(o) /\ stage'[o] = "done"
          /\ got'[o] \in Stored \ Stored' /\ id[got'[o]] = id[o]
  /\ \A o, p \in Op : got'[o] # got[o] /\ got'[p] # got[p] /\ id[o] = id[p] => o = p

Forgets ==
  /\ tracked' \subseteq tracked
  /\ \A i \in tracked \ tracked' : \E p \in Stored \ Stored' : id[p] = i
  /\ orphans' \in [Id -> Op \union {NoOp}]
  /\ \A i \in Id : orphans'[i] \in {NoOp, orphans[i]}

Consumes ==
  /\ UNCHANGED ring /\ UNCHANGED_Submissions
  /\ Moves /\ Hands /\ Forgets

Always == TypeOK /\ Ids /\ Places /\ OrphansDropped

(* Underway is being in the kernel, in the queue or in the cache.          *)
LEMMA UnderwayIs ==
  ASSUME TypeOK, NEW o \in Op
  PROVE  Underway(o) <=> o \in kernel \/ o \in Stored
  BY NoOpAssumption DEF Underway, Stored, CachedOps, TypeOK, Op

LEMMA UnderwayWillBe ==
  ASSUME cache' \in [Id -> Op \union {NoOp}], NEW o \in Op
  PROVE  Underway(o)' <=> o \in kernel' \/ o \in Stored'
  BY NoOpAssumption DEF Underway, Stored, CachedOps, Op

(* No consumer makes a finished operation unfinished.                      *)
LEMMA ConsumesSubmitted ==
  ASSUME Always, Consumes
  PROVE  /\ Submitted' = Submitted
         /\ \A o \in Op : Waiting(o)' => Waiting(o)
         /\ \A o \in Op : o \in Stored' => o \in Stored
         /\ \A o \in Op : Underway(o)' => Underway(o)
         /\ \A o \in Submitted : Unfinished(o)' => Unfinished(o)
  <1>1. Submitted' = Submitted
    BY DEF Always, TypeOK, Consumes, Hands, Submitted, Waiting
  <1>2. \A o \in Op : Waiting(o)' => Waiting(o)
    BY DEF Always, TypeOK, Consumes, Hands, Waiting
  <1>3. cq' = cq \/ cq' = <<>> BY DEF Consumes, Moves, DrainBackend
  <1>4. ToSet(cq') \subseteq ToSet(cq) BY <1>3, NoEntries
  <1>5. CachedOps' \subseteq CachedOps \union ToSet(cq)
    BY DEF CachedOps, Consumes, Moves
  <1>6. \A o \in Op : o \in Stored' => o \in Stored BY <1>4, <1>5 DEF Stored
  <1>7. \A o \in Op : Underway(o)' => Underway(o)
    BY <1>6, UnderwayIs, UnderwayWillBe
       DEF Always, Consumes, Moves, UNCHANGED_Submissions
  <1>8. ASSUME NEW o \in Submitted, Unfinished(o)'
        PROVE  Unfinished(o)
    <2>1. o \in Op /\ id[o] \in Id BY DEF Submitted, Always, Ids
    <2>2. /\ id' = id /\ api' = api /\ tracked' \subseteq tracked
          /\ orphans'[id[o]] \in {NoOp, orphans[id[o]]}
      BY <2>1 DEF Consumes, Forgets, UNCHANGED_Submissions
    <2>3. o # NoOp BY <2>1, NoOpAssumption DEF Op
    <2> QED BY <1>2, <1>7, <1>8, <2>1, <2>2, <2>3 DEF Unfinished
  <1> QED BY <1>1, <1>2, <1>6, <1>7, <1>8

(* An answer stays in one place.                                           *)
LEMMA ConsumesPlaces ==
  ASSUME Always, Consumes
  PROVE  Places'
  <1> USE DEF Always
  <1>1. kernel' = kernel /\ id' = id BY DEF Consumes, UNCHANGED_Submissions
  <1>2. \/ cq' = cq
        \/ cq' = <<>> /\ ToSet(cq') = {} /\ \A k : k \notin DOMAIN cq'
    BY NoEntries DEF Consumes, Moves, DrainBackend
  <1>3. ToSet(cq') \subseteq ToSet(cq) BY <1>2
  <1>4. \A p \in CachedOps' : p \in CachedOps \/ (p \in ToSet(cq) /\ ToSet(cq') = {})
    <2> SUFFICES ASSUME NEW i \in Id, cache'[i] # NoOp
                 PROVE  \/ cache'[i] \in CachedOps
                        \/ cache'[i] \in ToSet(cq) /\ ToSet(cq') = {}
      BY DEF CachedOps
    <2>1. cache'[i] = cache[i] => cache'[i] \in CachedOps BY DEF CachedOps
    <2> QED BY <2>1, NoEntries DEF Consumes, Moves
  <1>5. \A i \in Id : cache'[i] # NoOp => id'[cache'[i]] = i
    BY <1>1 DEF Places, Consumes, Moves
  <1>6. \A p \in Given' : \/ p \in Given
                          \/ /\ p \in ToSet(cq) \union CachedOps
                             /\ p \notin ToSet(cq') \union CachedOps'
    <2>1. ASSUME NEW o \in Op, got'[o] # got[o]
          PROVE  got'[o] \in Stored \ Stored'
      BY <2>1 DEF Consumes, Hands
    <2> SUFFICES ASSUME NEW o \in Op, got'[o] # NoOp
                 PROVE  \/ got'[o] \in Given
                        \/ /\ got'[o] \in ToSet(cq) \union CachedOps
                           /\ got'[o] \notin ToSet(cq') \union CachedOps'
      BY DEF Given
    <2>2. CASE got'[o] = got[o] BY <2>2 DEF Given
    <2>3. CASE got'[o] # got[o] BY <2>1, <2>3 DEF Stored
    <2> QED BY <2>2, <2>3
  <1>7. AnswerDeliveredOnce'
    <2> SUFFICES ASSUME NEW o \in Op, NEW p \in Op, o # p, got'[o] = got'[p], got'[o] # NoOp
                 PROVE  FALSE
      BY DEF AnswerDeliveredOnce
    <2>1. CASE got'[o] = got[o] /\ got'[p] = got[p]
      BY <2>1 DEF Places, AnswerDeliveredOnce
    <2>2. CASE got'[o] # got[o] /\ got'[p] = got[p]
      BY <2>2 DEF Places, Given, Consumes, Hands, Stored
    <2>3. CASE got'[o] = got[o] /\ got'[p] # got[p]
      BY <2>3 DEF Places, Given, Consumes, Hands, Stored
    <2>4. CASE got'[o] # got[o] /\ got'[p] # got[p]
      <3>1. id[got'[o]] = id[o] /\ id[got'[p]] = id[p]
        BY <2>4 DEF Consumes, Hands
      <3> QED BY <2>4, <3>1 DEF Consumes, Hands
    <2> QED BY <2>1, <2>2, <2>3, <2>4
  <1>8. \A k, m \in DOMAIN cq' : cq'[k] = cq'[m] => k = m
    BY <1>2 DEF Places
  <1>9. Submitted' = Submitted BY ConsumesSubmitted
  <1>10. CachedOps' \intersect ToSet(cq') = {}
    BY <1>3, <1>4 DEF Places
  <1>11. Given' \intersect (ToSet(cq') \union CachedOps') = {}
    BY <1>3, <1>4, <1>6 DEF Places
  <1>12. /\ kernel' \intersect (ToSet(cq') \union CachedOps' \union Given') = {}
         /\ kernel' \union ToSet(cq') \union CachedOps' \union Given' \subseteq Submitted
    BY <1>1, <1>3, <1>4, <1>6 DEF Places
  <1> QED BY <1>5, <1>7, <1>8, <1>9, <1>10, <1>11, <1>12 DEF Places

LEMMA ConsumesAlways ==
  ASSUME Always, Consumes
  PROVE  Ids' /\ Places' /\ OrphansDropped'
  <1>1. /\ Submitted' = Submitted /\ id' = id /\ api' = api
        /\ nextOwned' = nextOwned /\ nextTracked' = nextTracked
    BY ConsumesSubmitted DEF Consumes, UNCHANGED_Submissions
  <1>2. Ids' BY <1>1 DEF Always, Ids
  <1>3. ASSUME NEW i \in Id, orphans'[i] # NoOp
        PROVE  /\ orphans'[i] \in Submitted' /\ id'[orphans'[i]] = i
               /\ api'[orphans'[i]] = "owned" /\ stage'[orphans'[i]] = "dropped"
    <2> DEFINE o == orphans[i]
    <2>1. orphans'[i] = o /\ o # NoOp BY <1>3 DEF Consumes, Forgets
    <2>2. o \in Submitted /\ id[o] = i /\ api[o] = "owned" /\ stage[o] = "dropped"
      BY <2>1 DEF Always, OrphansDropped
    <2>3. o \in Op /\ ~Waiting(o) BY <2>2 DEF Submitted, Waiting
    <2>4. stage'[o] = "dropped" BY <2>2, <2>3 DEF Consumes, Hands
    <2> QED BY <1>1, <2>1, <2>2, <2>4
  <1>4. OrphansDropped' BY <1>3 DEF OrphansDropped
  <1> QED BY <1>2, <1>4, ConsumesPlaces

(* Without a collision an answer reaches its own operation, and an id that *)
(* leaves the tracker or the backend's table has no other use.             *)
LEMMA ConsumesApart ==
  ASSUME Always, Apart, Consumes
  PROVE  Apart'
  <1> USE DEF Always
  <1>1. /\ Submitted' = Submitted /\ id' = id /\ api' = api /\ kernel' = kernel
        /\ ring' = ring
        /\ \A o \in Op : Underway(o)' => Underway(o)
        /\ \A o \in Submitted : Unfinished(o)' => Unfinished(o)
    BY ConsumesSubmitted DEF Consumes, UNCHANGED_Submissions
  <1>2. \A p \in Stored \cup kernel : p \in Submitted /\ p \in Op /\ Unfinished(p)
    BY UnderwayIs DEF Stored, Places, Submitted, Unfinished
  <1>3. ASSUME NEW o \in Submitted, NEW p \in Submitted, id'[o] = id'[p],
               Unfinished(o)', Unfinished(p)'
        PROVE  o = p
    BY <1>1, <1>3 DEF Apart
  <1>4. ASSUME NEW o \in Submitted, api'[o] = "borrowed", Underway(o)'
        PROVE  id'[o] \in tracked'
    <2>1. o \in Op /\ Underway(o) /\ Unfinished(o)
      BY <1>1, <1>4 DEF Submitted, Unfinished
    <2>2. id[o] \in tracked BY <1>1, <1>4, <2>1 DEF Apart
    <2>3. SUFFICES ASSUME id[o] \notin tracked' PROVE FALSE BY <1>1
    <2>4. PICK p \in Stored \ Stored' : id[p] = id[o]
      BY <2>2, <2>3 DEF Consumes, Forgets
    <2>5. p = o BY <1>2, <2>1, <2>4 DEF Apart
    <2>6. o \notin kernel /\ o \notin Stored' BY <2>4, <2>5 DEF Stored, Places
    <2>7. ~Underway(o)'
      BY <1>1, <2>1, <2>6, UnderwayWillBe DEF Consumes, Moves
    <2> QED BY <1>4, <2>7
  <1>5. InFlightExact'
    <2>1. CASE cq' = cq /\ inFlight' = inFlight
      BY <1>1, <2>1 DEF Apart, InFlightExact
    <2>2. CASE DrainBackend
      <3>1. ToSet(cq') = {} BY <2>2, NoEntries DEF DrainBackend
      <3>2. \A o \in kernel, p \in ToSet(cq) : id[o] # id[p]
        BY <1>2 DEF Stored, Places, Apart
      <3>3. inFlight' = inFlight \ {id[p] : p \in ToSet(cq)}
        BY <2>2 DEF DrainBackend, Drained
      <3>4. ASSUME ring = "open"
            PROVE  inFlight' = {id[o] : o \in kernel}
        <4>1. inFlight = {id[o] : o \in kernel \union ToSet(cq)}
          BY <3>4 DEF Apart, InFlightExact
        <4> QED BY <3>2, <3>3, <4>1
      <3>5. kernel' \union ToSet(cq') = kernel BY <1>1, <3>1
      <3> QED BY <1>1, <3>4, <3>5 DEF InFlightExact
    <2> QED BY <2>1, <2>2 DEF Consumes, Moves
  <1>6. ASSUME NEW o \in Op PROVE got'[o] \in {NoOp, o}
    <2>1. CASE got'[o] = got[o] BY <2>1 DEF Apart
    <2>2. CASE got'[o] # got[o]
      <3>1. Waiting(o) /\ got'[o] \in Stored /\ id[got'[o]] = id[o]
        BY <2>2 DEF Consumes, Hands
      <3>2. o \in Submitted /\ Unfinished(o)
        BY <3>1 DEF Waiting, Submitted, Unfinished
      <3> QED BY <1>2, <3>1, <3>2 DEF Apart
    <2> QED BY <2>1, <2>2
  <1> QED BY <1>1, <1>3, <1>4, <1>5, <1>6 DEF Apart

LEMMA ConsumesKeeps ==
  ASSUME SharedInv, Consumes, polls' \in 0 .. (BlockAfter + 1), reply' \in Replies
  PROVE  SharedInv'
  <1>1. Always BY DEF SharedInv, Always
  <1>2. Ids' /\ Places' /\ OrphansDropped' BY <1>1, ConsumesAlways
  <1>3. collided' = collided BY DEF Consumes, UNCHANGED_Submissions
  <1>4. ~collided' => Apart' BY <1>1, <1>3, ConsumesApart DEF SharedInv
  <1>5. cq' \in Seq(Op) /\ inFlight' \subseteq Id
    BY NoEntries DEF SharedInv, TypeOK, Consumes, Moves, DrainBackend, Drained
  <1>6. TypeOK'
    BY <1>5 DEF SharedInv, TypeOK, Consumes, Moves, Hands, Forgets, UNCHANGED_Submissions
  <1> QED BY <1>2, <1>4, <1>6 DEF SharedInv

---------------------------------------------------------------------------
(* Each consumer is one.                                                   *)
LEMMA DrainFacts ==
  ASSUME TypeOK, DrainBackend
  PROVE  cq' = <<>> /\ ToSet(cq') = {} /\ Stored' = CachedOps'
  BY NoEntries DEF DrainBackend, Stored

(* What the poll of an owned future keeps of an id is an answer with it.   *)
LEMMA NewestFacts ==
  ASSUME TypeOK, NEW i
  PROVE  \/ NewestKept(i) = NoOp /\ Kept(i) = {}
         \/ /\ NewestKept(i) \in ToSet(cq) /\ NewestKept(i) \in Op
            /\ NewestKept(i) # NoOp
            /\ id[NewestKept(i)] = i /\ Kept(i) # {}
  <1>1. CASE Kept(i) = {} BY <1>1 DEF NewestKept
  <1>2. CASE Kept(i) # {}
    <2>1. Kept(i) \in SUBSET With(cq, i) BY DEF Kept
    <2>2. Max(Kept(i)) \in With(cq, i)
      BY <1>2, <2>1, WithFacts DEF TypeOK
    <2>3. NewestKept(i) = cq[Max(Kept(i))] BY <1>2 DEF NewestKept
    <2>4. /\ NewestKept(i) \in ToSet(cq) /\ NewestKept(i) \in Op
          /\ id[NewestKept(i)] = i
      BY <2>2, <2>3, WithFacts DEF TypeOK
    <2> QED BY <1>2, <2>4, NoOpAssumption DEF Op
  <1> QED BY <1>1, <1>2

(* Giving a caller that waits an answer with its id, or giving nothing.    *)
LEMMA HandHands ==
  ASSUME Always, NEW o \in Op, NEW p \in Stored \ Stored', id[p] = id[o],
         Waiting(o), Hand(o, p)
  PROVE  Hands
  <1>1. p \in Op BY DEF Stored, Always, Places, Submitted
  <1>2. stage' = [stage EXCEPT ![o] = "done"] /\ got' = [got EXCEPT ![o] = p]
    BY DEF Hand
  <1>3. /\ stage' \in [Op -> Stages] /\ got' \in [Op -> Op \union {NoOp}]
        /\ stage'[o] = "done" /\ got'[o] = p
        /\ \A r \in Op : r # o => got'[r] = got[r] /\ stage'[r] = stage[r]
    BY <1>1, <1>2 DEF Always, TypeOK, Stages
  <1> QED BY <1>3 DEF Hands

LEMMA KeepHands ==
  ASSUME Always, UNCHANGED <<stage, got>>
  PROVE  Hands
  BY DEF Always, TypeOK, Hands

LEMMA GiveHands ==
  ASSUME Always, NEW o \in Op, NEW p \in Stored \ Stored', id[p] = id[o], Give(o, p)
  PROVE  Hands
  BY HandHands, KeepHands DEF Give

LEMMA PollOwnedConsumes ==
  ASSUME Always, NEW o \in Op, PollOwned(o)
  PROVE  Consumes
  <1> USE DEF Always
  <1> DEFINE i == id[o]
             q == NewestKept(i)
  <1>1. o \in Submitted /\ i \in Id
    BY DEF PollOwned, Waiting, Submitted, Ids
  <1>2. /\ \A j \in Id : cache'[j] = IF j = i \/ With(cq, j) = {} THEN cache[j]
                                     ELSE NewestKept(j)
        /\ DOMAIN cache' = Id
    BY DEF PollOwned
  <1>3. DrainBackend BY DEF PollOwned
  <1>4. cq' = <<>> BY <1>3 DEF DrainBackend
  <1>5. ASSUME NEW j \in Id
        PROVE  /\ cache'[j] \in Op \union {NoOp}
               /\ \/ cache'[j] \in {NoOp, cache[j]}
                  \/ cache'[j] \in ToSet(cq) /\ id[cache'[j]] = j
    <2>1. CASE j = i \/ With(cq, j) = {}
      BY <1>2, <2>1 DEF TypeOK
    <2>2. CASE ~(j = i \/ With(cq, j) = {})
      BY <1>2, <2>2, NewestFacts
    <2> QED BY <2>1, <2>2
  <1>6. cache' \in [Id -> Op \union {NoOp}]
    <2>1. cache' = [j \in Id |-> cache'[j]] BY DEF PollOwned
    <2> QED BY <1>5, <2>1
  <1>7. Moves BY <1>3, <1>4, <1>5, <1>6 DEF Moves
  <1>8. Hands
    <2>1. CASE q = NoOp
      BY <2>1, KeepHands DEF PollOwned
    <2>2. CASE q # NoOp
      <3>1. q \in ToSet(cq) /\ q \in Op /\ id[q] = i BY <2>2, NewestFacts
      <3>2. q \notin CachedOps'
        <4> SUFFICES ASSUME NEW j \in Id, cache'[j] = q PROVE FALSE
          BY DEF CachedOps
        <4>1. q \notin CachedOps BY <3>1 DEF Places
        <4>2. cache'[j] # cache[j] BY <2>2, <4>1 DEF CachedOps
        <4>3. id[q] = j BY <1>5, <2>2, <4>2
        <4>4. j = i BY <3>1, <4>3
        <4> QED BY <1>2, <4>2, <4>4
      <3>3. q \in Stored \ Stored'
        BY <1>3, <3>1, <3>2, DrainFacts DEF Stored
      <3>4. Waiting(o) /\ Hand(o, q) BY <2>2 DEF PollOwned
      <3> QED BY <3>1, <3>3, <3>4, HandHands
    <2> QED BY <2>1, <2>2
  <1>9. Forgets
    <2>1. tracked' = tracked BY DEF PollOwned
    <2>2. orphans' = [j \in Id |-> IF With(cq, j) = {} THEN orphans[j] ELSE NoOp]
      BY DEF PollOwned
    <2>3. orphans' \in [Id -> Op \union {NoOp}]
      BY <2>2 DEF TypeOK
    <2> QED BY <2>1, <2>2, <2>3 DEF Forgets
  <1> QED BY <1>7, <1>8, <1>9 DEF Consumes, PollOwned, UNCHANGED_Submissions

(* Taking the answer kept under an id out of the cache.                    *)
LEMMA CachedFacts ==
  ASSUME Always, NEW i \in Id, cache[i] # NoOp,
         cache' = [cache EXCEPT ![i] = NoOp], cq' = cq, inFlight' = inFlight
  PROVE  Moves /\ cache[i] \in Stored \ Stored' /\ id[cache[i]] = i
  <1> USE DEF Always
  <1>1. /\ cache' \in [Id -> Op \union {NoOp}]
        /\ \A j \in Id : cache'[j] = IF j = i THEN NoOp ELSE cache[j]
    BY DEF TypeOK
  <1>2. Moves BY <1>1 DEF Moves
  <1>3. cache[i] \in CachedOps /\ id[cache[i]] = i BY DEF CachedOps, Places
  <1>4. cache[i] \notin ToSet(cq') BY <1>3 DEF Places
  <1>5. cache[i] \notin CachedOps'
    <2> SUFFICES ASSUME NEW j \in Id, cache'[j] = cache[i] PROVE FALSE
      BY DEF CachedOps
    <2>1. cache[j] = cache[i] /\ j # i BY <1>1
    <2> QED BY <2>1 DEF Places
  <1> QED BY <1>2, <1>3, <1>4, <1>5 DEF Stored

LEMMA PollOwnedCachedConsumes ==
  ASSUME Always, NEW o \in Op, PollOwnedCached(o)
  PROVE  Consumes
  <1>1. id[o] \in Id
    BY DEF Always, PollOwnedCached, Waiting, Submitted, Ids
  <1>2. Moves /\ cache[id[o]] \in Stored \ Stored' /\ id[cache[id[o]]] = id[o]
    BY <1>1, CachedFacts DEF PollOwnedCached
  <1>3. Hands BY <1>2, HandHands DEF PollOwnedCached
  <1>4. Forgets BY DEF PollOwnedCached, Forgets, Always, TypeOK
  <1> QED BY <1>2, <1>3, <1>4 DEF Consumes, PollOwnedCached, UNCHANGED_Submissions

(* The id of an operation of the borrowed API.                             *)
LEMMA AskedId ==
  ASSUME Always, NEW o \in Op, api[o] = "borrowed"
  PROVE  o \in Submitted /\ id[o] \in Id
  BY DEF Always, Ids, TypeOK

LEMMA ByIdCachedConsumes ==
  ASSUME Always, NEW o \in Op, ByIdCached(o)
  PROVE  Consumes
  <1>1. id[o] \in Id BY AskedId DEF ByIdCached, AskById
  <1>2. Moves /\ cache[id[o]] \in Stored \ Stored' /\ id[cache[id[o]]] = id[o]
    BY <1>1, CachedFacts DEF ByIdCached
  <1>3. Hands BY <1>2, GiveHands DEF ByIdCached
  <1>4. Forgets BY <1>2 DEF ByIdCached, Forgets, Always, TypeOK
  <1> QED BY <1>2, <1>3, <1>4
          DEF Consumes, ByIdCached, AskById, Exclusive, UNCHANGED_Submissions

LEMMA ByIdDrainsConsumes ==
  ASSUME Always, NEW o \in Op, ByIdDrains(o)
  PROVE  Consumes
  <1> USE DEF Always
  <1> DEFINE i == id[o]
             q == cq[Min(Answers(i))]
  <1>1. i \in Id BY AskedId DEF ByIdDrains, AskById
  <1>2. DrainBackend /\ cq' = <<>> BY DEF ByIdDrains, DrainBackend
  <1>3. \A j \in Id : Answers(j) # {} =>
          /\ Answers(j) = With(cq, j) /\ j \in tracked
          /\ cq[Max(Answers(j))] \in ToSet(cq) /\ id[cq[Max(Answers(j))]] = j
          /\ cq[Min(Answers(j))] \in ToSet(cq) /\ id[cq[Min(Answers(j))]] = j
    <2> SUFFICES ASSUME NEW j \in Id, Answers(j) # {}
                 PROVE  /\ Answers(j) = With(cq, j) /\ j \in tracked
                        /\ cq[Max(Answers(j))] \in ToSet(cq) /\ id[cq[Max(Answers(j))]] = j
                        /\ cq[Min(Answers(j))] \in ToSet(cq) /\ id[cq[Min(Answers(j))]] = j
      OBVIOUS
    <2>1. Answers(j) = With(cq, j) /\ j \in tracked BY DEF Answers
    <2>2. Max(With(cq, j)) \in With(cq, j) /\ Min(With(cq, j)) \in With(cq, j)
      BY <2>1, WithFacts DEF TypeOK
    <2> QED BY <2>1, <2>2, WithFacts DEF TypeOK
  <1>4. cache' = [j \in Id |-> IF j = i \/ Answers(j) = {} THEN cache[j]
                               ELSE cq[Max(Answers(j))]]
    BY DEF ByIdDrains, CacheOthers
  <1>5. ToSet(cq) \subseteq Op BY DEF Places, Submitted
  <1>6. ASSUME NEW j \in Id
        PROVE  /\ cache'[j] \in Op \union {NoOp}
               /\ \/ cache'[j] \in {NoOp, cache[j]}
                  \/ j # i /\ cache'[j] \in ToSet(cq) /\ id[cache'[j]] = j
    <2>1. CASE j = i \/ Answers(j) = {} BY <1>4, <2>1 DEF TypeOK
    <2>2. CASE ~(j = i \/ Answers(j) = {}) BY <1>3, <1>4, <1>5, <2>2
    <2> QED BY <2>1, <2>2
  <1>7. cache' \in [Id -> Op \union {NoOp}] BY <1>4, <1>6
  <1>8. Moves BY <1>2, <1>6, <1>7 DEF Moves
  <1>9. Answers(i) # {} => q \in Stored \ Stored' /\ id[q] = i
    <2> SUFFICES ASSUME Answers(i) # {} PROVE q \in Stored \ Stored' /\ id[q] = i
      OBVIOUS
    <2>1. q \in ToSet(cq) /\ id[q] = i BY <1>1, <1>3
    <2>2. q \notin CachedOps'
      <3> SUFFICES ASSUME NEW j \in Id, cache'[j] = q, q # NoOp PROVE FALSE
        BY DEF CachedOps
      <3>1. q \notin CachedOps BY <2>1 DEF Places
      <3>2. cache'[j] # cache[j] BY <3>1 DEF CachedOps
      <3>3. j # i /\ id[q] = j BY <1>6, <3>2
      <3> QED BY <2>1, <3>3
    <2> QED BY <1>2, <2>1, <2>2, DrainFacts DEF Stored
  <1>10. Hands
    <2>1. CASE Answers(i) = {} BY <2>1, KeepHands DEF ByIdDrains
    <2>2. CASE Answers(i) # {} BY <1>9, <2>2, GiveHands DEF ByIdDrains
    <2> QED BY <2>1, <2>2
  <1>11. Forgets
    <2>1. /\ tracked' = IF Answers(i) = {} THEN tracked ELSE tracked \ {i}
          /\ orphans' = orphans
      BY DEF ByIdDrains, UntrackAsked
    <2> QED BY <1>9, <2>1 DEF Forgets, TypeOK
  <1> QED BY <1>8, <1>10, <1>11
          DEF Consumes, ByIdDrains, AskById, Exclusive, UNCHANGED_Submissions

LEMMA PollByIdConsumes ==
  ASSUME Always, NEW o \in Op, PollById(o)
  PROVE  Consumes
  <1> USE DEF Always
  <1> DEFINE i == id[o]
             q == cq[Min(With(cq, i))]
  <1>1. DrainBackend /\ cq' = <<>> /\ cache' = cache
    BY DEF PollById, DrainBackend
  <1>2. Moves BY <1>1 DEF Moves, TypeOK
  <1>3. With(cq, i) # {} => q \in Stored \ Stored' /\ id[q] = i
    <2> SUFFICES ASSUME With(cq, i) # {} PROVE q \in Stored \ Stored' /\ id[q] = i
      OBVIOUS
    <2>1. q \in ToSet(cq) /\ id[q] = i
      BY WithFacts DEF TypeOK
    <2>2. CachedOps' = CachedOps BY <1>1 DEF CachedOps
    <2> QED BY <1>1, <2>1, <2>2, DrainFacts DEF Stored, Places
  <1>4. Hands
    <2>1. CASE With(cq, i) = {} BY <2>1, KeepHands DEF PollById
    <2>2. CASE With(cq, i) # {} BY <1>3, <2>2, GiveHands DEF PollById
    <2> QED BY <2>1, <2>2
  <1>5. Forgets BY DEF PollById, Forgets, TypeOK
  <1> QED BY <1>2, <1>4, <1>5
          DEF Consumes, PollById, Exclusive, UNCHANGED_Submissions

(* What try_complete and wait_for_completion report. If every entry is     *)
(* recognised each has an id of its own that is tracked.                   *)
LEMMA ReportFacts ==
  ASSUME TypeOK, NEW entries \in Seq(Op), Report(entries)
  PROVE  /\ tracked' \subseteq tracked
         /\ \A i \in tracked \ tracked' : \E p \in ToSet(entries) : id[p] = i
         /\ reply' \in {"ok", "error"}
         /\ reply' = "ok" =>
              \A p \in ToSet(entries) : id[p] \in tracked /\ id[p] \notin tracked'
         /\ \A o \in Op :
              \/ got'[o] = got[o] /\ stage'[o] = stage[o]
              \/ /\ Waiting(o) /\ api[o] = "borrowed" /\ reply' = "ok"
                 /\ stage'[o] = "done"
                 /\ got'[o] \in ToSet(entries) /\ id[got'[o]] = id[o]
         /\ reply' = "ok" =>
              \A o \in Op, p \in ToSet(entries) :
                api[o] = "borrowed" /\ id[p] = id[o] => ~Waiting(o)'
         /\ stage' \in [Op -> Stages] /\ got' \in [Op -> Op \union {NoOp}]
  <1> DEFINE failed == Recognised(entries) # DOMAIN entries
             ps == IF failed THEN {} ELSE ToSet(entries)
  <1>1. /\ tracked' = tracked \ {id[entries[k]] : k \in Recognised(entries)}
        /\ reply' = IF failed THEN "error" ELSE "ok"
        /\ stage' = [o \in Op |-> IF ReportedTo(o, ps) THEN "done" ELSE stage[o]]
        /\ got' = [o \in Op |-> IF ReportedTo(o, ps)
                                THEN CHOOSE p \in ps : id[p] = id[o] ELSE got[o]]
    BY DEF Report, Untrack
  <1>2. Recognised(entries) \subseteq DOMAIN entries BY DEF Recognised
  <1>3. \A k \in DOMAIN entries : entries[k] \in ToSet(entries) /\ entries[k] \in Op
    BY DEF ToSet
  <1>4. \A p \in ToSet(entries) : \E k \in DOMAIN entries : p = entries[k]
    BY DEF ToSet
  <1>5. reply' = "ok" <=> ~failed BY <1>1
  <1>6. ASSUME reply' = "ok", NEW p \in ToSet(entries)
        PROVE  id[p] \in tracked /\ id[p] \notin tracked'
    <2>1. PICK k \in DOMAIN entries : p = entries[k] BY <1>4
    <2>2. k \in Recognised(entries) BY <1>5, <1>6
    <2>3. k \in 1 .. k
      <3>1. DOMAIN entries = 1 .. Len(entries) /\ Len(entries) \in Nat OBVIOUS
      <3> QED BY <3>1
    <2>4. id[p] \in tracked BY <2>1, <2>2, <2>3 DEF Recognised
    <2> QED BY <1>1, <2>1, <2>2, <2>4
  <1>7. ps \subseteq ToSet(entries) /\ ToSet(entries) \subseteq Op BY <1>3, <1>4
  <1>8. ASSUME NEW o \in Op, ReportedTo(o, ps)
        PROVE  /\ Waiting(o) /\ api[o] = "borrowed" /\ reply' = "ok"
               /\ stage'[o] = "done"
               /\ got'[o] \in ToSet(entries) /\ id[got'[o]] = id[o]
    <2>1. PICK p \in ps : id[p] = id[o] BY <1>8 DEF ReportedTo
    <2>2. got'[o] \in ps /\ id[got'[o]] = id[o] BY <1>1, <1>8, <2>1
    <2> QED BY <1>1, <1>5, <1>7, <1>8, <2>2 DEF ReportedTo
  <1>9. ASSUME NEW o \in Op, ~ReportedTo(o, ps)
        PROVE  got'[o] = got[o] /\ stage'[o] = stage[o]
    BY <1>1, <1>9
  <1>10. ASSUME reply' = "ok", NEW o \in Op, NEW p \in ToSet(entries),
                api[o] = "borrowed", id[p] = id[o]
         PROVE  ~Waiting(o)'
    <2>1. p \in ps BY <1>5, <1>10
    <2>2. CASE Waiting(o)
      <3>1. ReportedTo(o, ps) BY <1>10, <2>1, <2>2 DEF ReportedTo
      <3> QED BY <1>8, <3>1 DEF Waiting
    <2>3. CASE ~Waiting(o)
      <3>1. ~ReportedTo(o, ps) BY <2>3 DEF ReportedTo
      <3> QED BY <1>9, <2>3, <3>1 DEF Waiting
    <2> QED BY <2>2, <2>3
  <1>11. stage' \in [Op -> Stages]
    <2>1. \A o \in Op : stage'[o] \in Stages
      BY <1>8, <1>9 DEF TypeOK, Stages
    <2> QED BY <1>1, <2>1
  <1>12. got' \in [Op -> Op \union {NoOp}]
    <2>1. \A o \in Op : got'[o] \in Op \union {NoOp}
      BY <1>7, <1>8, <1>9 DEF TypeOK
    <2> QED BY <1>1, <2>1
  <1>13. tracked' \subseteq tracked BY <1>1
  <1>14. \A i \in tracked \ tracked' : \E p \in ToSet(entries) : id[p] = i
    BY <1>1, <1>2, <1>3
  <1>15. reply' \in {"ok", "error"} BY <1>1
  <1> HIDE DEF failed, ps
  <1> QED BY <1>6, <1>8, <1>9, <1>10, <1>11, <1>12, <1>13, <1>14, <1>15

(* The cache holds finitely many answers; emptying it in any order takes   *)
(* them all.                                                               *)
LEMMA CacheTaken ==
  ASSUME TypeOK, NEW cached \in SetToSeqs(CachedOps), TakeCache
  PROVE  /\ cached \in Seq(Op) /\ ToSet(cached) = CachedOps /\ CachedOps' = {}
         /\ cache' \in [Id -> Op \union {NoOp}]
         /\ \A i \in Id : cache'[i] = NoOp
  <1>1. CachedOps \subseteq Op BY DEF CachedOps, TypeOK
  <1>2. IsFiniteSet(CachedOps)
    <2>1. IsFiniteSet(Op) BY MaxOpsAssumption, FS_Interval DEF Op
    <2> QED BY <1>1, <2>1, FS_Subset
  <1>3. cached \in Seq(CachedOps) /\ ToSet(cached) = CachedOps BY <1>2, Arranged
  <1>4. cached \in Seq(Op) BY <1>1, <1>3
  <1>5. /\ cache' \in [Id -> Op \union {NoOp}]
        /\ \A i \in Id : cache'[i] = NoOp
    BY DEF TakeCache
  <1>6. CachedOps' = {} BY <1>5 DEF CachedOps
  <1> QED BY <1>3, <1>4, <1>5, <1>6

(* A report of answers that leave the queue or the cache.                  *)
LEMMA ReportConsumes ==
  ASSUME Always, NEW entries \in Seq(Op), Report(entries), Moves,
         ToSet(entries) \subseteq Stored \ Stored',
         UNCHANGED <<ring, orphans>>, UNCHANGED_Submissions
  PROVE  Consumes
  <1>1. TypeOK BY DEF Always
  <1>2. Forgets
    <2>1. /\ tracked' \subseteq tracked
          /\ \A i \in tracked \ tracked' : \E p \in ToSet(entries) : id[p] = i
      BY <1>1, ReportFacts
    <2> QED BY <1>1, <2>1 DEF Forgets, TypeOK
  <1>3. \A o \in Op :
          \/ got'[o] = got[o] /\ stage'[o] = stage[o]
          \/ /\ Waiting(o) /\ api[o] = "borrowed" /\ stage'[o] = "done"
             /\ got'[o] \in ToSet(entries) /\ id[got'[o]] = id[o]
    BY <1>1, ReportFacts
  <1>4. ASSUME NEW o \in Op, NEW p \in Op, got'[o] # got[o], got'[p] # got[p], id[o] = id[p]
        PROVE  o = p
    <2>1. o \in Submitted /\ p \in Submitted /\ api[o] = api[p]
      BY <1>3, <1>4 DEF Submitted, Waiting
    <2> QED BY <1>4, <2>1 DEF Always, Ids
  <1>5. stage' \in [Op -> Stages] /\ got' \in [Op -> Op \union {NoOp}]
    BY <1>1, ReportFacts
  <1>6. Hands BY <1>3, <1>4, <1>5 DEF Hands
  <1> QED BY <1>2, <1>6 DEF Consumes

(* Both calls report exactly what they take out of the queue and the cache.*)
LEMMA ReportsTaken ==
  ASSUME Always, TryComplete \/ WaitForCompletion
  PROVE  /\ Moves
         /\ \E entries \in Seq(Op) :
              Report(entries) /\ ToSet(entries) = Stored \ Stored'
  <1> USE DEF Always
  <1>1. TakeCache BY DEF TryComplete, WaitForCompletion
  <1>2. CASE TryComplete
    <2>1. PICK cached \in SetToSeqs(CachedOps) :
            IF cached = <<>> THEN DrainBackend /\ Report(cq)
            ELSE UNCHANGED <<cq, inFlight>> /\ Report(cached)
      BY <1>2 DEF TryComplete
    <2>2. /\ cached \in Seq(Op) /\ ToSet(cached) = CachedOps /\ CachedOps' = {}
          /\ cache' \in [Id -> Op \union {NoOp}]
          /\ \A i \in Id : cache'[i] = NoOp
      BY <1>1, CacheTaken
    <2>3. CASE cached = <<>>
      <3>1. DrainBackend /\ Report(cq) /\ CachedOps = {}
        BY <2>1, <2>2, <2>3, NoEntries
      <3>2. ToSet(cq') = {} BY <3>1, NoEntries DEF DrainBackend
      <3>3. ToSet(cq) = Stored \ Stored' BY <2>2, <3>1, <3>2 DEF Stored
      <3>4. Moves BY <2>2, <3>1 DEF Moves
      <3> QED BY <3>1, <3>3, <3>4 DEF TypeOK
    <2>4. CASE cached # <<>>
      <3>1. cq' = cq /\ inFlight' = inFlight /\ Report(cached) BY <2>1, <2>4
      <3>2. ToSet(cached) = Stored \ Stored' BY <2>2, <3>1 DEF Stored, Places
      <3>3. Moves BY <2>2, <3>1 DEF Moves
      <3> QED BY <2>2, <3>1, <3>2, <3>3
    <2> QED BY <2>3, <2>4
  <1>3. CASE WaitForCompletion
    <2>1. PICK cached \in SetToSeqs(CachedOps) : Report(cached \o cq)
      BY <1>3 DEF WaitForCompletion
    <2>2. /\ cached \in Seq(Op) /\ ToSet(cached) = CachedOps /\ CachedOps' = {}
          /\ cache' \in [Id -> Op \union {NoOp}]
          /\ \A i \in Id : cache'[i] = NoOp
      BY <1>1, CacheTaken
    <2>3. DrainBackend BY <1>3 DEF WaitForCompletion
    <2>4. ToSet(cq') = {} BY <2>3, NoEntries DEF DrainBackend
    <2>5. /\ cached \o cq \in Seq(Op)
          /\ ToSet(cached \o cq) = CachedOps \union ToSet(cq)
      BY <2>2, Concatenated DEF TypeOK
    <2>6. ToSet(cached \o cq) = Stored \ Stored' BY <2>2, <2>4, <2>5 DEF Stored
    <2>7. Moves BY <2>2, <2>3 DEF Moves
    <2> QED BY <2>1, <2>5, <2>6, <2>7
  <1> QED BY <1>2, <1>3

LEMMA TryCompleteConsumes ==
  ASSUME Always, TryComplete \/ WaitForCompletion
  PROVE  Consumes
  <1>1. Moves BY ReportsTaken
  <1>2. PICK entries \in Seq(Op) : Report(entries) /\ ToSet(entries) = Stored \ Stored'
    BY ReportsTaken
  <1>3. UNCHANGED <<ring, orphans>> /\ UNCHANGED_Submissions
    BY DEF TryComplete, WaitForCompletion, UNCHANGED_Submissions
  <1> QED BY <1>1, <1>2, <1>3, ReportConsumes

LEMMA WaitFailsConsumes ==
  ASSUME Always, WaitFails
  PROVE  Consumes
  <1>1. /\ cache' \in [Id -> Op \union {NoOp}]
        /\ \A i \in Id : cache'[i] = NoOp
    BY DEF WaitFails, TakeCache
  <1>2. Moves BY <1>1 DEF Moves, WaitFails
  <1>3. Hands BY KeepHands DEF WaitFails
  <1>4. Forgets BY DEF WaitFails, Forgets, Always, TypeOK
  <1> QED BY <1>2, <1>3, <1>4 DEF Consumes, WaitFails, UNCHANGED_Submissions

LEMMA ProcessCompletionsConsumes ==
  ASSUME Always, ProcessCompletions
  PROVE  Consumes
  <1>1. Moves BY DEF Moves, ProcessCompletions, Always, TypeOK
  <1>2. Hands BY KeepHands DEF ProcessCompletions
  <1>3. Forgets BY DEF ProcessCompletions, Forgets, Always, TypeOK
  <1> QED BY <1>1, <1>2, <1>3 DEF Consumes, ProcessCompletions, UNCHANGED_Submissions

(* Every call that takes answers, with what it leaves in polls and reply.  *)
Consuming ==
  \/ \E o \in Op : \/ PollOwned(o) \/ PollOwnedCached(o) \/ ByIdCached(o)
                   \/ ByIdDrains(o) \/ PollById(o)
  \/ TryComplete \/ WaitForCompletion \/ WaitFails \/ ProcessCompletions

LEMMA ConsumingStep ==
  ASSUME Always, Consuming
  PROVE  Consumes /\ polls' \in 0 .. (BlockAfter + 1) /\ reply' \in Replies
  <1> USE DEF Replies
  <1>1. polls \in 0 .. (BlockAfter + 1) BY DEF Always, TypeOK
  <1>2. ASSUME NEW o \in Op, PollOwned(o) \/ PollOwnedCached(o)
        PROVE  Consumes /\ polls' \in 0 .. (BlockAfter + 1) /\ reply' \in Replies
    BY <1>1, <1>2, PollOwnedConsumes, PollOwnedCachedConsumes
       DEF PollOwned, PollOwnedCached
  <1>3. ASSUME NEW o \in Op, ByIdCached(o) \/ ByIdDrains(o)
        PROVE  Consumes /\ polls' \in 0 .. (BlockAfter + 1) /\ reply' \in Replies
    <2>1. Consumes BY <1>3, ByIdCachedConsumes, ByIdDrainsConsumes
    <2>2. reply' = "ok" /\ AskById(o) BY <1>3 DEF ByIdCached, ByIdDrains
    <2>3. polls' \in 0 .. (BlockAfter + 1)
      BY <1>1, <2>2, BlockAfterAssumption DEF AskById
    <2> QED BY <2>1, <2>2, <2>3
  <1>4. ASSUME NEW o \in Op, PollById(o)
        PROVE  Consumes /\ polls' \in 0 .. (BlockAfter + 1) /\ reply' \in Replies
    BY <1>1, <1>4, PollByIdConsumes DEF PollById
  <1>5. CASE TryComplete \/ WaitForCompletion
    <2>1. PICK entries \in Seq(Op) : Report(entries) BY <1>5, ReportsTaken
    <2>2. reply' \in {"ok", "error"} BY <2>1, ReportFacts DEF Always
    <2>3. polls' = polls BY <1>5 DEF TryComplete, WaitForCompletion
    <2> QED BY <1>1, <1>5, <2>2, <2>3, TryCompleteConsumes
  <1>6. CASE WaitFails \/ ProcessCompletions
    BY <1>1, <1>6, WaitFailsConsumes, ProcessCompletionsConsumes
       DEF WaitFails, ProcessCompletions
  <1> QED BY <1>2, <1>3, <1>4, <1>5, <1>6 DEF Consuming

---------------------------------------------------------------------------
(* The submissions: o gets the next id of its API.                         *)
Names(o, a, i) ==
  /\ Name(o, a, i) /\ UNCHANGED <<ring, polls, cq, cache, orphans, got>>
  /\ \/ /\ a = "owned" /\ i = nextOwned /\ nextOwned' = i + 1
        /\ nextTracked' = nextTracked /\ tracked' = tracked
     \/ /\ a = "borrowed" /\ i = nextTracked /\ nextTracked' = i + 1
        /\ nextOwned' = nextOwned /\ tracked' = tracked \union {i}
  /\ Queue(o, i) \/ UNCHANGED <<kernel, inFlight>>
  /\ \E s \in {"waiting", "failed"} : stage' = [stage EXCEPT ![o] = s]
  /\ reply' \in Replies

LEMMA Submissions ==
  ASSUME NEW o \in Op, SubmitOwned(o) \/ Submit(o) \/ SubmitFails(o)
  PROVE  \E a, i : Names(o, a, i)
  <1>1. CASE SubmitOwned(o)
    <2>1. Names(o, "owned", nextOwned)
      BY <1>1 DEF SubmitOwned, Names, Name, Replies
    <2> QED BY <2>1
  <1>2. CASE Submit(o) \/ SubmitFails(o)
    <2>1. Names(o, "borrowed", nextTracked)
      BY <1>2 DEF Submit, SubmitFails, Register, NextTrackedId, Names, Name, Replies
    <2> QED BY <2>1
  <1> QED BY <1>1, <1>2

LEMMA NamesFacts ==
  ASSUME Always, NEW o \in Op, NEW a, NEW i, Names(o, a, i)
  PROVE  /\ o \notin Submitted /\ Submitted' = Submitted \union {o}
         /\ i \in Id /\ i =< o /\ a \in {"owned", "borrowed"}
         /\ id' \in [Op -> Id \union {0}] /\ api' \in [Op -> {"none", "owned", "borrowed"}]
         /\ stage' \in [Op -> Stages]
         /\ id'[o] = i /\ api'[o] = a /\ stage'[o] \in {"waiting", "failed"}
         /\ \A p \in Op : p # o => id'[p] = id[p] /\ api'[p] = api[p] /\ stage'[p] = stage[p]
         /\ \A p \in 1 .. (o - 1) : p \in Submitted
  <1> USE DEF Always
  <1>1. o \notin Submitted /\ \A p \in 1 .. (o - 1) : p \in Submitted
    BY DEF Names, Name, Fresh
  <1>2. i \in Nat \ {0} /\ i =< o /\ a \in {"owned", "borrowed"}
    BY <1>1 DEF Names, Ids, TypeOK
  <1>3. i \in Id BY <1>2, MaxOpsAssumption DEF Id, Op
  <1>4. PICK s \in {"waiting", "failed"} : stage' = [stage EXCEPT ![o] = s]
    BY DEF Names
  <1>5. id' = [id EXCEPT ![o] = i] /\ api' = [api EXCEPT ![o] = a]
    BY DEF Names, Name
  <1>6. /\ stage' \in [Op -> Stages] /\ stage'[o] \in {"waiting", "failed"}
        /\ \A p \in Op : p # o => stage'[p] = stage[p]
    BY <1>4 DEF TypeOK, Stages
  <1>7. id' \in [Op -> Id \union {0}] /\ api' \in [Op -> {"none", "owned", "borrowed"}]
    BY <1>2, <1>3, <1>5 DEF TypeOK
  <1>8. /\ id'[o] = i /\ api'[o] = a
        /\ \A p \in Op : p # o => id'[p] = id[p] /\ api'[p] = api[p]
    BY <1>5 DEF TypeOK
  <1>9. Submitted' = Submitted \union {o} BY <1>6 DEF Submitted
  <1> QED BY <1>1, <1>2, <1>3, <1>6, <1>7, <1>8, <1>9

LEMMA NamesAlways ==
  ASSUME Always, NEW o \in Op, NEW a, NEW i, Names(o, a, i)
  PROVE  Always'
  <1> USE DEF Always
  <1>1. /\ o \notin Submitted /\ Submitted' = Submitted \union {o}
        /\ i \in Id /\ i =< o /\ a \in {"owned", "borrowed"}
        /\ id' \in [Op -> Id \union {0}] /\ api' \in [Op -> {"none", "owned", "borrowed"}]
        /\ stage' \in [Op -> Stages]
        /\ id'[o] = i /\ api'[o] = a /\ stage'[o] \in {"waiting", "failed"}
        /\ \A p \in Op : p # o => id'[p] = id[p] /\ api'[p] = api[p] /\ stage'[p] = stage[p]
        /\ \A p \in 1 .. (o - 1) : p \in Submitted
    BY NamesFacts
  <1>2. /\ cq' = cq /\ cache' = cache /\ got' = got /\ orphans' = orphans
        /\ ring' = ring /\ polls' = polls
    BY DEF Names
  <1>3. kernel' \in {kernel, kernel \union {o}} /\ inFlight' \subseteq inFlight \union {i}
    BY DEF Names, Queue
  <1>4. nextOwned' \in Nat \ {0} /\ nextTracked' \in Nat \ {0} /\ tracked' \subseteq Id
    <2>1. i \in Nat \ {0} /\ i + 1 \in Nat \ {0} BY <1>1 DEF Id
    <2>2. nextOwned' \in {nextOwned, i + 1} /\ nextTracked' \in {nextTracked, i + 1}
      BY DEF Names
    <2>3. tracked' \subseteq tracked \union {i} BY DEF Names
    <2> QED BY <1>1, <2>1, <2>2, <2>3 DEF TypeOK
  <1>5. reply' \in Replies /\ collided' \in BOOLEAN
    BY DEF Names, Name, TypeOK
  <1>6. TypeOK'
    BY <1>1, <1>2, <1>3, <1>4, <1>5 DEF TypeOK
  <1>7. ASSUME NEW p \in Op, p \notin Submitted'
        PROVE  api'[p] = "none" /\ nextOwned' =< p /\ nextTracked' =< p
    <2>1. p \notin Submitted /\ p # o BY <1>1, <1>7
    <2>2. o < p BY <1>1, <2>1 DEF Op
    <2> QED BY <1>1, <2>1, <2>2 DEF Ids, Names, TypeOK, Op
  <1>8. ASSUME NEW p \in Submitted'
        PROVE  /\ id'[p] \in Id
               /\ \/ api'[p] = "owned" /\ id'[p] < nextOwned'
                  \/ api'[p] = "borrowed" /\ id'[p] < nextTracked'
    <2>1. CASE p = o BY <1>1, <2>1 DEF Names, TypeOK
    <2>2. CASE p # o
      BY <1>1, <1>8, <2>2 DEF Ids, Names, TypeOK, Submitted, Id
    <2> QED BY <2>1, <2>2
  <1>9. ASSUME NEW p \in Submitted, api[p] = a
        PROVE  id[p] # i
    BY <1>1, <1>9 DEF Ids, Names, TypeOK
  <1>10. \A p \in Submitted : p \in Op /\ p # o BY <1>1 DEF Submitted
  <1>11. \A p, q \in Submitted' : api'[p] = api'[q] /\ id'[p] = id'[q] => p = q
    BY <1>1, <1>9, <1>10 DEF Ids
  <1>12. Ids' BY <1>7, <1>8, <1>11 DEF Ids
  <1>13. Places'
    <2>1. Given' = Given /\ CachedOps' = CachedOps /\ ToSet(cq') = ToSet(cq)
      BY <1>2 DEF Given, CachedOps
    <2>2. o \notin ToSet(cq) \union CachedOps \union Given BY <1>1 DEF Places
    <2>3. \A j \in Id : cache'[j] # NoOp => id'[cache'[j]] = j
      <3>1. \A j \in Id : cache[j] # NoOp => cache[j] \in Submitted
        BY DEF Places, CachedOps
      <3> QED BY <1>1, <1>2, <1>10, <3>1 DEF Places
    <2>4. AnswerDeliveredOnce' BY <1>2 DEF Places, AnswerDeliveredOnce
    <2> QED BY <1>1, <1>2, <1>3, <2>1, <2>2, <2>3, <2>4 DEF Places
  <1>14. OrphansDropped'
    BY <1>1, <1>2, <1>10 DEF OrphansDropped
  <1> QED BY <1>6, <1>12, <1>13, <1>14

(* Without a collision the new operation is alone under its id.            *)
LEMMA NamesApart ==
  ASSUME Always, Apart, NEW o \in Op, NEW a, NEW i, Names(o, a, i), ~InUse(i)
  PROVE  Apart'
  <1> USE DEF Always
  <1>1. /\ o \notin Submitted /\ Submitted' = Submitted \union {o}
        /\ i \in Id /\ i =< o /\ a \in {"owned", "borrowed"}
        /\ id'[o] = i /\ api'[o] = a
        /\ \A p \in Op : p # o => id'[p] = id[p] /\ api'[p] = api[p] /\ stage'[p] = stage[p]
    BY NamesFacts
  <1>2. /\ cq' = cq /\ cache' = cache /\ got' = got /\ orphans' = orphans
        /\ ring' = ring
    BY DEF Names
  <1>3. kernel' \in {kernel, kernel \union {o}} BY DEF Names, Queue
  <1>4. \A p \in Submitted : p \in Op /\ p # o BY <1>1 DEF Submitted
  <1>5. Stored' = Stored BY <1>2 DEF Stored, CachedOps
  <1>6. ASSUME NEW p \in Submitted
        PROVE  Underway(p)' <=> Underway(p)
    BY <1>2, <1>3, <1>4, <1>5, UnderwayIs, UnderwayWillBe DEF TypeOK
  <1>7. ASSUME NEW p \in Submitted, api[p] = "borrowed", id[p] \in tracked'
        PROVE  id[p] \in tracked
    BY <1>7 DEF Names, Ids, TypeOK, Id
  <1>8. ASSUME NEW p \in Submitted, Unfinished(p)'
        PROVE  Unfinished(p)
    BY <1>1, <1>2, <1>4, <1>6, <1>7, <1>8 DEF Unfinished, Waiting
  <1>9. \A p \in Submitted : id[p] = i => ~Unfinished(p) BY DEF InUse
  <1>10. ASSUME NEW p \in Submitted', NEW q \in Submitted', id'[p] = id'[q],
                Unfinished(p)', Unfinished(q)'
         PROVE  p = q
    <2>1. CASE p # o /\ q # o
      <3>1. p \in Submitted /\ q \in Submitted BY <1>1, <1>10, <2>1
      <3>2. id[p] = id[q] BY <1>1, <1>4, <1>10, <3>1
      <3> QED BY <1>8, <1>10, <3>1, <3>2 DEF Apart
    <2>2. CASE p = o /\ q # o
      <3>1. q \in Submitted BY <1>1, <1>10, <2>2
      <3>2. id[q] = i BY <1>1, <1>4, <1>10, <2>2, <3>1
      <3> QED BY <1>8, <1>9, <1>10, <3>1, <3>2
    <2>3. CASE p # o /\ q = o
      <3>1. p \in Submitted BY <1>1, <1>10, <2>3
      <3>2. id[p] = i BY <1>1, <1>4, <1>10, <2>3, <3>1
      <3> QED BY <1>8, <1>9, <1>10, <3>1, <3>2
    <2> QED BY <2>1, <2>2, <2>3
  <1>11. ASSUME NEW p \in Submitted', api'[p] = "borrowed", Underway(p)'
         PROVE  id'[p] \in tracked'
    <2>1. tracked \subseteq tracked' BY DEF Names
    <2>2. CASE p = o BY <1>1, <1>11, <2>2 DEF Names
    <2>3. CASE p # o
      <3>1. p \in Submitted /\ Underway(p) BY <1>1, <1>6, <1>11, <2>3
      <3> QED BY <1>1, <1>4, <1>11, <2>1, <3>1 DEF Apart
    <2> QED BY <2>2, <2>3
  <1>12. InFlightExact'
    <2> SUFFICES ASSUME ring = "open"
                 PROVE  inFlight' = {id'[p] : p \in kernel' \union ToSet(cq')}
      BY <1>2 DEF InFlightExact
    <2> DEFINE W == kernel \union ToSet(cq)
    <2>1. inFlight = {id[p] : p \in W} BY DEF Apart, InFlightExact
    <2>2. \A p \in W : id'[p] = id[p] /\ p # o BY <1>1, <1>4 DEF Places
    <2>3. CASE UNCHANGED <<kernel, inFlight>>
      BY <1>2, <2>1, <2>2, <2>3
    <2>4. CASE Queue(o, i)
      <3>1. kernel' \union ToSet(cq') = W \union {o} /\ inFlight' = inFlight \union {i}
        BY <1>2, <2>4 DEF Queue
      <3> HIDE DEF W
      <3> QED BY <1>1, <2>1, <2>2, <3>1
    <2> QED BY <2>3, <2>4 DEF Names
  <1> QED BY <1>2, <1>10, <1>11, <1>12 DEF Apart

LEMMA NamesKeeps ==
  ASSUME SharedInv, NEW o \in Op, SubmitOwned(o) \/ Submit(o) \/ SubmitFails(o)
  PROVE  SharedInv'
  <1>1. PICK a, i : Names(o, a, i) BY Submissions
  <1>2. Always BY DEF SharedInv, Always
  <1>3. Always' BY <1>1, <1>2, NamesAlways
  <1>4. collided' = (collided \/ InUse(i)) BY <1>1 DEF Names, Name
  <1>5. ~collided' => Apart' BY <1>1, <1>2, <1>4, NamesApart DEF SharedInv
  <1> QED BY <1>3, <1>5 DEF SharedInv, Always

---------------------------------------------------------------------------
(* The kernel answers: the answer is queued, unless the Ring is gone.      *)
LEMMA KernelCompleteKeeps ==
  ASSUME SharedInv, NEW o \in Op, KernelComplete(o)
  PROVE  SharedInv'
  <1> USE DEF SharedInv
  <1>1. /\ o \in kernel /\ kernel' = kernel \ {o}
        /\ cq' = IF ring = "open" THEN Append(cq, o) ELSE cq
        /\ UNCHANGED <<ring, nextOwned, nextTracked, polls, api, id, stage,
                 inFlight, cache, tracked, orphans, reply, got, collided>>
    BY DEF KernelComplete
  <1>2. /\ Submitted' = Submitted /\ CachedOps' = CachedOps /\ Given' = Given
    BY <1>1 DEF Submitted, CachedOps, Given
  <1>3. /\ cq' \in Seq(Op) /\ ToSet(cq') \subseteq ToSet(cq) \union {o}
        /\ ring = "open" => ToSet(cq') = ToSet(cq) \union {o}
    BY <1>1, Appended DEF TypeOK
  <1>4. o \in Submitted /\ o \notin ToSet(cq) \union CachedOps \union Given
    BY <1>1 DEF Places
  <1>5. TypeOK' BY <1>1, <1>3 DEF TypeOK
  <1>6. Ids' BY <1>1, <1>2 DEF Ids
  <1>7. OrphansDropped' BY <1>1, <1>2 DEF OrphansDropped
  <1>8. \A k, m \in DOMAIN cq' : cq'[k] = cq'[m] => k = m
    <2>1. CASE ring # "open" BY <1>1, <2>1 DEF Places
    <2>2. CASE ring = "open"
      <3>1. /\ DOMAIN cq' = 1 .. Len(cq) + 1 /\ DOMAIN cq = 1 .. Len(cq)
            /\ \A k \in 1 .. Len(cq) : cq'[k] = cq[k]
            /\ cq'[Len(cq) + 1] = o /\ Len(cq) \in Nat
        BY <1>1, <2>2, Appended DEF TypeOK
      <3>2. \A k \in 1 .. Len(cq) : cq[k] # o BY <1>4, <3>1 DEF ToSet
      <3>3. \A k \in DOMAIN cq' : k \in 1 .. Len(cq) \/ k = Len(cq) + 1 BY <3>1
      <3>4. \A k, m \in 1 .. Len(cq) : cq[k] = cq[m] => k = m BY <3>1 DEF Places
      <3> QED BY <3>1, <3>2, <3>3, <3>4
    <2> QED BY <2>1, <2>2
  <1>9. Places'
    <2>1. AnswerDeliveredOnce' BY <1>1 DEF Places, AnswerDeliveredOnce
    <2>2. \A i \in Id : cache'[i] # NoOp => id'[cache'[i]] = i
      BY <1>1 DEF Places
    <2> QED BY <1>1, <1>2, <1>3, <1>4, <1>8, <2>1, <2>2 DEF Places
  <1>10. ASSUME ~collided' PROVE Apart'
    <2>1. Apart BY <1>1, <1>10
    <2>2. ASSUME NEW p \in Op, Underway(p)' PROVE Underway(p)
      <3>1. p \in kernel' \/ p \in Stored' BY <1>5, <2>2, UnderwayWillBe DEF TypeOK
      <3>2. p \in kernel \/ p \in Stored BY <1>1, <1>2, <1>3, <3>1 DEF Stored
      <3> QED BY <3>2, UnderwayIs
    <2>3. \A p \in Submitted : p \in Op BY DEF Submitted
    <2>4. \A p \in Submitted : Unfinished(p)' => Unfinished(p)
      BY <1>1, <2>2, <2>3 DEF Unfinished, Waiting
    <2>5. \A p, q \in Submitted' :
            id'[p] = id'[q] /\ Unfinished(p)' /\ Unfinished(q)' => p = q
      BY <1>1, <1>2, <2>1, <2>4 DEF Apart
    <2>6. \A p \in Submitted' : api'[p] = "borrowed" /\ Underway(p)' => id'[p] \in tracked'
      BY <1>1, <1>2, <2>1, <2>2, <2>3 DEF Apart
    <2>7. InFlightExact'
      <3>1. ring = "open" => kernel' \union ToSet(cq') = kernel \union ToSet(cq)
        BY <1>1, <1>3
      <3> QED BY <1>1, <2>1, <3>1 DEF Apart, InFlightExact
    <2>8. \A p \in Op : got'[p] \in {NoOp, p} BY <1>1, <2>1 DEF Apart
    <2> QED BY <2>5, <2>6, <2>7, <2>8 DEF Apart
  <1> QED BY <1>5, <1>6, <1>7, <1>9, <1>10

(* Dropping a future hands its buffer to the orphan table.                 *)
LEMMA DropOwnedKeeps ==
  ASSUME SharedInv, NEW o \in Op, DropOwned(o)
  PROVE  SharedInv'
  <1> USE DEF SharedInv
  <1>1. /\ api[o] = "owned" /\ Waiting(o)
        /\ stage' = [stage EXCEPT ![o] = "dropped"]
        /\ orphans' = [orphans EXCEPT ![id[o]] = o]
        /\ UNCHANGED <<ring, nextOwned, nextTracked, polls, api, id, kernel, cq,
                 inFlight, cache, tracked, reply, got, collided>>
    BY DEF DropOwned, UNCHANGED_Submissions
  <1>2. o \in Submitted /\ id[o] \in Id BY <1>1 DEF Waiting, Submitted, Ids
  <1>3. /\ stage' \in [Op -> Stages] /\ stage'[o] = "dropped"
        /\ \A p \in Op : p # o => stage'[p] = stage[p]
    BY <1>1 DEF TypeOK, Stages
  <1>4. /\ orphans' \in [Id -> Op \union {NoOp}] /\ orphans'[id[o]] = o
        /\ \A i \in Id : i # id[o] => orphans'[i] = orphans[i]
    BY <1>1, <1>2 DEF TypeOK
  <1>5. Submitted' = Submitted BY <1>2, <1>3 DEF Submitted
  <1>6. TypeOK' BY <1>1, <1>3, <1>4 DEF TypeOK
  <1>7. Ids' BY <1>1, <1>5 DEF Ids
  <1>8. Places'
    <2>1. CachedOps' = CachedOps /\ Given' = Given BY <1>1 DEF CachedOps, Given
    <2>2. AnswerDeliveredOnce' BY <1>1 DEF Places, AnswerDeliveredOnce
    <2> QED BY <1>1, <1>5, <2>1, <2>2 DEF Places
  <1>9. OrphansDropped'
    <2> SUFFICES ASSUME NEW i \in Id, orphans'[i] # NoOp
                 PROVE  /\ orphans'[i] \in Submitted /\ id[orphans'[i]] = i
                        /\ api[orphans'[i]] = "owned" /\ stage'[orphans'[i]] = "dropped"
      BY <1>1, <1>5 DEF OrphansDropped
    <2>1. CASE i = id[o] BY <1>1, <1>2, <1>3, <1>4, <2>1
    <2>2. CASE i # id[o]
      BY <1>3, <1>4, <2>2 DEF OrphansDropped, Submitted
    <2> QED BY <2>1, <2>2
  <1>10. ASSUME ~collided' PROVE Apart'
    <2>1. Apart BY <1>1, <1>10
    <2>2. \A p \in Op : Underway(p)' <=> Underway(p) BY <1>1 DEF Underway
    <2>3. ASSUME NEW p \in Submitted, Unfinished(p)' PROVE Unfinished(p)
      <3>1. p \in Op /\ id[p] \in Id BY DEF Submitted, Ids
      <3>2. CASE p = o BY <1>1, <3>2 DEF Unfinished
      <3>3. CASE p # o
        BY <1>1, <1>3, <1>4, <2>2, <2>3, <3>1, <3>3 DEF Unfinished, Waiting
      <3> QED BY <3>2, <3>3
    <2>4. \A p, q \in Submitted' :
            id'[p] = id'[q] /\ Unfinished(p)' /\ Unfinished(q)' => p = q
      BY <1>1, <1>5, <2>1, <2>3 DEF Apart
    <2>5. \A p \in Submitted' : api'[p] = "borrowed" /\ Underway(p)' => id'[p] \in tracked'
      BY <1>1, <1>5, <2>1, <2>2 DEF Apart, Submitted
    <2>6. InFlightExact' BY <1>1, <2>1 DEF Apart, InFlightExact
    <2>7. \A p \in Op : got'[p] \in {NoOp, p} BY <1>1, <2>1 DEF Apart
    <2> QED BY <2>4, <2>5, <2>6, <2>7 DEF Apart
  <1> QED BY <1>6, <1>7, <1>8, <1>9, <1>10

(* The Ring ends: what the invariant says of its tables stays as it is.    *)
LEMMA EndKeeps ==
  ASSUME SharedInv, ring' \in {ring, "dropped", "panicked", "crashed"},
         polls' \in 0 .. (BlockAfter + 1), reply' \in Replies,
         UNCHANGED <<nextOwned, nextTracked, api, id, stage, kernel, cq,
                     inFlight, cache, tracked, orphans, got, collided>>
  PROVE  SharedInv'
  <1> USE DEF SharedInv
  <1>1. TypeOK' BY DEF TypeOK
  <1>2. Submitted' = Submitted /\ CachedOps' = CachedOps /\ Given' = Given
    BY DEF Submitted, CachedOps, Given
  <1>3. Ids' BY <1>2 DEF Ids
  <1>4. AnswerDeliveredOnce' BY DEF Places, AnswerDeliveredOnce
  <1>5. Places' BY <1>2, <1>4 DEF Places
  <1>6. OrphansDropped' BY <1>2 DEF OrphansDropped
  <1>7. \A p \in Op : Underway(p)' <=> Underway(p) BY DEF Underway
  <1>8. \A p \in Submitted : Unfinished(p)' => Unfinished(p)
    BY <1>7 DEF Unfinished, Waiting, Submitted
  <1>9. ASSUME Apart PROVE Apart'
    <2>1. \A p, q \in Submitted' :
            id'[p] = id'[q] /\ Unfinished(p)' /\ Unfinished(q)' => p = q
      BY <1>2, <1>8, <1>9 DEF Apart
    <2>2. \A p \in Submitted' : api'[p] = "borrowed" /\ Underway(p)' => id'[p] \in tracked'
      BY <1>2, <1>7, <1>9 DEF Apart, Submitted
    <2>3. InFlightExact' BY <1>9 DEF Apart, InFlightExact
    <2>4. \A p \in Op : got'[p] \in {NoOp, p} BY <1>9 DEF Apart
    <2> QED BY <2>1, <2>2, <2>3, <2>4 DEF Apart
  <1> QED BY <1>1, <1>3, <1>5, <1>6, <1>9

---------------------------------------------------------------------------
LEMMA InitShared == Init => SharedInv
  <1> SUFFICES ASSUME Init PROVE SharedInv OBVIOUS
  <1> USE DEF Init
  <1>1. Submitted = {} /\ CachedOps = {} /\ Given = {}
    BY DEF Submitted, CachedOps, Given
  <1>2. ToSet(cq) = {} /\ cq \in Seq(Op) /\ \A k : k \notin DOMAIN cq
    BY NoEntries
  <1>3. TypeOK
    <2>1. polls \in 0 .. (BlockAfter + 1) /\ cq \in Seq(Op) BY <1>2
    <2>2. stage \in [Op -> Stages] BY DEF Stages
    <2>3. api \in [Op -> {"none", "owned", "borrowed"}] OBVIOUS
    <2>4. id \in [Op -> Id \union {0}] OBVIOUS
    <2>5. got \in [Op -> Op \union {NoOp}] OBVIOUS
    <2>6. /\ cache \in [Id -> Op \union {NoOp}]
          /\ orphans \in [Id -> Op \union {NoOp}]
      OBVIOUS
    <2>7. nextOwned \in Nat \ {0} /\ nextTracked \in Nat \ {0} OBVIOUS
    <2>8. reply \in Replies BY DEF Replies
    <2> HIDE DEF Init
    <2>9. ring = "open" /\ kernel = {} /\ inFlight = {} /\ tracked = {} /\ collided = FALSE
      BY DEF Init
    <2> QED BY <2>1, <2>2, <2>3, <2>4, <2>5, <2>6, <2>7, <2>8, <2>9 DEF TypeOK
  <1>4. Ids BY <1>1, MaxOpsAssumption DEF Ids, Op
  <1>5. Places BY <1>1, <1>2 DEF Places, AnswerDeliveredOnce
  <1>6. OrphansDropped BY DEF OrphansDropped
  <1>7. Apart
    <2>1. InFlightExact BY <1>2 DEF InFlightExact
    <2> QED BY <1>1, <2>1 DEF Apart
  <1> QED BY <1>3, <1>4, <1>5, <1>6, <1>7 DEF SharedInv

LEMMA NextShared ==
  ASSUME SharedInv, [Next]_vars
  PROVE  SharedInv'
  <1>1. Always BY DEF SharedInv, Always
  <1>2. polls \in 0 .. (BlockAfter + 1) /\ reply \in Replies BY DEF SharedInv, TypeOK
  <1>3. CASE Consuming BY <1>1, <1>3, ConsumingStep, ConsumesKeeps
  <1>4. ASSUME NEW o \in Op, SubmitOwned(o) \/ Submit(o) \/ SubmitFails(o)
        PROVE  SharedInv'
    BY <1>4, NamesKeeps
  <1>5. ASSUME NEW o \in Op, KernelComplete(o) PROVE SharedInv'
    BY <1>5, KernelCompleteKeeps
  <1>6. ASSUME NEW o \in Op, DropOwned(o) PROVE SharedInv'
    BY <1>6, DropOwnedKeeps
  <1>7. ASSUME NEW o \in Op, ByIdCrashes(o) PROVE SharedInv'
    <2>1. polls' \in 0 .. (BlockAfter + 1)
      BY <1>2, <1>7, BlockAfterAssumption DEF ByIdCrashes, AskById
    <2> QED BY <1>7, <2>1, EndKeeps DEF ByIdCrashes, Replies
  <1>8. CASE DropRing
    BY <1>2, <1>8, EndKeeps DEF DropRing
  <1>9. CASE UNCHANGED vars
    BY <1>2, <1>9, EndKeeps DEF vars
  <1> QED BY <1>3, <1>4, <1>5, <1>6, <1>7, <1>8, <1>9 DEF Next, Consuming

THEOREM SharedInductive == Spec => []SharedInv
  BY InitShared, NextShared, PTL DEF Spec

(* Every variable keeps its type; what the counters of ids may reach is    *)
(* part of it.                                                             *)
THEOREM TypeCorrect == Spec => []TypeOK
  <1>1. SharedInv => TypeOK BY DEF SharedInv
  <1> QED BY <1>1, SharedInductive, PTL

(* No answer of the kernel is given to two callers, even when ids collide  *)
(* (the polls of core/mod.rs 485 and completion/mod.rs 126, the reports of *)
(* completion/mod.rs 208).                                                 *)
THEOREM DeliveredOnce == Spec => []AnswerDeliveredOnce
  <1>1. SharedInv => AnswerDeliveredOnce BY DEF SharedInv, Places
  <1> QED BY <1>1, SharedInductive, PTL

(* As long as no id is given out that something else still goes by, a      *)
(* caller gets the answer to its own operation.                            *)
THEOREM EachItsOwn == Spec => []OwnAnswer
  <1>1. SharedInv => OwnAnswer BY DEF SharedInv, Apart, OwnAnswer
  <1> QED BY <1>1, SharedInductive, PTL

(* Under the same condition the tracker holds what the kernel works on,    *)
(* and the backend's table exactly what it has not reported.               *)
THEOREM TablesAgree == Spec => []TablesMatchKernel
  <1>1. SharedInv => TablesMatchKernel
    <2> SUFFICES ASSUME SharedInv, ~collided
                 PROVE  TrackedInKernel /\ InFlightExact
      BY DEF TablesMatchKernel
    <2>1. \A o \in kernel : o \in Submitted /\ Underway(o)
      BY DEF SharedInv, Places, Underway
    <2> QED BY <2>1 DEF SharedInv, Apart, TrackedInKernel
  <1> QED BY <1>1, SharedInductive, PTL

---------------------------------------------------------------------------
(* A call that gives a result to a caller of the borrowed API takes the    *)
(* operation off the tracker, poll_operation_completion excepted, whether  *)
(* ids collide or not: operation/tracker.rs forgets it with the answer.    *)
LEMMA ReportedStep ==
  ASSUME Always, [Next]_vars, NEW o \in Op,
         api[o] = "borrowed", got[o] # got'[o], reply' # "polled"
  PROVE  id[o] \notin tracked'
  <1>1. ASSUME NEW p \in Op, ByIdCached(p) \/ ByIdDrains(p) PROVE id[o] \notin tracked'
    <2>1. CASE ByIdCached(p)
      <3>1. got' = [got EXCEPT ![p] = cache[id[p]]] \/ got' = got
        BY <2>1 DEF ByIdCached, Give, Hand
      <3>2. o = p BY <3>1 DEF Always, TypeOK
      <3> QED BY <2>1, <3>2 DEF ByIdCached
    <2>2. CASE ByIdDrains(p)
      <3>1. /\ Answers(id[p]) # {}
            /\ got' = [got EXCEPT ![p] = cq[Min(Answers(id[p]))]]
        BY <2>2 DEF ByIdDrains, Give, Hand
      <3>2. o = p BY <3>1 DEF Always, TypeOK
      <3>3. tracked' = tracked \ {id[p]} BY <2>2, <3>1 DEF ByIdDrains, UntrackAsked
      <3> QED BY <3>2, <3>3
    <2> QED BY <1>1, <2>1, <2>2
  <1>2. ASSUME NEW p \in Op, PollOwned(p) \/ PollOwnedCached(p) PROVE FALSE
    <2>1. api[p] = "owned" /\ (got' = got \/ \E q : got' = [got EXCEPT ![p] = q])
      BY <1>2 DEF PollOwned, PollOwnedCached, Hand
    <2> QED BY <2>1 DEF Always, TypeOK
  <1>3. CASE TryComplete \/ WaitForCompletion
    <2>1. PICK entries \in Seq(Op) : Report(entries) BY <1>3, ReportsTaken
    <2>2. /\ got'[o] \in ToSet(entries) /\ id[got'[o]] = id[o] /\ reply' = "ok"
          /\ \A p \in ToSet(entries) : id[p] \notin tracked'
      BY <2>1, ReportFacts DEF Always
    <2> QED BY <2>2
  <1>4. CASE \E p \in Op : PollById(p) BY <1>4 DEF PollById
  <1>5. CASE \E p \in Op : SubmitOwned(p) \/ Submit(p) \/ SubmitFails(p)
    BY <1>5 DEF SubmitOwned, Submit, SubmitFails, Register, Name
  <1>6. CASE \/ \E p \in Op : KernelComplete(p) \/ DropOwned(p) \/ ByIdCrashes(p)
             \/ WaitFails \/ ProcessCompletions \/ DropRing \/ UNCHANGED vars
    BY <1>6 DEF KernelComplete, DropOwned, ByIdCrashes, WaitFails,
                ProcessCompletions, DropRing, vars
  <1> QED BY <1>1, <1>2, <1>3, <1>4, <1>5, <1>6 DEF Next

THEOREM ReportsUntrack == Spec => ReportedIsUntracked
  <1>1. SharedInv /\ [Next]_vars =>
          [\A o \in Op : api[o] = "borrowed" /\ got[o] # got'[o] /\ reply' # "polled" =>
                           id[o] \notin tracked']_vars
    BY ReportedStep DEF SharedInv, Always
  <1> QED BY <1>1, SharedInductive, PTL DEF Spec, ReportedIsUntracked

---------------------------------------------------------------------------
(* Without a collision an answer that is in the queue is the only one with *)
(* its id there, and none is cached under it.                              *)
LEMMA AloneInQueue ==
  ASSUME Always, Apart, NEW o \in ToSet(cq)
  PROVE  /\ \E k \in DOMAIN cq : cq[k] = o /\ With(cq, id[o]) = {k}
         /\ cache[id[o]] = NoOp /\ id[o] \in Id
  <1> USE DEF Always
  <1>1. \A p \in ToSet(cq) \union CachedOps : p \in Submitted /\ p \in Op /\ Unfinished(p)
    BY UnderwayIs DEF Stored, Places, Submitted, Unfinished
  <1>2. id[o] \in Id BY <1>1 DEF Ids
  <1>3. PICK k \in DOMAIN cq : cq[k] = o BY DEF ToSet
  <1>4. With(cq, id[o]) = {k}
    <2>1. k \in With(cq, id[o]) BY <1>3 DEF With
    <2>2. ASSUME NEW m \in With(cq, id[o]) PROVE m = k
      <3>1. m \in DOMAIN cq /\ id[cq[m]] = id[o] BY DEF With
      <3>2. cq[m] \in ToSet(cq) BY <3>1 DEF ToSet
      <3>3. cq[m] = o BY <1>1, <3>1, <3>2 DEF Apart
      <3> QED BY <1>3, <3>1, <3>3 DEF Places
    <2> QED BY <2>1, <2>2
  <1>5. cache[id[o]] = NoOp
    <2> SUFFICES ASSUME cache[id[o]] # NoOp PROVE FALSE OBVIOUS
    <2>1. cache[id[o]] \in CachedOps /\ id[cache[id[o]]] = id[o]
      BY <1>2 DEF CachedOps, Places
    <2>2. cache[id[o]] = o BY <1>1, <2>1 DEF Apart
    <2> QED BY <2>1, <2>2 DEF Places
  <1> QED BY <1>2, <1>3, <1>4, <1>5

(* A cached answer is cached under its own id; without a collision the     *)
(* queue has none with that id.                                            *)
LEMMA AloneInCache ==
  ASSUME Always, Apart, NEW o \in CachedOps
  PROVE  id[o] \in Id /\ cache[id[o]] = o /\ With(cq, id[o]) = {}
  <1> USE DEF Always
  <1>1. PICK i \in Id : cache[i] = o /\ o # NoOp BY DEF CachedOps
  <1>2. id[o] = i BY <1>1 DEF Places
  <1>3. \A p \in ToSet(cq) : id[p] # id[o]
    <2> SUFFICES ASSUME NEW p \in ToSet(cq), id[p] = id[o] PROVE FALSE OBVIOUS
    <2>1. cache[id[o]] = NoOp BY AloneInQueue
    <2> QED BY <1>1, <1>2, <2>1
  <1>4. With(cq, id[o]) = {} BY <1>3, WithFacts DEF TypeOK
  <1> QED BY <1>1, <1>2, <1>4

(* The poll of an owned future keeps every answer somebody waits for.      *)
LEMMA PollOwnedLosesNone ==
  ASSUME Always, Apart, NEW p \in Op, PollOwned(p),
         NEW o \in Stored, Waiting(o), Waiting(o)'
  PROVE  o \in Stored'
  <1> USE DEF Always
  <1>1. /\ \A i \in Id : cache'[i] = IF i = id[p] \/ With(cq, i) = {} THEN cache[i]
                                     ELSE NewestKept(i)
        /\ cache[id[p]] = NoOp /\ Waiting(p)
    BY DEF PollOwned
  <1>2. o \in Op /\ o # NoOp BY NoOpAssumption DEF Stored, Places, Submitted, Op
  <1>3. ASSUME NEW i \in Id, cache'[i] = o PROVE o \in Stored'
    BY <1>2, <1>3 DEF Stored, CachedOps
  <1>4. CASE o \in CachedOps
    <2>1. id[o] \in Id /\ cache[id[o]] = o /\ With(cq, id[o]) = {}
      BY <1>4, AloneInCache
    <2> QED BY <1>1, <1>3, <2>1
  <1>5. CASE o \in ToSet(cq)
    <2>1. PICK k \in DOMAIN cq : cq[k] = o /\ With(cq, id[o]) = {k} BY <1>5, AloneInQueue
    <2>2. id[o] \in Id BY <1>5, AloneInQueue
    <2>3. o \in Submitted /\ Unfinished(o)
      BY <1>2 DEF Submitted, Waiting, Unfinished
    <2>4. orphans[id[o]] = NoOp
      <3> SUFFICES ASSUME orphans[id[o]] # NoOp PROVE FALSE OBVIOUS
      <3> DEFINE r == orphans[id[o]]
      <3>1. r \in Submitted /\ id[r] = id[o] /\ stage[r] = "dropped"
        BY <2>2 DEF OrphansDropped
      <3>2. Unfinished(r) BY <3>1 DEF Unfinished
      <3>3. r = o BY <2>3, <3>1, <3>2 DEF Apart
      <3> QED BY <3>1, <3>3 DEF Waiting
    <2>5. Kept(id[o]) = {k} BY <2>1, <2>4 DEF Kept
    <2>6. Max({k}) = k
      <3>1. {k} \in SUBSET With(cq, id[o]) BY <2>1
      <3> QED BY <3>1, WithFacts DEF TypeOK
    <2>7. NewestKept(id[o]) = o BY <2>1, <2>5, <2>6 DEF NewestKept
    <2>8. CASE id[o] = id[p]
      <3>1. p \in Submitted /\ Unfinished(p) BY <1>1 DEF Submitted, Waiting, Unfinished
      <3>2. o = p BY <2>3, <2>8, <3>1 DEF Apart
      <3>3. Hand(o, o) BY <1>2, <2>7, <3>2 DEF PollOwned
      <3>4. stage'[o] = "done" BY <1>2, <3>3 DEF Hand, TypeOK
      <3> QED BY <3>4 DEF Waiting
    <2>9. CASE id[o] # id[p] BY <1>1, <1>3, <2>1, <2>2, <2>7, <2>9
    <2> QED BY <2>8, <2>9
  <1> QED BY <1>4, <1>5 DEF Stored

(* Nor does the poll of a future of the borrowed API lose one.             *)
LEMMA ByIdLosesNone ==
  ASSUME Always, Apart, NEW p \in Op, ByIdCached(p) \/ ByIdDrains(p),
         NEW o \in Stored, Waiting(o), Waiting(o)'
  PROVE  o \in Stored'
  <1> USE DEF Always
  <1>1. o \in Op /\ o # NoOp /\ o \in Submitted
    BY NoOpAssumption DEF Stored, Places, Submitted, Op
  <1>2. api[o] = "borrowed"
    BY <1>1 DEF ByIdCached, ByIdDrains, AskById, Exclusive, Ids
  <1>3. api[p] = "borrowed" /\ p \in Submitted
    BY AskedId DEF ByIdCached, ByIdDrains, AskById
  <1>4. id[o] = id[p] => o = p BY <1>1, <1>2, <1>3 DEF Ids
  <1>5. \A q : Give(o, q) => ~Waiting(o)'
    BY <1>1 DEF Give, Hand, TypeOK, Waiting
  <1>6. ASSUME NEW i \in Id, cache'[i] = o PROVE o \in Stored'
    BY <1>1, <1>6 DEF Stored, CachedOps
  <1>7. CASE ByIdCached(p)
    <2>1. id[o] # id[p] BY <1>4, <1>5, <1>7 DEF ByIdCached
    <2>2. cache' = [cache EXCEPT ![id[p]] = NoOp] /\ cq' = cq BY <1>7 DEF ByIdCached
    <2>3. CASE o \in CachedOps
      <3>1. id[o] \in Id /\ cache[id[o]] = o BY <2>3, AloneInCache
      <3>2. cache'[id[o]] = o BY <2>1, <2>2, <3>1 DEF TypeOK
      <3> QED BY <1>6, <3>1, <3>2
    <2>4. CASE o \in ToSet(cq) BY <2>2, <2>4 DEF Stored
    <2> QED BY <2>3, <2>4 DEF Stored
  <1>8. CASE ByIdDrains(p)
    <2>1. /\ cache[id[p]] = NoOp
          /\ \A i \in Id : cache'[i] = IF i = id[p] \/ Answers(i) = {} THEN cache[i]
                                       ELSE cq[Max(Answers(i))]
          /\ Answers(id[p]) # {} => Give(p, cq[Min(Answers(id[p]))])
      BY <1>8 DEF ByIdDrains, CacheOthers
    <2>2. CASE o \in CachedOps
      <3>1. id[o] \in Id /\ cache[id[o]] = o /\ Answers(id[o]) = {}
        BY <2>2, AloneInCache DEF Answers
      <3> QED BY <1>6, <2>1, <3>1
    <2>3. CASE o \in ToSet(cq)
      <3>1. PICK k \in DOMAIN cq : cq[k] = o /\ With(cq, id[o]) = {k} BY <2>3, AloneInQueue
      <3>2. id[o] \in Id BY <2>3, AloneInQueue
      <3>3. Underway(o) BY <1>1, UnderwayIs
      <3>4. Answers(id[o]) = {k} BY <1>1, <1>2, <3>1, <3>3 DEF Answers, Apart
      <3>5. id[o] # id[p] BY <1>4, <1>5, <2>1, <3>4
      <3>6. Max({k}) = k
        <4>1. {k} \in SUBSET With(cq, id[o]) BY <3>1
        <4> QED BY <4>1, WithFacts DEF TypeOK
      <3> QED BY <1>6, <2>1, <3>1, <3>2, <3>4, <3>5, <3>6
    <2> QED BY <2>2, <2>3 DEF Stored
  <1> QED BY <1>7, <1>8

(* Nor a call that reports and returns Ok.                                 *)
LEMMA ReportLosesNone ==
  ASSUME Always, TryComplete \/ WaitForCompletion, reply' # "error",
         NEW o \in Stored, Waiting(o), Waiting(o)'
  PROVE  o \in Stored'
  <1>1. PICK entries \in Seq(Op) : Report(entries) /\ ToSet(entries) = Stored \ Stored'
    BY ReportsTaken
  <1>2. o \in Op /\ o \in Submitted BY DEF Always, Stored, Places, Submitted
  <1>3. api[o] = "borrowed"
    BY <1>2 DEF Always, TryComplete, WaitForCompletion, MayWait, Exclusive, Ids
  <1>4. reply' = "ok" BY <1>1, ReportFacts DEF Always
  <1>5. o \notin ToSet(entries)
    BY <1>1, <1>2, <1>3, <1>4, ReportFacts DEF Always
  <1> QED BY <1>1, <1>5

(* The steps that take no answer out of the queue or the cache.            *)
LEMMA OthersLoseNone ==
  ASSUME SharedInv, NEW o \in Op, ring' = "open", reply' # "error",
         Waiting(o) => Underway(o), Waiting(o)',
         \/ \E p \in Op : \/ SubmitOwned(p) \/ Submit(p) \/ SubmitFails(p)
                          \/ KernelComplete(p) \/ DropOwned(p) \/ ByIdCrashes(p)
         \/ DropRing \/ UNCHANGED vars
  PROVE  Underway(o)'
  <1> USE DEF SharedInv
  <1>1. Always BY DEF Always
  <1>2. CASE \E p \in Op : SubmitOwned(p) \/ Submit(p) \/ SubmitFails(p)
    <2>1. PICK p \in Op : SubmitOwned(p) \/ Submit(p) \/ SubmitFails(p) BY <1>2
    <2>2. PICK a, i : Names(p, a, i) BY <2>1, Submissions
    <2>3. \A q \in Op : q # p => stage'[q] = stage[q] BY <1>1, <2>2, NamesFacts
    <2>4. kernel \subseteq kernel' /\ cq' = cq /\ cache' = cache
      BY <2>2 DEF Names, Queue
    <2>5. CASE o = p
      <3>1. SubmitOwned(p) \/ Submit(p) BY <2>1 DEF SubmitFails
      <3>2. o \in kernel' BY <2>5, <3>1 DEF SubmitOwned, Submit, Queue
      <3> QED BY <3>2 DEF Underway
    <2>6. CASE o # p
      <3>1. Underway(o) BY <2>3, <2>6 DEF Waiting
      <3> QED BY <2>4, <3>1 DEF Underway
    <2> QED BY <2>5, <2>6
  <1>3. CASE \E p \in Op : KernelComplete(p)
    <2>1. PICK p \in Op : KernelComplete(p) BY <1>3
    <2>2. /\ kernel' = kernel \ {p} /\ cq' = Append(cq, p) /\ cache' = cache
          /\ stage' = stage
      BY <2>1 DEF KernelComplete
    <2>3. ToSet(cq') = ToSet(cq) \union {p} BY <2>2, Appended DEF TypeOK
    <2>4. Underway(o) BY <2>2 DEF Waiting
    <2> QED BY <2>2, <2>3, <2>4 DEF Underway
  <1>4. CASE \E p \in Op : DropOwned(p)
    <2>1. PICK p \in Op : DropOwned(p) BY <1>4
    <2>2. /\ stage' = [stage EXCEPT ![p] = "dropped"]
          /\ kernel' = kernel /\ cq' = cq /\ cache' = cache
      BY <2>1 DEF DropOwned, UNCHANGED_Submissions
    <2>3. Waiting(o) BY <2>2 DEF Waiting, TypeOK
    <2> QED BY <2>2, <2>3 DEF Underway
  <1>5. CASE \E p \in Op : ByIdCrashes(p) BY <1>5 DEF ByIdCrashes
  <1>6. CASE DropRing BY <1>6 DEF DropRing
  <1>7. CASE UNCHANGED vars BY <1>7 DEF vars, Waiting, Underway
  <1> QED BY <1>2, <1>3, <1>4, <1>5, <1>6, <1>7

LEMMA LossStep ==
  ASSUME SharedInv, [Next]_vars, NEW o \in Op,
         ring' = "open", ~Lost(o), Lost(o)', ~collided'
  PROVE  reply' \in {"error", "idle", "polled"}
  <1>1. Always BY DEF SharedInv, Always
  <1>2. /\ Waiting(o)' /\ ~Underway(o)'
        /\ Waiting(o) => Underway(o)
    BY DEF Lost
  <1>3. CASE Consuming
    <2>1. Consumes BY <1>1, <1>3, ConsumingStep
    <2>2. Apart
      BY <2>1 DEF SharedInv, Consumes, UNCHANGED_Submissions
    <2>3. Waiting(o) BY <1>1, <1>2, <2>1, ConsumesSubmitted
    <2>4. kernel' = kernel /\ cache' \in [Id -> Op \union {NoOp}]
      BY <2>1 DEF Consumes, Moves, UNCHANGED_Submissions
    <2>5. o \in Stored /\ o \notin Stored'
      BY <1>1, <1>2, <2>3, <2>4, UnderwayIs, UnderwayWillBe DEF Always
    <2>6. ASSUME NEW p \in Op, PollOwned(p) PROVE FALSE
      BY <1>1, <1>2, <2>2, <2>3, <2>5, <2>6, PollOwnedLosesNone
    <2>7. ASSUME NEW p \in Op, ByIdCached(p) \/ ByIdDrains(p) PROVE FALSE
      BY <1>1, <1>2, <2>2, <2>3, <2>5, <2>7, ByIdLosesNone
    <2>8. ASSUME NEW p \in Op, PollOwnedCached(p) PROVE FALSE
      <3>1. /\ cq' = cq /\ cache' = [cache EXCEPT ![id[p]] = NoOp]
            /\ Waiting(p) /\ Hand(p, cache[id[p]])
        BY <2>8 DEF PollOwnedCached
      <3>2. o \in CachedOps BY <2>5, <3>1 DEF Stored
      <3>3. id[o] \in Id /\ cache[id[o]] = o BY <1>1, <2>2, <3>2, AloneInCache
      <3>4. CASE id[o] # id[p]
        <4>1. cache'[id[o]] = o BY <1>1, <3>1, <3>3, <3>4 DEF Always, TypeOK
        <4> QED BY <2>5, <3>3, <4>1, NoOpAssumption DEF Stored, CachedOps, Op
      <3>5. CASE id[o] = id[p]
        <4>1. o \in Submitted /\ p \in Submitted /\ Unfinished(o) /\ Unfinished(p)
          BY <2>3, <3>1 DEF Submitted, Waiting, Unfinished
        <4>2. o = p BY <2>2, <3>5, <4>1 DEF Apart
        <4> QED BY <1>1, <1>2, <3>1, <4>2 DEF Hand, Waiting, Always, TypeOK
      <3> QED BY <3>4, <3>5
    <2>9. CASE TryComplete \/ WaitForCompletion
      BY <1>1, <1>2, <2>3, <2>5, <2>9, ReportLosesNone
    <2>10. CASE ProcessCompletions
      <3>1. Stored' = Stored BY <2>10 DEF ProcessCompletions, Stored, CachedOps
      <3> QED BY <2>5, <3>1
    <2>11. CASE WaitFails BY <2>11 DEF WaitFails
    <2>12. CASE \E p \in Op : PollById(p) BY <2>12 DEF PollById
    <2> QED BY <1>3, <2>6, <2>7, <2>8, <2>9, <2>10, <2>11, <2>12 DEF Consuming
  <1>4. CASE \/ \E p \in Op : \/ SubmitOwned(p) \/ Submit(p) \/ SubmitFails(p)
                              \/ KernelComplete(p) \/ DropOwned(p) \/ ByIdCrashes(p)
             \/ DropRing \/ UNCHANGED vars
    BY <1>2, <1>4, OthersLoseNone
  <1> QED BY <1>3, <1>4 DEF Next, Consuming

(* Without a collision an answer that a caller waits for is thrown away    *)
(* only by a call that returns an error, or by poll_operation_completion   *)
(* (utility.rs 54), which drops what it was not asked for.                 *)
THEOREM LossesReported == Spec => LossReported
  <1>1. SharedInv /\ [Next]_vars =>
          [\A o \in Op : ring' = "open" /\ ~Lost(o) /\ Lost(o)' /\ ~collided' =>
                           reply' \in {"error", "idle", "polled"}]_vars
    BY LossStep
  <1> QED BY <1>1, SharedInductive, PTL DEF Spec, LossReported
=============================================================================
