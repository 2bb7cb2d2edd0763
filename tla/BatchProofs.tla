----------------------------- MODULE BatchProofs -----------------------------
(***************************************************************************)
(* Proofs about Batch, for any number of batches of any size: every        *)
(* property that TLC checks on a small instance. BatchInv is inductive. It *)
(* says where the answer of an operation can be, that what is in the       *)
(* kernel or on its way is tracked, and what the slots of a future hold.   *)
(***************************************************************************)
EXTENDS Batch, FiniteSetTheorems, WellFoundedInduction, TLAPS

Stages == {"built", "pending", "refused", "error", "stopped", "resolved", "dropped"}
Outcomes == {"none", "success", "error"}
Slots == Outcomes \union {"cancelled"}

TypeOK ==
  /\ ring \in {"open", "dropped", "panicked"}
  /\ holder \in Batches \union {NoBatch}
  /\ stage \in [Batches -> Stages]
  /\ failFast \in [Batches -> BOOLEAN]
  /\ kernel \subseteq Op /\ cache \subseteq Op /\ tracked \subseteq Op
  /\ cq \in Seq(Op \union {Orphan})
  /\ outcome \in [Op -> Outcomes]
  /\ DOMAIN result = Batches
  /\ \A b \in Batches : result[b] \in [Index(b) -> Slots]
  /\ orphan \in {"none", "kernel", "answered"}
  /\ IsFiniteSet(cache)

(* Where an answer is: nowhere twice, and none for a batch that is not     *)
(* submitted.                                                              *)
Places ==
  /\ kernel \intersect ToSet(cq) = {} /\ kernel \intersect cache = {}
  /\ ToSet(cq) \intersect cache = {}
  /\ \A o \in kernel : outcome[o] = "none"
  /\ \A o \in (ToSet(cq) \ {Orphan}) \union cache : outcome[o] # "none"
  /\ \A b \in Batches : stage[b] = "built" =>
       \A o \in Ops(b) : ~Underway(o) /\ outcome[o] = "none"
  /\ Orphan \in ToSet(cq) => orphan = "answered"

(* What will be answered, or was and not reported, is tracked.             *)
Tracking == kernel \union (ToSet(cq) \ {Orphan}) \union cache \subseteq tracked

(* What the slots of a future hold.                                        *)
Filled ==
  \A b \in Batches :
    /\ stage[b] = "built" => \A i \in Index(b) : result[b][i] = "none"
    /\ \A i \in Index(b) :
         /\ result[b][i] \in {"success", "error"} => result[b][i] = outcome[<<b, i>>]
         /\ result[b][i] = "cancelled" =>
              \/ stage[b] = "dropped"
              \/ failFast[b] /\ \E j \in Index(b) : result[b][j] = "error"
    /\ stage[b] \in {"stopped", "resolved"} => Full(result[b])

(* An answer that is in a slot is not on its way any more.                 *)
Delivered ==
  \A b \in Batches : \A i \in Index(b) :
    result[b][i] \in {"success", "error"} => ~Underway(<<b, i>>)

BatchInv ==
  /\ TypeOK /\ Places /\ Tracking /\ Filled /\ Delivered
  /\ NothingMissed /\ QuietDropIsIdle

---------------------------------------------------------------------------
(* Every non-empty set of numbers has a least one.                         *)
LEMMA LeastNumber ==
  ASSUME NEW T \in SUBSET Nat, T # {}
  PROVE  Min(T) \in T
  <1> DEFINE R == OpToRel(<, Nat)
  <1>1. IsWellFoundedOn(R, Nat) BY NatLessThanWellFounded
  <1>2. \A i, j \in Nat : i < j => <<i, j>> \in R BY DEF OpToRel
  <1> HIDE DEF R
  <1>3. PICK i \in T : \A j \in T : ~ (<<j, i>> \in R) BY <1>1, WFMin
  <1>4. \A j \in T : i =< j
    <2> SUFFICES ASSUME NEW j \in T PROVE i =< j OBVIOUS
    <2>1. ~ (j < i) BY <1>2, <1>3
    <2> QED BY <2>1
  <1> QED BY <1>4 DEF Min

(* The elements of a sequence are finitely many elements of its set.       *)
LEMMA Elements ==
  ASSUME NEW S, NEW s \in Seq(S)
  PROVE  ToSet(s) \subseteq S /\ IsFiniteSet(ToSet(s))
  <1>1. s \in [1 .. Len(s) -> ToSet(s)] /\ Len(s) \in Nat BY DEF ToSet
  <1>2. s \in Surjection(1 .. Len(s), ToSet(s)) BY <1>1 DEF Surjection, ToSet
  <1>3. IsFiniteSet(1 .. Len(s)) BY <1>1, FS_Interval
  <1> QED BY <1>2, <1>3, FS_Surjection DEF ToSet

(* Append adds one element, and the empty sequence has none.               *)
LEMMA Appended ==
  ASSUME NEW S, NEW s \in Seq(S), NEW e \in S
  PROVE  /\ Append(s, e) \in Seq(S)
         /\ ToSet(Append(s, e)) = ToSet(s) \union {e}
         /\ ToSet(<<>>) = {}
  <1>1. /\ Append(s, e) \in Seq(S)
        /\ Len(s) \in Nat /\ Len(Append(s, e)) = Len(s) + 1
        /\ Append(s, e)[Len(s) + 1] = e
        /\ \A k \in 1 .. Len(s) : Append(s, e)[k] = s[k]
    OBVIOUS
  <1>2. DOMAIN s = 1 .. Len(s) /\ DOMAIN Append(s, e) = 1 .. Len(s) + 1
    BY <1>1
  <1>3. ToSet(Append(s, e)) = ToSet(s) \union {e}
    BY <1>1, <1>2 DEF ToSet
  <1> QED BY <1>1, <1>3 DEF ToSet

(* An arrangement of a finite set holds all of it.                         *)
LEMMA Arranged ==
  ASSUME NEW S, IsFiniteSet(S), NEW s \in SetToSeqs(S)
  PROVE  s \in Seq(S) /\ ToSet(s) = S
  <1> DEFINE n == Cardinality(S)
  <1>1. n \in Nat BY FS_CardinalityType
  <1>2. s \in Injection(1 .. n, S) BY DEF SetToSeqs, Injection, IsInjective
  <1>3. Cardinality(1 .. n) = n BY <1>1, FS_Interval
  <1>4. s \in Surjection(1 .. n, S) BY <1>2, <1>3, FS_Injection
  <1>5. s \in [1 .. n -> S] BY <1>2 DEF Injection
  <1> HIDE DEF n
  <1>6. s \in Seq(S) /\ Len(s) = n BY <1>1, <1>5
  <1>7. ToSet(s) = S BY <1>4, <1>5 DEF Surjection, ToSet
  <1> QED BY <1>6, <1>7

(* An operation is one of the operations of one batch, and no orphan.      *)
LEMMA OpFacts ==
  /\ \A b \in Batches : Index(b) \subseteq Nat /\ Ops(b) \subseteq Op
  /\ \A b \in Batches, i \in Nat : i \in Index(b) => <<b, i>> \in Ops(b) /\ <<b, i>> \in Op
  /\ \A b \in Batches : \A o \in Ops(b) : \E i \in Index(b) : o = <<b, i>>
  /\ \A o \in Op : \E b \in Batches, i \in Nat : i \in Index(b) /\ o = <<b, i>>
  /\ \A b, c \in Batches, i, j \in Nat : <<b, i>> = <<c, j>> => b = c /\ i = j
  /\ Orphan \notin Op
  <1>1. \A b \in Batches : Size[b] \in Nat BY SizeAssumption
  <1>2. \A b \in Batches : Index(b) \subseteq Nat BY <1>1 DEF Index
  <1> QED BY <1>2, NamesAssumption DEF Ops, Op

---------------------------------------------------------------------------
(* Known says that all ids are tracked; of what is taken, only tracked ids *)
(* are reported.                                                           *)
LEMMA KnownIs ==
  ASSUME NEW S, NEW entries \in Seq(S)
  PROVE  /\ Known(entries) <=> ToSet(entries) \subseteq tracked
         /\ Known(entries) => Reported(entries) = ToSet(entries)
         /\ Reported(entries) \subseteq ToSet(entries)
  <1> DEFINE I == {i \in 1 .. Len(entries) : entries[i] \notin tracked}
             k == SelectInSeq(entries, LAMBDA o : o \notin tracked)
  <1>0. Len(entries) \in Nat /\ DOMAIN entries = 1 .. Len(entries) OBVIOUS
  <1>1. k = IF I # {} THEN Min(I) ELSE 0 BY DEF SelectInSeq
  <1>2. I # {} => Min(I) \in I
    <2>1. I \in SUBSET Nat BY <1>0
    <2> QED BY <2>1, LeastNumber
  <1>3. k \in 0 .. Len(entries) BY <1>0, <1>1, <1>2
  <1>4. k = 0 <=> I = {} BY <1>0, <1>1, <1>2
  <1>5. I = {} <=> ToSet(entries) \subseteq tracked BY <1>0 DEF ToSet
  <1> HIDE DEF I
  <1>6. k # 0 => ToSet(SubSeq(entries, 1, k - 1)) \subseteq ToSet(entries)
    <2> SUFFICES ASSUME k # 0 PROVE ToSet(SubSeq(entries, 1, k - 1)) \subseteq ToSet(entries)
      OBVIOUS
    <2> HIDE DEF k
    <2> DEFINE t == SubSeq(entries, 1, k - 1)
    <2>1. Len(t) = k - 1 /\ DOMAIN t = 1 .. k - 1 /\ \A j \in 1 .. k - 1 : t[j] = entries[j]
      BY <1>0, <1>3
    <2>2. \A j \in 1 .. k - 1 : j \in DOMAIN entries BY <1>0, <1>3
    <2> QED BY <2>1, <2>2 DEF ToSet
  <1>7. Known(entries) <=> k = 0 BY DEF Known
  <1>8. Reported(entries) = IF Known(entries) THEN ToSet(entries)
                            ELSE ToSet(SubSeq(entries, 1, k - 1))
    BY DEF Reported
  <1> QED BY <1>4, <1>5, <1>6, <1>7, <1>8

(* What try_complete does: all of the cache or else all of the backend is  *)
(* taken, and nothing but that ceases to be tracked.                       *)
LEMMA TakeStep ==
  ASSUME TypeOK, Places, Tracking,
         NEW entries \in SetToSeqs(cache) \union {cq}, Take(entries)
  PROVE  /\ entries \in Seq(Op \union {Orphan})
         /\ ToSet(entries) \subseteq cache \union ToSet(cq)
         /\ \A o \in cache \union ToSet(cq) : o \in ToSet(entries) \/ o \in cache' \/ o \in ToSet(cq')
         /\ cache' \subseteq cache /\ ToSet(cq') \subseteq ToSet(cq)
         /\ cache' \intersect ToSet(entries) = {} /\ ToSet(cq') \intersect ToSet(entries) = {}
         /\ cq' \in Seq(Op \union {Orphan}) /\ IsFiniteSet(cache')
         /\ tracked' \subseteq tracked
         /\ \A o \in tracked : o \in tracked' \/ o \in ToSet(entries)
         /\ Known(entries) \/ Orphan \in ToSet(cq)
  <1>1. CASE cache # {} /\ entries \in SetToSeqs(cache) /\ cache' = {} /\ cq' = cq
    <2>1. entries \in Seq(cache) /\ ToSet(entries) = cache BY <1>1, Arranged DEF TypeOK
    <2>2. entries \in Seq(Op \union {Orphan}) BY <2>1 DEF TypeOK
    <2>3. Known(entries) /\ Reported(entries) = cache BY <2>1, KnownIs DEF Tracking
    <2>4. tracked' = tracked \ cache BY <2>3 DEF Take
    <2> QED BY <1>1, <2>1, <2>2, <2>3, <2>4, FS_EmptySet DEF TypeOK, Places
  <1>2. CASE cache = {} /\ entries = cq /\ cq' = <<>> /\ cache' = cache
    <2>1. /\ cq \in Seq(Op \union {Orphan})
          /\ Known(cq) <=> ToSet(cq) \subseteq tracked
          /\ Reported(cq) \subseteq ToSet(cq)
      BY KnownIs DEF TypeOK
    <2>2. Known(cq) \/ Orphan \in ToSet(cq) BY <2>1 DEF Tracking
    <2>3. ToSet(<<>>) = {} /\ <<>> \in Seq(Op \union {Orphan}) BY DEF ToSet
    <2>4. tracked' = tracked \ Reported(cq) BY <1>2 DEF Take
    <2> QED BY <1>2, <2>1, <2>2, <2>3, <2>4 DEF TypeOK
  <1> QED BY <1>1, <1>2 DEF Take, DrainBackend

(* What a poll that reports results leaves in the slots: what they held,   *)
(* what it was given, and cancellations where the code makes them.         *)
LEMMA AnsweredStep ==
  ASSUME TypeOK, NEW b \in Batches, NEW slots \in [Index(b) -> Slots], Answered(b, slots)
  PROVE  \E s \in [Index(b) -> Slots], st \in {"stopped", "resolved", "pending"} :
           /\ result' = [result EXCEPT ![b] = s]
           /\ stage' = [stage EXCEPT ![b] = st]
           /\ st # "pending" => Full(s)
           /\ \A i \in Index(b) :
                /\ slots[i] # "none" => s[i] = slots[i]
                /\ slots[i] = "none" /\ s[i] # "none" =>
                     s[i] = "cancelled" /\ failFast[b] /\ \E j \in Index(b) : slots[j] = "error"
  <1>1. CASE FailsFast(b, slots)
    <2> DEFINE s == CancelAll(b, slots)
    <2>1. s \in [Index(b) -> Slots] /\ Full(s) BY DEF CancelAll, Full, Slots, Outcomes
    <2>2. failFast[b] /\ \E j \in Index(b) : slots[j] = "error"
      BY <1>1 DEF FailsFast, Progress
    <2>3. result' = [result EXCEPT ![b] = s] /\ stage' = [stage EXCEPT ![b] = "stopped"]
      BY <1>1 DEF Answered
    <2>4. \A i \in Index(b) : s[i] = IF slots[i] = "none" THEN "cancelled" ELSE slots[i]
      BY DEF CancelAll
    <2> HIDE DEF s
    <2> QED BY <2>1, <2>2, <2>3, <2>4
  <1>2. CASE ~FailsFast(b, slots)
    <2>1. /\ result' = [result EXCEPT ![b] = slots]
          /\ stage' = [stage EXCEPT ![b] = IF Full(slots) THEN "resolved" ELSE "pending"]
      BY <1>2 DEF Answered
    <2> QED BY <2>1, Zenon
  <1> QED BY <1>1, <1>2

(* A fresh answer is put into an empty slot, and what is there stays.      *)
LEMMA FillStep ==
  ASSUME TypeOK, Places, NEW b \in Batches, NEW entries,
         ToSet(entries) \subseteq cache \union ToSet(cq)
  PROVE  /\ Fill(b, entries) \in [Index(b) -> Slots]
         /\ \A i \in Index(b) :
              /\ result[b][i] # "none" => Fill(b, entries)[i] = result[b][i]
              /\ result[b][i] = "none" /\ <<b, i>> \in ToSet(entries) =>
                   /\ Fill(b, entries)[i] = outcome[<<b, i>>]
                   /\ outcome[<<b, i>>] \in {"success", "error"}
              /\ result[b][i] = "none" /\ <<b, i>> \notin ToSet(entries) =>
                   Fill(b, entries)[i] = "none"
  <1>1. ASSUME NEW i \in Index(b)
        PROVE  /\ result[b][i] \in Slots
               /\ outcome[<<b, i>>] \in Slots
               /\ <<b, i>> \in ToSet(entries) => outcome[<<b, i>>] \in {"success", "error"}
    <2>1. <<b, i>> \in Op /\ <<b, i>> # Orphan BY OpFacts
    <2>2. result[b] \in [Index(b) -> Slots] /\ outcome \in [Op -> Outcomes] BY DEF TypeOK
    <2>3. <<b, i>> \in ToSet(entries) => outcome[<<b, i>>] # "none" BY <2>1 DEF Places
    <2> QED BY <2>1, <2>2, <2>3 DEF Slots, Outcomes
  <1> QED BY <1>1 DEF Fill

---------------------------------------------------------------------------
(* The initial states satisfy the invariant.                               *)
LEMMA InitHolds == Init => BatchInv
  <1> SUFFICES ASSUME Init PROVE BatchInv OBVIOUS
  <1>1. TypeOK
    BY FS_EmptySet DEF Init, TypeOK, Stages, Outcomes, Slots
  <1>2. ToSet(cq) = {} BY DEF Init, ToSet
  <1>3. Places /\ Tracking
    BY <1>2, OpFacts DEF Init, Places, Tracking, Underway
  <1>4. Filled /\ Delivered /\ NothingMissed /\ QuietDropIsIdle
    BY DEF Init, Filled, Delivered, NothingMissed, QuietDropIsIdle
  <1> QED BY <1>1, <1>3, <1>4 DEF BatchInv

(* The types.                                                              *)
LEMMA TypeStep == BatchInv /\ [Next]_vars => TypeOK'
  <1> SUFFICES ASSUME TypeOK, Places, Tracking, [Next]_vars PROVE TypeOK'
    BY DEF BatchInv
  <1>1. ASSUME NEW b \in Batches, NEW standalone \in BOOLEAN, NEW ff \in BOOLEAN,
               NEW ds \in Dependencies(b), Submit(b, standalone, ff, ds)
        PROVE  TypeOK'
    BY <1>1, OpFacts DEF Submit, Borrow, TypeOK, Stages
  <1>2. ASSUME NEW b \in Batches, NEW standalone \in BOOLEAN, NEW k \in 0 .. Size[b],
               SubmitFails(b, standalone, k)
        PROVE  TypeOK'
    <2>1. Size[b] \in Nat BY SizeAssumption
    <2>2. {<<b, i>> : i \in 1 .. k} \subseteq Op /\ {<<b, i>> : i \in 1 .. (k - 1)} \subseteq Op
      BY <2>1, OpFacts DEF Index
    <2> QED BY <1>2, <2>2 DEF SubmitFails, Borrow, TypeOK, Stages
  <1>3. ASSUME NEW b \in Batches, PollBatch(b) PROVE TypeOK'
    <2>1. PICK entries \in SetToSeqs(cache) \union {cq} :
            Take(entries) /\ Known(entries) /\ Answered(b, Fill(b, entries))
      BY <1>3 DEF PollBatch
    <2>2. Fill(b, entries) \in [Index(b) -> Slots] BY <2>1, TakeStep, FillStep
    <2>3. PICK s \in [Index(b) -> Slots], st \in {"stopped", "resolved", "pending"} :
            /\ result' = [result EXCEPT ![b] = s]
            /\ stage' = [stage EXCEPT ![b] = st]
      BY <2>1, <2>2, AnsweredStep
    <2>4. cache' \subseteq cache /\ tracked' \subseteq tracked /\ IsFiniteSet(cache')
          /\ cq' \in Seq(Op \union {Orphan})
      BY <2>1, TakeStep
    <2> QED BY <1>3, <2>3, <2>4 DEF PollBatch, TypeOK, Stages
  <1>4. ASSUME NEW b \in Batches, PollError(b) PROVE TypeOK'
    <2>1. PICK entries \in SetToSeqs(cache) \union {cq} : Take(entries)
      BY <1>4 DEF PollError
    <2>4. cache' \subseteq cache /\ tracked' \subseteq tracked /\ IsFiniteSet(cache')
          /\ cq' \in Seq(Op \union {Orphan})
      BY <2>1, TakeStep
    <2> QED BY <1>4, <2>4 DEF PollError, TypeOK, Stages
  <1>5. ASSUME NEW b \in Batches, DropFuture(b) PROVE TypeOK'
    <2>1. CancelAll(b, result[b]) \in [Index(b) -> Slots]
      BY DEF CancelAll, TypeOK, Slots, Outcomes
    <2> QED BY <1>5, <2>1 DEF DropFuture, KeepTracking, TypeOK, Stages
  <1>6. ASSUME NEW o \in Op, NEW r \in {"success", "error"}, KernelComplete(o, r)
        PROVE  TypeOK'
    <2>1. cq' \in Seq(Op \union {Orphan}) BY <1>6, Appended DEF KernelComplete, TypeOK
    <2> QED BY <1>6, <2>1 DEF KernelComplete, TypeOK, Outcomes
  <1>7. CASE OrphanStarts BY <1>7 DEF OrphanStarts, TypeOK
  <1>8. CASE OrphanCompletes
    <2>1. cq' \in Seq(Op \union {Orphan}) BY <1>8, Appended DEF OrphanCompletes, TypeOK
    <2> QED BY <1>8, <2>1 DEF OrphanCompletes, TypeOK
  <1>9. CASE OtherPoll
    <2>1. IsFiniteSet(ToSet(cq)) BY Elements DEF TypeOK
    <2>2. IsFiniteSet(cache') /\ cache' \subseteq Op
      BY <1>9, <2>1, FS_Intersection, FS_Union DEF OtherPoll, KeepTracked, TypeOK
    <2> QED BY <1>9, <2>2 DEF OtherPoll, DrainBackend, TypeOK
  <1>10. CASE DropRing BY <1>10 DEF DropRing, TypeOK
  <1>11. CASE UNCHANGED vars BY <1>11 DEF vars, TypeOK
  <1> QED BY <1>1, <1>2, <1>3, <1>4, <1>5, <1>6, <1>7, <1>8, <1>9, <1>10, <1>11 DEF Next

(* Where answers are, what is tracked, and what a quiet drop means.        *)
LEMMA PlacesStep ==
  BatchInv /\ [Next]_vars => Places' /\ Tracking' /\ QuietDropIsIdle'
  <1> DEFINE Goal == Places' /\ Tracking' /\ QuietDropIsIdle'
  <1> SUFFICES ASSUME TypeOK, Places, Tracking, QuietDropIsIdle, [Next]_vars PROVE Goal
    BY DEF BatchInv
  <1>0. /\ cq \in Seq(Op \union {Orphan})
        /\ \A b \in Batches : \A o \in Ops(b) : o \in Op /\ o # Orphan
        /\ \A b, c \in Batches : \A o \in Ops(b) : o \in Ops(c) => b = c
    <2>1. \A b, c \in Batches : \A o \in Ops(b) : o \in Ops(c) => b = c BY DEF Ops
    <2> QED BY <2>1, OpFacts DEF TypeOK
  <1>1. ASSUME NEW b \in Batches, NEW standalone \in BOOLEAN, NEW ff \in BOOLEAN,
               NEW ds \in Dependencies(b), Submit(b, standalone, ff, ds)
        PROVE  Goal
    <2>1. \A o \in Ops(b) : ~Underway(o) /\ outcome[o] = "none"
      BY <1>1 DEF Submit, Places
    <2>2. \A c \in Batches : stage'[c] = "built" => stage[c] = "built" /\ c # b
      BY <1>1 DEF Submit, TypeOK
    <2>3. Places'
      BY <1>0, <1>1, <2>1, <2>2 DEF Submit, Places, Underway
    <2> QED BY <1>1, <2>3 DEF Submit, Tracking, QuietDropIsIdle
  <1>2. ASSUME NEW b \in Batches, NEW standalone \in BOOLEAN, NEW k \in 0 .. Size[b],
               SubmitFails(b, standalone, k)
        PROVE  Goal
    <2> DEFINE new == kernel' \ kernel
    <2>1. \A o \in Ops(b) : ~Underway(o) /\ outcome[o] = "none"
      BY <1>2 DEF SubmitFails, Places
    <2>2. \A c \in Batches : stage'[c] = "built" => stage[c] = "built" /\ c # b
      BY <1>2 DEF SubmitFails, TypeOK
    <2>3. /\ {<<b, i>> : i \in 1 .. k} \subseteq Ops(b)
          /\ {<<b, i>> : i \in 1 .. (k - 1)} \subseteq {<<b, i>> : i \in 1 .. k}
      <3>1. Size[b] \in Nat BY SizeAssumption
      <3> QED BY <3>1 DEF Ops, Index
    <2>4. kernel' = kernel \union new /\ new \subseteq Ops(b) /\ new \subseteq tracked'
      BY <1>2, <2>3 DEF SubmitFails
    <2> HIDE DEF new
    <2>5. Places'
      BY <1>0, <1>2, <2>1, <2>2, <2>4 DEF SubmitFails, Places, Underway
    <2>6. tracked \subseteq tracked' BY <1>2 DEF SubmitFails
    <2>7. Tracking' BY <1>2, <2>4, <2>6 DEF SubmitFails, Tracking
    <2> QED BY <1>2, <2>5, <2>7 DEF SubmitFails, QuietDropIsIdle
  <1>3. ASSUME NEW b \in Batches, stage[b] # "built",
               NEW entries \in SetToSeqs(cache) \union {cq}, Take(entries),
               NEW st \in Stages \ {"built"}, stage' = [stage EXCEPT ![b] = st],
               UNCHANGED <<ring, kernel, outcome, orphan>>
        PROVE  Goal
    <2>1. /\ cache' \subseteq cache /\ ToSet(cq') \subseteq ToSet(cq)
          /\ cache' \intersect ToSet(entries) = {} /\ ToSet(cq') \intersect ToSet(entries) = {}
          /\ ToSet(entries) \subseteq cache \union ToSet(cq)
          /\ \A o \in tracked : o \in tracked' \/ o \in ToSet(entries)
      BY <1>3, TakeStep
    <2>2. \A c \in Batches : stage'[c] = "built" => stage[c] = "built"
      BY <1>3 DEF TypeOK
    <2>3. Places' BY <1>3, <2>1, <2>2 DEF Places, Underway
    <2>4. Tracking' BY <1>3, <2>1 DEF Tracking, Places
    <2> QED BY <1>3, <2>3, <2>4 DEF QuietDropIsIdle
  <1>4. ASSUME NEW b \in Batches, PollBatch(b) PROVE Goal
    <2>1. PICK entries \in SetToSeqs(cache) \union {cq} :
            Take(entries) /\ Known(entries) /\ Answered(b, Fill(b, entries))
      BY <1>4 DEF PollBatch
    <2>2. Fill(b, entries) \in [Index(b) -> Slots] BY <2>1, TakeStep, FillStep
    <2>3. PICK st \in {"stopped", "resolved", "pending"} : stage' = [stage EXCEPT ![b] = st]
      BY <2>1, <2>2, AnsweredStep
    <2>4. stage[b] # "built" /\ UNCHANGED <<ring, kernel, outcome, orphan>>
      BY <1>4 DEF PollBatch, Pollable
    <2> HIDE DEF Goal
    <2> QED BY <1>3, <2>1, <2>3, <2>4 DEF Stages
  <1>5. ASSUME NEW b \in Batches, PollError(b) PROVE Goal
    <2>1. PICK entries \in SetToSeqs(cache) \union {cq} : Take(entries)
      BY <1>5 DEF PollError
    <2>2. /\ stage[b] # "built" /\ UNCHANGED <<ring, kernel, outcome, orphan>>
          /\ stage' = [stage EXCEPT ![b] = "error"]
      BY <1>5 DEF PollError, Pollable
    <2> HIDE DEF Goal
    <2> QED BY <1>3, <2>1, <2>2 DEF Stages
  <1>6. ASSUME NEW b \in Batches, DropFuture(b) PROVE Goal
    <2>1. \A c \in Batches : stage'[c] = "built" => stage[c] = "built"
      BY <1>6 DEF DropFuture, TypeOK
    <2> QED BY <1>6, <2>1
          DEF DropFuture, KeepTracking, Places, Tracking, Underway, QuietDropIsIdle
  <1>7. ASSUME NEW o \in Op, NEW r \in {"success", "error"}, KernelComplete(o, r)
        PROVE  Goal
    <2>1. ToSet(cq') \subseteq ToSet(cq) \union {o}
      BY <1>0, <1>7, Appended DEF KernelComplete
    <2>2. outcome' = [outcome EXCEPT ![o] = r] /\ outcome \in [Op -> Outcomes]
          /\ kernel' = kernel \ {o} /\ o \in kernel /\ o # Orphan
          /\ UNCHANGED <<stage, cache, tracked, orphan, ring>>
      BY <1>7, OpFacts DEF KernelComplete, TypeOK
    <2>3. \A p \in Op : outcome'[p] = IF p = o THEN r ELSE outcome[p]
      BY <2>2
    <2>4. \A b \in Batches : stage[b] = "built" => o \notin Ops(b)
      BY <2>2 DEF Places, Underway
    <2>5. cache \subseteq Op /\ kernel \subseteq Op /\ ToSet(cq) \subseteq Op \union {Orphan}
      BY Elements DEF TypeOK
    <2>6. \A b \in Batches : stage'[b] = "built" =>
            \A p \in Ops(b) : (~Underway(p))' /\ outcome'[p] = "none"
      BY <1>0, <2>1, <2>2, <2>3, <2>4 DEF Places, Underway
    <2>7. Places'
      BY <2>1, <2>2, <2>3, <2>5, <2>6 DEF Places
    <2> QED BY <2>1, <2>2, <2>7 DEF Tracking, QuietDropIsIdle
  <1>8. CASE OrphanStarts
    BY <1>8 DEF OrphanStarts, Places, Tracking, Underway, QuietDropIsIdle
  <1>9. CASE OrphanCompletes
    <2>1. ToSet(cq') = ToSet(cq) \union {Orphan}
      BY <1>0, <1>9, Appended DEF OrphanCompletes
    <2>2. Orphan \notin kernel /\ Orphan \notin cache BY OpFacts DEF TypeOK
    <2>3. UNCHANGED <<ring, stage, kernel, outcome, cache, tracked>> /\ orphan' = "answered"
      BY <1>9 DEF OrphanCompletes
    <2>4. \A b \in Batches : \A o \in Ops(b) : Underway(o)' <=> Underway(o)
      BY <1>0, <2>1, <2>3 DEF Underway
    <2> QED BY <2>1, <2>2, <2>3, <2>4 DEF Places, Tracking, QuietDropIsIdle
  <1>10. CASE OtherPoll
    <2>1. ToSet(cq') = {} BY <1>10 DEF OtherPoll, DrainBackend, ToSet
    <2>2. /\ cache \subseteq cache' /\ cache' \subseteq cache \union ToSet(cq)
          /\ cache' \subseteq tracked /\ Orphan \notin cache'
      BY <1>10, OpFacts DEF OtherPoll, KeepTracked, Tracking, TypeOK
    <2>3. UNCHANGED <<ring, stage, kernel, outcome, tracked, orphan>> BY <1>10 DEF OtherPoll
    <2>4. Places' BY <2>1, <2>2, <2>3 DEF Places, Underway
    <2> QED BY <2>1, <2>2, <2>3, <2>4 DEF Tracking, QuietDropIsIdle
  <1>11. CASE DropRing
    BY <1>11 DEF DropRing, Places, Tracking, Underway, QuietDropIsIdle
  <1>12. CASE UNCHANGED vars
    BY <1>12 DEF vars, Places, Tracking, Underway, QuietDropIsIdle
  <1> HIDE DEF Goal
  <1> QED BY <1>1, <1>2, <1>4, <1>5, <1>6, <1>7, <1>8, <1>9, <1>10, <1>11, <1>12 DEF Next

(* What the slots hold, and that they keep it.                             *)
Kept == \A b \in Batches : \A i \in Index(b) :
          result[b][i] # "none" => result'[b][i] = result[b][i]

LEMMA FilledStep == BatchInv /\ [Next]_vars => Filled' /\ Kept
  <1> DEFINE Goal == Filled' /\ Kept
  <1> SUFFICES ASSUME TypeOK, Places, Tracking, Filled, [Next]_vars PROVE Goal
    BY DEF BatchInv
  <1>1. ASSUME NEW b \in Batches, NEW standalone \in BOOLEAN, NEW ff \in BOOLEAN,
               NEW ds \in Dependencies(b), Submit(b, standalone, ff, ds)
        PROVE  Goal
    <2>1. \A c \in Batches : c # b => failFast'[c] = failFast[c] /\ stage'[c] = stage[c]
      BY <1>1 DEF Submit, TypeOK
    <2>2. stage'[b] = "pending" /\ \A i \in Index(b) : result[b][i] = "none"
      BY <1>1 DEF Submit, TypeOK, Filled
    <2>3. result' = result /\ outcome' = outcome BY <1>1 DEF Submit
    <2> QED BY <2>1, <2>2, <2>3 DEF Filled, Kept
  <1>2. ASSUME NEW b \in Batches, NEW standalone \in BOOLEAN, NEW k \in 0 .. Size[b],
               SubmitFails(b, standalone, k)
        PROVE  Goal
    <2>1. \A c \in Batches : c # b => stage'[c] = stage[c]
      BY <1>2 DEF SubmitFails, TypeOK
    <2>2. stage'[b] = "refused" /\ \A i \in Index(b) : result[b][i] = "none"
      BY <1>2 DEF SubmitFails, TypeOK, Filled
    <2>3. result' = result /\ outcome' = outcome /\ failFast' = failFast
      BY <1>2 DEF SubmitFails
    <2> QED BY <2>1, <2>2, <2>3 DEF Filled, Kept
  <1>3. ASSUME NEW b \in Batches, PollBatch(b) PROVE Goal
    <2>1. PICK entries \in SetToSeqs(cache) \union {cq} :
            Take(entries) /\ Known(entries) /\ Answered(b, Fill(b, entries))
      BY <1>3 DEF PollBatch
    <2> DEFINE f == Fill(b, entries)
    <2>2. f \in [Index(b) -> Slots] BY <2>1, TakeStep, FillStep
    <2>3. \A i \in Index(b) :
            /\ result[b][i] # "none" => f[i] = result[b][i]
            /\ result[b][i] = "none" =>
                 f[i] = "none" \/ (f[i] = outcome[<<b, i>>] /\ f[i] \in {"success", "error"})
      BY <2>1, TakeStep, FillStep
    <2> HIDE DEF f
    <2>4. PICK s \in [Index(b) -> Slots], st \in {"stopped", "resolved", "pending"} :
            /\ result' = [result EXCEPT ![b] = s]
            /\ stage' = [stage EXCEPT ![b] = st]
            /\ st # "pending" => Full(s)
            /\ \A i \in Index(b) :
                 /\ f[i] # "none" => s[i] = f[i]
                 /\ f[i] = "none" /\ s[i] # "none" =>
                      s[i] = "cancelled" /\ failFast[b] /\ \E j \in Index(b) : f[j] = "error"
      <3> Answered(b, f) BY <2>1 DEF f
      <3> QED BY <2>2, AnsweredStep
    <2>5. stage[b] # "built" /\ stage[b] # "dropped" /\ UNCHANGED <<failFast, outcome>>
      BY <1>3 DEF PollBatch, Pollable
    <2>6. /\ \A c \in Batches : c # b => result'[c] = result[c] /\ stage'[c] = stage[c]
          /\ result'[b] = s /\ stage'[b] = st
      BY <2>4 DEF TypeOK
    <2>7. \A i \in Index(b) : result[b][i] # "none" => s[i] = result[b][i]
      BY <2>3, <2>4
    <2>8. ASSUME NEW i \in Index(b)
          PROVE  /\ s[i] \in {"success", "error"} => s[i] = outcome[<<b, i>>]
                 /\ s[i] = "cancelled" => failFast[b] /\ \E j \in Index(b) : s[j] = "error"
      <3>1. CASE result[b][i] # "none" BY <2>3, <2>4, <2>5, <2>7, <3>1 DEF Filled
      <3>2. CASE result[b][i] = "none" BY <2>3, <2>4, <3>2
      <3> QED BY <3>1, <3>2
    <2>9. Kept BY <2>6, <2>7 DEF Kept
    <2>10. Filled' BY <2>4, <2>5, <2>6, <2>8 DEF Filled
    <2> QED BY <2>9, <2>10
  <1>4. ASSUME NEW b \in Batches, PollError(b) PROVE Goal
    <2>1. /\ stage[b] # "dropped" /\ UNCHANGED <<result, failFast, outcome>>
          /\ stage'[b] = "error"
          /\ \A c \in Batches : c # b => stage'[c] = stage[c]
      BY <1>4 DEF PollError, Pollable, TypeOK
    <2> QED BY <2>1 DEF Filled, Kept
  <1>5. ASSUME NEW b \in Batches, DropFuture(b) PROVE Goal
    <2> DEFINE s == CancelAll(b, result[b])
    <2>1. /\ UNCHANGED <<failFast, outcome>> /\ stage'[b] = "dropped" /\ result'[b] = s
          /\ \A c \in Batches : c # b => result'[c] = result[c] /\ stage'[c] = stage[c]
      BY <1>5 DEF DropFuture, TypeOK
    <2>2. \A i \in Index(b) :
            s[i] = IF result[b][i] = "none" THEN "cancelled" ELSE result[b][i]
      BY DEF CancelAll
    <2> HIDE DEF s
    <2> QED BY <2>1, <2>2 DEF Filled, Kept
  <1>6. ASSUME NEW o \in Op, NEW r \in {"success", "error"}, KernelComplete(o, r)
        PROVE  Goal
    <2>1. /\ UNCHANGED <<stage, failFast, result>>
          /\ outcome' = [outcome EXCEPT ![o] = r] /\ outcome[o] = "none"
      BY <1>6 DEF KernelComplete, Places
    <2>2. \A p \in Op : p # o => outcome'[p] = outcome[p] BY <2>1 DEF TypeOK
    <2>3. ASSUME NEW b \in Batches, NEW i \in Index(b),
                 result[b][i] \in {"success", "error"}
          PROVE  result[b][i] = outcome'[<<b, i>>]
      <3>1. <<b, i>> \in Op BY OpFacts
      <3>2. result[b][i] = outcome[<<b, i>>] BY <2>3 DEF Filled
      <3> QED BY <2>1, <2>2, <2>3, <3>1, <3>2
    <2> QED BY <2>1, <2>3 DEF Filled, Kept
  <1>7. CASE \/ OrphanStarts \/ OrphanCompletes \/ OtherPoll \/ DropRing
             \/ UNCHANGED vars
    <2>1. UNCHANGED <<stage, failFast, outcome, result>>
      BY <1>7 DEF OrphanStarts, OrphanCompletes, OtherPoll, DropRing, vars
    <2> QED BY <2>1 DEF Filled, Kept
  <1> HIDE DEF Goal
  <1> QED BY <1>1, <1>2, <1>3, <1>4, <1>5, <1>6, <1>7 DEF Next

(* An answer that was delivered does not come again: only a submission     *)
(* puts operations on their way, and what a poll takes is in no place any  *)
(* more.                                                                   *)
LEMMA DeliveredStep == BatchInv /\ [Next]_vars => Delivered'
  <1> SUFFICES ASSUME BatchInv, [Next]_vars, NEW a \in Batches, NEW i \in Index(a),
                      result'[a][i] \in {"success", "error"}, Underway(<<a, i>>)'
               PROVE  FALSE
    BY DEF Delivered
  <1> USE DEF BatchInv
  <1> DEFINE own == <<a, i>>
  <1>0. own \in Ops(a) /\ own \in Op /\ own # Orphan BY OpFacts
  <1>1. result[a][i] \in {"success", "error"} => ~Underway(own) BY DEF Delivered
  <1>2. stage[a] = "built" => result[a][i] = "none" BY DEF Filled
  <1>3. result[a][i] # "none" => result'[a][i] = result[a][i]
    <2>1. Kept BY FilledStep
    <2> QED BY <2>1 DEF Kept
  <1>way. own \in kernel' \/ own \in ToSet(cq') \/ own \in cache' BY DEF Underway
  <1> HIDE DEF own
  <1> DEFINE Still == result' = result /\ Underway(own)
  <1>4. Still => FALSE BY <1>1
  <1>5. ASSUME NEW b \in Batches, NEW entries \in SetToSeqs(cache) \union {cq},
               Take(entries), kernel' = kernel
        PROVE  Underway(own) /\ own \notin ToSet(entries)
    <2>1. /\ cache' \subseteq cache /\ ToSet(cq') \subseteq ToSet(cq)
          /\ cache' \intersect ToSet(entries) = {} /\ ToSet(cq') \intersect ToSet(entries) = {}
          /\ ToSet(entries) \subseteq cache \union ToSet(cq)
      BY <1>5, TakeStep
    <2> QED BY <1>5, <2>1 DEF Underway, Places, own
  <1>6. ASSUME NEW b \in Batches, NEW standalone \in BOOLEAN, NEW ff \in BOOLEAN,
               NEW ds \in Dependencies(b), Submit(b, standalone, ff, ds)
        PROVE  FALSE
    <2>1. result' = result /\ stage[b] = "built" BY <1>6 DEF Submit
    <2>2. own \notin Ops(b) BY <1>2, <2>1 DEF Ops, own
    <2>3. Underway(own) BY <1>6, <2>2 DEF Submit, Underway, own
    <2> QED BY <1>4, <2>1, <2>3
  <1>7. ASSUME NEW b \in Batches, NEW standalone \in BOOLEAN, NEW k \in 0 .. Size[b],
               SubmitFails(b, standalone, k)
        PROVE  FALSE
    <2>1. result' = result /\ stage[b] = "built" BY <1>7 DEF SubmitFails
    <2>2. a # b BY <1>2, <2>1
    <2>3. Underway(own) BY <1>7, <2>2 DEF SubmitFails, Underway, own
    <2> QED BY <1>4, <2>1, <2>3
  <1>8. ASSUME NEW b \in Batches, PollBatch(b) PROVE FALSE
    <2>1. PICK entries \in SetToSeqs(cache) \union {cq} :
            Take(entries) /\ Answered(b, Fill(b, entries))
      BY <1>8 DEF PollBatch
    <2>2. Underway(own) /\ own \notin ToSet(entries) BY <1>5, <1>8, <2>1 DEF PollBatch
    <2>3. result[a][i] = "none"
      BY <1>1, <1>3, <2>2
    <2>4. a = b
      <3>1. Fill(b, entries) \in [Index(b) -> Slots] BY <2>1, TakeStep, FillStep
      <3>2. PICK s \in [Index(b) -> Slots] : result' = [result EXCEPT ![b] = s]
        BY <2>1, <3>1, AnsweredStep
      <3> QED BY <2>3, <3>2 DEF TypeOK
    <2> DEFINE f == Fill(b, entries)
    <2>5. f \in [Index(b) -> Slots] /\ f[i] = "none"
      BY <2>1, <2>2, <2>3, <2>4, TakeStep, FillStep DEF own
    <2>6. Answered(b, f) BY <2>1
    <2> HIDE DEF f
    <2>7. PICK s \in [Index(b) -> Slots] :
            /\ result' = [result EXCEPT ![b] = s]
            /\ f[i] = "none" /\ s[i] # "none" => s[i] = "cancelled"
      BY <2>4, <2>5, <2>6, AnsweredStep
    <2> QED BY <2>4, <2>5, <2>7 DEF TypeOK
  <1>9. ASSUME NEW b \in Batches, PollError(b) PROVE FALSE
    <2>1. PICK entries \in SetToSeqs(cache) \union {cq} : Take(entries)
      BY <1>9 DEF PollError
    <2>2. Underway(own) BY <1>5, <1>9, <2>1 DEF PollError
    <2> QED BY <1>4, <1>9, <2>2 DEF PollError
  <1>10. ASSUME NEW b \in Batches, DropFuture(b) PROVE FALSE
    <2>1. Underway(own) BY <1>way, <1>10 DEF DropFuture, Underway
    <2>2. result' = [result EXCEPT ![b] = CancelAll(b, result[b])] BY <1>10 DEF DropFuture
    <2>3. result[a][i] = "none" BY <1>1, <1>3, <2>1
    <2>4. a # b => result'[a][i] = "none" BY <2>2, <2>3 DEF TypeOK
    <2>5. a = b => result'[a][i] = "cancelled" BY <2>2, <2>3 DEF TypeOK, CancelAll
    <2> QED BY <2>4, <2>5
  <1>11. ASSUME NEW o \in Op, NEW r \in {"success", "error"}, KernelComplete(o, r)
         PROVE  FALSE
    <2>1. ToSet(cq') \subseteq ToSet(cq) \union {o}
      BY <1>11, Appended DEF KernelComplete, TypeOK
    <2>2. Underway(own) BY <1>way, <1>11, <2>1 DEF KernelComplete, Underway
    <2> QED BY <1>4, <1>11, <2>2 DEF KernelComplete
  <1>12. CASE OrphanCompletes
    <2>1. ToSet(cq') = ToSet(cq) \union {Orphan}
      BY <1>12, Appended DEF OrphanCompletes, TypeOK
    <2>2. Underway(own) BY <1>0, <1>12, <2>1 DEF OrphanCompletes, Underway, own
    <2> QED BY <1>4, <1>12, <2>2 DEF OrphanCompletes
  <1>13. CASE OtherPoll
    <2>1. ToSet(cq') = {} BY <1>13 DEF OtherPoll, DrainBackend, ToSet
    <2>2. Underway(own) BY <1>way, <1>13, <2>1 DEF OtherPoll, KeepTracked, Underway
    <2> QED BY <1>4, <1>13, <2>2 DEF OtherPoll
  <1>14. CASE OrphanStarts \/ DropRing \/ UNCHANGED vars
    BY <1>way, <1>4, <1>14 DEF OrphanStarts, DropRing, vars, Underway
  <1> HIDE DEF Still
  <1> QED BY <1>6, <1>7, <1>8, <1>9, <1>10, <1>11, <1>12, <1>13, <1>14 DEF Next

(* The answer an unfinished batch waits for is not lost on the way.        *)
LEMMA MissedStep == BatchInv /\ [Next]_vars => NothingMissed'
  <1> SUFFICES ASSUME BatchInv, [Next]_vars,
                      NEW a \in Batches, NEW i \in Index(a), ring' = "open",
                      stage'[a] \in {"pending", "error"}, result'[a][i] = "none"
               PROVE  Underway(<<a, i>>)' \/ <<a, i>> \in astray'
    BY DEF NothingMissed
  <1> USE DEF BatchInv
  <1> DEFINE own == <<a, i>>
             Goal == Underway(own)' \/ own \in astray'
  <1> SUFFICES Goal OBVIOUS
  <1>0. own \in Ops(a) /\ own \in Op /\ own # Orphan BY OpFacts
  <1>1. ring = "open"
    BY DEF Next, vars, Submit, SubmitFails, PollBatch, PollError, DropFuture,
           KernelComplete, OrphanStarts, OrphanCompletes, OtherPoll, DropRing
  <1>2. stage[a] \in {"pending", "error"} /\ result[a][i] = "none" =>
          own \in kernel \/ own \in ToSet(cq) \/ own \in cache \/ own \in astray
    BY <1>1 DEF NothingMissed, Underway
  <1>3. result[a][i] = "none"
    <2>1. Kept BY FilledStep
    <2> QED BY <2>1 DEF Kept
  <1>4. ASSUME NEW b \in Batches, NEW standalone \in BOOLEAN, NEW ff \in BOOLEAN,
               NEW ds \in Dependencies(b), Submit(b, standalone, ff, ds)
        PROVE  Goal
    <2>1. CASE a = b BY <1>0, <1>4, <2>1 DEF Submit, Underway
    <2>2. CASE a # b
      <3>1. stage'[a] = stage[a] BY <1>4, <2>2 DEF Submit, TypeOK
      <3> QED BY <1>2, <1>3, <1>4, <3>1 DEF Submit, Underway
    <2> QED BY <2>1, <2>2
  <1>5. ASSUME NEW b \in Batches, NEW standalone \in BOOLEAN, NEW k \in 0 .. Size[b],
               SubmitFails(b, standalone, k)
        PROVE  Goal
    <2>1. a # b /\ stage'[a] = stage[a] BY <1>5 DEF SubmitFails, TypeOK
    <2> QED BY <1>2, <1>3, <1>5, <2>1 DEF SubmitFails, Underway
  <1>6. ASSUME NEW b \in Batches, PollBatch(b) PROVE Goal
    <2>1. PICK entries \in SetToSeqs(cache) \union {cq} :
            /\ Take(entries) /\ Known(entries) /\ Answered(b, Fill(b, entries))
            /\ astray' = astray \union (ToSet(entries) \ Ops(b))
      BY <1>6 DEF PollBatch
    <2>2. /\ \A p \in cache \union ToSet(cq) :
               p \in ToSet(entries) \/ p \in cache' \/ p \in ToSet(cq')
          /\ ToSet(entries) \subseteq cache \union ToSet(cq)
      BY <2>1, TakeStep
    <2>3. kernel' = kernel BY <1>6 DEF PollBatch
    <2>4. stage[a] \in {"pending", "error"}
      <3>1. CASE a # b
        <4>1. PICK st \in {"stopped", "resolved", "pending"} :
                stage' = [stage EXCEPT ![b] = st]
          BY <2>1, <2>2, FillStep, AnsweredStep
        <4> QED BY <3>1, <4>1 DEF TypeOK
      <3>2. CASE a = b
        <4>1. stage[a] # "stopped" BY <1>3, <3>2 DEF Filled, Full, TypeOK
        <4> QED BY <1>6, <3>2, <4>1 DEF PollBatch, Pollable
      <3> QED BY <3>1, <3>2
    <2>5. CASE own \in ToSet(entries) /\ a = b
      <3> DEFINE f == Fill(b, entries)
      <3>1. f \in [Index(b) -> Slots] /\ f[i] # "none" BY <1>3, <2>2, <2>5, FillStep
      <3>2. Answered(b, f) BY <2>1
      <3> HIDE DEF f
      <3>3. PICK s \in [Index(b) -> Slots] :
              result' = [result EXCEPT ![b] = s] /\ s[i] = f[i]
        BY <2>5, <3>1, <3>2, AnsweredStep
      <3> QED BY <2>5, <3>1, <3>3 DEF TypeOK
    <2>6. CASE own \in ToSet(entries) /\ a # b
      <3>1. own \notin Ops(b) BY <2>6 DEF Ops
      <3> QED BY <2>1, <2>6, <3>1
    <2>7. CASE own \notin ToSet(entries)
      BY <1>2, <1>3, <2>1, <2>2, <2>3, <2>4, <2>7 DEF Underway
    <2> QED BY <2>5, <2>6, <2>7
  <1>7. ASSUME NEW b \in Batches, PollError(b) PROVE Goal
    <2>1. PICK entries \in SetToSeqs(cache) \union {cq} :
            Take(entries) /\ astray' = astray \union (ToSet(entries) \ {Orphan})
      BY <1>7 DEF PollError
    <2>2. \A p \in cache \union ToSet(cq) :
            p \in ToSet(entries) \/ p \in cache' \/ p \in ToSet(cq')
      BY <2>1, TakeStep
    <2>3. kernel' = kernel BY <1>7 DEF PollError
    <2>4. stage[a] \in {"pending", "error"}
      <3>1. CASE a # b BY <1>7, <3>1 DEF PollError, TypeOK
      <3>2. CASE a = b
        <4>1. stage[a] # "stopped" BY <1>3, <3>2 DEF Filled, Full, TypeOK
        <4> QED BY <1>7, <3>2, <4>1 DEF PollError, Pollable
      <3> QED BY <3>1, <3>2
    <2> QED BY <1>0, <1>2, <1>3, <2>1, <2>2, <2>3, <2>4 DEF Underway
  <1>8. ASSUME NEW b \in Batches, DropFuture(b) PROVE Goal
    <2>1. stage'[a] = stage[a] BY <1>8 DEF DropFuture, TypeOK
    <2> QED BY <1>2, <1>3, <1>8, <2>1 DEF DropFuture, Underway
  <1>9. ASSUME NEW p \in Op, NEW r \in {"success", "error"}, KernelComplete(p, r)
        PROVE  Goal
    <2>1. ToSet(cq') = ToSet(cq) \union {p}
      BY <1>1, <1>9, Appended DEF KernelComplete, TypeOK
    <2> QED BY <1>2, <1>3, <1>9, <2>1 DEF KernelComplete, Underway
  <1>10. CASE OrphanCompletes
    <2>1. ToSet(cq') = ToSet(cq) \union {Orphan}
      BY <1>10, Appended DEF OrphanCompletes, TypeOK
    <2> QED BY <1>2, <1>3, <1>10, <2>1 DEF OrphanCompletes, Underway
  <1>11. CASE OtherPoll
    <2>1. own \in ToSet(cq) => own \in cache'
      BY <1>0, <1>11 DEF OtherPoll, KeepTracked, Tracking
    <2> QED BY <1>2, <1>3, <1>11, <2>1 DEF OtherPoll, KeepTracked, Underway
  <1>12. CASE OrphanStarts \/ DropRing \/ UNCHANGED vars
    BY <1>2, <1>3, <1>12 DEF OrphanStarts, DropRing, vars, Underway
  <1> HIDE DEF Goal
  <1> QED
    BY <1>4, <1>5, <1>6, <1>7, <1>8, <1>9, <1>10, <1>11, <1>12 DEF Next

(* Each step keeps the invariant.                                          *)
LEMMA StepHolds == BatchInv /\ [Next]_vars => BatchInv'
  <1>1. BatchInv /\ [Next]_vars => NothingMissed' BY MissedStep
  <1>2. BatchInv /\ [Next]_vars => Filled' BY FilledStep
  <1> QED BY <1>1, <1>2, TypeStep, PlacesStep, DeliveredStep DEF BatchInv

LEMMA Inductive == Spec => []BatchInv
  BY InitHolds, StepHolds, PTL DEF Spec

---------------------------------------------------------------------------
(* The future of a batch that has its results says that all succeeded only *)
(* if the kernel said so of each, and without fail-fast it says what the   *)
(* kernel said.                                                            *)
LEMMA ResultsAreAnswers == BatchInv => SlotsAreAnswers
  <1> SUFFICES ASSUME BatchInv, NEW b \in Batches, stage[b] \in {"stopped", "resolved"}
               PROVE  /\ AllSucceeded(BatchResult(result[b])) <=>
                           \A o \in Ops(b) : outcome[o] = "success"
                      /\ ~failFast[b] =>
                           \A i \in Index(b) : result[b][i] = outcome[<<b, i>>]
    BY DEF SlotsAreAnswers, BatchInv, Filled, Delivered
  <1> DEFINE s == result[b]
  <1>1. s \in [Index(b) -> Slots] /\ \A i \in Index(b) : s[i] # "none"
    BY DEF BatchInv, TypeOK, Filled, Full
  <1>2. \A i \in Index(b) : s[i] \in {"success", "error"} => s[i] = outcome[<<b, i>>]
    BY DEF BatchInv, Filled
  <1>3. \A i \in Index(b) : s[i] = "cancelled" => \E j \in Index(b) : s[j] = "error"
    BY DEF BatchInv, Filled
  <1> HIDE DEF s
  <1>4. AllSucceeded(BatchResult(s)) <=> \A i \in Index(b) : s[i] = "success"
    <2>1. AllSucceeded(BatchResult(s)) <=>
            \A i \in Index(b) : s[i] # "error" /\ s[i] # "cancelled"
      BY <1>1 DEF AllSucceeded, BatchResult
    <2> QED BY <1>1, <2>1 DEF Slots, Outcomes
  <1>5. (\A i \in Index(b) : s[i] = "success") <=>
          \A i \in Index(b) : outcome[<<b, i>>] = "success"
    BY <1>1, <1>2, <1>3 DEF Slots, Outcomes
  <1>6. (\A o \in Ops(b) : outcome[o] = "success") <=>
          \A i \in Index(b) : outcome[<<b, i>>] = "success"
    BY OpFacts DEF Ops
  <1>7. ~failFast[b] => \A i \in Index(b) : s[i] = outcome[<<b, i>>]
    <2>1. stage[b] # "dropped" OBVIOUS
    <2>2. \A i \in Index(b) : s[i] = "cancelled" => failFast[b]
      BY <2>1 DEF BatchInv, Filled, s
    <2> QED BY <1>1, <1>2, <2>2 DEF Slots, Outcomes
  <1> QED BY <1>4, <1>5, <1>6, <1>7 DEF s

(* The variables have the types their comments say.                        *)
THEOREM TypeCorrect == Spec => []TypeOK
  BY Inductive, PTL DEF BatchInv

(* A slot of a batch is the kernel's answer to its own operation, which is *)
(* delivered once, or says "cancelled" where the code cancels; without     *)
(* fail-fast the dependents of a failed operation have the kernel's answer *)
(* too (future/batch_future.rs).                                           *)
THEOREM ResultsAreTheKernels == Spec => []SlotsAreAnswers
  BY Inductive, ResultsAreAnswers, PTL

(* What a slot holds stays there, whatever answer comes later.             *)
THEOREM ResultsStay == Spec => SlotsStable
  <1>1. BatchInv /\ [Next]_vars =>
          [\A b \in Batches : \A i \in Index(b) :
             result[b][i] # "none" => result'[b][i] = result[b][i]]_vars
    BY FilledStep DEF Kept
  <1> QED BY <1>1, Inductive, PTL DEF Spec, SlotsStable

(* The answer an unfinished batch waits for is in the kernel, in the queue *)
(* or in the cache, unless another call took it.                           *)
THEOREM AnswersAreNotLost == Spec => []NothingMissed
  BY Inductive, PTL DEF BatchInv

(* The Ring's drop is silent only when no operation of a batch is in the   *)
(* kernel (ring/core/mod.rs 453).                                          *)
THEOREM QuietDrops == Spec => []QuietDropIsIdle
  BY Inductive, PTL DEF BatchInv

(* A poll fails only on the answer of an orphan.                           *)
THEOREM PollsFailForOrphans == Spec => OnlyOrphansFail
  <1>1. ASSUME BatchInv, [Next]_vars, NEW a \in Batches,
               stage[a] # "error", stage'[a] = "error"
        PROVE  orphan = "answered"
    <2>1. ASSUME NEW b \in Batches, PollError(b) PROVE orphan = "answered"
      <3>1. PICK entries \in SetToSeqs(cache) \union {cq} : Take(entries) /\ ~Known(entries)
        BY <2>1 DEF PollError
      <3>2. Orphan \in ToSet(cq) BY <1>1, <3>1, TakeStep DEF BatchInv
      <3> QED BY <1>1, <3>2 DEF BatchInv, Places
    <2>2. ASSUME NEW b \in Batches, PollBatch(b) PROVE FALSE
      <3>1. PICK entries \in SetToSeqs(cache) \union {cq} :
              Take(entries) /\ Answered(b, Fill(b, entries))
        BY <2>2 DEF PollBatch
      <3>2. PICK st \in {"stopped", "resolved", "pending"} :
              stage' = [stage EXCEPT ![b] = st]
        BY <1>1, <3>1, TakeStep, FillStep, AnsweredStep DEF BatchInv
      <3> QED BY <1>1, <3>2 DEF BatchInv, TypeOK
    <2>3. ASSUME NEW b \in Batches,
                 \/ \E standalone, ff \in BOOLEAN, ds \in Dependencies(b) :
                      Submit(b, standalone, ff, ds)
                 \/ \E standalone \in BOOLEAN, k \in 0 .. Size[b] :
                      SubmitFails(b, standalone, k)
                 \/ DropFuture(b)
          PROVE  FALSE
      BY <1>1, <2>3 DEF Submit, SubmitFails, DropFuture, BatchInv, TypeOK
    <2>4. CASE \/ \E o \in Op, r \in {"success", "error"} : KernelComplete(o, r)
               \/ OrphanStarts \/ OrphanCompletes \/ OtherPoll \/ DropRing
               \/ UNCHANGED vars
      BY <1>1, <2>4
         DEF KernelComplete, OrphanStarts, OrphanCompletes, OtherPoll, DropRing, vars
    <2> QED BY <1>1, <2>1, <2>2, <2>3, <2>4 DEF Next
  <1>2. BatchInv /\ [Next]_vars =>
          [\A b \in Batches : stage[b] # "error" /\ stage'[b] = "error" =>
                                 orphan = "answered"]_vars
    BY <1>1
  <1> QED BY <1>2, Inductive, PTL DEF Spec, OnlyOrphansFail
=============================================================================
