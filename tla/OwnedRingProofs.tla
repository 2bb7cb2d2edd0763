-------------------------- MODULE OwnedRingProofs --------------------------
(***************************************************************************)
(* Proofs about OwnedRing, for every set of buffers, every number of       *)
(* submissions and every bound on the handles. IInv is inductive; every    *)
(* safety property follows from it. It is proved in three parts: the       *)
(* types, the bookkeeping of ids, answers, wakers and orphans (RingInv,    *)
(* which needs only the types), and who holds which buffer.                *)
(***************************************************************************)
EXTENDS OwnedRing, TLAPS

RingInv == /\ FreshIds /\ OneAnswer /\ KernelHeld /\ AbandonedLoose /\ OrphansEnded
           /\ CompletionAccounted /\ WakeupArmed /\ ResultFidelity

---------------------------------------------------------------------------
(* The initial state satisfies every part of the invariant.                *)
LEMMA InitIInv == Init => IInv
  BY MaxSubAssumption, BufAssumption
     DEF Init, IInv, TypeOK, Id, Stage, Result, None, FreshIds, OneAnswer,
         KernelHeld, AbandonedLoose, OrphansEnded, CompletionAccounted, OrphanAccounted,
         WakeupArmed, HotPotato, Claims, ResultFidelity, Live, Holds, UsesMemory

(* Every step keeps the types and hands ids out in order.                  *)
LEMMA TypeStep ==
  ASSUME TypeOK, [Next]_vars
  PROVE  TypeOK'
<1> USE MaxSubAssumption, BufAssumption
        DEF TypeOK, Id, Stage, Result, None,
            futureVars, ringVars, taskVars, bufVars
<1>1. ASSUME NEW b \in Buf, NewBuffer(b)
      PROVE  TypeOK'
  BY <1>1
     DEF NewBuffer, Unallocated, Alive
<1>2. ASSUME NEW b \in Buf, CloneHandle(b)
      PROVE  TypeOK'
  BY <1>2
     DEF CloneHandle
<1>3. ASSUME NEW b \in Buf, DropHandle(b)
      PROVE  TypeOK'
  BY <1>3
     DEF DropHandle
<1>4. ASSUME NEW b \in Buf, TryAccess(b)
      PROVE  TypeOK'
  BY <1>4
     DEF TryAccess
<1>5. ASSUME NEW b \in Buf, DropGuard(b)
      PROVE  TypeOK'
  BY <1>5
     DEF DropGuard
<1>6. ASSUME NEW i \in Id, NEW b \in Buf, SubmitOwned(i, b)
      PROVE  TypeOK'
  BY <1>6
     DEF SubmitOwned, BeginOwned, TakeId, Owns, GiveUp, Accepted,
         AsPtrAndLen
<1>7. ASSUME NEW i \in Id, NEW b \in Buf, SubmitOwnedFails(i, b)
      PROVE  TypeOK'
  <2>1. kernel' \subseteq Id /\ nulls' \subseteq Id /\ abandoned' \subseteq Id
    BY <1>7 DEF SubmitOwnedFails, Refused, QueuedWithError, AsPtrAndLen
  <2>2. handles' \in [Buf -> Nat]
    BY <1>7 DEF SubmitOwnedFails, BeginOwned, Owns, GiveUp
  <2> QED
    BY <1>7, <2>1, <2>2 DEF SubmitOwnedFails, BeginOwned, TakeId
<1>8. ASSUME NEW i \in Id, NEW b \in Buf, AcceptSafe(i, b)
      PROVE  TypeOK'
  BY <1>8
     DEF AcceptSafe, BeginAccept, TakeId, Unallocated, Alive, Accepted
<1>9. ASSUME NEW i \in Id, NEW b \in Buf, AcceptSafeFails(i, b)
      PROVE  TypeOK'
  <2>1. CASE Refused
    BY <1>9, <2>1
       DEF AcceptSafeFails, BeginAccept, TakeId, Unallocated, Alive, Refused
  <2>2. CASE QueuedWithError(i)
    BY <1>9, <2>2
       DEF AcceptSafeFails, BeginAccept, TakeId, Unallocated, Alive,
         QueuedWithError
  <2> QED
    BY <1>9, <2>1, <2>2 DEF AcceptSafeFails
<1>10. ASSUME NEW i \in Id, NEW r \in Result, KernelComplete(i, r)
      PROVE  TypeOK'
  BY <1>10
     DEF KernelComplete
<1>11. ASSUME NEW i \in Id, PollFailed(i)
      PROVE  TypeOK'
  BY <1>11
     DEF PollFailed, Polled, Resolve, LetGoOf
<1>12. ASSUME NEW i \in Id, PollCached(i)
      PROVE  TypeOK'
  BY <1>12
     DEF PollCached, Polled, Resolve
<1>13. ASSUME NEW i \in Id, PollCompletes(i)
      PROVE  TypeOK'
  <2>1. posted[i] \in Result
    BY <1>13 DEF PollCompletes, Completed
  <2>2. handles' \in [Buf -> Nat] /\ stage' \in [Id -> Stage]
    BY <1>13, <2>1 DEF PollCompletes, Polled, Resolve
  <2>3. \A j \in Id : j < nextId' <=> stage'[j] # "unused"
    BY <1>13, <2>1 DEF PollCompletes, Polled, Resolve
  <2>4. cache' \in [Id -> Result \union {None}] /\ posted' \in [Id -> Result \union {None}]
    BY <1>13 DEF PollCompletes, Drain, CacheAfterDrain, Others, Completed
  <2> QED
    BY <1>13, <2>2, <2>3, <2>4
       DEF PollCompletes, Drain, OrphansAfterDrain, Completed, Woken, Others, Scheduled
<1>14. ASSUME NEW i \in Id, PollPending(i)
      PROVE  TypeOK'
  BY <1>14
     DEF PollPending, Polled, Drain, CacheAfterDrain, OrphansAfterDrain,
         Others, Completed, Woken, Scheduled, ArmWakeup
<1>15. ASSUME NEW i \in Id, PollError(i)
      PROVE  TypeOK'
  BY <1>15
     DEF PollError, Polled
<1>16. ASSUME NEW i \in Id, Tick(i)
      PROVE  TypeOK'
  BY <1>16
     DEF Tick
<1>17. ASSUME NEW i \in Id, SpuriousWake(i)
      PROVE  TypeOK'
  BY <1>17
     DEF SpuriousWake
<1>18. ASSUME NEW i \in Id, DropFuture(i)
      PROVE  TypeOK'
  BY <1>18
     DEF DropFuture, Live, LetGoOf
<1>19. CASE ProcessCompletions
  BY <1>19
     DEF ProcessCompletions, LetGoOf
<1>20. CASE DropRing
  BY <1>20
     DEF DropRing, LetGoOf
<1>21. CASE UNCHANGED vars
  BY <1>21 DEF vars
<1> QED
  BY <1>1, <1>2, <1>3, <1>4, <1>5, <1>6, <1>7, <1>8, <1>9, <1>10,
     <1>11, <1>12, <1>13, <1>14, <1>15, <1>16, <1>17, <1>18, <1>19,
     <1>20, <1>21
     DEF Next, UserStep, Submission, Poll

(* Every step keeps the bookkeeping: a queued operation has a holder, its  *)
(* answer one place, a sleeping future its two wake-ups.                   *)
LEMMA RingStep ==
  ASSUME TypeOK, RingInv, [Next]_vars
  PROVE  RingInv'
<1> USE MaxSubAssumption, BufAssumption
        DEF TypeOK, Id, Stage, Result, None, Live,
            futureVars, ringVars, taskVars, bufVars,
            RingInv, FreshIds, OneAnswer, KernelHeld, AbandonedLoose, OrphansEnded,
            CompletionAccounted, WakeupArmed, ResultFidelity, UsesMemory
<1>1. ASSUME NEW b \in Buf, NewBuffer(b)
      PROVE  RingInv'
  BY <1>1
     DEF NewBuffer, Unallocated, Alive
<1>2. ASSUME NEW b \in Buf, CloneHandle(b)
      PROVE  RingInv'
  BY <1>2
     DEF CloneHandle
<1>3. ASSUME NEW b \in Buf, DropHandle(b)
      PROVE  RingInv'
  BY <1>3
     DEF DropHandle
<1>4. ASSUME NEW b \in Buf, TryAccess(b)
      PROVE  RingInv'
  BY <1>4
     DEF TryAccess
<1>5. ASSUME NEW b \in Buf, DropGuard(b)
      PROVE  RingInv'
  BY <1>5
     DEF DropGuard
<1>6. ASSUME NEW i \in Id, NEW b \in Buf, SubmitOwned(i, b)
      PROVE  RingInv'
  BY <1>6
     DEF SubmitOwned, BeginOwned, TakeId, Owns, GiveUp, Accepted,
         AsPtrAndLen
<1>7. ASSUME NEW i \in Id, NEW b \in Buf, SubmitOwnedFails(i, b)
      PROVE  RingInv'
  <2>1. CASE Refused /\ UNCHANGED nulls
    BY <1>7, <2>1 DEF SubmitOwnedFails, BeginOwned, TakeId, Refused
  <2>2. CASE QueuedWithError(i) /\ AsPtrAndLen(i, b)
    BY <1>7, <2>2 DEF SubmitOwnedFails, BeginOwned, TakeId, QueuedWithError, AsPtrAndLen
  <2> QED
    BY <1>7, <2>1, <2>2 DEF SubmitOwnedFails
<1>8. ASSUME NEW i \in Id, NEW b \in Buf, AcceptSafe(i, b)
      PROVE  RingInv'
  BY <1>8
     DEF AcceptSafe, BeginAccept, TakeId, Unallocated, Alive, Accepted
<1>9. ASSUME NEW i \in Id, NEW b \in Buf, AcceptSafeFails(i, b)
      PROVE  RingInv'
  <2>1. CASE Refused
    BY <1>9, <2>1
       DEF AcceptSafeFails, BeginAccept, TakeId, Unallocated, Alive, Refused
  <2>2. CASE QueuedWithError(i)
    BY <1>9, <2>2
       DEF AcceptSafeFails, BeginAccept, TakeId, Unallocated, Alive,
         QueuedWithError
  <2> QED
    BY <1>9, <2>1, <2>2 DEF AcceptSafeFails
<1>10. ASSUME NEW i \in Id, NEW r \in Result, KernelComplete(i, r)
      PROVE  RingInv'
  BY <1>10
     DEF KernelComplete
<1>11. ASSUME NEW i \in Id, PollFailed(i)
      PROVE  RingInv'
  BY <1>11
     DEF PollFailed, Polled, Resolve, LetGoOf
<1>12. ASSUME NEW i \in Id, PollCached(i)
      PROVE  RingInv'
  BY <1>12
     DEF PollCached, Polled, Resolve
<1>13. ASSUME NEW i \in Id, PollCompletes(i)
      PROVE  RingInv'
  BY <1>13
     DEF PollCompletes, Polled, Resolve, Drain, CacheAfterDrain,
         OrphansAfterDrain, Others, Completed, Woken, Scheduled
<1>14. ASSUME NEW i \in Id, PollPending(i)
      PROVE  RingInv'
  BY <1>14
     DEF PollPending, Polled, Drain, CacheAfterDrain, OrphansAfterDrain,
         Others, Completed, Woken, Scheduled, ArmWakeup
<1>15. ASSUME NEW i \in Id, PollError(i)
      PROVE  RingInv'
  BY <1>15
     DEF PollError, Polled
<1>16. ASSUME NEW i \in Id, Tick(i)
      PROVE  RingInv'
  BY <1>16
     DEF Tick
<1>17. ASSUME NEW i \in Id, SpuriousWake(i)
      PROVE  RingInv'
  BY <1>17
     DEF SpuriousWake
<1>18. ASSUME NEW i \in Id, DropFuture(i)
      PROVE  RingInv'
  BY <1>18
     DEF DropFuture, LetGoOf
<1>19. CASE ProcessCompletions
  BY <1>19
     DEF ProcessCompletions, LetGoOf
<1>20. CASE DropRing
  BY <1>20
     DEF DropRing, LetGoOf
<1>21. CASE UNCHANGED vars
  BY <1>21 DEF vars
<1> QED
  BY <1>1, <1>2, <1>3, <1>4, <1>5, <1>6, <1>7, <1>8, <1>9, <1>10,
     <1>11, <1>12, <1>13, <1>14, <1>15, <1>16, <1>17, <1>18, <1>19,
     <1>20, <1>21
     DEF Next, UserStep, Submission, Poll

(* Every step keeps one holder per unshared buffer, and a reason for each  *)
(* entry of the orphan table.                                              *)
LEMMA HoldersStep ==
  ASSUME TypeOK, RingInv, HotPotato, OrphanAccounted, [Next]_vars
  PROVE  HotPotato' /\ OrphanAccounted'
<1> USE MaxSubAssumption, BufAssumption
        DEF TypeOK, Id, Stage, Result, None, Live,
            futureVars, ringVars, taskVars, bufVars,
            RingInv, FreshIds, OneAnswer, KernelHeld, AbandonedLoose, OrphansEnded,
            CompletionAccounted, WakeupArmed, ResultFidelity, UsesMemory,
            OrphanAccounted, HotPotato, Claims, Holds, IsAccept
<1>1. ASSUME NEW b \in Buf, NewBuffer(b)
      PROVE  HotPotato' /\ OrphanAccounted'
  BY <1>1
     DEF NewBuffer, Unallocated, Alive
<1>2. ASSUME NEW b \in Buf, CloneHandle(b)
      PROVE  HotPotato' /\ OrphanAccounted'
  BY <1>2
     DEF CloneHandle
<1>3. ASSUME NEW b \in Buf, DropHandle(b)
      PROVE  HotPotato' /\ OrphanAccounted'
  BY <1>3
     DEF DropHandle
<1>4. ASSUME NEW b \in Buf, TryAccess(b)
      PROVE  HotPotato' /\ OrphanAccounted'
  BY <1>4
     DEF TryAccess
<1>5. ASSUME NEW b \in Buf, DropGuard(b)
      PROVE  HotPotato' /\ OrphanAccounted'
  BY <1>5
     DEF DropGuard
<1>6. ASSUME NEW i \in Id, NEW b \in Buf, SubmitOwned(i, b)
      PROVE  HotPotato' /\ OrphanAccounted'
  BY <1>6
     DEF SubmitOwned, BeginOwned, TakeId, Owns, GiveUp, Accepted,
         AsPtrAndLen
<1>7. ASSUME NEW i \in Id, NEW b \in Buf, SubmitOwnedFails(i, b)
      PROVE  HotPotato' /\ OrphanAccounted'
  BY <1>7
     DEF SubmitOwnedFails, BeginOwned, TakeId, Owns, GiveUp, Refused,
         QueuedWithError, AsPtrAndLen
<1>8. ASSUME NEW i \in Id, NEW b \in Buf, AcceptSafe(i, b)
      PROVE  HotPotato' /\ OrphanAccounted'
  BY <1>8
     DEF AcceptSafe, BeginAccept, TakeId, Unallocated, Alive, Accepted
<1>9. ASSUME NEW i \in Id, NEW b \in Buf, AcceptSafeFails(i, b)
      PROVE  HotPotato' /\ OrphanAccounted'
  BY <1>9
     DEF AcceptSafeFails, BeginAccept, TakeId, Unallocated, Alive, Refused,
         QueuedWithError
<1>10. ASSUME NEW i \in Id, NEW r \in Result, KernelComplete(i, r)
      PROVE  HotPotato' /\ OrphanAccounted'
  BY <1>10
     DEF KernelComplete
<1>11. ASSUME NEW i \in Id, PollFailed(i)
      PROVE  HotPotato' /\ OrphanAccounted'
  BY <1>11
     DEF PollFailed, Polled, Resolve, LetGoOf
<1>12. ASSUME NEW i \in Id, PollCached(i)
      PROVE  HotPotato' /\ OrphanAccounted'
  BY <1>12
     DEF PollCached, Polled, Resolve
<1>13. ASSUME NEW i \in Id, PollCompletes(i)
      PROVE  HotPotato' /\ OrphanAccounted'
  <2>1. HotPotato'
    BY <1>13, SMTT(60)
       DEF PollCompletes, Polled, Resolve, Drain, OrphansAfterDrain, Completed
  <2>2. OrphanAccounted'
    BY <1>13, SMTT(60)
       DEF PollCompletes, Polled, Resolve, Drain, OrphansAfterDrain,
           CacheAfterDrain, Others, Completed
  <2> QED
    BY <2>1, <2>2
<1>14. ASSUME NEW i \in Id, PollPending(i)
      PROVE  HotPotato' /\ OrphanAccounted'
  BY <1>14
     DEF PollPending, Polled, Drain, CacheAfterDrain, OrphansAfterDrain,
         Others, Completed, Woken, Scheduled, ArmWakeup
<1>15. ASSUME NEW i \in Id, PollError(i)
      PROVE  HotPotato' /\ OrphanAccounted'
  BY <1>15
     DEF PollError, Polled
<1>16. ASSUME NEW i \in Id, Tick(i)
      PROVE  HotPotato' /\ OrphanAccounted'
  BY <1>16
     DEF Tick
<1>17. ASSUME NEW i \in Id, SpuriousWake(i)
      PROVE  HotPotato' /\ OrphanAccounted'
  BY <1>17
     DEF SpuriousWake
<1>18. ASSUME NEW i \in Id, DropFuture(i)
      PROVE  HotPotato' /\ OrphanAccounted'
  <2>1. /\ stage' = [stage EXCEPT ![i] = "dropped"]
        /\ bufOf' = bufOf /\ nulls' = nulls /\ kernel' = kernel /\ posted' = posted
        /\ cache' = cache /\ owner' = owner /\ handles' = handles
        /\ shared' = shared /\ answer' = answer
    BY <1>18 DEF DropFuture
  <2>2. CASE stage[i] = "pending" /\ orphans' = orphans \union {i} /\ abandoned' = abandoned
    <3>1. \A j \in Id, x \in Buf : Holds(j, x)' <=> Holds(j, x)
      BY <2>1, <2>2
    <3> QED
      BY <2>1, <2>2, <3>1
  <2>3. CASE stage[i] = "failed" /\ orphans' = orphans /\ LetGoOf({i})
    <3>1. i \notin orphans
      BY <2>3
    <3>2. \A j \in Id, x \in Buf : Holds(j, x)' <=> Holds(j, x) /\ j # i
      BY <2>1, <2>3, <3>1
    <3>3. \A j \in Id : j \in abandoned' <=> j \in abandoned \/ (j = i /\ UsesMemory(j))
      BY <2>3 DEF LetGoOf
    <3> QED
      BY <2>1, <2>3, <3>2, <3>3
  <2> QED
    BY <1>18, <2>2, <2>3 DEF DropFuture
<1>19. CASE ProcessCompletions
  BY <1>19
     DEF ProcessCompletions, LetGoOf
<1>20. CASE DropRing
  BY <1>20
     DEF DropRing, LetGoOf
<1>21. CASE UNCHANGED vars
  BY <1>21 DEF vars
<1> HIDE DEF HotPotato, OrphanAccounted, RingInv, TypeOK
<1> QED
  BY <1>1, <1>2, <1>3, <1>4, <1>5, <1>6, <1>7, <1>8, <1>9, <1>10,
     <1>11, <1>12, <1>13, <1>14, <1>15, <1>16, <1>17, <1>18, <1>19,
     <1>20, <1>21
     DEF Next, UserStep, Submission, Poll

---------------------------------------------------------------------------
(* IInv is an invariant of the specification.                              *)
THEOREM Inductive == Spec => []IInv
<1>1. IInv /\ [Next]_vars => IInv'
  <2> SUFFICES ASSUME IInv, [Next]_vars PROVE IInv'
    OBVIOUS
  <2>1. RingInv
    BY DEF IInv, RingInv
  <2>2. TypeOK'
    BY TypeStep DEF IInv
  <2>3. RingInv'
    BY <2>1, RingStep DEF IInv
  <2>4. HotPotato' /\ OrphanAccounted'
    BY <2>1, HoldersStep DEF IInv
  <2> QED
    BY <2>2, <2>3, <2>4 DEF IInv, RingInv
<1> QED
  BY InitIInv, <1>1, PTL DEF Spec

(* The type invariant holds in every reachable state.                      *)
THEOREM TypeCorrect == Spec => []TypeOK
<1>1. IInv => TypeOK
  BY DEF IInv
<1> QED
  BY <1>1, Inductive, PTL

(* What the kernel may touch and the library has not abandoned is held by  *)
(* a future or an orphan entry.                                            *)
THEOREM KernelMemoryIsHeld == Spec => []KernelBuffersAlive
<1>1. IInv => KernelBuffersAlive
  <2> SUFFICES ASSUME IInv, NEW i \in Id \ abandoned, UsesMemory(i)
               PROVE  Alive(bufOf[i])
    BY DEF KernelBuffersAlive
  <2>1. Live(i) \/ i \in orphans
    BY DEF IInv, KernelHeld, UsesMemory
  <2>2. Holds(i, bufOf[i])
    BY <2>1 DEF Holds
  <2> QED
    BY <2>2 DEF Alive
<1> QED
  BY <1>1, Inductive, PTL

(* A pending future's completion is in exactly one place.                  *)
THEOREM NoCompletionLost == Spec => []CompletionAccounted
<1>1. IInv => CompletionAccounted
  BY DEF IInv
<1> QED
  BY <1>1, Inductive, PTL

(* A buffer that was never shared has one holder.                          *)
THEOREM ExclusiveHolder == Spec => []HotPotato
<1>1. IInv => HotPotato
  BY DEF IInv
<1> QED
  BY <1>1, Inductive, PTL

(* Every orphan entry has one of the three reasons to be there.            *)
THEOREM OrphansExplained == Spec => []OrphanAccounted
<1>1. IInv => OrphanAccounted
  BY DEF IInv
<1> QED
  BY <1>1, Inductive, PTL

(* A sleeping future has its waker registered and a helper task.           *)
THEOREM NoSleepUnarmed == Spec => []WakeupArmed
<1>1. IInv => WakeupArmed
  BY DEF IInv
<1> QED
  BY <1>1, Inductive, PTL

(* Answers reach the future they belong to.                                *)
THEOREM AnswersDelivered == Spec => []ResultFidelity
<1>1. IInv => ResultFidelity
  BY DEF IInv
<1> QED
  BY <1>1, Inductive, PTL

(* A poll that drains an orphan's completion frees the orphan and keeps    *)
(* nothing of it.                                                          *)
THEOREM OrphansReleased == Spec => OrphanReleasedAtDrain
<1>1. IInv /\ [Next]_vars =>
        [\A i \in orphans : (ring' = "open" /\ posted[i] # None /\ posted'[i] = None) =>
                              i \notin orphans' /\ cache'[i] = None]_vars
  <2> SUFFICES ASSUME IInv, [Next]_vars, NEW i \in orphans, i \in Id,
                      ring' = "open", posted[i] # None, posted'[i] = None
               PROVE  i \notin orphans' /\ cache'[i] = None
    BY DEF IInv, TypeOK
  <2>0. i \in Completed /\ stage[i] # "pending"
    BY DEF Completed, IInv, OrphansEnded
  <2>1. ASSUME NEW j \in Id, Drain(j), j # i
        PROVE  i \notin orphans' /\ cache'[i] = None
    BY <2>0, <2>1 DEF Drain, OrphansAfterDrain, CacheAfterDrain, Others
  <2>2. ASSUME NEW j \in Id, PollCompletes(j) \/ PollPending(j)
        PROVE  i \notin orphans' /\ cache'[i] = None
    <3>1. Drain(j) /\ stage[j] = "pending"
      BY <2>2 DEF PollCompletes, PollPending, Polled
    <3> QED
      BY <2>0, <2>1, <3>1
  <2>3. ASSUME NEW j \in Id, NEW r \in Result, KernelComplete(j, r)
        PROVE  FALSE
    BY <2>3 DEF KernelComplete, IInv, TypeOK, Result, None
  <2>4. CASE UNCHANGED posted
    BY <2>4
  <2>5. CASE DropRing
    BY <2>5 DEF DropRing
  <2> QED
    BY <2>2, <2>3, <2>4, <2>5
       DEF Next, UserStep, Submission, Poll, vars, ringVars,
           NewBuffer, CloneHandle, DropHandle, TryAccess, DropGuard,
           SubmitOwned, SubmitOwnedFails, BeginOwned, AcceptSafe,
           AcceptSafeFails, BeginAccept, DropFuture, PollFailed, PollCached,
           PollError, Tick, SpuriousWake, ProcessCompletions
<1> QED
  BY <1>1, Inductive, PTL DEF Spec, OrphanReleasedAtDrain
---------------------------------------------------------------------------
(***************************************************************************)
(* OwnedRing implements Custody, for every set of buffers, every number of *)
(* submissions and every bound on the handles. The steps of a buffer are   *)
(* first stated as changes of three truth values (Legal), so that each     *)
(* action of OwnedRing can be followed by what it does to the user's, the  *)
(* library's and the kernel's claim.                                       *)
(***************************************************************************)

(* The promise about b is forfeited: an abandoned operation works on it.   *)
Loose(b) == \E i \in abandoned : bufOf[i] = b

(* What Custody!Next allows a buffer that is neither cloned nor forfeited, *)
(* claim by claim.                                                         *)
Same(b) == /\ UserHas(b)' <=> UserHas(b)
           /\ LibraryHas(b)' <=> LibraryHas(b)
           /\ KernelHas(b)' <=> KernelHas(b)

Freed(b) == ~UserHas(b)' /\ ~LibraryHas(b)' /\ ~KernelHas(b)'
ToUser(b) == UserHas(b)' /\ ~LibraryHas(b)' /\ ~KernelHas(b)'
ToLibrary(b) == ~UserHas(b)' /\ LibraryHas(b)'

Allocated(b) == /\ ~UserHas(b) /\ ~LibraryHas(b) /\ ~KernelHas(b)
                /\ ToUser(b) \/ ToLibrary(b)

HandedOver(b) ==
  /\ UserHas(b) /\ ~LibraryHas(b) /\ ~KernelHas(b)
  /\ \/ ToLibrary(b) \/ Freed(b)
     \/ UserHas(b)' /\ LibraryHas(b)' /\ ~KernelHas(b)'

Answered(b) == /\ ~UserHas(b) /\ LibraryHas(b) /\ KernelHas(b)
               /\ ToLibrary(b) /\ ~KernelHas(b)'

GivenBack(b) == /\ ~UserHas(b) /\ LibraryHas(b) /\ ~KernelHas(b)
                /\ ToUser(b) \/ Freed(b)

GuardEnded(b) == /\ UserHas(b) /\ LibraryHas(b) /\ ~KernelHas(b)
                 /\ (ToUser(b) \/ ToLibrary(b)) /\ ~KernelHas(b)'

(* The step in which the library lets go of what the kernel has.           *)
LetGo(b) == /\ ~UserHas(b) /\ LibraryHas(b) /\ KernelHas(b)
            /\ ~UserHas(b)' /\ ~LibraryHas(b)' /\ KernelHas(b)'

Legal(b) == \/ Allocated(b) \/ HandedOver(b) \/ Answered(b)
            \/ GivenBack(b) \/ GuardEnded(b)

---------------------------------------------------------------------------
(* The three claims determine the custody set.                             *)
LEMMA CustodyIs ==
  ASSUME NEW b \in Buf
  PROVE  /\ CustodyOf(b) \in SUBSET {"user", "library", "kernel"}
         /\ "user" \in CustodyOf(b) <=> UserHas(b)
         /\ "library" \in CustodyOf(b) <=> LibraryHas(b)
         /\ "kernel" \in CustodyOf(b) <=> KernelHas(b)
         /\ CustodyOf(b)' \in SUBSET {"user", "library", "kernel"}
         /\ ("user" \in CustodyOf(b)') <=> UserHas(b)'
         /\ ("library" \in CustodyOf(b)') <=> LibraryHas(b)'
         /\ ("kernel" \in CustodyOf(b)') <=> KernelHas(b)'
<1>1. /\ UserHas(b) \in BOOLEAN /\ LibraryHas(b) \in BOOLEAN
      /\ KernelHas(b) \in BOOLEAN
  BY DEF UserHas, LibraryHas, KernelHas
<1>2. /\ UserHas(b)' \in BOOLEAN /\ LibraryHas(b)' \in BOOLEAN
      /\ KernelHas(b)' \in BOOLEAN
  BY DEF UserHas, LibraryHas, KernelHas
<1> QED
  BY <1>1, <1>2 DEF CustodyOf, Has

(* A set of parties is determined by its members.                          *)
LEMMA PartySets ==
  ASSUME NEW c \in SUBSET {"user", "library", "kernel"}
  PROVE  /\ "user" \notin c /\ "library" \notin c /\ "kernel" \notin c => c = {}
         /\ "user" \in c /\ "library" \notin c /\ "kernel" \notin c => c = {"user"}
         /\ "user" \notin c /\ "library" \in c /\ "kernel" \notin c => c = {"library"}
         /\ "user" \notin c /\ "library" \notin c /\ "kernel" \in c => c = {"kernel"}
         /\ "user" \in c /\ "library" \in c /\ "kernel" \notin c
              => c = {"user", "library"}
         /\ "user" \notin c /\ "library" \in c /\ "kernel" \in c
              => c = {"library", "kernel"}
<1>1. "user" \notin c /\ "library" \notin c /\ "kernel" \notin c => c = {}
  OBVIOUS
<1>2. "user" \in c /\ "library" \notin c /\ "kernel" \notin c => c = {"user"}
  OBVIOUS
<1>3. "user" \notin c /\ "library" \in c /\ "kernel" \notin c => c = {"library"}
  OBVIOUS
<1>4. "user" \notin c /\ "library" \notin c /\ "kernel" \in c => c = {"kernel"}
  OBVIOUS
<1>5. "user" \in c /\ "library" \in c /\ "kernel" \notin c => c = {"user", "library"}
  OBVIOUS
<1>6. "user" \notin c /\ "library" \in c /\ "kernel" \in c => c = {"library", "kernel"}
  OBVIOUS
<1> QED
  BY <1>1, <1>2, <1>3, <1>4, <1>5, <1>6

LEMMA SameMembers ==
  ASSUME NEW c \in SUBSET {"user", "library", "kernel"},
         NEW d \in SUBSET {"user", "library", "kernel"},
         "user" \in c <=> "user" \in d,
         "library" \in c <=> "library" \in d,
         "kernel" \in c <=> "kernel" \in d
  PROVE  c = d
<1>1. \A p \in c : p \in d
  OBVIOUS
<1>2. \A p \in d : p \in c
  OBVIOUS
<1> QED
  BY <1>1, <1>2

(* A legal change of the claims is a move, or leaves the custody alone.    *)
LEMMA LegalMoves ==
  ASSUME NEW b \in Buf, Legal(b) \/ Same(b)
  PROVE  Promise!Move(b) \/ CustodyOf(b)' = CustodyOf(b)
<1> DEFINE c == CustodyOf(b)
           d == CustodyOf(b)'
<1>0. /\ [x \in Buf |-> CustodyOf(x)][b] = c
      /\ [x \in Buf |-> CustodyOf(x)]'[b] = d
  OBVIOUS
<1>1. /\ c \in SUBSET {"user", "library", "kernel"}
      /\ "user" \in c <=> UserHas(b)
      /\ "library" \in c <=> LibraryHas(b)
      /\ "kernel" \in c <=> KernelHas(b)
  BY CustodyIs
<1>2. /\ d \in SUBSET {"user", "library", "kernel"}
      /\ "user" \in d <=> UserHas(b)'
      /\ "library" \in d <=> LibraryHas(b)'
      /\ "kernel" \in d <=> KernelHas(b)'
  BY CustodyIs
<1> HIDE DEF c, d
<1>3. CASE Same(b)
  <2>1. c = d
    BY <1>1, <1>2, <1>3, SameMembers DEF Same
  <2> QED
    BY <2>1 DEF c, d
<1>4. CASE Legal(b)
  <2>1. CASE Allocated(b)
    <3>1. c = {}
      BY <1>1, <2>1, PartySets DEF Allocated
    <3>2. d \in {{"user"}, {"library"}, {"library", "kernel"}}
      BY <1>1, <1>2, <2>1, <3>1, PartySets DEF Allocated, ToUser, ToLibrary
    <3> QED
      BY <1>0, <3>1, <3>2 DEF Promise!Move, Promise!From, Promise!Allocate
  <2>2. CASE HandedOver(b)
    <3>1. c = {"user"}
      BY <1>1, <2>2, PartySets DEF HandedOver
    <3>2. d \in {{"library", "kernel"}, {"library"}, {"user", "library"}, {}}
      BY <1>1, <1>2, <2>2, <3>1, PartySets DEF HandedOver, Freed, ToLibrary
    <3> QED
      BY <1>0, <3>1, <3>2 DEF Promise!Move, Promise!From, Promise!HandOver
  <2>3. CASE Answered(b)
    <3>1. c = {"library", "kernel"}
      BY <1>1, <2>3, PartySets DEF Answered
    <3>2. d = {"library"}
      BY <1>1, <1>2, <2>3, PartySets DEF Answered, ToLibrary
    <3> QED
      BY <1>0, <3>1, <3>2 DEF Promise!Move, Promise!From, Promise!Answer
  <2>4. CASE GivenBack(b)
    <3>1. c = {"library"}
      BY <1>1, <2>4, PartySets DEF GivenBack
    <3>2. d \in {{"user"}, {}}
      BY <1>1, <1>2, <2>4, <3>1, PartySets DEF GivenBack, Freed, ToUser
    <3> QED
      BY <1>0, <3>1, <3>2 DEF Promise!Move, Promise!From, Promise!GiveBack
  <2>5. CASE GuardEnded(b)
    <3>1. c = {"user", "library"}
      BY <1>1, <2>5, PartySets DEF GuardEnded
    <3>2. d \in {{"library"}, {"user"}}
      BY <1>1, <1>2, <2>5, <3>1, PartySets DEF GuardEnded, ToLibrary, ToUser
    <3> QED
      BY <1>0, <3>1, <3>2 DEF Promise!Move, Promise!From, Promise!GuardEnds
  <2> QED
    BY <1>4, <2>1, <2>2, <2>3, <2>4, <2>5 DEF Legal
<1> QED
  BY <1>3, <1>4

---------------------------------------------------------------------------
(* Letting go forfeits the promise about b.                                *)
LEMMA LetGoForfeits ==
  ASSUME NEW b \in Buf, LetGo(b), Loose(b)'
  PROVE  Promise!Forfeit(b)
<1>1. CustodyOf(b) = {"library", "kernel"} /\ CustodyOf(b)' = {"kernel"}
  BY CustodyIs, PartySets DEF LetGo
<1> QED
  BY <1>1 DEF Loose, Promise!Forfeit, Promise!From

(* Whoever has an unshared buffer that no abandoned operation works on has *)
(* it by the rules.                                                        *)
LEMMA OrderlyCustody ==
  \A b \in Buf : IInv /\ b \notin shared /\ ~Loose(b) => CustodyOf(b) \in Promise!Orderly
<1> SUFFICES ASSUME IInv, NEW b \in Buf, b \notin shared, ~Loose(b)
             PROVE  CustodyOf(b) \in Promise!Orderly
  OBVIOUS
<1>1. KernelHas(b) => LibraryHas(b) /\ ~UserHas(b)
  <2> SUFFICES ASSUME NEW i \in Id, UsesMemory(i), bufOf[i] = b
               PROVE  LibraryHas(b) /\ ~UserHas(b)
    BY DEF KernelHas
  <2>1. i \notin abandoned
    BY DEF Loose
  <2>2. Holds(i, b)
    BY <2>1 DEF IInv, KernelHeld, UsesMemory, Holds
  <2> QED
    BY <2>1, <2>2 DEF IInv, TypeOK, HotPotato, Claims, LibraryHas, UserHas
<1> QED
  BY <1>1, CustodyIs, PartySets DEF Promise!Orderly

LEMMA OrderlyStep ==
  (\A b \in Buf : IInv /\ b \notin shared /\ ~Loose(b) => CustodyOf(b) \in Promise!Orderly)'
  BY OrderlyCustody, PTL

---------------------------------------------------------------------------
(* What a step of OwnedRing does to one buffer inside the promise.         *)
Moves(b) == \/ Loose(b)' /\ LetGo(b)
            \/ ~Loose(b)' /\ Legal(b)
            \/ ~Loose(b)' /\ b \notin shared /\ Same(b)

LEMMA ClaimStep ==
  ASSUME TypeOK, RingInv, HotPotato, [Next]_vars,
         NEW b \in Buf, b \notin shared', ~Loose(b)
  PROVE  Moves(b)
<1> USE MaxSubAssumption, BufAssumption
        DEF TypeOK, Id, Stage, Result, None, Live, Moves, Loose,
            futureVars, ringVars, taskVars, bufVars,
            RingInv, FreshIds, OneAnswer, KernelHeld, AbandonedLoose, OrphansEnded,
            UsesMemory, HotPotato, Claims, Holds, IsAccept,
            UserHas, LibraryHas, KernelHas, Same, Legal, Allocated,
            HandedOver, Answered, GivenBack, GuardEnded, LetGo,
            Freed, ToUser, ToLibrary
<1>1. ASSUME NEW x \in Buf, NewBuffer(x)
      PROVE  Moves(b)
  BY <1>1
     DEF NewBuffer, Unallocated, Alive
<1>2. ASSUME NEW x \in Buf, CloneHandle(x)
      PROVE  Moves(b)
  BY <1>2
     DEF CloneHandle
<1>3. ASSUME NEW x \in Buf, DropHandle(x)
      PROVE  Moves(b)
  BY <1>3
     DEF DropHandle
<1>4. ASSUME NEW x \in Buf, TryAccess(x)
      PROVE  Moves(b)
  BY <1>4
     DEF TryAccess
<1>5. ASSUME NEW x \in Buf, DropGuard(x)
      PROVE  Moves(b)
  BY <1>5
     DEF DropGuard
<1>6. ASSUME NEW i \in Id, NEW x \in Buf, SubmitOwned(i, x)
      PROVE  Moves(b)
  BY <1>6
     DEF SubmitOwned, BeginOwned, TakeId, Owns, GiveUp, Accepted, AsPtrAndLen
<1>7. ASSUME NEW i \in Id, NEW x \in Buf, SubmitOwnedFails(i, x)
      PROVE  Moves(b)
  BY <1>7
     DEF SubmitOwnedFails, BeginOwned, TakeId, Owns, GiveUp, Refused,
         QueuedWithError, AsPtrAndLen
<1>8. ASSUME NEW i \in Id, NEW x \in Buf, AcceptSafe(i, x)
      PROVE  Moves(b)
  BY <1>8
     DEF AcceptSafe, BeginAccept, TakeId, Unallocated, Alive, Accepted
<1>9. ASSUME NEW i \in Id, NEW x \in Buf, AcceptSafeFails(i, x)
      PROVE  Moves(b)
  BY <1>9
     DEF AcceptSafeFails, BeginAccept, TakeId, Unallocated, Alive, Refused,
         QueuedWithError
<1>10. ASSUME NEW i \in Id, NEW r \in Result, KernelComplete(i, r)
      PROVE  Moves(b)
  BY <1>10
     DEF KernelComplete
<1>11. ASSUME NEW i \in Id, PollFailed(i)
      PROVE  Moves(b)
  BY <1>11
     DEF PollFailed, Polled, Resolve, LetGoOf
<1>12. ASSUME NEW i \in Id, PollCached(i)
      PROVE  Moves(b)
  BY <1>12
     DEF PollCached, Polled, Resolve
<1>13. ASSUME NEW i \in Id, PollCompletes(i)
      PROVE  Moves(b)
  BY <1>13
     DEF PollCompletes, Polled, Resolve, Drain, OrphansAfterDrain, Completed
<1>14. ASSUME NEW i \in Id, PollPending(i)
      PROVE  Moves(b)
  BY <1>14
     DEF PollPending, Polled, Drain, OrphansAfterDrain, Completed
<1>15. ASSUME NEW i \in Id, PollError(i)
      PROVE  Moves(b)
  BY <1>15
     DEF PollError, Polled
<1>16. ASSUME NEW i \in Id, Tick(i)
      PROVE  Moves(b)
  BY <1>16
     DEF Tick
<1>17. ASSUME NEW i \in Id, SpuriousWake(i)
      PROVE  Moves(b)
  BY <1>17
     DEF SpuriousWake
<1>18. ASSUME NEW i \in Id, DropFuture(i)
      PROVE  Moves(b)
  <2>1. /\ stage' = [stage EXCEPT ![i] = "dropped"]
        /\ bufOf' = bufOf /\ nulls' = nulls /\ kernel' = kernel /\ posted' = posted
        /\ cache' = cache /\ owner' = owner /\ handles' = handles
        /\ shared' = shared /\ answer' = answer
    BY <1>18 DEF DropFuture
  <2>2. CASE stage[i] = "pending" /\ orphans' = orphans \union {i} /\ abandoned' = abandoned
    <3>1. \A j \in Id, x \in Buf : Holds(j, x)' <=> Holds(j, x)
      BY <2>1, <2>2
    <3> QED
      BY <2>1, <2>2, <3>1
  <2>3. CASE stage[i] = "failed" /\ orphans' = orphans /\ LetGoOf({i})
    <3>1. i \notin orphans
      BY <2>3
    <3>2. \A j \in Id, x \in Buf : Holds(j, x)' <=> Holds(j, x) /\ j # i
      BY <2>1, <2>3, <3>1
    <3>3. /\ abandoned' \subseteq Id
          /\ \A j \in Id : j \in abandoned' <=> j \in abandoned \/ (j = i /\ UsesMemory(j))
      BY <2>3 DEF LetGoOf
    <3>0. i \notin abandoned
      BY <2>3
    <3>4. /\ UserHas(b)' <=> UserHas(b)
          /\ KernelHas(b)' <=> KernelHas(b)
          /\ LibraryHas(b)' <=> \E j \in Id \ {i} : Holds(j, b)
      BY <2>1, <3>2
    <3>5. CASE bufOf[i] # b
      <4>1. ~Loose(b)' /\ Same(b)
        BY <2>1, <3>3, <3>4, <3>5
      <4> QED
        BY <2>1, <4>1
    <3>6. CASE bufOf[i] = b
      <4>1. handles[b] = 0 /\ LibraryHas(b) /\ ~LibraryHas(b)'
        BY <2>1, <2>3, <3>4, <3>6
      <4>2. CASE UsesMemory(i)
        <5>1. Loose(b)' /\ KernelHas(b)
          BY <2>1, <3>3, <3>6, <4>2
        <5>2. ~UserHas(b)
          BY <2>1, <3>0, <3>6, <4>1, <4>2
        <5> HIDE DEF UserHas, LibraryHas, KernelHas, Loose
        <5> QED
          BY <3>4, <4>1, <5>1, <5>2
      <4>3. CASE ~UsesMemory(i)
        <5>1. ~Loose(b)'
          BY <2>1, <3>3, <4>3
        <5>2. ASSUME NEW j \in Id, UsesMemory(j), bufOf[j] = b
              PROVE  FALSE
          <6>1. Holds(j, b)
            BY <5>2
          <6>2. Holds(i, b) /\ b \notin shared
            BY <2>1, <2>3, <3>6
          <6> QED
            BY <4>3, <5>2, <6>1, <6>2
        <5>3. ~KernelHas(b)
          BY <5>2
        <5> HIDE DEF UserHas, LibraryHas, KernelHas, Loose
        <5> QED
          BY <3>4, <4>1, <5>1, <5>3
      <4> QED
        BY <4>2, <4>3
    <3> QED
      BY <3>5, <3>6
  <2> QED
    BY <1>18, <2>2, <2>3 DEF DropFuture
<1>19. CASE ProcessCompletions
  BY <1>19
     DEF ProcessCompletions, LetGoOf
<1>20. CASE DropRing
  BY <1>20
     DEF DropRing, LetGoOf
<1>21. CASE UNCHANGED vars
  BY <1>21
     DEF vars
<1> HIDE DEF Moves, HotPotato, RingInv, TypeOK
<1> QED
  BY <1>1, <1>2, <1>3, <1>4, <1>5, <1>6, <1>7, <1>8, <1>9, <1>10,
     <1>11, <1>12, <1>13, <1>14, <1>15, <1>16, <1>17, <1>18, <1>19,
     <1>20, <1>21
     DEF Next, UserStep, Submission, Poll

---------------------------------------------------------------------------
(* A buffer becomes shared by clone_handle, which needs a handle.          *)
LEMMA SharedByClone ==
  ASSUME [Next]_vars, NEW b \in shared', b \notin shared
  PROVE  UserHas(b)
<1>1. ASSUME NEW x \in Buf, CloneHandle(x)
      PROVE  UserHas(b)
  <2>1. b = x
    BY <1>1 DEF CloneHandle
  <2> QED
    BY <1>1, <2>1, MaxHandlesAssumption DEF CloneHandle, UserHas
<1>2. CASE UNCHANGED shared
  BY <1>2
<1>3. ASSUME NEW x \in Buf, shared' = shared \ {x}
      PROVE  UserHas(b)
  BY <1>3
<1> QED
  BY <1>1, <1>2, <1>3
     DEF Next, UserStep, Submission, Poll, vars, bufVars,
         NewBuffer, DropHandle, TryAccess, DropGuard,
         SubmitOwned, SubmitOwnedFails, BeginOwned, AcceptSafe,
         AcceptSafeFails, BeginAccept, KernelComplete, DropFuture, PollFailed,
         PollCached, PollCompletes, PollPending, PollError, Tick, SpuriousWake,
         ProcessCompletions, DropRing

(* The initial states agree: no buffer exists, so nobody has one.          *)
LEMMA InitAgrees == Init => Promise!Init
<1> SUFFICES ASSUME Init PROVE Promise!Init
  OBVIOUS
<1>1. ASSUME NEW b \in Buf
      PROVE  CustodyOf(b) = {}
  <2>1. ~UserHas(b) /\ ~LibraryHas(b) /\ ~KernelHas(b)
    BY BufAssumption DEF Init, UserHas, LibraryHas, KernelHas, Holds, Live, UsesMemory
  <2> QED
    BY <2>1, CustodyIs, PartySets
<1> QED
  BY <1>1 DEF Init, Promise!Init

(* A step of the Ring is a step of the promise.                            *)
LEMMA StepAgrees == IInv /\ [Next]_vars /\ IInv' => [Promise!Next]_(Promise!vars)
<1> SUFFICES ASSUME IInv, [Next]_vars, IInv' PROVE Promise!Next
  OBVIOUS
<1> DEFINE custody == [b \in Buf |-> CustodyOf(b)]
           forfeited == {bufOf[i] : i \in abandoned}
<1>1. custody' \in [Buf -> SUBSET {"user", "library", "kernel"}]
  BY CustodyIs
<1>2. shared' \subseteq Buf /\ forfeited' \subseteq Buf
  BY DEF IInv, TypeOK, FreshIds
<1>3. ASSUME NEW b \in Buf
      PROVE  (b \in forfeited <=> Loose(b)) /\ (b \in forfeited' <=> Loose(b)')
  BY DEF Loose
<1>4. ASSUME NEW b \in Buf
      PROVE  \/ Promise!Clone(b)
             \/ b \notin shared' /\ (Promise!Forfeit(b) \/ Promise!Recover(b))
             \/ Promise!Inside(b) /\ Promise!Move(b)
             \/ Promise!Inside(b) /\ b \notin shared /\ custody'[b] = custody[b]
  <2>1. CASE b \in shared'
    BY <2>1, SharedByClone, CustodyIs DEF Promise!Clone
  <2>2. CASE b \notin shared' /\ Loose(b) /\ Loose(b)'
    BY <1>3, <2>2 DEF Promise!Forfeit
  <2>3. CASE b \notin shared' /\ Loose(b) /\ ~Loose(b)'
    <3>1. CustodyOf(b)' \in Promise!Orderly
      BY <2>3, OrderlyStep
    <3> QED
      BY <1>3, <2>3, <3>1 DEF Promise!Recover
  <2>4. CASE b \notin shared' /\ ~Loose(b)
    <3>1. Moves(b)
      BY <2>4, ClaimStep DEF IInv, RingInv
    <3>2. CASE Loose(b)' /\ LetGo(b)
      BY <2>4, <3>2, LetGoForfeits
    <3>3. CASE ~Loose(b)' /\ Legal(b)
      <4>1. Promise!Move(b) \/ CustodyOf(b)' = CustodyOf(b)
        BY <3>3, LegalMoves
      <4>2. CustodyOf(b)' # CustodyOf(b)
        BY <3>3, CustodyIs DEF Legal, Allocated, HandedOver, Answered,
           GivenBack, GuardEnded, Freed, ToUser, ToLibrary
      <4>3. Promise!Inside(b)
        BY <1>3, <2>4, <3>3 DEF Promise!Inside
      <4> QED
        BY <4>1, <4>2, <4>3
    <3>4. CASE ~Loose(b)' /\ b \notin shared /\ Same(b)
      <4>1. CustodyOf(b)' = CustodyOf(b)
        BY <3>4, CustodyIs, SameMembers DEF Same
      <4>2. Promise!Inside(b)
        BY <1>3, <2>4, <3>4 DEF Promise!Inside
      <4> QED
        BY <3>4, <4>1, <4>2
    <3> QED
      BY <3>1, <3>2, <3>3, <3>4 DEF Moves
  <2> QED
    BY <2>1, <2>2, <2>3, <2>4
<1> QED
  BY <1>1, <1>2, <1>4 DEF Promise!Next, Promise!Party

(* Every run of the Ring keeps the promise about its buffers, for every    *)
(* set of buffers and every number of submissions (ownership.rs 9-14).     *)
THEOREM RingKeepsPromise == Spec => Implements
  BY InitAgrees, StepAgrees, Inductive, PTL DEF Spec, Implements, Promise!Spec
=============================================================================
