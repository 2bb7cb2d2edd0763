--------------------------- MODULE BuffersProofs ----------------------------
(***************************************************************************)
(* Proofs about Buffers. For the pool, with any number of threads and      *)
(* buffers, the conjunction TypeOK /\ OneOwner /\ Counted is inductive.    *)
(* For the group, with any number of indices and of buffers, GroupInv is:  *)
(* it says of every index, until one is returned by a caller that does not *)
(* have it, whether it is lent or listed.                                  *)
(***************************************************************************)
EXTENDS Buffers, FiniteSetTheorems, TLAPS

PoolInv == TypeOK /\ OneOwner /\ Counted

(* The head of a non-empty sequence is one of its elements, the tail holds *)
(* the others in the same order.                                           *)
LEMMA TailElements ==
  ASSUME NEW S, NEW s \in Seq(S), s # <<>>
  PROVE  /\ Tail(s) \in Seq(S) /\ Head(s) \in S
         /\ Len(s) \in Nat \ {0} /\ Len(Tail(s)) = Len(s) - 1
         /\ Head(s) = s[1]
         /\ \A k \in 1 .. Len(Tail(s)) : Tail(s)[k] = s[k + 1]
  OBVIOUS

(* Append adds one element at the end and changes no other.                *)
LEMMA AppendElements ==
  ASSUME NEW S, NEW s \in Seq(S), NEW e \in S
  PROVE  /\ Append(s, e) \in Seq(S)
         /\ Len(s) \in Nat /\ Len(Append(s, e)) = Len(s) + 1
         /\ Append(s, e)[Len(s) + 1] = e
         /\ \A k \in 1 .. Len(s) : Append(s, e)[k] = s[k]
  OBVIOUS

(* The capacity is a positive number.                                      *)
LEMMA CapacityPositive == Capacity \in Nat /\ Capacity > 0
  <1>1. Cardinality(Buffer) \in Nat
    BY BufferAssumption, FS_CardinalityType
  <1>2. Cardinality(Buffer) # 0
    BY BufferAssumption, FS_EmptySet
  <1> QED BY <1>1, <1>2 DEF Capacity

(* Moving one buffer into a set of buffers adds one to its size.           *)
LEMMA OneMore ==
  ASSUME NEW S \in SUBSET Buffer, NEW b \in Buffer, b \notin S
  PROVE  /\ Cardinality(S) \in Nat
         /\ Cardinality(S \union {b}) = Cardinality(S) + 1
  <1>1. IsFiniteSet(S) BY BufferAssumption, FS_Subset
  <1> QED BY <1>1, FS_CardinalityType, FS_AddElement

(* Moving one buffer out takes one away.                                   *)
LEMMA OneLess ==
  ASSUME NEW S \in SUBSET Buffer, NEW b \in S
  PROVE  /\ Cardinality(S) \in Nat \ {0}
         /\ Cardinality(S \ {b}) = Cardinality(S) - 1
  <1>1. IsFiniteSet(S) BY BufferAssumption, FS_Subset
  <1>2. Cardinality(S) \in Nat BY <1>1, FS_CardinalityType
  <1>3. Cardinality(S \ {b}) = Cardinality(S) - 1 /\ IsFiniteSet(S \ {b})
    BY <1>1, FS_RemoveElement
  <1>4. Cardinality(S \ {b}) \in Nat BY <1>3, FS_CardinalityType
  <1> QED BY <1>2, <1>3, <1>4

(* A new pool has every buffer in its free list once.                      *)
LEMMA InitHolds == Init => PoolInv
  <1> SUFFICES ASSUME Init PROVE PoolInv
    OBVIOUS
  <1>1. available \in Seq(Buffer) /\ Len(available) = Capacity
    BY CapacityPositive DEF Init
  <1>2. TypeOK
    BY <1>1, MaxCountAssumption DEF Init, TypeOK, Calls
  <1>3. \A j, k \in 1 .. Len(available) : available[j] = available[k] => j = k
    <2>1. available \in Surjection(1 .. Capacity, Buffer)
      BY <1>1 DEF Init, Free, Surjection
    <2>2. IsFiniteSet(1 .. Capacity) /\ Cardinality(1 .. Capacity) = Capacity
      BY CapacityPositive, FS_Interval
    <2>3. available \in Injection(1 .. Capacity, Buffer)
      BY <2>1, <2>2, BufferAssumption, FS_SurjSameCardinalityImpliesInj DEF Capacity
    <2>4. DOMAIN available = 1 .. Len(available) BY <1>1
    <2> QED BY <2>3, <2>4 DEF Injection, IsInjective
  <1>4. Counted
    BY <1>1, FS_EmptySet, CapacityPositive DEF Init, Counted
  <1>5. OneOwner
    BY <1>3 DEF Init, OneOwner
  <1> QED BY <1>2, <1>4, <1>5 DEF PoolInv

(* Taking the buffer at the head of the free list.                         *)
LEMMA TakeHolds ==
  ASSUME PoolInv, Take, call' \in [Thread -> Calls]
  PROVE  PoolInv'
  <1> DEFINE b == Head(available)
  <1>1. /\ available' \in Seq(Buffer) /\ b \in Buffer
        /\ Len(available) \in Nat \ {0} /\ Len(available') = Len(available) - 1
        /\ b = available[1]
        /\ \A k \in 1 .. Len(available') : available'[k] = available[k + 1]
    BY TailElements DEF PoolInv, TypeOK, Take
  <1>2. Free = Free' \union {b} /\ b \notin Free'
    <2>1. Free \subseteq Free' \union {b}
      <3> SUFFICES ASSUME NEW k \in 1 .. Len(available), k # 1
                   PROVE  available[k] \in Free'
        BY <1>1 DEF Free
      <3>1. k - 1 \in 1 .. Len(available') /\ available'[k - 1] = available[k]
        BY <1>1
      <3> QED BY <3>1 DEF Free
    <2>2. Free' \union {b} \subseteq Free
      <3>1. b \in Free BY <1>1 DEF Free
      <3>2. ASSUME NEW k \in 1 .. Len(available') PROVE available'[k] \in Free
        <4>1. k + 1 \in 1 .. Len(available) /\ available'[k] = available[k + 1]
          BY <1>1
        <4> QED BY <4>1 DEF Free
      <3> QED BY <3>1, <3>2 DEF Free
    <2>3. ASSUME NEW k \in 1 .. Len(available'), available'[k] = b PROVE FALSE
      <3>1. k + 1 \in 1 .. Len(available) /\ available[k + 1] = available[1] /\ k + 1 # 1
        BY <1>1, <2>3
      <3>2. 1 \in 1 .. Len(available) BY <1>1
      <3> QED BY <3>1, <3>2 DEF PoolInv, OneOwner
    <2> QED BY <2>1, <2>2, <2>3 DEF Free
  <1>3. OneOwner'
    <2>1. ASSUME NEW j \in 1 .. Len(available'), NEW k \in 1 .. Len(available'),
                 available'[j] = available'[k]
          PROVE  j = k
      <3>1. /\ j + 1 \in 1 .. Len(available) /\ k + 1 \in 1 .. Len(available)
            /\ available[j + 1] = available[k + 1]
        BY <1>1, <2>1
      <3>2. j + 1 = k + 1 BY <3>1 DEF PoolInv, OneOwner
      <3> QED BY <3>2
    <2> QED BY <1>2, <2>1 DEF PoolInv, OneOwner, Take
  <1>4. Counted'
    <2>1. b \notin held /\ held \in SUBSET Buffer
      BY <1>2 DEF PoolInv, OneOwner, TypeOK
    <2>2. /\ Cardinality(held) \in Nat
          /\ Cardinality(held \union {b}) = Cardinality(held) + 1
      BY <2>1, <1>1, OneMore
    <2>3. Cardinality(detached) \in Nat
      BY BufferAssumption, FS_Subset, FS_CardinalityType DEF PoolInv, TypeOK
    <2>4. Cardinality(held') + Cardinality(detached') = inUse'
      BY <2>2, <2>3 DEF Take, PoolInv, Counted
    <2>5. Len(available') + inUse' = Capacity /\ inUse' <= Capacity
      BY <1>1, CapacityPositive DEF Take, PoolInv, Counted, TypeOK
    <2>6. total' >= inUse'
      BY <2>5, MaxCountAssumption, CapacityPositive
         DEF Take, Bump, PoolInv, Counted, TypeOK, Capacity
    <2> QED BY <2>4, <2>5, <2>6 DEF Counted
  <1>5. TypeOK'
    BY <1>1, MaxCountAssumption DEF PoolInv, TypeOK, Take, Bump
  <1> QED BY <1>3, <1>4, <1>5 DEF PoolInv

(* A miss changes a monitoring counter only.                               *)
LEMMA MissHolds ==
  ASSUME PoolInv, Miss, call' \in [Thread -> Calls]
  PROVE  PoolInv'
  BY MaxCountAssumption
     DEF PoolInv, TypeOK, OneOwner, Counted, Free, Miss, Bump, outside

(* Dropping a PooledBuffer puts its buffer back, and the saturating        *)
(* subtraction subtracts.                                                  *)
LEMMA DropHolds ==
  ASSUME PoolInv, NEW b \in Buffer, Drop(b)
  PROVE  PoolInv'
  <1>1. /\ available' \in Seq(Buffer) /\ Len(available) \in Nat
        /\ Len(available') = Len(available) + 1
        /\ available'[Len(available) + 1] = b
        /\ \A k \in 1 .. Len(available) : available'[k] = available[k]
    BY AppendElements DEF PoolInv, TypeOK, Drop
  <1>2. b \notin Free /\ b \notin detached
    BY DEF PoolInv, OneOwner, Drop
  <1>3. Free' = Free \union {b}
    <2>1. \A k \in 1 .. Len(available') : available'[k] \in Free \union {b}
      BY <1>1 DEF Free
    <2>2. b \in Free'
      <3>1. Len(available) + 1 \in 1 .. Len(available') BY <1>1
      <3> QED BY <3>1, <1>1 DEF Free
    <2>3. ASSUME NEW k \in 1 .. Len(available) PROVE available[k] \in Free'
      <3>1. k \in 1 .. Len(available') /\ available'[k] = available[k] BY <1>1
      <3> QED BY <3>1 DEF Free
    <2> QED BY <2>1, <2>2, <2>3 DEF Free
  <1>4. OneOwner'
    <2>1. ASSUME NEW j \in 1 .. Len(available'), NEW k \in 1 .. Len(available'),
                 available'[j] = available'[k], j < k
          PROVE  FALSE
      <3>1. j \in 1 .. Len(available) /\ available'[j] = available[j]
        BY <1>1, <2>1
      <3>2. CASE k = Len(available) + 1
        BY <3>1, <3>2, <2>1, <1>1, <1>2 DEF Free
      <3>3. CASE k # Len(available) + 1
        <4>1. k \in 1 .. Len(available) /\ available'[k] = available[k]
          BY <3>3, <1>1
        <4>2. j = k BY <3>1, <4>1, <2>1 DEF PoolInv, OneOwner
        <4> QED BY <4>2, <3>1, <2>1, <1>1
      <3> QED BY <3>2, <3>3
    <2>2. \A j, k \in 1 .. Len(available') : available'[j] = available'[k] => j = k
      <3> SUFFICES ASSUME NEW j \in 1 .. Len(available'), NEW k \in 1 .. Len(available'),
                          available'[j] = available'[k], j # k
                   PROVE FALSE
        OBVIOUS
      <3>1. j < k \/ k < j BY <1>1
      <3> QED BY <3>1, <2>1
    <2> QED BY <2>2, <1>2, <1>3 DEF PoolInv, OneOwner, Drop
  <1>5. Counted'
    <2>1. /\ Cardinality(held) \in Nat \ {0}
          /\ Cardinality(held \ {b}) = Cardinality(held) - 1
      BY OneLess DEF PoolInv, TypeOK, Drop
    <2>2. Cardinality(detached) \in Nat
      BY BufferAssumption, FS_Subset, FS_CardinalityType DEF PoolInv, TypeOK
    <2>3. inUse \in Nat /\ inUse # 0 /\ inUse' = inUse - 1
      BY <2>1, <2>2 DEF Drop, PoolInv, Counted, TypeOK
    <2>4. Cardinality(held') + Cardinality(detached') = inUse'
      BY <2>1, <2>2, <2>3 DEF Drop, PoolInv, Counted
    <2>5. Len(available') + inUse' = Capacity
      BY <1>1, <2>3, CapacityPositive DEF PoolInv, Counted
    <2>6. total' >= inUse'
      BY <2>3 DEF Drop, PoolInv, Counted, TypeOK
    <2> QED BY <2>4, <2>5, <2>6 DEF Counted
  <1>6. TypeOK'
    BY <1>1 DEF PoolInv, TypeOK, Drop
  <1> QED BY <1>4, <1>5, <1>6 DEF PoolInv

(* detach moves a buffer from one side of the account to the other.        *)
LEMMA DetachHolds ==
  ASSUME PoolInv, NEW b \in Buffer, Detach(b)
  PROVE  PoolInv'
  <1>1. /\ Cardinality(held) \in Nat \ {0}
        /\ Cardinality(held \ {b}) = Cardinality(held) - 1
    BY OneLess DEF PoolInv, TypeOK, Detach
  <1>2. /\ Cardinality(detached) \in Nat
        /\ Cardinality(detached \union {b}) = Cardinality(detached) + 1
    BY OneMore DEF PoolInv, TypeOK, OneOwner, Detach
  <1>3. Counted'
    BY <1>1, <1>2 DEF Detach, PoolInv, Counted
  <1>4. OneOwner'
    BY DEF PoolInv, OneOwner, Detach, Free
  <1>5. TypeOK'
    BY DEF PoolInv, TypeOK, Detach
  <1> QED BY <1>3, <1>4, <1>5 DEF PoolInv

(* The conjunction is inductive.                                           *)
LEMMA Inductive == PoolInv /\ [Next]_vars => PoolInv'
  <1> SUFFICES ASSUME PoolInv, [Next]_vars PROVE PoolInv'
    OBVIOUS
  <1>1. ASSUME NEW t \in Thread, Get(t) \/ Retry(t) PROVE PoolInv'
    <2>1. CASE Look(t)
      BY <2>1 DEF PoolInv, TypeOK, OneOwner, Counted, Free, Look, outside, Calls
    <2>2. CASE ~Look(t)
      <3>1. Take \/ Miss
        BY <1>1, <2>2 DEF Get, TryGet, FinishFast, GetBlocking, Retry
      <3>2. call' \in [Thread -> Calls]
        BY <1>1, <2>2 DEF PoolInv, TypeOK, Calls, Get, TryGet, FinishFast,
                          GetBlocking, Retry
      <3> QED BY <3>1, <3>2, TakeHolds, MissHolds
    <2> QED BY <2>1, <2>2
  <1>2. ASSUME NEW b \in Buffer, Drop(b) \/ Detach(b) PROVE PoolInv'
    BY <1>2, DropHolds, DetachHolds
  <1>3. CASE UNCHANGED vars
    BY <1>3 DEF PoolInv, TypeOK, OneOwner, Counted, Free, vars
  <1> QED BY <1>1, <1>2, <1>3 DEF Next

(* What the numbers say about the pool follows from how they add up.       *)
LEMMA NumbersTell == PoolInv => Reported
  <1> SUFFICES ASSUME PoolInv PROVE Reported
    OBVIOUS
  <1>1. /\ Len(available) \in Nat /\ inUse \in Nat /\ Capacity \in Nat \ {0}
        /\ Len(available) + inUse = Capacity
    BY CapacityPositive DEF PoolInv, TypeOK, Counted
  <1>2. available = <<>> <=> Len(available) = 0
    BY DEF PoolInv, TypeOK
  <1>3. inUse = 0 <=> held \union detached = {}
    <2>1. IsFiniteSet(held) /\ IsFiniteSet(detached)
      BY FS_Subset, BufferAssumption DEF PoolInv, TypeOK
    <2>2. /\ Cardinality(held) \in Nat /\ Cardinality(detached) \in Nat
          /\ Cardinality(held) = 0 <=> held = {}
          /\ Cardinality(detached) = 0 <=> detached = {}
      BY <2>1, FS_EmptySet, FS_CardinalityType
    <2>3. inUse = 0 <=> Cardinality(held) = 0 /\ Cardinality(detached) = 0
      BY <2>2 DEF PoolInv, Counted
    <2> QED BY <2>2, <2>3
  <1>4. /\ Len(available) = 0 <=> inUse = Capacity
        /\ Len(available) = Capacity <=> inUse = 0
        /\ inUse = Capacity => 5 * inUse > 4 * Capacity
    BY <1>1
  <1>5. /\ Snapshot.is_empty <=> available = <<>>
        /\ Snapshot.is_full <=> Len(available) = Capacity
        /\ Stats.in_use = inUse /\ Stats.capacity = Capacity
    BY DEF Snapshot, Stats
  <1> QED BY <1>2, <1>3, <1>4, <1>5 DEF Reported, IsUnderPressure

(* The invariant of every pool.                                            *)
LEMMA PoolInvariant == Spec => []PoolInv
  BY InitHolds, Inductive, PTL DEF Spec

(* The pool's variables keep their types (buffer_pool.rs).                 *)
THEOREM TypeCorrect == Spec => []TypeOK
  <1>1. PoolInv => TypeOK BY DEF PoolInv
  <1> QED BY <1>1, PoolInvariant, PTL

(* No interleaving of get, fast get, blocking get, drop and detach gives a *)
(* buffer two owners or loses one.                                         *)
THEOREM BuffersHaveOneOwner == Spec => []OneOwner
  <1>1. PoolInv => OneOwner BY DEF PoolInv
  <1> QED BY <1>1, PoolInvariant, PTL

(* Free plus in use is the capacity whenever the lock is free, hence the   *)
(* saturating subtraction in Drop never hides a miscount, and what stats   *)
(* and snapshot report of the pool is so.                                  *)
THEOREM CountsAddUp == Spec => []Accounting
  <1>1. PoolInv => Accounting BY NumbersTell DEF PoolInv, Accounting
  <1> QED BY <1>1, PoolInvariant, PTL

---------------------------------------------------------------------------
(* The group. How many of its indices exist.                               *)
Existing == Group!AsIndex(buffer_count)

GroupTypes ==
  /\ buffer_count \in Counts
  /\ available_buffers \in Seq(Group!Index)
  /\ lent \in [Group!Index -> Nat]
  /\ misused \in BOOLEAN

(* Every index that exists is once in the free list or once with a caller. *)
GroupOwned ==
  /\ \A j, k \in 1 .. Len(available_buffers) :
       available_buffers[j] = available_buffers[k] => j = k
  /\ \A k \in 1 .. Len(available_buffers) :
       available_buffers[k] < Existing /\ lent[available_buffers[k]] = 0
  /\ \A i \in Group!Index : lent[i] = 0 \/ (lent[i] = 1 /\ i < Existing)
  /\ \A i \in Group!Index : i < Existing /\ lent[i] = 0 =>
       \E k \in 1 .. Len(available_buffers) : available_buffers[k] = i

GroupInv == GroupTypes /\ (~misused => GroupOwned)

(* `n as u16` is an index at most, and no more than n.                     *)
LEMMA AsIndexFacts ==
  ASSUME NEW n \in Nat
  PROVE  Group!AsIndex(n) \in 0 .. (Wrap - 1) /\ Group!AsIndex(n) =< n
  BY WrapAssumption DEF Group!AsIndex

LEMMA GroupStarts == Group!Init => GroupInv
  <1> SUFFICES ASSUME Group!Init PROVE GroupInv OBVIOUS
  <1>0. /\ buffer_count \in Counts /\ misused = FALSE
        /\ lent = [i \in Group!Index |-> 0]
        /\ available_buffers = [k \in 1 .. Existing |-> k - 1]
    BY DEF Group!Init, Existing
  <1>1. buffer_count \in Nat BY <1>0, CountsAssumption
  <1>2. Existing \in 0 .. (Wrap - 1) BY <1>1, AsIndexFacts DEF Existing
  <1>4. \A k \in 1 .. Existing : k - 1 \in Group!Index
    BY <1>2, WrapAssumption DEF Group!Index
  <1>5. available_buffers \in Seq(Group!Index) /\ Len(available_buffers) = Existing
    BY <1>0, <1>2, <1>4
  <1>6. \A k \in 1 .. Existing : available_buffers[k] = k - 1 BY <1>0
  <1>7. lent \in [Group!Index -> Nat] /\ \A i \in Group!Index : lent[i] = 0 BY <1>0
  <1>8. GroupTypes BY <1>0, <1>5, <1>7 DEF GroupTypes
  <1>9. GroupOwned
    <2>1. ASSUME NEW i \in Group!Index, i < Existing
          PROVE  \E k \in 1 .. Existing : available_buffers[k] = i
      <3>1. i + 1 \in 1 .. Existing /\ (i + 1) - 1 = i
        BY <1>2, <2>1, WrapAssumption DEF Group!Index
      <3> QED BY <1>6, <3>1
    <2>2. \A j, k \in 1 .. Existing :
            available_buffers[j] = available_buffers[k] => j = k
      BY <1>2, <1>6
    <2>3. \A k \in 1 .. Existing :
            available_buffers[k] < Existing /\ lent[available_buffers[k]] = 0
      BY <1>2, <1>4, <1>6, <1>7
    <2> QED BY <1>5, <1>7, <2>1, <2>2, <2>3 DEF GroupOwned
  <1> QED BY <1>8, <1>9 DEF GroupInv

(* get_buffer lends the head of the list.                                  *)
LEMMA GroupGets ==
  ASSUME GroupInv, Group!GetBuffer
  PROVE  GroupInv'
  <1> USE DEF GroupInv
  <1> DEFINE h == Head(available_buffers)
             n == Len(available_buffers)
  <1>1. /\ available_buffers' = Tail(available_buffers)
        /\ lent' = [lent EXCEPT ![h] = @ + 1]
        /\ buffer_count' = buffer_count /\ misused' = misused
    BY DEF Group!GetBuffer
  <1>2. /\ Tail(available_buffers) \in Seq(Group!Index) /\ h \in Group!Index
        /\ n \in Nat \ {0} /\ Len(Tail(available_buffers)) = n - 1
        /\ h = available_buffers[1]
        /\ \A k \in 1 .. n - 1 : Tail(available_buffers)[k] = available_buffers[k + 1]
    BY TailElements DEF GroupTypes, Group!GetBuffer
  <1>3. /\ lent' \in [Group!Index -> Nat] /\ lent'[h] = lent[h] + 1
        /\ \A i \in Group!Index : i # h => lent'[i] = lent[i]
    BY <1>1, <1>2 DEF GroupTypes
  <1>4. GroupTypes' BY <1>1, <1>2, <1>3 DEF GroupTypes
  <1>5. Existing' = Existing BY <1>1 DEF Existing
  <1>6. ASSUME ~misused' PROVE GroupOwned'
    <2>1. GroupOwned BY <1>1, <1>6
    <2> HIDE DEF h, n
    <2>2. Len(available_buffers') = n - 1 BY <1>1, <1>2
    <2>3. \A k \in 1 .. n - 1 :
            /\ k + 1 \in 1 .. n /\ k + 1 # 1
            /\ available_buffers'[k] = available_buffers[k + 1]
      BY <1>1, <1>2
    <2>4. \A k \in 1 .. n : available_buffers[k] \in Group!Index
      BY DEF GroupTypes, n
    <2>5. /\ \A j, k \in 1 .. n : available_buffers[j] = available_buffers[k] => j = k
          /\ \A k \in 1 .. n : available_buffers[k] < Existing /\ lent[available_buffers[k]] = 0
          /\ \A i \in Group!Index : lent[i] = 0 \/ (lent[i] = 1 /\ i < Existing)
          /\ \A i \in Group!Index : i < Existing /\ lent[i] = 0 =>
               \E k \in 1 .. n : available_buffers[k] = i
      BY <2>1 DEF GroupOwned, n
    <2>6. 1 \in 1 .. n BY <1>2
    <2>7. ASSUME NEW j \in 1 .. n - 1, NEW k \in 1 .. n - 1,
                 available_buffers'[j] = available_buffers'[k]
          PROVE  j = k
      <3>1. j + 1 = k + 1 BY <2>3, <2>5, <2>7
      <3> QED BY <1>2, <3>1
    <2>8. \A k \in 1 .. n - 1 : available_buffers'[k] # h
      BY <1>2, <2>3, <2>5, <2>6
    <2>9. \A k \in 1 .. n - 1 :
            available_buffers'[k] < Existing /\ lent'[available_buffers'[k]] = 0
      BY <1>3, <2>3, <2>4, <2>5, <2>8
    <2>10. \A i \in Group!Index : lent'[i] = 0 \/ (lent'[i] = 1 /\ i < Existing)
      BY <1>2, <1>3, <2>5, <2>6
    <2>11. ASSUME NEW i \in Group!Index, i < Existing, lent'[i] = 0
           PROVE  \E k \in 1 .. n - 1 : available_buffers'[k] = i
      <3>1. lent[h] = 0 /\ lent'[h] = 1 BY <1>2, <1>3, <2>5, <2>6
      <3>2. i # h BY <2>11, <3>1
      <3>3. PICK k \in 1 .. n : available_buffers[k] = i
        BY <1>3, <2>5, <2>11, <3>2
      <3>4. k # 1 BY <1>2, <3>2, <3>3
      <3>5. k - 1 \in 1 .. n - 1 /\ (k - 1) + 1 = k BY <1>2, <3>4
      <3> QED BY <2>3, <3>3, <3>5
    <2> QED BY <1>5, <2>2, <2>7, <2>9, <2>10, <2>11 DEF GroupOwned
  <1> QED BY <1>4, <1>6

(* return_buffer puts at the end what its caller had.                      *)
LEMMA GroupReturns ==
  ASSUME GroupInv, NEW i \in Group!Index, Group!ReturnBuffer(i)
  PROVE  GroupInv'
  <1> USE DEF GroupInv
  <1> DEFINE n == Len(available_buffers)
  <1>1. /\ available_buffers' = IF i < Existing
                                THEN Append(available_buffers, i) ELSE available_buffers
        /\ lent' = [lent EXCEPT ![i] = IF @ = 0 THEN 0 ELSE @ - 1]
        /\ misused' = (misused \/ lent[i] = 0)
        /\ buffer_count' = buffer_count
    BY DEF Group!ReturnBuffer, Existing
  <1>2. /\ Append(available_buffers, i) \in Seq(Group!Index)
        /\ n \in Nat /\ Len(Append(available_buffers, i)) = n + 1
        /\ Append(available_buffers, i)[n + 1] = i
        /\ \A k \in 1 .. n : Append(available_buffers, i)[k] = available_buffers[k]
    BY AppendElements DEF GroupTypes
  <1>3. lent[i] \in Nat BY DEF GroupTypes
  <1>4. /\ lent' \in [Group!Index -> Nat]
        /\ lent'[i] = IF lent[i] = 0 THEN 0 ELSE lent[i] - 1
        /\ \A j \in Group!Index : j # i => lent'[j] = lent[j]
    BY <1>1, <1>3 DEF GroupTypes
  <1>5. GroupTypes' BY <1>1, <1>2, <1>4 DEF GroupTypes
  <1>6. Existing' = Existing BY <1>1 DEF Existing
  <1>7. ASSUME ~misused' PROVE GroupOwned'
    <2>1. GroupOwned /\ lent[i] # 0 BY <1>1, <1>7
    <2> HIDE DEF n
    <2>2. /\ \A j, k \in 1 .. n : available_buffers[j] = available_buffers[k] => j = k
          /\ \A k \in 1 .. n : available_buffers[k] < Existing /\ lent[available_buffers[k]] = 0
          /\ \A j \in Group!Index : lent[j] = 0 \/ (lent[j] = 1 /\ j < Existing)
          /\ \A j \in Group!Index : j < Existing /\ lent[j] = 0 =>
               \E k \in 1 .. n : available_buffers[k] = j
      BY <2>1 DEF GroupOwned, n
    <2>3. \A k \in 1 .. n : available_buffers[k] \in Group!Index
      BY DEF GroupTypes, n
    <2>4. lent[i] = 1 /\ i < Existing /\ lent'[i] = 0
      <3>1. lent[i] = 1 /\ i < Existing BY <2>1, <2>2
      <3> QED BY <1>4, <3>1
    <2>5. /\ Len(available_buffers') = n + 1 /\ available_buffers'[n + 1] = i
          /\ \A k \in 1 .. n : available_buffers'[k] = available_buffers[k]
      BY <1>1, <1>2, <2>4
    <2>6. \A k \in 1 .. n + 1 : k \in 1 .. n \/ k = n + 1 BY <1>2
    <2>7. \A k \in 1 .. n : available_buffers[k] # i BY <2>1, <2>2
    <2>8. \A j, k \in 1 .. n + 1 : available_buffers'[j] = available_buffers'[k] => j = k
      BY <2>2, <2>5, <2>6, <2>7
    <2>9. \A k \in 1 .. n + 1 :
            available_buffers'[k] < Existing /\ lent'[available_buffers'[k]] = 0
      BY <1>4, <2>2, <2>3, <2>4, <2>5, <2>6, <2>7
    <2>10. \A j \in Group!Index : lent'[j] = 0 \/ (lent'[j] = 1 /\ j < Existing)
      BY <1>4, <2>2, <2>4
    <2>11. ASSUME NEW j \in Group!Index, j < Existing, lent'[j] = 0
           PROVE  \E k \in 1 .. n + 1 : available_buffers'[k] = j
      <3>1. CASE j = i
        <4>1. n + 1 \in 1 .. n + 1 BY <1>2
        <4> QED BY <2>5, <3>1, <4>1
      <3>2. CASE j # i
        <4>1. PICK k \in 1 .. n : available_buffers[k] = j
          BY <1>4, <2>2, <2>11, <3>2
        <4>2. k \in 1 .. n + 1 BY <1>2
        <4> QED BY <2>5, <4>1, <4>2
      <3> QED BY <3>1, <3>2
    <2> QED BY <1>6, <2>5, <2>8, <2>9, <2>10, <2>11 DEF GroupOwned
  <1> QED BY <1>5, <1>7

(* The invariant says where each index is, and a list without repetitions  *)
(* of indices that exist is no longer than they are many.                  *)
LEMMA GroupTells == GroupInv => Group!IndexHasOneOwner
  <1> SUFFICES ASSUME GroupTypes, GroupOwned PROVE Group!IndexHasOneOwner
    BY DEF GroupInv, Group!IndexHasOneOwner
  <1> DEFINE n == Len(available_buffers)
  <1>1. /\ buffer_count \in Nat /\ n \in Nat
        /\ DOMAIN available_buffers = 1 .. n
    BY CountsAssumption DEF GroupTypes
  <1>2. Existing \in Nat /\ Existing =< buffer_count
    BY <1>1, AsIndexFacts DEF Existing
  <1>3. n =< buffer_count
    <2> DEFINE E == 0 .. (Existing - 1)
    <2>1. IsFiniteSet(E) /\ Cardinality(E) = Existing
      BY <1>2, FS_Interval
    <2>2. IsFiniteSet(1 .. n) /\ Cardinality(1 .. n) = n
      <3> HIDE DEF n
      <3> QED BY <1>1, FS_Interval
    <2>3. \A k \in 1 .. n : available_buffers[k] \in Nat
      BY DEF GroupTypes, Group!Index
    <2>4. \A k \in 1 .. n : available_buffers[k] \in E
      BY <1>2, <2>3 DEF GroupOwned
    <2>5. available_buffers \in [1 .. n -> E]
      <3>1. available_buffers = [k \in 1 .. n |-> available_buffers[k]]
        BY <1>1 DEF GroupTypes
      <3> QED BY <2>4, <3>1
    <2>6. available_buffers \in Injection(1 .. n, E)
      BY <2>5 DEF Injection, IsInjective, GroupOwned
    <2> HIDE DEF E
    <2>7. n =< Existing BY <2>1, <2>2, <2>6, FS_Injection
    <2> QED BY <1>1, <1>2, <2>7
  <1>4. ASSUME NEW i \in Group!Index
        PROVE  /\ lent[i] <= 1
               /\ lent[i] = 1 => Group!Listed(i) = {}
               /\ \A j, k \in Group!Listed(i) : j = k
               /\ (lent[i] = 1 \/ Group!Listed(i) # {}) <=> i < Existing
    <2>1. \A k : k \in Group!Listed(i) <=> k \in 1 .. n /\ available_buffers[k] = i
      BY <1>1 DEF Group!Listed
    <2>2. lent[i] = 0 \/ (lent[i] = 1 /\ i < Existing) BY DEF GroupOwned
    <2>3. i < Existing /\ lent[i] = 0 => Group!Listed(i) # {}
      BY <2>1 DEF GroupOwned
    <2>4. \A k \in Group!Listed(i) : i < Existing /\ lent[i] = 0
      BY <2>1 DEF GroupOwned
    <2>5. \A j, k \in Group!Listed(i) : j = k
      BY <2>1 DEF GroupOwned
    <2> QED BY <2>2, <2>3, <2>4, <2>5
  <1> QED BY <1>3, <1>4 DEF Group!IndexHasOneOwner, Existing

(* As long as callers return only indices they have, each index of a group *)
(* is lent once or listed once, and the free list never outgrows the group *)
(* (buffer_group.rs 90-116), for every width of an index.                  *)
THEOREM IndicesHaveOneOwner == BuffersSpec => []IndexHasOneOwner
  <1>1. BuffersInit => GroupInv BY GroupStarts DEF BuffersInit
  <1>2. ASSUME GroupInv, [BuffersNext]_allVars PROVE GroupInv'
    <2>1. CASE UNCHANGED groupVars
      BY <1>2, <2>1 DEF groupVars, GroupInv, GroupTypes, GroupOwned, Existing
    <2>2. CASE Group!Next
      BY <1>2, <2>2, GroupGets, GroupReturns DEF Group!Next
    <2> QED BY <1>2, <2>1, <2>2 DEF BuffersNext, allVars
  <1>3. GroupInv => IndexHasOneOwner BY GroupTells DEF IndexHasOneOwner
  <1> QED BY <1>1, <1>2, <1>3, PTL DEF BuffersSpec
=============================================================================
