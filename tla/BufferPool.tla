----------------------------- MODULE BufferPool -----------------------------
(***************************************************************************)
(* The buffer pool: a fixed set of pinned buffers behind one mutex, taken  *)
(* by any thread, given back when a PooledBuffer is dropped, or detached.  *)
(*                                                                         *)
(* A critical section is one step. try_get_fast has two of them, and       *)
(* get_blocking repeats one with a sleep in between, so other threads act  *)
(* in the gaps. No critical section can panic (the deque never grows past  *)
(* the capacity it was allocated with, which Accounting shows), hence the  *)
(* mutex is never poisoned. A PooledBuffer can be sent to another thread:  *)
(* any thread may drop any of them.                                        *)
(***************************************************************************)
EXTENDS Naturals, FiniteSets, Sequences

CONSTANTS
  Thread,    \* the threads that share the pool
  Buffer,    \* the buffers allocated by new or with_factory
  MaxCount   \* bound: the two monitoring counters stop here

ASSUME BufferAssumption == IsFiniteSet(Buffer) /\ Buffer # {}
ASSUME ThreadAssumption == Thread # {}
ASSUME MaxCountAssumption == MaxCount \in Nat /\ MaxCount >= Cardinality(Buffer)

Capacity == Cardinality(Buffer)

VARIABLES
  available,  \* PoolInner.available
  inUse,      \* PoolInner.in_use
  total,      \* PoolInner.total_allocations
  failed,     \* PoolInner.failed_allocations
  held,       \* buffers inside a live PooledBuffer
  detached,   \* buffers that left through detach
  call        \* the call each thread is in, at a point without the lock

vars == <<available, inUse, total, failed, held, detached, call>>
outside == <<held, detached>>

Calls == {"none", "fast", "blocking"}

Bump(n) == IF n < MaxCount THEN n + 1 ELSE n

Free == {available[k] : k \in 1 .. Len(available)}

---------------------------------------------------------------------------
Init ==
  /\ available \in [1 .. Capacity -> Buffer]
  /\ Free = Buffer
  /\ inUse = 0 /\ total = 0 /\ failed = 0
  /\ held = {} /\ detached = {}
  /\ call = [t \in Thread |-> "none"]

(* The two outcomes of try_get.                                            *)
Take ==
  /\ available # <<>>
  /\ available' = Tail(available)
  /\ inUse' = inUse + 1
  /\ total' = Bump(total)
  /\ held' = held \union {Head(available)}
  /\ UNCHANGED <<failed, detached>>

Miss ==
  /\ available = <<>>
  /\ failed' = Bump(failed)
  /\ UNCHANGED <<available, inUse, total, outside>>

(* try_get and get: one critical section.                                  *)
TryGet(t) == call[t] = "none" /\ (Take \/ Miss) /\ UNCHANGED call

(* try_get_fast looks first and lets the lock go; seeing an empty pool it  *)
(* returns None and counts nothing. What it saw may be stale when it then  *)
(* calls try_get.                                                          *)
Look(t) ==
  /\ call[t] = "none"
  /\ available # <<>>
  /\ call' = [call EXCEPT ![t] = "fast"]
  /\ UNCHANGED <<available, inUse, total, failed, outside>>

FinishFast(t) ==
  /\ call[t] = "fast"
  /\ Take \/ Miss
  /\ call' = [call EXCEPT ![t] = "none"]

(* get_blocking: a failed attempt sleeps, and tries again.                 *)
GetBlocking(t) ==
  /\ call[t] = "none"
  /\ \/ Take /\ UNCHANGED call
     \/ Miss /\ call' = [call EXCEPT ![t] = "blocking"]

(* Seeded fault: a thread that slept does not look again.                  *)
SleepsOn(t) == call[t] = "blocking" /\ UNCHANGED vars

Retry(t) ==
  /\ call[t] = "blocking"
  /\ \/ Take /\ call' = [call EXCEPT ![t] = "none"]
     \/ Miss /\ UNCHANGED call

(* Seeded fault: the buffer comes back, the counter does not.              *)
DropForgetsCount(b) ==
  /\ b \in held
  /\ held' = held \ {b}
  /\ available' = Append(available, b)
  /\ UNCHANGED <<inUse, total, failed, detached, call>>

(* Drop for PooledBuffer; the subtraction saturates.                       *)
Drop(b) ==
  /\ b \in held
  /\ held' = held \ {b}
  /\ available' = Append(available, b)
  /\ inUse' = IF inUse = 0 THEN 0 ELSE inUse - 1
  /\ UNCHANGED <<total, failed, detached, call>>

(* Seeded fault: the Drop that runs at the end of detach still finds the   *)
(* buffer in its place.                                                    *)
DetachAlsoReturns(b) ==
  /\ b \in held
  /\ held' = held \ {b}
  /\ detached' = detached \union {b}
  /\ available' = Append(available, b)
  /\ inUse' = IF inUse = 0 THEN 0 ELSE inUse - 1
  /\ UNCHANGED <<total, failed, call>>

(* detach takes the buffer out, so the Drop that follows finds none and    *)
(* leaves the pool alone: the buffer counts as in use from then on.        *)
Detach(b) ==
  /\ b \in held
  /\ held' = held \ {b}
  /\ detached' = detached \union {b}
  /\ UNCHANGED <<available, inUse, total, failed, call>>

(* Monitoring: stats and snapshot read under the lock, in one go.          *)
Stats ==
  [capacity |-> Capacity, available |-> Len(available), in_use |-> inUse,
   total_allocations |-> total, failed_allocations |-> failed]

Snapshot ==
  [available |-> Len(available), in_use |-> inUse,
   is_empty |-> available = <<>>, is_full |-> Len(available) = Capacity]

(* A utilization above 0.8.                                                *)
IsUnderPressure(stats) == 5 * stats.in_use > 4 * stats.capacity

Get(t) == TryGet(t) \/ Look(t) \/ FinishFast(t) \/ GetBlocking(t)

Next == \/ \E t \in Thread : Get(t) \/ Retry(t)
        \/ \E b \in Buffer : Drop(b) \/ Detach(b)

Spec == Init /\ [][Next]_vars

(* A sleeping thread wakes up; nobody is obliged to give a buffer back.    *)
Fairness == \A t \in Thread : WF_vars(Retry(t))


---------------------------------------------------------------------------
(* Every variable keeps its type.                                          *)
TypeOK ==
  /\ available \in Seq(Buffer)
  /\ inUse \in Nat /\ total \in 0 .. MaxCount /\ failed \in 0 .. MaxCount
  /\ held \subseteq Buffer /\ detached \subseteq Buffer
  /\ call \in [Thread -> Calls]

(* A buffer has one owner whatever the threads interleave: it is once in   *)
(* the free list, or in one PooledBuffer, or detached; none disappears.    *)
OneOwner ==
  /\ \A j, k \in 1 .. Len(available) : available[j] = available[k] => j = k
  /\ Free \intersect held = {}
  /\ Free \intersect detached = {}
  /\ held \intersect detached = {}
  /\ Free \union held \union detached = Buffer

(* The numbers add up in every state a lock can be taken in: free plus in  *)
(* use is the capacity, in use counts the live PooledBuffers and, for      *)
(* ever, the detached buffers. So the saturating subtraction never         *)
(* saturates and the deque never reallocates.                              *)
Counted ==
  /\ Len(available) + inUse = Capacity
  /\ inUse = Cardinality(held) + Cardinality(detached)
  /\ total >= inUse

(* What monitoring concludes from them is so: an empty pool is one with    *)
(* all of its capacity in use, and is reported as under pressure, a full   *)
(* one has no buffer outside, and a pool that lost one through detach is   *)
(* never called full again.                                                *)
Reported ==
  /\ Snapshot.is_empty <=> Stats.in_use = Stats.capacity
  /\ Snapshot.is_empty => IsUnderPressure(Stats)
  /\ Snapshot.is_full <=> held \union detached = {}

(* Both: the counters of the pool, and what stats and snapshot make of     *)
(* them (pool/buffer_pool.rs 229-272, pool/stats.rs 138).                  *)
Accounting == Counted /\ Reported

(* A thread in get_blocking gets a buffer once the pool stays non-empty. A *)
(* pool that is empty again and again may starve it: there is no queue of  *)
(* waiters, and other threads may always be faster.                        *)
BlockedGets ==
  <>[](available # <<>>) =>
    \A t \in Thread : call[t] = "blocking" ~> call[t] # "blocking"
=============================================================================
