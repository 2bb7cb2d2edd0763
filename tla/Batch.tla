-------------------------------- MODULE Batch --------------------------------
(***************************************************************************)
(* Batches submitted to a Ring and the two futures that wait for them:     *)
(* BatchFuture, which borrows the Ring for as long as the Ring lives, and  *)
(* StandaloneBatchFuture, of which there may be several. How a batch is    *)
(* built is in BatchBuilder. Both futures take the completions of the      *)
(* whole Ring with try_complete and keep those of their own operations.    *)
(*                                                                         *)
(* The Ring is used through this API, through try_complete_by_id for an    *)
(* unrelated operation, which puts what it finds into the cache, and       *)
(* through the owned API as far as the answer of an orphan, whose id the   *)
(* tracker does not know, may turn up in the queue. Ids do not collide     *)
(* (SharedRing is about that); an operation stands for its id.             *)
(***************************************************************************)
EXTENDS Naturals, Sequences, FiniteSets, SequencesExt

CONSTANTS
  Batches,  \* bound: the batches
  Size,     \* bound: how many operations each has
  Orphan,   \* an orphaned owned operation
  NoBatch   \* no batch

ASSUME SizeAssumption == Size \in [Batches -> Nat \ {0}]
ASSUME NamesAssumption == NoBatch \notin Batches /\ Orphan \notin Batches \X Nat

Index(b) == 1 .. Size[b]
Ops(b) == {b} \X Index(b)
Op == UNION {Ops(b) : b \in Batches}

VARIABLES
  ring,      \* "open", "dropped", "panicked" (in Drop)
  holder,    \* the batch whose BatchFuture borrows the Ring
  stage,     \* of each batch and its future
  failFast,  \* BatchConfig.fail_fast
  depends,   \* pairs <<i, j>>: operation i of the batch depends on j
  kernel,    \* queued and not answered
  cq,        \* answered and not drained
  outcome,   \* what the kernel answered
  cache,     \* Ring.completion_cache
  tracked,   \* OperationTracker.in_flight
  result,    \* BatchFuture.results
  awake,     \* batches whose task is scheduled
  orphan,    \* "none", "kernel", "answered" (and in the queue or gone)
  astray     \* history: answers of a batch that something else drained

vars == <<ring, holder, stage, failFast, depends, kernel, cq, outcome, cache,
          tracked, result, awake, orphan, astray>>

---------------------------------------------------------------------------
Usable(b) == ring = "open" /\ holder \in {NoBatch, b}

Underway(o) == o \in kernel \/ o \in ToSet(cq) \/ o \in cache

Init ==
  /\ ring = "open" /\ holder = NoBatch
  /\ stage = [b \in Batches |-> "built"]
  /\ failFast = [b \in Batches |-> FALSE]
  /\ depends = [b \in Batches |-> {}]
  /\ kernel = {} /\ cq = <<>> /\ cache = {} /\ tracked = {}
  /\ outcome = [o \in Op |-> "none"]
  /\ result = [b \in Batches |-> [i \in Index(b) |-> "none"]]
  /\ awake = {} /\ orphan = "none" /\ astray = {}

---------------------------------------------------------------------------
(* Submission: every operation, in the order of the batch. The order of    *)
(* the dependencies is computed and not used.                              *)

Borrow(b, standalone) == holder' = IF standalone THEN holder ELSE b

Submit(b, standalone, ff, ds) ==
  /\ ring = "open" /\ holder = NoBatch /\ stage[b] = "built"
  /\ Borrow(b, standalone)
  /\ failFast' = [failFast EXCEPT ![b] = ff]
  /\ depends' = [depends EXCEPT ![b] = ds]
  /\ tracked' = tracked \union Ops(b)
  /\ kernel' = kernel \union Ops(b)
  /\ stage' = [stage EXCEPT ![b] = "pending"]
  /\ awake' = awake \union {b}
  /\ UNCHANGED <<ring, cq, outcome, cache, result, orphan, astray>>

(* Operation k fails: it stays registered, those before it stay in the     *)
(* kernel, and there is no future. With k = 0 the batch is empty or too    *)
(* large.                                                                  *)
SubmitFails(b, standalone, k) ==
  /\ ring = "open" /\ holder = NoBatch /\ stage[b] = "built"
  /\ Borrow(b, standalone)
  /\ tracked' = tracked \union {<<b, i>> : i \in 1 .. k}
  /\ \/ kernel' = kernel \union {<<b, i>> : i \in 1 .. (k - 1)}
     \/ kernel' = kernel \union {<<b, i>> : i \in 1 .. k}
  /\ stage' = [stage EXCEPT ![b] = "refused"]
  /\ UNCHANGED <<ring, failFast, depends, cq, outcome, cache, result, awake,
                 orphan, astray>>

KernelComplete(o, r) ==
  /\ o \in kernel
  /\ kernel' = kernel \ {o}
  /\ cq' = IF ring = "open" THEN Append(cq, o) ELSE cq
  /\ outcome' = [outcome EXCEPT ![o] = r]
  /\ UNCHANGED <<ring, holder, stage, failFast, depends, cache, tracked,
                 result, awake, orphan, astray>>

OrphanStarts ==
  /\ ring = "open" /\ holder = NoBatch
  /\ orphan = "none"
  /\ orphan' = "kernel"
  /\ UNCHANGED <<ring, holder, stage, failFast, depends, kernel, cq, outcome,
                 cache, tracked, result, awake, astray>>

OrphanCompletes ==
  /\ orphan = "kernel" /\ ring = "open"
  /\ orphan' = "answered"
  /\ cq' = Append(cq, Orphan)
  /\ UNCHANGED <<ring, holder, stage, failFast, depends, kernel, outcome,
                 cache, tracked, result, awake, astray>>

---------------------------------------------------------------------------
(* try_complete_by_id for some other operation.                            *)

DrainBackend == cq' = <<>>

(* Seeded fault: only the operation asked for is kept.                     *)
KeepNothing == UNCHANGED cache

KeepTracked == cache' = cache \union (ToSet(cq) \intersect tracked)

OtherPoll ==
  /\ ring = "open" /\ holder = NoBatch
  /\ cq # <<>>
  /\ KeepTracked
  /\ DrainBackend
  /\ UNCHANGED <<ring, holder, stage, failFast, depends, kernel, outcome,
                 tracked, result, awake, orphan, astray>>

---------------------------------------------------------------------------
(* try_complete: the cached completions, in any order, or else those of    *)
(* the backend. An id that is not tracked is an error, and what has been   *)
(* collected is dropped.                                                   *)

Known(entries) == SelectInSeq(entries, LAMBDA o : o \notin tracked) = 0

Reported(entries) ==
  IF Known(entries) THEN ToSet(entries)
  ELSE ToSet(SubSeq(entries, 1, SelectInSeq(entries, LAMBDA o : o \notin tracked) - 1))

Take(entries) ==
  /\ \/ /\ cache # {}
        /\ entries \in SetToSeqs(cache)
        /\ cache' = {} /\ cq' = cq
     \/ /\ cache = {}
        /\ entries = cq
        /\ DrainBackend /\ cache' = cache
  /\ tracked' = tracked \ Reported(entries)

(* Seeded fault: an answer that comes late replaces what the slot holds.   *)
LateFill(b, entries) ==
  [i \in Index(b) |-> IF <<b, i>> \in ToSet(entries) THEN outcome[<<b, i>>]
                   ELSE result[b][i]]

Fill(b, entries) ==
  [i \in Index(b) |-> IF <<b, i>> \in ToSet(entries) /\ result[b][i] = "none"
                   THEN outcome[<<b, i>>] ELSE result[b][i]]

(* Seeded fault: only what depends on a failed operation is cancelled.     *)
CancelDependents(b, slots) ==
  [i \in Index(b) |-> IF slots[i] = "none" /\ \E j \in Index(b) : slots[j] = "error" /\ <<i, j>> \in depends[b]
                   THEN "cancelled" ELSE slots[i]]

(* Cancelling is a mark in the results: the kernel is not told.            *)
CancelAll(b, slots) ==
  [i \in Index(b) |-> IF slots[i] = "none" THEN "cancelled" ELSE slots[i]]

Progress(b, slots) == {i \in Index(b) : result[b][i] # slots[i]}

FailsFast(b, slots) ==
  failFast[b] /\ \E i \in Progress(b, slots) : slots[i] = "error"

Full(slots) == \A i \in DOMAIN slots : slots[i] # "none"

(* poll_completions. A standalone future may be polled again after it      *)
(* returned; "resolved" is its completed flag, which failing fast does not *)
(* set.                                                                    *)
Pollable(b) ==
  /\ Usable(b)
  /\ stage[b] = "pending" \/ (holder = NoBatch /\ stage[b] \in {"error", "stopped"})

Answered(b, slots) ==
  IF FailsFast(b, slots)
  THEN /\ result' = [result EXCEPT ![b] = CancelAll(b, slots)]
       /\ stage' = [stage EXCEPT ![b] = "stopped"]
       /\ awake' = awake \ {b}
  ELSE /\ result' = [result EXCEPT ![b] = slots]
       /\ stage' = [stage EXCEPT ![b] = IF Full(slots) THEN "resolved" ELSE "pending"]
       /\ awake' = IF Progress(b, slots) # {} /\ ~Full(slots)
                   THEN awake \union {b} ELSE awake \ {b}

PollBatch(b) ==
  /\ Pollable(b)
  /\ \E entries \in SetToSeqs(cache) \union {cq} :
       /\ Take(entries)
       /\ Known(entries)
       /\ Answered(b, Fill(b, entries))
       /\ astray' = astray \union (ToSet(entries) \ Ops(b))
  /\ UNCHANGED <<ring, holder, failFast, depends, kernel, outcome, orphan>>

PollError(b) ==
  /\ Pollable(b)
  /\ \E entries \in SetToSeqs(cache) \union {cq} :
       /\ Take(entries)
       /\ ~Known(entries)
       /\ astray' = astray \union (ToSet(entries) \ {Orphan})
  /\ stage' = [stage EXCEPT ![b] = "error"]
  /\ awake' = awake \ {b}
  /\ UNCHANGED <<ring, holder, failFast, depends, kernel, outcome, result, orphan>>

(* What a future that is ready returns: the slots and how many of each.    *)
BatchResult(slots) ==
  [successes |-> {i \in DOMAIN slots : slots[i] = "success"},
   failures |-> {i \in DOMAIN slots : slots[i] = "error"},
   results |-> slots]

AllSucceeded(r) == r.failures = {} /\ \A i \in DOMAIN r.results : r.results[i] # "cancelled"

(* Seeded fault: a future that is dropped untracks its operations.         *)
Untrack(b) == tracked' = tracked \ Ops(b)

KeepTracking(b) == UNCHANGED tracked

DropFuture(b) ==
  /\ stage[b] \in {"pending", "error", "stopped", "resolved"}
  /\ stage' = [stage EXCEPT ![b] = "dropped"]
  /\ result' = [result EXCEPT ![b] = CancelAll(b, result[b])]
  /\ awake' = awake \ {b}
  /\ KeepTracking(b)
  /\ UNCHANGED <<ring, holder, failFast, depends, kernel, cq, outcome, cache,
                 orphan, astray>>

(* A Ring a BatchFuture has borrowed is never dropped.                     *)
DropRing ==
  /\ ring = "open" /\ holder = NoBatch
  /\ ring' = IF tracked = {} THEN "dropped" ELSE "panicked"
  /\ UNCHANGED <<holder, stage, failFast, depends, kernel, cq, outcome, cache,
                 tracked, result, awake, orphan, astray>>

(* The last operation of a batch may depend on the first.                  *)
Dependencies(b) == {{}, {<<Size[b], 1>>} \ {<<1, 1>>}}

Next ==
  \/ \E b \in Batches :
       \/ \E standalone, ff \in BOOLEAN, ds \in Dependencies(b) :
            Submit(b, standalone, ff, ds)
       \/ \E standalone \in BOOLEAN, k \in 0 .. Size[b] : SubmitFails(b, standalone, k)
       \/ PollBatch(b) \/ PollError(b) \/ DropFuture(b)
  \/ \E o \in Op, r \in {"success", "error"} : KernelComplete(o, r)
  \/ OrphanStarts \/ OrphanCompletes \/ OtherPoll \/ DropRing

Spec == Init /\ [][Next]_vars

---------------------------------------------------------------------------
(* Properties.                                                             *)

(* A slot holds the kernel's answer to its own operation, delivered once   *)
(* (no answer to it is on its way any more). It says "cancelled" only when *)
(* the future was dropped or when another operation of a fail-fast batch   *)
(* failed. A future that returned results has filled every slot and says   *)
(* that all succeeded only if they did; without fail-fast each slot is the *)
(* kernel's answer, also that of an operation that depends on a failed     *)
(* one: it was carried out (DependentsAreCancelled is about that).          *)
SlotsAreAnswers ==
  \A b \in Batches :
    /\ \A i \in Index(b) :
         /\ result[b][i] \in {"success", "error"} =>
              result[b][i] = outcome[<<b, i>>] /\ ~Underway(<<b, i>>)
         /\ result[b][i] = "cancelled" =>
              \/ stage[b] = "dropped"
              \/ failFast[b] /\ \E j \in Index(b) : result[b][j] = "error"
    /\ stage[b] \in {"stopped", "resolved"} =>
         /\ Full(result[b])
         /\ AllSucceeded(BatchResult(result[b])) <=> \A o \in Ops(b) : outcome[o] = "success"
         /\ ~failFast[b] => \A i \in Index(b) : result[b][i] = outcome[<<b, i>>]

(* What batch/core.rs 177-178 and batch/result.rs 52-53 promise: when an   *)
(* operation fails, those that depend on it are cancelled and not carried  *)
(* out. The code submits them all at once, and only fail-fast cancels, so  *)
(* this does not hold.                                                     *)
DependentsAreCancelled ==
  \A b \in Batches : \A i, j \in Index(b) :
    <<i, j>> \in depends[b] /\ result[b][j] = "error" =>
      result[b][i] \in {"none", "cancelled"}

(* What is in a slot stays there, also when the answer to a cancelled      *)
(* operation arrives after all.                                            *)
SlotsStable ==
  [][\A b \in Batches : \A i \in Index(b) :
       result[b][i] # "none" => result'[b][i] = result[b][i]]_vars

(* The answer a pending batch waits for is on its way, unless another      *)
(* batch drained it or a poll that returned an error threw it away.        *)
NothingMissed ==
  \A b \in Batches : \A i \in Index(b) :
    ring = "open" /\ stage[b] \in {"pending", "error"} /\ result[b][i] = "none" =>
      Underway(<<b, i>>) \/ <<b, i>> \in astray

(* A Ring that is dropped without the panic has no operation of a batch in *)
(* the kernel: not after a submission that failed half-way, not after a    *)
(* future was dropped or cancelled what it waited for (core/mod.rs 453).   *)
QuietDropIsIdle == ring = "dropped" => kernel = {}

(* Polling fails only because of the answer of an orphan: an operation of  *)
(* a batch is tracked until its answer is reported.                        *)
OnlyOrphansFail ==
  [][\A b \in Batches : stage[b] # "error" /\ stage'[b] = "error" =>
                          orphan = "answered"]_vars
=============================================================================
