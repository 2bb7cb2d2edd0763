------------------------------ MODULE Awaiting ------------------------------
(***************************************************************************)
(* How a task waits for an operation of the borrowed API: await_completion *)
(* with tokio's AsyncFd over the ring's descriptor, or yielding without    *)
(* it, and the futures. Both look with try_complete_by_id, which keeps the *)
(* answers of other operations in the cache.                               *)
(*                                                                         *)
(* await_completion takes &mut self: one call at a time, which may be      *)
(* given up while it waits. A future borrows the Ring for ever: nothing    *)
(* else is called after it. The kernel and tokio's reactor are other       *)
(* threads and act between any two steps of the task.                      *)
(***************************************************************************)
EXTENDS Naturals

CONSTANTS
  Op,          \* operations
  BlockAfter,  \* polls of try_complete_by_id before it blocks (50 in the code)
  None

VARIABLES
  asyncFd,  \* Ring.async_fd is Some
  polls,    \* POLL_COUNT, a static of the process, capped
  unused,   \* operations not submitted yet
  kernel,   \* submitted and not answered
  cq,       \* answered and not drained
  cache,    \* Ring.completion_cache
  wakers,   \* keys of WakerRegistry
  event,    \* the descriptor became readable and the reactor has not noticed
  ready,    \* the readiness AsyncFd keeps
  op,       \* the operation waited for
  at        \* where the task is

vars == <<asyncFd, polls, unused, kernel, cq, cache, wakers, event, ready, op, at>>

(* Points of await_completion, and of a task with a future.                *)
Waits == {"check", "readable", "clear", "again", "yield"}
Ends == {"idle", "spent", "crashed"}

Init ==
  /\ asyncFd \in BOOLEAN
  /\ polls \in {0, BlockAfter + 1}  \* other Rings of the process poll too
  /\ unused = Op /\ kernel = {} /\ cq = {} /\ cache = {} /\ wakers = {}
  /\ event = FALSE /\ ready = FALSE
  /\ op = None /\ at = "idle"

---------------------------------------------------------------------------
(* The kernel and the reactor.                                             *)

(* The descriptor is watched edge by edge: completions that come before    *)
(* the reactor looks make one event.                                       *)
KernelComplete(o) ==
  /\ o \in kernel
  /\ kernel' = kernel \ {o}
  /\ cq' = cq \union {o}
  /\ event' = asyncFd
  /\ UNCHANGED <<asyncFd, polls, unused, cache, wakers, ready, op, at>>

React ==
  /\ event
  /\ event' = FALSE /\ ready' = TRUE
  /\ UNCHANGED <<asyncFd, polls, unused, kernel, cq, cache, wakers, op, at>>

---------------------------------------------------------------------------
(* try_complete_by_id(op).                                                 *)

Blocking == polls > BlockAfter /\ op \notin cache

(* It looks in the cache, then drains the backend and caches what it was   *)
(* not asked for; whoever has a waker for what it found is woken. After    *)
(* BlockAfter polls it waits, in the thread, until there is a completion.  *)
TryById(whenFound, otherwise) ==
  /\ Blocking => cq # {}
  /\ polls' = IF polls > BlockAfter THEN polls ELSE polls + 1
  /\ IF op \in cache THEN cache' = cache \ {op} /\ UNCHANGED cq
                     ELSE cache' = (cache \union cq) \ {op} /\ cq' = {}
  /\ at' = IF op \in cache \union cq THEN whenFound ELSE otherwise
  /\ op' = IF op \in cache \union cq THEN None ELSE op

(* That wait fails, for want of operations or by a signal, and its fall-   *)
(* back borrows the backend a second time.                                 *)
Crash ==
  /\ at \in {"check", "again", "poll"} /\ Blocking
  /\ at' = "crashed"
  /\ UNCHANGED <<asyncFd, polls, unused, kernel, cq, cache, wakers, event, ready, op>>

(* The backend's try_complete fails; epoll's can.                          *)
TryFails ==
  /\ at \in {"check", "again", "poll"} /\ ~asyncFd
  /\ at' = IF at = "poll" THEN "spent" ELSE "idle"
  /\ op' = None
  /\ wakers' = wakers \ {op}
  /\ UNCHANGED <<asyncFd, polls, unused, kernel, cq, cache, event, ready>>

---------------------------------------------------------------------------
(* await_completion.                                                       *)

Submit(o) ==
  /\ at = "idle" /\ o \in unused
  /\ unused' = unused \ {o}
  /\ kernel' = kernel \union {o}
  /\ UNCHANGED <<asyncFd, polls, cq, cache, wakers, event, ready, op, at>>

Parked == IF asyncFd THEN "readable" ELSE "yield"

(* Seeded fault: it waits before it looks.                                 *)
ParksFirst == Parked

LooksFirst == "check"

(* The id may be one whose answer was taken long ago: that is not an error *)
(* here, and the call then waits for what will not come.                   *)
AwaitCompletion(o) ==
  /\ at = "idle" /\ o \notin unused
  /\ op' = o /\ at' = LooksFirst
  /\ UNCHANGED <<asyncFd, polls, unused, kernel, cq, cache, wakers, event, ready>>

Check ==
  /\ at = "check"
  /\ TryById("idle", Parked)
  /\ UNCHANGED <<asyncFd, unused, kernel, wakers, event, ready>>

Readable ==
  /\ at = "readable" /\ ready
  /\ at' = "clear"
  /\ UNCHANGED <<asyncFd, polls, unused, kernel, cq, cache, wakers, event, ready, op>>

(* clear_ready; tokio keeps the readiness if it noticed an event since the *)
(* guard was made, here it does not.                                       *)
ClearReady ==
  /\ at = "clear"
  /\ ready' = FALSE /\ at' = "again"
  /\ UNCHANGED <<asyncFd, polls, unused, kernel, cq, cache, wakers, event, op>>

YieldNow ==
  /\ at = "yield"
  /\ at' = "again"
  /\ UNCHANGED <<asyncFd, polls, unused, kernel, cq, cache, wakers, event, ready, op>>

Again ==
  /\ at = "again"
  /\ TryById("idle", "check")
  /\ UNCHANGED <<asyncFd, unused, kernel, wakers, event, ready>>

(* The caller gives the call up at one of its awaits.                      *)
Cancel ==
  /\ at \in {"readable", "yield"}
  /\ op' = None /\ at' = "idle"
  /\ UNCHANGED <<asyncFd, polls, unused, kernel, cq, cache, wakers, event, ready>>

---------------------------------------------------------------------------
(* The futures: OperationFuture, and those of reads, writes and sockets.   *)

MakeFuture(o) ==
  /\ at = "idle" /\ o \in unused
  /\ unused' = unused \ {o}
  /\ kernel' = kernel \union {o}
  /\ op' = o /\ at' = "poll"
  /\ UNCHANGED <<asyncFd, polls, cq, cache, wakers, event, ready>>

(* Pending leaves a waker in the registry. Only a call of the Ring wakes   *)
(* it, and the future itself keeps the Ring from being called: it sleeps.  *)
PollFuture ==
  /\ at = "poll"
  /\ TryById("spent", "asleep")
  /\ wakers' = IF at' = "asleep" THEN wakers \union {op} ELSE wakers \ {op}
  /\ UNCHANGED <<asyncFd, unused, kernel, event, ready>>

(* A combinator polls it all the same.                                     *)
SpuriousPoll ==
  /\ at = "asleep"
  /\ at' = "poll"
  /\ UNCHANGED <<asyncFd, polls, unused, kernel, cq, cache, wakers, event, ready, op>>

DropFuture ==
  /\ at \in {"poll", "asleep"}
  /\ at' = "spent" /\ op' = None
  /\ wakers' = wakers \ {op}
  /\ UNCHANGED <<asyncFd, polls, unused, kernel, cq, cache, event, ready>>

---------------------------------------------------------------------------
Task == Check \/ Readable \/ ClearReady \/ YieldNow \/ Again \/ PollFuture

Next ==
  \/ \E o \in Op : Submit(o) \/ AwaitCompletion(o) \/ MakeFuture(o) \/ KernelComplete(o)
  \/ React \/ Task \/ Crash \/ TryFails \/ Cancel \/ SpuriousPoll \/ DropFuture

Spec == Init /\ [][Next]_vars

(* The reactor notices events, and the executor polls a task that is not   *)
(* parked. The kernel need not answer, nobody need poll a sleeping future. *)
Fairness == WF_vars(React) /\ WF_vars(Task)

FairSpec == Spec /\ Fairness

---------------------------------------------------------------------------
(* A task that waits in await_completion for an answer the kernel gave, or *)
(* polls a future after it, gets that answer: although several completions *)
(* make one event of the descriptor, although a call that was given up or  *)
(* looked for another operation drained the queue and cleared the          *)
(* readiness, and whether there is an AsyncFd or not (core/mod.rs 593). It *)
(* may still end in the panic of a wait that fails.                        *)
AwaitedResolves ==
  \A o \in Op :
    (op = o /\ at \in Waits \union {"poll"} /\ o \in cq \union cache) ~> at \in Ends
=============================================================================
