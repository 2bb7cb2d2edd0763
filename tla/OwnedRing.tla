----------------------------- MODULE OwnedRing -----------------------------
(***************************************************************************)
(* The owned-buffer ("hot potato") API of safer-ring: OwnedBuffer handles, *)
(* SafeOperation and its futures, the orphan tracker, the completion cache *)
(* and the waker registry of a Ring, over a backend that talks to the      *)
(* kernel.                                                                 *)
(*                                                                         *)
(* A Ring is used by one task executor; every handler below runs without   *)
(* an await, so it is one step, and handlers interleave freely with each   *)
(* other, with the kernel and with the helper tasks the futures spawn.     *)
(* A submission is named by its SubmissionId; a buffer by a member of Buf, *)
(* which stands for one heap allocation.                                   *)
(***************************************************************************)
EXTENDS Naturals, FiniteSets

CONSTANTS
  Buf,         \* the buffers that can exist
  MaxSub,      \* bound: how many submission ids are handed out
  MaxHandles,  \* bound: user handles of one buffer that clone_handle may reach
  NoBuf,       \* the buffer of an id that is not in use
  LateErrors   \* whether a submission may be queued although Err is returned

ASSUME MaxSubAssumption == MaxSub \in Nat \ {0}
ASSUME MaxHandlesAssumption == MaxHandles \in Nat \ {0}
ASSUME LateErrorsAssumption == LateErrors \in BOOLEAN
ASSUME BufAssumption == Buf # {} /\ NoBuf \notin Buf

Id == 1 .. MaxSub

(* What the kernel answers: a byte count (or accepted fd), or an errno.    *)
Result == {"ok", "err"}
None == "none"

(* The life of the future that owns submission i. "ok" and "err" are what  *)
(* it resolved to; "failed" is SafeOperation::failed, not polled yet.      *)
Stage == {"unused", "pending", "failed", "ok", "err", "dropped"}

VARIABLES
  ring,       \* the Ring value: "open", or "dropped"
  nextId,     \* OrphanTracker.next_submission_id
  stage,      \* the SafeOperation / future of each id
  bufOf,      \* the buffer given to it
  nulls,      \* queued ids whose buffer pointer was null when submitted
  kernel,     \* ids the backend has queued and the kernel has not answered
  posted,     \* completions nobody has drained from the backend
  cache,      \* Ring.completion_cache
  orphans,    \* keys of OrphanTracker.orphaned_operations
  wakers,     \* keys of WakerRegistry.wakers
  ready,      \* pending futures whose task the executor will poll
  ticks,      \* pending futures whose spawned "yield then wake" task still runs
  owner,      \* BufferOwnership of each buffer
  handles,    \* OwnedBuffer handles of it that user code holds
  shared,     \* history: clone_handle was called on the buffer
  answer,     \* history: what the kernel answered to each id
  abandoned   \* history: ids in the kernel whose buffer the library let go of

futureVars == <<stage, bufOf, nulls>>
ringVars   == <<posted, cache, orphans>>
taskVars   == <<wakers, ready, ticks>>
bufVars    == <<owner, handles, shared>>
vars == <<ring, nextId, futureVars, kernel, ringVars, taskVars, bufVars,
          answer, abandoned>>

---------------------------------------------------------------------------
(* Reading the state.                                                      *)

Live(i) == stage[i] \in {"pending", "failed"}

(* A SafeOperation, or the orphan table, keeps the allocation alive.       *)
Holds(i, b) == bufOf[i] = b /\ (Live(i) \/ i \in orphans)

(* Some handle, access guard, operation or orphan entry refers to b.       *)
Alive(b) == \/ handles[b] > 0
            \/ owner[b] = "Returning"
            \/ \E i \in Id : Holds(i, b)

(* The kernel may read or write the memory of bufOf[i].                    *)
UsesMemory(i) == i \in kernel /\ i \notin nulls

(* accept_safe is the only caller of give_to_kernel.                       *)
IsAccept(i) == owner[bufOf[i]] = "Kernel"

Completed == {i \in Id : posted[i] # None}

---------------------------------------------------------------------------
Init ==
  /\ ring = "open"
  /\ nextId = 1
  /\ stage = [i \in Id |-> "unused"]
  /\ bufOf = [i \in Id |-> NoBuf]
  /\ posted = [i \in Id |-> None]
  /\ cache = [i \in Id |-> None]
  /\ answer = [i \in Id |-> None]
  /\ owner = [b \in Buf |-> "User"]
  /\ handles = [b \in Buf |-> 0]
  /\ nulls = {} /\ kernel = {} /\ orphans = {} /\ abandoned = {}
  /\ wakers = {} /\ ready = {} /\ ticks = {}
  /\ shared = {}

---------------------------------------------------------------------------
(* OwnedBuffer: what user code does with its handles and guards.           *)

(* The allocator hands out what the process does not use. It knows nothing *)
(* of the kernel, so this may be memory an abandoned operation works on.   *)
Unallocated(b) == ~Alive(b)

NewBuffer(b) ==
  /\ Unallocated(b)
  /\ handles' = [handles EXCEPT ![b] = 1]
  /\ owner' = [owner EXCEPT ![b] = "User"]
  /\ shared' = shared \ {b}
  /\ UNCHANGED <<ring, nextId, futureVars, kernel, ringVars, taskVars,
                 answer, abandoned>>

CloneHandle(b) ==
  /\ handles[b] \in 1 .. (MaxHandles - 1)
  /\ handles' = [handles EXCEPT ![b] = @ + 1]
  /\ shared' = shared \union {b}
  /\ UNCHANGED <<ring, nextId, futureVars, kernel, ringVars, taskVars,
                 owner, answer, abandoned>>

DropHandle(b) ==
  /\ handles[b] > 0
  /\ handles' = [handles EXCEPT ![b] = @ - 1]
  /\ UNCHANGED <<ring, nextId, futureVars, kernel, ringVars, taskVars,
                 owner, shared, answer, abandoned>>

TryAccess(b) ==
  /\ handles[b] > 0
  /\ owner[b] = "User"
  /\ owner' = [owner EXCEPT ![b] = "Returning"]
  /\ UNCHANGED <<ring, nextId, futureVars, kernel, ringVars, taskVars,
                 handles, shared, answer, abandoned>>

DropGuard(b) ==
  /\ owner[b] = "Returning"
  /\ owner' = [owner EXCEPT ![b] = "User"]
  /\ UNCHANGED <<ring, nextId, futureVars, kernel, ringVars, taskVars,
                 handles, shared, answer, abandoned>>

---------------------------------------------------------------------------
(* Submission. read_owned, write_owned, read_at_owned and write_at_owned   *)
(* differ only in the SQE they build; they move the handle, take an id     *)
(* and call the backend. as_ptr_and_len does not touch the ownership cell: *)
(* it yields the pointer, or null if the cell is not User.                 *)

(* Seeded fault: the call keeps a second reference for the user.           *)
GiveUpByReference(b) == UNCHANGED handles

(* The handle is moved into the call.                                      *)
GiveUp(b) == handles' = [handles EXCEPT ![b] = @ - 1]

Owns(b) == handles[b] > 0

TakeId(i) == ring = "open" /\ i = nextId /\ i <= MaxSub /\ nextId' = i + 1

(* The backend's verdict: the operation is queued and Ok is returned; it   *)
(* is refused; or it is queued and Err is returned, which the io_uring     *)
(* backend does when push succeeds and the submit that follows fails.      *)
Accepted(i) == kernel' = kernel \union {i}
Refused == kernel' = kernel
QueuedWithError(i) == LateErrors /\ kernel' = kernel \union {i}

BeginOwned(i, b) ==
  /\ TakeId(i)
  /\ Owns(b)
  /\ GiveUp(b)
  /\ bufOf' = [bufOf EXCEPT ![i] = b]
  /\ ready' = ready \union {i}
  /\ UNCHANGED <<ring, ringVars, wakers, ticks, owner, shared, answer>>

(* What the SQE carries for the buffer.                                    *)
AsPtrAndLen(i, b) ==
  nulls' = IF owner[b] = "User" THEN nulls ELSE nulls \union {i}

SubmitOwned(i, b) ==
  /\ BeginOwned(i, b)
  /\ Accepted(i)
  /\ AsPtrAndLen(i, b)
  /\ stage' = [stage EXCEPT ![i] = "pending"]
  /\ UNCHANGED abandoned

SubmitOwnedFails(i, b) ==
  /\ BeginOwned(i, b)
  /\ stage' = [stage EXCEPT ![i] = "failed"]
  /\ \/ Refused /\ UNCHANGED nulls
     \/ QueuedWithError(i) /\ AsPtrAndLen(i, b)
  /\ UNCHANGED abandoned

(* accept_safe allocates its own buffer and gives it to the kernel. The ?  *)
(* after a failing submission drops the SafeOperation, which then counts   *)
(* as cancelled.                                                           *)
BeginAccept(i, b) ==
  /\ TakeId(i)
  /\ Unallocated(b)
  /\ bufOf' = [bufOf EXCEPT ![i] = b]
  /\ owner' = [owner EXCEPT ![b] = "Kernel"]
  /\ shared' = shared \ {b}
  /\ UNCHANGED <<ring, nulls, posted, cache, wakers, ticks, handles,
                 answer, abandoned>>

AcceptSafe(i, b) ==
  /\ BeginAccept(i, b)
  /\ Accepted(i)
  /\ stage' = [stage EXCEPT ![i] = "pending"]
  /\ ready' = ready \union {i}
  /\ UNCHANGED orphans

AcceptSafeFails(i, b) ==
  /\ BeginAccept(i, b)
  /\ Refused \/ QueuedWithError(i)
  /\ stage' = [stage EXCEPT ![i] = "dropped"]
  /\ orphans' = orphans \union {i}
  /\ UNCHANGED ready

---------------------------------------------------------------------------
(* The kernel answers an operation, in any order and at any time. After    *)
(* the ring is closed nobody sees the completion.                          *)
KernelComplete(i, r) ==
  /\ i \in kernel
  /\ kernel' = kernel \ {i}
  /\ nulls' = nulls \ {i}
  /\ abandoned' = abandoned \ {i}
  /\ answer' = [answer EXCEPT ![i] = r]
  /\ posted' = IF ring = "open" THEN [posted EXCEPT ![i] = r] ELSE posted
  /\ UNCHANGED <<ring, nextId, stage, bufOf, cache, orphans, taskVars,
                 bufVars>>

---------------------------------------------------------------------------
(* try_complete_safe_operation(i) after a cache miss drains the backend.   *)
(* Of the completions that are not i's, those of orphans free the orphan   *)
(* and leave no cache entry; the others are cached and their wakers woken. *)

Others(i) == Completed \ (orphans \union {i})

(* Seeded fault: only the target of the poll is looked at.                 *)
CacheDropsOthers(i) == cache

(* Seeded fault: a cached completion loses its error.                      *)
CacheForgetsErrors(i) ==
  [j \in Id |-> IF j \in Others(i) THEN "ok"
               ELSE IF j \in Completed /\ j # i THEN None ELSE cache[j]]

(* Seeded fault: the cache entry of an orphan is not removed again.        *)
CacheKeepsOrphans(i) ==
  [j \in Id |-> IF j \in Completed \ {i} THEN posted[j] ELSE cache[j]]

CacheAfterDrain(i) ==
  [j \in Id |-> IF j \in Others(i) THEN posted[j]
               ELSE IF j \in Completed /\ j # i THEN None ELSE cache[j]]

(* Seeded fault: the orphan table is not told about completions.           *)
OrphansIgnoreDrain == orphans

OrphansAfterDrain == orphans \ Completed

Woken(i) == Others(i) \intersect wakers
Scheduled(i) == {j \in Woken(i) : stage[j] = "pending"}

Drain(i) ==
  /\ posted' = [j \in Id |-> None]
  /\ cache' = CacheAfterDrain(i)
  /\ orphans' = OrphansAfterDrain

(* The future resolves: with Ok the handle goes back to the caller, with   *)
(* Err the buffer is dropped; accept_safe drops its buffer in both cases.  *)
Resolve(i, r) ==
  /\ stage' = [stage EXCEPT ![i] = r]
  /\ handles' = IF r = "ok" /\ ~IsAccept(i)
                THEN [handles EXCEPT ![bufOf[i]] = @ + 1] ELSE handles

(* The library drops what kept the buffers of the operations in ids.       *)
LetGoOf(ids) == abandoned' = abandoned \union {i \in ids : UsesMemory(i)}

(* A poll happens when the task has been woken. Once the future is gone    *)
(* its helper task wakes nothing, so it leaves ticks with the future.      *)
Polled(i, s) == ring = "open" /\ stage[i] = s /\ i \in ready

PollFailed(i) ==
  /\ Polled(i, "failed")
  /\ Resolve(i, "err")
  /\ LetGoOf({i})
  /\ ready' = ready \ {i}
  /\ UNCHANGED <<ring, nextId, bufOf, nulls, kernel, ringVars, wakers,
                 ticks, owner, shared, answer>>

PollCached(i) ==
  /\ Polled(i, "pending")
  /\ cache[i] # None
  /\ cache' = [cache EXCEPT ![i] = None]
  /\ Resolve(i, cache[i])
  /\ wakers' = wakers \ {i}
  /\ ready' = ready \ {i}
  /\ ticks' = ticks \ {i}
  /\ UNCHANGED <<ring, nextId, bufOf, nulls, kernel, posted, orphans,
                 owner, shared, answer, abandoned>>

PollCompletes(i) ==
  /\ Polled(i, "pending")
  /\ cache[i] = None
  /\ i \in Completed
  /\ Drain(i)
  /\ Resolve(i, posted[i])
  /\ wakers' = wakers \ (Woken(i) \union {i})
  /\ ready' = (ready \ {i}) \union Scheduled(i)
  /\ ticks' = ticks \ {i}
  /\ UNCHANGED <<ring, nextId, bufOf, nulls, kernel, owner, shared,
                 answer, abandoned>>

(* Seeded fault: no helper task is spawned, the waker is trusted alone.    *)
ArmWakerOnly(i) ==
  /\ wakers' = (wakers \ Woken(i)) \union {i}
  /\ UNCHANGED ticks

(* Still pending: the waker is registered and a task is spawned that wakes *)
(* the future again after three yields.                                    *)
ArmWakeup(i) ==
  /\ wakers' = (wakers \ Woken(i)) \union {i}
  /\ ticks' = ticks \union {i}

PollPending(i) ==
  /\ Polled(i, "pending")
  /\ cache[i] = None
  /\ i \notin Completed
  /\ Drain(i)
  /\ ArmWakeup(i)
  /\ ready' = (ready \ {i}) \union Scheduled(i)
  /\ UNCHANGED <<ring, nextId, futureVars, kernel, bufVars, answer,
                 abandoned>>

(* The backend fails to poll (epoll_wait does when a signal arrives): the  *)
(* future resolves with the error and its SafeOperation is dropped.        *)
PollError(i) ==
  /\ Polled(i, "pending")
  /\ cache[i] = None
  /\ stage' = [stage EXCEPT ![i] = "err"]
  /\ orphans' = orphans \union {i}
  /\ wakers' = wakers \ {i}
  /\ ready' = ready \ {i}
  /\ ticks' = ticks \ {i}
  /\ UNCHANGED <<ring, nextId, bufOf, nulls, kernel, posted, cache, bufVars, answer, abandoned>>

(* The spawned task has yielded and calls the waker it holds.              *)
Tick(i) ==
  /\ i \in ticks
  /\ ticks' = ticks \ {i}
  /\ ready' = ready \union {i}
  /\ UNCHANGED <<ring, nextId, futureVars, kernel, ringVars, wakers,
                 bufVars, answer, abandoned>>

(* A combinator around the future (select!, join!) polls it for reasons of *)
(* its own.                                                                *)
SpuriousWake(i) ==
  /\ stage[i] = "pending" /\ i \notin ready
  /\ ready' = ready \union {i}
  /\ UNCHANGED <<ring, nextId, futureVars, kernel, ringVars, wakers, ticks,
                 bufVars, answer, abandoned>>

---------------------------------------------------------------------------
(* Seeded fault: a pending operation is dropped without registering it.    *)
DropForgetsOrphan(i) ==
  /\ Live(i)
  /\ stage' = [stage EXCEPT ![i] = "dropped"]
  /\ ready' = ready \ {i}
  /\ ticks' = ticks \ {i}
  /\ UNCHANGED <<ring, nextId, bufOf, nulls, kernel, ringVars, wakers, bufVars, answer, abandoned>>

(* The future is dropped. Drop of SafeOperation registers an orphan unless *)
(* the operation is marked completed, as a failed one is: its buffer goes. *)
(* The waker entry stays behind.                                           *)
DropFuture(i) ==
  /\ Live(i)
  /\ \/ stage[i] = "pending" /\ orphans' = orphans \union {i} /\ UNCHANGED abandoned
     \/ stage[i] = "failed" /\ LetGoOf({i}) /\ UNCHANGED orphans
  /\ stage' = [stage EXCEPT ![i] = "dropped"]
  /\ ready' = ready \ {i}
  /\ ticks' = ticks \ {i}
  /\ UNCHANGED <<ring, nextId, bufOf, nulls, kernel, posted, cache, wakers,
                 bufVars, answer>>

(* Ring::process_completions is a placeholder: it empties the orphan table *)
(* and never looks at the backend.                                         *)
ProcessCompletions ==
  /\ ring = "open"
  /\ orphans # {}
  /\ orphans' = {}
  /\ LetGoOf(orphans)
  /\ UNCHANGED <<ring, nextId, futureVars, kernel, posted, cache, taskVars,
                 bufVars, answer>>

(* The Ring is dropped: every future borrows it, so none is left. Drop for *)
(* Ring counts only operations of the borrowed-buffer API, then the fields *)
(* go: the backend is closed, cache, wakers and orphan table are freed.    *)
DropRing ==
  /\ ring = "open"
  /\ \A i \in Id : ~Live(i)
  /\ ring' = "dropped"
  /\ posted' = [i \in Id |-> None]
  /\ cache' = [i \in Id |-> None]
  /\ orphans' = {}
  /\ wakers' = {}
  /\ LetGoOf(orphans)
  /\ UNCHANGED <<nextId, futureVars, kernel, ready, ticks, bufVars, answer>>

---------------------------------------------------------------------------
UserStep == \E b \in Buf : \/ NewBuffer(b) \/ CloneHandle(b) \/ DropHandle(b)
                          \/ TryAccess(b) \/ DropGuard(b)

Submission == \E i \in Id, b \in Buf :
                \/ SubmitOwned(i, b) \/ SubmitOwnedFails(i, b)
                \/ AcceptSafe(i, b) \/ AcceptSafeFails(i, b)

Poll(i) == \/ PollFailed(i) \/ PollCached(i) \/ PollCompletes(i)
           \/ PollPending(i) \/ PollError(i)

Next == \/ UserStep
        \/ Submission
        \/ \E i \in Id : \/ DropFuture(i)
                        \/ Poll(i)
                        \/ Tick(i)
                        \/ SpuriousWake(i)
                        \/ \E r \in Result : KernelComplete(i, r)
        \/ ProcessCompletions
        \/ DropRing

Spec == Init /\ [][Next]_vars

(* The executor polls a woken task and runs a spawned one; nothing obliges *)
(* the kernel, the peer or the user.                                       *)
Fairness == \A i \in Id : WF_vars(Poll(i)) /\ WF_vars(Tick(i))

FairSpec == Spec /\ Fairness

---------------------------------------------------------------------------
(* Properties.                                                             *)

(* Every variable keeps its type, ids are handed out in order, and only    *)
(* buffers that exist are attached to them.                                *)
TypeOK ==
  /\ ring \in {"open", "dropped"}
  /\ nextId \in 1 .. (MaxSub + 1)
  /\ stage \in [Id -> Stage]
  /\ bufOf \in [Id -> Buf \union {NoBuf}]
  /\ nulls \subseteq Id /\ kernel \subseteq Id /\ orphans \subseteq Id
  /\ wakers \subseteq Id /\ ready \subseteq Id /\ ticks \subseteq Id
  /\ abandoned \subseteq Id
  /\ posted \in [Id -> Result \union {None}]
  /\ cache \in [Id -> Result \union {None}]
  /\ answer \in [Id -> Result \union {None}]
  /\ owner \in [Buf -> {"User", "Returning", "Kernel"}]
  /\ handles \in [Buf -> Nat]
  /\ shared \subseteq Buf
  /\ \A i \in Id : i < nextId <=> stage[i] # "unused"
  /\ \A i \in Id : i < nextId <=> bufOf[i] \in Buf

(* No use after free (safety.rs 8-14), as far as the code keeps it: while  *)
(* the kernel can touch a buffer something keeps its allocation alive,     *)
(* whichever of futures dropped, handles dropped and submissions failed    *)
(* happened in between. The ids in abandoned are the only exceptions: an   *)
(* orphan cleared by process_completions or by dropping the Ring, and a    *)
(* submission the backend queued while reporting an error, once its failed *)
(* future has ended. What comes of those, CancellationIsSafe shows.        *)
KernelBuffersAlive ==
  \A i \in Id \ abandoned : UsesMemory(i) => Alive(bufOf[i])

(* No completion is lost or seen twice: the answer a pending future waits  *)
(* for is in exactly one place, still with the kernel, in the backend's    *)
(* queue, or in the cache, however the polls of other futures drain it.    *)
CompletionAccounted ==
  \A i \in Id : stage[i] = "pending" =>
    \/ i \in kernel /\ posted[i] = None /\ cache[i] = None
    \/ i \notin kernel /\ posted[i] # None /\ cache[i] = None
    \/ i \notin kernel /\ posted[i] = None /\ cache[i] # None

(* An orphan is owed a completion that will release it, unless it was      *)
(* never queued (accept_safe whose submission was refused) or its          *)
(* completion had been cached before the future was dropped: those two     *)
(* stay in the orphan table for good, and no other entry does.             *)
OrphanAccounted ==
  \A i \in orphans :
    \/ i \in kernel \/ posted[i] # None
    \/ cache[i] # None
    \/ stage[i] = "dropped" /\ IsAccept(i) /\ answer[i] = None

(* A pending future is never asleep: it is about to be polled, or its      *)
(* waker is registered and a helper task will wake it.                     *)
WakeupArmed ==
  \A i \in Id : stage[i] = "pending" /\ i \notin ready =>
                 i \in wakers /\ i \in ticks

(* What operation i has on buffer b: it keeps it alive, or works on it     *)
(* with the library's knowledge.                                           *)
Claims(i, b) == Holds(i, b) \/ (UsesMemory(i) /\ i \notin abandoned /\ bufOf[i] = b)

(* The hot potato: as long as clone_handle was not called on a buffer, one *)
(* party has it. No two operations have a claim on it, the user has no     *)
(* handle while one has, and no guard either while an operation works on   *)
(* the memory. An abandoned operation has no claim: it works on memory     *)
(* that was freed, and that may belong to any of these parties by now.     *)
HotPotato ==
  \A b \in Buf \ shared :
    /\ handles[b] <= 1
    /\ \A i, j \in Id : Claims(i, b) /\ Claims(j, b) => i = j
    /\ \A i \in Id : Claims(i, b) => handles[b] = 0
    /\ \A i \in Id \ abandoned :
         UsesMemory(i) /\ bufOf[i] = b => owner[b] # "Returning"

(* A future resolves Ok only with what the kernel answered to its own      *)
(* operation, even when another future's poll fetched that answer.         *)
ResultFidelity ==
  \A i \in Id : /\ stage[i] = "ok" => answer[i] = "ok" /\ i \notin kernel
               /\ cache[i] # None => cache[i] = answer[i]

(* Whoever drains the completion of an orphan frees the orphan, and leaves *)
(* nothing of it in the cache.                                             *)
OrphanReleasedAtDrain ==
  [][\A i \in orphans : (ring' = "open" /\ posted[i] # None /\ posted'[i] = None) =>
                          i \notin orphans' /\ cache'[i] = None]_vars

(* A future whose operation the kernel has answered resolves, unless it is *)
(* dropped, whoever drains the answer.                                     *)
CompletedFutureResolves ==
  \A i \in Id : (stage[i] = "pending" /\ answer[i] # None) ~> (stage[i] # "pending")

---------------------------------------------------------------------------
(* The inductive invariant behind these properties, by parts.              *)

(* An id that was not handed out appears nowhere.                          *)
FreshIds ==
  \A i \in Id : stage[i] = "unused" =>
    /\ i \notin kernel \union nulls \union abandoned \union orphans
    /\ i \notin wakers \union ready \union ticks
    /\ posted[i] = None /\ cache[i] = None /\ answer[i] = None

(* An operation is answered once, and the answer travels from the kernel   *)
(* to the backend's queue and from there to the cache.                     *)
OneAnswer ==
  \A i \in Id :
    /\ i \in kernel => posted[i] = None /\ cache[i] = None /\ answer[i] = None
    /\ posted[i] # None => posted[i] = answer[i] /\ cache[i] = None

(* What the kernel may touch is held by a live future or an orphan.        *)
KernelHeld ==
  \A i \in kernel \ (nulls \union abandoned) :
    Live(i) \/ i \in orphans

(* An abandoned operation is in the kernel and nobody holds its buffer.    *)
AbandonedLoose ==
  \A i \in abandoned : UsesMemory(i) /\ ~Live(i) /\ i \notin orphans

(* A future becomes an orphan only when it ends, and a closed Ring has     *)
(* neither.                                                                *)
OrphansEnded ==
  /\ \A i \in orphans : stage[i] # "pending" /\ stage[i] # "failed"
  /\ ring = "dropped" => orphans = {} /\ \A i \in Id : ~Live(i)

(* Everything above, inductive.                                            *)
IInv == /\ TypeOK /\ FreshIds /\ OneAnswer /\ KernelHeld /\ AbandonedLoose
        /\ OrphansEnded /\ CompletionAccounted /\ OrphanAccounted /\ WakeupArmed
        /\ HotPotato /\ ResultFidelity

---------------------------------------------------------------------------
(* The promise of the ownership-transfer API (ownership.rs 9-33): who has  *)
(* a buffer, and the steps in which it changes hands. The user, the        *)
(* operations and the kernel never get a buffer out of turn, in whatever   *)
(* order futures are polled and dropped; the promise about a buffer is     *)
(* forfeited only when the library lets go of it under the kernel, and     *)
(* stands again once the kernel has answered.                              *)

UserHas(b) == handles[b] > 0 \/ owner[b] = "Returning"
LibraryHas(b) == \E i \in Id : Holds(i, b)
KernelHas(b) == \E i \in Id : UsesMemory(i) /\ bufOf[i] = b

Has(b) == [user |-> UserHas(b), library |-> LibraryHas(b), kernel |-> KernelHas(b)]

CustodyOf(b) == {p \in {"user", "library", "kernel"} : Has(b)[p]}

Promise == INSTANCE Custody WITH custody <- [b \in Buf |-> CustodyOf(b)],
                                 cloned <- shared,
                                 forfeited <- {bufOf[i] : i \in abandoned}

Implements == Promise!Spec

(* The promise without that exception, as ownership.rs 59 and safety.rs 14 *)
(* make it: a buffer with one handle is never with the user while the      *)
(* kernel may touch its memory, whatever was cancelled. The code does not  *)
(* keep it: process_completions, the drop of the Ring and a late error of  *)
(* the submission free memory that is in use, and it is allocated again.   *)
CancellationIsSafe == \A b \in Buf \ shared : KernelHas(b) => ~UserHas(b)
=============================================================================
