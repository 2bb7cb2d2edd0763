----------------------------- MODULE SharedRing -----------------------------
(***************************************************************************)
(* The two APIs of a Ring over one backend: the owned API, whose ids come  *)
(* from the OrphanTracker, and the borrowed API, whose ids come from the   *)
(* OperationTracker. Both counters start at 1; the completion queue, the   *)
(* completion cache and the backend's in-flight table are shared and keyed *)
(* by that id alone. The module follows each answer of the kernel from the *)
(* queue to the caller it is given to, through every consumer: the poll of *)
(* an owned future, try_complete, wait_for_completion, try_complete_by_id  *)
(* and poll_operation_completion.                                          *)
(*                                                                         *)
(* The consumers of the borrowed API take &mut self and an owned future    *)
(* borrows the Ring, so they run only when no owned future is alive. Who   *)
(* holds which buffer, and failing owned submissions, are in OwnedRing.    *)
(***************************************************************************)
EXTENDS Naturals, Sequences, SequencesExt

CONSTANTS
  MaxOps,     \* bound: how many operations are submitted
  BlockAfter, \* polls of try_complete_by_id before it blocks (50 in the code)
  NoOp        \* no operation

ASSUME MaxOpsAssumption == MaxOps \in Nat \ {0}
ASSUME BlockAfterAssumption == BlockAfter \in Nat
ASSUME NoOpAssumption == NoOp \notin 1 .. MaxOps

Op == 1 .. MaxOps  \* operations, in the order of submission
Id == 1 .. MaxOps  \* what each counter may hand out

VARIABLES
  ring,        \* "open", "dropped", "panicked" (in Drop), "crashed" (RefCell)
  nextOwned,   \* OrphanTracker.next_submission_id
  nextTracked, \* OperationTracker.next_id
  polls,       \* POLL_COUNT, a static of the process, capped
  api,         \* which API submitted the operation
  id,          \* its user_data
  stage,       \* what its caller knows of it
  kernel,      \* queued and not answered
  cq,          \* answered and not drained, in the order of the answers
  inFlight,    \* keys of IoUringBackend.in_flight
  cache,       \* Ring.completion_cache: whose answer is kept under an id
  tracked,     \* keys of OperationTracker.in_flight
  orphans,     \* OrphanTracker.orphaned_operations: whose buffer it keeps
  reply,       \* what the last call returned
  got,         \* history: whose answer the caller of each operation was given
  collided     \* history: an id was given out that another operation used

vars == <<ring, nextOwned, nextTracked, polls, api, id, stage, kernel, cq,
          inFlight, cache, tracked, orphans, reply, got, collided>>

---------------------------------------------------------------------------
Submitted == {o \in Op : stage[o] # "unused"}
Fresh(o) == o \notin Submitted /\ \A p \in 1 .. (o - 1) : p \in Submitted

Waiting(o) == stage[o] = "waiting"

(* An owned future borrows the Ring: no &mut call while one is alive.      *)
Exclusive == ring = "open" /\ \A o \in Op : api[o] = "owned" => ~Waiting(o)

(* The answer of o is still on its way.                                    *)
Underway(o) == o \in kernel \/ o \in ToSet(cq) \/ \E i \in Id : cache[i] = o

(* Something still goes by the id of o: a caller waits under it, an answer *)
(* is on its way, the orphan table keeps a buffer, or o is on the tracker. *)
Unfinished(o) == \/ Waiting(o) \/ Underway(o)
                 \/ orphans[id[o]] = o
                 \/ api[o] = "borrowed" /\ id[o] \in tracked

InUse(i) == \E o \in Submitted : id[o] = i /\ Unfinished(o)

(* A caller waits for an answer that has been thrown away.                 *)
Lost(o) == Waiting(o) /\ ~Underway(o)

Init ==
  /\ ring = "open" /\ nextOwned = 1 /\ nextTracked = 1
  /\ polls \in 0 .. (BlockAfter + 1)  \* other Rings of the process poll too
  /\ api = [o \in Op |-> "none"]
  /\ id = [o \in Op |-> 0]
  /\ stage = [o \in Op |-> "unused"]
  /\ kernel = {} /\ cq = <<>> /\ inFlight = {} /\ tracked = {}
  /\ cache = [i \in Id |-> NoOp]
  /\ orphans = [i \in Id |-> NoOp]
  /\ reply = "none"
  /\ got = [o \in Op |-> NoOp]
  /\ collided = FALSE

---------------------------------------------------------------------------
(* Submission.                                                             *)

NextTrackedId(i) == nextTracked' = i + 1

Queue(o, i) ==
  /\ kernel' = kernel \union {o}
  /\ inFlight' = inFlight \union {i}

Name(o, a, i) ==
  /\ ring = "open" /\ Fresh(o)
  /\ api' = [api EXCEPT ![o] = a]
  /\ id' = [id EXCEPT ![o] = i]
  /\ collided' = (collided \/ InUse(i))
  /\ UNCHANGED <<ring, polls, cq, cache, orphans, got>>

SubmitOwned(o) ==
  /\ Name(o, "owned", nextOwned)
  /\ nextOwned' = nextOwned + 1
  /\ Queue(o, nextOwned)
  /\ stage' = [stage EXCEPT ![o] = "waiting"]
  /\ reply' = "ok"
  /\ UNCHANGED <<nextTracked, tracked>>

(* Ring::submit registers the operation before it asks the backend.        *)
Register(o) ==
  /\ Exclusive
  /\ Name(o, "borrowed", nextTracked)
  /\ NextTrackedId(nextTracked)
  /\ tracked' = tracked \union {nextTracked}
  /\ UNCHANGED nextOwned

Submit(o) ==
  /\ Register(o)
  /\ Queue(o, nextTracked)
  /\ stage' = [stage EXCEPT ![o] = "waiting"]
  /\ reply' = "ok"

(* The backend returns Err, with or without having queued the entry; the   *)
(* registration stays.                                                     *)
SubmitFails(o) ==
  /\ Register(o)
  /\ Queue(o, nextTracked) \/ UNCHANGED <<kernel, inFlight>>
  /\ stage' = [stage EXCEPT ![o] = "failed"]
  /\ reply' = "error"

KernelComplete(o) ==
  /\ o \in kernel
  /\ kernel' = kernel \ {o}
  /\ cq' = IF ring = "open" THEN Append(cq, o) ELSE cq
  /\ UNCHANGED <<ring, nextOwned, nextTracked, polls, api, id, stage,
                 inFlight, cache, tracked, orphans, reply, got, collided>>

---------------------------------------------------------------------------
(* Draining the backend: its table forgets the ids it reports.             *)

Drained == inFlight \ {id[p] : p \in ToSet(cq)}

DrainBackend == cq' = <<>> /\ inFlight' = Drained

Hand(o, p) ==
  /\ stage' = [stage EXCEPT ![o] = "done"]
  /\ got' = [got EXCEPT ![o] = p]

UNCHANGED_Submissions == UNCHANGED <<ring, nextOwned, nextTracked, api, id,
                                    kernel, collided>>

(* Where in a list of entries the id i occurs.                             *)
With(entries, i) == {k \in DOMAIN entries : id[entries[k]] = i}

(* The poll of an owned future frees an orphan with the first entry that   *)
(* has its id, whoever it answers. It keeps the other entries: the newest  *)
(* one of its own id is its result, the newest of any other id is cached.  *)
Kept(i) == {k \in With(cq, i) : orphans[i] = NoOp \/ k # Min(With(cq, i))}

NewestKept(i) == IF Kept(i) = {} THEN NoOp ELSE cq[Max(Kept(i))]

PollOwned(o) ==
  /\ ring = "open" /\ api[o] = "owned" /\ Waiting(o)
  /\ cache[id[o]] = NoOp
  /\ cache' = [i \in Id |-> IF i = id[o] \/ With(cq, i) = {} THEN cache[i]
                            ELSE NewestKept(i)]
  /\ orphans' = [i \in Id |-> IF With(cq, i) = {} THEN orphans[i] ELSE NoOp]
  /\ IF NewestKept(id[o]) = NoOp THEN UNCHANGED <<stage, got>>
                                 ELSE Hand(o, NewestKept(id[o]))
  /\ DrainBackend
  /\ reply' = "ok"
  /\ UNCHANGED <<polls, tracked>>
  /\ UNCHANGED_Submissions

(* Seeded fault: the answer stays in the cache after it was returned.      *)
PollOwnedKeepsCache(o) ==
  /\ ring = "open" /\ api[o] = "owned" /\ Waiting(o)
  /\ cache[id[o]] # NoOp
  /\ Hand(o, cache[id[o]])
  /\ reply' = "ok"
  /\ UNCHANGED <<polls, cache, cq, inFlight, tracked, orphans>>
  /\ UNCHANGED_Submissions

PollOwnedCached(o) ==
  /\ ring = "open" /\ api[o] = "owned" /\ Waiting(o)
  /\ cache[id[o]] # NoOp
  /\ cache' = [cache EXCEPT ![id[o]] = NoOp]
  /\ Hand(o, cache[id[o]])
  /\ reply' = "ok"
  /\ UNCHANGED <<polls, cq, inFlight, tracked, orphans>>
  /\ UNCHANGED_Submissions

DropOwned(o) ==
  /\ ring = "open" /\ api[o] = "owned" /\ Waiting(o)
  /\ stage' = [stage EXCEPT ![o] = "dropped"]
  /\ orphans' = [orphans EXCEPT ![id[o]] = o]
  /\ UNCHANGED <<polls, cq, inFlight, cache, tracked, reply, got>>
  /\ UNCHANGED_Submissions

ProcessCompletions ==
  /\ ring = "open"
  /\ \E i \in Id : orphans[i] # NoOp
  /\ orphans' = [i \in Id |-> NoOp]
  /\ reply' = "ok"
  /\ UNCHANGED <<polls, stage, cq, inFlight, cache, tracked, got>>
  /\ UNCHANGED_Submissions

---------------------------------------------------------------------------
(* try_complete_by_id(id[o]), which the futures of the borrowed API and    *)
(* await_completion call too.                                              *)

AskById(o) == /\ Exclusive /\ api[o] = "borrowed" /\ stage[o] # "failed"
              /\ polls' = IF polls > BlockAfter THEN polls ELSE polls + 1

(* The caller takes the answer p; if it had one already, p is dropped.     *)
Give(o, p) == IF Waiting(o) THEN Hand(o, p) ELSE UNCHANGED <<stage, got>>

ByIdCached(o) ==
  /\ AskById(o)
  /\ cache[id[o]] # NoOp
  /\ cache' = [cache EXCEPT ![id[o]] = NoOp]
  /\ tracked' = tracked \ {id[o]}
  /\ Give(o, cache[id[o]])
  /\ reply' = "ok"
  /\ UNCHANGED <<cq, inFlight, orphans>>
  /\ UNCHANGED_Submissions

(* Seeded fault: the first answer of any operation is taken for the one    *)
(* asked for.                                                              *)
AnswersOfAny(i) == {k \in DOMAIN cq : id[cq[k]] \in tracked}

(* Entries with an id the tracker does not know are ignored.               *)
Answers(i) == IF i \in tracked THEN With(cq, i) ELSE {}

(* Seeded fault: what was not asked for is dropped.                        *)
DropOthers(asked) == cache

CacheOthers(asked) ==
  [i \in Id |-> IF i = asked \/ Answers(i) = {} THEN cache[i]
               ELSE cq[Max(Answers(i))]]

(* Seeded fault: the id asked for leaves the tracker with any answer.      *)
UntrackAnyway(asked) == IF cq = <<>> THEN tracked ELSE tracked \ {asked}

UntrackAsked(asked) ==
  IF Answers(asked) = {} THEN tracked ELSE tracked \ {asked}

(* After BlockAfter polls it waits until there is a completion.            *)
ByIdDrains(o) ==
  /\ AskById(o)
  /\ cache[id[o]] = NoOp
  /\ polls > BlockAfter => cq # <<>>
  /\ cache' = CacheOthers(id[o])
  /\ tracked' = UntrackAsked(id[o])
  /\ IF Answers(id[o]) = {} THEN UNCHANGED <<stage, got>>
                            ELSE Give(o, cq[Min(Answers(id[o]))])
  /\ DrainBackend
  /\ reply' = "ok"
  /\ UNCHANGED orphans
  /\ UNCHANGED_Submissions

(* If that wait fails, because nothing is in flight or because a signal    *)
(* interrupts it, the fallback borrows the backend a second time.          *)
ByIdCrashes(o) ==
  /\ AskById(o)
  /\ cache[id[o]] = NoOp
  /\ polls > BlockAfter
  /\ ring' = "crashed"
  /\ reply' = "error"
  /\ UNCHANGED <<nextOwned, nextTracked, api, id, stage, kernel, cq,
                 inFlight, cache, tracked, orphans, got, collided>>

---------------------------------------------------------------------------
(* try_complete and wait_for_completion empty the cache, in any order, and *)
(* then the backend: try_complete only if the cache was empty, and         *)
(* wait_for_completion always.                                             *)

CachedOps == {cache[i] : i \in Id} \ {NoOp}

(* An id that is not tracked, or not any more, is an error: it ends the    *)
(* call, and the results collected before it are dropped.                  *)
Recognised(entries) ==
  {k \in DOMAIN entries :
     \A m \in 1 .. k : /\ id[entries[m]] \in tracked
                       /\ m = Min(With(entries, id[entries[m]]))}

(* Seeded fault: what has been reported stays tracked.                     *)
UntrackNone(entries) == tracked

Untrack(entries) == tracked \ {id[entries[k]] : k \in Recognised(entries)}

(* The caller matches a result to its operation by the id.                 *)
ReportedTo(o, ps) == api[o] = "borrowed" /\ Waiting(o) /\ \E p \in ps : id[p] = id[o]

Report(entries) ==
  LET failed == Recognised(entries) # DOMAIN entries
      ps == IF failed THEN {} ELSE ToSet(entries)
  IN /\ tracked' = Untrack(entries)
     /\ reply' = IF failed THEN "error" ELSE "ok"
     /\ stage' = [o \in Op |-> IF ReportedTo(o, ps) THEN "done" ELSE stage[o]]
     /\ got' = [o \in Op |-> IF ReportedTo(o, ps)
                             THEN CHOOSE p \in ps : id[p] = id[o] ELSE got[o]]

TakeCache == cache' = [i \in Id |-> NoOp]

TryComplete ==
  /\ Exclusive
  /\ CachedOps # {} \/ cq # <<>>
  /\ TakeCache
  /\ \E cached \in SetToSeqs(CachedOps) :
       IF cached = <<>> THEN DrainBackend /\ Report(cq)
       ELSE UNCHANGED <<cq, inFlight>> /\ Report(cached)
  /\ UNCHANGED <<polls, orphans>>
  /\ UNCHANGED_Submissions

(* It returns an error at once when the tracker is empty.                  *)
MayWait == Exclusive /\ tracked # {}

WaitForCompletion ==
  /\ MayWait
  /\ inFlight # {} /\ cq # <<>>
  /\ TakeCache
  /\ DrainBackend
  /\ \E cached \in SetToSeqs(CachedOps) : Report(cached \o cq)
  /\ UNCHANGED <<polls, orphans>>
  /\ UNCHANGED_Submissions

(* The backend's wait fails: nothing is in flight there, or a signal. The  *)
(* cache has been emptied already.                                         *)
WaitFails ==
  /\ MayWait
  /\ TakeCache
  /\ reply' = IF inFlight = {} THEN "idle" ELSE "error"
  /\ UNCHANGED <<polls, stage, cq, inFlight, tracked, orphans, got>>
  /\ UNCHANGED_Submissions

(* poll_operation_completion reports the first entry with the id and drops *)
(* all others; the tracker and the cache are not looked at.                *)
PollById(o) ==
  /\ Exclusive /\ api[o] = "borrowed" /\ stage[o] # "failed"
  /\ IF With(cq, id[o]) = {} THEN UNCHANGED <<stage, got>>
                             ELSE Give(o, cq[Min(With(cq, id[o]))])
  /\ DrainBackend
  /\ reply' = "polled"
  /\ UNCHANGED <<polls, cache, tracked, orphans>>
  /\ UNCHANGED_Submissions

(* Drop for Ring panics if the tracker is not empty.                       *)
DropRing ==
  /\ Exclusive
  /\ ring' = IF tracked = {} THEN "dropped" ELSE "panicked"
  /\ UNCHANGED <<nextOwned, nextTracked, polls, api, id, stage, kernel, cq,
                 inFlight, cache, tracked, orphans, reply, got, collided>>

Next ==
  \/ \E o \in Op : \/ SubmitOwned(o) \/ Submit(o) \/ SubmitFails(o)
                   \/ KernelComplete(o)
                   \/ PollOwned(o) \/ PollOwnedCached(o) \/ DropOwned(o)
                   \/ ByIdCached(o) \/ ByIdDrains(o) \/ ByIdCrashes(o)
                   \/ PollById(o)
  \/ TryComplete \/ WaitForCompletion \/ WaitFails
  \/ ProcessCompletions
  \/ DropRing

Spec == Init /\ [][Next]_vars

---------------------------------------------------------------------------
(* Properties. "Without a collision" means that no id was handed out while *)
(* an operation of the other API that goes by it was unfinished.           *)

(* One answer of the kernel is never given to two callers, not even when   *)
(* ids collide: a poll takes it out of the queue or out of the cache.      *)
AnswerDeliveredOnce ==
  \A o, p \in Op : o # p /\ got[o] = got[p] => got[o] = NoOp

(* Without a collision every caller gets the answer to its own operation,  *)
(* whichever consumer took it out of the queue.                            *)
OwnAnswer == ~collided => \A o \in Op : got[o] \in {NoOp, o}

(* An operation of the borrowed API is tracked while the kernel works on   *)
(* it, so that dropping the Ring then panics (core/mod.rs 453).            *)
TrackedInKernel == \A o \in kernel : api[o] = "borrowed" => id[o] \in tracked

(* The backend's table holds exactly the ids it has not reported, so that  *)
(* "nothing in flight" is true when it says so.                            *)
InFlightExact == ring = "open" => inFlight = {id[o] : o \in kernel \union ToSet(cq)}

(* Without a collision of ids both tables agree with the kernel: the one   *)
(* that decides whether Drop panics and the one that decides whether a     *)
(* wait is refused (io_uring.rs 154).                                      *)
TablesMatchKernel == ~collided => TrackedInKernel /\ InFlightExact

(* Without a collision an answer somebody waits for is thrown away only by *)
(* a call that returns an error, or by poll_operation_completion.          *)
LossReported ==
  [][\A o \in Op : ring' = "open" /\ ~Lost(o) /\ Lost(o)' /\ ~collided' =>
                      reply' \in {"error", "idle", "polled"}]_vars

(* Whoever gives a result to a caller of the borrowed API takes the        *)
(* operation off the tracker, so that it does not make Drop panic later;   *)
(* poll_operation_completion does not.                                     *)
ReportedIsUntracked ==
  [][\A o \in Op : api[o] = "borrowed" /\ got[o] # got'[o] /\ reply' # "polled" =>
                      id[o] \notin tracked']_vars

---------------------------------------------------------------------------
(* What the documentation says and the code does not do.                   *)

(* backend/mod.rs 56-57: the buffer must remain valid until the operation  *)
(* completes, and user_data is unique among pending operations; safety.rs  *)
(* 244 returns the buffer because the operation completed. So what has     *)
(* been returned to its caller is not with the kernel any more.            *)
ReturnedAfterUse == \A o \in Op : got[o] # NoOp => o \notin kernel

=============================================================================
