# Verification of safer-ring

safer-ring is a Rust crate over io_uring (with an epoll fallback). It promises
that a buffer is never freed or reused while the kernel works on it, also when
futures are dropped, and that every awaited operation gets its completion. This
directory models the crate in TLA+, checks the models with TLC and proves the
main theorems with TLAPS. Paths below are relative to `src/src/`, the crate.

## The system

| component | state | operations | hard behaviour | correctness |
|---|---|---|---|---|
| owned buffers (`ownership.rs`) | ownership cell (User, Kernel, Returning), shared by reference-counted handles | new, clone_handle, try_access, guard drop, as_ptr_and_len | clones and guards overlapping with operations | one holder at a time; no access during an operation |
| owned operations, orphans (`safety.rs`, `ring/core/safe_operations.rs`) | SafeOperation in a future; id counter; orphan table | read/write(_at)_owned, accept_safe, poll, drop | a future dropped at any moment; failed submission; answers drained by another future | memory outlives the kernel's use; every orphan is released |
| ring core (`ring/core/mod.rs`, `ring/core/utility.rs`) | backend, operation tracker, completion cache, waker registry, orphan table, AsyncFd | drain, submit, await_completion, process_completions, drop | one completion queue, many consumers; one readiness event for several completions | no completion lost, none delivered twice |
| waker registry (`future/waker.rs`) | wakers by id | register, wake, remove | wake-ups lost or left behind | a pending future is woken |
| operation builder, borrowed API (`operation/`, `ring/core/*_operations.rs`) | the operation being built; tracked ids | setters, validate, every call of the Ring, futures | combinations of setters; two backends read one entry; failed submission | the kernel is asked for what the caller asked for; a tracked operation is one that will complete |
| completion processing (`ring/completion/`) | the cache, again | try_complete, wait_for_completion, try_complete_by_id | different consumers treat unknown ids differently | as for the ring core |
| batches (`ring/batch/`, `ring/core/batch_operations.rs`, `future/*batch_future.rs`) | operations, dependency graph, results | add, add_dependency, submit, poll, cancel | partial submission; fail-fast; foreign completions | acyclic graph; every result slot filled; results are the kernel's |
| backends (`backend/`) | queue entries in flight | submit, try_complete, wait | submission fails after queuing; one registration per descriptor in epoll | an accepted operation completes once |
| buffer pool (`pool/`) | free list, counters | get, try_get_fast, get_blocking, return, detach | threads; emptiness checked before the lock is retaken | one owner per buffer; free + in use = capacity |
| registry (`registry/`) | registered descriptors and buffers, tables, marks | register, unregister, mark | slots reused; marks that outlive their resource | nothing in use is unregistered |
| async adapters (`compat.rs`) | one pending operation and one buffer per direction | poll_read, poll_write, flush, drop | an operation survives the call that started it | bytes are delivered once, in order; failures are reported |
| buffer group (`advanced/buffer_group.rs`) | free list of indices | get, return | double return, 16-bit indices | an index has one owner |
| features and configuration (`advanced/`, `config.rs`, `ring/core/configuration.rs`) | detected features; a configuration | detect, presets, setters, validate, build a ring | two-part versions; combinations the kernel refuses | what is detected is there; what is built is accepted |
| runtime (`runtime.rs`) | the chosen backend | auto_detect, with_backend | containers, restricted clouds | a backend that works is chosen |

The components meet in the Ring: the futures call the ring's drain, the drain
calls the backend and writes the cache, the orphan table and the waker
registry; the wakers schedule futures; the kernel answers at any time.

Not modelled: pinned-buffer allocation, NUMA placement and the generation counter
(`buffer/`: values without a protocol, and a counter nothing checks), the
multi-shot record (`advanced/multi_shot.rs`: nothing reads it), logging,
performance counters and error types (nothing is decided by them). Of the
modelled components: `give_to_kernel` and `return_from_kernel` of an owned
buffer are public but called by no code of the crate; the registration calls of
the backends pass their arguments on; statistics other than the pool's are not read
by anybody.

## Modules

| module | models | proved |
|---|---|---|
| `Custody` | abstract specification: who may have a buffer, and between whom it moves | |
| `OwnedRing`, `OwnedRingProofs`, `MCOwnedRing` | the owned API end to end: futures, orphans, ownership cell, wakers; that it implements `Custody` | but for liveness |
| `SharedRing`, `SharedRingProofs`, `MCSharedRing` | both APIs on one Ring and every consumer of the completion queue | yes |
| `Awaiting` | how a task waits: await_completion, AsyncFd, the borrowed futures | liveness only |
| `Dependencies` | dependency graphs and reachability, without algorithms | |
| `BatchGraph` | abstract specification: what building a batch promises | |
| `BatchBuilder` | a batch being built, the cycle search one loop turn per step | yes |
| `DependencySearch` | the two recursive searches of `validation.rs`, one loop turn per step | yes |
| `BatchValidation`, `BatchBuilderProofs`, `MCBatchBuilder` | a batch whose graph is searched | |
| `Batch`, `BatchProofs`, `MCBatch` | submission of batches, the two batch futures, fail-fast | yes |
| `Epoll` | the fallback backend, the interest list and the descriptor table | but for liveness |
| `BufferPool` | the pool, its threads and its counters | but for liveness |
| `BufferGroup` | the indices of a group of provided buffers | yes |
| `Buffers`, `BuffersProofs`, `MCBuffers` | the pool beside the group | |
| `Registry` | slots, tables, handles and marks, for descriptors and buffers | with `Operations` |
| `Operations`, `OperationsProofs`, `MCOperations` | every call that builds an operation, with the registry and both backends | yes |
| `ReadAdapter`, `WriteAdapter`, `Compat`, `CompatProofs` | AsyncRead and AsyncWrite over the owned API | yes |
| `Clients`, `MCClients` | Compat beside Awaiting, for the run of both | |
| `Setup` | detection, configuration and the building of a ring; the runtime's choice | yes |
| `Backends`, `BackendProofs`, `MCBackends` | Setup beside Epoll, for the runs and the theorems of both | |

### OwnedRing

A handler runs without an await and is one step. A step of the kernel, of the
executor, of a spawned task or of user code may come between any two handlers.
The Ring's `RefCell`s confine it to one thread at a time, so no finer
interleaving exists in code that uses it as intended. The compiler does not
enforce that: `ring/core/mod.rs` 473-478 implements Sync by hand, under a comment
that says `RefCell` prevents it and another that speaks of internal
synchronization there is not. A Ring shared by two threads races on its
`RefCell`s, which is undefined; such programs are not modelled.

| variable | code |
|---|---|
| `ring` | whether the `Ring` value exists |
| `nextId` | `OrphanTracker.next_submission_id` |
| `stage`, `bufOf` | `SafeOperation` and the future that owns it |
| `kernel`, `posted` | entries in the backend without and with a completion queue entry |
| `nulls` | queued ids submitted with the null pointer of `as_ptr_and_len` |
| `cache`, `orphans`, `wakers` | `Ring.completion_cache`, `OrphanTracker.orphaned_operations`, `WakerRegistry.wakers` |
| `ready`, `ticks` | the executor's queue; the helper tasks that futures spawn |
| `owner`, `handles` | the ownership cell; handles user code holds |
| `shared`, `answer`, `abandoned` | history: cloned buffers; what the kernel answered; queued ids whose buffer the library let go of |

Actions carry the names of the code they model: `SubmitOwned` and
`SubmitOwnedFails` for the four `*_owned` calls, `AcceptSafe(Fails)`, one `Poll*`
action for each way out of `poll`, `DropFuture` for the drop of a future with its
`SafeOperation`, `ProcessCompletions`, `DropRing`. `KernelComplete` is the
environment: any queued operation may be answered, in any order, with a count or
an error. With `LateErrors` the backend may queue an entry and still return Err,
which `io_uring.rs` 133-137 does when `submit` fails after `push`.

A buffer is a piece of memory. The allocator knows nothing of the kernel: `NewBuffer`
and `AcceptSafe` may take any buffer that nothing in the process keeps alive
(`Unallocated`), one that a queued operation still points to included. That
happens after `process_completions`, after the drop of the Ring and after a late
submission error (`LetGoOf`, `abandoned`); the run `owned_use_after_free` shows it.

`Custody` says what of this a user relies on, with three variables: `custody[b]`,
the set of parties (user, library, kernel) that can touch the memory, `cloned`, and
`forfeited`. Its next-state relation lists the moves a buffer can make in one step,
from the allocation to the answer, and nothing else: there is no move from the
kernel to the user. `Forfeit` is not such a move. A buffer the library lets go of
while the kernel has it leaves the promise, for anything may happen to it then, and
comes back under it (`Recover`) when the kernel has answered. So `Implements` says
that there is no other way out, and the documented promise, without the exception,
is `CancellationIsSafe`, which the code breaks.
`OwnedRing` maps the futures and orphans that hold a buffer to the library, live
handles and guards to the user, queue entries with a pointer to the kernel.

### SharedRing

`OwnedRing` follows memory; `SharedRing` follows answers. It has an operation
as an identity apart from its `user_data`, because the two APIs number their
operations independently (`safety.rs` 424, `operation/tracker.rs`) over one
backend and one cache. `id[o]` is the number, `cache[i]` and `got[o]` say whose
answer is kept under a number and whose answer a caller was given.

| variable | code |
|---|---|
| `nextOwned`, `nextTracked` | the two id counters |
| `polls` | `POLL_COUNT`, the static of `completion/mod.rs` 128; a process may have other Rings, so it starts anywhere |
| `kernel`, `cq`, `inFlight` | the backend: queued, answered, and `IoUringBackend.in_flight` |
| `cache`, `tracked`, `orphans` | the Ring's cache, `OperationTracker.in_flight`, the orphan table |
| `stage`, `reply` | what a caller knows: waiting, answered, given up; what the last call returned |
| `got`, `collided` | history |

An owned future borrows the Ring (`&'ring Ring`) and the borrowed API takes
`&mut Ring`, so those calls happen only when no owned future is alive
(`Exclusive`); an orphan may be. Each consumer is an action: `PollOwned*` as in
`OwnedRing`, `TryComplete` (`try_complete`, and the batch futures' use of it),
`WaitForCompletion` and its failure `WaitFails`, `ByIdCached`, `ByIdDrains` and
`ByIdCrashes` (`try_complete_by_id`; the last is its fallback that borrows a
`RefCell` twice), `PollById` (`poll_operation_completion`). They differ in what
they do with an entry that is not theirs, which is what the properties are
about. The code handles the entries of one call one after the other and an error
stops it half-way. The actions state the outcome in closed form: of the entries
with one id an orphan takes the first and the cache keeps the last (`Kept`,
`NewestKept`), the tracker forgets the entries up to the first it does not know
(`Recognised`). That is what a theorem can speak of, and one step per entry would
add nothing: no other step can come between.

### Awaiting

`Awaiting` is about the task and not about the answers: `await_completion`
(`ring/core/mod.rs` 590 and on) and the futures' polls, which look with
`try_complete_by_id`. Between two awaits, and between the system call and the
bookkeeping of tokio, the kernel and the reactor may act, so the steps of the
loop are separate actions: `Check`, `Readable`, `ClearReady` (or `YieldNow`
without AsyncFd), `Again`.

| variable | code |
|---|---|
| `asyncFd` | whether `Ring.async_fd` is Some; epoll and a failed registration have none |
| `polls` | `POLL_COUNT`, as in SharedRing |
| `kernel`, `cq`, `cache`, `wakers` | as in SharedRing |
| `event`, `ready` | the descriptor became readable; the readiness `AsyncFd` keeps until `clear_ready` (tokio, external) |
| `op`, `at` | the id waited for; where the task is |

`await_completion` takes `&mut self` and may be given up at its awaits
(`Cancel`), after which another call goes on with what it left in the cache and
in the readiness. A borrowed future keeps the Ring for ever (`spent`, `asleep`).

### Batches

`BatchBuilder` is `Batch` before submission. `add_dependency` holds `&mut self`,
so nothing interleaves with its search; the steps of the loop are separate
actions because the proof is about the loop. The `Vec` used as a stack is a set
from which any element may be popped, which allows every order of the code's.
`DependencySearch` has `has_cycle` and `visit_node`: `path` is the recursion, a call
per element, and `todo` what the loop of each call has not reached. Which
key of a `HashMap` comes next is open. `BatchValidation` runs the two searches on the
batch as it has been built, and, while it is empty, on the graphs of `Asked`,
which need not come from a batch: the functions take any map, and cycles are
what they are there to find. What they conclude is compared with reachability in
`Dependencies` (`CyclesAreFound`, `OrderIsTopological`).

`Batch` starts with the graph built. `Submit` and `SubmitFails(b, standalone, k)`
are `submit_batch_with_config` and its standalone twin: the k-th operation is
refused, those before it are in the kernel. `holder` is the batch whose
`BatchFuture` has borrowed the Ring; the borrow is `&'ring mut self`, it lasts as
long as the Ring, so such a Ring is not dropped or used otherwise. `PollBatch`
and `PollError` are `poll_completions` of both futures: they take every
completion of the Ring and ignore those of other batches (`astray`). `OtherPoll`
is an unrelated `try_complete_by_id`, `Orphan` an owned operation whose future
was dropped and whose answer the tracker does not know.

### Epoll

The other modules take the backend as a queue that answers each entry once, as
io_uring does. `Epoll` models the fallback: what the kernel queues is not an
operation but a registration of a descriptor, and the operation is executed by
`poll_completions`, after `epoll_wait` has returned. `Fetch` is the system call,
`Execute` the handling of one event, and other threads may act between them.

| variable | code |
|---|---|
| `files`, `opened`, `ready` | the process's descriptor table and what its files are ready for (environment) |
| `interest` | the interest list of `epoll_fd`, keyed by descriptor and open file |
| `stage` ("pending"), `req` | `pending_operations` |
| `phase`, `events` | where `poll_completions` is; the `events` array |
| `careless`, `outrun` | history: whether user code closed or duplicated a descriptor under the backend; fetched operations whose file others have made unready |

An operation's file is remembered in `req` only to state the properties: the code
knows the descriptor number alone, and executes on whatever it stands for. Files
may have other users: `TakenElsewhere` is another thread, process or Ring that
reads the data, fills the room or accepts the connection, also between `epoll_wait`
and the system call. Then the operation ends with WouldBlock, or, on a descriptor
that was opened without O_NONBLOCK, keeps the thread in its system call (`Block`);
so does a write that is longer than the room there is (`TooLong`).

### BufferPool and BufferGroup

A critical section of the pool's mutex is one step of `BufferPool`.
`try_get_fast` has two (`Look`, `FinishFast`); a thread in `get_blocking` sleeps
between attempts (`Retry`). `held` and `detached` say where a buffer is that is
not in the free list; a `PooledBuffer` may be dropped by any thread.

`BufferGroup` has the count as the u32 it is and the indices as the u16 they are
(`Wrap` stands for 2^16). `ReturnBuffer` takes any index, as `return_buffer`
does; `misused` remembers that a caller returned what it did not have. `Buffers` puts
the two side by side, one of them moving in a behaviour.

### Registry and Operations

`Registry` has both halves of `registry/mod.rs`: resources registered one at a
time in slots that are reused, and a table registered as a whole. The code for
descriptors and for buffers is the same but for two points, so `kind` chooses.

| variable | code |
|---|---|
| `slots`, `table` | `registered_fds` or `registered_buffers`; `fixed_files` or `registered_buffer_slots` |
| `marks` | `fds_in_use`, `buffers_in_use`, `fixed_files_in_use`, `buffer_slots_in_use` |
| `handles`, `files` | `RegisteredFd` and `RegisteredBuffer` (moved); `FixedFile` and `RegisteredBufferSlot` (copied) |
| `status` | whether the `Registry` exists, or was dropped, without or with the panic |
| `uses`, `crossed` | history: uses between a mark and its end; slots given up for a handle of another Registry |

The drop of a Registry panics while anything is marked, and its fields are freed in
either case, so `DropRegistry` empties the slots and the table; handles stay with
their owners, since nothing ties them to the Registry. For the same reason a handle
of another Registry (`Stranger`) is accepted when its index and key fit. The
properties speak of what is left: `Reliable` handles, and uses that can still be
sure of their mark.

`Operations` composes it with the operations that carry handles. `Calls` is what
each call of the Ring builds (`ReadAt`, `ReadFixed`, ... have the names of the
calls) and every combination of the setters (`BuiltByUser`), an accept with a buffer
included. `Validate` is
`building.rs` 388 and on, `Entry` what `submit_to_backend` passes on, with the length
of the buffer, `Effect` what each backend makes of it: how many bytes of which memory
(`Moved`, with the cast to 32 bits) and where in the file (`Place`). `Asked` is what
the caller meant, and `Exceptional` lists the operations for which the two differ; a
property says that it lists them all and no others. `Outcomes` is what the future
makes of the answer. A handle moves into the operation and is gone, whether the call
succeeds or not. Streams are sockets here; a pipe ignores an offset that io_uring
passes along.

### Compat

`ReadAdapter` and `WriteAdapter` are the two directions, one poll per action and
the kernel in between (`KernelRead`, `KernelWrite`); `Compat` puts them together
as `File` does, with its drop. Bytes are numbered: those of the peer in
`ReadAdapter`, those callers offer in `WriteAdapter`, so an order, a loss or a
repetition shows. `flight` and `write` are `read_future` and `write_future`
(none, queued, done or failed), `internal` and `place` where the buffer is,
`cached` and `pos` the bytes of a read that did not fit. A future that is polled
as soon as it is made may be complete, so a call may start and finish an
operation (`PollStarts`). A write sends the whole buffer, of which a caller
filled the beginning; `wire` is the sequence of bytes sent, with 0 for one that is
not the first copy of its byte. Several writes seen complete in one call repeat the
same buffer, so what is sent depends on the longest of them and on the first alone.
Reads and writes pass offset 0. With `seekable` the descriptor is a regular file under
io_uring: a read starts at its beginning and a write overwrites it (`Overwrite`), and
`wire` is then the contents of the file. (A file opened with O_APPEND is written at its
end; such files are left out.)

### Setup

`Setup` is what precedes the first operation. A `machine` is chosen at the start
(version, io_uring or not, probed opcodes, environment) and does not change;
`features`, `advanced`, `config`, `runtime` and `ring` are the values of a program
that puts a Ring together, None until it does. A set of feature names stands for
the booleans of `AvailableFeatures` and `AdvancedConfig`; `KernelAccepts` is
io_uring_setup(2), external.

`Backends` holds `Setup` and `Epoll` side by side. All choices are made before a
backend has anything to do, and the backend does not ask how it was chosen, so a
behaviour shows one of the two (`moving`) and the product of their states is not
built. `Clients` does the same with `Compat` and `Awaiting` (`shown`): an adapter
borrows the Ring and a task that waits in `await_completion` needs it alone.

## Runs

| run | bounds | shows |
|---|---|---|
| `owned_safety` | 2 buffers, 2 submissions, 2 handles per buffer, late errors | the safety properties of OwnedRing, and that it implements `Custody` |
| `owned_liveness` | 2 buffers, 2 submissions, 1 handle | `CompletedFutureResolves` |
| `owned_use_after_free` | 2 buffers, 2 submissions, 2 handles | violated: the user gets memory that the kernel still works on |
| `shared_safety` | 3 operations, blocking after 1 poll | no answer twice, none to the wrong caller without a collision of ids, every loss reported |
| `shared_id_collision` | as above | violated: an owned buffer is returned while in use |
| `batch_builder` | 4 operations, every graph that can be built; every graph of 3; every order of iteration | the search implements `BatchGraph`; the recursive ones find a cycle exactly when there is one and sort topologically |
| `batch_safety` | batches of 2 and 1 operations, one orphan | results are the kernel's and stay; nothing is missed that no other call took; no quiet drop |
| `batch_dependents` | as above | violated: a dependent of a failed operation is carried out |
| `backends` | epoll: 2 descriptors, a socket, a blocking pipe and a regular file, 2 operations, 2 events per poll; before it: 9 machines with 8 versions, 1 setter call on one configuration | a pending operation is told, and executed on its own file when nobody was faster; `ReadyCompletes`; detection is monotone, the optimal configuration fits, taskrun flags never give a ring |
| `pool` | 2 threads, 3 buffers; 4 indices, groups of 1 to 6, free lists up to 5 | one owner per buffer and per index; the counters add up; `BlockedGets` |
| `operations` | 2 descriptors, one a regular file, or 2 buffers; 2 slots, a table of 1 registered twice, 2 uses, 1 handle of another Registry, `MaxBusy` 2, `MaxFlying` 1, `MaxAround` 1; buffers below and at `Wrap`, offsets 0, 1 and `Cursor`, both backends | what is marked stays registered, handles of a standing Registry stay true, operations do what was asked unless excepted |
| `clients` | adapters: a stream or a file, 4 bytes from the peer, reads of up to 3 bytes, 2 reads, calls with room for 0 to 2; a write buffer of 2, 3 bytes offered in slices of up to 2; tasks: 3 operations, blocking after 2 polls | the stream arrives whole and in order; a flush that succeeds is one; a task that waits for an answer the kernel gave gets it |

Why the bounds are enough. In OwnedRing every hazard is between one operation
and one other poll (draining, caching, waking, orphaning), and a second buffer
lets a freed one be reused; the proofs remove the bound. In SharedRing the third
operation lets an answer be lost next to a collision of the other two; the proofs
remove that bound.
`BlockAfter` stands for 50: the counter only decides between two branches. In
Awaiting one operation is waited for, one makes the event of the descriptor
first, and one is waited for by a call that was given up. Four
operations give cycles of every length up to four and graphs with two paths
between two nodes, and graphs of three have every shape of a cycle, loops
included, that a batch refuses; the proofs remove these bounds. In Batch a batch
of two has a dependency, a partial failure and a fail-fast cancellation, and the other batch is a consumer of its answers.

In Epoll two operations suffice for two events of one poll with a step of another
thread between them, and for a second operation on a used descriptor. A third makes
too many states for the liveness property; for the invariants the proofs remove the
bound.

In the pool a thread is overtaken by one other, and three buffers can be free,
held and detached at once; the proofs remove the bound. A group has its limit at
the number of indices, and the counts lie on both sides of it. In Operations two
slots and two resources let a slot be reused by another resource, two uses let
the first to end lift the mark of the second, and a second table replaces one in
use. A handle of another Registry counts with the uses (`MaxBusy`). Operations are
built in every state of the registry with at most `MaxAround` handles, uses and
crossed slots, and one is in the kernel at a time (`MaxFlying`): operations meet each
other only in the registry, and a handle carried by the one in the kernel, with a
stranger of the same slot outside, is all that `FlyingRegistered` is about. `Wrap`
stands for 2^32, with buffers of 3 and 4 bytes on its two sides. The proofs remove
these bounds. In Compat the peer's bytes are more than a read can bring and a
read more than a call can take, so leftovers, a second read and the end of the
stream occur; the write buffer is as long as the longest slice and
shorter than all bytes; the proofs are about buffers and streams of any size. In
Setup there are versions on both sides of every limit that
`KernelAccepts` and the detection distinguish, and one setter is enough
because the properties are about single fields and pairs of fields of presets; the
proofs remove the bound.

Deadlock is not checked in the runs whose counters of submissions are bounded, nor
in `backends`, where Setup ends with the ring: when the bounds are used up and everything
is resolved, the system has nothing to do.

Fairness. `OwnedRing.FairSpec` assumes that the executor polls a woken task and
runs a spawned one (`WF` of `Poll(i)` and `Tick(i)`) and nothing of the kernel,
the peer or user code. That is what tokio gives; the helper task of `safety.rs`
271-282 always finishes because it only yields three times.
`Epoll.Fairness` assumes that the Ring goes on polling (`WF` of `Fetch` and
`Execute`): the helper task of a pending owned future schedules its next poll,
and each poll calls `try_complete`. `BufferPool.Fairness` assumes that a sleep
ends (`WF` of `Retry(t)`), not that anybody returns a buffer: `BlockedGets` is
conditional on a pool that stays non-empty, and a thread may starve otherwise.
`Awaiting.Fairness` assumes that the reactor notices an event and that the
executor polls a task that is not parked; the kernel need not answer.

## Proofs

`OwnedRingProofs` proves, for every set of buffers and all bounds, that `IInv` is
inductive, and from it each safety property that `owned_safety` checks. `IInv`
adds to the properties what they rest on: unused ids appear nowhere
(`FreshIds`), an operation is answered once and its answer moves from the kernel
to the queue to the cache (`OneAnswer`), what the kernel may touch belongs to a
pending future or an orphan (`KernelHeld`), and an orphan's future has ended
(`OrphansEnded`). The proof has three lemmas, one step per action in each:
`TypeStep`; `RingStep` for the bookkeeping, which needs only the types; and
`HoldersStep` for who holds which buffer. The assumptions are those named in
`OwnedRing`.

`BatchBuilderProofs` proves, for every `MaxOperations`, that no batch is ever
circular (`NeverCircular`), that its dependencies name its operations
(`DependenciesInBatch`), and that `BatchBuilder` implements `BatchGraph`
(`SearchImplementsPromise`): `add_dependency` refuses exactly what closes a
cycle. `Reach(g, a)` is defined as the least set that holds `a` and is closed
under dependencies, so the argument needs no induction on paths: the lemmas say
that it is closed and least, and what an edge more adds to it. The loop
invariant `SearchInv` says that the stack and the visited set lie within what
`dependency` reaches, and that the visited set is closed up to the stack; when
the stack is empty the visited set is closed, holds `dependency` and not
`dependent`, so it witnesses that the new edge is harmless.

The same module proves the two recursive searches, for every graph of every size
and every order of iteration: they report a cycle exactly when there is one
(`SearchesAreRight`), and the sort of a batch puts each operation once and after all
it depends on (`SortsAreTopological`). Their invariant is `WalkInv`. Each call on
the path reaches the later ones (`CallsNested`), so a search that meets an operation
of its own path has found a cycle. An operation whose call has returned comes, in
the order of the returns, after all it depends on (`PutInOrder`), because what a loop
has passed is done or is the next call (`LoopsGoOn`). When the path and the roots are
used up everything is in that order, and an order without a backward edge admits no
cycle: the operations before a place are a closed set that the one at that place is
not in, so it does not reach itself. `BatchInside` says that the searches leave the
batch alone, which carries the first three theorems over.

`SharedRingProofs` proves every property of `shared_safety`, for any number of
operations of both APIs. `SharedInv` says that ids are given out once per API
(`Ids`); that an answer is in the kernel, the queue, the cache or with a caller and
nowhere twice (`Places`), whatever ids collide; that the orphan table holds dropped
operations under their own ids (`OrphansDropped`); and, as long as no id was given
out that is in use, that two operations with one id are not both unfinished, that
the tracker holds every borrowed operation underway, that the backend's table is
exact and that every caller got its own answer (`Apart`). Seven consumers take
answers off the queue and out of the cache, each with its own treatment of
foreign ones. `Consumes` says what they have in common, one lemma per consumer
shows that it does (`*Consumes`), and the invariant is proved once from that.
`LossesReported` then needs that under `Apart` a queue has one entry per id.
The proof corrected the model: `collided` used to be set only when a caller was
still waiting under the id, and then neither `OwnAnswer` nor the exactness of the
tables is invariant, because an id that is left on the tracker, or in the orphan
table, answers for a later operation. `Unfinished` names all of these.

`OwnedRingProofs` also proves that `OwnedRing` implements `Custody` for every
number of buffers and submissions. It rests on `IInv`, not on the types alone: a
buffer goes back to the user only when its operation is no longer in the queue
(`OneAnswer`), and nobody but its holder can hand it over (`HotPotato`). Buffers
let go of while in the kernel are `forfeited` meanwhile, so the allocator may do with
them what it likes: the proof uses nothing of `Unallocated` but that no handle, guard,
future or orphan is left.
`ClaimStep` says, action by action, how each party's claim on a buffer changes,
`LegalMoves` that a change of that kind is one of Custody's moves.

`BuffersProofs` proves the types, `OneOwner` and `Accounting` of the pool for any
number of threads and buffers. `PoolInv` is inductive: the counters follow from
cardinalities, and those need that no buffer is in two places. What `stats` and
`snapshot` conclude from the counters follows in turn (`NumbersTell`). The lemmas on
sequences say what the tail and an append do to the set of elements. For the group
it proves `IndicesHaveOneOwner`, for every width of an index: until a caller
returns an index it does not have, an index that exists is lent once or listed once
(`GroupOwned`). That the list is never longer than the group is then the pigeonhole
principle, from the library's theorem on injections.

`OperationsProofs` proves what `operations` checks, for any number of resources,
slots and uses, every length, every width `Wrap` and every offset. Its `IInv` adds to the
properties that whatever is in the kernel was built by a call and accepted, and that a
reliable handle inside an operation is no longer with the user (`FlyingAccepted`,
`FlyingCarry`): a handle of this Registry moves, so it exists once, and a slot that no
stranger has emptied is emptied only by the one who has it. `EmptyIndexIs` is
about the least empty slot, `CallShape` about what the calls build. `CarriedOut` is an
equivalence, proved part by part: `MemoryAsAsked` (with `CastKeeps`: a cast keeps a length
exactly if it is below the width) and `PlaceAsAsked` show that an operation is carried out
as asked if and only if it is not `Exceptional`. `MemoryAssumption` says that a null
pointer is no buffer.

`BatchProofs` proves every property of `batch_safety`, for any number of batches of
any size. `BatchInv` says where an answer can be (`Places`: in the kernel, the
queue or the cache, never in two), that all of these are tracked (`Tracking`, which
makes the drop panic and confines failing polls to orphans), and what the
slots of a future hold at each stage (`Filled`). The polls take the cache
in any order: `Arranged` and `TakeStep` reduce that order to a set.

`BackendProofs` proves `EventComes` and `ExecutesWhenReady` for any number of
descriptors, files and operations, with other users of the files taking what is there
at any time: an operation whose event was fetched finds its file ready or is in `outrun`. `Listed` holds whatever user code does: an entry
is the request of its operation and there is one per descriptor and file.
`Orderly`, that an entry's descriptor stands for its file, holds only until
somebody closes or duplicates a descriptor with an operation on it (`careless`).
It also proves the three properties of `Setup`, for every version, every outcome of
the probe, every number of processors and any number of calls. `StartInv` says that the features
are those of the version with some that the probe guessed (`Found`), and that the kernel
accepted the flags of a ring made from a configuration (`Accepted`); the rest is
about the tables.

`CompatProofs` proves what `clients` checks of the adapters, for streams, buffers and slices of any
size. Of the reader, `StreamIntact`: `Cleared` says that the cache is emptied when it
has been used up, without which the next read would be appended to bytes already
delivered; `ChunkStep`, `HandOutStep` and `ServeStep` are the three things a poll does
with bytes. Of the writer, `FlushedOnWire` and `FirstInOrder`, by `WriterInv`: every
accepted byte is on the wire, cut off by a short write, refused, or carried by the
write in flight (`Accounted`), and until a write was short, what the write in flight
carries comes after all that is on the wire and lies in the buffer in order
(`NextInOrder`). `ExtendSet` and `ExtendOrder` say what a write adds to the wire. Of a
regular file both are proved for the bytes of the latest call, which are all that a
write at offset 0 leaves to rely on.

Model-checked only: the liveness properties `CompletedFutureResolves`,
`AwaitedResolves`, `ReadyCompletes` and `BlockedGets`, which are out of the prover's
reach, and the three refutations. Every other property of a run is a theorem. What a loop
of the code computes over a sequence is either made of steps (the searches) or
stated in closed form (the drains, the writes): a theorem about a recursive function
would need an induction that the provers cannot carry out.

## Where code and documentation disagree

Three runs are violated, each with its finding in PROJECT.json. `shared_id_collision`:
the two APIs number their operations independently, which `backend/mod.rs` 57 excludes.
`owned_use_after_free`: memory is freed, and may be handed out again, while the kernel
uses it, against `ownership.rs` 58-59 and `safety.rs` 8-14. `batch_dependents`: a failed
operation does not cancel its dependents, against `ring/batch/core.rs` 177-178.
The rest was met while modelling. Each is in the models as the code has it, and the
properties name it where they make an exception of it.

Owned API:

- `ownership.rs` 12 promises no access to a buffer the kernel owns. The four
  `*_owned` calls use `as_ptr_and_len`, which leaves the cell in User, so a clone
  of the handle made before the submission still gets a guard. `HotPotato` is
  therefore about buffers that were not cloned (`shared`).
- `safety.rs` 398-403 says that a cancelled operation's buffer is cleaned up on
  completion. When another future has drained that completion into the cache
  before the drop, the entry stays and the orphan is released with the Ring.
- `ring/core/mod.rs` 453-454: dropping the Ring panics for borrowed operations in
  flight only; orphans are freed silently while the kernel uses their memory.
- `ring/core/utility.rs` 102: `process_completions` releases every orphan,
  answered or not, and its own documentation (85) recommends calling it periodically.
- `backend/io_uring.rs` 133-137: an error of `submit` after the `push` is returned
  although the entry is queued; the failed future frees a buffer that is in use.
- `ring/core/mod.rs` 472-478: "RefCell prevents Sync", then `unsafe impl Sync`.

Completions and waiting:

- `ring/completion/mod.rs` 222: an error that says that nothing is in flight
  destroys an answer that was in the cache.
- `ring/completion/mod.rs` 153 falls back to `try_complete` when the wait fails; the
  backend is still borrowed mutably there and the call panics (`ByIdCrashes`).
- `ring/core/mod.rs` 586 promises an error for an id that is not in flight.
  `await_completion` of one that was answered waits for ever, or ends in that panic.
- A pending future of the borrowed API registers a waker that only a call of the
  Ring calls, and the future has the Ring borrowed for ever: it sleeps until it is
  polled for another reason. `../examples/async_demo.rs` 11-17 admits it.

Batches:

- `future/batch_future.rs` 176: a poll that finds nothing returns Pending and
  registers no waker.
- `ring/batch/core.rs` 176-178 says that a dependent operation is submitted after
  its dependencies have completed successfully and cancelled if one fails, and
  `ring/batch/result.rs` 52-53 and 79 that Cancelled means "before execution" and may be
  due to a dependency. `submit_batch_with_config` computes the order into an unused
  variable and submits everything at once (`batch_operations.rs` 138-146). Without
  fail-fast a dependent of a failed operation is carried out and reports the kernel's
  result; with it, it is marked as cancelled while the kernel goes on with it.

Backends and operations:

- `backend/mod.rs` 53-57 asks of a caller only a valid open descriptor and a
  unique `user_data`; the epoll backend also refuses regular files (EPERM), and a
  second operation on a descriptor that has one pending, in either direction.
- `backend/epoll.rs` 312 says that a one-shot registration is removed when it has
  fired; it stays, disarmed, and the next operation on the descriptor is refused.
- Vectored calls are refused by io_uring; epoll carries them out with a null
  pointer and no length, and they succeed with 0 bytes.
- Operations with a registered buffer pass a null pointer and no length as well,
  and their typed future ends in "completed without buffer". The general future of
  `submit_operation` drops a list of buffers instead of giving it back.
- epoll uses pread and pwrite for an offset above 0, which fails on the only
  descriptors it accepts. io_uring passes the offset along, which a socket refuses as
  well; `building.rs` 343 says that it is ignored. The largest offset is -1 for the
  kernel and stands for the position of the file.
- `backend/io_uring.rs` 97-117 cuts the length of a buffer to 32 bits: of 4 GiB and more
  only a part is read or written.
- `backend/io_uring.rs` 107-111 passes the buffer of an accept, which `validate` lets
  through, as the place for the peer's address and for its length both: the kernel
  writes into it, and the typed future does not give it back.
- `backend/epoll.rs` 356 speaks of re-registering an operation that would block, and 358
  says that this should not happen. It happens when another user of the file was
  faster, and the operation then ends with an error; on a blocking descriptor the
  system call waits, and every other operation of the Ring with it.

Registry (`registry/mod.rs`):

- Line 12 promises that nothing in use is unregistered. No code outside tests
  calls `mark_*_in_use`; the marks are one per index, so the first of two uses
  to end lifts it; a new table clears the marks of the old one.
- The drop panics when something is marked (865-886) and frees all of it none the less.
- Lines 53-57 and 99-103 say that resources and handles cannot outlive what they belong
  to; handles carry no lifetime, stay valid values after the drop, and are accepted by
  another Registry when index and descriptor (or size) fit.
- A refused unregister has consumed the handle: the slot stays for ever.

Buffer groups (`advanced/buffer_group.rs`):

- 72 says that all indices are available at the start; 73 cuts the count to 16 bits, so
  a group of 65536 + k buffers lists k of them and the others are never handed out.
- 104: an index may be returned by anybody, twice too; from then on it can have two
  owners, which the property excepts (`misused`).

Adapters (`compat.rs`):

- The writer copies a slice to the start of its buffer and writes the whole buffer,
  8192 bytes, whatever the slice's length (253, 281-286; the comment at 201 speaks of
  the user's data only), and never looks at how many bytes were written.
- The writer passes offset 0 (`safe_operations.rs` 396): on io_uring each write to a
  regular file overwrites its beginning, so bytes that were flushed do not stay.
- `poll_write` calls itself for as long as writes complete at once (285-290): the depth
  of that recursion has no bound.
- A late submission error (`backend/io_uring.rs` 133-137) loses the bytes the queued read
  brings; the call reports the error.
- The reader passes offset 0: on io_uring a regular file is read from its beginning
  again and again. A poll without room, made while bytes are cached, delivers
  bytes a second time.
- After an error the buffer is gone and every further call of the adapter fails.

Configuration:

- `ring/core/configuration.rs` 84 sets SQPOLL even if the configuration says no, and
  SINGLE_ISSUER is never set, so coop_taskrun and defer_taskrun are always refused:
  the presets stable, performance, development, low_latency and high_throughput,
  and the optimal configuration from 6.0 on, never give a Ring. Lines 46-56 show
  one as an example.
- The ring made with these settings is dropped; the backend makes one without
  them. `with_config` has no fallback to epoll, `new` has.
- `with_advanced_config` switches off two features the kernel lacks,
  buffer_selection and multi_shot, and no others. Probing guesses most
  features from an opcode they are used with.
- `Runtime` picks epoll in a restricted cloud where `Ring::new` takes io_uring.

## Plan

1. `give_to_kernel` and `return_from_kernel` called by user code, in `OwnedRing`,
   with `OwnedRingProofs` taken along.
2. `Epoll` and `OwnedRing` composed: the owned API over the fallback backend.
