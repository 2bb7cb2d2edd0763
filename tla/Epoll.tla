-------------------------------- MODULE Epoll --------------------------------
(***************************************************************************)
(* The fallback backend (backend/epoll.rs): submit registers a descriptor  *)
(* with EPOLL_CTL_ADD and EPOLLONESHOT, and a poll fetches events and then *)
(* executes their operations, one after the other, on the descriptors      *)
(* named at submission.                                                    *)
(*                                                                         *)
(* The kernel's part: the interest list is keyed by descriptor number and  *)
(* open file together, an entry that has fired stays in the list disarmed, *)
(* and it leaves the list when the last descriptor of its file is closed.  *)
(* The descriptor table belongs to the process: other threads open, dup    *)
(* and close descriptors at any time, also between two events; and a file  *)
(* may have other users, in this process or in another, that take what had *)
(* made it ready.                                                          *)
(***************************************************************************)
EXTENDS Naturals, Sequences, FiniteSets, SequencesExt

CONSTANTS
  Fd,         \* descriptor numbers
  File,       \* open files; bound: each is opened once
  Regular,    \* those that epoll does not take
  Blocking,   \* others that were opened without O_NONBLOCK
  NoFile,     \* a closed descriptor
  MaxOps,     \* bound: how many operations are submitted
  MaxEvents   \* how many events a poll fetches (64 in the code)

ASSUME FileAssumption ==
  Regular \subseteq File /\ Blocking \subseteq File \ Regular /\ NoFile \notin File
ASSUME MaxOpsAssumption == MaxOps \in Nat \ {0}
ASSUME MaxEventsAssumption == MaxEvents \in Nat \ {0}

Op == 1 .. MaxOps  \* user_data, unique among pending operations
Direction == {"in", "out"}

VARIABLES
  phase,     \* "idle", "waiting" (in epoll_wait), "executing", "blocked" (in
             \* the system call of an operation), "dropped"
  files,     \* the descriptor table
  opened,    \* history: files that have been opened
  ready,     \* in which directions a file would not block
  interest,  \* the interest list of epoll_fd
  stage,     \* of an operation; "pending" is pending_operations
  req,       \* its descriptor, the file that was there, its direction
  events,    \* fetched and not executed
  careless,  \* history: a descriptor was closed under an operation, or dup'ed
  outrun     \* fetched operations whose file others have made unready again

others == <<careless, outrun>>
vars == <<phase, files, opened, ready, interest, stage, req, events, others>>

---------------------------------------------------------------------------
Pending == {o \in Op : stage[o] = "pending"}
Fresh(o) == /\ stage[o] = "unused"
            /\ \A p \in Op : p < o => stage[p] # "unused"

Open(f) == \E fd \in Fd : files[fd] = f

Registered(fd) == \E e \in interest : e.fd = fd /\ e.file = files[fd]

NoRequest == [fd |-> 0, file |-> NoFile, dir |-> "in"]

Init ==
  /\ phase = "idle"
  /\ files = [fd \in Fd |-> NoFile] /\ opened = {}
  /\ ready = [f \in File |-> {}]
  /\ interest = {}
  /\ stage = [o \in Op |-> "unused"]
  /\ req = [o \in Op |-> NoRequest]
  /\ events = <<>>
  /\ careless = FALSE /\ outrun = {}

---------------------------------------------------------------------------
(* The process and its peers.                                              *)

OpenFile(fd, f) ==
  /\ files[fd] = NoFile /\ f \notin opened
  /\ files' = [files EXCEPT ![fd] = f]
  /\ opened' = opened \union {f}
  /\ UNCHANGED <<phase, ready, interest, stage, req, events, others>>

Dup(fd, new) ==
  /\ files[fd] # NoFile /\ files[new] = NoFile
  /\ files' = [files EXCEPT ![new] = files[fd]]
  /\ careless' = TRUE
  /\ UNCHANGED <<phase, opened, ready, interest, stage, req, events, outrun>>

(* Bound: not while a system call on it blocks.                            *)
Close(fd) ==
  LET f == files[fd]
      last == \A other \in Fd \ {fd} : files[other] # f
  IN /\ f # NoFile
     /\ phase = "blocked" => req[Head(events)].fd # fd
     /\ files' = [files EXCEPT ![fd] = NoFile]
     /\ interest' = IF last THEN {e \in interest : e.file # f} ELSE interest
     /\ ready' = IF last THEN [ready EXCEPT ![f] = {}] ELSE ready
     /\ careless' = (careless \/ \E o \in Pending : req[o].fd = fd)
     /\ UNCHANGED <<phase, opened, stage, req, events, outrun>>

(* The fetched operations that need f in direction d.                      *)
Waiting(f, d) == {o \in ToSet(events) : req[o].file = f /\ req[o].dir = d}

(* Data, room or a connection arrives; a peer that hangs up makes both     *)
(* directions ready.                                                       *)
BecomeReady(f, d) ==
  /\ f \notin Regular /\ Open(f) /\ d \notin ready[f]
  /\ ready' = [ready EXCEPT ![f] = @ \union {d}]
  /\ outrun' = outrun \ Waiting(f, d)
  /\ UNCHANGED <<phase, files, opened, interest, stage, req, events, careless>>

(* Another user of the file, with a descriptor of its own in another       *)
(* process or with this one in another thread, reads the data, fills the   *)
(* room or accepts the connection.                                         *)
TakenElsewhere(f, d) ==
  /\ d \in ready[f]
  /\ ready' = [ready EXCEPT ![f] = @ \ {d}]
  /\ outrun' = outrun \union Waiting(f, d)
  /\ UNCHANGED <<phase, files, opened, interest, stage, req, events, careless>>

---------------------------------------------------------------------------
(* submit_operation. epoll_ctl fails with EBADF, EPERM or EEXIST.          *)

Addable(fd) == files[fd] # NoFile /\ files[fd] \notin Regular /\ ~Registered(fd)

(* Seeded fault: the request is filed although epoll_ctl failed.           *)
FileAnyway == "pending"

Refuse == "refused"

(* Seeded fault: every request waits for input.                            *)
InputEvents(o) == "in"

Events(o) == req[o].dir

Submit(o, fd, d) ==
  /\ phase = "idle" /\ Fresh(o)
  /\ req' = [req EXCEPT ![o] = [fd |-> fd, file |-> files[fd], dir |-> d]]
  /\ IF Addable(fd)
     THEN /\ interest' = interest \union {[fd |-> fd, file |-> files[fd],
                                           op |-> o, armed |-> TRUE]}
          /\ stage' = [stage EXCEPT ![o] = "pending"]
     ELSE /\ stage' = [stage EXCEPT ![o] = Refuse]
          /\ UNCHANGED interest
  /\ UNCHANGED <<phase, files, opened, ready, events, others>>

---------------------------------------------------------------------------
(* poll_completions: try_complete fetches what there is; the other wait    *)
(* blocks until there is something, or a signal interrupts it. It is       *)
(* refused when nothing is pending.                                        *)

WaitForCompletion ==
  /\ phase = "idle"
  /\ Pending # {}
  /\ phase' = "waiting"
  /\ UNCHANGED <<files, opened, ready, interest, stage, req, events, others>>

Interrupted ==
  /\ phase = "waiting"
  /\ phase' = "idle"
  /\ UNCHANGED <<files, opened, ready, interest, stage, req, events, others>>

Fires(e) == e.armed /\ Events(e.op) \in ready[e.file]

Disarm(e) == [e EXCEPT !.armed = FALSE]

Fetch ==
  /\ phase \in {"idle", "waiting"}
  /\ \E fired \in SUBSET {e \in interest : Fires(e)} :
       /\ Cardinality(fired) \in 1 .. MaxEvents
       /\ events' \in SetToSeqs({e.op : e \in fired})
       /\ interest' = (interest \ fired) \union {Disarm(e) : e \in fired}
  /\ phase' = "executing"
  /\ UNCHANGED <<files, opened, ready, stage, req, others>>

(* execute_operation: the system call goes to whatever file the descriptor *)
(* stands for now. When there is nothing for it, a non-blocking descriptor *)
(* fails with WouldBlock, which ends the operation with that error although *)
(* a comment (line 356) speaks of registering it again.                     *)
Execution(o) ==
  LET f == files[req[o].fd]
  IN IF f = NoFile THEN "closed"
     ELSE IF f \notin Regular /\ req[o].dir \notin ready[f] THEN "would block"
     ELSE IF f = req[o].file THEN "ok"
     ELSE "wrong file"

(* It may use up what was there.                                           *)
Consume(o) ==
  LET f == files[req[o].fd]
  IN \/ UNCHANGED ready
     \/ /\ f # NoFile /\ req[o].dir \in ready[f]
        /\ ready' = [ready EXCEPT ![f] = @ \ {req[o].dir}]

(* Seeded fault: the answer of the first event ends the poll.              *)
FirstOnly == <<>>

Remaining == Tail(events)

(* A blocking descriptor keeps the thread in the system call instead, and  *)
(* with it every other operation of the Ring; so does a write of more than *)
(* there is room for.                                                      *)
Blocks(o) ==
  o \in Pending /\ Execution(o) = "would block" /\ files[req[o].fd] \in Blocking

TooLong(o) ==
  /\ o \in Pending /\ Execution(o) \in {"ok", "wrong file"} /\ req[o].dir = "out"
  /\ files[req[o].fd] \in Blocking

Block ==
  /\ phase = "executing"
  /\ LET o == Head(events)
     IN \/ Blocks(o) /\ UNCHANGED ready
        \/ TooLong(o) /\ ready' = [ready EXCEPT ![files[req[o].fd]] = @ \ {"out"}]
  /\ phase' = "blocked"
  /\ UNCHANGED <<files, opened, interest, stage, req, events, others>>

(* An event whose operation is not pending any more is ignored.            *)
Execute ==
  /\ phase \in {"executing", "blocked"}
  /\ ~Blocks(Head(events))
  /\ LET o == Head(events)
     IN /\ IF o \in Pending
           THEN stage' = [stage EXCEPT ![o] = "done"] /\ Consume(o)
           ELSE UNCHANGED <<stage, ready>>
        /\ outrun' = outrun \ {o}
  /\ events' = Remaining
  /\ phase' = IF Remaining = <<>> THEN "idle" ELSE "executing"
  /\ UNCHANGED <<files, opened, interest, req, careless>>

CloseEpollFd == interest' = {}

(* The backend is dropped, and what was pending is never executed.         *)
DropBackend ==
  /\ phase = "idle"
  /\ phase' = "dropped"
  /\ CloseEpollFd
  /\ stage' = [o \in Op |-> IF o \in Pending THEN "gone" ELSE stage[o]]
  /\ UNCHANGED <<files, opened, ready, req, events, others>>

Next ==
  \/ \E fd \in Fd : \/ Close(fd)
                    \/ \E f \in File : OpenFile(fd, f)
                    \/ \E new \in Fd : Dup(fd, new)
                    \/ \E o \in Op, d \in Direction : Submit(o, fd, d)
  \/ \E f \in File, d \in Direction : BecomeReady(f, d) \/ TakenElsewhere(f, d)
  \/ WaitForCompletion \/ Interrupted \/ Fetch \/ Block \/ Execute \/ DropBackend

Spec == Init /\ [][Next]_vars

(* The Ring goes on polling while something is pending: a pending future   *)
(* is woken again by its helper task (safety.rs 271-282), and each poll    *)
(* calls try_complete.                                                     *)
Fairness == WF_vars(Fetch) /\ WF_vars(Block \/ Execute)

---------------------------------------------------------------------------
(* Properties.                                                             *)

(* An operation that is pending on a file that is still open, under        *)
(* whatever descriptor, will be told when the file is ready: its entry is  *)
(* armed, or its event has been fetched and is executed in this poll.      *)
(* Otherwise wait_for_completion, which is refused only when nothing is    *)
(* pending, would block for ever.                                          *)
EventComes ==
  \A o \in Pending :
    Open(req[o].file) =>
      \/ \E e \in interest : e.op = o /\ e.armed
      \/ o \in ToSet(events)

(* execute_operation finds the descriptor ready, or somebody else was      *)
(* faster between epoll_wait and the system call: an operation gets        *)
(* WouldBlock ("This should not happen with epoll", line 358), or keeps the *)
(* thread in its system call, for no other reason, and the file is the one *)
(* it was submitted for, as long as no descriptor is closed while an       *)
(* operation is pending on it and no file has two descriptors.             *)
ExecutesWhenReady ==
  [][~careless =>
       /\ \A o \in Pending : stage'[o] = "done" =>
            Execution(o) = "ok" \/ (Execution(o) = "would block" /\ o \in outrun)
       /\ phase # "blocked" /\ phase' = "blocked" =>
            Head(events) \in outrun \/ req[Head(events)].dir = "out"]_vars

(* No operation is pending for ever on a file that is ready, however often *)
(* others take what was there, unless the thread is kept in the system     *)
(* call of another operation.                                              *)
ReadyCompletes ==
  \A o \in Op :
    ~ <>[](o \in Pending /\ req[o].dir \in ready[req[o].file] /\ phase # "blocked")
==============================================================================
