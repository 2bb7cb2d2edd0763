----------------------------- MODULE Operations -----------------------------
(***************************************************************************)
(* Operation, its builder, and the calls of the borrowed-buffer API that   *)
(* build one, validate it and hand it to the backend: read, write, accept, *)
(* send, recv and their positioned, vectored, registered and fixed forms.  *)
(* Descriptors and buffers may come from a Registry: a RegisteredFd or     *)
(* RegisteredBuffer is moved into the operation, a FixedFile is copied.    *)
(*                                                                         *)
(* The kernel's part is modelled by what the two backends ask of it: how   *)
(* many bytes of which memory move, and at which place of the file.        *)
(* Buffers given by reference are members of Memory. Streams are sockets   *)
(* (a pipe would ignore the offset io_uring passes along).                 *)
(***************************************************************************)
EXTENDS Registry

CONSTANTS
  RawFd,     \* descriptors; the registry of descriptors holds some of them
  Regular,   \* those of regular files, the others are streams
  Memory,    \* pinned buffers the user can lend
  Length,    \* how long they are
  Wrap,      \* 2^32, where a u32 wraps
  Offset,    \* offsets, 0 among them
  Cursor,    \* the offset u64::MAX, which is -1 for the kernel
  MaxFlying, \* bound: operations in the kernel
  MaxAround  \* bound: Around while a call is made or in the kernel

ASSUME OffsetAssumption == 0 \in Offset /\ Offset \subseteq Nat /\ Cursor \in Nat \ {0}
ASSUME RegularAssumption == Regular \subseteq RawFd
ASSUME LengthAssumption == Length \in [Memory -> Nat] /\ Wrap \in Nat \ {0}

VARIABLES
  backend,  \* "io_uring" or "epoll"
  flying    \* operations in the kernel

vars == <<registryVars, backend, flying>>

---------------------------------------------------------------------------
(* The builder.                                                            *)

Type == {"Read", "Write", "Accept", "Send", "Recv", "ReadVectored", "WriteVectored"}

RequiresBuffer(t) == t # "Accept"
IsVectored(t) == t \in {"ReadVectored", "WriteVectored"}
IsReadLike(t) == t \in {"Read", "Recv", "ReadVectored"}

Unset == [kind |-> "raw", fd |-> -1]
NoBuffer == [kind |-> "none"]

WithType(t) == [type |-> t, fd |-> Unset, buffer |-> NoBuffer, offset |-> 0]

Fd(o, f) == [o EXCEPT !.fd = [kind |-> "raw", fd |-> f]]
OfHandle(o, h) == [o EXCEPT !.fd = [kind |-> "registered", handle |-> h]]
OfFixedFile(o, h) == [o EXCEPT !.fd = [kind |-> "fixed", handle |-> h]]
Buffer(o, m) == [o EXCEPT !.buffer = [kind |-> "pinned", memory |-> m]]
RegisteredBuffer(o, h) == [o EXCEPT !.buffer = [kind |-> "registered", handle |-> h]]
Buffers(o, ms) == [o EXCEPT !.buffer = [kind |-> "vectored", memory |-> ms]]
AtOffset(o, n) == [o EXCEPT !.offset = n]

(* Operation::get_fd: a handle of a descriptor has it for its key.         *)
GetFd(o) == IF o.fd.kind = "raw" THEN o.fd.fd ELSE o.fd.handle.key

(* Seeded fault: a plain operation may carry a list of buffers.            *)
ValidateBuffersOnly(o) ==
  /\ o.fd # Unset
  /\ RequiresBuffer(o.type) => o.buffer # NoBuffer

Validate(o) ==
  /\ o.fd # Unset
  /\ RequiresBuffer(o.type) => /\ o.buffer # NoBuffer
                               /\ o.buffer.kind = "vectored" => o.buffer.memory # <<>>
  /\ IsVectored(o.type) <=> o.buffer.kind = "vectored"

---------------------------------------------------------------------------
(* What the calls build. The first group names its fd and buffer, the      *)
(* others take them from the registry; operation futures of any type can   *)
(* also be submitted as built by the user.                                 *)

ReadAt(f, m, n) == AtOffset(Buffer(Fd(WithType("Read"), f), m), n)
WriteAt(f, m, n) == AtOffset(Buffer(Fd(WithType("Write"), f), m), n)
ReadVectoredAt(f, ms, n) == AtOffset(Buffers(Fd(WithType("ReadVectored"), f), ms), n)
WriteVectoredAt(f, ms, n) == AtOffset(Buffers(Fd(WithType("WriteVectored"), f), ms), n)
Accept(f) == Fd(WithType("Accept"), f)
Send(f, m) == Buffer(Fd(WithType("Send"), f), m)
Recv(f, m) == Buffer(Fd(WithType("Recv"), f), m)

PlainCalls ==
  UNION {{ReadAt(f, m, n), WriteAt(f, m, n), Send(f, m), Recv(f, m), Accept(f)}
           : f \in RawFd, m \in Memory, n \in Offset}

VectoredCalls ==
  UNION {{ReadVectoredAt(f, ms, n), WriteVectoredAt(f, ms, n)}
           : f \in RawFd, ms \in BoundedSeq(Memory, 1), n \in Offset}

ReadRegistered(h, m) == Buffer(OfHandle(WithType("Read"), h), m)
WriteRegistered(h, m) == Buffer(OfHandle(WithType("Write"), h), m)
ReadWithRegisteredBuffer(f, h) == RegisteredBuffer(Fd(WithType("Read"), f), h)
WriteWithRegisteredBuffer(f, h) == RegisteredBuffer(Fd(WithType("Write"), f), h)
ReadFixed(h, m) == Buffer(OfFixedFile(WithType("Read"), h), m)
WriteFixed(h, m) == Buffer(OfFixedFile(WithType("Write"), h), m)

RegisteredCalls ==
  IF kind = "descriptors"
  THEN (UNION {{ReadRegistered(h, m), WriteRegistered(h, m)} : h \in handles, m \in Memory})
         \union (UNION {{ReadFixed(h, m), WriteFixed(h, m)} : h \in files, m \in Memory})
  ELSE UNION {{ReadWithRegisteredBuffer(f, h), WriteWithRegisteredBuffer(f, h)}
                : f \in RawFd, h \in handles}

(* Every combination of the setters, most of which no call of the Ring     *)
(* makes: the general futures and submit_read, submit_accept and the like  *)
(* take an operation as it was built.                                      *)
FdParts ==
  {Unset} \union [kind : {"raw"}, fd : RawFd]
    \union IF kind = "descriptors"
           THEN [kind : {"registered"}, handle : handles]
                  \union [kind : {"fixed"}, handle : files]
           ELSE {}

BufferParts ==
  {NoBuffer} \union [kind : {"pinned"}, memory : Memory]
    \union [kind : {"vectored"}, memory : BoundedSeq(Memory, 1)]
    \union IF kind = "buffers" THEN [kind : {"registered"}, handle : handles] ELSE {}

BuiltByUser == [type : Type, fd : FdParts, buffer : BufferParts, offset : Offset]

Calls == PlainCalls \union VectoredCalls \union RegisteredCalls \union BuiltByUser

---------------------------------------------------------------------------
(* What reaches the kernel.                                                *)

Null == <<"null">>

ASSUME MemoryAssumption == Null \notin Memory \union Seq(Memory)

(* buffer_info, and the null pointer and the length 0 that                 *)
(* submit_to_backend puts in its place.                                    *)
BufferInfo(o) ==
  IF o.buffer.kind = "pinned"
  THEN [memory |-> o.buffer.memory, length |-> Length[o.buffer.memory]]
  ELSE [memory |-> Null, length |-> 0]

(* The arguments of Backend::submit_operation.                             *)
Entry(o) == [type |-> o.type, fd |-> GetFd(o), offset |-> o.offset,
             memory |-> BufferInfo(o).memory, length |-> BufferInfo(o).length]

(* io_uring builds no vectored entry, epoll takes no regular file.         *)
Takes(o) == IF backend = "io_uring" THEN ~IsVectored(o.type) ELSE GetFd(o) \notin Regular

(* An accept asks for the peer's address under io_uring, if there is a     *)
(* buffer: it serves for the address and for its length, so how much is    *)
(* written depends on what it holds. epoll asks for no address.            *)
AsMemorySays == -1

Moved(e) ==
  IF e.type = "Accept"
  THEN IF backend = "io_uring" /\ e.memory # Null
       THEN [memory |-> e.memory, length |-> AsMemorySays]
       ELSE [memory |-> Null, length |-> 0]
  ELSE [memory |-> e.memory,
        length |-> IF backend = "io_uring" THEN e.length % Wrap ELSE e.length]

(* Only read and write have a place. epoll calls pread and pwrite for an   *)
(* offset, which its streams refuse, and read and write without. io_uring  *)
(* passes the offset along; a socket accepts none but 0 and Cursor.        *)
IsPositioned(t) == t \in {"Read", "Write", "ReadVectored", "WriteVectored"}

At(n) == <<"at", n>>
NextBytes == <<"next">>
Refused == <<"refused">>

Place(e) ==
  CASE ~IsPositioned(e.type) -> NextBytes
    [] IsPositioned(e.type) /\ backend = "epoll" ->
         IF e.offset = 0 THEN NextBytes ELSE Refused
    [] OTHER ->
         CASE e.offset = Cursor -> NextBytes
           [] e.offset # Cursor /\ e.fd \in Regular -> At(e.offset)
           [] OTHER -> IF e.offset = 0 THEN NextBytes ELSE Refused

Effect(o) == [moved |-> Moved(Entry(o)), place |-> Place(Entry(o))]

---------------------------------------------------------------------------
(* What the future of an operation resolves to, once try_complete_by_id    *)
(* has its answer r: the backends turn negative numbers into errors. The   *)
(* futures differ in the kind of buffer they look for in the operation.    *)

Failed == <<"error">>
Ready(r, memory) == <<r, memory>>

Memories(o, kindOfBuffer) == IF o.buffer.kind = kindOfBuffer THEN {o.buffer.memory} ELSE {}

(* "completed without buffer" is an error.                                 *)
PollIo(o, r) ==
  IF Memories(o, "pinned") = {} THEN Failed ELSE Ready(r, o.buffer.memory)

PollVectored(o, r) ==
  IF Memories(o, "vectored") = {} THEN Failed ELSE Ready(r, o.buffer.memory)

PollAccept(r) == Ready(r, Null)

PollOperation(o, r) ==
  Ready(r, IF Memories(o, "pinned") = {} THEN Null ELSE o.buffer.memory)

(* A typed future, and the general one of submit_operation.                *)
Outcomes(o, r) ==
  [typed |-> IF r = "error" THEN Failed
             ELSE CASE o.type = "Accept" -> PollAccept(r)
                    [] IsVectored(o.type) -> PollVectored(o, r)
                    [] OTHER -> PollIo(o, r),
   general |-> IF r = "error" THEN Failed ELSE PollOperation(o, r)]

---------------------------------------------------------------------------
(* Seeded fault: the handle stays with the caller as well.                 *)
CopyHandle(o) == UNCHANGED handles

(* A handle that goes into an operation is gone for the user: it is not    *)
(* returned with the result, and a call that fails drops it.               *)
MoveHandle(o) ==
  handles' = handles \ {h \in handles : \/ o.fd = [kind |-> "registered", handle |-> h]
                                        \/ o.buffer = [kind |-> "registered", handle |-> h]}

KeepRegistry == UNCHANGED <<kind, status, slots, table, tables, marks, files, uses,
                            crossed, backend>>

Submit(o) ==
  /\ Cardinality(flying) < MaxFlying
  /\ Validate(o) /\ Takes(o)
  /\ flying' = flying \union {o}
  /\ MoveHandle(o)
  /\ KeepRegistry

(* Invalid, or refused by the backend. Without a handle nothing changes.   *)
SubmitFails(o) ==
  /\ o.fd.kind = "registered" \/ o.buffer.kind = "registered"
  /\ ~(Validate(o) /\ Takes(o))
  /\ MoveHandle(o)
  /\ KeepRegistry
  /\ UNCHANGED flying

(* Completed, or dropped and then answered: nobody has its handle.         *)
Complete(o) ==
  /\ o \in flying
  /\ flying' = flying \ {o}
  /\ UNCHANGED <<registryVars, backend>>

---------------------------------------------------------------------------
OperationsInit == Init /\ backend \in {"io_uring", "epoll"} /\ flying = {}

Around ==
  Cardinality(handles) + Cardinality(files) + Cardinality(uses) + Cardinality(crossed)

Next == \/ /\ RegistryNext
           /\ flying # {} => Around' <= MaxAround
           /\ UNCHANGED <<backend, flying>>
        \/ /\ Around <= MaxAround
           /\ \E o \in Calls : Submit(o) \/ SubmitFails(o)
        \/ \E o \in flying : Complete(o)

Spec == OperationsInit /\ [][Next]_vars

---------------------------------------------------------------------------
(* What a caller means by an operation: all of the buffer it needs is to   *)
(* be read or filled, a file at the offset; a stream has no offset (the    *)
(* kernel ignores it, says building.rs 343).                               *)
OfRegistry(h) == <<"registry", h>>

Whole(b) ==
  CASE b.kind = "pinned" -> [memory |-> b.memory, length |-> Length[b.memory]]
    [] b.kind = "vectored" -> [memory |-> b.memory, length |-> Len(b.memory)]
    [] b.kind = "registered" -> [memory |-> OfRegistry(b.handle), length |-> b.handle.key]
    [] OTHER -> [memory |-> Null, length |-> 0]

Asked(o) ==
  [moved |-> Whole(IF RequiresBuffer(o.type) THEN o.buffer ELSE NoBuffer),
   place |-> IF IsPositioned(o.type) /\ GetFd(o) \in Regular
             THEN At(o.offset) ELSE NextBytes]

(* The operations for which the kernel is asked for something else. Those  *)
(* with a registered buffer or a list of buffers pass a null pointer and   *)
(* no length (core/mod.rs 435). Under io_uring a buffer of 4 GiB or more   *)
(* is cut to its length modulo 2^32 (io_uring.rs 97), and an accept writes *)
(* the peer's address into a buffer it was given (io_uring.rs 107). An     *)
(* offset fails on a stream (epoll.rs 341), and the largest one stands for *)
(* the position of the file.                                               *)
Exceptional(o) ==
  \/ RequiresBuffer(o.type) /\ o.buffer.kind \in {"registered", "vectored"}
  \/ /\ backend = "io_uring" /\ o.buffer.kind = "pinned"
     /\ o.type = "Accept" \/ Length[o.buffer.memory] >= Wrap
  \/ /\ IsPositioned(o.type)
     /\ \/ backend = "epoll" /\ o.offset # 0
        \/ backend = "io_uring" /\ IF GetFd(o) \in Regular THEN o.offset = Cursor
                                   ELSE o.offset \notin {0, Cursor}

(* What the kernel is asked to do is what the caller meant, for all of the *)
(* buffer and on both backends, however the operation was built, unless    *)
(* it is Exceptional.                                                      *)
AsAsked == \A o \in flying : Effect(o) = Asked(o) <=> ~Exceptional(o)

(* When the kernel succeeds, and only then, the future of an operation     *)
(* succeeds and gives back what the caller lent.                           *)
(* Three do not: a typed future over a registered buffer resolves with an  *)
(* error although the operation was done, that of an accept keeps a buffer *)
(* it was given, and the general future drops a list of buffers            *)
(* (io_futures/common.rs 48, network_io.rs 189, operation_future.rs 90).   *)
Lent(o) == IF o.buffer.kind \in {"pinned", "vectored"} THEN o.buffer.memory ELSE Null

LoansReturned ==
  \A o \in flying :
    LET done == Outcomes(o, "count")
    IN /\ Outcomes(o, "error") = [typed |-> Failed, general |-> Failed]
       /\ done.typed = Ready("count", Lent(o)) <=>
            IF RequiresBuffer(o.type) THEN o.buffer.kind # "registered"
            ELSE o.buffer.kind # "pinned"
       /\ done.general = Ready("count", Lent(o)) <=> o.buffer.kind # "vectored"

(* Both of these: the kernel is asked for what the caller asked for, and   *)
(* what the caller lent for it comes back (building.rs 388, common.rs 10). *)
CarriedOut == AsAsked /\ LoansReturned

(* The registration of a reliable handle stands while an operation in the  *)
(* kernel carries it: the operation took the handle with it, so nobody is  *)
(* left who could unregister the slot and have it reused. This, and no     *)
(* mark, is what protects the slots. A fixed file has no such guarantee,   *)
(* its handle is a copy and the table can be replaced at any time.         *)
FlyingRegistered ==
  \A o \in flying :
    \A carried \in {c \in {o.fd, o.buffer} : c.kind = "registered"} :
      Reliable(carried.handle) =>
        /\ carried.handle \notin handles
        /\ carried.handle.index \in DOMAIN slots
        /\ slots[carried.handle.index] = carried.handle.of

(* A handle of the user names what it was made for, and so does one inside *)
(* an operation (registry/mod.rs 292), as long as the Registry stands and  *)
(* no handle of another one took its slot.                                 *)
RegistrationsStand == HandlesHonest /\ FlyingRegistered
=============================================================================
