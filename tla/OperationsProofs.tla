-------------------------- MODULE OperationsProofs --------------------------
(***************************************************************************)
(* Proofs about Operations and the Registry inside it, for any number of   *)
(* descriptors, buffers, slots and uses. IInv is inductive: the types, the *)
(* two properties about registrations, and that whatever is in the kernel  *)
(* was built by one of the calls and accepted.                             *)
(***************************************************************************)
EXTENDS Operations, WellFoundedInduction, TLAPS

(* Handles of this Registry, and those of another one.                     *)
Own == {Handle(i, r) : i \in Nat \ {0}, r \in Resource}

Foreign == {Stranger(i, r) : i \in Nat \ {0}, r \in Resource}

AllHandles == Own \union Foreign

Uses == [id : Use, where : Where, index : Nat, what : Resource, sure : BOOLEAN]

TypeOK ==
  /\ kind \in {"descriptors", "buffers"}
  /\ status \in {"open", "dropped", "panicked"}
  /\ slots \in Seq(Resource \union {Free})
  /\ table \in Seq(Resource)
  /\ marks \in [Where -> SUBSET Nat]
  /\ handles \subseteq AllHandles /\ files \subseteq Own
  /\ uses \subseteq Uses /\ crossed \subseteq Nat
  /\ backend \in {"io_uring", "epoll"}

(* The parts of an operation that carry a handle of the registry.          *)
Carried(o) == {c \in {o.fd, o.buffer} : c.kind = "registered"}

(* What every call builds, of the parts the properties look at.            *)
Shaped(o) ==
  /\ o.type \in Type
  /\ \/ o.buffer = NoBuffer
     \/ \E m \in Memory : o.buffer = [kind |-> "pinned", memory |-> m]
     \/ \E ms \in Seq(Memory) : o.buffer = [kind |-> "vectored", memory |-> ms]
     \/ o.buffer.kind = "registered"

(* An operation in the kernel was accepted, and its registrations stand.   *)
FlyingAccepted == \A o \in flying : Shaped(o) /\ Validate(o) /\ Takes(o)

FlyingCarry ==
  \A o \in flying : \A c \in Carried(o) :
    /\ c.handle \in AllHandles
    /\ Reliable(c.handle) =>
         /\ c.handle \notin handles
         /\ c.handle.index \in DOMAIN slots
         /\ slots[c.handle.index] = c.handle.of

IInv == TypeOK /\ UseProtected /\ HandlesHonest /\ FlyingAccepted /\ FlyingCarry

---------------------------------------------------------------------------
(* Every non-empty set of numbers has a least one.                         *)
LEMMA LeastNumber ==
  ASSUME NEW T \in SUBSET Nat, T # {}
  PROVE  \E i \in T : \A j \in T : i <= j
  <1> DEFINE R == OpToRel(<, Nat)
  <1>1. IsWellFoundedOn(R, Nat) BY NatLessThanWellFounded
  <1>2. \A i, j \in Nat : i < j => <<i, j>> \in R BY DEF OpToRel
  <1> HIDE DEF R
  <1>3. \E i \in T : \A j \in T : ~ (<<j, i>> \in R) BY <1>1, WFMin
  <1>4. PICK i \in T : \A j \in T : ~ (<<j, i>> \in R) BY <1>3
  <1>5. ASSUME NEW j \in T PROVE i <= j
    <2>1. ~ (j < i) BY <1>2, <1>4
    <2> QED BY <2>1
  <1> QED BY <1>5

(* EmptyIndex is an empty slot, or the one after the last.                 *)
LEMMA EmptyIndexIs ==
  ASSUME slots \in Seq(Resource \union {Free})
  PROVE  /\ EmptyIndex \in Nat \ {0}
         /\ \/ EmptyIndex \in DOMAIN slots /\ slots[EmptyIndex] = Free
            \/ EmptyIndex = Len(slots) + 1
  <1>1. CASE EmptySlots = {}
    BY <1>1 DEF EmptyIndex
  <1>2. CASE EmptySlots # {}
    <2>1. EmptySlots \in SUBSET Nat BY DEF EmptySlots
    <2>2. \E i \in EmptySlots : \A j \in EmptySlots : i <= j
      BY <1>2, <2>1, LeastNumber
    <2>3. EmptyIndex \in EmptySlots BY <1>2, <2>2 DEF EmptyIndex
    <2> QED BY <2>3 DEF EmptySlots
  <1> QED BY <1>1, <1>2

(* The fields of a handle, and which are those of this Registry.           *)
LEMMA HandleFields ==
  ASSUME NEW h \in AllHandles
  PROVE  /\ h.index \in Nat \ {0}
         /\ h.of \in Resource \union {Elsewhere}
         /\ h \in Own <=> h.of # Elsewhere
         /\ h \in Own => h.of \in Resource
  BY ElsewhereAssumption DEF AllHandles, Own, Foreign, Handle, Stranger

(* Two handles of this Registry with the same index and resource are the   *)
(* same handle.                                                            *)
LEMMA SameHandle ==
  ASSUME NEW h \in AllHandles, NEW g \in AllHandles,
         h.of # Elsewhere, h.index = g.index, h.of = g.of
  PROVE  h = g
  <1>1. h \in Own /\ g \in Own BY HandleFields
  <1> QED BY <1>1 DEF Own, Handle

(* As long as the kind of the registry stays, so do the possible handles.  *)
LEMMA HandlesStay == kind' = kind => AllHandles' = AllHandles /\ Own' = Own
  BY DEF AllHandles, Own, Foreign, Handle, Stranger, Key

---------------------------------------------------------------------------
(* What the calls build: an operation is Shaped, and a handle in it is one *)
(* the user has.                                                           *)
FromUser(o) ==
  \A c \in Carried(o) :
    c = [kind |-> "registered", handle |-> c.handle] /\ c.handle \in handles

(* A part is without a handle, or it is the one of a user's handle.        *)
PartOfUser(c) ==
  \/ c.kind # "registered"
  \/ \E h \in handles : c = [kind |-> "registered", handle |-> h]

(* Such a handle is the part's own.                                        *)
LEMMA HandleOfPart ==
  ASSUME NEW c, PartOfUser(c), c.kind = "registered"
  PROVE  c = [kind |-> "registered", handle |-> c.handle] /\ c.handle \in handles
  <1>1. PICK h \in handles : c = [kind |-> "registered", handle |-> h]
    BY DEF PartOfUser
  <1>2. c.handle = h BY <1>1
  <1> QED BY <1>1, <1>2

(* The handles of an operation are those of its two parts.                 *)
LEMMA PartsDecide ==
  ASSUME NEW o, PartOfUser(o.fd), PartOfUser(o.buffer), Shaped(o)
  PROVE  Shaped(o) /\ FromUser(o)
  <1> SUFFICES ASSUME NEW c \in Carried(o)
               PROVE  c = [kind |-> "registered", handle |-> c.handle] /\ c.handle \in handles
    BY DEF FromUser
  <1>1. PartOfUser(c) /\ c.kind = "registered" BY DEF Carried
  <1> QED BY <1>1, HandleOfPart

(* The kinds of part.                                                      *)
LEMMA PartKinds ==
  ASSUME NEW x
  PROVE  /\ PartOfUser([kind |-> "raw", fd |-> x])
         /\ PartOfUser([kind |-> "fixed", handle |-> x])
         /\ PartOfUser([kind |-> "pinned", memory |-> x])
         /\ PartOfUser([kind |-> "vectored", memory |-> x])
         /\ PartOfUser(NoBuffer)
         /\ x \in handles => PartOfUser([kind |-> "registered", handle |-> x])
  BY DEF PartOfUser, NoBuffer

(* The lists of buffers of the instance are lists.                         *)
LEMMA ShortLists == BoundedSeq(Memory, 1) \subseteq Seq(Memory)
  <1> SUFFICES ASSUME NEW ms \in BoundedSeq(Memory, 1) PROVE ms \in Seq(Memory)
    OBVIOUS
  <1>1. PICK m \in 0 .. 1 : ms \in [1 .. m -> Memory] BY DEF BoundedSeq, SeqOf
  <1> QED BY <1>1

(* One case per group of calls.                                            *)
LEMMA CallShape ==
  ASSUME NEW o \in Calls
  PROVE  Shaped(o) /\ FromUser(o)
  <1> DEFINE Raw(f) == [kind |-> "raw", fd |-> f]
             Pinned(m) == [kind |-> "pinned", memory |-> m]
             Vectored(ms) == [kind |-> "vectored", memory |-> ms]
             Of(h) == [kind |-> "registered", handle |-> h]
             Rec(t, f, b, n) == [type |-> t, fd |-> f, buffer |-> b, offset |-> n]
  <1>1. CASE o \in PlainCalls
    <2>1. PICK f \in RawFd, m \in Memory, n \in Offset :
            o \in {ReadAt(f, m, n), WriteAt(f, m, n), Send(f, m), Recv(f, m), Accept(f)}
      BY <1>1 DEF PlainCalls
    <2>2. o \in {Rec("Read", Raw(f), Pinned(m), n), Rec("Write", Raw(f), Pinned(m), n),
                 Rec("Send", Raw(f), Pinned(m), 0), Rec("Recv", Raw(f), Pinned(m), 0),
                 Rec("Accept", Raw(f), NoBuffer, 0)}
      BY <2>1 DEF ReadAt, WriteAt, Send, Recv, Accept, WithType, Fd, Buffer, AtOffset,
                  Unset, NoBuffer
    <2> QED BY <2>2, ShortLists, PartsDecide, PartKinds DEF Shaped, NoBuffer, Type
  <1>2. CASE o \in VectoredCalls
    <2>1. PICK f \in RawFd, ms \in BoundedSeq(Memory, 1), n \in Offset :
            o \in {ReadVectoredAt(f, ms, n), WriteVectoredAt(f, ms, n)}
      BY <1>2 DEF VectoredCalls
    <2>2. o \in {Rec("ReadVectored", Raw(f), Vectored(ms), n),
                 Rec("WriteVectored", Raw(f), Vectored(ms), n)}
      BY <2>1 DEF ReadVectoredAt, WriteVectoredAt, WithType, Fd, Buffers, AtOffset,
                  Unset, NoBuffer
    <2> QED BY <2>2, ShortLists, PartsDecide, PartKinds DEF Shaped, NoBuffer, Type
  <1>3. CASE o \in RegisteredCalls
    <2>1. CASE \E h \in handles, m \in Memory :
                 o \in {ReadRegistered(h, m), WriteRegistered(h, m)}
      <3>1. PICK h \in handles, m \in Memory :
              o \in {ReadRegistered(h, m), WriteRegistered(h, m)}
        BY <2>1
      <3>2. o \in {Rec("Read", Of(h), Pinned(m), 0), Rec("Write", Of(h), Pinned(m), 0)}
        BY <3>1 DEF ReadRegistered, WriteRegistered, OfHandle, WithType, Buffer, Unset,
                    NoBuffer
      <3> QED BY <3>2, PartsDecide, PartKinds DEF Shaped, NoBuffer, Type
    <2>2. CASE \E h \in files, m \in Memory : o \in {ReadFixed(h, m), WriteFixed(h, m)}
      <3>1. PICK h \in files, m \in Memory :
              o \in {ReadFixed(h, m), WriteFixed(h, m)}
        BY <2>2
      <3>2. \E t \in {"Read", "Write"} :
               o = Rec(t, [kind |-> "fixed", handle |-> h], Pinned(m), 0)
        BY <3>1 DEF ReadFixed, WriteFixed, OfFixedFile, WithType, Buffer, Unset, NoBuffer
      <3> QED BY <3>2, PartsDecide, PartKinds DEF Shaped, NoBuffer, Type
    <2>3. CASE \E f \in RawFd, h \in handles :
                 o \in {ReadWithRegisteredBuffer(f, h), WriteWithRegisteredBuffer(f, h)}
      <3>1. PICK f \in RawFd, h \in handles :
              o \in {ReadWithRegisteredBuffer(f, h), WriteWithRegisteredBuffer(f, h)}
        BY <2>3
      <3>2. o \in {Rec("Read", Raw(f), Of(h), 0), Rec("Write", Raw(f), Of(h), 0)}
        BY <3>1 DEF ReadWithRegisteredBuffer, WriteWithRegisteredBuffer, RegisteredBuffer,
                    WithType, Fd, Unset, NoBuffer
      <3> QED BY <3>2, PartsDecide, PartKinds DEF Shaped, NoBuffer, Type
    <2> QED BY <1>3, <2>1, <2>2, <2>3 DEF RegisteredCalls
  <1>4. CASE o \in BuiltByUser
    <2>1. o.type \in Type /\ o.fd \in FdParts /\ o.buffer \in BufferParts
      BY <1>4 DEF BuiltByUser
    <2>2. PartOfUser(o.fd) BY <2>1 DEF FdParts, PartOfUser, Unset
    <2>3. PartOfUser(o.buffer) BY <2>1 DEF BufferParts, PartOfUser, NoBuffer
    <2>4. Shaped(o) BY <2>1, ShortLists DEF Shaped, BufferParts
    <2> QED BY <2>2, <2>3, <2>4, PartsDecide
  <1> QED BY <1>1, <1>2, <1>3, <1>4 DEF Calls

---------------------------------------------------------------------------
(* The registry at its start has nothing in it, and nothing is in flight.  *)
LEMMA InitHolds == OperationsInit => IInv
  BY DEF OperationsInit, Init, IInv, TypeOK, UseProtected, HandlesHonest,
         FlyingAccepted, FlyingCarry, Where

(* Spoiling takes the assurance from some uses and changes nothing else.   *)
LEMMA SpoilIs ==
  ASSUME NEW us \in SUBSET Uses, NEW where, NEW index
  PROVE  /\ Spoil(us, where, index) \subseteq Uses
         /\ \A u \in Spoil(us, where, index) :
              u.sure => u \in us /\ ~(u.where = where /\ u.index \in index)
  <1> SUFFICES ASSUME NEW u \in Spoil(us, where, index)
               PROVE  /\ u \in Uses
                      /\ u.sure => u \in us /\ ~(u.where = where /\ u.index \in index)
    OBVIOUS
  <1>1. PICK v \in us : u = IF v.where = where /\ v.index \in index
                           THEN [v EXCEPT !.sure = FALSE] ELSE v
    BY DEF Spoil
  <1>2. v \in Uses OBVIOUS
  <1>3. [v EXCEPT !.sure = FALSE] \in Uses /\ [v EXCEPT !.sure = FALSE].sure = FALSE
    BY <1>2 DEF Uses
  <1> QED BY <1>1, <1>2, <1>3

(* Types are kept, one step per action.                                    *)
LEMMA TypeStep == TypeOK /\ [Next]_vars => TypeOK'
  <1> SUFFICES ASSUME TypeOK, [Next]_vars PROVE TypeOK'
    OBVIOUS
  <1> USE DEF TypeOK
  <1>1. ASSUME NEW r \in Resource, Register(r), UNCHANGED <<backend, flying>> PROVE TypeOK'
    <2>1. EmptyIndex \in Nat \ {0} BY EmptyIndexIs
    <2>2. slots' \in Seq(Resource \union {Free})
      <3>1. CASE EmptyIndex > Len(slots) BY <1>1, <3>1 DEF Register
      <3>2. CASE ~(EmptyIndex > Len(slots)) BY <1>1, <3>2, <2>1 DEF Register
      <3> QED BY <3>1, <3>2
    <2>3. AllHandles' = AllHandles /\ Own' = Own BY <1>1, HandlesStay DEF Register
    <2>4. Handle(EmptyIndex, r) \in AllHandles BY <2>1 DEF AllHandles, Own
    <2> QED BY <1>1, <2>2, <2>3, <2>4 DEF Register
  <1>2. ASSUME NEW h \in handles, Unregister(h), UNCHANGED <<backend, flying>> PROVE TypeOK'
    <2>1. AllHandles' = AllHandles /\ Own' = Own BY <1>2, HandlesStay DEF Unregister
    <2>2. slots' \in Seq(Resource \union {Free})
      BY <1>2 DEF Unregister, Names
    <2>3. crossed' \subseteq Nat BY <1>2, HandleFields DEF Unregister
    <2> QED BY <1>2, <2>1, <2>2, <2>3 DEF Unregister
  <1>3. ASSUME NEW h \in handles, UnregisterFails(h), UNCHANGED <<backend, flying>> PROVE TypeOK'
    <2>1. AllHandles' = AllHandles /\ Own' = Own BY <1>3, HandlesStay DEF UnregisterFails
    <2> QED BY <1>3, <2>1 DEF UnregisterFails
  <1>4. ASSUME NEW rs \in BoundedSeq(Resource, MaxTable), RegisterTable(rs),
               UNCHANGED <<backend, flying>>
        PROVE TypeOK'
    <2>1. AllHandles' = AllHandles /\ Own' = Own BY <1>4, HandlesStay DEF RegisterTable
    <2>2. PICK m \in 0 .. MaxTable : rs \in [1 .. m -> Resource]
      BY DEF BoundedSeq, SeqOf
    <2>3. rs \in Seq(Resource) /\ DOMAIN rs \subseteq Nat \ {0}
      BY <2>2
    <2>4. {Handle(i, rs[i]) : i \in DOMAIN rs} \subseteq Own
      BY <2>2, <2>3 DEF Own
    <2>5. uses' \subseteq Uses BY <1>4, SpoilIs DEF RegisterTable
    <2>6. marks' \in [Where -> SUBSET Nat] BY <1>4 DEF RegisterTable
    <2> QED BY <1>4, <2>1, <2>3, <2>4, <2>5, <2>6 DEF RegisterTable
  <1>5. ASSUME UnregisterTable, UNCHANGED <<backend, flying>> PROVE TypeOK'
    <2>1. AllHandles' = AllHandles /\ Own' = Own BY <1>5, HandlesStay DEF UnregisterTable
    <2> QED BY <1>5, <2>1 DEF UnregisterTable
  <1>6. ASSUME NEW id \in Use, NEW w \in Where, NEW h \in Held(w), BeginUse(id, w, h),
               UNCHANGED <<backend, flying>>
        PROVE TypeOK'
    <2>1. AllHandles' = AllHandles /\ Own' = Own BY <1>6, HandlesStay DEF BeginUse
    <2>2. h \in AllHandles BY DEF Held, AllHandles
    <2>3. h.index \in Nat BY <2>2, HandleFields
    <2>4. In(w)[h.index] \in Resource
      <3>1. h.index \in DOMAIN In(w) /\ In(w)[h.index] # Free
        BY <1>6 DEF BeginUse, Markable
      <3>2. In(w) \in Seq(Resource \union {Free})
        <4>1. CASE In(w) = slots BY <4>1
        <4>2. CASE In(w) = table BY <4>2
        <4> QED BY <4>1, <4>2 DEF In
      <3> QED BY <3>1, <3>2
    <2> DEFINE new == [id |-> id, where |-> w, index |-> h.index,
                       what |-> In(w)[h.index], sure |-> TRUE]
    <2>5. uses' \subseteq Uses
      <3>1. new \in Uses BY <2>3, <2>4, Zenon DEF Uses
      <3>2. uses' = uses \union {new} BY <1>6, Zenon DEF BeginUse
      <3> HIDE DEF new
      <3> QED BY <3>1, <3>2
    <2>6. marks' \in [Where -> SUBSET Nat] BY <1>6, <2>3 DEF BeginUse
    <2> QED BY <1>6, <2>1, <2>5, <2>6 DEF BeginUse
  <1>7. ASSUME NEW u \in uses, EndUse(u), UNCHANGED <<backend, flying>> PROVE TypeOK'
    <2>1. AllHandles' = AllHandles /\ Own' = Own BY <1>7, HandlesStay DEF EndUse
    <2>2. uses' \subseteq Uses BY <1>7, SpoilIs DEF EndUse
    <2>3. marks' \in [Where -> SUBSET Nat] BY <1>7 DEF EndUse, Uses
    <2> QED BY <1>7, <2>1, <2>2, <2>3 DEF EndUse
  <1>8. ASSUME DropRegistry, UNCHANGED <<backend, flying>> PROVE TypeOK'
    <2>1. AllHandles' = AllHandles /\ Own' = Own BY <1>8, HandlesStay DEF DropRegistry
    <2>2. marks' \in [Where -> SUBSET Nat] BY <1>8 DEF DropRegistry
    <2>3. uses' \subseteq Uses /\ status' \in {"dropped", "panicked"}
      BY <1>8 DEF DropRegistry
    <2> QED BY <1>8, <2>1, <2>2, <2>3 DEF DropRegistry
  <1>9. ASSUME NEW o \in Calls, Submit(o) \/ SubmitFails(o) PROVE TypeOK'
    <2>1. AllHandles' = AllHandles /\ Own' = Own
      BY <1>9, HandlesStay DEF Submit, SubmitFails, KeepRegistry
    <2> QED BY <1>9, <2>1 DEF Submit, SubmitFails, KeepRegistry, MoveHandle
  <1>10. ASSUME NEW o \in flying, Complete(o) PROVE TypeOK'
    <2>1. AllHandles' = AllHandles /\ Own' = Own BY <1>10, HandlesStay DEF Complete, registryVars
    <2> QED BY <1>10, <2>1 DEF Complete, registryVars
  <1>11. CASE UNCHANGED vars
    <2>1. AllHandles' = AllHandles /\ Own' = Own BY <1>11, HandlesStay DEF vars, registryVars
    <2> QED BY <1>11, <2>1 DEF vars, registryVars
  <1>12. ASSUME NEW i \in 1 .. MaxSlots, NEW r \in Resource, RegisterElsewhere(i, r),
                UNCHANGED <<backend, flying>>
         PROVE TypeOK'
    <2>1. AllHandles' = AllHandles /\ Own' = Own
      BY <1>12, HandlesStay DEF RegisterElsewhere
    <2>2. Stranger(i, r) \in AllHandles BY DEF AllHandles, Foreign
    <2> QED BY <1>12, <2>1, <2>2 DEF RegisterElsewhere
  <1> QED BY <1>1, <1>2, <1>3, <1>4, <1>5, <1>6, <1>7, <1>8, <1>9, <1>10, <1>11, <1>12
          DEF Next, RegistryNext, RegistrySteps

---------------------------------------------------------------------------
(* A step that leaves the marks, the places and the uses alone.            *)
UsesStay == UNCHANGED <<status, slots, table, marks, uses>>

(* What is in use and sure of its mark stays registered.                   *)
LEMMA UseStep == TypeOK /\ UseProtected /\ [Next]_vars => UseProtected'
  <1> SUFFICES ASSUME TypeOK, UseProtected, [Next]_vars PROVE UseProtected'
    OBVIOUS
  <1> USE DEF TypeOK, UseProtected, Uses, Where
  <1>1. ASSUME NEW r \in Resource, Register(r)
        PROVE  UseProtected'
    <2>1. uses' = uses /\ marks' = marks /\ table' = table /\ status' = status
      BY <1>1 DEF Register
    <2>2. \A i \in DOMAIN slots : slots[i] # Free => i \in DOMAIN slots' /\ slots'[i] = slots[i]
      <3>1. CASE EmptyIndex > Len(slots) BY <1>1, <3>1 DEF Register
      <3>2. CASE ~(EmptyIndex > Len(slots)) BY <1>1, <3>2, EmptyIndexIs DEF Register
      <3> QED BY <3>1, <3>2
    <2> QED BY <2>1, <2>2, FreeAssumption DEF In
  <1>2. ASSUME NEW h \in handles, Unregister(h) PROVE UseProtected'
    BY <1>2 DEF Unregister, Names, In
  <1>3. ASSUME NEW rs, RegisterTable(rs) PROVE UseProtected'
    <2>1. \A v \in uses' : v.sure => v \in uses /\ ~(v.where = "table" /\ v.index \in DOMAIN table)
      BY <1>3, SpoilIs DEF RegisterTable
    <2> QED BY <1>3, <2>1 DEF RegisterTable, In
  <1>4. CASE UnregisterTable
    BY <1>4 DEF UnregisterTable, NothingMarked, In
  <1>5. ASSUME NEW id \in Use, NEW w \in Where, NEW h \in Held(w), BeginUse(id, w, h)
        PROVE  UseProtected'
    BY <1>5 DEF BeginUse, Markable, In
  <1>6. ASSUME NEW e \in uses, EndUse(e) PROVE UseProtected'
    <2>1. \A v \in uses' : v.sure => v \in uses /\ ~(v.where = e.where /\ v.index \in {e.index})
      BY <1>6, SpoilIs DEF EndUse
    <2> QED BY <1>6, <2>1 DEF EndUse, In
  <1>7. CASE DropRegistry
    <2>1. CASE \A w \in Where : marks[w] = {}
      <3>1. \A u \in uses : ~u.sure BY <1>7, <2>1 DEF DropRegistry
      <3>2. uses' \subseteq uses BY <1>7 DEF DropRegistry
      <3> QED BY <3>1, <3>2
    <2>2. CASE ~(\A w \in Where : marks[w] = {})
      <3>1. uses' = {} BY <1>7, <2>2 DEF DropRegistry
      <3> QED BY <3>1
    <2> QED BY <2>1, <2>2
  <1>8. CASE UsesStay
    BY <1>8 DEF UsesStay, In
  <1>9. ASSUME NEW h \in handles, UnregisterFails(h) PROVE UsesStay
    BY <1>9 DEF UnregisterFails, UsesStay
  <1>12. ASSUME NEW i, NEW r, RegisterElsewhere(i, r) PROVE UsesStay
    BY <1>12 DEF RegisterElsewhere, UsesStay
  <1>10. ASSUME NEW o, Submit(o) \/ SubmitFails(o) \/ Complete(o) PROVE UsesStay
    BY <1>10 DEF Submit, SubmitFails, KeepRegistry, Complete, registryVars, UsesStay
  <1>11. UNCHANGED vars => UsesStay
    BY DEF vars, registryVars, UsesStay
  <1> QED
    BY <1>1, <1>2, <1>3, <1>4, <1>5, <1>6, <1>7, <1>8, <1>9, <1>10, <1>11, <1>12
       DEF Next, RegistryNext, RegistrySteps

---------------------------------------------------------------------------
(* A reliable handle names its resource: it is unique for its index, and   *)
(* only the call that consumes it frees the slot, unless it is called with *)
(* a handle of another Registry, after which the index is not reliable.    *)
Registered == HandlesHonest /\ FlyingCarry

(* The conjuncts about handles are kept, one step per action.              *)
LEMMA RegisteredStep == TypeOK /\ Registered /\ [Next]_vars => Registered'
  <1> SUFFICES ASSUME TypeOK, Registered, [Next]_vars PROVE Registered'
    OBVIOUS
  <1> USE DEF TypeOK, Registered, HandlesHonest
  <1>1. ASSUME NEW r \in Resource, Register(r), UNCHANGED flying PROVE Registered'
    <2>1. \A i \in DOMAIN slots : slots[i] # Free => i \in DOMAIN slots' /\ slots'[i] = slots[i]
      <3>1. CASE EmptyIndex > Len(slots) BY <1>1, <3>1 DEF Register
      <3>2. CASE ~(EmptyIndex > Len(slots)) BY <1>1, <3>2, EmptyIndexIs DEF Register
      <3> QED BY <3>1, <3>2
    <2>2. EmptyIndex \in DOMAIN slots' /\ slots'[EmptyIndex] = r
      <3>1. CASE EmptyIndex > Len(slots) BY <1>1, <3>1, EmptyIndexIs DEF Register
      <3>2. CASE ~(EmptyIndex > Len(slots)) BY <1>1, <3>2, EmptyIndexIs DEF Register
      <3> QED BY <3>1, <3>2
    <2>3. EmptyIndex \in DOMAIN slots => slots[EmptyIndex] = Free
      BY EmptyIndexIs
    <2>4. \A h \in AllHandles : h.of # Free
      BY HandleFields, FreeAssumption, ElsewhereAssumption
    <2>5. AllHandles' = AllHandles BY <1>1, HandlesStay DEF Register
    <2>6. handles' = handles \union {Handle(EmptyIndex, r)} BY <1>1 DEF Register
    <2>7. \A h : Reliable(h)' <=> Reliable(h) BY <1>1 DEF Register, Reliable
    <2>8. HandlesHonest' BY <2>1, <2>2, <2>4, <2>6, <2>7 DEF Handle
    <2>9. FlyingCarry'
      BY <1>1, <2>1, <2>3, <2>4, <2>5, <2>6, <2>7 DEF FlyingCarry, Carried, Handle
    <2> QED BY <2>8, <2>9
  <1>2. ASSUME NEW h \in handles, Unregister(h), UNCHANGED flying PROVE Registered'
    <2>1. \A g \in AllHandles : g.of # Elsewhere /\ g.index = h.index /\ g.of = h.of => g = h
      BY SameHandle
    <2>2. AllHandles' = AllHandles BY <1>2, HandlesStay DEF Unregister
    <2>3. /\ DOMAIN slots' = DOMAIN slots /\ handles' = handles \ {h}
          /\ \A i \in DOMAIN slots : i # h.index => slots'[i] = slots[i]
      BY <1>2 DEF Unregister
    <2>4. ASSUME NEW g, Reliable(g)'
          PROVE  /\ Reliable(g)
                 /\ g.index = h.index => Reliable(h) /\ slots[h.index] = h.of
      BY <1>2, <2>4 DEF Unregister, Reliable
    <2>5. HandlesHonest' BY <2>1, <2>3, <2>4 DEF Reliable
    <2>6. FlyingCarry' BY <1>2, <2>1, <2>2, <2>3, <2>4 DEF FlyingCarry, Carried, Reliable
    <2> QED BY <2>5, <2>6
  <1>3. ASSUME NEW h \in handles, UnregisterFails(h), UNCHANGED flying PROVE Registered'
    <2>1. AllHandles' = AllHandles BY <1>3, HandlesStay DEF UnregisterFails
    <2>2. \A g : Reliable(g)' <=> Reliable(g) BY <1>3 DEF UnregisterFails, Reliable
    <2> QED BY <1>3, <2>1, <2>2 DEF UnregisterFails, FlyingCarry, Carried
  <1>4. ASSUME NEW i, NEW r, RegisterElsewhere(i, r), UNCHANGED flying PROVE Registered'
    <2>1. AllHandles' = AllHandles BY <1>4, HandlesStay DEF RegisterElsewhere
    <2>2. \A g : Reliable(g)' <=> Reliable(g) BY <1>4 DEF RegisterElsewhere, Reliable
    <2>3. ~Reliable(Stranger(i, r)) BY DEF Reliable, Stranger
    <2> QED BY <1>4, <2>1, <2>2, <2>3 DEF RegisterElsewhere, FlyingCarry, Carried
  <1>5. ASSUME UNCHANGED <<kind, status, slots, handles, crossed, flying>> PROVE Registered'
    <2>1. AllHandles' = AllHandles BY <1>5, HandlesStay
    <2>2. \A g : Reliable(g)' <=> Reliable(g) BY <1>5 DEF Reliable
    <2> QED BY <1>5, <2>1, <2>2 DEF FlyingCarry, Carried
  <1>6. ASSUME DropRegistry, UNCHANGED flying PROVE Registered'
    <2>1. AllHandles' = AllHandles BY <1>6, HandlesStay DEF DropRegistry
    <2>2. \A g : ~Reliable(g)' BY <1>6 DEF DropRegistry, Reliable
    <2> QED BY <1>6, <2>1, <2>2 DEF FlyingCarry, Carried
  <1>7. ASSUME NEW o \in Calls, Submit(o) \/ SubmitFails(o) PROVE Registered'
    <2>1. AllHandles' = AllHandles
      BY <1>7, HandlesStay DEF Submit, SubmitFails, KeepRegistry
    <2>2. /\ slots' = slots /\ handles' \subseteq handles
          /\ flying' = flying \/ flying' = flying \union {o}
          /\ \A g : Reliable(g)' <=> Reliable(g)
      BY <1>7 DEF Submit, SubmitFails, KeepRegistry, MoveHandle, Reliable
    <2>3. ASSUME NEW c \in Carried(o)
          PROVE  /\ c.handle \in AllHandles \ handles'
                 /\ c.handle \in handles
      <3>1. c = [kind |-> "registered", handle |-> c.handle] /\ c.handle \in handles
        BY CallShape DEF FromUser
      <3>2. c = o.fd \/ c = o.buffer BY DEF Carried
      <3> QED BY <1>7, <3>1, <3>2 DEF Submit, SubmitFails, MoveHandle
    <2>4. HandlesHonest' BY <2>2
    <2>5. FlyingCarry' BY <2>1, <2>2, <2>3 DEF FlyingCarry, Carried
    <2> QED BY <2>4, <2>5
  <1>8. ASSUME NEW o \in flying, Complete(o) PROVE Registered'
    <2>1. AllHandles' = AllHandles BY <1>8, HandlesStay DEF Complete, registryVars
    <2>2. \A g : Reliable(g)' <=> Reliable(g) BY <1>8 DEF Complete, registryVars, Reliable
    <2> QED BY <1>8, <2>1, <2>2 DEF Complete, registryVars, FlyingCarry, Carried
  <1> USE DEF RegisterTable, UnregisterTable, BeginUse, EndUse
  <1> QED BY <1>1, <1>2, <1>3, <1>4, <1>5, <1>6, <1>7, <1>8
          DEF Next, RegistryNext, RegistrySteps, vars, registryVars

(* Nothing but an accepted call puts an operation into the kernel.         *)
LEMMA AcceptedStep == FlyingAccepted /\ [Next]_vars => FlyingAccepted'
  <1> SUFFICES ASSUME FlyingAccepted, [Next]_vars PROVE FlyingAccepted'
    OBVIOUS
  <1>1. backend' = backend /\ (flying' \subseteq flying \/ \E o \in Calls : Submit(o))
    BY DEF Next, SubmitFails, Submit, Complete, KeepRegistry, vars
  <1>2. \A o : Takes(o)' <=> Takes(o) BY <1>1 DEF Takes
  <1>3. CASE flying' \subseteq flying
    BY <1>2, <1>3 DEF FlyingAccepted
  <1>4. ASSUME NEW o \in Calls, Submit(o) PROVE FlyingAccepted'
    <2>1. Shaped(o) BY CallShape
    <2> QED BY <1>2, <1>4, <2>1 DEF Submit, FlyingAccepted
  <1> QED BY <1>1, <1>3, <1>4

(* The invariant is inductive, and so it holds.                            *)
LEMMA StepHolds == IInv /\ [Next]_vars => IInv'
  BY TypeStep, UseStep, RegisteredStep, AcceptedStep DEF IInv, Registered

(* Every reachable state satisfies it.                                     *)
LEMMA Inductive == Spec => []IInv
  BY InitHolds, StepHolds, PTL DEF Spec

---------------------------------------------------------------------------
(* Every variable keeps its type (registry/mod.rs, operation/building.rs). *)
THEOREM TypeCorrect == Spec => []TypeOK
  <1>1. IInv => TypeOK BY DEF IInv
  <1> QED BY Inductive, <1>1, PTL

(* From the call that marks a resource to the one that ends its use, the   *)
(* index keeps naming it and the Registry is not dropped without a panic,  *)
(* whatever is registered and unregistered in between, with handles of     *)
(* this or of another Registry. UseProtected names the three things the    *)
(* code does that take the protection away (registry/mod.rs 49, 865).      *)
THEOREM UsesKeepRegistration == Spec => []UseProtected
  <1>1. IInv => UseProtected BY DEF IInv
  <1> QED BY Inductive, <1>1, PTL

(* While the Registry stands, a handle of it never names another resource  *)
(* than the one it was made for, with the user or inside an operation,     *)
(* unless its slot was given up for a handle of another Registry           *)
(* (registry/mod.rs 292).                                                  *)
THEOREM HandlesNameTheirs == Spec => []RegistrationsStand
  <1>1. IInv => RegistrationsStand
    BY DEF IInv, RegistrationsStand, FlyingRegistered, FlyingCarry, Carried
  <1> QED BY Inductive, <1>1, PTL

---------------------------------------------------------------------------
(* The kinds of buffer an accepted operation can have.                     *)
LEMMA BufferOf ==
  ASSUME NEW o, Shaped(o), Validate(o)
  PROVE  \/ o.buffer = NoBuffer /\ o.type = "Accept"
         \/ \E m \in Memory : /\ o.buffer = [kind |-> "pinned", memory |-> m]
                             /\ ~IsVectored(o.type)
         \/ \E ms \in Seq(Memory) : /\ o.buffer = [kind |-> "vectored", memory |-> ms]
                                  /\ IsVectored(o.type)
                                  /\ ms # <<>>
         \/ o.buffer.kind = "registered" /\ ~IsVectored(o.type)
  <1>1. CASE o.buffer = NoBuffer
    BY <1>1 DEF Validate, RequiresBuffer
  <1>2. ASSUME NEW m \in Memory, o.buffer = [kind |-> "pinned", memory |-> m]
        PROVE  ~IsVectored(o.type)
    BY <1>2 DEF Validate
  <1>3. ASSUME NEW ms \in Seq(Memory), o.buffer = [kind |-> "vectored", memory |-> ms]
        PROVE  IsVectored(o.type) /\ ms # <<>>
    <2>1. o.buffer.kind = "vectored" /\ o.buffer.memory = ms BY <1>3
    <2>2. IsVectored(o.type) BY <2>1 DEF Validate
    <2>3. RequiresBuffer(o.type) BY <2>2 DEF IsVectored, RequiresBuffer
    <2> QED BY <2>1, <2>2, <2>3 DEF Validate
  <1>4. CASE o.buffer.kind = "registered"
    BY <1>4 DEF Validate
  <1> QED BY <1>1, <1>2, <1>3, <1>4 DEF Shaped

(* A length below the width of a u32 is kept by the cast, the others are   *)
(* not.                                                                    *)
LEMMA CastKeeps ==
  ASSUME NEW a \in Nat, NEW w \in Nat \ {0}
  PROVE  a % w = a <=> a < w
  OBVIOUS

(* The place is the one asked for, unless it is excepted.                  *)
LEMMA PlaceAsAsked ==
  ASSUME NEW o, Takes(o), backend \in {"io_uring", "epoll"}
  PROVE  Place(Entry(o)) = Asked(o).place <=>
           ~ /\ IsPositioned(o.type)
             /\ \/ backend = "epoll" /\ o.offset # 0
                \/ backend = "io_uring" /\ IF GetFd(o) \in Regular THEN o.offset = Cursor
                                           ELSE o.offset \notin {0, Cursor}
  <1> DEFINE f == GetFd(o)
  <1>1. /\ Entry(o).type = o.type /\ Entry(o).fd = f /\ Entry(o).offset = o.offset
        /\ Asked(o).place = IF IsPositioned(o.type) /\ f \in Regular
                            THEN At(o.offset) ELSE NextBytes
    BY DEF Entry, Asked
  <1>2. backend = "epoll" => f \notin Regular BY DEF Takes
  <1>3. /\ \A n : At(n) # NextBytes /\ At(n) # Refused
        /\ NextBytes # Refused
    BY DEF At, NextBytes, Refused
  <1> HIDE DEF f
  <1>4. CASE ~IsPositioned(o.type) BY <1>1, <1>4 DEF Place
  <1>5. CASE IsPositioned(o.type) /\ backend = "epoll"
    BY <1>1, <1>2, <1>3, <1>5 DEF Place
  <1>6. CASE IsPositioned(o.type) /\ backend = "io_uring"
    <2>1. Place(Entry(o)) = IF o.offset = Cursor THEN NextBytes
                            ELSE IF f \in Regular THEN At(o.offset)
                            ELSE IF o.offset = 0 THEN NextBytes ELSE Refused
      BY <1>1, <1>6 DEF Place
    <2> QED BY <1>1, <1>3, <1>6, <2>1 DEF f
  <1> QED BY <1>4, <1>5, <1>6

(* So is the memory, with its length.                                      *)
LEMMA MemoryAsAsked ==
  ASSUME NEW o, Shaped(o), Validate(o), Takes(o), backend \in {"io_uring", "epoll"}
  PROVE  Moved(Entry(o)) = Asked(o).moved <=>
           ~ \/ RequiresBuffer(o.type) /\ o.buffer.kind \in {"registered", "vectored"}
             \/ /\ backend = "io_uring" /\ o.buffer.kind = "pinned"
                /\ o.type = "Accept" \/ Length[o.buffer.memory] >= Wrap
  <1> DEFINE Moves(m, n) == [memory |-> m, length |-> n]
  <1>1. /\ Entry(o).type = o.type
        /\ Entry(o).memory = BufferInfo(o).memory /\ Entry(o).length = BufferInfo(o).length
    BY DEF Entry
  <1>2. Asked(o).moved = Whole(IF RequiresBuffer(o.type) THEN o.buffer ELSE NoBuffer)
    BY DEF Asked
  <1>3. Whole(NoBuffer) = Moves(Null, 0) BY DEF Whole, NoBuffer
  <1>4. CASE o.buffer = NoBuffer /\ o.type = "Accept"
    <2>1. BufferInfo(o) = Moves(Null, 0) BY <1>4 DEF BufferInfo, NoBuffer
    <2> QED BY <1>1, <1>2, <1>3, <1>4, <2>1 DEF Moved, RequiresBuffer, NoBuffer
  <1>5. ASSUME NEW m \in Memory, o.buffer = [kind |-> "pinned", memory |-> m],
               ~IsVectored(o.type)
        PROVE  Moved(Entry(o)) = Asked(o).moved <=>
                 ~ /\ backend = "io_uring"
                   /\ o.type = "Accept" \/ Length[m] >= Wrap
    <2>1. BufferInfo(o) = Moves(m, Length[m]) BY <1>5 DEF BufferInfo
    <2>2. m # Null /\ Length[m] \in Nat BY MemoryAssumption, LengthAssumption
    <2>3. CASE o.type = "Accept"
      <3>1. Asked(o).moved = Moves(Null, 0) BY <1>2, <1>3, <2>3 DEF RequiresBuffer
      <3>2. Moved(Entry(o)) = IF backend = "io_uring" THEN Moves(m, AsMemorySays)
                              ELSE Moves(Null, 0)
        BY <1>1, <2>1, <2>2, <2>3 DEF Moved
      <3>3. Moves(m, AsMemorySays) # Moves(Null, 0) BY <2>2
      <3> QED BY <2>3, <3>1, <3>2, <3>3
    <2>4. CASE o.type # "Accept"
      <3>1. Asked(o).moved = Moves(m, Length[m])
        BY <1>2, <1>5, <2>4 DEF RequiresBuffer, Whole
      <3>2. Moved(Entry(o)) = Moves(m, IF backend = "io_uring" THEN Length[m] % Wrap
                                       ELSE Length[m])
        BY <1>1, <2>1, <2>4 DEF Moved
      <3>3. Length[m] % Wrap = Length[m] <=> ~(Length[m] >= Wrap)
        BY <2>2, CastKeeps, LengthAssumption
      <3> QED BY <2>4, <3>1, <3>2, <3>3
    <2> QED BY <2>3, <2>4
  <1>6. ASSUME NEW ms \in Seq(Memory), o.buffer = [kind |-> "vectored", memory |-> ms],
               IsVectored(o.type), ms # <<>>
        PROVE  Moved(Entry(o)) # Asked(o).moved /\ RequiresBuffer(o.type)
    <2>1. o.type # "Accept" /\ backend = "epoll"
      BY <1>6 DEF Takes, IsVectored
    <2>2. BufferInfo(o) = Moves(Null, 0) BY <1>6 DEF BufferInfo
    <2>3. Asked(o).moved = Moves(ms, Len(ms))
      BY <1>2, <1>6, <2>1 DEF RequiresBuffer, Whole
    <2>4. Moved(Entry(o)) = Moves(Null, 0) BY <1>1, <2>1, <2>2 DEF Moved
    <2>5. Len(ms) # 0 BY <1>6
    <2> QED BY <2>1, <2>3, <2>4, <2>5 DEF RequiresBuffer
  <1>7. ASSUME o.buffer.kind = "registered", ~IsVectored(o.type)
        PROVE  Moved(Entry(o)) = Asked(o).moved <=> ~RequiresBuffer(o.type)
    <2>1. BufferInfo(o) = Moves(Null, 0) BY <1>7 DEF BufferInfo
    <2>2. CASE o.type = "Accept"
      BY <1>1, <1>2, <1>3, <2>1, <2>2 DEF Moved, RequiresBuffer
    <2>3. CASE o.type # "Accept"
      <3>1. Asked(o).moved = Moves(OfRegistry(o.buffer.handle), o.buffer.handle.key)
        BY <1>2, <1>7, <2>3 DEF RequiresBuffer, Whole
      <3>2. Moved(Entry(o)).memory = Null BY <1>1, <2>1, <2>3 DEF Moved
      <3>3. OfRegistry(o.buffer.handle) # Null BY DEF OfRegistry, Null
      <3> QED BY <2>3, <3>1, <3>2, <3>3 DEF RequiresBuffer
    <2> QED BY <2>2, <2>3
  <1>8. \/ o.buffer = NoBuffer /\ o.type = "Accept"
        \/ \E m \in Memory : /\ o.buffer = [kind |-> "pinned", memory |-> m]
                            /\ ~IsVectored(o.type)
        \/ \E ms \in Seq(Memory) : /\ o.buffer = [kind |-> "vectored", memory |-> ms]
                                 /\ IsVectored(o.type)
                                 /\ ms # <<>>
        \/ o.buffer.kind = "registered" /\ ~IsVectored(o.type)
    BY BufferOf
  <1>9. CASE o.buffer = NoBuffer /\ o.type = "Accept"
    <2>1. ~RequiresBuffer(o.type) /\ o.buffer.kind = "none"
      BY <1>9 DEF RequiresBuffer, NoBuffer
    <2> QED BY <1>4, <1>9, <2>1
  <1>10. ASSUME NEW m \in Memory, o.buffer = [kind |-> "pinned", memory |-> m],
                ~IsVectored(o.type)
         PROVE  o.buffer.kind = "pinned" /\ o.buffer.memory = m
    BY <1>10
  <1>11. ASSUME NEW ms \in Seq(Memory), o.buffer = [kind |-> "vectored", memory |-> ms],
                IsVectored(o.type), ms # <<>>
         PROVE  o.buffer.kind = "vectored"
    BY <1>11
  <1> QED BY <1>5, <1>6, <1>7, <1>8, <1>9, <1>10, <1>11

(* What is accepted is carried out as asked, unless it is excepted.        *)
LEMMA AcceptedAsAsked == FlyingAccepted /\ backend \in {"io_uring", "epoll"} => AsAsked
  <1> SUFFICES ASSUME FlyingAccepted, backend \in {"io_uring", "epoll"},
                      NEW o \in flying
               PROVE  Effect(o) = Asked(o) <=> ~Exceptional(o)
    BY DEF AsAsked
  <1>1. Shaped(o) /\ Validate(o) /\ Takes(o) BY DEF FlyingAccepted
  <1>2. Effect(o) = Asked(o) <=> /\ Moved(Entry(o)) = Asked(o).moved
                                 /\ Place(Entry(o)) = Asked(o).place
    BY DEF Effect, Asked
  <1> QED BY <1>1, <1>2, MemoryAsAsked, PlaceAsAsked DEF Exceptional

(* Its future returns what was lent, unless it is excepted.                *)
LEMMA AcceptedReturnsLoans == FlyingAccepted => LoansReturned
  <1> SUFFICES ASSUME FlyingAccepted, NEW o \in flying
               PROVE  /\ Outcomes(o, "error") = [typed |-> Failed, general |-> Failed]
                      /\ Outcomes(o, "count").typed = Ready("count", Lent(o)) <=>
                           IF RequiresBuffer(o.type) THEN o.buffer.kind # "registered"
                           ELSE o.buffer.kind # "pinned"
                      /\ Outcomes(o, "count").general = Ready("count", Lent(o)) <=>
                           o.buffer.kind # "vectored"
    BY DEF LoansReturned
  <1>1. Outcomes(o, "error") = [typed |-> Failed, general |-> Failed]
    BY DEF Outcomes
  <1>2. \A m, n : /\ Ready("count", m) = Ready("count", n) <=> m = n
                  /\ Failed # Ready("count", m)
    BY DEF Ready, Failed
  <1>3. /\ Outcomes(o, "count").typed =
             (IF o.type = "Accept" THEN PollAccept("count")
              ELSE IF IsVectored(o.type) THEN PollVectored(o, "count")
              ELSE PollIo(o, "count"))
        /\ Outcomes(o, "count").general = PollOperation(o, "count")
    BY DEF Outcomes, IsVectored
  <1>4. CASE o.buffer = NoBuffer /\ o.type = "Accept"
    BY <1>1, <1>3, <1>4 DEF PollAccept, PollOperation, Memories, Lent, NoBuffer,
                            RequiresBuffer
  <1>5. ASSUME NEW m \in Memory, o.buffer = [kind |-> "pinned", memory |-> m],
               ~IsVectored(o.type)
        PROVE  /\ Outcomes(o, "count").typed = Ready("count", Lent(o)) <=>
                    RequiresBuffer(o.type)
               /\ Outcomes(o, "count").general = Ready("count", Lent(o))
    <2>1. m # Null /\ Lent(o) = m /\ Memories(o, "pinned") = {m}
      BY <1>5, MemoryAssumption DEF Lent, Memories
    <2> QED BY <1>2, <1>3, <1>5, <2>1
            DEF PollAccept, PollIo, PollOperation, RequiresBuffer
  <1>6. ASSUME NEW ms \in Seq(Memory), o.buffer = [kind |-> "vectored", memory |-> ms],
               IsVectored(o.type)
        PROVE  /\ Outcomes(o, "count").typed = Ready("count", Lent(o))
               /\ Outcomes(o, "count").general # Ready("count", Lent(o))
               /\ RequiresBuffer(o.type)
    <2>1. ms # Null /\ Lent(o) = ms BY <1>6, MemoryAssumption DEF Lent
    <2>2. Memories(o, "pinned") = {} /\ Memories(o, "vectored") = {ms}
      BY <1>6 DEF Memories
    <2>3. o.type # "Accept" BY <1>6 DEF IsVectored
    <2>4. Outcomes(o, "count").typed = Ready("count", ms)
      <3>1. PollVectored(o, "count") = Ready("count", ms)
        <4>1. ms \in Memories(o, "vectored") BY <2>2
        <4>2. Memories(o, "vectored") # {} BY <4>1
        <4>3. o.buffer.memory = ms BY <1>6
        <4> QED BY <4>2, <4>3 DEF PollVectored
      <3> QED BY <1>3, <1>6, <2>3, <3>1
    <2>5. Outcomes(o, "count").general = Ready("count", Null)
      BY <1>3, <2>2 DEF PollOperation
    <2> QED BY <1>2, <2>1, <2>3, <2>4, <2>5 DEF RequiresBuffer
  <1>7. ASSUME o.buffer.kind = "registered", ~IsVectored(o.type)
        PROVE  /\ Outcomes(o, "count").typed = Ready("count", Lent(o)) <=>
                    ~RequiresBuffer(o.type)
               /\ Outcomes(o, "count").general = Ready("count", Lent(o))
    <2>1. Lent(o) = Null /\ Memories(o, "pinned") = {} BY <1>7 DEF Lent, Memories
    <2> QED BY <1>2, <1>3, <1>7, <2>1
            DEF PollAccept, PollIo, PollOperation, RequiresBuffer
  <1>8. Shaped(o) /\ Validate(o) BY DEF FlyingAccepted
  <1>9. \/ o.buffer = NoBuffer /\ o.type = "Accept"
        \/ \E m \in Memory : /\ o.buffer = [kind |-> "pinned", memory |-> m]
                            /\ ~IsVectored(o.type)
        \/ \E ms \in Seq(Memory) : /\ o.buffer = [kind |-> "vectored", memory |-> ms]
                                 /\ IsVectored(o.type)
        \/ o.buffer.kind = "registered" /\ ~IsVectored(o.type)
    BY <1>8, BufferOf
  <1>10. CASE o.buffer = NoBuffer /\ o.type = "Accept"
    <2>1. ~RequiresBuffer(o.type) /\ o.buffer.kind = "none"
      BY <1>10 DEF RequiresBuffer, NoBuffer
    <2> QED BY <1>1, <1>4, <1>10, <2>1
  <1>11. ASSUME NEW m \in Memory, o.buffer = [kind |-> "pinned", memory |-> m],
                ~IsVectored(o.type)
         PROVE  o.buffer.kind = "pinned"
    BY <1>11
  <1>12. ASSUME NEW ms \in Seq(Memory), o.buffer = [kind |-> "vectored", memory |-> ms],
                IsVectored(o.type)
         PROVE  o.buffer.kind = "vectored"
    BY <1>12
  <1> QED BY <1>1, <1>5, <1>6, <1>7, <1>9, <1>10, <1>11, <1>12

(* The kernel is asked for what the caller meant exactly when the          *)
(* operation is not Exceptional, and the caller gets back what was lent    *)
(* exactly as LoansReturned says, for every way to build an operation,     *)
(* every buffer, length and offset, and both backends (building.rs 388,    *)
(* io_futures/common.rs 10).                                               *)
THEOREM AcceptedIsCarriedOut == Spec => []CarriedOut
  <1>1. IInv => CarriedOut
    BY AcceptedAsAsked, AcceptedReturnsLoans DEF IInv, TypeOK, CarriedOut
  <1> QED BY Inductive, <1>1, PTL

=============================================================================
