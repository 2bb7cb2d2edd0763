---------------------------- MODULE BackendProofs ----------------------------
(***************************************************************************)
(* Proofs about the fallback backend and about the choices made before     *)
(* there is one.                                                           *)
(*                                                                         *)
(* Epoll, for any number of descriptors, files, operations and events per  *)
(* poll: EpollInv is inductive. Its part Listed says what an entry of the  *)
(* interest list stands for, and its part Orderly what holds besides while *)
(* nobody closes or duplicates a descriptor under a pending operation.     *)
(*                                                                         *)
(* Setup, for any machines and any number of calls: StartInv is inductive. *)
(* It says where the detected features come from and which flags the       *)
(* kernel accepted for a ring that was built.                              *)
(***************************************************************************)
EXTENDS Backends, FiniteSetTheorems, TLAPS

Stages == {"unused", "pending", "refused", "done", "gone"}
Entry == [fd : Fd, file : File, op : Op, armed : BOOLEAN]

TypeOK ==
  /\ phase \in {"idle", "waiting", "executing", "blocked", "dropped"}
  /\ files \in [Fd -> File \union {NoFile}]
  /\ opened \subseteq File
  /\ ready \in [File -> SUBSET Direction]
  /\ interest \subseteq Entry /\ IsFiniteSet(interest)
  /\ stage \in [Op -> Stages]
  /\ req \in [Op -> [fd : Fd \union {0}, file : File \union {NoFile}, dir : Direction]]
  /\ events \in Seq(Op)
  /\ careless \in BOOLEAN /\ outrun \subseteq Op

(* An entry is the request of its operation, and no descriptor has two for *)
(* the same file. What is fetched is executed before anything else.        *)
Listed ==
  /\ \A fd \in Fd : files[fd] \in opened \union {NoFile}
  /\ \A e \in interest :
       /\ e.file = req[e.op].file /\ e.fd = req[e.op].fd
       /\ e.file \in opened /\ stage[e.op] # "unused"
  /\ \A e, d \in interest : e.fd = d.fd /\ e.file = d.file => e = d
  /\ \A o \in Pending : req[o].fd \in Fd /\ req[o].file \in opened
  /\ phase \in {"executing", "blocked"} <=> events # <<>>

(* What a fetched operation finds: its file is ready, or others were       *)
(* faster, or it is in its system call already.                            *)
Expected(o) ==
  \/ req[o].dir \in ready[req[o].file]
  \/ o \in outrun
  \/ phase = "blocked" /\ o = Head(events)

(* A file has one descriptor, an entry's descriptor stands for its file, a *)
(* pending operation has an entry, a fetched one finds what it expects,    *)
(* and only a blocking descriptor blocks.                                  *)
Orderly ==
  /\ \A fd, other \in Fd : files[fd] = files[other] /\ files[fd] # NoFile => fd = other
  /\ \A e \in interest : files[e.fd] = e.file
  /\ \A o \in Pending : \E e \in interest : e.op = o
  /\ \A o \in Pending : o \in ToSet(events) => Expected(o)
  /\ phase = "blocked" => /\ Head(events) \in Pending
                          /\ files[req[Head(events)].fd] \in Blocking

EpollInv == TypeOK /\ Listed /\ EventComes /\ (~careless => Orderly)

---------------------------------------------------------------------------
(* The head and the tail of a sequence hold its elements.                  *)
LEMMA HeadAndTail ==
  ASSUME NEW S, NEW s \in Seq(S), s # <<>>
  PROVE  /\ Head(s) \in S /\ Tail(s) \in Seq(S)
         /\ Head(s) \in ToSet(s) /\ ToSet(Tail(s)) \subseteq ToSet(s)
         /\ \A x \in ToSet(s) : x = Head(s) \/ x \in ToSet(Tail(s))
  <1>1. /\ Tail(s) \in Seq(S) /\ Head(s) \in S
        /\ Len(s) \in Nat \ {0} /\ Len(Tail(s)) = Len(s) - 1
        /\ Head(s) = s[1]
        /\ \A k \in 1 .. Len(Tail(s)) : Tail(s)[k] = s[k + 1]
    OBVIOUS
  <1>2. DOMAIN s = 1 .. Len(s) /\ DOMAIN Tail(s) = 1 .. Len(s) - 1 BY <1>1
  <1>3. \A k \in 2 .. Len(s) : s[k] = Tail(s)[k - 1] /\ k - 1 \in DOMAIN Tail(s)
    BY <1>1, <1>2
  <1>4. \A x \in ToSet(s) : x = Head(s) \/ x \in ToSet(Tail(s))
    <2> SUFFICES ASSUME NEW k \in 1 .. Len(s) PROVE s[k] = Head(s) \/ s[k] \in ToSet(Tail(s))
      BY <1>2 DEF ToSet
    <2>1. CASE k = 1 BY <1>1, <2>1
    <2>2. CASE k # 1
      <3>1. k \in 2 .. Len(s) BY <2>2
      <3> QED BY <1>3, <3>1 DEF ToSet
    <2> QED BY <2>1, <2>2
  <1>5. ToSet(Tail(s)) \subseteq ToSet(s)
    <2> SUFFICES ASSUME NEW k \in 1 .. Len(s) - 1 PROVE Tail(s)[k] \in ToSet(s)
      BY <1>2 DEF ToSet
    <2>1. Tail(s)[k] = s[k + 1] /\ k + 1 \in DOMAIN s BY <1>1, <1>2
    <2> QED BY <2>1 DEF ToSet
  <1>6. Head(s) \in ToSet(s) BY <1>1, <1>2 DEF ToSet
  <1> QED BY <1>1, <1>4, <1>5, <1>6

(* The operations of what fires, in any order, are the operations of what  *)
(* fires, and there are some.                                              *)
LEMMA Fetched ==
  ASSUME TypeOK, NEW fired \in SUBSET interest, Cardinality(fired) \in 1 .. MaxEvents,
         NEW s \in SetToSeqs({e.op : e \in fired})
  PROVE  /\ s \in Seq(Op) /\ s # <<>>
         /\ ToSet(s) = {e.op : e \in fired}
  <1> DEFINE T == {e.op : e \in fired}
             n == Cardinality(T)
             f == [e \in fired |-> e.op]
  <1>1. IsFiniteSet(fired) BY FS_Subset DEF TypeOK
  <1>2. f \in Surjection(fired, T) BY DEF Surjection
  <1>3. IsFiniteSet(T) BY <1>1, <1>2, FS_Surjection
  <1>4. fired # {} BY FS_EmptySet, MaxEventsAssumption
  <1>5. T # {} /\ T \subseteq Op
    <2>1. \A e \in fired : e.op \in Op BY DEF TypeOK, Entry
    <2>2. PICK e \in fired : TRUE BY <1>4
    <2>3. e.op \in T BY <2>2
    <2> QED BY <2>1, <2>3
  <1> HIDE DEF T
  <1>6. n \in Nat BY <1>3, FS_CardinalityType
  <1>7. s \in Injection(1 .. n, T) BY DEF SetToSeqs, Injection, IsInjective, T
  <1>8. Cardinality(1 .. n) = n BY <1>6, FS_Interval
  <1>9. s \in Surjection(1 .. n, T) BY <1>3, <1>7, <1>8, FS_Injection
  <1>10. s \in [1 .. n -> T] BY <1>7 DEF Injection
  <1> HIDE DEF n
  <1>11. s \in Seq(T) /\ Len(s) = n BY <1>6, <1>10
  <1>12. ToSet(s) = T BY <1>9, <1>10 DEF Surjection, ToSet
  <1>13. s # <<>> BY <1>5, <1>12 DEF ToSet
  <1> QED BY <1>5, <1>11, <1>12, <1>13 DEF T

---------------------------------------------------------------------------
(* The initial states satisfy the invariant.                               *)
LEMMA InitHolds == Init => EpollInv
  <1> SUFFICES ASSUME Init PROVE EpollInv OBVIOUS
  <1>1. TypeOK
    <2>1. NoRequest \in [fd : Fd \union {0}, file : File \union {NoFile}, dir : Direction]
      BY DEF NoRequest, Direction
    <2>2. req \in [Op -> [fd : Fd \union {0}, file : File \union {NoFile}, dir : Direction]]
      BY <2>1 DEF Init
    <2>3. interest \subseteq Entry /\ IsFiniteSet(interest) BY FS_EmptySet DEF Init
    <2>4. /\ files \in [Fd -> File \union {NoFile}] /\ ready \in [File -> SUBSET Direction]
          /\ stage \in [Op -> Stages]
      BY DEF Init, Stages
    <2>5. events \in Seq(Op) /\ opened \subseteq File BY DEF Init
    <2> QED BY <2>2, <2>3, <2>4, <2>5 DEF Init, TypeOK
  <1>2. Pending = {} /\ ToSet(events) = {} BY DEF Init, Pending, ToSet
  <1>3. Listed /\ EventComes /\ Orderly
    BY <1>2 DEF Init, Listed, EventComes, Orderly
  <1> QED BY <1>1, <1>3 DEF EpollInv

(* The types.                                                              *)
LEMMA TypeStep == EpollInv /\ [Next]_vars => TypeOK'
  <1> SUFFICES ASSUME TypeOK, Listed, [Next]_vars PROVE TypeOK'
    BY DEF EpollInv
  <1>1. ASSUME NEW fd \in Fd, NEW f \in File, OpenFile(fd, f) PROVE TypeOK'
    BY <1>1 DEF others, OpenFile, TypeOK
  <1>2. ASSUME NEW fd \in Fd, NEW new \in Fd, Dup(fd, new) PROVE TypeOK'
    BY <1>2 DEF Dup, TypeOK
  <1>3. ASSUME NEW fd \in Fd, Close(fd) PROVE TypeOK'
    <2>1. interest' \subseteq interest /\ ready' \in [File -> SUBSET Direction]
          /\ files' \in [Fd -> File \union {NoFile}] /\ careless' \in BOOLEAN
      BY <1>3 DEF Close, TypeOK
    <2>2. IsFiniteSet(interest') BY <2>1, FS_Subset DEF TypeOK
    <2> QED BY <1>3, <2>1, <2>2 DEF Close, TypeOK
  <1>4. ASSUME NEW fd \in Fd, NEW o \in Op, NEW d \in Direction, Submit(o, fd, d)
        PROVE  TypeOK'
    <2>1. CASE Addable(fd)
      <3> DEFINE e == [fd |-> fd, file |-> files[fd], op |-> o, armed |-> TRUE]
      <3>1. e \in Entry BY <2>1 DEF Addable, TypeOK, Entry
      <3> HIDE DEF e
      <3>2. interest' = interest \union {e} BY <1>4, <2>1 DEF Submit, e
      <3>3. IsFiniteSet(interest') BY <3>2, FS_AddElement DEF TypeOK
      <3>4. interest' \subseteq Entry BY <3>1, <3>2 DEF TypeOK
      <3> QED BY <1>4, <2>1, <3>3, <3>4 DEF others, Submit, TypeOK, Stages
    <2>2. CASE ~Addable(fd) BY <1>4, <2>2 DEF others, Submit, Refuse, TypeOK, Stages
    <2> QED BY <2>1, <2>2
  <1>5. ASSUME NEW f \in File, NEW d \in Direction, BecomeReady(f, d) \/ TakenElsewhere(f, d)
        PROVE  TypeOK'
    <2>1. Waiting(f, d) \subseteq Op BY DEF Waiting, ToSet, TypeOK
    <2>2. ready' \in [File -> SUBSET Direction] BY <1>5 DEF BecomeReady, TakenElsewhere, TypeOK
    <2> QED BY <1>5, <2>1, <2>2 DEF BecomeReady, TakenElsewhere, TypeOK
  <1>6. CASE Fetch
    <2>1. PICK fired \in SUBSET interest :
            /\ Cardinality(fired) \in 1 .. MaxEvents
            /\ events' \in SetToSeqs({e.op : e \in fired})
            /\ interest' = (interest \ fired) \union {Disarm(e) : e \in fired}
      BY <1>6 DEF Fetch
    <2>2. events' \in Seq(Op) BY <2>1, Fetched
    <2>3. \A e \in Entry : Disarm(e) \in Entry BY DEF Disarm, Entry
    <2>4. interest' \subseteq Entry BY <2>1, <2>3 DEF TypeOK
    <2>5. IsFiniteSet(interest')
      <3> DEFINE T == {Disarm(e) : e \in fired}
                 f == [e \in fired |-> Disarm(e)]
      <3>1. IsFiniteSet(fired) /\ IsFiniteSet(interest \ fired) BY FS_Subset DEF TypeOK
      <3>2. f \in Surjection(fired, T) BY DEF Surjection
      <3>3. IsFiniteSet(T) BY <3>1, <3>2, FS_Surjection
      <3> HIDE DEF T
      <3>4. IsFiniteSet((interest \ fired) \union T) BY <3>1, <3>3, FS_Union
      <3> QED BY <2>1, <3>4 DEF T
    <2> QED BY <1>6, <2>2, <2>4, <2>5 DEF others, Fetch, TypeOK
  <1>7. CASE Execute
    <2>1. Head(events) \in Op /\ events' \in Seq(Op)
      BY <1>7, HeadAndTail DEF Execute, Remaining, TypeOK, Listed
    <2>3. ready' \in [File -> SUBSET Direction]
      <3>1. \A f, d : [ready EXCEPT ![f] = ready[f] \ {d}] \in [File -> SUBSET Direction]
        BY DEF TypeOK
      <3>2. ready' = ready \/ \E f, d : ready' = [ready EXCEPT ![f] = ready[f] \ {d}]
        BY <1>7 DEF Execute, Consume
      <3> QED BY <3>1, <3>2 DEF TypeOK
    <2> QED BY <1>7, <2>1, <2>3 DEF Execute, TypeOK, Stages
  <1>8. CASE DropBackend
    BY <1>8, FS_EmptySet DEF others, DropBackend, CloseEpollFd, TypeOK, Stages
  <1>9. CASE WaitForCompletion \/ Interrupted \/ UNCHANGED vars
    BY <1>9 DEF WaitForCompletion, Interrupted, vars, others, TypeOK
  <1>10. CASE Block
    <2>1. \A f : [ready EXCEPT ![f] = ready[f] \ {"out"}] \in [File -> SUBSET Direction]
      BY DEF TypeOK
    <2>2. ready' = ready \/ \E f : ready' = [ready EXCEPT ![f] = ready[f] \ {"out"}]
      BY <1>10 DEF Block
    <2> QED BY <1>10, <2>1, <2>2 DEF Block, others, TypeOK
  <1> QED BY <1>1, <1>2, <1>3, <1>4, <1>5, <1>6, <1>7, <1>8, <1>9, <1>10 DEF Next

---------------------------------------------------------------------------
(* What a poll fetches, and how it leaves the interest list.               *)
LEMMA FetchStep ==
  ASSUME TypeOK, Listed, Fetch
  PROVE  \E fired \in SUBSET interest :
           /\ \A e \in fired : Fires(e)
           /\ events' # <<>> /\ ToSet(events') = {e.op : e \in fired}
           /\ interest' = (interest \ fired) \union {Disarm(e) : e \in fired}
           /\ \A e \in interest' : \E d \in interest :
                /\ e.fd = d.fd /\ e.file = d.file /\ e.op = d.op
                /\ (d \in fired /\ e = Disarm(d)) \/ (d \notin fired /\ e = d)
           /\ \A d \in interest : \E e \in interest' : e.op = d.op
  <1>1. PICK fired \in SUBSET {e \in interest : Fires(e)} :
          /\ Cardinality(fired) \in 1 .. MaxEvents
          /\ events' \in SetToSeqs({e.op : e \in fired})
          /\ interest' = (interest \ fired) \union {Disarm(e) : e \in fired}
    BY DEF Fetch
  <1>2. events' # <<>> /\ ToSet(events') = {e.op : e \in fired} BY <1>1, Fetched
  <1>3. \A e \in interest :
          Disarm(e).fd = e.fd /\ Disarm(e).file = e.file /\ Disarm(e).op = e.op
    BY DEF Disarm, TypeOK, Entry
  <1>4. fired \subseteq interest /\ \A e \in fired : Fires(e) BY <1>1
  <1>5. \A e \in interest' : \E d \in interest :
          /\ e.fd = d.fd /\ e.file = d.file /\ e.op = d.op
          /\ (d \in fired /\ e = Disarm(d)) \/ (d \notin fired /\ e = d)
    BY <1>1, <1>3, <1>4
  <1>6. \A d \in interest : \E e \in interest' : e.op = d.op
    <2> SUFFICES ASSUME NEW d \in interest PROVE \E e \in interest' : e.op = d.op
      OBVIOUS
    <2>1. CASE d \in fired
      <3>1. Disarm(d) \in interest' BY <1>1, <2>1
      <3> QED BY <1>3, <3>1
    <2>2. CASE d \notin fired
      <3>1. d \in interest' BY <1>1, <2>2
      <3> QED BY <3>1
    <2> QED BY <2>1, <2>2
  <1> QED BY <1>1, <1>2, <1>4, <1>5, <1>6

(* A new entry of an operation that was not used before.                   *)
LEMMA SubmitStep ==
  ASSUME TypeOK, NEW fd \in Fd, NEW o \in Op, NEW d \in Direction, Submit(o, fd, d)
  PROVE  /\ stage[o] = "unused"
         /\ req'[o].fd = fd /\ req'[o].file = files[fd] /\ req'[o].dir = d
         /\ \A p \in Op : p # o => req'[p] = req[p] /\ stage'[p] = stage[p]
         /\ \/ /\ Addable(fd) /\ stage'[o] = "pending"
               /\ interest' = interest \union {[fd |-> fd, file |-> files[fd],
                                                op |-> o, armed |-> TRUE]}
            \/ ~Addable(fd) /\ stage'[o] = "refused" /\ interest' = interest
         /\ UNCHANGED <<phase, files, opened, ready, events, others>>
  BY DEF Submit, Fresh, Refuse, TypeOK

(* What the entries stand for.                                             *)
LEMMA ListedStep == EpollInv /\ [Next]_vars => Listed'
  <1> SUFFICES ASSUME TypeOK, Listed, [Next]_vars PROVE Listed'
    BY DEF EpollInv
  <1>0. \A e \in interest : e.op \in Op BY DEF TypeOK, Entry
  <1>1. ASSUME NEW fd \in Fd, NEW f \in File, OpenFile(fd, f) PROVE Listed'
    BY <1>1 DEF OpenFile, Listed, TypeOK, Pending
  <1>2. ASSUME NEW fd \in Fd, NEW new \in Fd, Dup(fd, new) PROVE Listed'
    BY <1>2 DEF Dup, Listed, TypeOK, Pending
  <1>3. ASSUME NEW fd \in Fd, Close(fd) PROVE Listed'
    <2>1. interest' \subseteq interest BY <1>3 DEF Close
    <2>2. UNCHANGED <<phase, opened, stage, req, events>> /\ Pending' = Pending
      BY <1>3 DEF Close, Pending
    <2>3. \A other \in Fd : files'[other] \in {files[other], NoFile}
      BY <1>3 DEF Close, TypeOK
    <2> QED BY <2>1, <2>2, <2>3 DEF Listed
  <1>4. ASSUME NEW fd \in Fd, NEW o \in Op, NEW d \in Direction, Submit(o, fd, d)
        PROVE  Listed'
    <2>0. /\ stage[o] = "unused" /\ req'[o].fd = fd /\ req'[o].file = files[fd]
          /\ \A p \in Op : p # o => req'[p] = req[p] /\ stage'[p] = stage[p]
          /\ \/ /\ Addable(fd) /\ stage'[o] = "pending"
                /\ interest' = interest \union {[fd |-> fd, file |-> files[fd],
                                                 op |-> o, armed |-> TRUE]}
             \/ ~Addable(fd) /\ stage'[o] = "refused" /\ interest' = interest
          /\ UNCHANGED <<phase, files, opened, ready, events, others>>
      BY <1>4, SubmitStep
    <2>1. \A e \in interest : e.op # o BY <2>0 DEF Listed
    <2>2. \A p \in Pending : p # o BY <2>0 DEF Pending
    <2>3. \A e \in interest :
            /\ e.file = req'[e.op].file /\ e.fd = req'[e.op].fd
            /\ e.file \in opened' /\ stage'[e.op] # "unused"
      BY <1>0, <2>0, <2>1 DEF Listed
    <2>4. CASE ~Addable(fd)
      <3>1. interest' = interest /\ Pending' = Pending
        BY <2>0, <2>2, <2>4 DEF Pending
      <3>2. \A p \in Pending : req'[p] = req[p] BY <2>0, <2>2 DEF Pending
      <3> QED BY <2>0, <2>3, <3>1, <3>2 DEF Listed
    <2>5. CASE Addable(fd)
      <3> DEFINE e == [fd |-> fd, file |-> files[fd], op |-> o, armed |-> TRUE]
      <3>1. interest' = interest \union {e} /\ Pending' = Pending \union {o}
        BY <2>0, <2>2, <2>5 DEF Pending
      <3>2. files[fd] \in opened BY <2>5 DEF Addable, Listed
      <3>3. \A x \in interest : ~(x.fd = fd /\ x.file = files[fd])
        BY <2>5 DEF Addable, Registered
      <3>4. e.fd = fd /\ e.file = files[fd] /\ e.op = o OBVIOUS
      <3> HIDE DEF e
      <3>5. e.file = req'[e.op].file /\ e.fd = req'[e.op].fd
            /\ e.file \in opened' /\ stage'[e.op] # "unused"
        BY <2>0, <2>5, <3>2, <3>4
      <3>6. \A x, y \in interest' : x.fd = y.fd /\ x.file = y.file => x = y
        BY <3>1, <3>3, <3>4 DEF Listed
      <3>7. \A p \in Pending' : req'[p].fd \in Fd /\ req'[p].file \in opened'
        <4>1. \A p \in Pending : req'[p] = req[p] BY <2>0, <2>2 DEF Pending
        <4>2. req'[o].fd = fd /\ req'[o].file = files[fd] /\ opened' = opened
          BY <2>0
        <4> QED BY <3>1, <3>2, <4>1, <4>2 DEF Listed
      <3>8. UNCHANGED <<phase, files, opened, events>> BY <2>0
      <3> QED BY <2>3, <3>1, <3>5, <3>6, <3>7, <3>8 DEF Listed
    <2> QED BY <2>4, <2>5
  <1>5. ASSUME NEW f \in File, NEW d \in Direction, BecomeReady(f, d) \/ TakenElsewhere(f, d)
        PROVE  Listed'
    BY <1>5 DEF BecomeReady, TakenElsewhere, Listed, Pending
  <1>6. CASE Fetch
    <2>1. PICK fired \in SUBSET interest :
            /\ events' # <<>>
            /\ \A e \in interest' : \E d \in interest :
                 /\ e.fd = d.fd /\ e.file = d.file /\ e.op = d.op
                 /\ (d \in fired /\ e = Disarm(d)) \/ (d \notin fired /\ e = d)
      BY <1>6, FetchStep
    <2>2. /\ UNCHANGED <<files, opened, stage, req>> /\ phase' = "executing"
          /\ Pending' = Pending
      BY <1>6 DEF Fetch, Pending
    <2>3. \A e, d \in interest' : e.fd = d.fd /\ e.file = d.file => e = d
      <3> SUFFICES ASSUME NEW e \in interest', NEW d \in interest',
                          e.fd = d.fd, e.file = d.file
                   PROVE  e = d
        OBVIOUS
      <3>1. PICK x \in interest :
              /\ e.fd = x.fd /\ e.file = x.file
              /\ (x \in fired /\ e = Disarm(x)) \/ (x \notin fired /\ e = x)
        BY <2>1
      <3>2. PICK y \in interest :
              /\ d.fd = y.fd /\ d.file = y.file
              /\ (y \in fired /\ d = Disarm(y)) \/ (y \notin fired /\ d = y)
        BY <2>1
      <3>3. x = y BY <3>1, <3>2 DEF Listed
      <3> QED BY <3>1, <3>2, <3>3
    <2>4. \A e \in interest' :
            /\ e.file = req'[e.op].file /\ e.fd = req'[e.op].fd
            /\ e.file \in opened' /\ stage'[e.op] # "unused"
      BY <2>1, <2>2 DEF Listed
    <2> QED BY <2>1, <2>2, <2>3, <2>4 DEF Listed
  <1>7. CASE Execute
    <2>1. UNCHANGED <<files, opened, interest, req>> BY <1>7 DEF Execute
    <2>2. \A o \in Op : stage'[o] = stage[o] \/ stage'[o] = "done"
      BY <1>7 DEF Execute, TypeOK
    <2>3. Pending' \subseteq Pending /\ \A o \in Op : stage[o] # "unused" => stage'[o] # "unused"
      BY <2>2 DEF Pending
    <2>4. phase' \in {"executing", "blocked"} <=> events' # <<>> BY <1>7 DEF Execute
    <2> QED BY <1>0, <2>1, <2>3, <2>4 DEF Listed
  <1>8. CASE DropBackend
    <2>1. interest' = {} /\ Pending' = {}
      BY <1>8 DEF DropBackend, CloseEpollFd, Pending
    <2> QED BY <1>8, <2>1 DEF DropBackend, Listed
  <1>9. CASE WaitForCompletion \/ Interrupted \/ UNCHANGED vars
    BY <1>9 DEF WaitForCompletion, Interrupted, vars, Listed, Pending
  <1>10. CASE Block BY <1>10 DEF Block, Listed, Pending
  <1> QED BY <1>1, <1>2, <1>3, <1>4, <1>5, <1>6, <1>7, <1>8, <1>9, <1>10 DEF Next

(* A pending operation keeps its armed entry or its fetched event.         *)
LEMMA EventStep == EpollInv /\ [Next]_vars => EventComes'
  <1> DEFINE Told(o) == (\E e \in interest : e.op = o /\ e.armed) \/ o \in ToSet(events)
             Goal == \A o \in Pending' : Open(req[o].file)' => Told(o)'
  <1> SUFFICES ASSUME TypeOK, Listed, EventComes, [Next]_vars PROVE Goal
    BY DEF EpollInv, EventComes
  <1>0. \A o \in Pending : Open(req[o].file) => Told(o) BY DEF EventComes
  <1>1. ASSUME NEW fd \in Fd, NEW f \in File, OpenFile(fd, f) PROVE Goal
    <2>1. \A o \in Pending : Open(req[o].file)' => Open(req[o].file)
      BY <1>1 DEF OpenFile, Open, Listed, TypeOK
    <2>2. Pending' = Pending /\ UNCHANGED <<req, interest, events>>
      BY <1>1 DEF OpenFile, Pending
    <2> QED BY <1>0, <2>1, <2>2
  <1>2. ASSUME NEW fd \in Fd, NEW new \in Fd, Dup(fd, new) PROVE Goal
    <2>1. \A o \in Pending : Open(req[o].file)' => Open(req[o].file)
      BY <1>2 DEF Dup, Open, TypeOK
    <2>2. Pending' = Pending /\ UNCHANGED <<req, interest, events>>
      BY <1>2 DEF Dup, Pending
    <2> QED BY <1>0, <2>1, <2>2
  <1>3. ASSUME NEW fd \in Fd, Close(fd) PROVE Goal
    <2> DEFINE f == files[fd]
               last == \A other \in Fd \ {fd} : files[other] # f
    <2>1. /\ f # NoFile
          /\ files' = [files EXCEPT ![fd] = NoFile]
          /\ interest' = IF last THEN {e \in interest : e.file # f} ELSE interest
          /\ Pending' = Pending /\ UNCHANGED <<req, events>>
      BY <1>3 DEF Close, Pending
    <2> HIDE DEF f, last
    <2>2. SUFFICES ASSUME NEW o \in Pending, Open(req[o].file)' PROVE Told(o)'
      BY <2>1
    <2>3. PICK g \in Fd : files'[g] = req[o].file BY <2>1, <2>2 DEF Open
    <2>4. req[o].file \in File BY DEF Listed, TypeOK
    <2>5. g # fd /\ files[g] = req[o].file
      BY <2>1, <2>3, <2>4, FileAssumption DEF TypeOK
    <2>6. Told(o) BY <1>0, <2>5 DEF Open
    <2>7. CASE last
      <3>1. req[o].file # f BY <2>5, <2>7 DEF last, f
      <3> QED BY <2>1, <2>6, <2>7, <3>1 DEF Listed
    <2>8. CASE ~last BY <2>1, <2>6, <2>8
    <2> QED BY <2>7, <2>8
  <1>4. ASSUME NEW fd \in Fd, NEW a \in Op, NEW d \in Direction, Submit(a, fd, d)
        PROVE  Goal
    <2>0. /\ stage[a] = "unused"
          /\ \A p \in Op : p # a => req'[p] = req[p] /\ stage'[p] = stage[p]
          /\ \/ /\ stage'[a] = "pending"
                /\ interest' = interest \union {[fd |-> fd, file |-> files[fd],
                                                 op |-> a, armed |-> TRUE]}
             \/ stage'[a] = "refused" /\ interest' = interest
          /\ UNCHANGED <<files, events>>
      BY <1>4, SubmitStep
    <2>1. SUFFICES ASSUME NEW o \in Pending', Open(req[o].file)' PROVE Told(o)'
      OBVIOUS
    <2>2. CASE o = a
      <3>1. stage'[a] = "pending" BY <2>1, <2>2 DEF Pending
      <3>2. [fd |-> fd, file |-> files[fd], op |-> a, armed |-> TRUE] \in interest'
        BY <2>0, <3>1
      <3> QED BY <2>2, <3>2
    <2>3. CASE o # a
      <3>1. o \in Pending /\ req'[o] = req[o] BY <2>0, <2>1, <2>3 DEF Pending
      <3>2. Told(o) BY <1>0, <2>0, <2>1, <3>1 DEF Open
      <3> QED BY <2>0, <3>2
    <2> QED BY <2>2, <2>3
  <1>5. ASSUME NEW f \in File, NEW d \in Direction, BecomeReady(f, d) \/ TakenElsewhere(f, d)
        PROVE  Goal
    BY <1>0, <1>5 DEF BecomeReady, TakenElsewhere, Pending, Open
  <1>6. CASE Fetch
    <2>1. PICK fired \in SUBSET interest :
            /\ ToSet(events') = {e.op : e \in fired}
            /\ interest' = (interest \ fired) \union {Disarm(e) : e \in fired}
      BY <1>6, FetchStep
    <2>2. Pending' = Pending /\ UNCHANGED <<files, req>> BY <1>6 DEF Fetch, Pending
    <2>3. ToSet(events) = {} BY <1>6 DEF Fetch, Listed, ToSet
    <2>4. SUFFICES ASSUME NEW o \in Pending, Open(req[o].file)' PROVE Told(o)'
      BY <2>2
    <2>5. PICK e \in interest : e.op = o /\ e.armed
      BY <1>0, <2>2, <2>3, <2>4 DEF Open
    <2>6. CASE e \in fired BY <2>1, <2>5, <2>6
    <2>7. CASE e \notin fired
      <3>1. e \in interest' BY <2>1, <2>7
      <3> QED BY <2>5, <3>1
    <2> QED BY <2>6, <2>7
  <1>7. CASE Execute
    <2>1. events # <<>> /\ events \in Seq(Op) BY <1>7 DEF Execute, Listed, TypeOK
    <2>2. \A x \in ToSet(events) : x = Head(events) \/ x \in ToSet(events')
      BY <1>7, <2>1, HeadAndTail DEF Execute, Remaining
    <2>3. Pending' = Pending \ {Head(events)}
      BY <1>7 DEF Execute, Pending, TypeOK
    <2>4. UNCHANGED <<files, req, interest>> BY <1>7 DEF Execute
    <2> QED BY <1>0, <2>2, <2>3, <2>4 DEF Open
  <1>8. CASE DropBackend BY <1>8 DEF DropBackend, Pending
  <1>9. CASE WaitForCompletion \/ Interrupted \/ UNCHANGED vars
    BY <1>0, <1>9 DEF WaitForCompletion, Interrupted, vars, Pending, Open
  <1>10. CASE Block BY <1>0, <1>10 DEF Block, Pending, Open
  <1> HIDE DEF Goal
  <1> QED BY <1>1, <1>2, <1>3, <1>4, <1>5, <1>6, <1>7, <1>8, <1>9, <1>10 DEF Next

(* The descriptor of a pending operation still stands for its file, which  *)
(* no other pending operation has.                                         *)
LEMMA OwnFile ==
  ASSUME TypeOK, Listed, Orderly, NEW o \in Pending
  PROVE  /\ files[req[o].fd] = req[o].file /\ req[o].file \in File /\ req[o].fd \in Fd
         /\ \A p \in Pending : req[p].file = req[o].file => p = o
  <1>1. \A p \in Pending : \E e \in interest : e.op = p BY DEF Orderly
  <1>2. \A e \in interest : /\ files[e.fd] = e.file /\ e.fd \in Fd /\ e.file \in File
                           /\ e.file = req[e.op].file /\ e.fd = req[e.op].fd
    BY DEF Orderly, Listed, TypeOK, Entry
  <1>3. PICK e \in interest : e.op = o BY <1>1
  <1>4. ASSUME NEW p \in Pending, req[p].file = req[o].file PROVE p = o
    <2>1. PICK d \in interest : d.op = p BY <1>1
    <2>2. d.file = e.file /\ d.fd = e.fd BY <1>2, <1>3, <1>4, <2>1, FileAssumption DEF Orderly
    <2>3. d = e BY <2>2 DEF Listed
    <2> QED BY <1>3, <2>1, <2>3
  <1> QED BY <1>2, <1>3, <1>4

(* What holds while nobody closes or duplicates a descriptor in use.       *)
LEMMA OrderlyStep == EpollInv /\ [Next]_vars => (~careless' => Orderly')
  <1> SUFFICES ASSUME TypeOK, Listed, ~careless => Orderly, [Next]_vars, ~careless'
               PROVE  Orderly'
    BY DEF EpollInv
  <1>0. Orderly
    BY DEF Next, vars, others, OpenFile, Dup, Close, Submit, BecomeReady, TakenElsewhere,
           Fetch, Block, Execute, DropBackend, WaitForCompletion, Interrupted, TypeOK
  <1>00. \A e \in interest : e.op \in Op /\ e.fd \in Fd /\ e.file \in File /\ e.file # NoFile
    BY FileAssumption DEF TypeOK, Entry
  <1>1. ASSUME NEW fd \in Fd, NEW f \in File, OpenFile(fd, f) PROVE Orderly'
    <2>1. /\ files' = [files EXCEPT ![fd] = f] /\ files[fd] = NoFile /\ f \notin opened
          /\ Pending' = Pending
          /\ UNCHANGED <<phase, ready, interest, req, events, outrun>>
      BY <1>1 DEF others, OpenFile, Pending
    <2>2. \A g \in Fd : files[g] # f
      <3>1. f \in File /\ f # NoFile BY <1>1, FileAssumption
      <3>2. \A g \in Fd : files[g] \in opened \union {NoFile} BY DEF Listed
      <3> QED BY <2>1, <3>1, <3>2
    <2>3. \A g \in Fd : files'[g] = IF g = fd THEN f ELSE files[g] BY <2>1 DEF TypeOK
    <2>4. \A e \in interest : e.fd # fd BY <1>0, <1>00, <2>1 DEF Orderly
    <2>5. \A g, h \in Fd : files'[g] = files'[h] /\ files'[g] # NoFile => g = h
      BY <1>0, <2>2, <2>3 DEF Orderly
    <2>6. \A e \in interest' : files'[e.fd] = e.file
      BY <1>0, <1>00, <2>1, <2>3, <2>4 DEF Orderly
    <2>7. phase = "blocked" => files'[req[Head(events)].fd] \in Blocking
      BY <1>0, <2>1, <2>3, FileAssumption DEF Orderly, Listed
    <2>8. \A o \in Pending : Expected(o)' <=> Expected(o) BY <2>1 DEF Expected
    <2> QED BY <1>0, <2>1, <2>5, <2>6, <2>7, <2>8 DEF Orderly
  <1>2. ASSUME NEW fd \in Fd, NEW new \in Fd, Dup(fd, new) PROVE Orderly'
    BY <1>2 DEF Dup
  <1>3. ASSUME NEW fd \in Fd, Close(fd) PROVE Orderly'
    <2> DEFINE f == files[fd]
    <2>1. \A other \in Fd \ {fd} : files[other] # f BY <1>0, <1>3 DEF Close, Orderly
    <2>2. /\ f # NoFile /\ files' = [files EXCEPT ![fd] = NoFile]
          /\ interest' = {e \in interest : e.file # f}
          /\ ready' = [ready EXCEPT ![f] = {}]
          /\ \A o \in Pending : req[o].fd # fd
          /\ Pending' = Pending /\ UNCHANGED <<phase, req, events, outrun>>
      BY <1>3, <2>1 DEF Close, Pending
    <2>3. \A g \in Fd : files'[g] = IF g = fd THEN NoFile ELSE files[g] BY <2>2 DEF TypeOK
    <2>4. ASSUME NEW o \in Pending
          PROVE  req[o].file # f /\ \E e \in interest' : e.op = o
      <3>1. PICK e \in interest : e.op = o BY <1>0 DEF Orderly
      <3>2. e.file = req[o].file /\ e.fd = req[o].fd /\ files[e.fd] = e.file
        BY <1>0, <3>1 DEF Listed, Orderly
      <3>3. e.fd # fd /\ e.fd \in Fd BY <1>00, <2>2, <3>2
      <3>4. e.file # f BY <2>1, <3>2, <3>3
      <3> QED BY <2>2, <3>1, <3>2, <3>4
    <2>5. \A g, h \in Fd : files'[g] = files'[h] /\ files'[g] # NoFile => g = h
      BY <1>0, <2>3 DEF Orderly
    <2>6. \A e \in interest' : files'[e.fd] = e.file
      BY <1>0, <1>00, <2>2, <2>3 DEF Orderly
    <2>7. \A o \in Pending : Expected(o) => Expected(o)'
      BY <1>0, <2>2, <2>4, OwnFile DEF Expected, TypeOK
    <2>8. Pending' = Pending /\ UNCHANGED <<phase, req, events, outrun>> BY <2>2
    <2>9. phase = "blocked" => files'[req[Head(events)].fd] \in Blocking
      BY <1>0, <2>2, <2>3 DEF Orderly, Listed
    <2> HIDE DEF f
    <2> QED BY <1>0, <2>4, <2>5, <2>6, <2>7, <2>8, <2>9 DEF Orderly
  <1>4. ASSUME NEW fd \in Fd, NEW a \in Op, NEW d \in Direction, Submit(a, fd, d)
        PROVE  Orderly'
    <2> DEFINE x == [fd |-> fd, file |-> files[fd], op |-> a, armed |-> TRUE]
    <2>0. /\ stage[a] = "unused"
          /\ \A p \in Op : p # a => req'[p] = req[p] /\ stage'[p] = stage[p]
          /\ \/ stage'[a] = "pending" /\ interest' = interest \union {x}
             \/ stage'[a] = "refused" /\ interest' = interest
          /\ UNCHANGED <<phase, files, events>>
      BY <1>4, SubmitStep
    <2>1. x.fd = fd /\ x.file = files[fd] /\ x.op = a OBVIOUS
    <2> HIDE DEF x
    <2>2. \A e \in interest' : files'[e.fd] = e.file BY <1>0, <2>0, <2>1 DEF Orderly
    <2>3. \A o \in Pending' : \E e \in interest' : e.op = o
      <3>1. \A o \in Pending' : o \in Pending \/ (o = a /\ stage'[a] = "pending")
        BY <2>0 DEF Pending
      <3>2. interest \subseteq interest' /\ (stage'[a] = "pending" => x \in interest')
        BY <2>0
      <3> QED BY <1>0, <2>1, <3>1, <3>2 DEF Orderly
    <2>4. ToSet(events') = {} /\ phase' # "blocked"
      <3>1. phase = "idle" BY <1>4 DEF Submit
      <3> QED BY <2>0, <3>1 DEF Listed, ToSet
    <2> QED BY <1>0, <2>0, <2>2, <2>3, <2>4 DEF Orderly
  <1>5. ASSUME NEW f \in File, NEW d \in Direction, BecomeReady(f, d) \/ TakenElsewhere(f, d)
        PROVE  Orderly'
    <2>1. Pending' = Pending /\ UNCHANGED <<phase, files, interest, req, events>>
      BY <1>5 DEF BecomeReady, TakenElsewhere, Pending
    <2>2. ASSUME NEW o \in Pending, o \in ToSet(events), Expected(o) PROVE Expected(o)'
      <3>1. CASE req[o].file = f /\ req[o].dir = d
        <4>1. o \in Waiting(f, d) BY <2>2, <3>1 DEF Waiting
        <4> QED BY <1>5, <2>1, <3>1, <4>1 DEF BecomeReady, TakenElsewhere, Expected, TypeOK
      <3>2. CASE ~(req[o].file = f /\ req[o].dir = d)
        <4>1. o \notin Waiting(f, d) BY <3>2 DEF Waiting
        <4>2. req[o].file \in File BY <1>0, OwnFile
        <4>3. req[o].dir \in ready[req[o].file] => req[o].dir \in ready'[req[o].file]
          BY <1>5, <3>2, <4>2 DEF BecomeReady, TakenElsewhere, TypeOK
        <4>4. o \in outrun => o \in outrun'
          BY <1>5, <4>1 DEF BecomeReady, TakenElsewhere
        <4> QED BY <2>1, <2>2, <4>3, <4>4 DEF Expected
      <3> QED BY <3>1, <3>2
    <2> QED BY <1>0, <2>1, <2>2 DEF Orderly
  <1>6. CASE Fetch
    <2>1. PICK fired \in SUBSET interest :
            /\ \A e \in fired : Fires(e)
            /\ ToSet(events') = {e.op : e \in fired}
            /\ \A e \in interest' : \E d \in interest :
                 e.fd = d.fd /\ e.file = d.file /\ e.op = d.op
            /\ \A d \in interest : \E e \in interest' : e.op = d.op
      BY <1>6, FetchStep
    <2>2. Pending' = Pending /\ UNCHANGED <<files, ready, req>> /\ phase' = "executing"
      BY <1>6 DEF Fetch, Pending
    <2>3. \A o \in Pending : o \in ToSet(events') => Expected(o)'
      <3> SUFFICES ASSUME NEW e \in fired PROVE req[e.op].dir \in ready[req[e.op].file]
        BY <2>1, <2>2 DEF Expected
      <3>1. req[e.op].dir \in ready[e.file] BY <2>1 DEF Fires, Events
      <3> QED BY <3>1 DEF Listed
    <2>4. \A e \in interest' : files[e.fd] = e.file BY <1>0, <2>1 DEF Orderly
    <2>5. \A o \in Pending : \E e \in interest' : e.op = o BY <1>0, <2>1 DEF Orderly
    <2> QED BY <1>0, <2>2, <2>3, <2>4, <2>5 DEF Orderly
  <1>7. CASE Execute
    <2> DEFINE h == Head(events)
    <2>1. events # <<>> /\ events \in Seq(Op) BY <1>7 DEF Execute, Listed, TypeOK
    <2>2. h \in Op /\ h \in ToSet(events) /\ ToSet(events') \subseteq ToSet(events)
      BY <1>7, <2>1, HeadAndTail DEF Execute, Remaining
    <2>3. /\ Pending' = Pending \ {h} /\ UNCHANGED <<files, interest, req>>
          /\ outrun' = outrun \ {h} /\ phase' # "blocked"
      BY <1>7 DEF Execute, Pending, TypeOK
    <2>4. ASSUME NEW o \in Pending', o \in ToSet(events') PROVE Expected(o)'
      <3>1. o \in Pending /\ o # h /\ o \in ToSet(events) BY <2>2, <2>3, <2>4
      <3>2. req[o].dir \in ready[req[o].file] \/ o \in outrun
        BY <1>0, <3>1 DEF Orderly, Expected
      <3>3. ready'[req[o].file] = ready[req[o].file]
        <4>1. CASE h \notin Pending BY <1>7, <4>1 DEF Execute
        <4>2. CASE h \in Pending
          <5>1. req[o].file # files[req[h].fd] BY <1>0, <3>1, <4>2, OwnFile
          <5>2. Consume(h) BY <1>7, <4>2 DEF Execute
          <5> QED BY <1>0, <3>1, <5>1, <5>2, OwnFile DEF Consume, TypeOK
        <4> QED BY <4>1, <4>2
      <3> QED BY <2>3, <3>1, <3>2, <3>3 DEF Expected
    <2> QED BY <1>0, <2>3, <2>4 DEF Orderly
  <1>8. CASE DropBackend
    <2>1. interest' = {} /\ Pending' = {} /\ UNCHANGED files /\ phase' # "blocked"
      BY <1>8 DEF DropBackend, CloseEpollFd, Pending
    <2> QED BY <1>0, <2>1 DEF Orderly
  <1>9. CASE WaitForCompletion \/ Interrupted \/ UNCHANGED vars
    <2>1. /\ Pending' = Pending /\ UNCHANGED <<files, ready, interest, req, events, outrun>>
          /\ phase' = phase \/ (phase # "blocked" /\ phase' # "blocked")
      BY <1>9 DEF WaitForCompletion, Interrupted, vars, others, Pending
    <2>2. \A o \in Pending : Expected(o)' <=> Expected(o) BY <2>1 DEF Expected
    <2> QED BY <1>0, <2>1, <2>2 DEF Orderly
  <1>10. CASE Block
    <2> DEFINE h == Head(events)
    <2>1. /\ Pending' = Pending /\ UNCHANGED <<files, interest, req, events, outrun>>
          /\ phase = "executing" /\ phase' = "blocked"
          /\ h \in Pending /\ files[req[h].fd] \in Blocking
          /\ ready' = ready \/ ready' = [ready EXCEPT ![files[req[h].fd]] = @ \ {"out"}]
      BY <1>10 DEF Block, Blocks, TooLong, others, Pending
    <2>2. ASSUME NEW o \in Pending, Expected(o) PROVE Expected(o)'
      <3>1. CASE o = h BY <2>1, <3>1 DEF Expected
      <3>2. CASE o # h
        <4>1. req[o].file # files[req[h].fd] BY <1>0, <2>1, <3>2, OwnFile
        <4>2. ready'[req[o].file] = ready[req[o].file]
          BY <1>0, <2>1, <4>1, OwnFile DEF TypeOK
        <4> QED BY <2>1, <2>2, <3>2, <4>2 DEF Expected
      <3> QED BY <3>1, <3>2
    <2> QED BY <1>0, <2>1, <2>2 DEF Orderly
  <1> QED BY <1>1, <1>2, <1>3, <1>4, <1>5, <1>6, <1>7, <1>8, <1>9, <1>10 DEF Next

(* Each step keeps the invariant.                                          *)
LEMMA StepHolds == EpollInv /\ [Next]_vars => EpollInv'
  BY TypeStep, ListedStep, EventStep, OrderlyStep DEF EpollInv

LEMMA Inductive == Spec => []EpollInv
  BY InitHolds, StepHolds, PTL DEF Spec

---------------------------------------------------------------------------
(* The variables have the types their comments say.                        *)
THEOREM TypeCorrect == Spec => []TypeOK
  BY Inductive, PTL DEF EpollInv

(* A pending operation on a file that is still open has an armed entry or  *)
(* a fetched event: the backend that refuses a second registration loses   *)
(* no first one (backend/epoll.rs 164-171).                               *)
THEOREM PendingIsTold == Spec => []EventComes
  BY Inductive, PTL DEF EpollInv

(* Only a step of the poll ends an operation, and blocks in one.           *)
LEMMA ExecutedByPoll ==
  ASSUME TypeOK, Listed, [Next]_vars, NEW o \in Pending, stage'[o] = "done"
  PROVE  Execute /\ o = Head(events)
  <1>1. stage[o] = "pending" /\ o \in Op BY DEF Pending
  <1>2. stage' # stage BY <1>1
  <1>3. ASSUME NEW fd \in Fd, NEW a \in Op, NEW d \in Direction, Submit(a, fd, d) PROVE FALSE
    BY <1>1, <1>3, SubmitStep
  <1>4. ASSUME DropBackend PROVE FALSE BY <1>1, <1>4 DEF DropBackend, Pending, TypeOK
  <1>5. Execute
    BY <1>2, <1>3, <1>4 DEF Next, vars, others, OpenFile, Dup, Close, BecomeReady,
       TakenElsewhere, Fetch, Block, WaitForCompletion, Interrupted
  <1> QED BY <1>1, <1>5 DEF Execute, TypeOK

LEMMA BlockedByPoll ==
  ASSUME [Next]_vars, phase # "blocked", phase' = "blocked"
  PROVE  Block
  BY DEF Next, vars, others, OpenFile, Dup, Close, BecomeReady, TakenElsewhere, Submit,
         Fetch, Execute, DropBackend, WaitForCompletion, Interrupted

(* An event is executed on the file it was registered for, and only when   *)
(* another user of the file took what was there does the system call find  *)
(* nothing, unless somebody closed or duplicated the descriptor meanwhile  *)
(* (backend/epoll.rs 302-311, 354-362).                                    *)
THEOREM EventsAreExecuted == Spec => ExecutesWhenReady
  <1>1. ASSUME EpollInv, [Next]_vars, ~careless, NEW o \in Pending, stage'[o] = "done"
        PROVE  Execution(o) = "ok" \/ (Execution(o) = "would block" /\ o \in outrun)
    <2>1. TypeOK /\ Listed /\ Orderly BY <1>1 DEF EpollInv
    <2>2. Execute /\ o = Head(events) BY <1>1, <2>1, ExecutedByPoll
    <2>3. files[req[o].fd] = req[o].file /\ req[o].file # NoFile
      BY <1>1, <2>1, OwnFile, FileAssumption
    <2>4. o \in ToSet(events)
      BY <2>1, <2>2, HeadAndTail DEF Execute, Listed, TypeOK
    <2>5. Expected(o) BY <1>1, <2>1, <2>4 DEF Orderly
    <2>6. CASE phase = "blocked"
      <3>1. Execution(o) # "would block"
        BY <1>1, <2>1, <2>2, <2>6 DEF Execute, Blocks, Orderly
      <3> QED BY <2>3, <3>1 DEF Execution
    <2>7. CASE phase # "blocked" BY <2>3, <2>5, <2>7 DEF Expected, Execution
    <2> QED BY <2>6, <2>7
  <1>2. ASSUME EpollInv, [Next]_vars, ~careless, phase # "blocked", phase' = "blocked"
        PROVE  Head(events) \in outrun \/ req[Head(events)].dir = "out"
    <2>1. TypeOK /\ Listed /\ Orderly BY <1>2 DEF EpollInv
    <2>2. Block BY <1>2, BlockedByPoll
    <2>3. CASE Blocks(Head(events))
      <3>1. Head(events) \in ToSet(events)
        BY <2>1, <2>2, HeadAndTail DEF Block, Listed, TypeOK
      <3>2. Head(events) \in Pending /\ Expected(Head(events))
        BY <2>1, <2>3, <3>1 DEF Blocks, Orderly
      <3>3. files[req[Head(events)].fd] = req[Head(events)].file BY <2>1, <3>2, OwnFile
      <3>4. req[Head(events)].dir \notin ready[req[Head(events)].file]
        BY <2>3, <3>3 DEF Blocks, Execution
      <3> QED BY <1>2, <3>2, <3>4 DEF Expected
    <2>4. CASE ~Blocks(Head(events)) BY <2>2, <2>4 DEF Block, TooLong
    <2> QED BY <2>3, <2>4
  <1>3. EpollInv /\ [Next]_vars =>
          [~careless =>
             /\ \A o \in Pending : stage'[o] = "done" =>
                  Execution(o) = "ok" \/ (Execution(o) = "would block" /\ o \in outrun)
             /\ phase # "blocked" /\ phase' = "blocked" =>
                  Head(events) \in outrun \/ req[Head(events)].dir = "out"]_vars
    BY <1>1, <1>2
  <1> QED BY <1>3, Inductive, PTL DEF Spec, ExecutesWhenReady

---------------------------------------------------------------------------
(* The start: which backend and which ring there will be, on any machines. *)

(* A newer version is at least what the older one was.                     *)
LEMMA AtLeastGrows ==
  ASSUME NEW v \in Nat \X Nat, NEW w \in Nat \X Nat, NEW x \in Nat \X Nat,
         Start!NotNewer(v, w), Start!AtLeast(v, x)
  PROVE  Start!AtLeast(w, x)
  BY DEF Start!NotNewer, Start!AtLeast

(* The tables of first versions hold versions.                             *)
LEMMA SinceVersions ==
  /\ \A f \in Start!Legacy : Start!LegacySince[f] \in Nat \X Nat
  /\ \A f \in DOMAIN Start!NewerSince : Start!NewerSince[f] \in Nat \X Nat
  BY DEF Start!Legacy, Start!LegacySince, Start!NewerSince

(* Detection by version is monotone.                                       *)
LEMMA FeaturesGrow ==
  ASSUME NEW v \in Nat \X Nat, NEW w \in Nat \X Nat, Start!NotNewer(v, w)
  PROVE  Start!ProbeFeatures(v) \subseteq Start!ProbeFeatures(w)
  BY SinceVersions, AtLeastGrows DEF Start!ProbeFeatures

(* What probing adds to what the version promises.                         *)
LEMMA ProbedAreOld ==
  ASSUME NEW opcodes, NEW f \in Start!ProbeKernelFeatures(opcodes) \intersect Start!Legacy
  PROVE  f \notin {"coop_taskrun", "defer_taskrun"}
  BY DEF Start!ProbeKernelFeatures, Start!Proxy

(* What create_optimal_config builds gives no warning.                     *)
LEMMA OptimalQuiet ==
  ASSUME NEW fs
  PROVE  Start!Warnings(Start!CreateOptimalConfig(fs)) = {}
  <1> DEFINE c == Start!CreateOptimalConfig(fs)
  <1>1. c.on = fs \ (Start!NoField \union Start!OffByDefault)
    BY DEF Start!CreateOptimalConfig, Start!Advanced
  <1>2. c.on \intersect Start!OffByDefault = {} BY <1>1
  <1>4. {"sq_poll", "defer_async_work", "user_allocated_ring_memory"} \intersect c.on = {}
    BY <1>2 DEF Start!OffByDefault
  <1> QED BY <1>2, <1>4 DEF Start!Warnings

(* At every moment the features, once detected, are those of the version,  *)
(* with some of the older ones that the probe found.                       *)
Found ==
  features # None =>
    \/ features = Start!ProbeFeatures(machine.version)
    \/ /\ detected = "probing"
       /\ \E opcodes : features = Start!MergeFeatureDetection(
            Start!ProbeFeatures(machine.version), Start!ProbeKernelFeatures(opcodes))

(* A ring built from a configuration is one the kernel accepted the flags  *)
(* of.                                                                     *)
Accepted ==
  \/ ring \in {None, Start!Refused, Start!Invalid}
  \/ \E backend : ring = Start!Built(backend, None)
  \/ \E backend, c : /\ ring = Start!Built(backend, c)
                     /\ Start!KernelAccepts(Start!BuilderFlags(c))

StartInv == machine \in Machine /\ Found /\ Accepted

LEMMA StartInits == Start!Init => StartInv
  BY DEF Start!Init, StartInv, Found, Accepted

LEMMA FoundStep == StartInv /\ [Start!Next]_Start!vars => machine' = machine /\ Found'
  <1> SUFFICES ASSUME StartInv, [Start!Next]_Start!vars
               PROVE  machine' = machine /\ Found'
    OBVIOUS
  <1> USE DEF StartInv
  <1>1. CASE Start!Detect BY <1>1 DEF Start!Detect, Found
  <1>2. CASE Start!DetectByProbing BY <1>2 DEF Start!DetectByProbing, Found
  <1>3. CASE UNCHANGED <<machine, features, detected>> BY <1>3 DEF Found
  <1> QED
    BY <1>1, <1>2, <1>3
    DEF Start!Next, Start!vars, Start!ChooseAdvanced, Start!SetAdvanced, Start!ChooseConfig,
        Start!ReplaceSection, Start!WithConfig, Start!WithAdvancedConfig, Start!New,
        Start!RuntimeAutoDetect, Start!RuntimeWithBackend

LEMMA AcceptedStep == StartInv /\ [Start!Next]_Start!vars => Accepted'
  <1> SUFFICES ASSUME StartInv, [Start!Next]_Start!vars
               PROVE  Accepted'
    OBVIOUS
  <1> USE DEF StartInv
  <1>0. machine' = machine BY FoundStep
  <1>1. ASSUME NEW c, Start!WithConfig(c) PROVE Accepted'
    BY <1>0, <1>1 DEF Start!WithConfig, Accepted, Start!KernelAccepts
  <1>2. CASE Start!WithAdvancedConfig BY <1>1, <1>2 DEF Start!WithAdvancedConfig
  <1>3. ASSUME NEW entries, Start!New(entries) PROVE Accepted'
    BY <1>3 DEF Start!New, Start!DetectBackend, Accepted
  <1>4. CASE UNCHANGED ring BY <1>0, <1>4 DEF Accepted, Start!KernelAccepts
  <1> QED
    BY <1>1, <1>2, <1>3, <1>4
    DEF Start!Next, Start!vars, Start!Detect, Start!DetectByProbing,
        Start!ChooseAdvanced, Start!SetAdvanced, Start!ChooseConfig,
        Start!ReplaceSection, Start!RuntimeAutoDetect, Start!RuntimeWithBackend

LEMMA StartInductive == BackendsSpec => []StartInv
  <1>1. BackendsInit => StartInv BY StartInits DEF BackendsInit
  <1>2. ASSUME StartInv, [BackendsNext]_allVars PROVE StartInv'
    <2>1. [Start!Next]_Start!vars
      BY <1>2 DEF BackendsNext, allVars, startVars, Start!vars
    <2> QED BY <1>2, <2>1, FoundStep, AcceptedStep DEF StartInv
  <1> QED BY <1>1, <1>2, PTL DEF BackendsSpec

(* On a newer kernel nothing is missing that an older one has, and the     *)
(* probe adds only features older than the taskrun flags: the detectors of *)
(* advanced/feature_detection.rs, for every version and every probe.       *)
THEOREM NewerKernelsHaveMore == BackendsSpec => []DetectionGrows
  <1>1. ASSUME StartInv PROVE DetectionGrows
    <2> SUFFICES ASSUME features # None
                 PROVE  /\ \A older \in Machine :
                             Start!NotNewer(older.version, machine.version) =>
                               Start!ProbeFeatures(older.version) \subseteq features
                        /\ \A f \in features \ Start!ProbeFeatures(machine.version) :
                             /\ detected = "probing"
                             /\ f \in Start!Legacy \ {"coop_taskrun", "defer_taskrun"}
      BY DEF DetectionGrows, Start!DetectionGrows
    <2>1. machine.version \in Nat \X Nat /\ \A m \in Machine : m.version \in Nat \X Nat
      BY <1>1, MachineAssumption DEF StartInv
    <2>2. Start!ProbeFeatures(machine.version) \subseteq features
      BY <1>1 DEF StartInv, Found, Start!MergeFeatureDetection
    <2>3. ASSUME NEW f \in features \ Start!ProbeFeatures(machine.version)
          PROVE  /\ detected = "probing"
                 /\ f \in Start!Legacy \ {"coop_taskrun", "defer_taskrun"}
      BY <1>1, <2>3, ProbedAreOld DEF StartInv, Found, Start!MergeFeatureDetection
    <2> QED BY <2>1, <2>2, <2>3, FeaturesGrow
  <1> QED BY <1>1, StartInductive, PTL

(* The optimal configuration asks for detected features only, and          *)
(* auto_detect builds a configuration that validates, without a warning,   *)
(* for every number of processors.                                         *)
THEOREM OptimalIsSupported == BackendsSpec => []OptimalFits
  <1>1. ASSUME StartInv PROVE OptimalFits
    <2>1. Start!Warnings(Start!AutoDetect.advanced) = {}
      BY OptimalQuiet DEF Start!AutoDetect, Start!DefaultConfig
    <2>2. machine.cpus \in Nat \ {0} BY <1>1, MachineAssumption DEF StartInv
    <2>3. Start!Validate(Start!AutoDetect)
      BY <2>2 DEF Start!AutoDetect, Start!DefaultConfig, Start!Validate, Start!PoolFor
    <2>4. Start!EnabledFeatures(Start!CreateOptimalConfig(features))
            \subseteq Start!AvailableFeatures(features)
      BY DEF Start!EnabledFeatures, Start!AvailableFeatures, Start!HasFeature,
             Start!CreateOptimalConfig, Start!Advanced
    <2> QED BY <2>1, <2>3, <2>4, OptimalQuiet DEF OptimalFits, Start!OptimalFits
  <1> QED BY <1>1, StartInductive, PTL

(* with_config and with_advanced_config give no ring with a taskrun flag,  *)
(* on any kernel and after any calls of the setters.                       *)
THEOREM NoTaskrunRing == BackendsSpec => []TaskrunIsRefused
  <1>1. ASSUME StartInv PROVE TaskrunIsRefused
    <2> SUFFICES ASSUME ring # None, "from" \in DOMAIN ring, ring.from # None
                 PROVE  ring.from.advanced.on \intersect {"coop_taskrun", "defer_taskrun"} = {}
      BY DEF TaskrunIsRefused, Start!TaskrunIsRefused
    <2>1. ring \notin {Start!Refused, Start!Invalid} BY DEF Start!Refused, Start!Invalid
    <2>2. PICK backend, c : ring = Start!Built(backend, c)
                            /\ Start!KernelAccepts(Start!BuilderFlags(c))
      BY <1>1, <2>1 DEF StartInv, Accepted, Start!Built
    <2>3. ring.from = c BY <2>2 DEF Start!Built
    <2>4. "SQPOLL" \in Start!BuilderFlags(c) BY DEF Start!BuilderFlags
    <2>5. "COOP_TASKRUN" \notin Start!BuilderFlags(c)
          /\ "DEFER_TASKRUN" \notin Start!BuilderFlags(c)
      BY <2>2, <2>4 DEF Start!KernelAccepts
    <2> QED BY <2>3, <2>5 DEF Start!BuilderFlags
  <1> QED BY <1>1, StartInductive, PTL
==============================================================================
