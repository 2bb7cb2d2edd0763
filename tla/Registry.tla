------------------------------ MODULE Registry ------------------------------
(***************************************************************************)
(* Registry: descriptors, or buffers, that are registered once and named   *)
(* by handles afterwards. It keeps each of the two twice: registered one   *)
(* at a time in slots that are reused, and registered together in a table  *)
(* that is replaced as a whole. The code for descriptors and for buffers   *)
(* is the same but for two points, so kind says which is modelled:         *)
(*   - a descriptor is a number and can be registered twice; a buffer is   *)
(*     moved into the registry;                                            *)
(*   - a handle is checked against the descriptor itself, but only against *)
(*     the size of a buffer.                                               *)
(* Nothing ties a handle to its Registry: it outlives it, and one of       *)
(* another Registry is accepted when its index and key fit. Handles carry  *)
(* the resource they were issued for as history (of), those of another     *)
(* Registry Elsewhere.                                                     *)
(*                                                                         *)
(* The marks of use are an interface inside the crate that only the tests  *)
(* call today: operations do not mark what they use (see Operations).      *)
(***************************************************************************)
EXTENDS Naturals, Sequences, FiniteSets, SequencesExt

CONSTANTS
  Resource,   \* descriptors or buffers
  SizeOf(_),  \* length of a buffer
  MaxSlots,   \* bound: slots registered one at a time
  MaxTable,   \* bound: length of a table registered as a whole
  MaxTables,  \* bound: times the whole table is registered
  Use,        \* uses, from mark_*_in_use to mark_*_not_in_use
  MaxBusy,    \* bound: uses in progress, and handles of another Registry
  Free,       \* a slot that is None
  Elsewhere   \* a resource of another Registry

ASSUME FreeAssumption == Free \notin Resource
ASSUME ElsewhereAssumption == Elsewhere \notin Resource \union {Free}

VARIABLES
  kind,    \* "descriptors" or "buffers"
  status,  \* "open", "dropped", or "panicked" while it was dropped
  slots,   \* registered_fds, or registered_buffers
  table,   \* fixed_files, or registered_buffer_slots
  tables,  \* how often the table was registered (for the bound)
  marks,   \* *_in_use: the indices marked in slots and in table
  handles, \* RegisteredFd, RegisteredBuffer that the user has
  files,   \* FixedFile, RegisteredBufferSlot ever issued
  uses,    \* history: uses in progress, and whether they can rely on their mark
  crossed  \* history: slots a handle of another Registry has unregistered

registryVars == <<kind, status, slots, table, tables, marks, handles, files, uses,
                  crossed>>

---------------------------------------------------------------------------
Key(r) == IF kind = "buffers" THEN SizeOf(r) ELSE r

Handle(index, r) == [index |-> index, key |-> Key(r), of |-> r]
Stranger(index, r) == [index |-> index, key |-> Key(r), of |-> Elsewhere]

Where == {"slots", "table"}
In(where) == IF where = "slots" THEN slots ELSE table

(* A buffer has one owner: the user, or one place of the registry.         *)
Available(r) == kind = "buffers" => r \notin ToSet(slots) \union ToSet(table)

(* is_*_registered, get_raw_fd, get_buffer and the checks of unregister_*: *)
(* the slot exists, is taken, and has the key of the handle.               *)
Names(h) == /\ h.index \in DOMAIN slots
            /\ slots[h.index] # Free
            /\ Key(slots[h.index]) = h.key

Init ==
  /\ kind \in {"descriptors", "buffers"}
  /\ status = "open"
  /\ slots = <<>> /\ table = <<>> /\ tables = 0
  /\ marks = [w \in Where |-> {}]
  /\ handles = {} /\ files = {}
  /\ uses = {} /\ crossed = {}

---------------------------------------------------------------------------
(* register_fd, register_buffer: the first empty slot, or a new one.       *)

EmptySlots == {i \in DOMAIN slots : slots[i] = Free}

EmptyIndex ==
  IF EmptySlots = {} THEN Len(slots) + 1
  ELSE CHOOSE i \in EmptySlots : \A j \in EmptySlots : i <= j

Register(r) ==
  /\ status = "open" /\ Available(r)
  /\ EmptyIndex <= MaxSlots
  /\ slots' = IF EmptyIndex > Len(slots) THEN Append(slots, r)
              ELSE [slots EXCEPT ![EmptyIndex] = r]
  /\ handles' = handles \union {Handle(EmptyIndex, r)}
  /\ UNCHANGED <<kind, status, table, tables, marks, files, uses, crossed>>

Strangers == {h \in handles : h.of = Elsewhere}

(* Another Registry issues a handle. One at a time is with the user.       *)
RegisterElsewhere(index, r) ==
  /\ status = "open"
  /\ Strangers = {}
  /\ handles' = handles \union {Stranger(index, r)}
  /\ UNCHANGED <<kind, status, slots, table, tables, marks, files, uses, crossed>>

(* unregister_fd, unregister_buffer take the handle by value: it is gone   *)
(* whether the call succeeds or not.                                       *)
Unregister(h) ==
  /\ status = "open" /\ h \in handles
  /\ Names(h) /\ h.index \notin marks["slots"]
  /\ slots' = [slots EXCEPT ![h.index] = Free]
  /\ handles' = handles \ {h}
  /\ crossed' = IF h.of = Elsewhere THEN crossed \union {h.index} ELSE crossed
  /\ UNCHANGED <<kind, status, table, tables, marks, files, uses>>

(* NotRegistered, or BufferInFlight.                                       *)
UnregisterFails(h) ==
  /\ status = "open" /\ h \in handles
  /\ ~Names(h) \/ h.index \in marks["slots"]
  /\ handles' = handles \ {h}
  /\ UNCHANGED <<kind, status, slots, table, tables, marks, files, uses, crossed>>

---------------------------------------------------------------------------
(* register_fixed_files, register_buffer_slots replace the table and       *)
(* forget its marks; a use of the old table can then rely on nothing.      *)

Spoil(us, where, index) ==
  {IF u.where = where /\ u.index \in index THEN [u EXCEPT !.sure = FALSE] ELSE u : u \in us}

RegisterTable(rs) ==
  /\ status = "open" /\ tables < MaxTables
  /\ rs # <<>>
  /\ kind = "buffers" => /\ \A i, j \in DOMAIN rs : i # j => rs[i] # rs[j]
                         /\ \A i \in DOMAIN rs : rs[i] \notin ToSet(slots)
                                                 \union ToSet(table)
  /\ table' = rs
  /\ tables' = tables + 1
  /\ marks' = [marks EXCEPT !["table"] = {}]
  /\ files' = files \union {Handle(i, rs[i]) : i \in DOMAIN rs}
  /\ uses' = Spoil(uses, "table", DOMAIN table)
  /\ UNCHANGED <<kind, status, slots, handles, crossed>>

(* Seeded fault: unregistering the table does not look at the marks.       *)
NothingMarkedAnyway == TRUE

NothingMarked == marks["table"] = {}

UnregisterTable ==
  /\ status = "open" /\ table # <<>>
  /\ NothingMarked
  /\ table' = <<>>
  /\ UNCHANGED <<kind, status, slots, tables, marks, handles, files, uses, crossed>>

---------------------------------------------------------------------------
(* mark_*_in_use asks that the slot is taken, not by what; when the use    *)
(* ends the mark is taken away, which is one for all uses of the index.    *)

Markable(where, h) == h.index \in DOMAIN In(where) /\ In(where)[h.index] # Free

Held(where) == IF where = "slots" THEN handles ELSE files

BeginUse(id, where, h) ==
  /\ status = "open"
  /\ \A u \in uses : u.id # id
  /\ h \in Held(where) /\ Markable(where, h)
  /\ marks' = [marks EXCEPT ![where] = @ \union {h.index}]
  /\ uses' = uses \union {[id |-> id, where |-> where, index |-> h.index,
                           what |-> In(where)[h.index], sure |-> TRUE]}
  /\ UNCHANGED <<kind, status, slots, table, tables, handles, files, crossed>>

EndUse(u) ==
  /\ status = "open" /\ u \in uses
  /\ marks' = [marks EXCEPT ![u.where] = @ \ {u.index}]
  /\ uses' = Spoil(uses \ {u}, u.where, {u.index})
  /\ UNCHANGED <<kind, status, slots, table, tables, handles, files, crossed>>

(* Drop for Registry panics while anything is marked. The fields go in     *)
(* either case, the buffers with them; the handles stay where they are.    *)
DropRegistry ==
  /\ status = "open"
  /\ status' = IF \A w \in Where : marks[w] = {} THEN "dropped" ELSE "panicked"
  /\ slots' = <<>> /\ table' = <<>>
  /\ marks' = [w \in Where |-> {}]
  /\ uses' = IF status' = "dropped" THEN {u \in uses : u.sure} ELSE {}
  /\ crossed' = {}
  /\ UNCHANGED <<kind, tables, handles, files>>

---------------------------------------------------------------------------
RegistrySteps ==
  \/ \E r \in Resource : Register(r)
  \/ \E i \in 1 .. MaxSlots, r \in Resource : RegisterElsewhere(i, r)
  \/ \E h \in handles : Unregister(h) \/ UnregisterFails(h)
  \/ \E rs \in BoundedSeq(Resource, MaxTable) : RegisterTable(rs)
  \/ UnregisterTable
  \/ \E id \in Use, w \in Where : \E h \in Held(w) : BeginUse(id, w, h)
  \/ \E u \in uses : EndUse(u)
  \/ DropRegistry

RegistryNext ==
  RegistrySteps /\ Cardinality(uses') + Cardinality(Strangers') <= MaxBusy

---------------------------------------------------------------------------
(* What is marked stays registered (mod.rs 49-51): from the call that      *)
(* marks a resource to the one that ends the use, the index keeps naming   *)
(* the same resource, whatever is registered and unregistered in between,  *)
(* also with handles of another Registry, and the Registry is not dropped  *)
(* without a panic. Three things the code does take that away, and they    *)
(* are the only ones: the mark is one for all uses of an index, so the     *)
(* first that ends lifts it for the others; registering a new table clears *)
(* the marks of the old one; and the panic of the drop frees everything.   *)
UseProtected ==
  \A u \in uses : u.sure =>
    /\ status # "dropped"
    /\ status = "open" =>
         /\ u.index \in marks[u.where]
         /\ u.index \in DOMAIN In(u.where) /\ In(u.where)[u.index] = u.what

(* What a handle can rely on: the Registry stands, and its slot was not    *)
(* given up for a handle of another Registry with the same index and key.  *)
(* (Then a second handle of the slot may be about, and may give up the     *)
(* registration that follows.)                                             *)
Reliable(h) == status = "open" /\ h.of # Elsewhere /\ h.index \notin crossed

(* A reliable handle never names another resource than the one it was      *)
(* issued for, although slots are reused and a buffer is compared by size  *)
(* alone: handles cannot be copied and unregistering consumes them.        *)
HandlesHonest ==
  \A h \in handles : Reliable(h) =>
    h.index \in DOMAIN slots /\ slots[h.index] = h.of
=============================================================================
