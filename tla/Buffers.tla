------------------------------ MODULE Buffers -------------------------------
(***************************************************************************)
(* The two ways the library keeps track of a set of buffers: a BufferPool  *)
(* (buffers behind a mutex) and a BufferGroup (indices of provided         *)
(* buffers). They share nothing, so a behaviour moves one of them.         *)
(***************************************************************************)
EXTENDS BufferPool

CONSTANTS
  Wrap,     \* how many values an index can have (2^16 in the code)
  Counts,   \* the values of buffer_count to look at
  MaxFree   \* bound: returns stop when the free list is this long

ASSUME WrapAssumption == Wrap \in Nat \ {0}
ASSUME CountsAssumption == Counts \subseteq Nat \ {0}
ASSUME MaxFreeAssumption == MaxFree \in Nat

VARIABLES buffer_count, available_buffers, lent, misused,  \* of BufferGroup
          moving                                           \* which one acts

Group == INSTANCE BufferGroup

groupVars == <<buffer_count, available_buffers, lent, misused>>
allVars == <<vars, groupVars, moving>>

BuffersInit == Init /\ Group!Init /\ moving \in {"pool", "group"}

BuffersNext == /\ \/ moving = "pool" /\ Next /\ UNCHANGED groupVars
                  \/ moving = "group" /\ Group!Next /\ UNCHANGED vars
               /\ UNCHANGED moving

BuffersSpec == BuffersInit /\ [][BuffersNext]_allVars /\ Fairness

(* Every index that exists is in one place (BufferGroup).                  *)
IndexHasOneOwner == Group!IndexHasOneOwner
=============================================================================
