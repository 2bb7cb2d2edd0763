----------------------------- MODULE BufferGroup -----------------------------
(***************************************************************************)
(* BufferGroup: the free list of indices of a group of provided buffers.   *)
(* The number of buffers is a u32, an index is a u16, and the conversion   *)
(* truncates. return_buffer takes any u16: the caller may return an index  *)
(* it does not hold. This is the release build, without debug_assert.      *)
(***************************************************************************)
EXTENDS Naturals, Sequences

CONSTANTS
  Wrap,     \* how many values an index can have (2^16 in the code)
  Counts,   \* the values of buffer_count to look at
  MaxFree   \* bound: returns stop when the free list is this long

VARIABLES
  buffer_count,       \* BufferGroup.buffer_count
  available_buffers,  \* BufferGroup.available_buffers
  lent,               \* how often each index is out with a caller
  misused             \* history: an index was returned by one who has it not

vars == <<buffer_count, available_buffers, lent, misused>>

Index == 0 .. (Wrap - 1)

(* `n as u16`                                                              *)
AsIndex(n) == n % Wrap

(* new: one index per buffer, as far as indices go.                        *)
Init ==
  /\ buffer_count \in Counts
  /\ available_buffers = [k \in 1 .. AsIndex(buffer_count) |-> k - 1]
  /\ lent = [i \in Index |-> 0]
  /\ misused = FALSE

GetBuffer ==
  /\ available_buffers # <<>>
  /\ available_buffers' = Tail(available_buffers)
  /\ lent' = [lent EXCEPT ![Head(available_buffers)] = @ + 1]
  /\ UNCHANGED <<buffer_count, misused>>

(* Seeded fault: the last index is refused by an off-by-one.               *)
ReturnOffByOne(i) ==
  /\ Len(available_buffers) < MaxFree
  /\ available_buffers' = IF i + 1 < AsIndex(buffer_count)
                          THEN Append(available_buffers, i) ELSE available_buffers
  /\ lent' = [lent EXCEPT ![i] = IF @ = 0 THEN 0 ELSE @ - 1]
  /\ misused' = (misused \/ lent[i] = 0)
  /\ UNCHANGED buffer_count

(* return_buffer compares the index with the count and with nothing else.  *)
ReturnBuffer(i) ==
  /\ Len(available_buffers) < MaxFree
  /\ available_buffers' = IF i < AsIndex(buffer_count)
                          THEN Append(available_buffers, i) ELSE available_buffers
  /\ lent' = [lent EXCEPT ![i] = IF @ = 0 THEN 0 ELSE @ - 1]
  /\ misused' = (misused \/ lent[i] = 0)
  /\ UNCHANGED buffer_count

Next == GetBuffer \/ \E i \in Index : ReturnBuffer(i)

Spec == Init /\ [][Next]_vars

---------------------------------------------------------------------------
(* Where index i is: with a caller, and how often in the free list.        *)
Listed(i) == {k \in DOMAIN available_buffers : available_buffers[k] = i}

(* As long as callers return only what they have, every index that exists  *)
(* is in one place, and the free list never outgrows the group, so that    *)
(* the subtraction in utilization does not wrap; a group of Wrap buffers   *)
(* has no index at all. One wrong return is enough to break it.            *)
IndexHasOneOwner ==
  ~misused =>
    /\ Len(available_buffers) <= buffer_count
    /\ \A i \in Index :
         /\ lent[i] <= 1
         /\ lent[i] = 1 => Listed(i) = {}
         /\ \A j, k \in Listed(i) : j = k
         /\ (lent[i] = 1 \/ Listed(i) # {}) <=> i < AsIndex(buffer_count)
=============================================================================
