---------------------------- MODULE WriteAdapter ----------------------------
(***************************************************************************)
(* AsyncWriteAdapter: tokio's AsyncWrite over write_owned. A call copies   *)
(* its bytes to the start of the internal buffer and submits the buffer,   *)
(* all of it, as one write; it reports the bytes as written although the   *)
(* write goes on. The next call or a flush learns how it ended.            *)
(*                                                                         *)
(* The bytes callers offer are numbered in the order they are accepted;    *)
(* 0 stands for the zeroes the buffer was created with. Each write passes  *)
(* offset 0. A socket or pipe ignores it and the bytes follow those that   *)
(* were sent before; of this wire the model keeps where the accepted bytes *)
(* first appear, and 0 for a repetition. io_uring writes a regular file    *)
(* (not opened with O_APPEND) from its beginning each time, over what was  *)
(* there; the wire is then the contents of the file.                       *)
(***************************************************************************)
EXTENDS Naturals, FiniteSets, Sequences, SequencesExt

CONSTANTS
  Size,       \* ADAPTER_BUFFER_SIZE
  MaxBytes,   \* bound: bytes offered in all
  MaxOffer    \* the longest slice a caller passes

VARIABLES
  seekable,   \* the descriptor is a regular file and the backend io_uring
  place,      \* internal_buffer: with the adapter, with a write, or lost
  memory,     \* what the internal buffer holds
  write,      \* write_future: none, queued, or resolved as done or failed
  offered,    \* bytes offered and reported as written, and reported as failed
  carries,    \* history: the accepted bytes this write is to bring
  since,      \* history: how many were accepted before the latest call with any
  wire,       \* history: accepted bytes on the wire, in order of appearance
  cut,        \* history: accepted bytes left behind by a short write
  refused,    \* history: accepted bytes whose write failed
  unreported, \* history: a write failed and no call has returned it
  flushed     \* history: how many bytes were accepted when a flush succeeded

vars == <<seekable, place, memory, write, offered, carries, since, wire, cut,
          refused, unreported, flushed>>

OnWire == ToSet(wire) \ {0}

---------------------------------------------------------------------------
Init ==
  /\ seekable \in BOOLEAN
  /\ place = "adapter" /\ write = "none"
  /\ memory = [k \in 1 .. Size |-> 0]
  /\ offered = 0 /\ since = 0 /\ flushed = 0
  /\ carries = {} /\ cut = {} /\ refused = {}
  /\ wire = <<>>
  /\ unreported = FALSE

(* One write takes n bytes of mem to the stream w. Of the bytes that were  *)
(* there before only the place is kept, and a write of nothing but such    *)
(* bytes leaves no trace.                                                  *)
Extend(w, mem, n) ==
  LET New(k) == mem[k] # 0 /\ mem[k] \notin ToSet(w)
  IN IF \E k \in 1 .. n : New(k)
       THEN w \o [k \in 1 .. n |-> IF New(k) THEN mem[k] ELSE 0]
       ELSE w

(* One write takes n bytes of mem to the beginning of the file w.          *)
Overwrite(w, mem, n) ==
  [k \in 1 .. (IF n < Len(w) THEN Len(w) ELSE n) |-> IF k <= n THEN mem[k] ELSE w[k]]

Written(w, mem, n) == IF seekable THEN Overwrite(w, mem, n) ELSE Extend(w, mem, n)

(* The kernel ends the write in flight; it may take less than all.         *)
KernelWrite ==
  /\ write = "queued"
  /\ \/ /\ write' = "done"
        /\ \E n \in 1 .. Size :
             /\ wire' = Written(wire, memory, n)
             /\ cut' = cut \union (carries \ OnWire')
        /\ UNCHANGED <<refused, unreported>>
     \/ /\ write' = "failed" /\ unreported' = TRUE
        /\ refused' = refused \union (carries \ OnWire)
        /\ UNCHANGED <<wire, cut>>
  /\ UNCHANGED <<seekable, place, memory, offered, carries, since, flushed>>

PollPending == write = "queued" /\ UNCHANGED vars

(* The failure of an earlier write is this call's error; the buffer is     *)
(* gone with it.                                                           *)
PollFailed ==
  /\ write = "failed"
  /\ write' = "none" /\ place' = "lost" /\ unreported' = FALSE
  /\ carries' = {}
  /\ UNCHANGED <<seekable, memory, offered, since, wire, cut, refused, flushed>>

PollUnavailable == write = "none" /\ place = "lost" /\ UNCHANGED vars

(* No write in flight, or one whose success is noticed now; how many bytes *)
(* it took is not looked at.                                               *)
ReadyToWrite == write = "done" \/ (write = "none" /\ place = "adapter")

(* Seeded fault: the bytes go on where the last ones ended, and around.    *)
CopyAround(n) ==
  [k \in 1 .. Size |->
     LET here == {b \in (offered + 1) .. (offered + n) : ((b - 1) % Size) + 1 = k}
     IN IF here = {} THEN memory[k] ELSE CHOOSE b \in here : TRUE]

(* The first n bytes of the buffer are overwritten, the others stay.       *)
CopyIn(n) == [k \in 1 .. Size |-> IF k <= n THEN offered + k ELSE memory[k]]

(* A new write of the whole buffer. It is polled at once by a call of      *)
(* poll_write with an empty slice: each time the write is found complete   *)
(* that call copies nothing and submits the whole buffer again, until one  *)
(* is pending or fails. A failure is reported and the bytes are not. Of    *)
(* the writes that completed, the first decides what was cut off, and the  *)
(* longest what is on the wire: they bring the same bytes in one order.    *)
PollStarts(n) ==
  /\ ReadyToWrite
  /\ offered + n <= MaxBytes
  /\ LET fresh == (offered + 1) .. (offered + n)
         mem == CopyIn(n)
     IN \E longest \in 0 .. Size :
          /\ memory' = mem
          /\ wire' = Written(wire, mem, longest)
          /\ IF longest = 0
               THEN UNCHANGED cut
               ELSE \E first \in 1 .. longest :
                      cut' = cut \union (fresh \ ToSet(Written(wire, mem, first)))
          /\ offered' = offered + n
          /\ since' = IF n = 0 THEN since ELSE offered
          /\ \/ /\ write' = "queued" /\ place' = "write"
                /\ carries' = IF longest = 0 THEN fresh ELSE {}
                /\ UNCHANGED refused
             \/ /\ write' = "none" /\ place' = "lost"
                /\ carries' = {}
                /\ refused' = refused \union (fresh \ OnWire')
  /\ UNCHANGED <<seekable, unreported, flushed>>

PollWrite(n) == PollPending \/ PollFailed \/ PollUnavailable \/ PollStarts(n)

(* Seeded fault: a flush does not wait for the write in flight.            *)
FlushAtOnce ==
  /\ write \in {"none", "done", "queued"}
  /\ flushed' = offered
  /\ UNCHANGED <<seekable, write, place, memory, offered, carries, since, wire,
                 cut, refused, unreported>>

(* poll_flush and poll_shutdown.                                           *)
FlushOk ==
  /\ write \in {"none", "done"}
  /\ flushed' = offered
  /\ write' = "none"
  /\ place' = IF write = "done" THEN "adapter" ELSE place
  /\ carries' = {}
  /\ UNCHANGED <<seekable, memory, offered, since, wire, cut, refused, unreported>>

PollFlush == PollPending \/ PollFailed \/ FlushOk

Next == KernelWrite \/ PollFlush \/ \E n \in 0 .. MaxOffer : PollWrite(n)

---------------------------------------------------------------------------
(* A successful flush or shutdown means that every byte reported as        *)
(* written is on the wire, or belonged to a write that failed and whose    *)
(* failure some call has returned, or was left behind by a short write,    *)
(* whose length the adapter ignores. Of a regular file this is said for    *)
(* the bytes of the latest call only: it may have overwritten those of the *)
(* calls before.                                                           *)
FlushedOnWire ==
  /\ (IF seekable THEN since + 1 ELSE 1) .. flushed \subseteq OnWire \union cut \union refused
  /\ unreported => write = "failed"

(* Accepted bytes first appear on a stream in the order they were          *)
(* accepted, although older bytes of the buffer follow each of them. In a  *)
(* regular file those of the latest call are at its beginning, in order;   *)
(* what is behind them is left over from longer calls.                     *)
FirstInOrder ==
  IF seekable
    THEN \A k \in DOMAIN wire : wire[k] > since => wire[k] = since + k
    ELSE cut = {} => \A j, k \in DOMAIN wire :
                       j < k /\ wire[j] # 0 /\ wire[k] # 0 => wire[j] < wire[k]
=============================================================================
