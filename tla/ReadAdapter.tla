---------------------------- MODULE ReadAdapter ----------------------------
(***************************************************************************)
(* AsyncReadAdapter: tokio's AsyncRead over read_owned. One read is in     *)
(* flight at a time and outlives the call that started it, so a later call *)
(* with another buffer gets its bytes; what does not fit is kept.          *)
(*                                                                         *)
(* The bytes of the descriptor are numbered 1 .. Available. read_owned     *)
(* passes offset 0: a socket or pipe ignores it and reads on, io_uring     *)
(* reads a regular file from its beginning each time.                      *)
(***************************************************************************)
EXTENDS Naturals, Sequences, SequencesExt

CONSTANTS
  Available,  \* how many bytes the peer sends before it closes
  Room,       \* ADAPTER_BUFFER_SIZE
  MaxAsk,     \* the largest ReadBuf a caller passes
  MaxReads    \* bound: reads started

VARIABLES
  seekable,   \* the descriptor is a regular file and the backend io_uring
  taken,      \* bytes the kernel has taken from the stream
  internal,   \* internal_buffer is Some
  flight,     \* read_future: none, queued, or resolved as done or failed
  data,       \* what a done read brought
  cached,     \* cached_data
  pos,        \* cached_pos
  reads,      \* reads started
  delivered,  \* history: the bytes callers were given, in order
  squeezed    \* history: a call without room came while bytes were cached

vars == <<seekable, taken, internal, flight, data, cached, pos, reads,
          delivered, squeezed>>

Leftover == pos < Len(cached)
Rest == SubSeq(cached, pos + 1, Len(cached))
Bytes(from, to) == [k \in 1 .. (to - from + 1) |-> from + k - 1]

(* What one read of the kernel may bring: at least a byte, or none at the  *)
(* end of the stream.                                                      *)
ReadFrom == IF seekable THEN 0 ELSE taken
Chunks == IF ReadFrom = Available THEN {<<>>}
          ELSE {Bytes(ReadFrom + 1, ReadFrom + n) :
                  n \in 1 .. (IF Available - ReadFrom < Room
                              THEN Available - ReadFrom ELSE Room)}
Consume(chunk) == taken' = taken + (IF seekable THEN 0 ELSE Len(chunk))

---------------------------------------------------------------------------
Init ==
  /\ seekable \in BOOLEAN
  /\ taken = 0 /\ reads = 0
  /\ internal = TRUE
  /\ flight = "none" /\ data = <<>>
  /\ cached = <<>> /\ pos = 0
  /\ delivered = <<>>
  /\ squeezed = FALSE

(* The kernel ends a queued read while nobody looks.                       *)
KernelRead ==
  /\ flight = "queued"
  /\ \/ \E chunk \in Chunks : Consume(chunk) /\ data' = chunk /\ flight' = "done"
     \/ flight' = "failed" /\ UNCHANGED <<taken, data>>
  /\ UNCHANGED <<seekable, internal, cached, pos, reads, delivered, squeezed>>

(* Seeded fault: the cache is cleared although a part of it was not taken. *)
ServeAndClear(ask) ==
  LET n == IF ask < Len(Rest) THEN ask ELSE Len(Rest) IN
  /\ delivered' = delivered \o SubSeq(Rest, 1, n)
  /\ cached' = <<>> /\ pos' = 0

(* The cache serves the call; it is cleared when it is used up.            *)
Serve(ask) ==
  LET n == IF ask < Len(Rest) THEN ask ELSE Len(Rest) IN
  /\ delivered' = delivered \o SubSeq(Rest, 1, n)
  /\ IF n = Len(Rest) THEN cached' = <<>> /\ pos' = 0
                      ELSE cached' = cached /\ pos' = pos + n

PollCached(ask) ==
  /\ Leftover /\ ask > 0
  /\ Serve(ask)
  /\ UNCHANGED <<seekable, taken, internal, flight, data, reads, squeezed>>

(* A finished read brought chunk: the caller takes what fits, the rest is  *)
(* appended to the cache, which is then read from its start.               *)
HandOut(ask, chunk) ==
  LET n == IF ask < Len(chunk) THEN ask ELSE Len(chunk) IN
  /\ delivered' = delivered \o SubSeq(chunk, 1, n)
  /\ IF n < Len(chunk)
       THEN cached' = cached \o SubSeq(chunk, n + 1, Len(chunk)) /\ pos' = 0
       ELSE UNCHANGED <<cached, pos>>

PastCache(ask) == ask = 0 \/ ~Leftover
Squeeze == squeezed' = (squeezed \/ Leftover)

PollPending(ask) ==
  /\ PastCache(ask) /\ flight = "queued"
  /\ Squeeze
  /\ UNCHANGED <<seekable, taken, internal, flight, data, cached, pos, reads,
                 delivered>>

PollDone(ask) ==
  /\ PastCache(ask) /\ flight = "done"
  /\ HandOut(ask, data)
  /\ internal' = TRUE /\ flight' = "none" /\ data' = <<>>
  /\ Squeeze
  /\ UNCHANGED <<seekable, taken, reads>>

(* The error goes to this caller and the buffer is gone with the future.   *)
PollFailed(ask) ==
  /\ PastCache(ask) /\ flight = "failed"
  /\ flight' = "none"
  /\ Squeeze
  /\ UNCHANGED <<seekable, taken, internal, data, cached, pos, reads, delivered>>

(* A new read is submitted and its future polled at once: it may be        *)
(* pending, complete, or have failed.                                      *)
PollStarts(ask) ==
  /\ PastCache(ask) /\ flight = "none" /\ internal
  /\ reads < MaxReads /\ reads' = reads + 1
  /\ Squeeze
  /\ \/ /\ flight' = "queued" /\ internal' = FALSE
        /\ UNCHANGED <<taken, cached, pos, delivered>>
     \/ /\ \E chunk \in Chunks : Consume(chunk) /\ HandOut(ask, chunk)
        /\ UNCHANGED <<flight, internal>>
     \/ /\ internal' = FALSE
        /\ UNCHANGED <<flight, taken, cached, pos, delivered>>
  /\ UNCHANGED <<seekable, data>>

(* Neither future nor buffer: every call fails from now on.                *)
PollUnavailable(ask) ==
  PastCache(ask) /\ flight = "none" /\ ~internal /\ UNCHANGED vars

PollRead(ask) == \/ PollCached(ask) \/ PollPending(ask) \/ PollDone(ask)
                 \/ PollFailed(ask) \/ PollStarts(ask) \/ PollUnavailable(ask)

Next == KernelRead \/ \E ask \in 0 .. MaxAsk : PollRead(ask)

---------------------------------------------------------------------------
(* A stream reaches its readers whole, in order and once, across calls     *)
(* that start a read, are given up, and are repeated with other buffers:   *)
(* what was delivered, then what is cached, then what a finished read      *)
(* holds is exactly what the kernel took. Two cases are excepted: a        *)
(* regular file, read from its beginning again and again, and a call       *)
(* without room made while bytes are cached, which reads on and then       *)
(* delivers the consumed part of the cache a second time.                  *)
StreamIntact ==
  ~seekable /\ ~squeezed => delivered \o Rest \o data = Bytes(1, taken)
=============================================================================
