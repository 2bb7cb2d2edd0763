----------------------------- MODULE CompatProofs -----------------------------
(***************************************************************************)
(* Proofs about a File or a Socket, for streams, buffers and slices of any *)
(* size. The reader delivers its stream whole, in order and once:          *)
(* StreamInv adds to the property the types, and that the cache is cleared *)
(* when it has been used up, because the bytes of the next read are        *)
(* appended to what is there. Of the writer, WriterInv accounts for every  *)
(* accepted byte (on a regular file, of the latest call), says what of the *)
(* buffer a write in flight may still bring to the stream, and that in the *)
(* file the bytes of the latest call are where the buffer has them.        *)
(***************************************************************************)
EXTENDS Compat, SequenceTheorems, TLAPS

Stream == Seq(Nat)

ReaderTypes ==
  /\ seekable \in BOOLEAN /\ squeezed \in BOOLEAN
  /\ taken \in Nat /\ pos \in Nat
  /\ data \in Stream /\ cached \in Stream /\ delivered \in Stream
  /\ flight \in {"none", "queued", "done", "failed"}

(* Bytes are in the cache as long as some of them are left over, and in    *)
(* data only between the end of a read and the call that learns of it.     *)
Cleared ==
  /\ Reader!Leftover \/ (cached = <<>> /\ pos = 0)
  /\ flight # "done" => data = <<>>

StreamInv == ReaderTypes /\ Cleared /\ StreamIntact

OnWire == Writer!OnWire

(* The bytes that a flush is to account for: a regular file may have lost  *)
(* those of earlier calls.                                                 *)
First == IF seekable THEN since + 1 ELSE 1
Owed == First .. offered

WriterTypes ==
  /\ place \in {"adapter", "write", "lost"}
  /\ write \in {"none", "queued", "done", "failed"}
  /\ seekable \in BOOLEAN
  /\ offered \in Nat /\ flushed \in 0 .. offered /\ since \in 0 .. offered
  /\ memory \in [1 .. Size -> 0 .. offered]
  /\ wire \in Stream /\ OnWire \subseteq 1 .. offered
  /\ carries \in SUBSET (1 .. offered) /\ cut \in SUBSET (1 .. offered)
  /\ refused \in SUBSET (1 .. offered) /\ unreported \in BOOLEAN

TypeOK == ReaderTypes /\ WriterTypes /\ open \in BOOLEAN

(* The buffer is away while its write is not collected, and does not come  *)
(* back from one that failed.                                              *)
BufferPlace ==
  /\ write # "none" <=> place = "write"
  /\ place = "lost" \/ write = "failed" \/ refused = {}

(* No byte that is owed is unaccounted for, and the end of a write         *)
(* accounts for what it was to bring.                                      *)
Accounted ==
  /\ Owed \subseteq OnWire \union cut \union refused \union carries
  /\ carries \subseteq Owed
  /\ write = "none" => carries = {}
  /\ write = "done" => carries \subseteq OnWire \union cut
  /\ write = "failed" => carries \subseteq OnWire \union refused
  /\ FlushedOnWire

(* What a write in flight may bring comes after all that is on the stream, *)
(* and lies in the buffer in order.                                        *)
NextInOrder ==
  write = "queued" =>
    /\ \A b \in OnWire, c \in carries : b < c
    /\ \A j, k \in 1 .. Size :
         j < k /\ memory[j] \in carries /\ memory[k] \in carries => memory[j] < memory[k]

(* The bytes of the latest call are at the start of the buffer, and if     *)
(* they are in the file, they are there at the same place.                 *)
InPlace ==
  /\ \A k \in 1 .. Size : memory[k] > since => memory[k] = since + k
  /\ seekable => \A k \in DOMAIN wire :
                   wire[k] > since => k \in 1 .. Size /\ wire[k] = memory[k]

WriterInv == WriterTypes /\ BufferPlace /\ Accounted /\ InPlace /\ FirstInOrder
             /\ (cut = {} /\ ~seekable => NextInOrder)

---------------------------------------------------------------------------
(* A sequence cut in two is its two parts.                                 *)
LEMMA Cut ==
  ASSUME NEW s \in Stream, NEW n \in 0 .. Len(s)
  PROVE  /\ SubSeq(s, 1, n) \in Stream /\ SubSeq(s, n + 1, Len(s)) \in Stream
         /\ Len(SubSeq(s, n + 1, Len(s))) = Len(s) - n
         /\ SubSeq(s, 1, n) \o SubSeq(s, n + 1, Len(s)) = s
  <1>1. Len(s) \in Nat /\ \A i \in 1 .. Len(s) : s[i] \in Nat BY DEF Stream
  <1>2. SubSeq(s, 1, n) \in Stream BY <1>1, SubSeqProperties DEF Stream
  <1>3. /\ SubSeq(s, n + 1, Len(s)) \in Stream
        /\ Len(SubSeq(s, n + 1, Len(s))) = Len(s) - n
    <2>1. \A i \in n + 1 .. Len(s) : s[i] \in Nat BY <1>1
    <2>2. n + 1 \in Int /\ Len(s) \in Int BY <1>1
    <2>3. /\ SubSeq(s, n + 1, Len(s)) \in Seq(Nat)
          /\ Len(SubSeq(s, n + 1, Len(s))) =
               IF n + 1 <= Len(s) THEN Len(s) - (n + 1) + 1 ELSE 0
      BY <2>1, <2>2, SubSeqProperties
    <2> QED BY <1>1, <2>3 DEF Stream
  <1>4. SubSeq(s, 1, n) \o SubSeq(s, n + 1, Len(s)) = SubSeq(s, 1, Len(s))
    <2>1. 1 \in 1 .. Len(s) + 1 /\ n \in 1 - 1 .. Len(s) /\ Len(s) \in n .. Len(s)
      BY <1>1
    <2> QED BY <2>1, ConcatAdjacentSubSeq DEF Stream
  <1>5. SubSeq(s, 1, Len(s)) = s BY SubSeqFull DEF Stream
  <1> QED BY <1>2, <1>3, <1>4, <1>5

(* The empty sequence, and how sequences are put together.                 *)
LEMMA Joined ==
  /\ <<>> \in Stream /\ Len(<<>>) = 0 /\ SubSeq(<<>>, 1, 0) = <<>>
  /\ \A s \in Stream : s \o <<>> = s /\ <<>> \o s = s /\ SubSeq(s, 0 + 1, Len(s)) = s
  /\ \A s, t \in Stream : s \o t \in Stream /\ Len(s \o t) = Len(s) + Len(t)
  /\ \A s, t, u \in Stream : (s \o t) \o u = s \o (t \o u)
  <1>1. <<>> \in Stream /\ Len(<<>>) = 0 BY DEF Stream
  <1>2. \A s \in Stream : SubSeq(s, 1, Len(s)) = s BY SubSeqFull DEF Stream
  <1>3. \A s \in Stream : s \o <<>> = s /\ <<>> \o s = s BY ConcatEmptySeq DEF Stream
  <1>4. \A s, t \in Stream : s \o t \in Stream /\ Len(s \o t) = Len(s) + Len(t)
    BY ConcatProperties DEF Stream
  <1>5. \A s, t, u \in Stream : (s \o t) \o u = s \o (t \o u)
    BY ConcatAssociative DEF Stream
  <1> QED BY <1>1, <1>2, <1>3, <1>4, <1>5

(* The bytes up to m and the n after them are the bytes up to m + n.       *)
LEMMA ByteRanges ==
  ASSUME NEW m \in Nat, NEW n \in Nat
  PROVE  /\ Reader!Bytes(m + 1, m + n) \in Stream
         /\ Len(Reader!Bytes(m + 1, m + n)) = n
         /\ Reader!Bytes(1, m) \in Stream
         /\ Reader!Bytes(1, m) \o Reader!Bytes(m + 1, m + n) = Reader!Bytes(1, m + n)
  <1> DEFINE a == Reader!Bytes(1, m)
             b == Reader!Bytes(m + 1, m + n)
             c == Reader!Bytes(1, m + n)
  <1>1. a = [k \in 1 .. m |-> k] BY DEF Reader!Bytes
  <1>2. c = [k \in 1 .. m + n |-> k] BY DEF Reader!Bytes
  <1>3. b = [k \in 1 .. n |-> m + k]
    <2>1. (m + n) - (m + 1) + 1 = n /\ \A k \in 1 .. n : (m + 1) + k - 1 = m + k
      OBVIOUS
    <2> QED BY <2>1 DEF Reader!Bytes
  <1> HIDE DEF a, b, c
  <1>4. /\ a \in Seq(Nat) /\ Len(a) = m /\ b \in Seq(Nat) /\ Len(b) = n
        /\ c \in Seq(Nat) /\ Len(c) = m + n
    BY <1>1, <1>2, <1>3
  <1>5. \A i \in 1 .. m + n : (a \o b)[i] = IF i <= m THEN a[i] ELSE b[i - m]
    BY <1>4, ConcatProperties
  <1>6. a \o b \in Seq(Nat) /\ Len(a \o b) = m + n
    BY <1>4, ConcatProperties
  <1>7. \A i \in 1 .. m + n : (a \o b)[i] = c[i]
    <2> SUFFICES ASSUME NEW i \in 1 .. m + n PROVE (a \o b)[i] = c[i] OBVIOUS
    <2>1. CASE i <= m BY <1>1, <1>2, <1>5, <2>1
    <2>2. CASE ~(i <= m)
      <3>1. i - m \in 1 .. n BY <2>2
      <3>2. b[i - m] = i BY <1>3, <3>1
      <3> QED BY <1>2, <1>5, <2>2, <3>2
    <2> QED BY <2>1, <2>2
  <1>8. a \o b = c BY <1>4, <1>6, <1>7, SeqEqual
  <1> QED BY <1>4, <1>8 DEF a, b, c, Stream

---------------------------------------------------------------------------
(* What one read of the kernel brings follows what it took before.         *)
LEMMA ChunkStep ==
  ASSUME ReaderTypes, NEW chunk \in Reader!Chunks, Reader!Consume(chunk)
  PROVE  /\ chunk \in Stream /\ taken' \in Nat
         /\ ~seekable => Reader!Bytes(1, taken) \o chunk = Reader!Bytes(1, taken')
  <1>1. \E m \in Nat, n \in Nat :
          /\ m = Reader!ReadFrom
          /\ chunk = Reader!Bytes(m + 1, m + n) \/ (chunk = <<>> /\ n = 0)
    <2>1. Reader!ReadFrom \in Nat BY DEF Reader!ReadFrom, ReaderTypes
    <2>2. CASE Reader!ReadFrom = Available BY <2>1, <2>2 DEF Reader!Chunks
    <2>3. CASE Reader!ReadFrom # Available
      <3>1. \A n \in 1 .. (IF Available - Reader!ReadFrom < Room
                           THEN Available - Reader!ReadFrom ELSE Room) : n \in Nat
        BY <2>1, CompatAssumption
      <3> QED BY <2>1, <2>3, <3>1 DEF Reader!Chunks
    <2> QED BY <2>2, <2>3
  <1>2. PICK m \in Nat, n \in Nat :
          /\ m = Reader!ReadFrom
          /\ chunk = Reader!Bytes(m + 1, m + n) \/ (chunk = <<>> /\ n = 0)
    BY <1>1
  <1> DEFINE before == Reader!Bytes(1, m)
             next == Reader!Bytes(m + 1, m + n)
  <1>3. /\ chunk \in Stream /\ Len(chunk) = n
        /\ before \o chunk = Reader!Bytes(1, m + n)
    <2>1. next \in Stream /\ Len(next) = n /\ before \in Stream
          /\ before \o next = Reader!Bytes(1, m + n)
      BY ByteRanges
    <2>2. CASE chunk = next BY <2>1, <2>2
    <2>3. CASE chunk = <<>> /\ n = 0
      <3>1. m + n = m BY <2>3
      <3> HIDE DEF next
      <3>2. before \o <<>> = before BY <2>1, Joined
      <3> QED BY <2>3, <3>1, <3>2, Joined
    <2> QED BY <1>2, <2>2, <2>3
  <1>4. taken' = IF seekable THEN taken ELSE taken + n
    BY <1>3 DEF Reader!Consume, ReaderTypes
  <1>5. ~seekable => m = taken BY <1>2 DEF Reader!ReadFrom
  <1>6. taken' \in Nat /\ (~seekable => taken' = m + n)
    BY <1>4, <1>5 DEF ReaderTypes
  <1> QED BY <1>3, <1>5, <1>6

(* A chunk that is handed out is partly delivered, the rest is cached.     *)
LEMMA HandOutStep ==
  ASSUME ReaderTypes, NEW ask \in Nat, NEW chunk \in Stream, Reader!HandOut(ask, chunk),
         Reader!Leftover \/ (cached = <<>> /\ pos = 0)
  PROVE  /\ delivered' \in Stream /\ cached' \in Stream /\ pos' \in Nat
         /\ (Reader!Leftover \/ (cached = <<>> /\ pos = 0))'
         /\ ~Reader!Leftover => delivered' \o Reader!Rest' = delivered \o chunk
  <1> DEFINE n == IF ask < Len(chunk) THEN ask ELSE Len(chunk)
             taking == SubSeq(chunk, 1, n)
             keeping == SubSeq(chunk, n + 1, Len(chunk))
  <1>1. Len(chunk) \in Nat /\ n \in 0 .. Len(chunk) BY DEF Stream
  <1>2. /\ taking \in Stream /\ keeping \in Stream
        /\ Len(keeping) = Len(chunk) - n /\ taking \o keeping = chunk
    BY <1>1, Cut
  <1>3. /\ delivered' = delivered \o taking
        /\ IF n < Len(chunk) THEN cached' = cached \o keeping /\ pos' = 0
                             ELSE UNCHANGED <<cached, pos>>
    BY DEF Reader!HandOut
  <1> HIDE DEF taking, keeping
  <1>4. CASE n < Len(chunk)
    <2>0. cached \in Stream /\ delivered \in Stream BY DEF ReaderTypes
    <2>1. cached' = cached \o keeping /\ pos' = 0 BY <1>3, <1>4
    <2>2. cached' \in Stream /\ Len(cached') = Len(cached) + Len(keeping)
      BY <1>2, <2>0, <2>1, Joined
    <2>3. Reader!Leftover'
      <3>1. Len(cached) \in Nat BY <2>0 DEF Stream
      <3> HIDE DEF n
      <3>2. Len(cached') > 0 BY <1>1, <1>2, <1>4, <2>2, <3>1
      <3> QED BY <2>1, <3>2 DEF Reader!Leftover
    <2>4. ~Reader!Leftover => Reader!Rest' = keeping
      <3> SUFFICES ASSUME ~Reader!Leftover PROVE Reader!Rest' = keeping OBVIOUS
      <3>1. cached' = keeping BY <1>2, <2>1, Joined
      <3>2. Reader!Rest' = SubSeq(keeping, 0 + 1, Len(keeping))
        BY <2>1, <3>1 DEF Reader!Rest
      <3> QED BY <1>2, <3>2, Joined
    <2>5. delivered' \in Stream /\ delivered' \o keeping = delivered \o chunk
      <3>1. (delivered \o taking) \o keeping = delivered \o (taking \o keeping)
        BY <1>2, <2>0, Joined
      <3> QED BY <1>2, <1>3, <2>0, <3>1, Joined
    <2> QED BY <2>1, <2>2, <2>3, <2>4, <2>5
  <1>5. CASE ~(n < Len(chunk))
    <2>1. n = Len(chunk) /\ cached' = cached /\ pos' = pos BY <1>1, <1>3, <1>5
    <2>2. taking = chunk BY <2>1, Joined DEF taking
    <2>3. ~Reader!Leftover => Reader!Rest' = <<>>
      BY <2>1, Joined DEF Reader!Rest
    <2>4. (Reader!Leftover \/ (cached = <<>> /\ pos = 0))' BY <2>1 DEF Reader!Leftover
    <2> QED BY <1>2, <1>3, <2>1, <2>2, <2>3, <2>4, Joined DEF ReaderTypes
  <1> QED BY <1>4, <1>5

(* The cache serves its next bytes.                                        *)
LEMMA ServeStep ==
  ASSUME ReaderTypes, NEW ask \in Nat \ {0}, Reader!Leftover, Reader!Serve(ask)
  PROVE  /\ delivered' \in Stream /\ cached' \in Stream /\ pos' \in Nat
         /\ (Reader!Leftover \/ (cached = <<>> /\ pos = 0))'
         /\ Reader!Rest \in Stream /\ Reader!Rest' \in Stream
         /\ delivered' \o Reader!Rest' = delivered \o Reader!Rest
  <1> DEFINE r == Reader!Rest
             n == IF ask < Len(r) THEN ask ELSE Len(r)
  <1>1. Len(cached) \in Nat /\ pos \in 0 .. Len(cached) - 1
    BY DEF ReaderTypes, Stream, Reader!Leftover
  <1>2. r \in Stream /\ Len(r) = Len(cached) - pos
    <2>1. pos \in 0 .. Len(cached) BY <1>1
    <2> QED BY <2>1, Cut DEF Reader!Rest, ReaderTypes
  <1>3. n \in 1 .. Len(r) BY <1>1, <1>2
  <1>4. /\ delivered' = delivered \o SubSeq(r, 1, n)
        /\ IF n = Len(r) THEN cached' = <<>> /\ pos' = 0
                         ELSE cached' = cached /\ pos' = pos + n
    BY DEF Reader!Serve
  <1>5. /\ SubSeq(r, 1, n) \in Stream /\ SubSeq(r, n + 1, Len(r)) \in Stream
        /\ SubSeq(r, 1, n) \o SubSeq(r, n + 1, Len(r)) = r
    <2>1. n \in 0 .. Len(r) BY <1>3
    <2> QED BY <1>2, <2>1, Cut
  <1>6. CASE n = Len(r)
    <2>1. cached' = <<>> /\ pos' = 0 BY <1>4, <1>6
    <2>2. Reader!Rest' = <<>> BY <2>1, Joined DEF Reader!Rest
    <2>3. SubSeq(r, 1, n) = r BY <1>2, <1>6, SubSeqFull DEF Stream
    <2> HIDE DEF r, n
    <2> QED BY <1>2, <1>4, <2>1, <2>2, <2>3, Joined DEF ReaderTypes, r
  <1>7. CASE n # Len(r)
    <2>1. cached' = cached /\ pos' = pos + n BY <1>4, <1>7
    <2>2. n < Len(r) BY <1>1, <1>2, <1>3, <1>7
    <2>3. pos + n < Len(cached) BY <1>1, <1>2, <1>3, <2>2
    <2>4. Reader!Leftover' BY <2>1, <2>3 DEF Reader!Leftover
    <2>5. Reader!Rest' = SubSeq(r, n + 1, Len(r))
      <3>1. Reader!Rest' = SubSeq(cached, pos + n + 1, Len(cached))
        BY <2>1 DEF Reader!Rest
      <3>2. SubSeq(SubSeq(cached, pos + 1, Len(cached)), n + 1, Len(r)) =
              SubSeq(cached, (pos + 1) + (n + 1) - 1, (pos + 1) + Len(r) - 1)
        <4>1. /\ pos + 1 \in 1 .. Len(cached) /\ Len(cached) \in 1 .. Len(cached)
              /\ n + 1 \in 1 .. Len(cached) - (pos + 1) + 1
              /\ Len(r) \in 1 .. Len(cached) - (pos + 1) + 1
          BY <1>1, <1>2, <1>3, <2>2
        <4>2. r \in Seq(Nat) /\ cached \in Seq(Nat) BY <1>2 DEF ReaderTypes, Stream
        <4> DEFINE i == pos + 1
                   m == n + 1
        <4> HIDE DEF r, n, i, m
        <4>3. \A j, k \in Int : i \in 1 .. Len(cached) /\ j \in 1 .. Len(cached)
                /\ m \in 1 .. j - i + 1 /\ k \in 1 .. j - i + 1 =>
                SubSeq(SubSeq(cached, i, j), m, k) = SubSeq(cached, i + m - 1, i + k - 1)
          BY <4>2, SubSeqOfSubSeq
        <4>4. Len(cached) \in Int /\ Len(r) \in Int BY <4>2
        <4> QED BY <4>1, <4>3, <4>4 DEF i, m
      <3> HIDE DEF n
      <3>3. (pos + 1) + (n + 1) - 1 = pos + n + 1 /\ (pos + 1) + Len(r) - 1 = Len(cached)
        <4> HIDE DEF r
        <4> QED BY <1>1, <1>2, <1>3
      <3>4. r = SubSeq(cached, pos + 1, Len(cached)) BY DEF Reader!Rest
      <3> HIDE DEF r
      <3> QED BY <3>1, <3>2, <3>3, <3>4
    <2> HIDE DEF n
    <2>6. pos' \in Nat BY <1>1, <1>3, <2>1
    <2>7. delivered' \o Reader!Rest' = delivered \o r
      <3> HIDE DEF r
      <3>1. delivered \in Stream BY DEF ReaderTypes
      <3>2. (delivered \o SubSeq(r, 1, n)) \o SubSeq(r, n + 1, Len(r)) =
              delivered \o (SubSeq(r, 1, n) \o SubSeq(r, n + 1, Len(r)))
        BY <1>5, <3>1, Joined
      <3> QED BY <1>4, <1>5, <2>5, <3>2
    <2>8. delivered' \in Stream BY <1>4, <1>5, Joined DEF ReaderTypes
    <2> QED BY <1>2, <1>5, <2>1, <2>4, <2>5, <2>6, <2>7, <2>8 DEF ReaderTypes
  <1> QED BY <1>6, <1>7

---------------------------------------------------------------------------
(* The initial states satisfy the invariant.                               *)
LEMMA InitHolds == Init => StreamInv
  <1> SUFFICES ASSUME Init PROVE StreamInv OBVIOUS
  <1>1. /\ seekable \in BOOLEAN /\ taken = 0 /\ flight = "none" /\ data = <<>>
        /\ cached = <<>> /\ pos = 0 /\ delivered = <<>> /\ squeezed = FALSE
    BY DEF Init, Reader!Init
  <1>2. ReaderTypes /\ Cleared BY <1>1, Joined DEF ReaderTypes, Cleared
  <1>3. Reader!Rest = <<>> BY <1>1, Joined DEF Reader!Rest
  <1>4. Reader!Bytes(1, taken) = <<>> BY <1>1 DEF Reader!Bytes
  <1>5. (<<>> \o <<>>) \o <<>> = <<>> BY Joined
  <1>6. StreamIntact BY <1>1, <1>3, <1>4, <1>5 DEF StreamIntact, Reader!StreamIntact
  <1> QED BY <1>2, <1>6 DEF StreamInv

(* What is in the cache and not consumed is a sequence of bytes.           *)
LEMMA RestIs ==
  ASSUME ReaderTypes, Cleared
  PROVE  Reader!Rest \in Stream /\ (~Reader!Leftover => Reader!Rest = <<>>)
  <1>1. Len(cached) \in Nat /\ pos \in 0 .. Len(cached)
    BY Joined DEF ReaderTypes, Cleared, Stream, Reader!Leftover
  <1>2. Reader!Rest \in Stream BY <1>1, Cut DEF Reader!Rest, ReaderTypes
  <1>3. ~Reader!Leftover => cached = <<>> /\ pos = 0 BY DEF Cleared
  <1>4. ~Reader!Leftover => Reader!Rest = <<>> BY <1>3, Joined DEF Reader!Rest
  <1> QED BY <1>2, <1>4

(* A step of the reader that leaves the bytes where they are.              *)
LEMMA QuietStep ==
  ASSUME StreamInv, UNCHANGED <<seekable, taken, data, cached, pos, delivered>>,
         flight' \in {"none", "queued", "done", "failed"},
         flight' # "done" => flight # "done",
         squeezed' \in BOOLEAN, ~squeezed' => ~squeezed
  PROVE  StreamInv'
  <1>1. Reader!Leftover' = Reader!Leftover /\ Reader!Rest' = Reader!Rest
    BY DEF Reader!Leftover, Reader!Rest
  <1> QED BY <1>1 DEF StreamInv, ReaderTypes, Cleared, StreamIntact, Reader!StreamIntact,
                      Reader!Bytes

(* Each call of the reader and each answer of the kernel.                  *)
LEMMA ReaderStep ==
  ASSUME StreamInv,
         Reader!KernelRead \/ \E ask \in 0 .. MaxAsk : Reader!PollRead(ask)
  PROVE  StreamInv'
  <1> USE DEF StreamInv
  <1>0. /\ Reader!Rest \in Stream /\ (~Reader!Leftover => Reader!Rest = <<>>)
        /\ delivered \in Stream /\ data \in Stream
    BY RestIs DEF ReaderTypes
  <1>1. CASE Reader!KernelRead
    <2>0. UNCHANGED <<seekable, internal, cached, pos, reads, delivered, squeezed>>
          /\ flight = "queued"
      BY <1>1 DEF Reader!KernelRead
    <2>1. CASE \E chunk \in Reader!Chunks :
                 Reader!Consume(chunk) /\ data' = chunk /\ flight' = "done"
      <3>1. PICK chunk \in Reader!Chunks :
              Reader!Consume(chunk) /\ data' = chunk /\ flight' = "done"
        BY <2>1
      <3>2. /\ chunk \in Stream /\ taken' \in Nat
            /\ ~seekable => Reader!Bytes(1, taken) \o chunk = Reader!Bytes(1, taken')
        BY <3>1, ChunkStep
      <3>3. data = <<>> BY <2>0 DEF Cleared
      <3>4. Reader!Rest' = Reader!Rest /\ Reader!Leftover' = Reader!Leftover
        BY <2>0 DEF Reader!Rest, Reader!Leftover
      <3>5. ~seekable /\ ~squeezed => delivered \o Reader!Rest = Reader!Bytes(1, taken)
        <4>1. delivered \o Reader!Rest \in Stream BY <1>0, Joined
        <4>2. (delivered \o Reader!Rest) \o <<>> = delivered \o Reader!Rest
          BY <4>1, Joined
        <4> QED BY <3>3, <4>2 DEF StreamIntact, Reader!StreamIntact
      <3>6. StreamIntact'
        <4>1. ~seekable /\ ~squeezed =>
                (delivered \o Reader!Rest) \o chunk = Reader!Bytes(1, taken')
          BY <3>2, <3>5
        <4>2. Reader!Bytes(1, taken)' = Reader!Bytes(1, taken') BY DEF Reader!Bytes
        <4> QED BY <2>0, <3>1, <3>4, <4>1, <4>2 DEF StreamIntact, Reader!StreamIntact
      <3> QED BY <2>0, <3>1, <3>2, <3>4, <3>6 DEF ReaderTypes, Cleared
    <2>2. CASE flight' = "failed" /\ UNCHANGED <<taken, data>>
      BY <2>0, <2>2, QuietStep DEF ReaderTypes
    <2> QED BY <1>1, <2>1, <2>2 DEF Reader!KernelRead
  <1>2. ASSUME NEW ask \in 0 .. MaxAsk, Reader!PollCached(ask) PROVE StreamInv'
    <2>1. ask \in Nat \ {0} BY <1>2, CompatAssumption DEF Reader!PollCached
    <2>2. /\ UNCHANGED <<seekable, taken, internal, flight, data, reads, squeezed>>
          /\ Reader!Leftover /\ Reader!Serve(ask)
      BY <1>2 DEF Reader!PollCached
    <2>3. /\ delivered' \in Stream /\ cached' \in Stream /\ pos' \in Nat
          /\ (Reader!Leftover \/ (cached = <<>> /\ pos = 0))'
          /\ delivered' \o Reader!Rest' = delivered \o Reader!Rest
      BY <2>1, <2>2, ServeStep
    <2>4. StreamIntact'
      BY <2>2, <2>3 DEF StreamIntact, Reader!StreamIntact, Reader!Bytes
    <2> QED BY <2>2, <2>3, <2>4 DEF ReaderTypes, Cleared
  (* bytes that come out of a read, at once or later                       *)
  <1>3. ASSUME NEW ask \in 0 .. MaxAsk, Reader!PastCache(ask), Reader!Squeeze,
               NEW chunk \in Stream, Reader!HandOut(ask, chunk), data' = <<>>,
               flight' = "none", seekable' = seekable, taken' \in Nat,
               ~seekable /\ ~squeezed =>
                 (delivered \o Reader!Rest) \o chunk = Reader!Bytes(1, taken')
        PROVE  StreamInv'
    <2>1. ask \in Nat BY CompatAssumption
    <2>2. /\ delivered' \in Stream /\ cached' \in Stream /\ pos' \in Nat
          /\ (Reader!Leftover \/ (cached = <<>> /\ pos = 0))'
          /\ ~Reader!Leftover => delivered' \o Reader!Rest' = delivered \o chunk
      BY <1>3, <2>1, HandOutStep DEF Cleared
    <2>3. squeezed' \in BOOLEAN /\ (~squeezed' => ~squeezed /\ ~Reader!Leftover)
      BY <1>3 DEF Reader!Squeeze, ReaderTypes
    <2>4. ReaderTypes' /\ Cleared'
      BY <1>3, <2>2, <2>3, Joined DEF ReaderTypes, Cleared
    <2>5. ASSUME ~seekable', ~squeezed'
          PROVE  (delivered' \o Reader!Rest') \o data' = Reader!Bytes(1, taken')
      <3>1. delivered \o Reader!Rest = delivered BY <1>0, <2>3, <2>5, Joined
      <3>2. delivered' \o Reader!Rest' = delivered \o chunk BY <2>2, <2>3, <2>5
      <3>3. delivered \o chunk \in Stream BY <1>0, <1>3, Joined
      <3>4. (delivered \o chunk) \o <<>> = delivered \o chunk BY <3>3, Joined
      <3> QED BY <1>3, <2>3, <2>5, <3>1, <3>2, <3>4
    <2>6. StreamIntact'
      BY <2>5 DEF StreamIntact, Reader!StreamIntact, Reader!Bytes
    <2> QED BY <2>4, <2>6
  <1>4. ASSUME NEW ask \in 0 .. MaxAsk, Reader!PollDone(ask) PROVE StreamInv'
    <2>1. /\ Reader!PastCache(ask) /\ Reader!Squeeze /\ Reader!HandOut(ask, data)
          /\ data' = <<>> /\ flight' = "none" /\ UNCHANGED <<seekable, taken>>
      BY <1>4 DEF Reader!PollDone
    <2>2. taken' \in Nat BY <2>1 DEF ReaderTypes
    <2>3. ~seekable /\ ~squeezed =>
            (delivered \o Reader!Rest) \o data = Reader!Bytes(1, taken')
      BY <2>1 DEF StreamIntact, Reader!StreamIntact
    <2> QED BY <1>0, <1>3, <2>1, <2>2, <2>3
  <1>5. ASSUME NEW ask \in 0 .. MaxAsk, Reader!PollStarts(ask) PROVE StreamInv'
    <2>1. Reader!PastCache(ask) /\ Reader!Squeeze /\ UNCHANGED <<seekable, data>>
          /\ flight = "none" /\ data = <<>>
      BY <1>5 DEF Reader!PollStarts, Cleared
    <2>2. CASE \E chunk \in Reader!Chunks : Reader!Consume(chunk) /\ Reader!HandOut(ask, chunk)
               /\ UNCHANGED <<flight, internal>>
      <3>1. PICK chunk \in Reader!Chunks :
              Reader!Consume(chunk) /\ Reader!HandOut(ask, chunk) /\ flight' = flight
        BY <2>2
      <3>2. /\ chunk \in Stream /\ taken' \in Nat
            /\ ~seekable => Reader!Bytes(1, taken) \o chunk = Reader!Bytes(1, taken')
        BY <3>1, ChunkStep
      <3>3. ~seekable /\ ~squeezed => delivered \o Reader!Rest = Reader!Bytes(1, taken)
        <4>1. delivered \o Reader!Rest \in Stream BY <1>0, Joined
        <4>2. (delivered \o Reader!Rest) \o <<>> = delivered \o Reader!Rest
          BY <4>1, Joined
        <4> QED BY <2>1, <4>2 DEF StreamIntact, Reader!StreamIntact
      <3>4. ~seekable /\ ~squeezed =>
              (delivered \o Reader!Rest) \o chunk = Reader!Bytes(1, taken')
        BY <3>2, <3>3
      <3> QED BY <1>3, <2>1, <3>1, <3>2, <3>4
    <2>3. CASE UNCHANGED <<taken, cached, pos, delivered>> /\ flight' \in {"none", "queued"}
      <3>1. squeezed' \in BOOLEAN /\ (~squeezed' => ~squeezed)
        BY <2>1 DEF Reader!Squeeze, ReaderTypes
      <3> QED BY <2>1, <2>3, <3>1, QuietStep
    <2> QED BY <1>5, <2>1, <2>2, <2>3 DEF Reader!PollStarts
  <1>6. ASSUME NEW ask \in 0 .. MaxAsk,
               \/ Reader!PollPending(ask) \/ Reader!PollFailed(ask)
               \/ Reader!PollUnavailable(ask)
        PROVE  StreamInv'
    <2>1. /\ UNCHANGED <<seekable, taken, data, cached, pos, delivered>>
          /\ flight' \in {"none", "queued", "failed"} /\ flight # "done"
      BY <1>6 DEF Reader!PollPending, Reader!PollFailed, Reader!PollUnavailable, Reader!vars
    <2>2. squeezed' \in BOOLEAN /\ (~squeezed' => ~squeezed)
      BY <1>6 DEF Reader!PollPending, Reader!PollFailed, Reader!PollUnavailable,
                  Reader!Squeeze, Reader!vars, ReaderTypes
    <2> QED BY <2>1, <2>2, QuietStep
  <1> QED BY <1>1, <1>2, <1>4, <1>5, <1>6 DEF Reader!PollRead

(* The writer and the drop of the file touch none of this.                 *)
LEMMA StepHolds == StreamInv /\ [Next]_vars => StreamInv'
  <1> SUFFICES ASSUME StreamInv, [Next]_vars PROVE StreamInv' OBVIOUS
  <1>1. CASE Reader!KernelRead \/ \E ask \in 0 .. MaxAsk : Reader!PollRead(ask)
    BY <1>1, ReaderStep
  <1>2. CASE UNCHANGED readVars
    <2>1. UNCHANGED <<seekable, taken, data, cached, pos, delivered, flight, squeezed>>
      BY <1>2 DEF readVars
    <2> QED BY <2>1, QuietStep DEF StreamInv, ReaderTypes
  <1> QED BY <1>1, <1>2 DEF Next, Read, Write, Kernel, Drop, vars

---------------------------------------------------------------------------
InOrder(w) ==
  \A j, k \in DOMAIN w : j < k /\ w[j] # 0 /\ w[k] # 0 => w[j] < w[k]

(* The bytes of the buffer that a write of n brings and w has not.         *)
Brought(w, mem, n) == {mem[k] : k \in 1 .. n} \ (ToSet(w) \union {0})

(* What a write does to the wire.                                          *)
LEMMA ExtendSet ==
  ASSUME NEW w \in Stream, NEW mem \in [1 .. Size -> Nat], NEW n \in 0 .. Size
  PROVE  /\ Writer!Extend(w, mem, n) \in Stream
         /\ ToSet(Writer!Extend(w, mem, n)) \ {0} =
              (ToSet(w) \ {0}) \union Brought(w, mem, n)
  <1> DEFINE New(k) == mem[k] # 0 /\ mem[k] \notin ToSet(w)
             block == [k \in 1 .. n |-> IF New(k) THEN mem[k] ELSE 0]
             x == Writer!Extend(w, mem, n)
  <1>1. Size \in Nat /\ n \in Nat /\ \A k \in 1 .. n : k \in 1 .. Size /\ mem[k] \in Nat
    BY CompatAssumption
  <1>2. x = IF \E k \in 1 .. n : New(k) THEN w \o block ELSE w
    BY DEF Writer!Extend, Writer!ToSet, ToSet
  <1>3. CASE ~ \E k \in 1 .. n : New(k)
    BY <1>2, <1>3 DEF Brought
  <1>4. CASE \E k \in 1 .. n : New(k)
    <2>1. block \in Seq(Nat) /\ Len(block) = n BY <1>1
    <2>2. w \in Seq(Nat) /\ Len(w) \in Nat BY DEF Stream
    <2>3. x = w \o block BY <1>2, <1>4
    <2>4. \A k \in 1 .. n : block[k] = IF New(k) THEN mem[k] ELSE 0 OBVIOUS
    <2> HIDE DEF x, block
    <2>5. /\ x \in Seq(Nat) /\ Len(x) = Len(w) + n
          /\ \A i \in 1 .. Len(w) + n : x[i] = IF i <= Len(w) THEN w[i] ELSE block[i - Len(w)]
      BY <2>1, <2>2, <2>3, ConcatProperties
    <2>6. ASSUME NEW b \in ToSet(x) \ {0}
          PROVE  b \in (ToSet(w) \ {0}) \union Brought(w, mem, n)
      <3>1. PICK i \in 1 .. Len(w) + n : b = x[i] BY <2>5 DEF ToSet
      <3>2. CASE i <= Len(w)
        <4>1. i \in DOMAIN w /\ b = w[i] BY <2>2, <2>5, <3>1, <3>2
        <4> QED BY <4>1 DEF ToSet
      <3>3. CASE ~(i <= Len(w))
        <4>1. i - Len(w) \in 1 .. n /\ b = block[i - Len(w)]
          BY <1>1, <2>2, <2>5, <3>1, <3>3
        <4>2. b = mem[i - Len(w)] /\ New(i - Len(w)) BY <2>4, <4>1
        <4> QED BY <4>1, <4>2 DEF Brought
      <3> QED BY <3>2, <3>3
    <2>7. ASSUME NEW b \in ToSet(w) PROVE b \in ToSet(x)
      <3>1. PICK i \in DOMAIN w : b = w[i] BY DEF ToSet
      <3>2. i \in 1 .. Len(w) BY <2>2
      <3>3. i \in 1 .. Len(w) + n /\ i <= Len(w) BY <1>1, <2>2, <3>2
      <3>4. i \in DOMAIN x /\ x[i] = w[i] BY <2>5, <3>3
      <3> QED BY <3>1, <3>4 DEF ToSet
    <2>8. ASSUME NEW b \in Brought(w, mem, n) PROVE b \in ToSet(x)
      <3>1. PICK k \in 1 .. n : b = mem[k] /\ New(k) BY DEF Brought
      <3>2. block[k] = b BY <2>4, <3>1
      <3>3. Len(w) + k \in 1 .. Len(w) + n /\ ~(Len(w) + k <= Len(w))
            /\ (Len(w) + k) - Len(w) = k
        BY <1>1, <2>2
      <3>4. Len(w) + k \in DOMAIN x /\ x[Len(w) + k] = b BY <2>5, <3>2, <3>3
      <3> QED BY <3>4 DEF ToSet
    <2>9. 0 \notin Brought(w, mem, n) BY DEF Brought
    <2>10. ToSet(x) \ {0} = (ToSet(w) \ {0}) \union Brought(w, mem, n)
      BY <2>6, <2>7, <2>8, <2>9
    <2> QED BY <2>5, <2>10 DEF Stream, x
  <1> QED BY <1>3, <1>4

(* A write keeps the wire in order when what it brings lies in order in    *)
(* the buffer and comes after all that is on the wire.                     *)
LEMMA ExtendOrder ==
  ASSUME NEW w \in Stream, NEW mem \in [1 .. Size -> Nat], NEW n \in 0 .. Size,
         InOrder(w),
         \A b \in ToSet(w) \ {0}, c \in Brought(w, mem, n) : b < c,
         \A j, k \in 1 .. n : j < k /\ mem[j] \in Brought(w, mem, n)
                              /\ mem[k] \in Brought(w, mem, n) => mem[j] < mem[k]
  PROVE  InOrder(Writer!Extend(w, mem, n))
  <1> DEFINE New(k) == mem[k] # 0 /\ mem[k] \notin ToSet(w)
             block == [k \in 1 .. n |-> IF New(k) THEN mem[k] ELSE 0]
             x == Writer!Extend(w, mem, n)
  <1>1. n \in Nat /\ \A k \in 1 .. n : mem[k] \in Nat
    BY CompatAssumption
  <1>2. x = IF \E k \in 1 .. n : New(k) THEN w \o block ELSE w
    BY DEF Writer!Extend, Writer!ToSet, ToSet
  <1>3. CASE ~ \E k \in 1 .. n : New(k) BY <1>2, <1>3
  <1>4. CASE \E k \in 1 .. n : New(k)
    <2>1. block \in Seq(Nat) /\ Len(block) = n BY <1>1
    <2>2. w \in Seq(Nat) /\ Len(w) \in Nat BY DEF Stream
    <2>3. x = w \o block BY <1>2, <1>4
    <2>4. \A k \in 1 .. n : /\ block[k] = IF New(k) THEN mem[k] ELSE 0
                            /\ block[k] # 0 => block[k] = mem[k] /\ mem[k] \in Brought(w, mem, n)
      BY DEF Brought
    <2> HIDE DEF x, block
    <2>5. /\ x \in Seq(Nat) /\ Len(x) = Len(w) + n
          /\ \A i \in 1 .. Len(w) + n : x[i] = IF i <= Len(w) THEN w[i] ELSE block[i - Len(w)]
      BY <2>1, <2>2, <2>3, ConcatProperties
    <2> SUFFICES ASSUME NEW j \in DOMAIN x, NEW k \in DOMAIN x,
                        j < k, x[j] # 0, x[k] # 0
                 PROVE  x[j] < x[k]
      BY DEF InOrder, x
    <2>6. j \in 1 .. Len(w) + n /\ k \in 1 .. Len(w) + n BY <2>5
    <2>7. CASE k <= Len(w)
      <3>1. j \in DOMAIN w /\ k \in DOMAIN w /\ x[j] = w[j] /\ x[k] = w[k]
        BY <2>2, <2>5, <2>6, <2>7
      <3> QED BY <3>1 DEF InOrder
    <2>8. CASE ~(k <= Len(w))
      <3>1. k - Len(w) \in 1 .. n /\ x[k] = block[k - Len(w)] BY <1>1, <2>2, <2>5, <2>6, <2>8
      <3>2. x[k] = mem[k - Len(w)] /\ x[k] \in Brought(w, mem, n) BY <2>4, <3>1
      <3>3. CASE j <= Len(w)
        <4>1. j \in DOMAIN w /\ x[j] = w[j] BY <2>2, <2>5, <2>6, <3>3
        <4>2. x[j] \in ToSet(w) \ {0} BY <4>1 DEF ToSet
        <4> QED BY <3>2, <4>2
      <3>4. CASE ~(j <= Len(w))
        <4>1. j - Len(w) \in 1 .. n /\ x[j] = block[j - Len(w)]
          BY <1>1, <2>2, <2>5, <2>6, <3>4
        <4>2. x[j] = mem[j - Len(w)] /\ x[j] \in Brought(w, mem, n) BY <2>4, <4>1
        <4>3. j - Len(w) < k - Len(w) BY <2>2, <2>6
        <4> QED BY <3>1, <3>2, <4>1, <4>2, <4>3
      <3> QED BY <3>3, <3>4
    <2> QED BY <2>2, <2>6, <2>7, <2>8
  <1> QED BY <1>3, <1>4

(* A write over the beginning of a file puts the bytes of the buffer there *)
(* and leaves the others where they are.                                   *)
LEMMA OverwriteIs ==
  ASSUME NEW w \in Stream, NEW mem \in [1 .. Size -> Nat], NEW n \in 0 .. Size
  PROVE  /\ Writer!Overwrite(w, mem, n) \in Stream
         /\ 1 .. n \subseteq DOMAIN Writer!Overwrite(w, mem, n)
         /\ DOMAIN w \subseteq DOMAIN Writer!Overwrite(w, mem, n)
         /\ \A k \in DOMAIN Writer!Overwrite(w, mem, n) :
              \/ (k \in 1 .. n /\ Writer!Overwrite(w, mem, n)[k] = mem[k])
              \/ (/\ k \in DOMAIN w /\ k \notin 1 .. n
                  /\ Writer!Overwrite(w, mem, n)[k] = w[k])
  <1> DEFINE x == Writer!Overwrite(w, mem, n)
  <1>1. n \in Nat /\ Size \in Nat /\ n <= Size BY CompatAssumption
  <1>2. DOMAIN w = 1 .. Len(w) /\ \A k \in 1 .. Len(w) : w[k] \in Nat BY DEF Stream
  <1>3. Len(w) \in Nat BY DEF Stream
  <1>4. PICK m \in Nat : m = IF n < Len(w) THEN Len(w) ELSE n BY <1>1, <1>3
  <1>5. n <= m /\ Len(w) <= m BY <1>1, <1>3, <1>4
  <1>6. 1 .. n \subseteq 1 .. m BY <1>1, <1>5
  <1>7. 1 .. Len(w) \subseteq 1 .. m BY <1>3, <1>5
  <1>8. x = [k \in 1 .. m |-> IF k <= n THEN mem[k] ELSE w[k]]
    BY <1>4 DEF Writer!Overwrite
  <1> HIDE DEF x
  <1>9. \A k \in 1 .. m : k <= n \/ k \in 1 .. Len(w) BY <1>1, <1>3, <1>4
  <1>10. \A k \in 1 .. m : k <= n <=> k \in 1 .. n BY <1>1
  <1>11. ASSUME NEW k \in 1 .. m
         PROVE  (k \in 1 .. n /\ x[k] = mem[k]) \/ (k \in 1 .. Len(w) /\ k \notin 1 .. n /\ x[k] = w[k])
    <2>1. x[k] = IF k <= n THEN mem[k] ELSE w[k] BY <1>8
    <2> QED BY <1>9, <1>10, <2>1
  <1>12. \A k \in 1 .. n : mem[k] \in Nat
    <2>1. 1 .. n \subseteq 1 .. Size BY <1>1
    <2> QED BY <2>1
  <1>13. \A k \in 1 .. m : x[k] \in Nat BY <1>2, <1>11, <1>12
  <1>14. DOMAIN x = 1 .. m BY <1>8
  <1>15. x \in [1 .. m -> Nat] BY <1>8, <1>13
  <1>16. x \in Seq(Nat) BY <1>15
  <1> QED BY <1>2, <1>6, <1>7, <1>11, <1>14, <1>16 DEF Stream, x

(* The bytes of w that stay when mem is written: on a file those that mem  *)
(* has at the same place, on a stream all.                                 *)
Stays(w, mem, b) ==
  seekable => \A k \in DOMAIN w : w[k] = b => k \in 1 .. Size /\ mem[k] = b

(* What a write does to the wire, stream or file.                          *)
LEMMA WrittenSet ==
  ASSUME NEW w \in Stream, NEW mem \in [1 .. Size -> Nat], NEW n \in 0 .. Size
  PROVE  /\ Writer!Written(w, mem, n) \in Stream
         /\ ToSet(Writer!Written(w, mem, n)) \ {0} \subseteq
              (ToSet(w) \ {0}) \union Brought(w, mem, n)
         /\ Brought(w, mem, n) \subseteq ToSet(Writer!Written(w, mem, n))
         /\ \A b \in ToSet(w) \ {0} :
              Stays(w, mem, b) => b \in ToSet(Writer!Written(w, mem, n))
  <1>1. CASE ~seekable
    <2>1. Writer!Written(w, mem, n) = Writer!Extend(w, mem, n)
      BY <1>1 DEF Writer!Written
    <2> QED BY <2>1, ExtendSet
  <1>2. CASE seekable
    <2> DEFINE x == Writer!Overwrite(w, mem, n)
    <2>1. Writer!Written(w, mem, n) = x BY <1>2 DEF Writer!Written
    <2>2. /\ x \in Stream /\ 1 .. n \subseteq DOMAIN x /\ DOMAIN w \subseteq DOMAIN x
          /\ \A k \in DOMAIN x :
               (k \in 1 .. n /\ x[k] = mem[k]) \/ (k \in DOMAIN w /\ k \notin 1 .. n /\ x[k] = w[k])
      BY OverwriteIs
    <2> HIDE DEF x
    <2>3. ASSUME NEW b \in ToSet(x) \ {0}
          PROVE  b \in (ToSet(w) \ {0}) \union Brought(w, mem, n)
      <3>1. PICK k \in DOMAIN x : x[k] = b BY DEF ToSet
      <3>2. (b = mem[k] /\ k \in 1 .. n) \/ b \in ToSet(w) BY <2>2, <3>1 DEF ToSet
      <3> QED BY <3>2 DEF Brought
    <2>4. ASSUME NEW k \in 1 .. n PROVE mem[k] \in ToSet(x)
      <3>1. k \in DOMAIN x /\ x[k] = mem[k] BY <2>2
      <3> QED BY <3>1 DEF ToSet
    <2>5. Brought(w, mem, n) \subseteq ToSet(x) BY <2>4 DEF Brought
    <2>6. ASSUME NEW b \in ToSet(w) \ {0}, Stays(w, mem, b) PROVE b \in ToSet(x)
      <3>1. PICK k \in DOMAIN w : w[k] = b BY DEF ToSet
      <3>2. mem[k] = b BY <1>2, <2>6, <3>1 DEF Stays
      <3>3. k \in DOMAIN x /\ x[k] = b BY <2>2, <3>1, <3>2
      <3> QED BY <3>3 DEF ToSet
    <2> QED BY <2>1, <2>2, <2>3, <2>5, <2>6
  <1> QED BY <1>1, <1>2

(* The wire of the writer in the words of the lemmas above.                *)
LEMMA WireIs ==
  /\ OnWire = ToSet(wire) \ {0} /\ OnWire' = ToSet(wire') \ {0}
  /\ FirstInOrder <=>
       IF seekable THEN \A k \in DOMAIN wire : wire[k] > since => wire[k] = since + k
                   ELSE cut = {} => InOrder(wire)
  /\ FirstInOrder' <=>
       IF seekable' THEN \A k \in DOMAIN wire' : wire'[k] > since' => wire'[k] = since' + k
                    ELSE cut' = {} => InOrder(wire')
  /\ FlushedOnWire <=> /\ First .. flushed \subseteq OnWire \union cut \union refused
                       /\ unreported => write = "failed"
  /\ FlushedOnWire' <=> /\ First' .. flushed' \subseteq OnWire' \union cut' \union refused'
                        /\ unreported' => write' = "failed"
  <1>1. /\ OnWire = ToSet(wire) \ {0} /\ OnWire' = ToSet(wire') \ {0}
        /\ OnWire = Writer!OnWire
    BY DEF OnWire, Writer!OnWire, Writer!ToSet, ToSet
  <1>2. /\ FirstInOrder <=>
             IF seekable THEN \A k \in DOMAIN wire : wire[k] > since => wire[k] = since + k
                         ELSE cut = {} => InOrder(wire)
        /\ FirstInOrder' <=>
             IF seekable' THEN \A k \in DOMAIN wire' : wire'[k] > since' => wire'[k] = since' + k
                          ELSE cut' = {} => InOrder(wire')
    BY DEF FirstInOrder, Writer!FirstInOrder, InOrder
  <1>3. /\ FlushedOnWire <=> /\ First .. flushed \subseteq OnWire \union cut \union refused
                             /\ unreported => write = "failed"
        /\ FlushedOnWire' <=>
             /\ First' .. flushed' \subseteq OnWire' \union cut' \union refused'
             /\ unreported' => write' = "failed"
    BY DEF FlushedOnWire, Writer!FlushedOnWire, OnWire, First
  <1> QED BY <1>1, <1>2, <1>3

LEMMA WriterInit == Init => WriterInv
  <1> SUFFICES ASSUME Init PROVE WriterInv OBVIOUS
  <1>1. /\ place = "adapter" /\ write = "none" /\ memory = [k \in 1 .. Size |-> 0]
        /\ offered = 0 /\ since = 0 /\ flushed = 0
        /\ carries = {} /\ cut = {} /\ refused = {}
        /\ wire = <<>> /\ unreported = FALSE /\ seekable \in BOOLEAN
    BY DEF Init, Writer!Init
  <1>2. OnWire = {} /\ InOrder(wire) /\ DOMAIN wire = {}
    <2>1. DOMAIN wire = {} BY <1>1
    <2> QED BY <2>1, WireIs DEF ToSet, InOrder
  <1>3. First = 1 /\ 1 .. 0 = {} /\ Owed = {} BY <1>1 DEF First, Owed
  <1>4. WriterTypes
    <2>1. memory \in [1 .. Size -> 0 .. offered] BY <1>1
    <2>2. wire \in Stream BY <1>1, Joined
    <2>3. flushed \in 0 .. offered /\ since \in 0 .. offered /\ offered \in Nat BY <1>1
    <2> QED BY <1>1, <1>2, <2>1, <2>2, <2>3 DEF WriterTypes
  <1>5. FlushedOnWire /\ FirstInOrder BY <1>1, <1>2, <1>3, WireIs
  <1>6. InPlace BY <1>1, <1>2 DEF InPlace
  <1> QED BY <1>1, <1>3, <1>4, <1>5, <1>6
       DEF WriterInv, BufferPlace, Accounted, NextInOrder

(* Steps that leave the bytes where they are: a write is collected, or its *)
(* failure is returned, or nothing changes.                                *)
LEMMA WriterQuiet ==
  ASSUME WriterInv, UNCHANGED <<seekable, memory, offered, since, wire, cut, refused>>,
         \/ UNCHANGED <<write, place, carries, unreported, flushed>>
         \/ Writer!PollFailed
         \/ Writer!FlushOk
  PROVE  WriterInv'
  <1> USE DEF WriterInv
  <1>1. OnWire' = OnWire /\ First' = First /\ Owed' = Owed BY WireIs DEF First, Owed
  <1>2. FirstInOrder' /\ InPlace'
    BY WireIs DEF InPlace
  <1>3. CASE UNCHANGED <<write, place, carries, unreported, flushed>>
    <2>1. FlushedOnWire' <=> FlushedOnWire BY <1>1, <1>3, WireIs
    <2> QED BY <1>1, <1>2, <1>3, <2>1
         DEF WriterTypes, BufferPlace, Accounted, NextInOrder
  <1>4. CASE Writer!PollFailed
    <2>1. /\ write = "failed" /\ write' = "none" /\ place' = "lost"
          /\ unreported' = FALSE /\ carries' = {} /\ flushed' = flushed
      BY <1>4 DEF Writer!PollFailed
    <2>2. FlushedOnWire' BY <1>1, <2>1, WireIs DEF Accounted
    <2>3. WriterTypes' BY <1>1, <2>1 DEF WriterTypes
    <2> QED BY <1>1, <1>2, <2>1, <2>2, <2>3 DEF BufferPlace, Accounted, NextInOrder
  <1>5. CASE Writer!FlushOk
    <2>1. /\ write \in {"none", "done"} /\ flushed' = offered /\ write' = "none"
          /\ place' = IF write = "done" THEN "adapter" ELSE place
          /\ carries' = {} /\ unreported' = unreported
      BY <1>5 DEF Writer!FlushOk
    <2>2. ~unreported /\ Owed \subseteq OnWire \union cut \union refused
      BY <2>1, WireIs DEF Accounted
    <2>3. FlushedOnWire' BY <1>1, <2>1, <2>2, WireIs DEF Owed
    <2>4. WriterTypes' BY <1>1, <2>1 DEF WriterTypes, BufferPlace
    <2>5. BufferPlace' BY <2>1 DEF BufferPlace, WriterTypes
    <2> QED BY <1>1, <1>2, <2>1, <2>2, <2>3, <2>4, <2>5 DEF Accounted, NextInOrder
  <1> QED BY <1>3, <1>4, <1>5

(* What is owed and on the wire stays there when the buffer is written.    *)
LEMMA OwedStays ==
  ASSUME WriterTypes, InPlace, NEW mem \in [1 .. Size -> Nat], NEW b \in OnWire,
         seekable => b > since /\ mem = memory
  PROVE  Stays(wire, mem, b)
  BY DEF InPlace, Stays

(* The kernel ends a write: what it brought is on the wire, what it left   *)
(* is cut off, and what failed is refused.                                 *)
LEMMA WriterAnswered ==
  ASSUME WriterInv, Writer!KernelWrite
  PROVE  WriterInv'
  <1> USE DEF WriterInv
  <1>1. /\ write = "queued"
        /\ UNCHANGED <<seekable, place, memory, offered, since, carries, flushed>>
        /\ refused = {} /\ ~unreported
    BY WireIs DEF Writer!KernelWrite, BufferPlace, Accounted
  <1>0. First' = First /\ Owed' = Owed BY <1>1 DEF First, Owed
  <1>2. CASE write' = "done" /\ UNCHANGED <<refused, unreported>>
             /\ \E n \in 1 .. Size : /\ wire' = Writer!Written(wire, memory, n)
                                     /\ cut' = cut \union (carries \ Writer!OnWire')
    <2>1. PICK n \in 1 .. Size : /\ wire' = Writer!Written(wire, memory, n)
                                 /\ cut' = cut \union (carries \ Writer!OnWire')
      BY <1>2
    <2>2. cut' = cut \union (carries \ OnWire') BY <2>1 DEF OnWire
    <2>3. /\ n \in 0 .. Size /\ memory \in [1 .. Size -> Nat] /\ wire \in Stream
          /\ 1 .. n \subseteq 1 .. Size
      BY CompatAssumption DEF WriterTypes
    <2>4. /\ wire' \in Stream /\ OnWire' \subseteq OnWire \union Brought(wire, memory, n)
          /\ \A b \in OnWire : Stays(wire, memory, b) => b \in OnWire'
      BY <2>1, <2>3, WrittenSet, WireIs
    <2>5. ASSUME NEW c \in Brought(wire, memory, n) PROVE c \in 1 .. offered /\ c \notin OnWire
      <3>1. PICK k \in 1 .. n : c = memory[k] BY DEF Brought
      <3>2. memory[k] \in 0 .. offered BY <2>3, <3>1 DEF WriterTypes
      <3> QED BY <3>1, <3>2, WireIs DEF Brought, WriterTypes
    <2>6. OnWire \intersect Owed \subseteq OnWire'
      <3> SUFFICES ASSUME NEW b \in OnWire \intersect Owed PROVE b \in OnWire' OBVIOUS
      <3>1. seekable => b > since BY DEF Owed, First, WriterTypes
      <3>2. Stays(wire, memory, b) BY <2>3, <3>1, OwedStays
      <3> QED BY <2>4, <3>2
    <2>7. WriterTypes' BY <1>1, <1>2, <2>2, <2>4, <2>5 DEF WriterTypes
    <2>8. First .. flushed \subseteq Owed BY DEF First, Owed, WriterTypes
    <2>9. FlushedOnWire' BY <1>0, <1>1, <1>2, <2>2, <2>6, <2>8, WireIs DEF Accounted
    <2>10. Accounted' BY <1>0, <1>1, <1>2, <2>2, <2>6, <2>9 DEF Accounted
    <2>11. InPlace'
      <3> SUFFICES ASSUME seekable, NEW k \in DOMAIN wire', wire'[k] > since
                   PROVE  k \in 1 .. Size /\ wire'[k] = memory[k]
        BY <1>1 DEF InPlace
      <3>1. wire' = Writer!Overwrite(wire, memory, n) BY <2>1 DEF Writer!Written
      <3>2. \A i \in DOMAIN Writer!Overwrite(wire, memory, n) :
              \/ (i \in 1 .. n /\ Writer!Overwrite(wire, memory, n)[i] = memory[i])
              \/ (/\ i \in DOMAIN wire /\ i \notin 1 .. n
                  /\ Writer!Overwrite(wire, memory, n)[i] = wire[i])
        BY <2>3, OverwriteIs, Zenon
      <3>3. (k \in 1 .. n /\ wire'[k] = memory[k]) \/ (k \in DOMAIN wire /\ wire'[k] = wire[k])
        BY <3>1, <3>2
      <3> QED BY <2>3, <3>3 DEF InPlace
    <2>12. FirstInOrder'
      <3>1. CASE seekable
        <4> SUFFICES ASSUME NEW k \in DOMAIN wire', wire'[k] > since
                     PROVE  wire'[k] = since + k
          BY <1>1, <3>1, WireIs
        <4> QED BY <1>1, <2>11, <3>1 DEF InPlace
      <3>2. CASE ~seekable
        <4> SUFFICES ASSUME cut' = {} PROVE InOrder(wire') BY <1>1, <3>2, WireIs
        <4>1. cut = {} /\ InOrder(wire) BY <2>2, <3>2, WireIs
        <4>2. Brought(wire, memory, n) \subseteq carries
          BY <1>1, <2>5, <3>2, <4>1 DEF Accounted, Owed, First
        <4>3. \A b \in ToSet(wire) \ {0}, c \in Brought(wire, memory, n) : b < c
          BY <1>1, <3>2, <4>1, <4>2, WireIs DEF NextInOrder
        <4>4. \A j, k \in 1 .. n : j < k /\ memory[j] \in Brought(wire, memory, n)
                /\ memory[k] \in Brought(wire, memory, n) => memory[j] < memory[k]
          BY <1>1, <2>3, <3>2, <4>1, <4>2 DEF NextInOrder
        <4>5. wire' = Writer!Extend(wire, memory, n) BY <2>1, <3>2 DEF Writer!Written
        <4> QED BY <2>3, <4>1, <4>3, <4>4, <4>5, ExtendOrder
      <3> QED BY <3>1, <3>2
    <2> QED BY <1>1, <1>2, <2>7, <2>10, <2>11, <2>12 DEF BufferPlace, NextInOrder
  <1>3. CASE write' = "failed" /\ unreported' = TRUE
             /\ refused' = refused \union (carries \ Writer!OnWire) /\ UNCHANGED <<wire, cut>>
    <2>1. OnWire' = OnWire /\ FirstInOrder' /\ InPlace' BY <1>1, <1>3, WireIs DEF InPlace
    <2>2. refused' = refused \union (carries \ OnWire) BY <1>3 DEF OnWire
    <2>3. FlushedOnWire' BY <1>0, <1>1, <1>3, <2>1, <2>2, WireIs DEF Accounted
    <2>4. WriterTypes' BY <1>1, <1>3, <2>1, <2>2 DEF WriterTypes
    <2> QED BY <1>0, <1>1, <1>3, <2>1, <2>2, <2>3, <2>4
         DEF BufferPlace, Accounted, NextInOrder
  <1> QED BY <1>2, <1>3 DEF Writer!KernelWrite

(* A call that accepts bytes. Older bytes in the buffer are all on the     *)
(* stream by then, unless a short write left some behind.                  *)
LEMMA WriterStarts ==
  ASSUME WriterInv, NEW n \in Nat, Writer!PollStarts(n)
  PROVE  WriterInv'
  <1> USE DEF WriterInv
  <1> DEFINE fresh == (offered + 1) .. (offered + n)
  <1>1. PICK longest \in 0 .. Size :
          /\ memory' = Writer!CopyIn(n)
          /\ wire' = Writer!Written(wire, Writer!CopyIn(n), longest)
          /\ IF longest = 0
               THEN UNCHANGED cut
               ELSE \E first \in 1 .. longest :
                      cut' = cut \union (fresh \ Writer!ToSet(Writer!Written(wire, Writer!CopyIn(n), first)))
          /\ offered' = offered + n
          /\ since' = IF n = 0 THEN since ELSE offered
          /\ \/ /\ write' = "queued" /\ place' = "write"
                /\ carries' = IF longest = 0 THEN fresh ELSE {}
                /\ UNCHANGED refused
             \/ /\ write' = "none" /\ place' = "lost"
                /\ carries' = {}
                /\ refused' = refused \union (fresh \ Writer!OnWire')
    BY DEF Writer!PollStarts
  <1> DEFINE mem == memory'
  <1>2. /\ UNCHANGED <<seekable, unreported, flushed>>
        /\ write = "done" \/ (write = "none" /\ place = "adapter")
    BY DEF Writer!PollStarts, Writer!ReadyToWrite
  <1>3. /\ refused = {} /\ ~unreported
        /\ Owed \subseteq OnWire \union cut
    BY <1>2, WireIs DEF BufferPlace, Accounted
  <1>4. /\ mem = [k \in 1 .. Size |-> IF k <= n THEN offered + k ELSE memory[k]]
    BY <1>1 DEF Writer!CopyIn
  <1>5. /\ Size \in Nat /\ offered \in Nat /\ since \in 0 .. offered /\ wire \in Stream
        /\ mem \in [1 .. Size -> 0 .. offered + n] /\ mem \in [1 .. Size -> Nat]
        /\ \A k \in 1 .. Size : memory[k] \in 0 .. offered
    <2>1. Size \in Nat /\ offered \in Nat /\ since \in 0 .. offered /\ wire \in Stream
      BY CompatAssumption DEF WriterTypes
    <2>2. \A k \in 1 .. Size : memory[k] \in 0 .. offered BY DEF WriterTypes
    <2>3. \A k \in 1 .. Size : mem[k] \in 0 .. offered + n BY <1>4, <2>1, <2>2
    <2>4. mem \in [1 .. Size -> 0 .. offered + n] BY <1>4, <2>3
    <2>5. mem \in [1 .. Size -> Nat] BY <1>4, <2>1, <2>3
    <2> QED BY <2>1, <2>2, <2>4, <2>5
  <1> HIDE DEF mem
  <1>6. /\ wire' = Writer!Written(wire, mem, longest) /\ wire' \in Stream
        /\ OnWire' \subseteq OnWire \union Brought(wire, mem, longest)
        /\ Brought(wire, mem, longest) \subseteq OnWire'
        /\ \A b \in OnWire : Stays(wire, mem, b) => b \in OnWire'
    <2>1. wire' = Writer!Written(wire, mem, longest) BY <1>1 DEF mem
    <2>2. 0 \notin Brought(wire, mem, longest) BY DEF Brought
    <2> QED BY <1>5, <2>1, <2>2, WrittenSet, WireIs
  <1>7. ASSUME NEW c \in Brought(wire, mem, longest)
        PROVE  /\ c \in 1 .. offered + n /\ c \notin OnWire
               /\ c \in 1 .. offered \/ c \in fresh
    <2>1. PICK k \in 1 .. longest : c = mem[k] BY DEF Brought
    <2>2. k \in 1 .. Size BY <1>5, <2>1
    <2>3. mem[k] \in 0 .. offered + n BY <1>5, <2>2
    <2> QED BY <1>5, <2>1, <2>3, WireIs DEF Brought
  <1>8. cut \subseteq cut' /\ cut' \subseteq cut \union fresh
        /\ (longest # 0 => fresh \subseteq OnWire' \union cut')
    <2>1. CASE longest = 0 BY <1>1, <2>1
    <2>2. CASE longest # 0
      <3>1. PICK first \in 1 .. longest :
              cut' = cut \union (fresh \ ToSet(Writer!Written(wire, mem, first)))
        <4>1. \E first \in 1 .. longest :
                cut' = cut \union (fresh \ Writer!ToSet(Writer!Written(wire, mem, first)))
          BY <1>1, <2>2 DEF mem
        <4> QED BY <4>1 DEF Writer!ToSet, ToSet
      <3>2. first \in 0 .. Size /\ 1 .. first \subseteq 1 .. longest BY <1>5
      <3>3. ToSet(Writer!Written(wire, mem, first)) \ {0} \subseteq
              (ToSet(wire) \ {0}) \union Brought(wire, mem, first)
        BY <1>5, <3>2, WrittenSet
      <3>4. Brought(wire, mem, first) \subseteq Brought(wire, mem, longest)
        BY <3>2 DEF Brought
      <3>5. 0 \notin fresh /\ fresh \intersect OnWire = {} BY <1>5 DEF WriterTypes
      <3>6. ToSet(Writer!Written(wire, mem, first)) \intersect fresh \subseteq OnWire'
        <4> HIDE DEF fresh
        <4> QED BY <1>6, <3>3, <3>4, <3>5, WireIs
      <3> HIDE DEF fresh
      <3> QED BY <3>1, <3>6
    <2> QED BY <2>1, <2>2
  <1>9. fresh \subseteq 1 .. offered + n /\ 1 .. offered \subseteq 1 .. offered + n
        /\ 1 .. offered + n = (1 .. offered) \union fresh
    BY <1>5
  <1>10. \/ /\ write' = "queued" /\ place' = "write"
            /\ carries' = IF longest = 0 THEN fresh ELSE {}
            /\ refused' = {}
         \/ /\ write' = "none" /\ place' = "lost" /\ carries' = {}
            /\ refused' = fresh \ OnWire'
    BY <1>1, <1>3 DEF OnWire
  <1>11. offered' = offered + n /\ offered + n \in Nat /\ since' \in 0 .. offered
         /\ since' \in 0 .. offered'
    BY <1>1, <1>5
  (* what is owed is what was owed before and the fresh bytes              *)
  <1>12. /\ Owed' \subseteq Owed \union fresh /\ fresh \subseteq Owed'
         /\ Owed' \intersect OnWire \subseteq OnWire'
         /\ First' .. flushed' \subseteq First .. flushed
         /\ First' .. flushed' \subseteq Owed'
    <2>1. CASE ~seekable
      <3>1. First = 1 /\ First' = 1 BY <1>2, <2>1 DEF First
      <3>2. \A b \in OnWire : Stays(wire, mem, b) BY <2>1 DEF Stays
      <3>3. Owed' \subseteq Owed \union fresh /\ fresh \subseteq Owed'
        BY <1>5, <1>11, <3>1 DEF Owed
      <3>4. First' .. flushed' \subseteq Owed'
        BY <1>2, <1>5, <1>11, <3>1 DEF Owed, WriterTypes
      <3> QED BY <1>2, <1>6, <3>1, <3>2, <3>3, <3>4
    <2>2. CASE seekable /\ n = 0
      <3>1. mem = memory
        <4>1. \A k \in 1 .. Size : ~(k <= n) BY <2>2
        <4> QED BY <1>4, <4>1 DEF WriterTypes
      <3>2. since' = since /\ First' = First /\ offered' = offered /\ Owed' = Owed
        BY <1>1, <1>2, <1>5, <1>11, <2>2 DEF First, Owed
      <3>3. ASSUME NEW b \in OnWire \intersect Owed PROVE b \in OnWire'
        <4>1. b > since BY <2>2 DEF Owed, First, WriterTypes
        <4>2. Stays(wire, mem, b) BY <1>5, <3>1, <4>1, OwedStays
        <4> QED BY <1>6, <4>2
      <3>4. fresh = {} BY <1>5, <2>2
      <3>5. First .. flushed \subseteq Owed BY <1>5, <2>2 DEF First, Owed, WriterTypes
      <3> QED BY <1>2, <3>2, <3>3, <3>4, <3>5
    <2>3. CASE seekable /\ n # 0
      <3>1. First' = offered + 1 /\ Owed' = fresh
        BY <1>1, <1>2, <1>11, <2>3 DEF First, Owed
      <3>2. fresh \intersect OnWire = {} BY <1>5 DEF WriterTypes
      <3>3. First' .. flushed' = {} BY <1>2, <1>5, <3>1 DEF WriterTypes
      <3> QED BY <3>1, <3>2, <3>3
    <2> QED BY <2>1, <2>2, <2>3
  <1>13. WriterTypes'
    <2>1. flushed' \in 0 .. offered' BY <1>2, <1>5, <1>11 DEF WriterTypes
    <2>2. OnWire' \subseteq 1 .. offered' BY <1>6, <1>7, <1>9, <1>11 DEF WriterTypes
    <2>3. /\ carries' \in SUBSET (1 .. offered') /\ refused' \in SUBSET (1 .. offered')
          /\ cut' \in SUBSET (1 .. offered')
      BY <1>8, <1>9, <1>10, <1>11 DEF WriterTypes
    <2>4. memory' \in [1 .. Size -> 0 .. offered'] BY <1>5, <1>11 DEF mem
    <2>5. unreported' \in BOOLEAN /\ seekable' \in BOOLEAN BY <1>2 DEF WriterTypes
    <2> QED BY <1>6, <1>10, <1>11, <2>1, <2>2, <2>3, <2>4, <2>5 DEF WriterTypes
  <1>14. Accounted'
    <2>1. Owed' \subseteq OnWire' \union cut' \union refused' \union carries'
      <3> HIDE DEF fresh
      <3> QED BY <1>3, <1>8, <1>10, <1>12
    <2>2. FlushedOnWire'
      <3>1. First .. flushed \subseteq OnWire \union cut BY <1>3, WireIs DEF Accounted
      <3> QED BY <1>2, <1>3, <1>8, <1>12, <3>1, WireIs
    <2> QED BY <1>10, <1>12, <2>1, <2>2 DEF Accounted
  <1>15. BufferPlace' BY <1>10 DEF BufferPlace
  <1>16. InPlace'
    <2>1. ASSUME NEW k \in 1 .. Size, mem[k] > since' PROVE mem[k] = since' + k
      <3>1. CASE n = 0 BY <1>1, <1>4, <1>5, <2>1, <3>1 DEF InPlace
      <3>2. CASE n # 0 BY <1>1, <1>4, <1>5, <2>1, <3>2
      <3> QED BY <3>1, <3>2
    <2>2. ASSUME seekable, NEW k \in DOMAIN wire', wire'[k] > since'
          PROVE  k \in 1 .. Size /\ wire'[k] = mem[k]
      <3>1. wire' = Writer!Overwrite(wire, mem, longest) BY <1>6, <2>2 DEF Writer!Written
      <3>2. (k \in 1 .. longest /\ wire'[k] = mem[k]) \/ (k \in DOMAIN wire /\ wire'[k] = wire[k])
        BY <1>5, <3>1, OverwriteIs
      <3>3. CASE k \in 1 .. longest /\ wire'[k] = mem[k] BY <1>5, <3>3
      <3>4. CASE k \in DOMAIN wire /\ wire'[k] = wire[k]
        <4>1. wire[k] \in Nat /\ wire[k] # 0 BY <1>5, <1>11, <2>2, <3>4 DEF Stream
        <4>2. wire[k] \in OnWire BY <3>4, <4>1, WireIs DEF ToSet
        <4>3. wire[k] \in 1 .. offered BY <4>2 DEF WriterTypes
        <4>4. n = 0 /\ since' = since BY <1>1, <1>5, <2>2, <3>4, <4>1, <4>3
        <4>5. k \in 1 .. Size /\ wire[k] = memory[k] BY <2>2, <3>4, <4>4 DEF InPlace
        <4>6. mem[k] = memory[k] BY <1>4, <4>4, <4>5
        <4> QED BY <3>4, <4>5, <4>6
      <3> QED BY <3>2, <3>3, <3>4
    <2> QED BY <1>2, <2>1, <2>2 DEF InPlace, mem
  (* the bytes of the buffer that are not on the stream are the fresh ones *)
  <1>17. ASSUME NEW j \in 1 .. Size, mem[j] \in fresh
         PROVE  j <= n /\ mem[j] = offered + j
    <2>1. ~(j <= n) => mem[j] = memory[j] /\ memory[j] \in 0 .. offered BY <1>4, <1>5
    <2>2. j <= n BY <1>5, <1>17, <2>1
    <2> QED BY <1>4, <2>2
  <1>18. FirstInOrder'
    <2>1. CASE seekable
      <3> SUFFICES ASSUME NEW k \in DOMAIN wire', wire'[k] > since'
                   PROVE  wire'[k] = since' + k
        BY <1>2, <2>1, WireIs
      <3> QED BY <1>2, <1>16, <2>1 DEF InPlace
    <2>2. CASE ~seekable
      <3> SUFFICES ASSUME cut' = {} PROVE InOrder(wire') BY <1>2, <2>2, WireIs
      <3>1. cut = {} /\ InOrder(wire) /\ 1 .. offered \subseteq OnWire
        BY <1>3, <1>8, <2>2, WireIs DEF Owed, First
      <3>2. Brought(wire, mem, longest) \subseteq fresh BY <1>7, <3>1
      <3>3. \A b \in ToSet(wire) \ {0}, c \in Brought(wire, mem, longest) : b < c
        <4>1. \A b \in 1 .. offered, c \in fresh : b < c BY <1>5
        <4> QED BY <3>2, <4>1, WireIs DEF WriterTypes
      <3>4. \A j, k \in 1 .. longest : j < k /\ mem[j] \in Brought(wire, mem, longest)
              /\ mem[k] \in Brought(wire, mem, longest) => mem[j] < mem[k]
        <4>1. 1 .. longest \subseteq 1 .. Size BY <1>5
        <4> HIDE DEF fresh
        <4>2. \A j \in 1 .. longest : mem[j] \in Brought(wire, mem, longest) => mem[j] = offered + j
          BY <1>17, <3>2, <4>1
        <4> QED BY <1>5, <4>2
      <3>5. wire' = Writer!Extend(wire, mem, longest) BY <1>6, <2>2 DEF Writer!Written
      <3> QED BY <1>5, <3>1, <3>3, <3>4, <3>5, ExtendOrder
    <2> QED BY <2>1, <2>2
  <1>19. cut' = {} /\ ~seekable' => NextInOrder'
    <2> SUFFICES ASSUME cut' = {}, write' = "queued", longest = 0
                 PROVE  /\ \A b \in OnWire', c \in fresh : b < c
                        /\ \A j, k \in 1 .. Size :
                             j < k /\ mem[j] \in fresh /\ mem[k] \in fresh => mem[j] < mem[k]
      BY <1>10 DEF NextInOrder, mem
    <2>1. 1 .. longest = {} OBVIOUS
    <2>2. OnWire' \subseteq OnWire BY <1>6, <2>1 DEF Brought
    <2>3. \A b \in OnWire', c \in fresh : b < c BY <1>5, <2>2 DEF WriterTypes
    <2>4. \A j \in 1 .. Size : mem[j] \in fresh => mem[j] = offered + j BY <1>17
    <2>5. \A j, k \in 1 .. Size :
            j < k /\ mem[j] \in fresh /\ mem[k] \in fresh => mem[j] < mem[k]
      <3> HIDE DEF fresh
      <3> QED BY <1>5, <2>4
    <2> QED BY <2>3, <2>5
  <1> QED BY <1>13, <1>14, <1>15, <1>16, <1>18, <1>19

(* Calls, answers, and what the reader and the drop of the file leave.     *)
LEMMA WriterHolds == WriterInv /\ [Next]_vars => WriterInv'
  <1> SUFFICES ASSUME WriterInv, [Next]_vars PROVE WriterInv' OBVIOUS
  <1>1. CASE UNCHANGED writeVars BY <1>1, WriterQuiet DEF writeVars
  <1>2. CASE Writer!KernelWrite BY <1>2, WriterAnswered
  <1>3. CASE Writer!PollFlush
    BY <1>3, WriterQuiet DEF Writer!PollFlush, Writer!PollPending, Writer!PollFailed,
                             Writer!FlushOk, Writer!vars
  <1>4. ASSUME NEW n \in 0 .. MaxOffer, Writer!PollWrite(n) PROVE WriterInv'
    <2>1. n \in Nat BY CompatAssumption
    <2>2. CASE Writer!PollStarts(n) BY <2>1, <2>2, WriterStarts
    <2>3. CASE ~Writer!PollStarts(n)
      BY <1>4, <2>3, WriterQuiet DEF Writer!PollWrite, Writer!PollPending,
         Writer!PollFailed, Writer!PollUnavailable, Writer!vars
    <2> QED BY <2>2, <2>3
  <1> QED BY <1>1, <1>2, <1>3, <1>4 DEF Next, Read, Write, Kernel, Drop, vars

---------------------------------------------------------------------------
LEMMA OpenTyped == (Init => open \in BOOLEAN)
                   /\ (open \in BOOLEAN /\ [Next]_vars => open' \in BOOLEAN)
  BY DEF Init, Next, Read, Write, Kernel, Drop, vars

LEMMA Inductive == Spec => [](StreamInv /\ WriterInv /\ open \in BOOLEAN)
  <1>1. Init => StreamInv /\ WriterInv /\ open \in BOOLEAN
    BY InitHolds, WriterInit, OpenTyped
  <1>2. (StreamInv /\ WriterInv /\ open \in BOOLEAN) /\ [Next]_vars
          => (StreamInv /\ WriterInv /\ open \in BOOLEAN)'
    BY StepHolds, WriterHolds, OpenTyped
  <1> QED BY <1>1, <1>2, PTL DEF Spec

(* The variables have the types their comments say.                        *)
THEOREM TypeCorrect == Spec => []TypeOK
  <1>1. StreamInv /\ WriterInv /\ open \in BOOLEAN => TypeOK
    BY DEF StreamInv, WriterInv, TypeOK
  <1> QED BY Inductive, <1>1, PTL

(* poll_read of a File or Socket hands out the bytes the kernel took, each *)
(* once and in order, whatever the sizes of the callers' buffers           *)
(* (compat.rs 120-196).                                                    *)
THEOREM StreamsArriveWhole == Spec => []StreamIntact
  BY Inductive, PTL DEF StreamInv

(* poll_flush and poll_shutdown succeed only when every byte that          *)
(* poll_write reported (on a regular file, whose beginning each write      *)
(* overwrites, that the latest call reported) is on the wire, or was left  *)
(* behind by a short write, or failed and some call has returned the       *)
(* failure (compat.rs 244-337).                                            *)
THEOREM FlushesAreFlushes == Spec => []FlushedOnWire
  <1>1. StreamInv /\ WriterInv /\ open \in BOOLEAN => FlushedOnWire
    BY DEF WriterInv, Accounted
  <1> QED BY Inductive, <1>1, PTL

(* Although poll_write submits the whole buffer each time, with what       *)
(* earlier calls left in it, accepted bytes first appear on a stream in    *)
(* the order they were accepted, as long as no write is short; in a        *)
(* regular file those of the latest call are at the beginning, in order    *)
(* (compat.rs 276-293, safe_operations.rs 396-400).                        *)
THEOREM BytesGoOutInOrder == Spec => []FirstInOrder
  <1>1. StreamInv /\ WriterInv /\ open \in BOOLEAN => FirstInOrder
    BY DEF WriterInv
  <1> QED BY Inductive, <1>1, PTL
=============================================================================
