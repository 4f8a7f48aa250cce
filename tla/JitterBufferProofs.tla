------------------------- MODULE JitterBufferProofs --------------------------
(* The jitter buffer: no wake-up is lost, and the ring between its threads is *)
(* the lossy FIFO it promises to be, for every rate, prefill, chunk and count. *)
EXTENDS JitterBuffer, SequenceTheorems, TLAPS

-------------------------------------------------------------------------------
(* The byte ring is a FIFO that drops its oldest bytes: for every capacity,  *)
(* chunk and count.                                                          *)

\* A position at most one turn past the end, wrapped.
Turn(a, cap) == IF a < cap THEN a ELSE a - cap

\* Wrapping such a position is taking it modulo the capacity.
LEMMA Wrap ==
  ASSUME NEW cap \in Nat \ {0}, NEW a \in Nat, a < 2 * cap
  PROVE  a % cap = Turn(a, cap) /\ Turn(a, cap) \in 0 .. cap - 1
BY DEF Turn

\* The numbers of a well-formed ring, with the tail's position unwrapped.
LEMMA RingNumbers ==
  ASSUME NEW S, NEW r, RingOK(r, S)
  PROVE  /\ r.cap \in Nat /\ r.size \in Nat /\ r.size <= r.cap
         /\ r.head \in Nat /\ r.tail \in Nat
         /\ r.cap # 0 => /\ r.head < r.cap /\ r.tail < r.cap
                         /\ r.tail = Turn(r.head + r.size, r.cap)
         /\ r.cap = 0 => r.head = 0 /\ r.tail = 0
<1>1. /\ r.cap \in Nat /\ r.size \in Nat /\ r.size <= r.cap
      /\ r.head \in Nat /\ r.tail \in Nat
      /\ r.cap # 0 => /\ r.head < r.cap /\ r.tail < r.cap
                      /\ r.tail = (r.head + r.size) % r.cap
      /\ r.cap = 0 => r.head = 0 /\ r.tail = 0
  BY DEF RingOK
<1>2. ASSUME r.cap # 0
      PROVE  (r.head + r.size) % r.cap = Turn(r.head + r.size, r.cap)
  <2>1. /\ r.cap \in Nat \ {0} /\ r.head + r.size \in Nat
        /\ r.head + r.size < 2 * r.cap
    BY <1>1, <1>2
  <2> QED
    BY <2>1, Wrap, Zenon
<1> QED
  BY <1>1, <1>2

\* The fields of a well-formed ring are all it has.
LEMMA RingFields ==
  ASSUME NEW S, NEW r, RingOK(r, S)
  PROVE  /\ r.buf \in [0 .. r.cap - 1 -> S]
         /\ r = [buf |-> r.buf, cap |-> r.cap, head |-> r.head, tail |-> r.tail,
                 size |-> r.size]
BY DEF RingOK

\* The contents of a well-formed ring are a sequence of size bytes, each read
\* at its wrapped position.
LEMMA ContentsProperties ==
  ASSUME NEW S, NEW r, RingOK(r, S)
  PROVE  /\ Contents(r) \in Seq(S)
         /\ Len(Contents(r)) = r.size
         /\ \A k \in 1 .. r.size :
              Contents(r)[k] = r.buf[Turn(r.head + k - 1, r.cap)]
<1>1. /\ r.cap \in Nat /\ r.size \in Nat /\ r.size <= r.cap
      /\ r.head \in Nat /\ (r.cap # 0 => r.head < r.cap)
  BY RingNumbers
<1>2. ASSUME NEW k \in 1 .. r.size
      PROVE  /\ (r.head + k - 1) % r.cap = Turn(r.head + k - 1, r.cap)
             /\ (r.head + k - 1) % r.cap \in 0 .. r.cap - 1
  <2>1. r.head + k - 1 \in Nat /\ r.head + k - 1 < 2 * r.cap /\ r.cap \in Nat \ {0}
    BY <1>1
  <2> QED
    BY <2>1, Wrap
<1>3. \A k \in 1 .. r.size : r.buf[(r.head + k - 1) % r.cap] \in S
  BY <1>2, RingFields
<1>4. Contents(r) \in [1 .. r.size -> S]
  BY <1>3 DEF Contents
<1>5. Contents(r) \in Seq(S) /\ Len(Contents(r)) = r.size
  BY <1>1, <1>4, SeqDef
<1> QED
  BY <1>2, <1>5 DEF Contents

-----------------------------------------------------------------------------
(* A write of n bytes, fewer than the capacity.  Setting names what is     *)
(* known of its numbers, so that a proof step cites them as one fact.      *)

\* The old bytes dropped by a write of n bytes.
Overflow(cap, size, n) == IF size + n > cap THEN size + n - cap ELSE 0

Setting(cap, size, head, tail, n, ov) ==
  /\ cap \in Nat /\ cap # 0
  /\ size \in 0 .. cap /\ head \in 0 .. cap - 1
  /\ tail = Turn(head + size, cap)
  /\ n \in 1 .. cap - 1
  /\ ov = Overflow(cap, size, n)

\* The positions a fitting write computes: overflow, new head and new tail.
LEMMA WritePositions ==
  ASSUME NEW cap, NEW size, NEW head, NEW tail, NEW n, NEW ov,
         Setting(cap, size, head, tail, n, ov)
  PROVE  /\ ov \in 0 .. size /\ size - ov + n \in 0 .. cap
         /\ tail \in 0 .. cap - 1
         /\ (head + ov) % cap = Turn(head + ov, cap)
         /\ (tail + n) % cap = Turn(tail + n, cap)
         /\ Turn(head + ov, cap) \in 0 .. cap - 1
         /\ Turn(tail + n, cap) \in 0 .. cap - 1
         /\ Turn(tail + n, cap) = (Turn(head + ov, cap) + (size - ov + n)) % cap
BY DEF Turn, Overflow, Setting

\* Where the k-th byte after a fitting write lies: outside the chunk's place when
\* it is an old byte, at its offset inside it when it is one of the chunk's.
OldPlace(cap, tail, n, j) ==
  /\ ~(j - tail >= 0 /\ j - tail < n)
  /\ ~(j - tail < 0 /\ j + cap - tail < n)

NewPlace(cap, tail, n, j, i) ==
  \/ j - tail >= 0 /\ j - tail < n /\ j - tail + 1 = i
  \/ ~(j - tail >= 0) /\ j - tail < 0 /\ j + cap - tail < n /\ j + cap - tail + 1 = i

\* The positions a read computes are those of the bytes it returns.
LEMMA ReadPositions ==
  ASSUME NEW cap, NEW size, NEW head, NEW tail, NEW n, NEW ov,
         Setting(cap, size, head, tail, n, ov), NEW k \in 1 .. size - ov + n,
         NEW j, j = Turn(Turn(head + ov, cap) + k - 1, cap)
  PROVE  /\ j \in 0 .. cap - 1
         /\ ov + k \in 1 .. size + n
         /\ ov + k <= size => /\ ov + k \in 1 .. size
                              /\ j = Turn(head + (ov + k) - 1, cap)
                              /\ OldPlace(cap, tail, n, j)
         /\ ~(ov + k <= size) => NewPlace(cap, tail, n, j, (ov + k) - size)
<1> USE DEF Setting, Turn, Overflow
<1>1. j \in 0 .. cap - 1 /\ ov + k \in 1 .. size + n
  OBVIOUS
<1>2. CASE ov + k <= size
  BY <1>2, <1>1 DEF OldPlace
<1>3. CASE ~(ov + k <= size)
  BY <1>3, <1>1 DEF NewPlace
<1> QED
  BY <1>1, <1>2, <1>3, Zenon

\* The byte at position j once a chunk of n bytes was placed from tail on.
PlacedByte(buf, cap, tail, data, n, j) ==
  IF j - tail >= 0 /\ j - tail < n THEN data[j - tail + 1]
  ELSE IF j - tail < 0 /\ j + cap - tail < n THEN data[j + cap - tail + 1]
  ELSE buf[j]

IsChunk(data, S, n) == data \in Seq(S) /\ n = Len(data)

ChunkPlaced(buf, cap, tail, data, n) ==
  \A j \in 0 .. cap - 1 :
    Placed(buf, cap, tail, data)[j] = PlacedByte(buf, cap, tail, data, n, j)

\* A placed chunk is found from tail on, wrapping; all other bytes are untouched.
LEMMA PlacedAt ==
  ASSUME NEW S, NEW cap, NEW size, NEW head, NEW tail, NEW n, NEW ov,
         Setting(cap, size, head, tail, n, ov),
         NEW buf \in [0 .. cap - 1 -> S], NEW data, IsChunk(data, S, n)
  PROVE  /\ Placed(buf, cap, tail, data) \in [0 .. cap - 1 -> S]
         /\ ChunkPlaced(buf, cap, tail, data, n)
<1> DEFINE P == Placed(buf, cap, tail, data)
           val(j) == PlacedByte(buf, cap, tail, data, n, j)
<1>1. /\ cap \in Nat /\ tail \in 0 .. cap - 1 /\ n \in 1 .. cap - 1 /\ n = Len(data)
  BY WritePositions DEF Setting, IsChunk
<1>2. P = [j \in 0 .. cap - 1 |-> val(j)]
  <2>1. CASE n <= cap - tail
    <3>1. P = [j \in 0 .. cap - 1 |->
                 IF tail <= j /\ j < tail + n THEN data[j - tail + 1] ELSE buf[j]]
      BY <1>1, <2>1, Zenon DEF Placed
    <3>2. \A j \in 0 .. cap - 1 :
            (IF tail <= j /\ j < tail + n THEN data[j - tail + 1] ELSE buf[j]) = val(j)
      BY <1>1, <2>1 DEF PlacedByte
    <3> QED
      BY <3>1, <3>2
  <2>2. CASE ~(n <= cap - tail)
    <3>1. P = [j \in 0 .. cap - 1 |->
                 IF tail <= j THEN data[j - tail + 1]
                 ELSE IF j < n - (cap - tail) THEN data[cap - tail + j + 1] ELSE buf[j]]
      BY <1>1, <2>2, Zenon DEF Placed
    <3>2. \A j \in 0 .. cap - 1 :
            (IF tail <= j THEN data[j - tail + 1]
             ELSE IF j < n - (cap - tail) THEN data[cap - tail + j + 1] ELSE buf[j]) = val(j)
      BY <1>1, <2>2 DEF PlacedByte
    <3> QED
      BY <3>1, <3>2
  <2> QED
    BY <2>1, <2>2
<1>3. \A j \in 0 .. cap - 1 : val(j) \in S
  <2>1. \A k \in 1 .. n : data[k] \in S
    BY ElementOfSeq DEF IsChunk
  <2> QED
    BY <1>1, <2>1 DEF PlacedByte
<1> QED
  BY <1>2, <1>3, Zenon DEF ChunkPlaced

\* A tail of a sequence, element by element.
LEMMA TailOfSequence ==
  ASSUME NEW S, NEW s, NEW e \in Int, NEW l \in Int, \A i \in e .. l : s[i] \in S
  PROVE  /\ SubSeq(s, e, l) \in Seq(S)
         /\ e <= l + 1 => Len(SubSeq(s, e, l)) = l - e + 1
         /\ \A i \in 1 .. l - e + 1 : SubSeq(s, e, l)[i] = s[e + i - 1]
<1>1. SubSeq(s, e, l) \in Seq(S)
  BY SubSeqProperties
<1>2. Len(SubSeq(s, e, l)) = IF e <= l THEN l - e + 1 ELSE 0
  BY SubSeqProperties
<1>3. e <= l + 1 => Len(SubSeq(s, e, l)) = l - e + 1
  BY <1>2
<1>4. \A i \in 1 .. l - e + 1 : SubSeq(s, e, l)[i] = s[e + i - 1]
  BY SubSeqProperties, SMT
<1> QED
  BY <1>1, <1>3, <1>4

\* The newest m elements of a sequence of l, element by element.
LEMMA NewestProperties ==
  ASSUME NEW S, NEW s, NEW l, IsChunk(s, S, l), NEW m \in Nat,
         NEW d, d = IF l > m THEN l - m ELSE 0
  PROVE  /\ Newest(s, m) \in Seq(S)
         /\ Len(Newest(s, m)) = l - d
         /\ \A k \in 1 .. l - d : Newest(s, m)[k] = s[d + k]
<1>1. s \in Seq(S) /\ l = Len(s)
  BY DEF IsChunk
<1>2. l \in Nat
  BY <1>1, LenProperties
<1>3. CASE l <= m
  <2>1. Newest(s, m) = s
    BY <1>1, <1>3, Zenon DEF Newest
  <2>2. d = 0
    BY <1>2, <1>3
  <2> QED
    BY <1>1, <1>2, <2>1, <2>2
<1>4. CASE ~(l <= m)
  <2>1. PICK e : e = l - m + 1
    OBVIOUS
  <2>2. /\ d \in Nat /\ e = d + 1 /\ e \in Int /\ l \in Int /\ e <= l + 1
        /\ l - e + 1 = l - d
    BY <1>2, <1>4, <2>1
  <2>3. \A i \in 1 .. l - d : e + i - 1 = d + i
    BY <1>2, <2>2
  <2>4. Newest(s, m) = SubSeq(s, e, l)
    BY <1>1, <1>4, <2>1, Zenon DEF Newest
  <2>5. \A i \in e .. l : s[i] \in S
    <3>1. \A i \in e .. l : i \in 1 .. l
      BY <1>2, <2>2
    <3> QED
      BY <1>1, <3>1, ElementOfSeq
  <2>6. /\ SubSeq(s, e, l) \in Seq(S)
        /\ Len(SubSeq(s, e, l)) = l - e + 1
        /\ \A i \in 1 .. l - e + 1 : SubSeq(s, e, l)[i] = s[e + i - 1]
    BY <2>2, <2>5, TailOfSequence
  <2>7. Newest(s, m) \in Seq(S) /\ Len(Newest(s, m)) = l - d
    BY <2>2, <2>4, <2>6
  <2>8. \A k \in 1 .. l - d : Newest(s, m)[k] = s[d + k]
    <3>1. \A k \in 1 .. l - d : SubSeq(s, e, l)[k] = s[e + k - 1]
      BY <2>2, <2>6
    <3>2. \A k \in 1 .. l - d : s[e + k - 1] = s[d + k]
      BY <2>3
    <3> QED
      BY <2>4, <3>1, <3>2
  <2> QED
    BY <2>7, <2>8, Zenon
<1> QED
  BY <1>3, <1>4

\* A ring of these numbers, taken apart.
RingParts(r, S, cap, size, head, tail, buf) ==
  /\ RingOK(r, S)
  /\ r = [buf |-> buf, cap |-> cap, head |-> head, tail |-> tail, size |-> size]
  /\ buf \in [0 .. cap - 1 -> S]

\* The ring a fitting write makes.
LEMMA WriteParts ==
  ASSUME NEW S, NEW cap, NEW size, NEW head, NEW tail, NEW n, NEW ov,
         Setting(cap, size, head, tail, n, ov), NEW buf, NEW r,
         RingParts(r, S, cap, size, head, tail, buf),
         NEW data, IsChunk(data, S, n)
  PROVE  WriteRing(r, data) =
           [buf |-> Placed(buf, cap, tail, data), cap |-> cap,
            head |-> Turn(head + ov, cap), tail |-> Turn(tail + n, cap),
            size |-> size - ov + n]
<1>2. /\ (head + ov) % cap = Turn(head + ov, cap)
      /\ (tail + n) % cap = Turn(tail + n, cap)
  BY WritePositions
<1>3. r.buf = buf /\ r.cap = cap /\ r.head = head /\ r.tail = tail /\ r.size = size
  BY DEF RingParts
<1>4. ~(n = 0 \/ cap = 0) /\ ~(n >= cap) /\ n = Len(data)
  BY DEF Setting, IsChunk
<1>5. ov = IF size + n > cap THEN size + n - cap ELSE 0
  BY DEF Setting, Overflow
<1> QED
  BY <1>2, <1>3, <1>4, <1>5, Zenon DEF WriteRing

\* A fitting write keeps the ring well formed.
LEMMA WriteFitsOK ==
  ASSUME NEW S, NEW cap, NEW size, NEW head, NEW tail, NEW n, NEW ov,
         Setting(cap, size, head, tail, n, ov), NEW buf, NEW r,
         RingParts(r, S, cap, size, head, tail, buf),
         NEW data, IsChunk(data, S, n)
  PROVE  RingOK(WriteRing(r, data), S)
<1>1. PICK w, P, h, t, sz :
        /\ w = WriteRing(r, data) /\ P = Placed(buf, cap, tail, data)
        /\ h = Turn(head + ov, cap) /\ t = Turn(tail + n, cap) /\ sz = size - ov + n
  OBVIOUS
<1>2. w = [buf |-> P, cap |-> cap, head |-> h, tail |-> t, size |-> sz]
  <2>1. WriteRing(r, data) =
           [buf |-> Placed(buf, cap, tail, data), cap |-> cap,
            head |-> Turn(head + ov, cap), tail |-> Turn(tail + n, cap),
            size |-> size - ov + n]
    BY WriteParts, SMTT(60)
  <2> QED
    BY <1>1, <2>1, Zenon
<1>3. /\ sz \in 0 .. cap /\ h \in 0 .. cap - 1 /\ t \in 0 .. cap - 1 /\ t = (h + sz) % cap
  <2>1. /\ size - ov + n \in 0 .. cap
        /\ Turn(head + ov, cap) \in 0 .. cap - 1
        /\ Turn(tail + n, cap) \in 0 .. cap - 1
        /\ Turn(tail + n, cap) = (Turn(head + ov, cap) + (size - ov + n)) % cap
    BY WritePositions
  <2> QED
    BY <1>1, <2>1, Zenon
<1>4. P \in [0 .. cap - 1 -> S]
  <2>1. buf \in [0 .. cap - 1 -> S]
    BY DEF RingParts
  <2> QED
    BY <1>1, <2>1, PlacedAt
<1>5. /\ w.buf = P /\ w.cap = cap /\ w.head = h /\ w.tail = t /\ w.size = sz
      /\ w = [buf |-> w.buf, cap |-> w.cap, head |-> w.head, tail |-> w.tail, size |-> w.size]
  BY <1>2
<1>6. cap \in Nat /\ cap # 0 /\ h \in Nat /\ t \in Nat /\ h < cap /\ t < cap
  BY <1>3 DEF Setting
<1>7. RingOK(w, S)
  BY <1>3, <1>4, <1>5, <1>6, Zenon DEF RingOK
<1> QED
  BY <1>1, <1>7, Zenon

\* The byte at an old place is the one that was there; at a chunk's place, the chunk's.
LEMMA PlacedOldNew ==
  ASSUME NEW buf, NEW cap, NEW tail, NEW data, NEW n, NEW j
  PROVE  /\ OldPlace(cap, tail, n, j) =>
              PlacedByte(buf, cap, tail, data, n, j) = buf[j]
         /\ \A i : NewPlace(cap, tail, n, j, i) =>
              PlacedByte(buf, cap, tail, data, n, j) = data[i]
BY Zenon DEF OldPlace, NewPlace, PlacedByte

\* The i-th element of a sequence of size elements followed by a chunk.
Followed(old, size, data, i) ==
  /\ i <= size => (old \o data)[i] = old[i]
  /\ ~(i <= size) => (old \o data)[i] = data[i - size]

\* The old contents followed by the chunk, element by element.
LEMMA AllBytes ==
  ASSUME NEW S, NEW size \in Nat, NEW n \in Nat, NEW old, IsChunk(old, S, size),
         NEW data, IsChunk(data, S, n)
  PROVE  /\ IsChunk(old \o data, S, size + n)
         /\ \A i \in 1 .. size + n : Followed(old, size, data, i)
<1>1. old \in Seq(S) /\ size = Len(old) /\ data \in Seq(S) /\ n = Len(data)
  BY DEF IsChunk
<1>2. old \o data \in Seq(S) /\ Len(old \o data) = Len(old) + Len(data)
  BY <1>1, ConcatProperties
<1>3. \A i \in 1 .. Len(old) + Len(data) :
        (old \o data)[i] = IF i <= Len(old) THEN old[i] ELSE data[i - Len(old)]
  BY <1>1, ConcatProperties
<1> QED
  BY <1>1, <1>2, <1>3, Zenon DEF IsChunk, Followed

\* Position j of the ring after the write holds byte i of the old ones and the chunk's.
Holds(buf, cap, tail, data, j, old, i) ==
  Placed(buf, cap, tail, data)[j] = (old \o data)[i]

\* The bytes of the ring a fitting write makes, one by one.
LEMMA WriteFitsByte ==
  ASSUME NEW S, NEW cap, NEW size, NEW head, NEW tail, NEW n, NEW ov,
         Setting(cap, size, head, tail, n, ov), NEW buf, NEW r,
         RingParts(r, S, cap, size, head, tail, buf),
         NEW data, IsChunk(data, S, n), NEW k \in 1 .. size - ov + n,
         NEW old, old = Contents(r), NEW j, j = Turn(Turn(head + ov, cap) + k - 1, cap)
  PROVE  Holds(buf, cap, tail, data, j, old, ov + k)
<1>1. /\ j \in 0 .. cap - 1
      /\ ov + k \in 1 .. size + n
      /\ ov + k <= size => /\ ov + k \in 1 .. size
                           /\ j = Turn(head + (ov + k) - 1, cap)
                           /\ OldPlace(cap, tail, n, j)
      /\ ~(ov + k <= size) => NewPlace(cap, tail, n, j, (ov + k) - size)
  BY ReadPositions
<1>2. Placed(buf, cap, tail, data)[j] = PlacedByte(buf, cap, tail, data, n, j)
  <2>1. buf \in [0 .. cap - 1 -> S]
    BY DEF RingParts
  <2>2. ChunkPlaced(buf, cap, tail, data, n)
    BY <2>1, PlacedAt
  <2> QED
    BY <1>1, <2>2, Zenon DEF ChunkPlaced
<1>3. r.buf = buf /\ r.cap = cap /\ r.head = head /\ r.size = size /\ RingOK(r, S)
  BY DEF RingParts
<1>4. /\ IsChunk(old, S, size)
      /\ \A i \in 1 .. size : old[i] = buf[Turn(head + i - 1, cap)]
  <2>1. /\ Contents(r) \in Seq(S)
        /\ Len(Contents(r)) = r.size
        /\ \A i \in 1 .. r.size :
             Contents(r)[i] = r.buf[Turn(r.head + i - 1, r.cap)]
    BY <1>3, ContentsProperties
  <2> QED
    BY <1>3, <2>1, Zenon DEF IsChunk
<1>5. /\ ov + k <= size => (old \o data)[ov + k] = old[ov + k]
      /\ ~(ov + k <= size) => (old \o data)[ov + k] = data[(ov + k) - size]
  <2>1. size \in Nat /\ n \in Nat
    BY DEF Setting
  <2>2. \A i \in 1 .. size + n : Followed(old, size, data, i)
    BY <1>4, <2>1, AllBytes
  <2>3. Followed(old, size, data, ov + k)
    BY <1>1, <2>2, Zenon
  <2> QED
    BY <2>3 DEF Followed
<1>6. CASE ov + k <= size
  <2>1. Placed(buf, cap, tail, data)[j] = buf[j]
    BY <1>1, <1>2, <1>6, PlacedOldNew
  <2>2. old[ov + k] = buf[j]
    BY <1>1, <1>4, <1>6, Zenon
  <2> QED
    BY <1>5, <1>6, <2>1, <2>2, Zenon DEF Holds
<1>7. CASE ~(ov + k <= size)
  <2>1. Placed(buf, cap, tail, data)[j] = data[(ov + k) - size]
    BY <1>1, <1>2, <1>7, PlacedOldNew
  <2> QED
    BY <1>5, <1>7, <2>1, Zenon DEF Holds
<1> QED
  BY <1>6, <1>7, Zenon

\* Two sequences of the same length and elements are the same.
LEMMA SameSequence ==
  ASSUME NEW S, NEW s, NEW t, NEW l, IsChunk(s, S, l), IsChunk(t, S, l),
         \A k \in 1 .. l : s[k] = t[k]
  PROVE  s = t
<1>1. /\ s \in Seq(S) /\ t \in Seq(S) /\ Len(s) = Len(t)
      /\ \A k \in 1 .. Len(s) : s[k] = t[k]
  BY DEF IsChunk
<1> QED
  BY <1>1, SeqEqual

\* The bytes of a well-formed ring as a chunk.
LEMMA ContentsChunk ==
  ASSUME NEW S, NEW r, RingOK(r, S)
  PROVE  IsChunk(Contents(r), S, r.size)
<1>1. Contents(r) \in Seq(S) /\ Len(Contents(r)) = r.size
  BY ContentsProperties
<1> QED
  BY <1>1, Zenon DEF IsChunk

\* A fitting write appends its chunk and keeps the newest bytes.
LEMMA WriteFitsContents ==
  ASSUME NEW S, NEW cap, NEW size, NEW head, NEW tail, NEW n, NEW ov,
         Setting(cap, size, head, tail, n, ov), NEW buf, NEW r,
         RingParts(r, S, cap, size, head, tail, buf),
         NEW data, IsChunk(data, S, n)
  PROVE  Contents(WriteRing(r, data)) = Newest(Contents(r) \o data, cap)
<1>1. PICK old, all, w, l : /\ old = Contents(r) /\ all = old \o data
                            /\ w = WriteRing(r, data) /\ l = size + n
  OBVIOUS
<1>2. IsChunk(all, S, l)
  <2>1. size \in Nat /\ n \in Nat
    BY DEF Setting
  <2>2. RingOK(r, S) /\ r.size = size
    BY DEF RingParts
  <2>3. IsChunk(old, S, size)
    BY <1>1, <2>2, ContentsChunk
  <2>4. IsChunk(old \o data, S, size + n)
    BY <2>1, <2>3, AllBytes
  <2> QED
    BY <1>1, <2>4, Zenon
<1>3. /\ cap \in Nat /\ ov = IF l > cap THEN l - cap ELSE 0
      /\ l - ov = size - ov + n
  BY <1>1 DEF Setting, Overflow
<1>4. /\ IsChunk(Newest(all, cap), S, l - ov)
      /\ \A k \in 1 .. l - ov : Newest(all, cap)[k] = all[ov + k]
  <2>1. /\ Newest(all, cap) \in Seq(S)
        /\ Len(Newest(all, cap)) = l - ov
        /\ \A k \in 1 .. l - ov : Newest(all, cap)[k] = all[ov + k]
    BY <1>2, <1>3, NewestProperties
  <2> QED
    BY <2>1, Zenon DEF IsChunk
<1>5. w = [buf |-> Placed(buf, cap, tail, data), cap |-> cap,
           head |-> Turn(head + ov, cap), tail |-> Turn(tail + n, cap),
           size |-> size - ov + n]
  <2>1. WriteRing(r, data) =
          [buf |-> Placed(buf, cap, tail, data), cap |-> cap,
           head |-> Turn(head + ov, cap), tail |-> Turn(tail + n, cap),
           size |-> size - ov + n]
    BY WriteParts, SMTT(60)
  <2> QED
    BY <1>1, <2>1, Zenon
<1>6. RingOK(w, S)
  <2>1. RingOK(WriteRing(r, data), S)
    BY WriteFitsOK
  <2> QED
    BY <1>1, <2>1, Zenon
<1>7. /\ w.buf = Placed(buf, cap, tail, data) /\ w.cap = cap
      /\ w.head = Turn(head + ov, cap) /\ w.size = size - ov + n
  BY <1>5
<1>8. IsChunk(Contents(w), S, l - ov)
  <2>1. IsChunk(Contents(w), S, w.size)
    BY <1>6, ContentsChunk
  <2> QED
    BY <1>3, <1>7, <2>1, Zenon
<1>9. ASSUME NEW k \in 1 .. l - ov
      PROVE  Contents(w)[k] = Newest(all, cap)[k]
  <2>1. \A i \in 1 .. w.size :
          Contents(w)[i] = w.buf[Turn(w.head + i - 1, w.cap)]
    BY <1>6, ContentsProperties
  <2>2. Contents(w)[k] = Placed(buf, cap, tail, data)[Turn(Turn(head + ov, cap) + k - 1, cap)]
    BY <1>3, <1>7, <2>1, Zenon
  <2>3. PICK j : j = Turn(Turn(head + ov, cap) + k - 1, cap)
    OBVIOUS
  <2>4. k \in 1 .. size - ov + n
    BY <1>3, Zenon
  <2>5. Holds(buf, cap, tail, data, j, old, ov + k)
    BY <1>1, <2>3, <2>4, WriteFitsByte
  <2> QED
    BY <1>1, <1>4, <2>2, <2>3, <2>5, Zenon DEF Holds
<1>10. Contents(w) = Newest(all, cap)
  BY <1>4, <1>8, <1>9, SameSequence
<1> QED
  BY <1>1, <1>10, Zenon

-----------------------------------------------------------------------------
\* A write of at least the capacity leaves the newest bytes of its chunk.
LEMMA WriteOver ==
  ASSUME NEW S, NEW r, RingOK(r, S), NEW data, NEW n, IsChunk(data, S, n),
         NEW cap, cap = r.cap, cap # 0, n >= cap, NEW w, w = WriteRing(r, data)
  PROVE  /\ RingOK(w, S)
         /\ w.size = cap
         /\ \A k \in 1 .. cap : Contents(w)[k] = data[(n - cap) + k]
<1>1. cap \in Nat /\ n \in Nat /\ n # 0
  BY RingNumbers, LenProperties DEF IsChunk
<1>2. w = [buf |-> [j \in 0 .. cap - 1 |-> data[n - cap + j + 1]],
           cap |-> cap, head |-> 0, tail |-> 0, size |-> cap]
  <2>1. ~(n = 0 \/ r.cap = 0) /\ n >= r.cap /\ n = Len(data)
    BY <1>1 DEF IsChunk
  <2> QED
    BY <2>1, Zenon DEF WriteRing
<1>3. \A k \in 1 .. n : data[k] \in S
  BY ElementOfSeq DEF IsChunk
<1>4. \A j \in 0 .. cap - 1 : n - cap + j + 1 \in 1 .. n
  BY <1>1
<1>5. [j \in 0 .. cap - 1 |-> data[n - cap + j + 1]] \in [0 .. cap - 1 -> S]
  BY <1>3, <1>4, Zenon
<1>6. RingOK(w, S)
  <2>1. PICK b : b = [j \in 0 .. cap - 1 |-> data[n - cap + j + 1]]
    OBVIOUS
  <2>2. w = [buf |-> b, cap |-> cap, head |-> 0, tail |-> 0, size |-> cap]
    BY <1>2, <2>1, Zenon
  <2>3. /\ w.buf = b /\ w.cap = cap /\ w.head = 0 /\ w.tail = 0 /\ w.size = cap
        /\ w = [buf |-> w.buf, cap |-> w.cap, head |-> w.head, tail |-> w.tail, size |-> w.size]
    BY <2>2
  <2>4. 0 \in Nat /\ 0 < cap /\ cap \in 0 .. cap /\ 0 = (0 + cap) % cap
    <3>1. cap \in Nat \ {0} /\ cap < 2 * cap /\ 0 + cap = cap /\ Turn(cap, cap) = 0
      BY <1>1 DEF Turn
    <3>2. (0 + cap) % cap = 0
      BY <3>1, Wrap, Zenon
    <3>3. 0 \in Nat /\ 0 < cap /\ cap \in 0 .. cap
      BY <1>1
    <3> QED
      BY <3>2, <3>3, Zenon
  <2>5. b \in [0 .. cap - 1 -> S]
    BY <1>5, <2>1, Zenon
  <2> QED
    BY <1>1, <2>3, <2>4, <2>5, Zenon DEF RingOK
<1>7. w.size = cap /\ w.cap = cap /\ w.head = 0
      /\ w.buf = [j \in 0 .. cap - 1 |-> data[n - cap + j + 1]]
  BY <1>2
<1>8. ASSUME NEW k \in 1 .. cap
      PROVE  Contents(w)[k] = data[(n - cap) + k]
  <2>1. \A i \in 1 .. w.size :
          Contents(w)[i] = w.buf[Turn(w.head + i - 1, w.cap)]
    BY <1>6, ContentsProperties
  <2>2. /\ Turn(0 + k - 1, cap) = k - 1 /\ k - 1 \in 0 .. cap - 1
        /\ n - cap + (k - 1) + 1 = (n - cap) + k
    BY <1>1 DEF Turn
  <2>3. Contents(w)[k] = w.buf[k - 1]
    <3>1. Contents(w)[k] = w.buf[Turn(w.head + k - 1, w.cap)]
      BY <1>7, <2>1, Zenon
    <3> QED
      BY <1>7, <2>2, <3>1
  <2> QED
    BY <1>7, <2>2, <2>3
<1> QED
  BY <1>6, <1>7, <1>8

\* s is chunk from its (d+1)-th element on, for cap elements.
IsTailOf(s, data, d, cap) == \A k \in 1 .. cap : s[k] = data[d + k]

\* The newest bytes of old ones and a chunk that fills the ring are the chunk's newest.
LEMMA NewestOver ==
  ASSUME NEW S, NEW size \in Nat, NEW n \in Nat, NEW cap \in Nat, n >= cap,
         NEW old, IsChunk(old, S, size), NEW data, IsChunk(data, S, n)
  PROVE  /\ IsChunk(Newest(old \o data, cap), S, cap)
         /\ IsTailOf(Newest(old \o data, cap), data, n - cap, cap)
<1>1. PICK all, l, d : all = old \o data /\ l = size + n /\ d = l - cap
  OBVIOUS
<1>2. IsChunk(all, S, l) /\ \A i \in 1 .. l : Followed(old, size, data, i)
  <2>1. /\ IsChunk(old \o data, S, size + n)
        /\ \A i \in 1 .. size + n : Followed(old, size, data, i)
    BY AllBytes
  <2> QED
    BY <1>1, <2>1, Zenon
<1>3. /\ d = IF l > cap THEN l - cap ELSE 0
      /\ l - d = cap
  BY <1>1
<1>4. /\ IsChunk(Newest(all, cap), S, cap)
      /\ \A k \in 1 .. cap : Newest(all, cap)[k] = all[d + k]
  <2>1. /\ Newest(all, cap) \in Seq(S)
        /\ Len(Newest(all, cap)) = l - d
        /\ \A k \in 1 .. l - d : Newest(all, cap)[k] = all[d + k]
    BY <1>2, <1>3, NewestProperties
  <2> QED
    BY <1>3, <2>1, Zenon DEF IsChunk
<1>5. ASSUME NEW k \in 1 .. cap
      PROVE  all[d + k] = data[(n - cap) + k]
  <2>1. /\ d + k \in 1 .. l /\ ~(d + k <= size)
        /\ (d + k) - size = (n - cap) + k
    BY <1>1
  <2>2. Followed(old, size, data, d + k)
    BY <1>2, <2>1, Zenon
  <2>3. (old \o data)[d + k] = data[(d + k) - size]
    BY <2>1, <2>2, Zenon DEF Followed
  <2> QED
    BY <1>1, <2>1, <2>3, Zenon
<1> QED
  BY <1>1, <1>4, <1>5, Zenon DEF IsTailOf

\* _ByteRing.write, for every ring, capacity and chunk: the ring stays well formed
\* and holds the newest bytes of what it held followed by the chunk, in order.
THEOREM WriteIsFifo ==
  ASSUME NEW S, NEW r, RingOK(r, S), NEW data \in Seq(S)
  PROVE  /\ RingOK(WriteRing(r, data), S)
         /\ Contents(WriteRing(r, data)) = Newest(Contents(r) \o data, r.cap)
<1>1. PICK n, cap, size, head, tail, buf, old, w :
        /\ n = Len(data) /\ cap = r.cap /\ size = r.size /\ head = r.head
        /\ tail = r.tail /\ buf = r.buf /\ old = Contents(r) /\ w = WriteRing(r, data)
  OBVIOUS
<1>2. IsChunk(data, S, n) /\ IsChunk(old, S, size) /\ n \in Nat
  <2>1. n \in Nat
    BY <1>1, LenProperties
  <2>2. IsChunk(Contents(r), S, r.size)
    BY ContentsChunk
  <2> QED
    BY <1>1, <2>1, <2>2, Zenon DEF IsChunk
<1>3. /\ cap \in Nat /\ size \in Nat /\ size <= cap /\ head \in Nat /\ tail \in Nat
      /\ cap # 0 => /\ head < cap /\ tail < cap
                    /\ tail = Turn(head + size, cap)
  <2>1. /\ r.cap \in Nat /\ r.size \in Nat /\ r.size <= r.cap
        /\ r.head \in Nat /\ r.tail \in Nat
        /\ r.cap # 0 => /\ r.head < r.cap /\ r.tail < r.cap
                        /\ r.tail = Turn(r.head + r.size, r.cap)
    BY RingNumbers
  <2> QED
    BY <1>1, <2>1, Zenon
<1>4. CASE n = 0 \/ cap = 0
  <2>1. w = r
    BY <1>1, <1>4, Zenon DEF WriteRing
  <2>2. /\ IsChunk(Newest(old \o data, cap), S, size)
        /\ \A k \in 1 .. size : Newest(old \o data, cap)[k] = old[k]
    <3>1. CASE cap = 0
      <4>1. size = 0 /\ n >= cap
        BY <1>2, <1>3, <3>1
      <4>2. IsChunk(Newest(old \o data, cap), S, cap)
        BY <1>2, <1>3, <4>1, NewestOver
      <4>3. \A k \in 1 .. size : Newest(old \o data, cap)[k] = old[k]
        BY <4>1
      <4> QED
        BY <3>1, <4>1, <4>2, <4>3, Zenon
    <3>2. CASE n = 0
      <4>1. PICK l : l = size + n
        OBVIOUS
      <4>2. IsChunk(old \o data, S, l) /\ \A i \in 1 .. l : Followed(old, size, data, i)
        <5>1. /\ IsChunk(old \o data, S, size + n)
              /\ \A i \in 1 .. size + n : Followed(old, size, data, i)
          BY <1>2, <1>3, AllBytes
        <5> QED
          BY <4>1, <5>1, Zenon
      <4>3. l = size /\ 0 = (IF l > cap THEN l - cap ELSE 0) /\ l - 0 = size
        BY <1>3, <3>2, <4>1
      <4>4. Newest(old \o data, cap) = old \o data
        <5>1. Len(old \o data) <= cap
          BY <1>3, <4>2, <4>3 DEF IsChunk
        <5> QED
          BY <5>1, Zenon DEF Newest
      <4>5. \A k \in 1 .. size : k <= size /\ k \in 1 .. l
        BY <1>3, <4>3
      <4>6. \A k \in 1 .. size : (old \o data)[k] = old[k]
        BY <4>2, <4>5, Zenon DEF Followed
      <4> QED
        BY <4>2, <4>3, <4>4, <4>6, Zenon
    <3> QED
      BY <1>4, <3>1, <3>2
  <2>3. old = Newest(old \o data, cap)
    BY <1>2, <2>2, SameSequence
  <2> QED
    BY <1>1, <2>1, <2>3, Zenon
<1>5. CASE n # 0 /\ cap # 0 /\ n >= cap
  <2>1. /\ RingOK(w, S)
        /\ w.size = cap
        /\ \A k \in 1 .. cap : Contents(w)[k] = data[(n - cap) + k]
    BY <1>1, <1>2, <1>5, WriteOver
  <2>2. IsChunk(Contents(w), S, cap)
    <3>1. IsChunk(Contents(w), S, w.size)
      BY <2>1, ContentsChunk
    <3> QED
      BY <2>1, <3>1, Zenon
  <2>3. /\ IsChunk(Newest(old \o data, cap), S, cap)
        /\ IsTailOf(Newest(old \o data, cap), data, n - cap, cap)
    BY <1>2, <1>3, <1>5, NewestOver
  <2>4. Contents(w) = Newest(old \o data, cap)
    <3>1. \A k \in 1 .. cap : Contents(w)[k] = Newest(old \o data, cap)[k]
      BY <2>1, <2>3, Zenon DEF IsTailOf
    <3> QED
      BY <2>2, <2>3, <3>1, SameSequence
  <2> QED
    BY <1>1, <2>1, <2>4, Zenon
<1>6. CASE n # 0 /\ cap # 0 /\ ~(n >= cap)
  <2>1. PICK ov : ov = Overflow(cap, size, n)
    OBVIOUS
  <2>2. Setting(cap, size, head, tail, n, ov)
    <3>1. cap \in Nat /\ cap # 0 /\ size \in 0 .. cap /\ head \in 0 .. cap - 1 /\ n \in 1 .. cap - 1
      BY <1>2, <1>3, <1>6
    <3> QED
      BY <1>3, <1>6, <2>1, <3>1, Zenon DEF Setting
  <2>3. RingParts(r, S, cap, size, head, tail, buf)
    <3>1. /\ r.buf \in [0 .. r.cap - 1 -> S]
          /\ r = [buf |-> r.buf, cap |-> r.cap, head |-> r.head, tail |-> r.tail,
                  size |-> r.size]
      BY RingFields
    <3> QED
      BY <1>1, <3>1, Zenon DEF RingParts
  <2>4. RingOK(WriteRing(r, data), S)
    BY <1>2, <2>2, <2>3, WriteFitsOK
  <2>5. Contents(WriteRing(r, data)) = Newest(Contents(r) \o data, cap)
    BY <1>2, <2>2, <2>3, WriteFitsContents
  <2> QED
    BY <1>1, <2>4, <2>5, Zenon
<1> QED
  BY <1>4, <1>5, <1>6, Zenon

-----------------------------------------------------------------------------
\* s is the l bytes of a buffer from a position on.
IsRun(s, S, buf, from, l) ==
  IsChunk(s, S, l) /\ \A k \in 1 .. l : s[k] = buf[from + (k - 1)]

\* A slice is such a run.
LEMMA SliceProperties ==
  ASSUME NEW S, NEW cap \in Nat, NEW buf \in [0 .. cap - 1 -> S],
         NEW from \in Nat, NEW to \in Nat, from <= to, to <= cap, NEW l, l = to - from
  PROVE  IsRun(Slice(buf, from, to), S, buf, from, l)
<1>1. l \in Nat /\ \A k \in 1 .. l : from + k - 1 = from + (k - 1) /\ from + k - 1 \in 0 .. cap - 1
  OBVIOUS
<1>2. Slice(buf, from, to) = [k \in 1 .. l |-> buf[from + k - 1]]
  BY Zenon DEF Slice
<1>3. Slice(buf, from, to) \in [1 .. l -> S]
  BY <1>1, <1>2
<1>4. Slice(buf, from, to) \in Seq(S) /\ Len(Slice(buf, from, to)) = l
  BY <1>1, <1>3, SeqDef
<1> QED
  BY <1>1, <1>2, <1>4 DEF IsChunk, IsRun

\* What is known of the numbers of a pop that delivers.
PopSetting(cap, size, head, n) ==
  /\ cap \in Nat /\ size \in 0 .. cap /\ head \in 0 .. cap - 1 /\ n \in 1 .. size

\* The k-th byte left is read where the (n + k)-th one was.
SamePlaces(cap, head, n, m) ==
  \A k \in 1 .. m :
    Turn(Turn(head + n, cap) + k - 1, cap) = Turn(head + (n + k) - 1, cap)

\* The positions of the bytes a pop returns, and of those it leaves.
LEMMA PopPositions ==
  ASSUME NEW cap, NEW size, NEW head, NEW n, PopSetting(cap, size, head, n)
  PROVE  /\ cap # 0 /\ ~(n <= 0 \/ n > size)
         /\ (head + n) % cap = Turn(head + n, cap)
         /\ Turn(head + n, cap) \in 0 .. cap - 1
         /\ size - n \in 0 .. cap
         /\ Turn(head + size, cap) = (Turn(head + n, cap) + (size - n)) % cap
         /\ SamePlaces(cap, head, n, size - n)
BY DEF Turn, PopSetting, SamePlaces

\* The two pieces of a pop, and where their bytes lie.
Pieces(cap, head, n, a, b) ==
  /\ cap \in Nat /\ head \in Nat /\ 0 \in Nat /\ a \in Nat /\ head + n \in Nat
  /\ head <= head + n /\ head <= cap /\ cap <= cap /\ a = cap - head
  /\ n <= a => head + n <= cap /\ n = (head + n) - head
  /\ ~(n <= a) => b \in Nat /\ 0 <= b /\ b <= cap /\ b = b - 0 /\ a + b = n
  /\ \A k \in 1 .. n : k <= a => /\ k \in 1 .. a
                                 /\ head + (k - 1) = Turn(head + k - 1, cap)
  /\ \A k \in 1 .. n : ~(k <= a) => /\ k - a \in 1 .. b
                                    /\ 0 + ((k - a) - 1) = Turn(head + k - 1, cap)
  /\ n <= a => \A k \in 1 .. n : head + (k - 1) = Turn(head + k - 1, cap)

\* What a pop returns is the stretch before the wrap followed by the one after it.
LEMMA PopPieces ==
  ASSUME NEW cap, NEW size, NEW head, NEW n, PopSetting(cap, size, head, n),
         NEW a, a = cap - head, NEW b, b = n - a
  PROVE  Pieces(cap, head, n, a, b)
BY DEF PopSetting, Turn, Pieces

\* s is n bytes of a ring's buffer read from head on.
ReadFrom(s, S, buf, head, cap, n) ==
  IsChunk(s, S, n) /\ \A k \in 1 .. n : s[k] = buf[Turn(head + k - 1, cap)]

\* The bytes a pop returns, one by one.
LEMMA PoppedBytes ==
  ASSUME NEW S, NEW cap, NEW size, NEW head, NEW n, PopSetting(cap, size, head, n),
         NEW r, NEW buf \in [0 .. cap - 1 -> S], r.buf = buf, r.cap = cap,
         r.head = head, r.size = size
  PROVE  ReadFrom(Popped(r, n), S, buf, head, cap, n)
<1>1. ~(n <= 0 \/ n > size)
  BY PopPositions
<1>2. PICK a, b, one, two : /\ a = cap - head /\ b = n - a
                            /\ one = Slice(buf, head, cap) /\ two = Slice(buf, 0, b)
  OBVIOUS
<1>3. Pieces(cap, head, n, a, b)
  BY <1>2, PopPieces
<1>4. CASE n <= a
  <2>1. Popped(r, n) = Slice(buf, head, head + n)
    BY <1>1, <1>2, <1>4, Zenon DEF Popped
  <2>2. IsRun(Slice(buf, head, head + n), S, buf, head, n)
    BY <1>3, <1>4, SliceProperties DEF Pieces
  <2> QED
    BY <1>3, <1>4, <2>1, <2>2, Zenon DEF IsRun, Pieces, ReadFrom
<1>5. CASE ~(n <= a)
  <2>1. Popped(r, n) = one \o two
    BY <1>1, <1>2, <1>5, Zenon DEF Popped
  <2>2. IsRun(one, S, buf, head, a)
    <3>1. IsRun(Slice(buf, head, cap), S, buf, head, a)
      BY <1>2, <1>3, SliceProperties DEF Pieces
    <3> QED
      BY <1>2, <3>1, Zenon
  <2>3. IsRun(two, S, buf, 0, b)
    <3>1. IsRun(Slice(buf, 0, b), S, buf, 0, b)
      BY <1>3, <1>5, SliceProperties DEF Pieces
    <3> QED
      BY <1>2, <3>1, Zenon
  <2>4. IsChunk(one, S, a) /\ IsChunk(two, S, b)
    BY <2>2, <2>3, Zenon DEF IsRun
  <2>5. /\ IsChunk(one \o two, S, n)
        /\ \A k \in 1 .. n : Followed(one, a, two, k)
    <3>1. /\ IsChunk(one \o two, S, a + b)
          /\ \A k \in 1 .. a + b : Followed(one, a, two, k)
      BY <1>3, <1>5, <2>4, AllBytes DEF Pieces
    <3> QED
      BY <1>3, <1>5, <3>1, Zenon DEF Pieces
  <2>6. ASSUME NEW k \in 1 .. n
        PROVE  (one \o two)[k] = buf[Turn(head + k - 1, cap)]
    <3>1. CASE k <= a
      <4>1. (one \o two)[k] = one[k]
        BY <2>5, <3>1, Zenon DEF Followed
      <4>2. one[k] = buf[head + (k - 1)]
        BY <1>3, <2>2, <3>1, Zenon DEF IsRun, Pieces
      <4> QED
        BY <1>3, <3>1, <4>1, <4>2, Zenon DEF Pieces
    <3>2. CASE ~(k <= a)
      <4>1. (one \o two)[k] = two[k - a]
        BY <2>5, <3>2, Zenon DEF Followed
      <4>2. two[k - a] = buf[0 + ((k - a) - 1)]
        BY <1>3, <2>3, <3>2, Zenon DEF IsRun, Pieces
      <4> QED
        BY <1>3, <3>2, <4>1, <4>2, Zenon DEF Pieces
    <3> QED
      BY <3>1, <3>2, Zenon
  <2> QED
    BY <2>1, <2>5, <2>6, Zenon DEF ReadFrom
<1> QED
  BY <1>4, <1>5, Zenon

\* A stretch of a sequence, as a chunk.
LEMMA Stretch ==
  ASSUME NEW S, NEW s, NEW l \in Nat, IsChunk(s, S, l), NEW from \in Nat, NEW to \in Nat,
         from >= 1, from <= to + 1, to <= l, NEW m, m = to - from + 1
  PROVE  IsRun(SubSeq(s, from, to), S, s, from, m)
<1>1. \A i \in from .. to : i \in 1 .. Len(s)
  BY DEF IsChunk
<1>2. \A i \in from .. to : s[i] \in S
  BY <1>1, ElementOfSeq DEF IsChunk
<1>3. /\ SubSeq(s, from, to) \in Seq(S)
      /\ Len(SubSeq(s, from, to)) = to - from + 1
      /\ \A i \in 1 .. to - from + 1 : SubSeq(s, from, to)[i] = s[from + i - 1]
  BY <1>2, TailOfSequence
<1>4. \A k \in 1 .. m : from + k - 1 = from + (k - 1)
  OBVIOUS
<1> QED
  BY <1>3, <1>4, Zenon DEF IsChunk, IsRun

\* What pop leaves: the bytes after the first n.
LEMMA PopLeaves ==
  ASSUME NEW S, NEW cap, NEW size, NEW head, NEW n, PopSetting(cap, size, head, n),
         NEW tail, tail = Turn(head + size, cap), NEW buf, NEW r,
         RingParts(r, S, cap, size, head, tail, buf), NEW w, w = PopRing(r, n)
  PROVE  /\ RingOK(w, S)
         /\ w.buf = buf /\ w.cap = cap /\ w.size = size - n
         /\ w.head = Turn(head + n, cap)
<1>1. /\ cap # 0 /\ ~(n <= 0 \/ n > size)
      /\ (head + n) % cap = Turn(head + n, cap)
      /\ Turn(head + n, cap) \in 0 .. cap - 1
      /\ size - n \in 0 .. cap
      /\ Turn(head + size, cap) = (Turn(head + n, cap) + (size - n)) % cap
  BY PopPositions
<1>2. /\ r.buf = buf /\ r.cap = cap /\ r.head = head /\ r.tail = tail /\ r.size = size
      /\ r = [buf |-> buf, cap |-> cap, head |-> head, tail |-> tail, size |-> size]
      /\ buf \in [0 .. cap - 1 -> S] /\ RingOK(r, S)
  BY DEF RingParts
<1>3. PICK h, m : h = Turn(head + n, cap) /\ m = size - n
  OBVIOUS
<1>4. w = [buf |-> buf, cap |-> cap, head |-> h, tail |-> tail, size |-> m]
  BY <1>1, <1>2, <1>3, Zenon DEF PopRing
<1>5. /\ w.buf = buf /\ w.cap = cap /\ w.head = h /\ w.tail = tail /\ w.size = m
      /\ w = [buf |-> w.buf, cap |-> w.cap, head |-> w.head, tail |-> w.tail, size |-> w.size]
  BY <1>4
<1>6. /\ cap \in Nat /\ h \in Nat /\ h < cap /\ m \in 0 .. cap
  BY <1>1, <1>3 DEF PopSetting
<1>7. tail \in Nat /\ tail < cap
  BY DEF PopSetting, Turn
<1>8. tail = (h + m) % cap
  BY <1>1, <1>3, Zenon
<1> QED
  BY <1>1, <1>2, <1>3, <1>5, <1>6, <1>7, <1>8, Zenon DEF RingOK

\* _ByteRing.pop, for every ring and count it serves: it returns the oldest n bytes in
\* order and leaves a well-formed ring holding the others.
THEOREM PopIsFifo ==
  ASSUME NEW S, NEW r, RingOK(r, S), NEW n \in 1 .. r.size
  PROVE  /\ Popped(r, n) = SubSeq(Contents(r), 1, n)
         /\ RingOK(PopRing(r, n), S)
         /\ Contents(PopRing(r, n)) = SubSeq(Contents(r), n + 1, r.size)
<1>1. PICK cap, size, head, tail, buf, old, w, got :
        /\ cap = r.cap /\ size = r.size /\ head = r.head /\ tail = r.tail /\ buf = r.buf
        /\ old = Contents(r) /\ w = PopRing(r, n) /\ got = Popped(r, n)
  OBVIOUS
<1>2. /\ PopSetting(cap, size, head, n) /\ tail = Turn(head + size, cap)
      /\ size \in Nat /\ n \in Nat /\ n >= 1 /\ n <= size
  <2>1. /\ r.cap \in Nat /\ r.size \in Nat /\ r.size <= r.cap /\ r.head \in Nat
        /\ r.cap # 0 => r.head < r.cap /\ r.tail = Turn(r.head + r.size, r.cap)
    BY RingNumbers
  <2>2. /\ cap \in Nat /\ size \in Nat /\ size <= cap /\ head \in Nat /\ n \in 1 .. size
        /\ cap # 0 => head < cap /\ tail = Turn(head + size, cap)
    BY <1>1, <2>1, Zenon
  <2>3. PopSetting(cap, size, head, n) /\ cap # 0 /\ n \in Nat /\ n >= 1 /\ n <= size
    BY <2>2 DEF PopSetting
  <2> QED
    BY <2>2, <2>3, Zenon
<1>3. /\ RingParts(r, S, cap, size, head, tail, buf)
      /\ buf \in [0 .. cap - 1 -> S]
  <2>1. /\ r.buf \in [0 .. r.cap - 1 -> S]
        /\ r = [buf |-> r.buf, cap |-> r.cap, head |-> r.head, tail |-> r.tail,
                size |-> r.size]
    BY RingFields
  <2> QED
    BY <1>1, <2>1, Zenon DEF RingParts
<1>4. /\ IsChunk(old, S, size)
      /\ \A k \in 1 .. size : old[k] = buf[Turn(head + k - 1, cap)]
  <2>1. /\ IsChunk(Contents(r), S, r.size)
        /\ \A k \in 1 .. r.size : Contents(r)[k] = r.buf[Turn(r.head + k - 1, r.cap)]
    BY ContentsChunk, ContentsProperties
  <2> QED
    BY <1>1, <2>1, Zenon
<1>5. got = SubSeq(old, 1, n)
  <2>1. ReadFrom(got, S, buf, head, cap, n)
    <3>1. ReadFrom(Popped(r, n), S, buf, head, cap, n)
      <4>1. r.buf = buf /\ r.cap = cap /\ r.head = head /\ r.size = size
        BY <1>1
      <4> QED
        BY <1>2, <1>3, <4>1, PoppedBytes
    <3> QED
      BY <1>1, <3>1, Zenon
  <2>2. /\ n = n - 1 + 1 /\ 1 \in Nat /\ 1 <= n + 1 /\ 1 >= 1
        /\ \A k \in 1 .. n : 1 + (k - 1) = k /\ k \in 1 .. size
    BY <1>2
  <2>3. IsRun(SubSeq(old, 1, n), S, old, 1, n)
    BY <1>2, <1>4, <2>2, Stretch
  <2>4. ASSUME NEW k \in 1 .. n
        PROVE  got[k] = SubSeq(old, 1, n)[k]
    <3>1. got[k] = buf[Turn(head + k - 1, cap)]
      BY <2>1, Zenon DEF ReadFrom
    <3>2. SubSeq(old, 1, n)[k] = old[k]
      BY <2>2, <2>3, Zenon DEF IsRun
    <3>3. old[k] = buf[Turn(head + k - 1, cap)]
      BY <1>4, <2>2, Zenon
    <3> QED
      BY <3>1, <3>2, <3>3, Zenon
  <2>5. IsChunk(got, S, n) /\ IsChunk(SubSeq(old, 1, n), S, n)
    BY <2>1, <2>3, Zenon DEF ReadFrom, IsRun
  <2> QED
    BY <2>4, <2>5, SameSequence
<1>6. PICK m, h : m = size - n /\ h = Turn(head + n, cap)
  OBVIOUS
<1>7. RingOK(w, S) /\ w.buf = buf /\ w.cap = cap /\ w.size = m /\ w.head = h
  <2>1. /\ RingOK(w, S)
        /\ w.buf = buf /\ w.cap = cap /\ w.size = size - n
        /\ w.head = Turn(head + n, cap)
    BY <1>1, <1>2, <1>3, PopLeaves
  <2> QED
    BY <1>6, <2>1, Zenon
<1>8. /\ IsChunk(Contents(w), S, m)
      /\ \A k \in 1 .. m : Contents(w)[k] = buf[Turn(h + k - 1, cap)]
  <2>1. /\ IsChunk(Contents(w), S, w.size)
        /\ \A k \in 1 .. w.size : Contents(w)[k] = w.buf[Turn(w.head + k - 1, w.cap)]
    BY <1>7, ContentsChunk, ContentsProperties
  <2> QED
    BY <1>7, <2>1, Zenon
<1>9. Contents(w) = SubSeq(old, n + 1, size)
  <2>1. /\ m = size - (n + 1) + 1 /\ n + 1 \in Nat /\ n + 1 >= 1 /\ n + 1 <= size + 1
        /\ size <= size
        /\ \A k \in 1 .. m : (n + 1) + (k - 1) = n + k /\ n + k \in 1 .. size
    BY <1>2, <1>6
  <2>2. IsRun(SubSeq(old, n + 1, size), S, old, n + 1, m)
    BY <1>2, <1>4, <2>1, Stretch
  <2>3. SamePlaces(cap, head, n, m)
    <3>1. SamePlaces(cap, head, n, size - n)
      BY <1>2, PopPositions
    <3> QED
      BY <1>6, <3>1, Zenon
  <2>4. ASSUME NEW k \in 1 .. m
        PROVE  Contents(w)[k] = SubSeq(old, n + 1, size)[k]
    <3>1. Contents(w)[k] = buf[Turn(Turn(head + n, cap) + k - 1, cap)]
      BY <1>6, <1>8, Zenon
    <3>2. Turn(Turn(head + n, cap) + k - 1, cap) = Turn(head + (n + k) - 1, cap)
      BY <2>3, Zenon DEF SamePlaces
    <3>3. SubSeq(old, n + 1, size)[k] = old[n + k]
      BY <2>1, <2>2, Zenon DEF IsRun
    <3>4. old[n + k] = buf[Turn(head + (n + k) - 1, cap)]
      BY <1>4, <2>1, Zenon
    <3> QED
      BY <3>1, <3>2, <3>3, <3>4, Zenon
  <2>5. IsChunk(SubSeq(old, n + 1, size), S, m)
    BY <2>2, Zenon DEF IsRun
  <2> QED
    BY <1>8, <2>4, <2>5, SameSequence
<1> QED
  BY <1>1, <1>5, <1>7, <1>9, Zenon

-------------------------------------------------------------------------------
(* The rings that are not written or popped                                  *)

\* A new ring is empty.
LEMMA NewIsEmpty ==
  ASSUME NEW S, 0 \in S, NEW c \in Nat
  PROVE  /\ RingOK(NewRing(c), S) /\ NewRing(c).cap = c /\ Contents(NewRing(c)) = <<>>
<1>1. PICK buf, r : buf = [j \in 0 .. c - 1 |-> 0] /\ r = NewRing(c)
  OBVIOUS
<1>2. r = [buf |-> buf, cap |-> c, head |-> 0, tail |-> 0, size |-> 0]
  BY <1>1 DEF NewRing
<1>3. /\ r.buf = buf /\ r.cap = c /\ r.head = 0 /\ r.tail = 0 /\ r.size = 0
      /\ r = [buf |-> r.buf, cap |-> r.cap, head |-> r.head, tail |-> r.tail, size |-> r.size]
  BY <1>2
<1>4. buf \in [0 .. c - 1 -> S]
  BY <1>1
<1>5. c # 0 => 0 = (0 + 0) % c
  OBVIOUS
<1>6. RingOK(r, S)
  BY <1>3, <1>4, <1>5 DEF RingOK
<1>7. Len(Contents(r)) = 0 /\ Contents(r) \in Seq(S)
  BY <1>3, <1>6, ContentsProperties
<1>8. Contents(r) = <<>>
  BY <1>7, EmptySeq
<1> QED
  BY <1>1, <1>3, <1>6, <1>8, Zenon

\* A ring that was reset is empty and as large as before.
LEMMA ResetIsEmpty ==
  ASSUME NEW S, NEW r, RingOK(r, S), NEW w, w = ResetRing(r)
  PROVE  RingOK(w, S) /\ w.cap = r.cap /\ w.size = 0 /\ Contents(w) = <<>>
<1>1. PICK buf, cap, h, t, sz :
        buf = r.buf /\ cap = r.cap /\ h = r.head /\ t = r.tail /\ sz = r.size
  OBVIOUS
<1>2. /\ r = [buf |-> buf, cap |-> cap, head |-> h, tail |-> t, size |-> sz]
      /\ buf \in [0 .. cap - 1 -> S] /\ cap \in Nat
  BY <1>1, Zenon DEF RingOK
<1>3. w = [buf |-> buf, cap |-> cap, head |-> 0, tail |-> 0, size |-> 0]
  <2>1. ResetRing(r) = [r EXCEPT !.head = 0, !.tail = 0, !.size = 0]
    BY Zenon DEF ResetRing
  <2> QED
    BY <1>2, <2>1
<1>4. /\ w.buf = buf /\ w.cap = cap /\ w.head = 0 /\ w.tail = 0 /\ w.size = 0
      /\ w = [buf |-> w.buf, cap |-> w.cap, head |-> w.head, tail |-> w.tail, size |-> w.size]
  BY <1>3
<1>5. cap # 0 => 0 = (0 + 0) % cap
  BY <1>2
<1>6. RingOK(w, S)
  BY <1>2, <1>4, <1>5 DEF RingOK
<1>7. Len(Contents(w)) = 0 /\ Contents(w) \in Seq(S)
  BY <1>4, <1>6, ContentsProperties
<1>8. Contents(w) = <<>>
  BY <1>7, EmptySeq
<1> QED
  BY <1>1, <1>4, <1>6, <1>8, Zenon

\* The remainder of a number that is at most one turn below zero.
LEMMA Remainder ==
  ASSUME NEW cap \in Nat \ {0}, NEW a \in Int, 0 - cap <= a, a < cap
  PROVE  a % cap = IF a >= 0 THEN a ELSE a + cap
<1>1. PICK q \in Int, m \in Int : q = a \div cap /\ m = a % cap
  OBVIOUS
<1>2. a = cap * q + m /\ m \in 0 .. cap - 1
  BY <1>1
<1>3. CASE q = 0
  BY <1>1, <1>2, <1>3
<1>4. CASE q = 0 - 1
  BY <1>1, <1>2, <1>4
<1>5. CASE q >= 1
  <2>1. cap * q >= cap
    BY <1>5
  <2> QED
    BY <1>2, <2>1
<1>6. CASE q <= 0 - 2
  <2>1. cap * q <= 0 - 2 * cap
    BY <1>6
  <2> QED
    BY <1>2, <2>1
<1> QED
  BY <1>3, <1>4, <1>5, <1>6

\* The k-th of the newest n bytes is the (size - n + k)-th of all.
LEMMA SameTurn ==
  ASSUME NEW cap \in Nat, NEW size \in 0 .. cap, NEW head \in 0 .. cap - 1,
         NEW n \in 1 .. size, NEW k \in 1 .. n,
         NEW start, start = Turn(head + (size - n), cap)
  PROVE  Turn(start + k - 1, cap) = Turn(head + (size - n + k) - 1, cap)
<1>1. PICK p \in Int : p = head + (size - n)
  OBVIOUS
<1>2. /\ p \in 0 .. 2 * cap - 1 /\ start = Turn(p, cap)
      /\ head + (size - n + k) - 1 = p + k - 1
  BY <1>1
<1>3. CASE p < cap
  <2>1. start = p
    BY <1>2, <1>3 DEF Turn
  <2> QED
    BY <1>2, <2>1
<1>4. CASE p >= cap
  <2>1. start = p - cap
    BY <1>2, <1>4 DEF Turn
  <2>2. p + k - 1 >= cap
    BY <1>2, <1>4
  <2>3. p - cap + k - 1 < cap
    BY <1>1, <1>2, <1>4
  <2>4. start + k - 1 = p + k - 1 - cap
    <3>1. p - cap + k - 1 = p + k - 1 - cap
      BY <1>1
    <3> QED
      BY <2>1, <3>1, Zenon
  <2> QED
    BY <1>2, <2>1, <2>2, <2>3, <2>4 DEF Turn
<1> QED
  BY <1>2, <1>3, <1>4

\* Where the newest n bytes begin.
LEMMA TailPositions ==
  ASSUME NEW cap, NEW size, NEW head, NEW n, PopSetting(cap, size, head, n),
         NEW tail, tail = Turn(head + size, cap), NEW start, start = (tail - n) % cap
  PROVE  /\ start \in 0 .. cap - 1
         /\ PopSetting(cap, n, start, n)
         /\ \A k \in 1 .. n : Turn(start + k - 1, cap) = Turn(head + (size - n + k) - 1, cap)
<1>1. cap \in Nat /\ cap # 0 /\ n \in 1 .. cap /\ tail \in 0 .. cap - 1 /\ size \in 0 .. cap
      /\ head \in 0 .. cap - 1 /\ n <= size
  BY DEF PopSetting, Turn
<1>2. start = IF tail >= n THEN tail - n ELSE tail - n + cap
  <2>1. /\ cap \in Nat \ {0} /\ tail - n \in Int /\ 0 - cap <= tail - n /\ tail - n < cap
        /\ tail - n >= 0 <=> tail >= n
    BY <1>1
  <2>2. (tail - n) % cap = IF tail - n >= 0 THEN tail - n ELSE tail - n + cap
    BY <2>1, Remainder
  <2> QED
    BY <2>1, <2>2
<1>3. /\ start \in 0 .. cap - 1
      /\ start = Turn(head + (size - n), cap)
  BY <1>1, <1>2 DEF Turn
<1>4. ASSUME NEW k \in 1 .. n
      PROVE  Turn(start + k - 1, cap) = Turn(head + (size - n + k) - 1, cap)
  <2>1. /\ cap \in Nat /\ size \in 0 .. cap /\ head \in 0 .. cap - 1 /\ n \in 1 .. size
        /\ k \in 1 .. n
    BY <1>1
  <2> QED
    BY <1>3, <2>1, SameTurn
<1> QED
  BY <1>1, <1>3, <1>4 DEF PopSetting

\* _ByteRing.peek_tail: the newest bytes, oldest first.
LEMMA PeekIsNewest ==
  ASSUME NEW S, NEW r, RingOK(r, S), NEW n \in Nat, n <= r.size
  PROVE  PeekTail(r, n) = Newest(Contents(r), n) /\ PeekTail(r, n) \in Seq(S)
<1>1. PICK cap, size, head, tail, buf, old, got :
        /\ cap = r.cap /\ size = r.size /\ head = r.head /\ tail = r.tail /\ buf = r.buf
        /\ old = Contents(r) /\ got = PeekTail(r, n)
  OBVIOUS
<1>2. /\ IsChunk(old, S, size)
      /\ \A k \in 1 .. size : old[k] = buf[Turn(head + k - 1, cap)]
  <2>1. /\ IsChunk(Contents(r), S, r.size)
        /\ \A k \in 1 .. r.size : Contents(r)[k] = r.buf[Turn(r.head + k - 1, r.cap)]
    BY ContentsChunk, ContentsProperties
  <2> QED
    BY <1>1, <2>1, Zenon
<1>3. size \in Nat /\ n <= size
  BY <1>1, RingNumbers
<1>4. CASE n = 0
  <2>1. got = <<>>
    BY <1>1, <1>4 DEF PeekTail
  <2>2. Len(Newest(old, n)) = 0 /\ Newest(old, n) \in Seq(S)
    <3>1. size = IF size > n THEN size - n ELSE 0
      BY <1>3, <1>4
    <3>2. Newest(old, n) \in Seq(S) /\ Len(Newest(old, n)) = size - size
      BY <1>2, <3>1, NewestProperties
    <3> QED
      BY <1>3, <3>2
  <2>3. Newest(old, n) = <<>>
    BY <2>2, EmptySeq
  <2> QED
    BY <1>1, <2>1, <2>3
<1>5. CASE n # 0
  <2>1. /\ PopSetting(cap, size, head, n) /\ tail = Turn(head + size, cap) /\ cap # 0
        /\ ~(n <= 0 \/ n > size \/ cap = 0)
    <3>1. /\ r.cap \in Nat /\ r.size \in Nat /\ r.size <= r.cap /\ r.head \in Nat
          /\ r.cap # 0 => r.head < r.cap /\ r.tail = Turn(r.head + r.size, r.cap)
      BY RingNumbers
    <3>2. /\ cap \in Nat /\ size \in Nat /\ size <= cap /\ head \in Nat
          /\ cap # 0 => head < cap /\ tail = Turn(head + size, cap)
      BY <1>1, <3>1, Zenon
    <3> QED
      BY <1>3, <1>5, <3>2 DEF PopSetting
  <2>2. PICK start : start = (tail - n) % cap
    OBVIOUS
  <2>3. /\ PopSetting(cap, n, start, n)
        /\ \A k \in 1 .. n : Turn(start + k - 1, cap) = Turn(head + (size - n + k) - 1, cap)
    BY <2>1, <2>2, TailPositions
  <2>4. buf \in [0 .. cap - 1 -> S]
    BY <1>1, RingFields
  <2>5. PICK q : q = [buf |-> buf, cap |-> cap, head |-> start, tail |-> tail, size |-> n]
    OBVIOUS
  <2>6. q.buf = buf /\ q.cap = cap /\ q.head = start /\ q.size = n
    BY <2>5
  <2>7. got = Popped(q, n)
    <3>1. ~(n <= 0 \/ n > n)
      BY <1>5
    <3> DEFINE bytes == IF n <= cap - start THEN Slice(buf, start, start + n)
                        ELSE Slice(buf, start, cap) \o Slice(buf, 0, n - (cap - start))
    <3>2. PeekTail(r, n) = bytes
      BY <1>1, <2>1, <2>2, Zenon DEF PeekTail
    <3>3. Popped(q, n) = bytes
      BY <2>6, <3>1, Zenon DEF Popped
    <3>4. got = PeekTail(r, n)
      BY <1>1
    <3> HIDE DEF bytes
    <3> QED
      BY <3>2, <3>3, <3>4, Zenon
  <2>8. ReadFrom(got, S, buf, start, cap, n)
    <3>1. ReadFrom(Popped(q, n), S, buf, start, cap, n)
      BY <2>3, <2>4, <2>6, PoppedBytes
    <3> QED
      BY <2>7, <3>1, Zenon
  <2>9. PICK d : d = size - n
    OBVIOUS
  <2>10. /\ Newest(old, n) \in Seq(S) /\ Len(Newest(old, n)) = n
         /\ \A k \in 1 .. n : Newest(old, n)[k] = old[d + k]
    <3>1. d = (IF size > n THEN size - n ELSE 0) /\ size - d = n
      BY <1>3, <2>9
    <3>2. /\ Newest(old, n) \in Seq(S) /\ Len(Newest(old, n)) = size - d
          /\ \A k \in 1 .. size - d : Newest(old, n)[k] = old[d + k]
      BY <1>2, <3>1, NewestProperties
    <3>3. PICK m : m = size - d
      OBVIOUS
    <3>4. /\ Newest(old, n) \in Seq(S) /\ Len(Newest(old, n)) = m
          /\ \A k \in 1 .. m : Newest(old, n)[k] = old[d + k]
      BY <3>2, <3>3
    <3>5. m = n
      BY <3>1, <3>3
    <3> QED
      BY <3>4, <3>5
  <2>11. ASSUME NEW k \in 1 .. n
         PROVE  got[k] = Newest(old, n)[k]
    <3>1. d + k \in 1 .. size /\ d + k = size - n + k
      BY <1>3, <2>9
    <3>2. old[d + k] = buf[Turn(head + (d + k) - 1, cap)]
      BY <1>2, <3>1, Zenon
    <3>3. got[k] = buf[Turn(start + k - 1, cap)]
      BY <2>8, Zenon DEF ReadFrom
    <3> QED
      BY <2>3, <2>10, <3>1, <3>2, <3>3, Zenon
  <2>12. IsChunk(got, S, n) /\ IsChunk(Newest(old, n), S, n)
    BY <2>8, <2>10, Zenon DEF ReadFrom, IsChunk
  <2>13. got = Newest(old, n)
    BY <2>11, <2>12, SameSequence
  <2> QED
    BY <1>1, <2>12, <2>13, Zenon DEF IsChunk
<1> QED
  BY <1>4, <1>5

\* Writing keeps the capacity.
LEMMA WriteKeepsCap ==
  ASSUME NEW r, NEW written
  PROVE  WriteRing(r, written).cap = r.cap
<1>1. CASE Len(written) = 0 \/ r.cap = 0
  BY <1>1 DEF WriteRing
<1>2. CASE ~(Len(written) = 0 \/ r.cap = 0) /\ Len(written) >= r.cap
  <2>1. WriteRing(r, written) =
          [buf |-> [j \in 0 .. r.cap - 1 |-> written[Len(written) - r.cap + j + 1]],
           cap |-> r.cap, head |-> 0, tail |-> 0, size |-> r.cap]
    BY <1>2, Zenon DEF WriteRing
  <2> QED
    BY <2>1
<1>3. CASE ~(Len(written) = 0 \/ r.cap = 0) /\ ~(Len(written) >= r.cap)
  <2>1. PICK h, sz, tl : WriteRing(r, written) =
          [buf |-> Placed(r.buf, r.cap, r.tail, written), cap |-> r.cap,
           head |-> h, tail |-> tl, size |-> sz]
    BY <1>3, Zenon DEF WriteRing
  <2> QED
    BY <2>1
<1> QED
  BY <1>1, <1>2, <1>3

\* So does a pop.
LEMMA PopKeepsCap ==
  ASSUME NEW S, NEW r, RingOK(r, S), NEW n
  PROVE  PopRing(r, n).cap = r.cap
<1>1. PICK buf, cap, h, t, sz :
        buf = r.buf /\ cap = r.cap /\ h = r.head /\ t = r.tail /\ sz = r.size
  OBVIOUS
<1>2. r = [buf |-> buf, cap |-> cap, head |-> h, tail |-> t, size |-> sz]
  BY <1>1, Zenon DEF RingOK
<1>3. PICK h1, sz1 : PopRing(r, n) = r \/ PopRing(r, n) = [r EXCEPT !.head = h1, !.size = sz1]
  BY Zenon DEF PopRing
<1> QED
  BY <1>1, <1>2, <1>3

\* A resize keeps the newest bytes that fit.
LEMMA ResizeKeepsNewest ==
  ASSUME NEW S, 0 \in S, NEW r, RingOK(r, S), NEW c \in Nat, NEW w, w = Resized(r, c)
  PROVE  RingOK(w, S) /\ w.cap = c /\ Contents(w) = Newest(Contents(r), c)
<1>1. PICK old, size : old = Contents(r) /\ size = r.size
  OBVIOUS
<1>2. old \in Seq(S) /\ Len(old) = size /\ size \in Nat /\ size <= r.cap
  BY <1>1, ContentsProperties, RingNumbers
<1>3. CASE c = r.cap
  <2>1. w = r
    BY <1>3 DEF Resized
  <2>2. Newest(old, c) = old
    BY <1>2, <1>3 DEF Newest
  <2> QED
    BY <1>1, <1>3, <2>1, <2>2
<1>4. CASE c # r.cap
  <2>1. PICK keep \in Nat : keep = (IF size <= c THEN size ELSE c)
    BY <1>2
  <2>2. PICK new, tail : new = NewRing(c) /\ tail = PeekTail(r, keep)
    OBVIOUS
  <2>3. w = WriteRing(new, tail)
    BY <1>1, <1>4, <2>1, <2>2, Zenon DEF Resized
  <2>4. tail = Newest(old, keep) /\ tail \in Seq(S)
    BY <1>1, <1>2, <2>1, <2>2, PeekIsNewest
  <2>5. RingOK(new, S) /\ new.cap = c /\ Contents(new) = <<>>
    BY <2>2, NewIsEmpty
  <2>6. RingOK(w, S) /\ Contents(w) = Newest(Contents(new) \o tail, new.cap)
    BY <2>3, <2>4, <2>5, WriteIsFifo
  <2>7. w.cap = c
    BY <2>3, <2>5, WriteKeepsCap
  <2>8. Contents(new) \o tail = tail
    BY <2>4, <2>5, ConcatEmptySeq
  <2>9. Newest(old, keep) = Newest(old, c)
    BY <1>2, <2>1 DEF Newest
  <2>10. Newest(tail, c) = tail
    <3>1. Len(tail) <= c
      <4>1. PICK d : d = IF size > keep THEN size - keep ELSE 0
        OBVIOUS
      <4>2. Len(Newest(old, keep)) = size - d
        <5>1. IsChunk(old, S, size)
          BY <1>2 DEF IsChunk
        <5> QED
          BY <4>1, <5>1, NewestProperties
      <4>3. size - d <= c
        BY <1>2, <2>1, <4>1
      <4> QED
        BY <2>4, <4>2, <4>3
    <3> QED
      BY <3>1 DEF Newest
  <2> QED
    BY <1>1, <2>4, <2>5, <2>6, <2>7, <2>8, <2>9, <2>10, Zenon
<1> QED
  BY <1>3, <1>4

-------------------------------------------------------------------------------
(* The invariant                                                             *)

USE ParametersAssumption

\* The ring belongs to the configuration.
RingInv ==
  /\ config \in [rate : Rates, prefill : Prefills]
  /\ RingOK(ring, Bytes) /\ ring.cap = Capacity(config.prefill, config.rate)
  /\ prime = PrimeOf(config.prefill, config.rate)
  /\ underflow = UnderflowOf(config.prefill, config.rate)

\* One session at a time has a thread: earlier ones have ended, later ones have not begun. Bytes
\* are held by a producer that is about to store them, and are of its session.
ProducerInv ==
  /\ session \in 0 .. MaxSessions /\ thread \in {0, session}
  /\ producer \in [Sessions -> Phases] /\ chunk = [s \in Sessions |-> chunk[s]]
  /\ \A s \in Sessions : /\ s < session => producer[s] = "dead"
                         /\ s > session => producer[s] = "none"
                         /\ s = session /\ thread = 0 => producer[s] = "dead"
                         /\ producer[s] = "got" => chunk[s] \in ChunksOf(s)
                         /\ producer[s] # "got" => chunk[s] = <<>>
  /\ control \in {"idle", "joining"} /\ (control = "joining" => thread # 0)

\* The reader and what it sees.
ReaderInv ==
  /\ filling \in BOOLEAN /\ stop \in BOOLEAN /\ error \in {"none", "io", "eof"}
  /\ reader \in {"idle", "entering", "asleep", "woken"} /\ count \in {0} \cup Counts
  /\ reader # "idle" => count \in Counts
  /\ result.kind \in {"none", "data", "too large", "closed", "io", "eof"}

BufferInv == RingInv /\ ProducerInv /\ ReaderInv

LEMMA CapacityIsNat ==
  ASSUME NEW h \in Prefills, NEW rate \in Rates
  PROVE  Capacity(h, rate) \in Nat
BY DEF Capacity

\* The bytes a session's producer may return are bytes.
LEMMA ChunksAreBytes ==
  ASSUME NEW s \in Sessions, NEW c \in ChunksOf(s)
  PROVE  c \in Seq(Bytes) /\ c \in Fifo!Chunks
<1>1. PICK n \in 1 .. MaxChunk : c \in [1 .. n -> BytesOf(s)]
  BY DEF ChunksOf
<1>2. BytesOf(s) \subseteq Bytes
  BY DEF Bytes
<1>3. c \in [1 .. n -> Bytes]
  BY <1>1, <1>2
<1>4. c \in Seq(Bytes)
  BY <1>3
<1>5. c \in Fifo!Chunks
  BY <1>3 DEF Fifo!Chunks
<1> QED
  BY <1>4, <1>5

LEMMA InitHolds == Init => BufferInv
<1> SUFFICES ASSUME Init PROVE BufferInv
  OBVIOUS
<1>1. RingInv
  <2>1. PICK c \in Nat : c = Capacity(config.prefill, config.rate)
    BY CapacityIsNat DEF Init
  <2>2. 0 \in Bytes
    BY DEF Bytes
  <2>3. RingOK(NewRing(c), Bytes) /\ NewRing(c).cap = c
    BY <2>1, <2>2, NewIsEmpty
  <2>4. ring = NewRing(c)
    BY <2>1 DEF Init
  <2> QED
    BY <2>1, <2>3, <2>4, Zenon DEF Init, RingInv
<1>2. ProducerInv
  BY DEF Init, ProducerInv, Phases, Sessions
<1>3. ReaderInv
  BY DEF Init, ReaderInv
<1> QED
  BY <1>1, <1>2, <1>3 DEF BufferInv

\* What is left alone stays as it is.
LEMMA RingKept ==
  ASSUME RingInv, ring' = ring, prime' = prime, underflow' = underflow, config' = config
  PROVE  RingInv'
BY DEF RingInv

\* What is written into the ring are bytes, what is taken out was in it.
LEMMA RingStep == ASSUME BufferInv, [Next]_vars PROVE RingInv'
<1>0. RingInv /\ ProducerInv /\ ReaderInv /\ 0 \in Bytes
  BY DEF BufferInv, Bytes
<1>1. ASSUME NEW s \in Sessions, ProducerNext(s) PROVE RingInv'
  <2>1. CASE StoreChunk(s) /\ ~stop
    <3>1. chunk[s] \in Seq(Bytes)
      BY <1>0, <2>1, ChunksAreBytes DEF ProducerInv, StoreChunk
    <3>2. ring' = WriteRing(ring, chunk[s])
      BY <2>1 DEF StoreChunk
    <3>3. RingOK(ring, Bytes)
      BY <1>0 DEF RingInv
    <3>4. RingOK(ring', Bytes) /\ ring'.cap = ring.cap
      BY <3>1, <3>2, <3>3, WriteIsFifo, WriteKeepsCap
    <3> QED
      BY <1>0, <2>1, <3>4, Zenon DEF StoreChunk, RingInv
  <2>2. CASE StoreChunk(s) /\ stop
    BY <1>0, <2>2, RingKept DEF StoreChunk
  <2>3. CASE ProducerTop(s) \/ ProducerReturns(s) \/ ProducerFails(s)
    BY <1>0, <2>3, RingKept DEF ProducerTop, ProducerReturns, ProducerFails, buffer
  <2> QED
    BY <1>1, <2>1, <2>2, <2>3 DEF ProducerNext
<1>2. CASE ReadServes
  <2>1. RingOK(ring, Bytes) /\ count \in 1 .. ring.size
    <3>1. RingOK(ring, Bytes) /\ ring.size \in Nat
      BY <1>0, RingNumbers DEF RingInv
    <3>2. count \in Counts /\ ring.size >= count
      BY <1>0, <1>2, Zenon DEF ReadServes, ReaderInv
    <3> QED
      BY <3>1, <3>2
  <2>2. RingOK(PopRing(ring, count), Bytes) /\ PopRing(ring, count).cap = ring.cap
    BY <2>1, PopIsFifo, PopKeepsCap
  <2> QED
    BY <1>0, <1>2, <2>2, Zenon DEF ReadServes, RingInv
<1>3. CASE (\E n \in Counts : ReadCall(n)) \/ ReadRaises \/ ReadWaits
  BY <1>0, <1>3, RingKept DEF ReadCall, ReadRaises, ReadWaits, buffer
<1>4. CASE Start
  <2>1. RingOK(ResetRing(ring), Bytes) /\ ResetRing(ring).cap = ring.cap
    BY <1>0, ResetIsEmpty DEF RingInv
  <2> QED
    BY <1>0, <1>4, <2>1, Zenon DEF Start, RingInv
<1>5. CASE StopRequest \/ StopJoin
  BY <1>0, <1>5, RingKept DEF StopRequest, StopJoin, buffer
<1>6. ASSUME NEW h \in Prefills, NEW rate \in Rates, Reconfigure(h, rate) PROVE RingInv'
  <2>1. PICK c \in Nat : c = Capacity(h, rate)
    BY CapacityIsNat
  <2>2. RingOK(ring', Bytes) /\ ring'.cap = c
    BY <1>0, <1>6, <2>1, ResizeKeepsNewest DEF RingInv, Reconfigure
  <2>3. config' = [rate |-> rate, prefill |-> h] /\ prime' = PrimeOf(h, rate)
        /\ underflow' = UnderflowOf(h, rate)
    BY <1>6 DEF Reconfigure
  <2>4. config' \in [rate : Rates, prefill : Prefills] /\ config'.prefill = h /\ config'.rate = rate
    BY <2>3
  <2> QED
    BY <2>1, <2>2, <2>3, <2>4, Zenon DEF RingInv
<1>7. CASE UNCHANGED vars
  BY <1>0, <1>7, RingKept DEF vars, buffer
<1> QED
  BY <1>1, <1>2, <1>3, <1>4, <1>5, <1>6, <1>7 DEF Next, ReaderNext, ControlNext, ReconfigureNext

LEMMA ProducersKept ==
  ASSUME ProducerInv, session' = session, thread' = thread, producer' = producer,
         chunk' = chunk, control' = control
  PROVE  ProducerInv'
BY DEF ProducerInv

\* notify_all moves sleeping producers only.
LEMMA Awakened ==
  ASSUME NEW phases \in [Sessions -> Phases]
  PROVE  /\ Woken(phases) \in [Sessions -> Phases]
         /\ \A s \in Sessions :
              Woken(phases)[s] = IF phases[s] = "asleep" THEN "top" ELSE phases[s]
BY DEF Woken, Phases

LEMMA ProducersWoken ==
  ASSUME ProducerInv, session' = session, thread' = thread, chunk' = chunk,
         producer' = Woken(producer),
         control' \in {"idle", "joining"}, control' = "joining" => thread # 0
  PROVE  ProducerInv'
<1>1. producer \in [Sessions -> Phases] /\ Woken(producer) \in [Sessions -> Phases]
  BY Awakened DEF ProducerInv
<1>2. ASSUME NEW s \in Sessions
      PROVE  /\ producer[s] \in {"dead", "none", "got"} => producer'[s] = producer[s]
             /\ producer'[s] = "got" <=> producer[s] = "got"
  BY <1>1, Awakened
<1> QED
  BY <1>1, <1>2 DEF ProducerInv

\* The step of a producer that is alive is that of the last session.
LEMMA OnlyTheLast ==
  ASSUME ProducerInv, NEW s \in Sessions, producer[s] \notin {"none", "dead"}
  PROVE  s = session /\ thread = s
BY DEF ProducerInv, Sessions

\* A producer's own step.
LEMMA ProducerMoves ==
  ASSUME ProducerInv, NEW s \in Sessions, producer[s] \notin {"none", "dead"},
         NEW phase \in Phases, NEW bytes,
         phase = "got" => bytes \in ChunksOf(s), phase # "got" => bytes = <<>>,
         NEW moved, moved = [producer EXCEPT ![s] = phase],
         producer' \in {moved, Woken(moved)}, chunk' = [chunk EXCEPT ![s] = bytes],
         session' = session, thread' = thread, control' = control
  PROVE  ProducerInv'
<1>1. s = session /\ thread = s
  BY OnlyTheLast
<1>2. moved \in [Sessions -> Phases] /\ producer \in [Sessions -> Phases]
  BY DEF ProducerInv
<1>3. /\ session \in 0 .. MaxSessions /\ thread \in {0, session} /\ thread # 0
      /\ control \in {"idle", "joining"}
  BY <1>1 DEF ProducerInv, Sessions
<1>4. producer' \in [Sessions -> Phases] /\ chunk' = [o \in Sessions |-> chunk'[o]]
  <2>1. producer' \in [Sessions -> Phases]
    BY <1>2, Awakened, ZenonT(40)
  <2>2. chunk' = [o \in Sessions |-> chunk'[o]]
    BY DEF ProducerInv
  <2> QED
    BY <2>1, <2>2
<1>5. ASSUME NEW o \in Sessions
      PROVE  /\ o < session => producer'[o] = "dead"
             /\ o > session => producer'[o] = "none"
             /\ producer'[o] = "got" => chunk'[o] \in ChunksOf(o)
             /\ producer'[o] # "got" => chunk'[o] = <<>>
  <2>1. CASE o = s
    <3>1. moved[o] = phase /\ chunk'[o] = bytes
      BY <2>1 DEF ProducerInv
    <3>2. producer'[o] = phase \/ (phase = "asleep" /\ producer'[o] = "top")
      BY <1>2, <3>1, Awakened
    <3>3. ~(o < session) /\ ~(o > session)
      BY <1>1, <1>3, <2>1
    <3> QED
      BY <2>1, <3>1, <3>2, <3>3
  <2>2. CASE o # s
    <3>1. moved[o] = producer[o] /\ chunk'[o] = chunk[o]
      BY <2>2 DEF ProducerInv
    <3>2. producer[o] # "asleep"
      <4>1. producer[o] = "asleep" => o = session
        BY OnlyTheLast
      <4> QED
        BY <1>1, <2>2, <4>1
    <3>3. producer'[o] = producer[o]
      BY <1>2, <3>1, <3>2, Awakened
    <3> QED
      BY <3>1, <3>3 DEF ProducerInv
  <2> QED
    BY <2>1, <2>2
<1> QED
  BY <1>3, <1>4, <1>5 DEF ProducerInv

LEMMA ProducerStep == ASSUME BufferInv, [Next]_vars PROVE ProducerInv'
<1>0. RingInv /\ ProducerInv /\ ReaderInv
  BY DEF BufferInv
<1>1. ASSUME NEW s \in Sessions, ProducerNext(s) PROVE ProducerInv'
  <2>0. /\ producer \in [Sessions -> Phases]
        /\ chunk = [chunk EXCEPT ![s] = chunk[s]]
        /\ producer[s] # "got" => chunk[s] = <<>>
    BY <1>0 DEF ProducerInv
  <2>1. CASE ProducerTop(s)
    <3>1. PICK phase : /\ phase \in {"dead", "asleep", "calling"}
                       /\ producer' = [producer EXCEPT ![s] = phase]
      BY <2>1 DEF ProducerTop
    <3>2. chunk' = [chunk EXCEPT ![s] = <<>>] /\ producer[s] = "top"
      BY <2>0, <2>1 DEF ProducerTop
    <3> QED
      BY <1>0, <2>1, <3>1, <3>2, ProducerMoves DEF ProducerTop, Phases
  <2>2. CASE ProducerReturns(s)
    <3>0. PICK phase \in {"got", "eof", "io"} : \E bytes :
            /\ producer' = [producer EXCEPT ![s] = phase] /\ chunk' = [chunk EXCEPT ![s] = bytes]
            /\ phase = "got" => bytes \in ChunksOf(s)
            /\ phase # "got" => bytes = <<>>
      BY <2>0, <2>2 DEF ProducerReturns
    <3>1. PICK bytes :
            /\ producer' = [producer EXCEPT ![s] = phase] /\ chunk' = [chunk EXCEPT ![s] = bytes]
            /\ phase = "got" => bytes \in ChunksOf(s)
            /\ phase # "got" => bytes = <<>>
      BY <3>0
    <3>2. phase \in Phases /\ producer[s] \notin {"none", "dead"}
      BY <2>2, <3>0 DEF ProducerReturns, Phases
    <3>3. PICK moved : moved = [producer EXCEPT ![s] = phase]
      OBVIOUS
    <3>4. /\ producer' \in {moved, Woken(moved)} /\ session' = session /\ thread' = thread
          /\ control' = control
      BY <2>2, <3>1, <3>3 DEF ProducerReturns
    <3> QED
      BY <1>0, <3>1, <3>2, <3>3, <3>4, ProducerMoves
  <2>3. CASE ProducerFails(s)
    <3>1. chunk' = [chunk EXCEPT ![s] = <<>>] /\ producer[s] \in {"eof", "io"}
      BY <2>0, <2>3 DEF ProducerFails
    <3> QED
      BY <1>0, <2>3, <3>1, ProducerMoves DEF ProducerFails, Phases
  <2>4. CASE StoreChunk(s)
    <3>1. PICK phase \in {"dead", "top"} :
            \/ producer' = [producer EXCEPT ![s] = phase]
            \/ producer' = Woken([producer EXCEPT ![s] = phase])
      BY <2>4, Zenon DEF StoreChunk
    <3>2. chunk' = [chunk EXCEPT ![s] = <<>>] /\ producer[s] = "got"
      BY <2>4 DEF StoreChunk
    <3> QED
      BY <1>0, <2>4, <3>1, <3>2, ProducerMoves DEF StoreChunk, Phases
  <2> QED
    BY <1>1, <2>1, <2>2, <2>3, <2>4 DEF ProducerNext
<1>2. CASE ReaderNext
  BY <1>0, <1>2, ProducersKept
     DEF ReaderNext, ReadCall, ReadRaises, ReadWaits, ReadServes, producers
<1>3. CASE Start
  <2>1. session' = session + 1 /\ session' \in Sessions /\ thread' = session' /\ thread = 0
    BY <1>0, <1>3 DEF Start, ProducerInv, Sessions
  <2>2. producer' = [producer EXCEPT ![session'] = "top"] /\ UNCHANGED <<chunk, control>>
    BY <1>3, <2>1 DEF Start
  <2>3. producer' \in [Sessions -> Phases] /\ control \in {"idle", "joining"}
    BY <1>0, <2>2 DEF ProducerInv, Phases
  <2>4. ASSUME NEW o \in Sessions
        PROVE  /\ o < session' => producer'[o] = "dead"
               /\ o > session' => producer'[o] = "none"
               /\ producer'[o] = "got" => chunk'[o] \in ChunksOf(o)
               /\ producer'[o] # "got" => chunk'[o] = <<>>
    <3>0. session \in Int /\ o \in Int /\ session' = session + 1
      BY <1>0, <2>1 DEF ProducerInv, Sessions
    <3>1. CASE o = session'
      <4>1. producer'[o] = "top" /\ producer[o] = "none"
        BY <1>0, <2>2, <3>0, <3>1 DEF ProducerInv
      <4>2. chunk'[o] = <<>>
        BY <1>0, <2>2, <4>1 DEF ProducerInv
      <4> QED
        BY <3>0, <3>1, <4>1, <4>2
    <3>2. CASE o # session'
      <4>1. producer'[o] = producer[o]
        BY <1>0, <2>2, <3>2 DEF ProducerInv
      <4>2. o < session' => producer[o] = "dead"
        BY <1>0, <2>1, <3>0, <3>2 DEF ProducerInv
      <4>3. o > session' => producer[o] = "none"
        BY <1>0, <3>0 DEF ProducerInv
      <4> QED
        BY <1>0, <2>2, <4>1, <4>2, <4>3 DEF ProducerInv
    <3> QED
      BY <3>1, <3>2
  <2>5. session' \in 0 .. MaxSessions /\ thread' # 0 /\ chunk' = [o \in Sessions |-> chunk'[o]]
    BY <1>0, <2>1, <2>2 DEF ProducerInv, Sessions
  <2> QED
    BY <2>1, <2>2, <2>3, <2>4, <2>5 DEF ProducerInv
<1>4. CASE StopRequest
  BY <1>0, <1>4, ProducersWoken DEF StopRequest
<1>5. CASE StopJoin
  BY <1>0, <1>5 DEF StopJoin, ProducerInv, Sessions
<1>6. CASE ReconfigureNext
  <2>1. /\ session' = session /\ thread' = thread /\ chunk' = chunk /\ control' = control
        /\ producer' = Woken(producer)
    BY <1>6 DEF ReconfigureNext, Reconfigure
  <2>2. control \in {"idle", "joining"} /\ (control = "joining" => thread # 0)
    BY <1>0 DEF ProducerInv
  <2> QED
    BY <1>0, <2>1, <2>2, ProducersWoken
<1>7. CASE UNCHANGED vars
  BY <1>0, <1>7, ProducersKept DEF vars, producers
<1> QED
  BY <1>1, <1>2, <1>3, <1>4, <1>5, <1>6, <1>7 DEF Next, ControlNext

LEMMA ReaderStep == ASSUME BufferInv, [Next]_vars PROVE ReaderInv'
<1>0. RingInv /\ ProducerInv /\ ReaderInv
  BY DEF BufferInv
<1>1. ASSUME NEW s \in Sessions, ProducerNext(s) PROVE ReaderInv'
  <2>1. CASE ProducerFails(s)
    BY <1>0, <2>1 DEF ReaderInv, ProducerFails, WakeReader
  <2>2. CASE StoreChunk(s)
    BY <1>0, <2>2 DEF ReaderInv, StoreChunk, WakeReader
  <2>3. CASE ProducerTop(s) \/ ProducerReturns(s)
    BY <1>0, <2>3 DEF ReaderInv, ProducerTop, ProducerReturns, buffer, reading
  <2> QED
    BY <1>1, <2>1, <2>2, <2>3 DEF ProducerNext
<1>2. CASE \E n \in Counts : ReadCall(n)
  BY <1>0, <1>2 DEF ReaderInv, ReadCall, buffer
<1>3. CASE ReadRaises
  <2>1. result'.kind \in {"none", "data", "too large", "closed", "io", "eof"}
    BY <1>0, <1>3 DEF ReaderInv, ReadRaises, Return
  <2> QED
    BY <1>0, <1>3, <2>1 DEF ReaderInv, ReadRaises, Return, buffer
<1>4. CASE ReadWaits
  BY <1>0, <1>4 DEF ReaderInv, ReadWaits, StillFilling
<1>5. CASE ReadServes
  <2>1. result'.kind = "data" /\ filling' \in BOOLEAN
    BY <1>5 DEF ReadServes, Return
  <2> QED
    BY <1>0, <1>5, <2>1, Zenon DEF ReaderInv, ReadServes, Return
<1>6. CASE Start
  BY <1>0, <1>6 DEF ReaderInv, Start, reading
<1>7. CASE StopRequest \/ StopJoin
  BY <1>0, <1>7 DEF ReaderInv, StopRequest, StopJoin, WakeReader, buffer, reading
<1>8. CASE ReconfigureNext
  <2>1. filling' \in BOOLEAN
    BY <1>0, <1>8 DEF ReconfigureNext, Reconfigure, ReaderInv
  <2> QED
    BY <1>0, <1>8, <2>1 DEF ReaderInv, ReconfigureNext, Reconfigure, WakeReader
<1>9. CASE UNCHANGED vars
  BY <1>0, <1>9 DEF ReaderInv, vars, buffer, reading
<1> QED
  BY <1>1, <1>2, <1>3, <1>4, <1>5, <1>6, <1>7, <1>8, <1>9 DEF Next, ReaderNext, ControlNext

THEOREM BufferInvHolds == Spec => []BufferInv
<1>1. BufferInv /\ [Next]_vars => BufferInv'
  BY RingStep, ProducerStep, ReaderStep DEF BufferInv
<1> QED
  BY <1>1, InitHolds, PTL DEF Spec

\* Every variable has its type, for all rates, prefills, chunks and numbers of sessions.
THEOREM TypeCorrect == Spec => []TypeOK
<1>1. BufferInv => TypeOK
  <2> SUFFICES ASSUME BufferInv PROVE TypeOK
    OBVIOUS
  <2>1. RingInv /\ ProducerInv /\ ReaderInv
    BY DEF BufferInv
  <2>2. session \in 0 .. MaxSessions /\ thread \in 0 .. session
    BY <2>1 DEF ProducerInv
  <2>3. \A s \in Sessions : chunk[s] \in {<<>>} \cup ChunksOf(s)
    BY <2>1 DEF ProducerInv
  <2> QED
    BY <2>1, <2>2, <2>3, Zenon DEF RingInv, ProducerInv, ReaderInv, TypeOK
<1> QED
  BY <1>1, BufferInvHolds, PTL

-------------------------------------------------------------------------------
(* No wake-up is lost                                                        *)

\* The producers' half: who sleeps has nothing to do.
ProducersRest == \A s \in Sessions : producer[s] = "asleep" => ~stop /\ ring.cap = 0

\* The reader's half.
ReaderRests ==
  reader = "asleep" => error = "none" /\ ~stop /\ (StillFilling \/ ring.size < count)

\* After notify_all nobody sleeps.
LEMMA NobodySleeps ==
  ASSUME NEW phases \in [Sessions -> Phases], producer' = Woken(phases), WakeReader
  PROVE  NoLostWakeup'
<1>1. \A s \in Sessions : producer'[s] # "asleep"
  BY Awakened
<1>2. reader' # "asleep"
  BY DEF WakeReader
<1> QED
  BY <1>1, <1>2 DEF NoLostWakeup

\* A step that leaves the buffer and the reader alone and puts no producer to sleep in vain.
LEMMA ReaderSleepsOn ==
  ASSUME ReaderRests, UNCHANGED <<buffer, reader, count>>
  PROVE  ReaderRests'
BY DEF ReaderRests, buffer, StillFilling

LEMMA WakeupStep == ASSUME BufferInv, NoLostWakeup, [Next]_vars PROVE NoLostWakeup'
<1>0. RingInv /\ ProducerInv /\ ReaderInv /\ ProducersRest /\ ReaderRests
  BY Zenon DEF BufferInv, NoLostWakeup, ProducersRest, ReaderRests
<1>a. producer \in [Sessions -> Phases] /\ RingOK(ring, Bytes)
  BY <1>0 DEF ProducerInv, RingInv
<1>b. ProducersRest' /\ ReaderRests' => NoLostWakeup'
  BY Zenon DEF NoLostWakeup, ProducersRest, ReaderRests
<1>1. ASSUME NEW s \in Sessions, ProducerNext(s) PROVE NoLostWakeup'
  <2>1. CASE ProducerTop(s)
    <3>1. ReaderRests'
      BY <1>0, <2>1, ReaderSleepsOn DEF ProducerTop, reading
    <3>2. ProducersRest'
      BY <1>0, <1>a, <2>1 DEF ProducersRest, ProducerTop, buffer
    <3> QED
      BY <1>b, <3>1, <3>2
  <2>2. CASE ProducerReturns(s)
    <3>1. ReaderRests'
      BY <1>0, <2>2, ReaderSleepsOn DEF ProducerReturns, reading
    <3>2. ProducersRest'
      <4>1. PICK phase \in {"got", "eof", "io"} : producer' = [producer EXCEPT ![s] = phase]
        BY <2>2 DEF ProducerReturns
      <4> QED
        BY <1>0, <1>a, <2>2, <4>1 DEF ProducersRest, ProducerReturns, buffer
    <3> QED
      BY <1>b, <3>1, <3>2
  <2>3. CASE ProducerFails(s)
    <3>1. [producer EXCEPT ![s] = "dead"] \in [Sessions -> Phases]
      BY <1>a DEF Phases
    <3> QED
      BY <2>3, <3>1, NobodySleeps DEF ProducerFails
  <2>4. CASE StoreChunk(s) /\ stop
    <3>1. ReaderRests'
      BY <1>0, <2>4 DEF StoreChunk, ReaderRests
    <3>2. ProducersRest'
      BY <1>0, <1>a, <2>4 DEF StoreChunk, ProducersRest
    <3> QED
      BY <1>b, <3>1, <3>2
  <2>5. CASE StoreChunk(s) /\ ~stop
    <3>1. [producer EXCEPT ![s] = "top"] \in [Sessions -> Phases]
      BY <1>a DEF Phases
    <3> QED
      BY <2>5, <3>1, NobodySleeps DEF StoreChunk
  <2> QED
    BY <1>1, <2>1, <2>2, <2>3, <2>4, <2>5 DEF ProducerNext
<1>2. CASE (\E n \in Counts : ReadCall(n)) \/ ReadRaises
  <2>1. reader' # "asleep" /\ UNCHANGED <<buffer, producers>>
    BY <1>2 DEF ReadCall, ReadRaises, Return
  <2> QED
    BY <1>0, <1>b, <2>1 DEF ReaderRests, ProducersRest, buffer, producers
<1>3. CASE ReadWaits
  <2>1. /\ error' = "none" /\ ~stop' /\ ring' = ring /\ prime' = prime /\ count' = count
        /\ stop' = stop /\ filling' = StillFilling /\ producer' = producer
        /\ StillFilling \/ ring.size < count
    BY <1>0, <1>3 DEF ReadWaits, Refused, producers, ReaderInv
  <2>2. StillFilling' \/ ring'.size < count'
    BY <2>1 DEF StillFilling
  <2> QED
    BY <1>0, <1>b, <2>1, <2>2 DEF ReaderRests, ProducersRest
<1>4. CASE ReadServes
  <2>1. reader' # "asleep" /\ ring' = PopRing(ring, count) /\ stop' = stop /\ producer' = producer
    BY <1>4 DEF ReadServes, Return, producers
  <2>2. ring'.cap = ring.cap
    BY <1>a, <2>1, PopKeepsCap
  <2> QED
    BY <1>0, <1>b, <2>1, <2>2 DEF ReaderRests, ProducersRest
<1>5. CASE Start
  <2>1. /\ error' = "none" /\ stop' = FALSE /\ ring' = ResetRing(ring) /\ count' = count
        /\ reader' = reader
        /\ \A s \in Sessions : producer'[s] \in {producer[s], "top"}
    BY <1>5, <1>a DEF Start, reading
  <2>2. ring'.cap = ring.cap /\ ring'.size = 0
    BY <1>a, <2>1, ResetIsEmpty
  <2>3. reader' = "asleep" => ring'.size < count'
    <3>1. reader = "asleep" => count \in Counts
      BY <1>0, Zenon DEF ReaderInv
    <3>2. \A n \in Counts : 0 < n
      OBVIOUS
    <3>3. reader' = "asleep" => 0 < count
      BY <2>1, <3>1, <3>2, Zenon
    <3> QED
      BY <2>1, <2>2, <3>3, Zenon
  <2>4. ReaderRests'
    BY <2>1, <2>3 DEF ReaderRests
  <2>5. ProducersRest'
    BY <1>0, <2>1, <2>2 DEF ProducersRest
  <2> QED
    BY <1>b, <2>4, <2>5
<1>6. CASE StopRequest
  BY <1>6, <1>a, NobodySleeps DEF StopRequest
<1>7. CASE ReconfigureNext
  BY <1>7, <1>a, NobodySleeps DEF ReconfigureNext, Reconfigure
<1>8. CASE StopJoin \/ UNCHANGED vars
  <2>1. UNCHANGED <<buffer, producer, reader, count>>
    BY <1>8 DEF StopJoin, vars, reading, producers
  <2> QED
    BY <1>0, <1>b, <2>1, ReaderSleepsOn DEF ProducersRest, buffer
<1> QED
  BY <1>1, <1>2, <1>3, <1>4, <1>5, <1>6, <1>7, <1>8 DEF Next, ReaderNext, ControlNext

\* NoLostWakeup, for all rates, prefills, counts, chunks and numbers of sessions.
THEOREM WakeupsArrive == Spec => []NoLostWakeup
<1>1. Init => NoLostWakeup
  BY DEF Init, NoLostWakeup
<1>2. BufferInv /\ NoLostWakeup /\ [Next]_vars => NoLostWakeup'
  BY WakeupStep
<1> QED
  BY <1>1, <1>2, BufferInvHolds, PTL DEF Spec

-------------------------------------------------------------------------------
(* The buffer is a lossy FIFO                                                *)

LEMMA FifoBegins == Init => Fifo!FifoInit
<1> SUFFICES ASSUME Init PROVE Fifo!FifoInit
  OBVIOUS
<1>1. PICK c \in Nat : c = Capacity(config.prefill, config.rate)
  BY CapacityIsNat DEF Init
<1>2. 0 \in Bytes
  BY DEF Bytes
<1>3. NewRing(c).cap = c /\ Contents(NewRing(c)) = <<>>
  BY <1>2, NewIsEmpty
<1>4. ring.cap = c /\ Contents(ring) = <<>>
  BY <1>1, <1>3 DEF Init
<1>5. Incoming = <<>> /\ result.data = <<>>
  BY DEF Init, Incoming
<1> QED
  BY <1>4, <1>5 DEF Fifo!FifoInit

\* The FIFO's state, of which most steps change nothing.
LEMMA FifoStutters ==
  ASSUME ring' = ring, result' = result, Incoming' = Incoming
  PROVE  UNCHANGED Fifo!fifoVars
BY DEF Fifo!fifoVars

LEMMA FifoStep == ASSUME BufferInv, [Next]_vars PROVE Fifo!FifoNext \/ UNCHANGED Fifo!fifoVars
<1>0. RingInv /\ ProducerInv /\ ReaderInv
  BY DEF BufferInv
<1>a. /\ RingOK(ring, Bytes) /\ Contents(ring) \in Seq(Bytes) /\ Len(Contents(ring)) = ring.size
      /\ ring.size \in Nat /\ ring.cap \in Nat
  BY <1>0, ContentsProperties, RingNumbers DEF RingInv
<1>1. ASSUME NEW s \in Sessions, ProducerNext(s)
      PROVE  Fifo!FifoNext \/ UNCHANGED Fifo!fifoVars
  <2>0. session' = session /\ result' = result
    BY <1>1 DEF ProducerNext, ProducerTop, ProducerReturns, ProducerFails, StoreChunk, reading
  <2>1. CASE ProducerTop(s) \/ ProducerFails(s)
    <3>1. ring' = ring /\ chunk' = chunk
      BY <2>1 DEF ProducerTop, ProducerFails, buffer
    <3> QED
      BY <2>0, <3>1, FifoStutters DEF Incoming
  <2>2. CASE ProducerReturns(s)
    <3>1. s = session /\ s # 0 /\ chunk[s] = <<>>
      BY <1>0, <2>2, OnlyTheLast DEF ProducerReturns, ProducerInv, Sessions
    <3>2. CASE chunk' = chunk
      BY <2>0, <2>2, <3>2, FifoStutters DEF ProducerReturns, buffer, Incoming
    <3>3. CASE \E bytes \in ChunksOf(s) : chunk' = [chunk EXCEPT ![s] = bytes]
      <4>1. PICK bytes \in ChunksOf(s) : chunk' = [chunk EXCEPT ![s] = bytes]
        BY <3>3
      <4>2. chunk'[s] = bytes
        BY <1>0, <4>1 DEF ProducerInv
      <4>3. bytes \in Fifo!Chunks
        BY ChunksAreBytes
      <4>4. Incoming = <<>> /\ Incoming' \in Fifo!Chunks
        BY <2>0, <3>1, <4>2, <4>3 DEF Incoming
      <4>5. ring' = ring
        BY <2>2 DEF ProducerReturns, buffer
      <4> QED
        BY <2>0, <4>4, <4>5 DEF Fifo!FifoNext, Fifo!Arrive
    <3> QED
      BY <2>2, <3>2, <3>3 DEF ProducerReturns
  <2>3. CASE StoreChunk(s)
    <3>1. s = session /\ s # 0 /\ chunk[s] \in Seq(Bytes)
      BY <1>0, <2>3, OnlyTheLast, ChunksAreBytes DEF StoreChunk, ProducerInv, Sessions
    <3>2. chunk'[s] = <<>>
      BY <1>0, <2>3 DEF StoreChunk, ProducerInv
    <3>3. Incoming = chunk[s] /\ Incoming' = <<>>
      BY <2>0, <3>1, <3>2 DEF Incoming
    <3>4. CASE stop
      <4>1. ring' = ring
        BY <2>3, <3>4 DEF StoreChunk
      <4> QED
        BY <2>0, <3>3, <4>1 DEF Fifo!FifoNext, Fifo!Drop
    <3>5. CASE ~stop
      <4>1. ring' = WriteRing(ring, chunk[s])
        BY <2>3, <3>5 DEF StoreChunk
      <4>2. Contents(ring') = Newest(Contents(ring) \o chunk[s], ring.cap) /\ ring'.cap = ring.cap
        BY <1>a, <3>1, <4>1, WriteIsFifo, WriteKeepsCap
      <4>3. Contents(ring') = Fifo!Suffix(Contents(ring) \o Incoming, ring.cap)
        BY <3>3, <4>2, Zenon DEF Newest, Fifo!Suffix
      <4> QED
        BY <2>0, <3>3, <4>2, <4>3, Zenon DEF Fifo!FifoNext, Fifo!Accept
    <3> QED
      BY <3>4, <3>5
  <2> QED
    BY <1>1, <2>1, <2>2, <2>3 DEF ProducerNext
<1>2. CASE ReaderNext
  <2>0. Incoming' = Incoming
    BY <1>2 DEF ReaderNext, ReadCall, ReadRaises, ReadWaits, ReadServes, producers, Incoming
  <2>1. CASE (\E n \in Counts : ReadCall(n)) \/ ReadWaits
    <3>1. ring' = ring /\ result' = result
      BY <2>1 DEF ReadCall, ReadWaits, buffer
    <3> QED
      BY <2>0, <3>1, FifoStutters
  <2>2. CASE ReadRaises
    <3>1. ring' = ring /\ result'.data = <<>>
      BY <2>2 DEF ReadRaises, Return, buffer
    <3> QED
      BY <2>0, <3>1 DEF Fifo!FifoNext, Fifo!Fail
  <2>3. CASE ReadServes
    <3>1. count \in Counts /\ ring.size >= count
      BY <1>0, <2>3, Zenon DEF ReadServes, ReaderInv
    <3>2. count \in 1 .. ring.size
      BY <1>a, <3>1
    <3>3. ring' = PopRing(ring, count) /\ result'.data = Popped(ring, count)
      BY <2>3 DEF ReadServes, Return
    <3>4. /\ Popped(ring, count) = SubSeq(Contents(ring), 1, count)
          /\ Contents(PopRing(ring, count)) = SubSeq(Contents(ring), count + 1, ring.size)
          /\ PopRing(ring, count).cap = ring.cap
      BY <1>a, <3>2, PopIsFifo, PopKeepsCap
    <3>5. Fifo!Deliver
      BY <1>a, <2>0, <3>2, <3>3, <3>4, Zenon DEF Fifo!Deliver
    <3> QED
      BY <3>5 DEF Fifo!FifoNext
  <2> QED
    BY <1>2, <2>1, <2>2, <2>3 DEF ReaderNext
<1>3. CASE Start
  <2>1. Contents(ring') = <<>> /\ ring'.cap = ring.cap
    BY <1>a, <1>3, ResetIsEmpty DEF Start
  <2>2. session' = session + 1 /\ session' \in Sessions /\ chunk' = chunk /\ thread = 0
    BY <1>0, <1>3 DEF Start, ProducerInv, Sessions
  <2>3. producer[session'] = "none" /\ (session \in Sessions => producer[session] = "dead")
    BY <1>0, <2>2 DEF ProducerInv, Sessions
  <2>4. chunk[session'] = <<>> /\ (session # 0 => chunk[session] = <<>>)
    BY <1>0, <2>2, <2>3 DEF ProducerInv, Sessions
  <2>5. Incoming = <<>> /\ Incoming' = <<>>
    BY <2>2, <2>4 DEF Incoming, Sessions
  <2>6. result' = result
    BY <1>3 DEF Start, reading
  <2> QED
    BY <2>1, <2>5, <2>6 DEF Fifo!FifoNext, Fifo!Clear
<1>4. CASE StopRequest \/ StopJoin
  BY <1>4, FifoStutters DEF StopRequest, StopJoin, buffer, reading, Incoming
<1>5. ASSUME NEW h \in Prefills, NEW rate \in Rates, Reconfigure(h, rate)
      PROVE  Fifo!FifoNext \/ UNCHANGED Fifo!fifoVars
  <2>1. PICK c \in Nat : c = Capacity(h, rate)
    BY CapacityIsNat
  <2>2. 0 \in Bytes
    BY DEF Bytes
  <2>3. ring'.cap = c /\ Contents(ring') = Newest(Contents(ring), c)
    BY <1>a, <1>5, <2>1, <2>2, ResizeKeepsNewest DEF Reconfigure
  <2>4. Contents(ring') = Fifo!Suffix(Contents(ring), c)
    BY <2>3, Zenon DEF Newest, Fifo!Suffix
  <2>5. Incoming' = Incoming /\ result' = result
    BY <1>5 DEF Reconfigure, Incoming
  <2> QED
    BY <2>1, <2>3, <2>4, <2>5 DEF Fifo!FifoNext, Fifo!Resize
<1>6. CASE UNCHANGED vars
  BY <1>6, FifoStutters DEF vars, buffer, reading, producers, Incoming
<1> QED
  BY <1>1, <1>2, <1>3, <1>4, <1>5, <1>6 DEF Next, ControlNext, ReconfigureNext

\* ImplementsFifo: whatever the threads do, and however often the buffer is stopped, started and
\* resized, the reader is given the bytes in order, without any made up, and what is lost is
\* always the oldest.
THEOREM BufferIsFifo == Spec => ImplementsFifo
<1>1. BufferInv /\ [Next]_vars => [Fifo!FifoNext]_(Fifo!fifoVars)
  BY FifoStep
<1> QED
  BY <1>1, FifoBegins, BufferInvHolds, PTL DEF Spec, ImplementsFifo, Fifo!FifoSpec
===============================================================================
