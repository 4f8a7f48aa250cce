------------------------------ MODULE ByteRing -------------------------------
(***************************************************************************)
(* The fixed-capacity byte ring of devices/_jitter_buffer.py (_ByteRing):  *)
(* a circular buffer whose writes drop the oldest bytes on overflow.  The  *)
(* operators take a ring and return the ring after the call, or the bytes  *)
(* the call returns.  A bytearray is a function from 0 .. capacity - 1, a  *)
(* slice of it a sequence.                                                 *)
(***************************************************************************)
EXTENDS Integers, Sequences

\* A new ring; the fill value 0 stands for bytearray's zero bytes.
NewRing(capacity) ==
  [buf |-> [j \in 0 .. capacity - 1 |-> 0], cap |-> capacity,
   head |-> 0, tail |-> 0, size |-> 0]

ResetRing(r) == [r EXCEPT !.head = 0, !.tail = 0, !.size = 0]

\* self._buf[from : to]
Slice(buf, from, to) == [k \in 1 .. to - from |-> buf[from + k - 1]]

\* The bytes the ring holds, oldest first.
Contents(r) == [k \in 1 .. r.size |-> r.buf[(r.head + k - 1) % r.cap]]

\* The newest n elements of a sequence (all of it when it is shorter).
Newest(s, n) == IF Len(s) <= n THEN s ELSE SubSeq(s, Len(s) - n + 1, Len(s))

\* Mutant: the second piece of a wrapping chunk starts one byte late.
PlacedOffByOne(buf, capacity, tail, chunk) ==
  LET n == Len(chunk)
      endSpace == capacity - tail
  IN [j \in 0 .. capacity - 1 |->
        IF tail <= j /\ j < tail + n THEN chunk[j - tail + 1]
        ELSE IF j < n - endSpace - 1 THEN chunk[endSpace + j + 2] ELSE buf[j]]

\* write: the chunk placed from tail on, in two pieces when it passes the end.
Placed(buf, capacity, tail, chunk) ==
  LET n == Len(chunk)
      endSpace == capacity - tail
  IN IF n <= endSpace
     THEN [j \in 0 .. capacity - 1 |->
             IF tail <= j /\ j < tail + n THEN chunk[j - tail + 1] ELSE buf[j]]
     ELSE [j \in 0 .. capacity - 1 |->
             IF tail <= j THEN chunk[j - tail + 1]
             ELSE IF j < n - endSpace THEN chunk[endSpace + j + 1] ELSE buf[j]]

WriteRing(r, chunk) ==
  LET n == Len(chunk)
      overflow == IF r.size + n > r.cap THEN r.size + n - r.cap ELSE 0
  IN IF n = 0 \/ r.cap = 0 THEN r
     ELSE IF n >= r.cap
     THEN [buf |-> [j \in 0 .. r.cap - 1 |-> chunk[n - r.cap + j + 1]],
           cap |-> r.cap, head |-> 0, tail |-> 0, size |-> r.cap]
     ELSE [buf |-> Placed(r.buf, r.cap, r.tail, chunk), cap |-> r.cap,
           head |-> (r.head + overflow) % r.cap, tail |-> (r.tail + n) % r.cap,
           size |-> r.size - overflow + n]

\* pop: the bytes returned, and the ring left behind.
Popped(r, n) ==
  LET endSpace == r.cap - r.head
  IN IF n <= 0 \/ n > r.size THEN <<>>
     ELSE IF n <= endSpace THEN Slice(r.buf, r.head, r.head + n)
     ELSE Slice(r.buf, r.head, r.cap) \o Slice(r.buf, 0, n - endSpace)

PopRing(r, n) ==
  IF n <= 0 \/ n > r.size THEN r
  ELSE [r EXCEPT !.head = (r.head + n) % r.cap, !.size = r.size - n]

PeekTail(r, n) ==
  LET start == (r.tail - n) % r.cap
      endSpace == r.cap - start
  IN IF n <= 0 \/ n > r.size \/ r.cap = 0 THEN <<>>
     ELSE IF n <= endSpace THEN Slice(r.buf, start, start + n)
     ELSE Slice(r.buf, start, r.cap) \o Slice(r.buf, 0, n - endSpace)

\* The well-formed rings over a set of byte values.
RingOK(r, Bytes) ==
  /\ r = [buf |-> r.buf, cap |-> r.cap, head |-> r.head, tail |-> r.tail, size |-> r.size]
  /\ r.cap \in Nat
  /\ r.buf \in [0 .. r.cap - 1 -> Bytes]
  /\ r.head \in Nat /\ r.tail \in Nat /\ r.size \in 0 .. r.cap
  /\ IF r.cap = 0 THEN r.head = 0 /\ r.tail = 0
     ELSE r.head < r.cap /\ r.tail < r.cap /\ r.tail = (r.head + r.size) % r.cap
=============================================================================
