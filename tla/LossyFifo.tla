------------------------------ MODULE LossyFifo ------------------------------
(***************************************************************************)
(* What a jitter buffer promises its reader: a bounded FIFO of bytes that, *)
(* when a burst does not fit, loses the oldest ones and never the newest,  *)
(* never reorders and never makes bytes up.                                *)
(***************************************************************************)
EXTENDS Integers, Sequences

CONSTANTS Bytes,      \* the bytes a producer may deliver
          MaxChunk    \* bound: the longest chunk

VARIABLES incoming,   \* the chunk that arrived and is not taken in yet
          queue,      \* the bytes held, oldest first
          bound,      \* how many it may hold
          got         \* what the last successful read returned

fifoVars == <<incoming, queue, bound, got>>

Chunks == UNION {[1 .. n -> Bytes] : n \in 1 .. MaxChunk}

\* The newest n elements of s.
Suffix(s, n) == IF Len(s) <= n THEN s ELSE SubSeq(s, Len(s) - n + 1, Len(s))

FifoInit == incoming = <<>> /\ queue = <<>> /\ bound \in Nat /\ got = <<>>

\* A chunk arrives.
Arrive == /\ incoming = <<>> /\ incoming' \in Chunks
          /\ UNCHANGED <<queue, bound, got>>

\* It is taken in; what no longer fits is lost at the old end.
Accept == /\ queue' = Suffix(queue \o incoming, bound)
          /\ incoming' = <<>>
          /\ UNCHANGED <<bound, got>>

\* It is dropped, because the session ended.
Drop == incoming' = <<>> /\ UNCHANGED <<queue, bound, got>>

\* A read is served from the old end.
Deliver == /\ \E n \in 1 .. Len(queue) :
                /\ got' = SubSeq(queue, 1, n)
                /\ queue' = SubSeq(queue, n + 1, Len(queue))
           /\ UNCHANGED <<incoming, bound>>

\* The buffer is resized and keeps the newest bytes that fit.
Resize == /\ bound' \in Nat
          /\ queue' = Suffix(queue, bound')
          /\ UNCHANGED <<incoming, got>>

\* A new session drops what the old one left.
Clear == queue' = <<>> /\ incoming = <<>> /\ UNCHANGED <<incoming, bound, got>>

\* A read that fails returns nothing and takes nothing.
Fail == got' = <<>> /\ UNCHANGED <<incoming, queue, bound>>

FifoNext == Arrive \/ Accept \/ Drop \/ Deliver \/ Resize \/ Clear \/ Fail

FifoSpec == FifoInit /\ [][FifoNext]_fifoVars
=============================================================================
