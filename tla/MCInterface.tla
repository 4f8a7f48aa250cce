---------------------------- MODULE MCInterface -----------------------------
(* TLC instances of Interface.                                               *)
EXTENDS Interface

MCLayout == [e \in Edges |-> SelectSeq(DefaultLayout[e], LAMBDA p : p \in Panels)]
==============================================================================
