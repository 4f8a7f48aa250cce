--------------------------- MODULE MCJitterBuffer ----------------------------
(* TLC instances of JitterBuffer.                                            *)
EXTENDS JitterBuffer
==============================================================================
