---------------------------- MODULE MCConfigFlow -----------------------------
(***************************************************************************)
(* ConfigFlow for TLC. Two frequencies and two gains see every comparison  *)
(* come out either way; which of them the device begins with is no matter, *)
(* since values are only compared.                                         *)
(***************************************************************************)
EXTENDS ConfigFlow

MCInit == Init /\ config.freq = 1 /\ config.gain = 1
MCSpec == MCInit /\ [][Next]_vars /\ Fairness
=============================================================================
