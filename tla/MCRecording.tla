----------------------------- MODULE MCRecording -----------------------------
(* Recording where edits may overlap: two recordings and one edit more are    *)
(* enough for a recording to start while another one ends.                    *)
EXTENDS Recording
==============================================================================
