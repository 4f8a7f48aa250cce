----------------------------- MODULE MCDecoders ------------------------------
(* TLC instances of the decoders, one at a time as in MCDevices. *)
EXTENDS RdsDecoder, DmrDecoder, TetraDecoder

VARIABLE decoder

Decoders == {"rds", "dmr", "tetra"}

MCInit ==
  /\ decoder \in Decoders /\ RdsInit /\ DmrInit /\ TetraInit
  /\ decoder = "rds" \/ (position = 0 /\ station = CHOOSE s \in Stations : TRUE)
  /\ decoder = "dmr" \/ turn = 0
  /\ decoder = "tetra" \/ (air = 1 /\ carries = "speech")
MCNext ==
  /\ UNCHANGED decoder
  /\ \/ decoder = "rds" /\ RdsNext /\ UNCHANGED <<dmrVars, tetraVars>>
     \/ decoder = "dmr" /\ DmrNext /\ UNCHANGED <<rdsVars, tetraVars>>
     \/ decoder = "tetra" /\ TetraNext /\ UNCHANGED <<rdsVars, dmrVars>>
MCSpec ==
  /\ MCInit /\ [][MCNext]_<<decoder, rdsVars, dmrVars, tetraVars>>
  /\ WF_dmrVars(decoder = "dmr" /\ DmrNext)
  /\ WF_tetraVars(decoder = "tetra" /\ EndOfBatch(1))
==============================================================================
