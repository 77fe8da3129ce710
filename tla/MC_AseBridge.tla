---------------------------- MODULE MC_AseBridge ----------------------------
(* Model-checking instance of AseBridge: model values come from the cfg;  *)
(* the numeric sets are defined here.                                      *)
EXTENDS AseBridge

\* CSR_MAP_SIZE scaled down to two words; the offsets reach the first and
\* the last word of the map.
MC_CsrMapSize == 8
MC_OffsetsIn == {0, 4}
MC_Values == {0, 1}
\* Runs with two processes: one offset and one value.
MC_OffsetsOne == {4}
MC_ValuesOne == {0}
\* NUM_UMSG_LOG2 = 0 falls back to 5: num_umsg = 32, slot 31 is the last
\* and 32 is out of range.
MC_UmsgLog2 == 0
MC_SlotIds == {31, 32}
MC_SlotIdsOne == {31}
\* num_umsg_log2 = 18: accepted by ase_config_parse, wider than the 4-bit field.
MC_UmsgLog2Wide == 18
====
