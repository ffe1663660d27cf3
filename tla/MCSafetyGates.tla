--------------------------- MODULE MCSafetyGates ---------------------------
(* One account whose equity falls and recovers around the 30 % block and    *)
(* the 5 % hysteresis, traded by one scan thread.                           *)
EXTENDS SafetyGates

CONSTANTS t1, main

FineEquities == [p \in {main} |-> {0, 40, 68, 72, 74, 80, 100}]
FewEquities == [p \in {main} |-> {60, 90, 100}]
=============================================================================
