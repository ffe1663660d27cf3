--------------------------- MODULE MCScanEventBus ---------------------------
(* Two publishing threads; one client follows everything, one follows a     *)
(* single run.                                                              *)
EXTENDS ScanEventBus

CONSTANTS p1, p2, all, one

MCPublishers  == {p1, p2}
MCSubscribers == {all, one}
MCWants == [s \in MCSubscribers |-> IF s = all THEN {p1, p2} ELSE {p1}]
=============================================================================
