--------------------------- MODULE MCScanControl ---------------------------
EXTENDS ScanControl

Stages(f, a, p) == [fetch |-> f, analyse |-> a, post |-> p]
OneOfEach == Stages(1, 1, 1)
FetchOnly == Stages(1, 0, 0)

(* A run alone meets everything.  Runs that overlap meet no death, no stall *)
(* and no call but a force-stop of all.                                     *)
OneRun == Cardinality({r \in Runs : pc[r] # "start"}) <= 1
ForceAll(c) ==
    /\ kind[c] \in {"get", "force_all"}
    /\ kind[c] = "get" => pc[c] = "idle" /\ (Free(c) \/ Next1(c).op # "pause")
OneScenario ==
    \/ OneRun
    \/ /\ deaths = 0 /\ stalls = 0 /\ row.want = "RUNNING"
       /\ \A c \in Callers : ForceAll(c)
=============================================================================
