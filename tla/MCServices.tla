----------------------------- MODULE MCServices -----------------------------
(* The user-data stream, the autonomous loop and the snapshots of a scan    *)
(* share no state, so one run checks all three, one at a time: part says    *)
(* which, and only that one moves and has to move.                          *)
EXTENDS UserStream, AutonomousLoop, BundleCache, TLC

VARIABLE part

\* HTF_MAP for the intervals of the run.
Higher == "30m" :> "4h" @@ "1h" :> "4h" @@ "4h" :> "1d"

services_vars == <<stream_vars, loop_vars, bundle_vars, part>>

ServicesInit ==
    /\ StreamInit /\ LoopInit /\ BundleInit
    /\ part \in {"stream", "loop", "bundle"}
    /\ part = "loop" \/ enabled

ServicesNext ==
    /\ UNCHANGED part
    /\ \/ part = "stream" /\ StreamNext /\ UNCHANGED <<loop_vars, bundle_vars>>
       \/ part = "loop" /\ LoopNext /\ UNCHANGED <<stream_vars, bundle_vars>>
       \/ part = "bundle" /\ BundleNext /\ UNCHANGED <<stream_vars, loop_vars>>

\* StreamFairness, LoopFairness and BundleFairness for the part that runs.
ServicesFairness ==
    /\ WF_stream_vars(part = "stream" /\ OwnerStep)
    /\ WF_stream_vars(part = "stream" /\ Answer)
    /\ WF_stream_vars(part = "stream" /\ TimePasses)
    /\ \A w \in Slots : WF_loop_vars(part = "loop" /\ Turn(w))
    /\ \A a \in Clients : WF_loop_vars(part = "loop" /\ Serve(a))
    /\ \A i \in Intervals : WF_bundle_vars(part = "bundle" /\ Works(i))

ServicesSpec == ServicesInit /\ [][ServicesNext]_services_vars /\ ServicesFairness

(* Every variable of the three parts has its type.                          *)
TypeOK == StreamTypeOK /\ LoopTypeOK /\ BundleTypeOK
=============================================================================
