-------------------------- MODULE InferencePromise --------------------------
(***************************************************************************)
(* What InferenceBus.submit promises the scan thread that calls it,        *)
(* without queue, workers or counters: a job that was asked for either     *)
(* runs once and its caller is told how that run ended, or is declined     *)
(* without running and its caller is told so.                              *)
(***************************************************************************)
CONSTANT Jobs
VARIABLES phase,    \* how far the job is
          verdict   \* how it ended, "NONE" before

vars == <<phase, verdict>>

Phases   == {"new", "asked", "running", "ended", "told"}
Endings  == {"COMPLETED", "TIMED_OUT", "FAILED"}
Declines == {"REJECTED", "FAILED"}

Init == /\ phase = [j \in Jobs |-> "new"]
        /\ verdict = [j \in Jobs |-> "NONE"]

Move(j, from, to) == phase[j] = from /\ phase' = [phase EXCEPT ![j] = to]

Ask(j)   == Move(j, "new", "asked") /\ UNCHANGED verdict
Begin(j) == Move(j, "asked", "running") /\ UNCHANGED verdict
End(j)   == /\ Move(j, "running", "ended")
            /\ \E v \in Endings : verdict' = [verdict EXCEPT ![j] = v]
Decline(j) == /\ Move(j, "asked", "ended")
              /\ \E v \in Declines : verdict' = [verdict EXCEPT ![j] = v]
Tell(j)  == Move(j, "ended", "told") /\ UNCHANGED verdict

Next == \E j \in Jobs : Ask(j) \/ Begin(j) \/ End(j) \/ Decline(j) \/ Tell(j)

Spec == Init /\ [][Next]_vars
=============================================================================
