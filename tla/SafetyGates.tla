---------------------------- MODULE SafetyGates ----------------------------
(***************************************************************************)
(* runtime/runtime/safety/ and the two ways to an order in                 *)
(* runtime/runtime/execution_orchestrator.py: open_order, which the scan   *)
(* threads call and which asks the gate chain, and create_manual_order,    *)
(* which does not.  The kill switch and the drawdown gate are objects      *)
(* shared by all threads and profiles, without a lock; a step below is a   *)
(* stretch of code that reads or writes their state once.                  *)
(*                                                                         *)
(* The policy checks before the chain only raise and are left out, and so  *)
(* are the warn and degrade thresholds, which do not block, and the rules  *)
(* on symbols and totals, which repeat the pattern of the ones kept.       *)
(* Drawdowns are in permille, truncated.                                   *)
(***************************************************************************)
EXTENDS Integers, Sequences, SequencesExt

CONSTANTS
    Traders, Profiles,
    Equities,     \* of each profile's account; 0 also stands for None
    BlockAt, Hysteresis, \* of the drawdown gate, in permille
    ResumeAfter,  \* auto_resume_after_minutes, in ticks; 0 is never
    MaxPositions, MaxNotional, Notionals,
    Horizon,      \* bound on the clock
    MaxHeld,      \* bound on open positions
    MaxManual     \* bound on manual orders

ASSUME SafetyAssumption ==
    /\ Equities \in [Profiles -> SUBSET Nat] /\ Notionals \subseteq Nat
    /\ BlockAt \in 1..1000 /\ Hysteresis \in 0..1000
    /\ ResumeAfter \in Nat /\ MaxPositions \in Nat /\ MaxNotional \in Nat
    /\ Horizon \in Nat \ {0} /\ MaxHeld \in Nat /\ MaxManual \in Nat

VARIABLES
    now,       \* the clock
    kill,      \* KillSwitchState: active, resumeAt (0: none)
    dd,        \* DrawdownState: peak, drawdown, blocked
    at, check,   \* where each thread is, and what it has read
    positions, \* notionals of the open positions
    manual,    \* how many orders were manual
    haltEnd,   \* history: when the halt of the last trigger ends, 0 if there is none
    highest,   \* history: the largest equity an update has finished with
    ownPeak, hurt  \* history: the best equity of each profile; who reached BlockAt

gates_vars == <<now, kill, dd, at, check, positions, manual, haltEnd, highest, ownPeak, hurt>>

Off == [active |-> FALSE, resumeAt |-> 0]
Calm == [peak |-> 0, drawdown |-> 0, blocked |-> FALSE]
NoCheck == [profile |-> "none", equity |-> 0, notional |-> 0, refuse |-> FALSE,
          dd |-> Calm, sure |-> FALSE, top |-> 0]

Forever == Horizon + ResumeAfter + 1
Halted == haltEnd > now
Larger(a, b) == IF a > b THEN a ELSE b
\* Bug: a loss is measured against what is left.
DrawdownOfRest(peak, equity) ==
    IF peak > equity THEN ((peak - equity) * 1000) \div equity ELSE 0
Drawdown(peak, equity) ==
    IF peak > equity THEN ((peak - equity) * 1000) \div peak ELSE 0

GatesInit ==
    /\ now = 1 /\ kill = Off /\ dd = Calm
    /\ at = [t \in Traders |-> "idle"] /\ check = [t \in Traders |-> NoCheck]
    /\ positions = <<>> /\ manual = 0 /\ haltEnd = 0 /\ highest = 0
    /\ ownPeak = [p \in Profiles |-> 0] /\ hurt = {}

GotoGate(t, place) == at' = [at EXCEPT ![t] = place]
-----------------------------------------------------------------------------
(* ExecutionOrchestrator.open_order                                        *)

\* resolve_target() reads the account; the chain is asked with its equity.
ResolveTarget(t) ==
    \E p \in Profiles, n \in Notionals :
      \E e \in Equities[p] :
        /\ at[t] = "idle"
        /\ check' = [check EXCEPT ![t] = [NoCheck EXCEPT !.profile = p, !.equity = e,
                                      !.notional = n, !.sure = Halted, !.top = highest]]
        /\ GotoGate(t, "kill")
        /\ UNCHANGED <<now, kill, dd, positions, manual, haltEnd, highest, ownPeak, hurt>>

\* Bug: the resume time is not compared with the clock.
ExpiredAtOnce(k) == k.resumeAt > 0
Expired(k) == k.resumeAt > 0 /\ now >= k.resumeAt

\* is_active(): a switch that is over is cleared in a step of its ownPeak.
IsActive(t) ==
    /\ at[t] = "kill"
    /\ GotoGate(t, IF ~kill.active THEN "compare" ELSE IF Expired(kill) THEN "clear" ELSE "describe")
    /\ UNCHANGED <<now, kill, dd, check, positions, manual, haltEnd, highest, ownPeak,
                   hurt>>

\* get_state() for the refusal asks is_active() again.
Describe(t) ==
    /\ at[t] = "describe"
    /\ check' = [check EXCEPT ![t].refuse = TRUE]
    /\ GotoGate(t, IF kill.active /\ Expired(kill) THEN "clear" ELSE "idle")
    /\ UNCHANGED <<now, kill, dd, positions, manual, haltEnd, highest, ownPeak, hurt>>

Clear(t) ==
    /\ at[t] = "clear"
    /\ kill' = Off
    /\ GotoGate(t, IF check[t].refuse THEN "idle" ELSE "compare")
    /\ UNCHANGED <<now, dd, check, positions, manual, haltEnd, highest, ownPeak, hurt>>

\* update_equity(): an equity that is not positive changes nothing.
Compare(t) ==
    LET e == check[t].equity
    IN  /\ at[t] = "compare"
        /\ GotoGate(t, IF e <= 0 THEN "blocked" ELSE IF e > dd.peak THEN "raise" ELSE "compute")
        /\ UNCHANGED <<now, kill, dd, check, positions, manual, haltEnd, highest,
                       ownPeak, hurt>>

Note(t) ==
    LET j == check[t]
        best == Larger(ownPeak[j.profile], j.equity)
    IN  /\ highest' = Larger(highest, j.equity)
        /\ ownPeak' = [ownPeak EXCEPT ![j.profile] = best]
        /\ hurt' = IF Drawdown(best, j.equity) >= BlockAt THEN hurt \cup {j.profile} ELSE hurt

Raise(t) ==
    /\ at[t] = "raise"
    /\ dd' = [Calm EXCEPT !.peak = check[t].equity]
    /\ Note(t)
    /\ GotoGate(t, "blocked")
    /\ UNCHANGED <<now, kill, check, positions, manual, haltEnd>>

\* Bug: a check lowers the peak to the equity it has seen.
NextStateDrops(s, e) ==
    LET d == Drawdown(s.peak, e) IN [peak |-> e, drawdown |-> d, blocked |-> d >= BlockAt]
\* A gate that blocks goes on blocking until the drawdown is Hysteresis
\* below the one recorded last.
NextState(s, e) ==
    LET d == Drawdown(s.peak, e)
    IN  [peak |-> s.peak, drawdown |-> d,
         blocked |-> d >= BlockAt \/ (s.blocked /\ d > s.drawdown - Hysteresis)]

Compute(t) ==
    /\ at[t] = "compute"
    /\ check' = [check EXCEPT ![t].dd = NextState(dd, check[t].equity)]
    /\ GotoGate(t, "assign")
    /\ UNCHANGED <<now, kill, dd, positions, manual, haltEnd, highest, ownPeak, hurt>>

\* The peak is read again for the new state, at or before the assignment.
Assign(t) ==
    /\ at[t] = "assign"
    /\ \E peak \in {check[t].dd.peak, dd.peak} :
          dd' = IF peak = check[t].dd.peak THEN check[t].dd ELSE [check[t].dd EXCEPT !.peak = peak]
    /\ Note(t)
    /\ GotoGate(t, "blocked")
    /\ UNCHANGED <<now, kill, check, positions, manual, haltEnd>>

\* block_new_trades()
Blocked(t) ==
    /\ at[t] = "blocked"
    /\ GotoGate(t, IF dd.blocked THEN "refused" ELSE "limits")
    /\ UNCHANGED <<now, kill, dd, check, positions, manual, haltEnd, highest, ownPeak,
                   hurt>>

Refused(t) ==
    /\ at[t] = "refused"
    /\ GotoGate(t, "idle")
    /\ UNCHANGED <<now, kill, dd, check, positions, manual, haltEnd, highest, ownPeak,
                   hurt>>

\* reject_if_over_limit()
OverLimit(notional, held) == Len(held) >= MaxPositions \/ notional > MaxNotional

\* open_order gives the chain no positions, so it is asked with none.
Limits(t) ==
    /\ at[t] = "limits"
    /\ GotoGate(t, IF OverLimit(check[t].notional, <<>>) THEN "idle" ELSE "adapter")
    /\ UNCHANGED <<now, kill, dd, check, positions, manual, haltEnd, highest, ownPeak,
                   hurt>>

Adapter(t) ==
    /\ at[t] = "adapter" /\ Len(positions) < MaxHeld
    /\ positions' = Append(positions, check[t].notional)
    /\ GotoGate(t, "idle")
    /\ UNCHANGED <<now, kill, dd, check, manual, haltEnd, highest, ownPeak, hurt>>

OpenOrder(t) ==
    \/ ResolveTarget(t) \/ IsActive(t) \/ Describe(t) \/ Clear(t) \/ Compare(t) \/ Raise(t)
    \/ Compute(t) \/ Assign(t) \/ Blocked(t) \/ Refused(t) \/ Limits(t) \/ Adapter(t)
-----------------------------------------------------------------------------
\* create_manual_order() goes from the target straight to the adapter.
CreateManualOrder(n) ==
    /\ manual < MaxManual /\ Len(positions) < MaxHeld
    /\ manual' = manual + 1
    /\ positions' = Append(positions, n)
    /\ UNCHANGED <<now, kill, dd, at, check, haltEnd, highest, ownPeak, hurt>>

ClosePosition ==
    /\ \E i \in DOMAIN positions : positions' = RemoveAt(positions, i)
    /\ UNCHANGED <<now, kill, dd, at, check, manual, haltEnd, highest, ownPeak, hurt>>

\* Threads whose check has to refuse lose that duty when the halt ends.
Relieve == check' = [t \in Traders |-> [check[t] EXCEPT !.sure = FALSE]]

\* A trigger that comes while a thread is about to clear an older one, which
\* is over, is lost, and counts as no halt.
Trigger ==
    /\ kill' = [active |-> TRUE, resumeAt |-> IF ResumeAfter > 0 THEN now + ResumeAfter ELSE 0]
    /\ haltEnd' = IF \E t \in Traders : at[t] = "clear" THEN 0
                  ELSE IF ResumeAfter > 0 THEN now + ResumeAfter ELSE Forever
    /\ UNCHANGED <<now, dd, at, check, positions, manual, highest, ownPeak, hurt>>

\* check_auto_conditions() triggers only a switch that is off.
CheckAutoConditions == ~kill.active /\ Trigger

Release ==
    /\ kill' = Off
    /\ haltEnd' = 0 /\ Relieve
    /\ UNCHANGED <<now, dd, at, positions, manual, highest, ownPeak, hurt>>

\* A halt is over when the resume time of its trigger comes.
Tick ==
    /\ now < Horizon
    /\ now' = now + 1
    /\ IF haltEnd = now + 1 THEN Relieve ELSE UNCHANGED check
    /\ UNCHANGED <<kill, dd, at, positions, manual, haltEnd, highest, ownPeak, hurt>>

GatesNext ==
    \/ \E t \in Traders : OpenOrder(t)
    \/ \E n \in Notionals : CreateManualOrder(n)
    \/ ClosePosition \/ Trigger \/ CheckAutoConditions \/ Release \/ Tick

GatesSpec == GatesInit /\ [][GatesNext]_gates_vars
-----------------------------------------------------------------------------
Levels == {0} \cup UNION {Equities[p] : p \in Profiles}
States == [peak : Levels, drawdown : 0..1000, blocked : BOOLEAN]

GatesTypeOK ==
    /\ now \in 1..Horizon /\ manual \in 0..MaxManual
    /\ kill \in [active : BOOLEAN, resumeAt : 0..(Horizon + ResumeAfter + 1)]
    /\ dd \in States
    /\ at \in [Traders -> {"idle", "kill", "describe", "clear", "compare", "raise", "compute",
                           "assign", "blocked", "refused", "limits", "adapter"}]
    /\ check \in [Traders -> [profile : Profiles \cup {"none"}, equity : Levels,
                            notional : Notionals \cup {0}, refuse : BOOLEAN, dd : States,
                            sure : BOOLEAN, top : Levels]]
    /\ \A t \in Traders : at[t] # "idle" =>
          check[t].profile \in Profiles /\ check[t].notional \in Notionals
    /\ positions \in Seq(Notionals) /\ Len(positions) <= MaxHeld
    /\ haltEnd \in 0..Forever /\ highest \in Levels
    /\ ownPeak \in [Profiles -> Levels] /\ hurt \subseteq Profiles

(* "Emergency circuit that blocks all new trades when active"              *)
(* (kill_switch.py:37): between a trigger and its end, and unless another  *)
(* trigger was just being cleared, no order but a manual one is opened by  *)
(* a call that began after the trigger.                                    *)
NoOrderWhileHalted ==
    [][Len(positions') > Len(positions) /\ manual' = manual /\ Halted
         => \E t \in Traders : at[t] = "adapter" /\ at'[t] = "idle" /\ ~check[t].sure]_gates_vars

PassesNoDrawdown ==
    \A t \in Traders : at[t] = "adapter" /\ check[t].equity > 0 =>
        Drawdown(check[t].top, check[t].equity) < BlockAt
RefusesForDrawdown ==
    \A t \in Traders : at[t] = "refused" => check[t].profile \in hurt

(* With one check at a time, the gate passes no order while the account is *)
(* BlockAt or more below the best equity that the gate has seen, and as    *)
(* long as one account uses it, refuses one for a drawdown only after that *)
(* account has had one of BlockAt.                                         *)
BlocksInDrawdownOnly == PassesNoDrawdown /\ RefusesForDrawdown

(* "rejects trades that would exceed configured exposure ceilings"         *)
(* (position_limiter.py:1), for the number of positions.                   *)
PositionsWithinLimit == Len(positions) <= MaxPositions
=============================================================================
