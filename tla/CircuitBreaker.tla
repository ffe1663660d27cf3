--------------------------- MODULE CircuitBreaker ---------------------------
(***************************************************************************)
(* runtime/services/circuit_breaker_service.py: the gate that blocks       *)
(* autonomous scans when trading goes badly.  Several threads evaluate it, *)
(* each through an instance of the service with a cache of its own (the    *)
(* autonomous loop, the API, health and alerts); an evaluation reads the   *)
(* settings, the unresolved event and the trades in separate queries, and  *)
(* persists a transition in separate commits.  An operator resets the      *)
(* breaker or changes its mode through the API's instance.                 *)
(*                                                                         *)
(* Of the rules the loss streak and the timeout streak are kept; failure   *)
(* rate, severity, schema streak and hard blocks trip in the same place.   *)
(* CIRCUIT_BREAKER_ENABLED = false acts as FORCE_CLOSED.  Only unresolved  *)
(* events are kept.  Time is a clock of coarse ticks; what happens in one  *)
(* tick has no order by timestamp.                                         *)
(***************************************************************************)
EXTENDS Integers, Sequences, FiniteSets, Lists

CONSTANTS
    Evaluators, Instances, InstanceOf, Api,
    MaxLosses,     \* max_consecutive_losses
    TripCount,     \* circuit_breaker_timeout_trip_count
    DecisionLimit, \* LIMIT of the decision_events query
    Cooldown, TTL, \* cooldown_minutes and _CACHE_TTL_SECONDS, in ticks
    ClockEnd,       \* bound on the clock
    MaxEvents,     \* bound on the events stored
    MaxActs      \* bound on what the operator does

ASSUME CircuitBreakerAssumption ==
    /\ InstanceOf \in [Evaluators -> Instances] /\ Api \in Instances /\ Api \notin Evaluators
    /\ MaxLosses \in Nat \ {0} /\ TripCount \in Nat \ {0} /\ DecisionLimit \in Nat
    /\ Cooldown \in Nat /\ TTL \in Nat /\ ClockEnd \in Nat \ {0}
    /\ MaxEvents \in Nat /\ MaxActs \in Nat

VARIABLES
    clock,       \* the clock
    events,    \* unresolved rows of circuit_breaker_events, as inserted
    saved,     \* how many rows were inserted: the last id
    losses,    \* losing trades since the last winner
    decisions, \* decision_events, newest first: was it a timeout?
    mode,      \* CIRCUIT_BREAKER_MANUAL_MODE
    cache,     \* of each instance
    step,        \* where each evaluator is
    reading,       \* what it has read: start, mode, active event, status, until
    cur,       \* the event an evaluator or the operator is about to resolve
    operator,  \* where the operator is
    acts,    \* how often the operator acted
    badSince   \* history: since when the breaker has had to be open, 0 if not

breaker_vars == <<clock, events, saved, losses, decisions, mode, cache, step, reading, cur,
                  operator, acts, badSince>>
world == <<clock, losses, decisions, mode, acts, badSince>>

Modes == {"AUTO", "FORCE_OPEN", "FORCE_CLOSED"}
Statuses == {"OPEN", "DEGRADED", "CLOSED"}
NoEvent == [id |-> 0, status |-> "CLOSED", at |-> 0, until |-> 0]
NoReading == [start |-> 0, time |-> 0, mode |-> "AUTO", active |-> NoEvent,
          status |-> "CLOSED", until |-> 0]
EmptyCache == [at |-> 0, status |-> "CLOSED", until |-> 0]
Stored == [id : 0..MaxEvents, status : Statuses, at : 0..ClockEnd,
           until : 0..(ClockEnd + Cooldown)]
EventRows == Items(events) \cup {NoEvent}

BreakerInit ==
    /\ clock = 1 /\ events = <<>> /\ saved = 0 /\ losses = 0 /\ decisions = <<>> /\ mode = "AUTO"
    /\ cache = [i \in Instances |-> EmptyCache]
    /\ step = [t \in Evaluators |-> "idle"] /\ reading = [t \in Evaluators |-> NoReading]
    /\ cur = [t \in Evaluators \cup {Api} |-> NoEvent]
    /\ operator = "idle" /\ acts = 0 /\ badSince = 0

\* get_current_state(): the unresolved event created last.
Latest(e) ==
    IF events = <<>> THEN e = NoEvent
    ELSE \E i \in DOMAIN events :
            /\ e = events[i]
            /\ \A k \in DOMAIN events : events[k].at <= events[i].at

\* resolve_event(): nothing happens if the row is resolved already.
ResolveEvent(e) == events' = Keep(events, {row \in Items(events) : row.id # e.id})

-----------------------------------------------------------------------------
(* The rules of _evaluate_with_session.                                    *)

\* Decision rows are read newest first, so the streak that the loop is left
\* with is the one at the old end of the window.
TimeoutStreak(d) ==
    Cardinality({i \in DOMAIN d : \A k \in i..Len(d) : d[k]})

Tripped(l, d) == l >= MaxLosses \/ TimeoutStreak(d) >= TripCount
Near(l) == l >= MaxLosses - 1 /\ l >= 1

\* Bug: the cooldown of an earlier trip is not looked at.
VerdictNoCooldown(m, active, l, d, time) ==
    CASE m = "FORCE_OPEN"   -> "OPEN"
      [] m = "FORCE_CLOSED" -> "CLOSED"
      [] OTHER -> IF Tripped(l, d) THEN "OPEN" ELSE IF Near(l) THEN "DEGRADED" ELSE "CLOSED"

Verdict(m, active, l, d, time) ==
    CASE m = "FORCE_OPEN"   -> "OPEN"
      [] m = "FORCE_CLOSED" -> "CLOSED"
      [] OTHER ->
            IF (active.status = "OPEN" /\ active.until > time) \/ Tripped(l, d) THEN "OPEN"
            ELSE IF Near(l) THEN "DEGRADED" ELSE "CLOSED"

\* auto_resume_at of _state_payload.
ResumeAt(m, active, status, time) ==
    IF status = "OPEN" /\ m # "FORCE_OPEN" THEN time + Cooldown
    ELSE IF active.status = "OPEN" THEN active.until ELSE 0

-----------------------------------------------------------------------------
(* evaluate_circuit_state().                                               *)
GotoStep(t, place) == step' = [step EXCEPT ![t] = place]
Fresh(i) == cache[i].at > 0 /\ clock - cache[i].at < TTL

\* A fresh cache entry is the answer, and nothing changes; otherwise the
\* evaluation begins, and its time is taken.
BeginEvaluation(t) ==
    /\ step[t] = "idle" /\ ~Fresh(InstanceOf[t])
    /\ reading' = [reading EXCEPT ![t] = [NoReading EXCEPT !.start = clock]]
    /\ GotoStep(t, "settings")
    /\ UNCHANGED <<world, saved, events, cache, cur, operator>>

ReadSettings(t) ==
    /\ step[t] = "settings"
    /\ reading' = [reading EXCEPT ![t].mode = mode]
    /\ GotoStep(t, "event")
    /\ UNCHANGED <<world, saved, events, cache, cur, operator>>

ReadEvent(t) ==
    /\ step[t] = "event"
    /\ \E e \in EventRows : Latest(e) /\ reading' = [reading EXCEPT ![t].active = e,
                                                              ![t].time = clock]
    /\ GotoStep(t, "rules")
    /\ UNCHANGED <<world, saved, events, cache, cur, operator>>

\* The trades are read and the rules applied.
Decide(t) ==
    LET j == reading[t]
        status == Verdict(j.mode, j.active, losses, decisions, j.time)
    IN  /\ step[t] = "rules"
        /\ reading' = [reading EXCEPT ![t].status = status,
                              ![t].until = ResumeAt(j.mode, j.active, status, j.time)]
        /\ GotoStep(t, "persist")
        /\ UNCHANGED <<world, saved, events, cache, cur, operator>>

\* _persist_transition(): the event is read again; an event with the same
\* status stays as it is.
ReadCurrent(t) ==
    /\ step[t] = "persist"
    /\ \E e \in EventRows :
          /\ Latest(e)
          /\ cur' = [cur EXCEPT ![t] = e]
          /\ GotoStep(t, IF events # <<>> /\ e.status = reading[t].status THEN "store"
                     ELSE IF events # <<>> THEN "resolve" ELSE "save")
    /\ UNCHANGED <<world, saved, events, cache, reading, operator>>

\* Bug: the event that is replaced is not resolved.
ResolveNothing(t) ==
    /\ step[t] = "resolve"
    /\ GotoStep(t, "save")
    /\ cur' = [cur EXCEPT ![t] = NoEvent]
    /\ UNCHANGED <<world, saved, events, cache, reading, operator>>

ResolveCurrent(t) ==
    /\ step[t] = "resolve"
    /\ ResolveEvent(cur[t])
    /\ cur' = [cur EXCEPT ![t] = NoEvent]
    /\ GotoStep(t, "save")
    /\ UNCHANGED <<world, saved, cache, reading, operator>>

\* A CLOSED state leaves no event.
SaveEvent(t) ==
    /\ step[t] = "save"
    /\ IF reading[t].status = "CLOSED" THEN UNCHANGED <<events, saved>>
       ELSE /\ saved < MaxEvents
            /\ saved' = saved + 1
            /\ events' = Append(events, [id |-> saved + 1, status |-> reading[t].status,
                                         at |-> reading[t].time, until |-> reading[t].until])
    /\ GotoStep(t, "store")
    /\ UNCHANGED <<world, cache, reading, cur, operator>>

\* Bug: the entry is stamped when it is stored.
StoreNow(t) ==
    /\ step[t] = "store"
    /\ cache' = [cache EXCEPT ![InstanceOf[t]] =
                    [at |-> clock, status |-> reading[t].status, until |-> reading[t].until]]
    /\ reading' = [reading EXCEPT ![t] = NoReading]
    /\ cur' = [cur EXCEPT ![t] = NoEvent]
    /\ GotoStep(t, "idle")
    /\ UNCHANGED <<world, saved, events, operator>>

\* The cache entry carries the time the evaluation began.
Store(t) ==
    /\ step[t] = "store"
    /\ cache' = [cache EXCEPT ![InstanceOf[t]] =
                    [at |-> reading[t].start, status |-> reading[t].status,
                     until |-> reading[t].until]]
    /\ reading' = [reading EXCEPT ![t] = NoReading]
    /\ cur' = [cur EXCEPT ![t] = NoEvent]
    /\ GotoStep(t, "idle")
    /\ UNCHANGED <<world, saved, events, operator>>

Evaluate(t) == \/ BeginEvaluation(t) \/ ReadSettings(t) \/ ReadEvent(t) \/ Decide(t)
               \/ ReadCurrent(t) \/ ResolveCurrent(t) \/ SaveEvent(t) \/ Store(t)

-----------------------------------------------------------------------------
(* The operator, through the API's instance.                               *)
Since(old, m, l, d) ==
    IF m = "FORCE_OPEN" \/ (m = "AUTO" /\ Tripped(l, d))
    THEN IF old = 0 THEN clock ELSE old
    ELSE 0

\* reset(): the unresolved event is looked up ...
ResetBreaker ==
    /\ operator = "idle" /\ acts < MaxActs
    /\ \E e \in EventRows : Latest(e) /\ cur' = [cur EXCEPT ![Api] = e]
    /\ operator' = "resolve" /\ acts' = acts + 1
    /\ UNCHANGED <<clock, losses, decisions, mode, badSince, events, saved, cache,
                   step, reading>>

\* ... and resolved; the row "Manual reset" is stored as resolved.
ResetResolves ==
    /\ operator = "resolve"
    /\ ResolveEvent(cur[Api])
    /\ cur' = [cur EXCEPT ![Api] = NoEvent]
    /\ operator' = "invalidate"
    /\ UNCHANGED <<world, saved, cache, step, reading>>

\* update_settings()
UpdateSettings(m) ==
    /\ operator = "idle" /\ acts < MaxActs
    /\ mode' = m /\ badSince' = Since(0, m, losses, decisions)
    /\ operator' = "invalidate" /\ acts' = acts + 1
    /\ UNCHANGED <<clock, losses, decisions, events, saved, cache, step, reading, cur>>

\* _invalidate_cache(), of this instance only.
Invalidate ==
    /\ operator = "invalidate"
    /\ cache' = [cache EXCEPT ![Api] = EmptyCache]
    /\ operator' = "idle"
    /\ UNCHANGED <<world, saved, events, step, reading, cur>>

\* A trade closes, or an analysis is recorded, elsewhere.
CloseTrade(won) ==
    /\ losses' = IF won THEN 0 ELSE IF losses < MaxLosses THEN losses + 1 ELSE losses
    /\ badSince' = Since(badSince, mode, losses', decisions)
    /\ UNCHANGED <<clock, decisions, mode, acts, events, saved, cache, step, reading,
                   cur, operator>>

\* Bug: the decisions are read without a LIMIT.
RecordWithoutLimit(timeout) ==
    /\ DecisionLimit > 0 /\ Len(decisions) <= DecisionLimit
    /\ decisions' = <<timeout>> \o decisions
    /\ badSince' = Since(badSince, mode, losses, decisions')
    /\ UNCHANGED <<clock, losses, mode, acts, events, saved, cache, step, reading, cur,
                   operator>>

RecordDecision(timeout) ==
    LET d == <<timeout>> \o decisions
    IN  /\ DecisionLimit > 0
        /\ decisions' = SubSeq(d, 1, IF Len(d) > DecisionLimit THEN DecisionLimit ELSE Len(d))
        /\ badSince' = Since(badSince, mode, losses, decisions')
        /\ UNCHANGED <<clock, losses, mode, acts, events, saved, cache, step, reading,
                       cur, operator>>

ClockTick ==
    /\ clock < ClockEnd
    /\ clock' = clock + 1
    /\ UNCHANGED <<losses, decisions, mode, acts, badSince, events, saved, cache, step,
                   reading,
                   cur, operator>>

BreakerNext ==
    \/ \E t \in Evaluators : Evaluate(t)
    \/ ResetBreaker \/ ResetResolves \/ Invalidate
    \/ \E m \in Modes : UpdateSettings(m)
    \/ \E b \in BOOLEAN : CloseTrade(b) \/ RecordDecision(b)
    \/ ClockTick

BreakerSpec == BreakerInit /\ [][BreakerNext]_breaker_vars
-----------------------------------------------------------------------------
BreakerTypeOK ==
    /\ clock \in 1..ClockEnd
    /\ events \in Seq(Stored) /\ saved \in 0..MaxEvents
    /\ \A i \in DOMAIN events : events[i].id \in 1..saved
    /\ losses \in 0..MaxLosses /\ mode \in Modes
    /\ decisions \in Seq(BOOLEAN) /\ Len(decisions) <= DecisionLimit
    /\ cache \in [Instances -> [at : 0..ClockEnd, status : Statuses,
                                until : 0..(ClockEnd + Cooldown)]]
    /\ step \in [Evaluators -> {"idle", "settings", "event", "rules", "persist",
                              "resolve", "save", "store"}]
    /\ reading \in [Evaluators -> [start : 0..ClockEnd, time : 0..ClockEnd,
                                   mode : Modes, active : Stored,
                               status : Statuses, until : 0..(ClockEnd + Cooldown)]]
    /\ cur \in [Evaluators \cup {Api} -> Stored]
    /\ operator \in {"idle", "resolve", "invalidate"} /\ acts \in 0..MaxActs
    /\ badSince \in 0..ClockEnd

(* A cached answer is never better than what held when its TTL began to    *)
(* run: an entry stamped after the breaker had to be open says OPEN, also  *)
(* when the evaluation was slow or an invalidation ran in between.         *)
CacheIsAsOldAsItsStamp ==
    \A i \in Instances :
        badSince > 0 /\ cache[i].at > badSince => cache[i].status = "OPEN"

(* With one evaluator at a time there is at most one unresolved event, so  *)
(* a reset or a recovery leaves none behind.                               *)
OneUnresolvedEvent == Len(events) <= 1

Cooling(s, time) == \E i \in DOMAIN s : s[i].status = "OPEN" /\ s[i].until > time
ByReset == operator = "resolve" /\ ResetResolves
ByForce == \E t \in Evaluators : reading[t].mode # "AUTO" /\ ResolveCurrent(t)

(* "How long autonomous scans stay paused after an OPEN trip"              *)
(* (AdminRoute.tsx:183): a trip that is cooling down is only ended by a    *)
(* reset or a manual mode.                                                 *)
CooldownIsServed ==
    [][Cooling(events, clock) /\ ~Cooling(events', clock) => ByReset \/ ByForce]_breaker_vars
=============================================================================
