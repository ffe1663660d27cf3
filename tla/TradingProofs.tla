--------------------------- MODULE TradingProofs ----------------------------
(***************************************************************************)
(* Theorems about what decides and books a trade: the circuit breaker, the *)
(* safety gates and the paper account, for any settings, clocks and bounds.*)
(***************************************************************************)
EXTENDS CircuitBreaker, SafetyGates, PaperExecution, ListFacts, FiniteSetTheorems

-----------------------------------------------------------------------------
(* CircuitBreaker.                                                         *)

Readings ==
    [start : 0..ClockEnd, time : 0..ClockEnd, mode : Modes, active : Stored,
     status : Statuses, until : 0..(ClockEnd + Cooldown)]
Entries == [at : 0..ClockEnd, status : Statuses, until : 0..(ClockEnd + Cooldown)]

(* The settings are numbers.                                               *)
LEMMA BreakerNumbers ==
    /\ MaxLosses \in Nat \ {0} /\ TripCount \in Nat \ {0} /\ DecisionLimit \in Nat
    /\ Cooldown \in Nat /\ TTL \in Nat /\ ClockEnd \in Nat \ {0} /\ MaxEvents \in Nat
    /\ MaxActs \in Nat
BY CircuitBreakerAssumption

(* No event, nothing read and an empty cache are of their types.           *)
LEMMA BreakerEmpty ==
    NoEvent \in Stored /\ NoReading \in Readings /\ EmptyCache \in Entries
<1>1. /\ 0 \in 0..ClockEnd /\ 0 \in 0..MaxEvents /\ 0 \in 0..(ClockEnd + Cooldown)
  BY BreakerNumbers
<1>2. NoEvent \in Stored
  BY <1>1 DEF NoEvent, Stored, Statuses
<1>3. NoReading \in Readings
  BY <1>1, <1>2 DEF NoReading, Readings, Modes, Statuses
<1>4. EmptyCache \in Entries
  BY <1>1 DEF EmptyCache, Entries, Statuses
<1>5. QED
  BY <1>2, <1>3, <1>4

(* The breaker begins closed, with nothing cached.                         *)
LEMMA BreakerTypeStarts == BreakerInit => BreakerTypeOK
<1> SUFFICES ASSUME BreakerInit PROVE BreakerTypeOK
    OBVIOUS
<1>1. /\ clock \in 1..ClockEnd /\ badSince \in 0..ClockEnd /\ saved \in 0..MaxEvents
      /\ losses \in 0..MaxLosses /\ acts \in 0..MaxActs
  BY BreakerNumbers DEF BreakerInit
<1>2. /\ events \in Seq(Stored) /\ DOMAIN events = {}
      /\ decisions \in Seq(BOOLEAN) /\ Len(decisions) <= DecisionLimit
  BY BreakerNumbers DEF BreakerInit
<1>3. cache \in [Instances -> Entries] /\ reading \in [Evaluators -> Readings]
  BY BreakerEmpty DEF BreakerInit
<1>4. cur \in [Evaluators \cup {Api} -> Stored]
  BY BreakerEmpty DEF BreakerInit
<1>5. mode \in Modes /\ operator = "idle" /\ step = [t \in Evaluators |-> "idle"]
  BY DEF BreakerInit, Modes
<1>6. QED
  BY <1>1, <1>2, <1>3, <1>4, <1>5 DEF BreakerTypeOK, Readings, Entries

(* What is left of the unresolved events when one of them is resolved.     *)
LEMMA ResolvedLeft ==
    ASSUME BreakerTypeOK, NEW e, ResolveEvent(e)
    PROVE  /\ events' \in Seq(Stored) /\ Items(events') \subseteq Items(events)
           /\ Under(events', events)
           /\ \A i \in DOMAIN events' : events'[i].id \in 1..saved /\ events'[i].id # e.id
           /\ \A x \in Items(events) : x.id # e.id => x \in Items(events')
<1> DEFINE K == {row \in Items(events) : row.id # e.id}
<1>1. events' = Keep(events, K) /\ events \in Seq(Stored)
  BY DEF ResolveEvent, BreakerTypeOK
<1>2. \A x \in Items(events) : x.id # e.id => x \in K
  OBVIOUS
<1>3. \A x \in K : x \in Items(events) /\ x.id # e.id
  OBVIOUS
<1> HIDE DEF K
<1>4. /\ events' \in Seq(Stored \cap K) /\ Items(events') = Items(events) \cap K
      /\ Under(events', events)
  BY <1>1, KeepKeeps
<1>5. events' \in Seq(Stored)
  BY <1>4
<1>6. \A i \in DOMAIN events' : events'[i] \in Items(events) \cap K
  BY <1>4 DEF Items
<1>7. \A i \in DOMAIN events' : events'[i].id \in 1..saved /\ events'[i].id # e.id
  BY <1>3, <1>6 DEF BreakerTypeOK, Items
<1>8. QED
  BY <1>2, <1>4, <1>5, <1>7

(* The event created last is one of the events, or there is none.          *)
LEMMA LatestIsStored ==
    ASSUME BreakerTypeOK, NEW e \in EventRows
    PROVE  e \in Stored
BY BreakerEmpty DEF BreakerTypeOK, EventRows, Items

(* A verdict is a status, and an evaluation stays of its type.             *)
LEMMA DecidedType ==
    ASSUME BreakerTypeOK, NEW t \in Evaluators, Decide(t)
    PROVE  reading' \in [Evaluators -> Readings]
<1> DEFINE j == reading[t]
           s == Verdict(j.mode, j.active, losses, decisions, j.time)
           u == ResumeAt(j.mode, j.active, s, j.time)
<1>1. reading \in [Evaluators -> Readings] /\ j \in Readings
  BY DEF BreakerTypeOK, Readings
<1>2. s \in Statuses
  BY DEF Verdict, Statuses
<1>3. /\ j.time \in 0..ClockEnd /\ j.active.until \in 0..(ClockEnd + Cooldown)
  BY <1>1 DEF Readings, Stored
<1>4. u \in 0..(ClockEnd + Cooldown)
  BY <1>3, BreakerNumbers DEF ResumeAt
<1>5. reading' = [reading EXCEPT ![t] = [j EXCEPT !.status = s, !.until = u]]
  BY <1>1 DEF Decide
<1> HIDE DEF s, u
<1>6. [j EXCEPT !.status = s, !.until = u] \in Readings
  BY <1>1, <1>2, <1>4 DEF Readings
<1>7. QED
  BY <1>1, <1>5, <1>6

(* Each step keeps the types.                                              *)
LEMMA BreakerTypeStep ==
    ASSUME BreakerTypeOK, [BreakerNext]_breaker_vars
    PROVE  BreakerTypeOK'
<1> USE BreakerNumbers DEF world
<1>0. /\ clock \in 1..ClockEnd /\ events \in Seq(Stored) /\ saved \in 0..MaxEvents
      /\ \A i \in DOMAIN events : events[i].id \in 1..saved
      /\ losses \in 0..MaxLosses /\ mode \in Modes
      /\ decisions \in Seq(BOOLEAN) /\ Len(decisions) <= DecisionLimit
      /\ cache \in [Instances -> Entries] /\ reading \in [Evaluators -> Readings]
      /\ step \in [Evaluators -> {"idle", "settings", "event", "rules", "persist",
                                  "resolve", "save", "store"}]
      /\ cur \in [Evaluators \cup {Api} -> Stored]
      /\ operator \in {"idle", "resolve", "invalidate"} /\ acts \in 0..MaxActs
      /\ badSince \in 0..ClockEnd
  BY DEF BreakerTypeOK, Entries, Readings
<1>1. CASE UNCHANGED breaker_vars
  BY <1>0, <1>1 DEF breaker_vars, BreakerTypeOK, Entries, Readings
<1>2. ASSUME NEW t \in Evaluators, Evaluate(t)
      PROVE  BreakerTypeOK'
  <2>1. CASE BeginEvaluation(t)
    <3> DEFINE r == [NoReading EXCEPT !.start = clock]
    <3>1. r \in Readings
      <4>1. NoReading \in Readings /\ clock \in 0..ClockEnd
          BY <1>0, BreakerEmpty
      <4>2. QED
          BY <4>1 DEF Readings
    <3>2. reading' \in [Evaluators -> Readings]
        BY <1>0, <2>1, <3>1 DEF BeginEvaluation
    <3>3. QED
        BY <1>0, <2>1, <3>2 DEF BeginEvaluation, GotoStep, BreakerTypeOK, Entries, Readings
  <2>2. CASE ReadSettings(t)
    <3>1. [reading[t] EXCEPT !.mode = mode] \in Readings
        BY <1>0 DEF Readings
    <3>2. reading' \in [Evaluators -> Readings]
        BY <1>0, <2>2, <3>1 DEF ReadSettings
    <3>3. QED
        BY <1>0, <2>2, <3>2 DEF ReadSettings, GotoStep, BreakerTypeOK, Entries, Readings
  <2>3. CASE ReadEvent(t)
    <3>1. PICK e \in EventRows :
             reading' = [reading EXCEPT ![t].active = e, ![t].time = clock]
        BY <2>3 DEF ReadEvent
    <3>2. e \in Stored
        BY LatestIsStored
    <3>3. [reading[t] EXCEPT !.active = e, !.time = clock] \in Readings
      <4>1. reading[t] \in Readings /\ clock \in 0..ClockEnd
          BY <1>0
      <4>2. QED
          BY <3>2, <4>1 DEF Readings
    <3>4. reading' = [reading EXCEPT ![t] = [reading[t] EXCEPT !.active = e, !.time = clock]]
        BY <1>0, <3>1
    <3>5. reading' \in [Evaluators -> Readings]
        BY <1>0, <3>3, <3>4
    <3>6. QED
        BY <1>0, <2>3, <3>5 DEF ReadEvent, GotoStep, BreakerTypeOK, Entries, Readings
  <2>4. CASE Decide(t)
    <3>1. reading' \in [Evaluators -> Readings]
        BY <2>4, DecidedType
    <3>2. QED
        BY <1>0, <2>4, <3>1 DEF Decide, GotoStep, BreakerTypeOK, Entries, Readings
  <2>5. CASE ReadCurrent(t)
    <3>1. PICK e \in EventRows :
             /\ cur' = [cur EXCEPT ![t] = e]
             /\ GotoStep(t, IF events # <<>> /\ e.status = reading[t].status THEN "store"
                            ELSE IF events # <<>> THEN "resolve" ELSE "save")
        BY <2>5 DEF ReadCurrent
    <3>2. cur' \in [Evaluators \cup {Api} -> Stored]
        BY <1>0, <3>1, LatestIsStored
    <3>3. QED
        BY <1>0, <2>5, <3>1, <3>2
        DEF ReadCurrent, GotoStep, BreakerTypeOK, Entries, Readings
  <2>6. CASE ResolveCurrent(t)
    <3>1. /\ events' \in Seq(Stored)
          /\ \A i \in DOMAIN events' : events'[i].id \in 1..saved
        BY <2>6, ResolvedLeft DEF ResolveCurrent
    <3>2. cur' \in [Evaluators \cup {Api} -> Stored]
        BY <1>0, <2>6, BreakerEmpty DEF ResolveCurrent
    <3>3. QED
        BY <1>0, <2>6, <3>1, <3>2
        DEF ResolveCurrent, GotoStep, BreakerTypeOK, Entries, Readings
  <2>7. CASE SaveEvent(t)
    <3> DEFINE e == [id |-> saved + 1, status |-> reading[t].status,
                     at |-> reading[t].time, until |-> reading[t].until]
    <3>1. CASE UNCHANGED <<events, saved>>
        BY <1>0, <2>7, <3>1 DEF SaveEvent, GotoStep, BreakerTypeOK, Entries, Readings
    <3>2. CASE saved < MaxEvents /\ saved' = saved + 1 /\ events' = Append(events, e)
      <4>1. e \in Stored /\ e.id \in 1..(saved + 1)
        <5>1. /\ reading[t].status \in Statuses /\ reading[t].time \in 0..ClockEnd
              /\ reading[t].until \in 0..(ClockEnd + Cooldown)
            BY <1>0 DEF Readings
        <5>2. saved + 1 \in 0..MaxEvents /\ saved + 1 \in 1..(saved + 1)
            BY <1>0, <3>2
        <5>3. QED
            BY <5>1, <5>2 DEF Stored
      <4> HIDE DEF e
      <4>2. /\ events' \in Seq(Stored) /\ DOMAIN events' = 1..(Len(events) + 1)
            /\ DOMAIN events = 1..Len(events) /\ Len(events) \in Nat
            /\ \A i \in 1..Len(events) : events'[i] = events[i]
            /\ events'[Len(events) + 1] = e
          BY <1>0, <3>2, <4>1, AppendIs
      <4>3. \A i \in DOMAIN events' : events'[i].id \in 1..saved'
          BY <1>0, <3>2, <4>1, <4>2
      <4>4. saved' \in 0..MaxEvents
          BY <1>0, <3>2
      <4>5. QED
          BY <1>0, <2>7, <4>2, <4>3, <4>4
          DEF SaveEvent, GotoStep, BreakerTypeOK, Entries, Readings
    <3>3. QED
        BY <2>7, <3>1, <3>2 DEF SaveEvent
  <2>8. CASE Store(t)
    <3> DEFINE i == InstanceOf[t]
               e == [at |-> reading[t].start, status |-> reading[t].status,
                     until |-> reading[t].until]
    <3>1. e \in Entries /\ i \in Instances
        BY <1>0, CircuitBreakerAssumption DEF Entries, Readings
    <3>2. cache' = [cache EXCEPT ![i] = e]
        BY <2>8 DEF Store
    <3> HIDE DEF i, e
    <3>3. cache' \in [Instances -> Entries]
        BY <1>0, <3>1, <3>2
    <3>4. /\ reading' \in [Evaluators -> Readings]
          /\ cur' \in [Evaluators \cup {Api} -> Stored]
        BY <1>0, <2>8, BreakerEmpty DEF Store
    <3>5. QED
        BY <1>0, <2>8, <3>3, <3>4 DEF Store, GotoStep, BreakerTypeOK, Entries, Readings
  <2>9. QED
      BY <1>2, <2>1, <2>2, <2>3, <2>4, <2>5, <2>6, <2>7, <2>8 DEF Evaluate
<1>3. CASE ResetBreaker
  <2>1. PICK e \in EventRows : cur' = [cur EXCEPT ![Api] = e]
      BY <1>3 DEF ResetBreaker
  <2>2. cur' \in [Evaluators \cup {Api} -> Stored]
      BY <1>0, <2>1, LatestIsStored
  <2>3. /\ acts' \in 0..MaxActs /\ operator' = "resolve"
        /\ UNCHANGED <<clock, losses, decisions, mode, badSince, events, saved, cache,
                       step, reading>>
      BY <1>0, <1>3 DEF ResetBreaker
  <2>4. QED
      BY <1>0, <2>2, <2>3 DEF BreakerTypeOK, Entries, Readings
<1>4. CASE ResetResolves
  <2>1. /\ events' \in Seq(Stored)
        /\ \A i \in DOMAIN events' : events'[i].id \in 1..saved
      BY <1>4, ResolvedLeft DEF ResetResolves
  <2>2. cur' \in [Evaluators \cup {Api} -> Stored]
      BY <1>0, <1>4, BreakerEmpty DEF ResetResolves
  <2>3. QED
      BY <1>0, <1>4, <2>1, <2>2 DEF ResetResolves, BreakerTypeOK, Entries, Readings
<1>5. CASE Invalidate
  <2>1. cache' \in [Instances -> Entries]
      BY <1>0, <1>5, BreakerEmpty DEF Invalidate
  <2>2. QED
      BY <1>0, <1>5, <2>1 DEF Invalidate, BreakerTypeOK, Entries, Readings
<1>6. ASSUME NEW m \in Modes, UpdateSettings(m)
      PROVE  BreakerTypeOK'
  BY <1>0, <1>6 DEF UpdateSettings, Since, BreakerTypeOK, Entries, Readings
<1>7. ASSUME NEW b \in BOOLEAN, CloseTrade(b)
      PROVE  BreakerTypeOK'
  BY <1>0, <1>7 DEF CloseTrade, Since, BreakerTypeOK, Entries, Readings
<1>8. ASSUME NEW b \in BOOLEAN, RecordDecision(b)
      PROVE  BreakerTypeOK'
  <2> DEFINE d == <<b>> \o decisions
             n == IF Len(d) > DecisionLimit THEN DecisionLimit ELSE Len(d)
  <2>1. d \in Seq(BOOLEAN)
      BY <1>0
  <2>2. decisions' = SubSeq(d, 1, n)
      BY <1>8 DEF RecordDecision
  <2> HIDE DEF d
  <2>3. n \in Nat /\ n <= Len(d) /\ n <= DecisionLimit
      BY <2>1
  <2> HIDE DEF n
  <2>4. decisions' \in Seq(BOOLEAN) /\ Len(decisions') = n
      BY <2>1, <2>2, <2>3
  <2>5. badSince' \in 0..ClockEnd
      BY <1>0, <1>8 DEF RecordDecision, Since
  <2>6. QED
      BY <1>0, <1>8, <2>3, <2>4, <2>5 DEF RecordDecision, BreakerTypeOK, Entries, Readings
<1>9. CASE ClockTick
  BY <1>0, <1>9 DEF ClockTick, BreakerTypeOK, Entries, Readings
<1>10. QED
  BY <1>1, <1>2, <1>3, <1>4, <1>5, <1>6, <1>7, <1>8, <1>9 DEF BreakerNext

\* While the breaker has to be open, the settings and the trades say so.
BadIsBad ==
    /\ badSince <= clock
    /\ badSince > 0 => mode = "FORCE_OPEN" \/ (mode = "AUTO" /\ Tripped(losses, decisions))

\* An evaluation that began later has read the mode that still holds, and what
\* it decides is to open.
LateReading(t) ==
    /\ reading[t].start <= clock
    /\ badSince > 0 /\ reading[t].start > badSince =>
          /\ step[t] \in {"event", "rules"} => reading[t].mode = mode
          /\ step[t] \in {"persist", "resolve", "save", "store"} => reading[t].status = "OPEN"

CacheInv ==
    /\ BreakerTypeOK /\ BadIsBad
    /\ \A t \in Evaluators : LateReading(t)
    /\ \A i \in Instances : cache[i].at <= clock
    /\ CacheIsAsOldAsItsStamp

(* Nothing is bad and nothing cached when the breaker begins.              *)
LEMMA CacheStarts == BreakerInit => CacheInv
<1> SUFFICES ASSUME BreakerInit PROVE CacheInv
    OBVIOUS
<1>1. BreakerTypeOK
  BY BreakerTypeStarts
<1>2. /\ BadIsBad /\ \A t \in Evaluators : LateReading(t)
  BY DEF BreakerInit, BadIsBad, LateReading, NoReading
<1>3. (\A i \in Instances : cache[i].at <= clock) /\ CacheIsAsOldAsItsStamp
  BY DEF BreakerInit, CacheIsAsOldAsItsStamp, EmptyCache
<1>4. QED
  BY <1>1, <1>2, <1>3 DEF CacheInv

(* What the operator and the world do at one instant: the time since which *)
(* the breaker is bad stays, or is that instant, or there is none.         *)
LEMMA BadMoves ==
    ASSUME CacheInv, clock' = clock, UNCHANGED <<reading, step>>,
           cache' = cache \/ cache' = [cache EXCEPT ![Api] = EmptyCache],
           badSince' \in {0, clock} \/ (badSince' = badSince /\ mode' = mode),
           badSince' > 0 =>
               mode' = "FORCE_OPEN" \/ (mode' = "AUTO" /\ Tripped(losses', decisions')),
           BreakerTypeOK'
    PROVE  CacheInv'
<1>1. /\ clock \in 1..ClockEnd /\ badSince \in 0..ClockEnd
      /\ cache \in [Instances -> Entries] /\ Api \in Instances
      /\ reading \in [Evaluators -> Readings]
  BY CircuitBreakerAssumption DEF CacheInv, BreakerTypeOK, Entries, Readings
<1>2. BadIsBad'
  BY <1>1 DEF CacheInv, BadIsBad
<1>3. ASSUME NEW t \in Evaluators
      PROVE  LateReading(t)'
  <2>1. reading[t].start \in 0..ClockEnd /\ LateReading(t)
      BY <1>1 DEF CacheInv, Readings
  <2>2. QED
      BY <1>1, <2>1 DEF LateReading
<1>4. ASSUME NEW i \in Instances
      PROVE  /\ cache'[i].at <= clock'
             /\ badSince' > 0 /\ cache'[i].at > badSince' => cache'[i].status = "OPEN"
  <2>1. cache[i].at \in 0..ClockEnd /\ cache[i].at <= clock
      BY <1>1 DEF CacheInv, Entries
  <2>2. cache'[i] = cache[i] \/ cache'[i] = EmptyCache
      BY <1>1
  <2>3. badSince > 0 /\ cache[i].at > badSince => cache[i].status = "OPEN"
      BY DEF CacheInv, CacheIsAsOldAsItsStamp
  <2>4. QED
      BY <1>1, <2>1, <2>2, <2>3 DEF EmptyCache
<1>5. QED
  BY <1>2, <1>3, <1>4 DEF CacheInv, CacheIsAsOldAsItsStamp

(* A step of an evaluation before it stores: the world and the cache stay. *)
LEMMA ReadingMoves ==
    ASSUME CacheInv, NEW t \in Evaluators, NEW r \in Readings, NEW place,
           UNCHANGED <<world, cache>>, reading' = [reading EXCEPT ![t] = r],
           step' = [step EXCEPT ![t] = place],
           r.start <= clock,
           badSince > 0 /\ r.start > badSince =>
              /\ place \in {"event", "rules"} => r.mode = mode
              /\ place \in {"persist", "resolve", "save", "store"} => r.status = "OPEN",
           BreakerTypeOK'
    PROVE  CacheInv'
<1>1. /\ reading \in [Evaluators -> Readings] /\ DOMAIN step = Evaluators
  BY DEF CacheInv, BreakerTypeOK, Readings
<1>2. ASSUME NEW u \in Evaluators
      PROVE  LateReading(u)'
  <2>1. CASE u = t
      BY <1>1, <2>1 DEF LateReading, world
  <2>2. CASE u # t
      BY <1>1, <2>2 DEF LateReading, world, CacheInv
  <2>3. QED
      BY <2>1, <2>2
<1>3. QED
  BY <1>2 DEF CacheInv, BadIsBad, CacheIsAsOldAsItsStamp, world

(* Each step keeps the cache as old as its stamp.                          *)
LEMMA CacheStep ==
    ASSUME CacheInv, [BreakerNext]_breaker_vars
    PROVE  CacheInv'
<1>0. /\ clock \in 1..ClockEnd /\ badSince \in 0..ClockEnd
      /\ cache \in [Instances -> Entries] /\ reading \in [Evaluators -> Readings]
      /\ step \in [Evaluators -> {"idle", "settings", "event", "rules", "persist",
                                  "resolve", "save", "store"}]
      /\ BreakerTypeOK
  BY DEF CacheInv, BreakerTypeOK, Entries, Readings
<1>t. BreakerTypeOK'
  BY BreakerTypeStep DEF CacheInv
<1>r. reading' \in [Evaluators -> Readings]
  BY <1>t DEF BreakerTypeOK, Readings
<1>1. CASE UNCHANGED breaker_vars
  BY <1>1, <1>t DEF breaker_vars, CacheInv, BadIsBad, LateReading, CacheIsAsOldAsItsStamp
<1>2. ASSUME NEW t \in Evaluators, Evaluate(t)
      PROVE  CacheInv'
  <2> DEFINE r == reading'[t]
  <2>0. /\ reading[t].start <= clock /\ LateReading(t)
        /\ r \in Readings
        /\ reading[t] \in Readings /\ NoReading \in Readings
      BY <1>0, <1>r, BreakerEmpty DEF CacheInv, LateReading
  <2>1. CASE BeginEvaluation(t)
    <3>1. /\ reading' = [reading EXCEPT ![t] = r] /\ r.start = clock
        BY <1>0, <2>1 DEF BeginEvaluation, NoReading
    <3> HIDE DEF r
    <3>2. /\ step' = [step EXCEPT ![t] = "settings"] /\ UNCHANGED <<world, cache>>
          /\ r.start <= clock
        BY <1>0, <2>1, <3>1 DEF BeginEvaluation, GotoStep
    <3>3. QED
        BY <1>0, <1>t, <2>0, <3>1, <3>2, ReadingMoves
  <2>2. CASE ReadSettings(t)
    <3>1. /\ reading' = [reading EXCEPT ![t] = r] /\ r.start = reading[t].start
          /\ r.mode = mode
        BY <1>0, <2>0, <2>2 DEF ReadSettings, Readings
    <3> HIDE DEF r
    <3>2. QED
        BY <1>0, <1>t, <2>0, <2>2, <3>1, ReadingMoves DEF ReadSettings, GotoStep
  <2>3. CASE ReadEvent(t)
    <3>1. /\ reading' = [reading EXCEPT ![t] = r] /\ r.start = reading[t].start
          /\ r.mode = reading[t].mode
        BY <1>0, <2>0, <2>3 DEF ReadEvent, Readings
    <3>2. badSince > 0 /\ r.start > badSince => r.mode = mode
        BY <2>0, <2>3, <3>1 DEF ReadEvent, LateReading
    <3> HIDE DEF r
    <3>3. QED
        BY <1>0, <1>t, <2>0, <2>3, <3>1, <3>2, ReadingMoves DEF ReadEvent, GotoStep
  <2>4. CASE Decide(t)
    <3>1. /\ reading' = [reading EXCEPT ![t] = r] /\ r.start = reading[t].start
          /\ r.status = Verdict(reading[t].mode, reading[t].active, losses, decisions,
                                reading[t].time)
        BY <1>0, <2>0, <2>4 DEF Decide, Readings
    <3>2. badSince > 0 /\ r.start > badSince => r.status = "OPEN"
      <4>1. badSince > 0 /\ r.start > badSince => reading[t].mode = mode
          BY <2>0, <2>4, <3>1 DEF Decide, LateReading
      <4>2. QED
          BY <3>1, <4>1 DEF Verdict, CacheInv, BadIsBad
    <3> HIDE DEF r
    <3>3. QED
        BY <1>0, <1>t, <2>0, <2>4, <3>1, <3>2, ReadingMoves DEF Decide, GotoStep
  <2>5. CASE ReadCurrent(t) \/ ResolveCurrent(t) \/ SaveEvent(t)
    <3>1. PICK place \in {"resolve", "save", "store"} : step' = [step EXCEPT ![t] = place]
        BY <2>5 DEF ReadCurrent, ResolveCurrent, SaveEvent, GotoStep
    <3>2. /\ reading' = reading /\ UNCHANGED <<world, cache>>
          /\ step[t] \in {"persist", "resolve", "save"}
        BY <2>5 DEF ReadCurrent, ResolveCurrent, SaveEvent
    <3>3. reading' = [reading EXCEPT ![t] = reading[t]]
        BY <1>0, <3>2
    <3>4. badSince > 0 /\ reading[t].start > badSince => reading[t].status = "OPEN"
        BY <2>0, <3>2 DEF LateReading
    <3>5. QED
        BY <1>0, <1>t, <2>0, <3>1, <3>2, <3>3, <3>4, ReadingMoves
  <2>6. CASE Store(t)
    <3> DEFINE i == InstanceOf[t]
               e == [at |-> reading[t].start, status |-> reading[t].status,
                     until |-> reading[t].until]
    <3>1. /\ cache' = [cache EXCEPT ![i] = e] /\ step[t] = "store"
          /\ reading' = [reading EXCEPT ![t] = NoReading]
          /\ step' = [step EXCEPT ![t] = "idle"] /\ UNCHANGED world
        BY <2>6 DEF Store, GotoStep
    <3>2. /\ i \in Instances /\ e.at = reading[t].start /\ e.status = reading[t].status
        BY CircuitBreakerAssumption
    <3>3. badSince > 0 /\ e.at > badSince => e.status = "OPEN"
        BY <2>0, <3>1, <3>2 DEF LateReading
    <3> HIDE DEF i, e
    <3>4. ASSUME NEW k \in Instances
          PROVE  /\ cache'[k].at <= clock'
                 /\ badSince' > 0 /\ cache'[k].at > badSince' => cache'[k].status = "OPEN"
        BY <1>0, <2>0, <3>1, <3>2, <3>3
        DEF CacheInv, CacheIsAsOldAsItsStamp, world
    <3>5. ASSUME NEW u \in Evaluators
          PROVE  LateReading(u)'
      <4>1. CASE u = t
          BY <1>0, <3>1, <4>1 DEF LateReading, NoReading, world
      <4>2. CASE u # t
          BY <1>0, <3>1, <4>2 DEF LateReading, CacheInv, world
      <4>3. QED
          BY <4>1, <4>2
    <3>6. QED
        BY <1>t, <3>1, <3>4, <3>5
        DEF CacheInv, BadIsBad, CacheIsAsOldAsItsStamp, world
  <2>7. QED
      BY <1>2, <2>1, <2>2, <2>3, <2>4, <2>5, <2>6 DEF Evaluate
<1>3. CASE ResetBreaker \/ ResetResolves \/ Invalidate
  <2>1. /\ UNCHANGED <<clock, reading, step, badSince, mode, losses, decisions>>
        /\ cache' = cache \/ cache' = [cache EXCEPT ![Api] = EmptyCache]
      BY <1>3 DEF ResetBreaker, ResetResolves, Invalidate, world
  <2>2. badSince' > 0 =>
            mode' = "FORCE_OPEN" \/ (mode' = "AUTO" /\ Tripped(losses', decisions'))
      BY <2>1 DEF CacheInv, BadIsBad
  <2>3. QED
      BY <1>t, <2>1, <2>2, BadMoves
<1>4. ASSUME NEW m \in Modes, UpdateSettings(m)
      PROVE  CacheInv'
  <2>1. /\ UNCHANGED <<clock, reading, step, cache, losses, decisions>>
        /\ badSince' = Since(0, m, losses, decisions) /\ mode' = m
      BY <1>4 DEF UpdateSettings
  <2>2. /\ badSince' \in {0, clock}
        /\ badSince' > 0 =>
              mode' = "FORCE_OPEN" \/ (mode' = "AUTO" /\ Tripped(losses', decisions'))
      BY <1>0, <2>1 DEF Since
  <2>3. QED
      BY <1>t, <2>1, <2>2, BadMoves
<1>5. ASSUME NEW b \in BOOLEAN, CloseTrade(b) \/ RecordDecision(b)
      PROVE  CacheInv'
  <2>1. /\ UNCHANGED <<clock, reading, step, cache, mode>>
        /\ badSince' = Since(badSince, mode, losses', decisions')
      BY <1>5 DEF CloseTrade, RecordDecision
  <2>2. /\ badSince' \in {0, clock} \/ (badSince' = badSince /\ mode' = mode)
        /\ badSince' > 0 =>
              mode' = "FORCE_OPEN" \/ (mode' = "AUTO" /\ Tripped(losses', decisions'))
      BY <1>0, <2>1 DEF Since
  <2>3. QED
      BY <1>t, <2>1, <2>2, BadMoves
<1>6. CASE ClockTick
  <2>1. /\ clock' = clock + 1
        /\ UNCHANGED <<losses, decisions, mode, badSince, cache, step, reading>>
      BY <1>6 DEF ClockTick
  <2>2. ASSUME NEW t \in Evaluators
        PROVE  LateReading(t)'
    <3>1. reading[t].start \in 0..ClockEnd /\ LateReading(t)
        BY <1>0 DEF Readings, CacheInv
    <3>2. QED
        BY <1>0, <2>1, <3>1 DEF LateReading
  <2>3. ASSUME NEW i \in Instances
        PROVE  cache'[i].at <= clock'
    <3>1. cache[i].at \in 0..ClockEnd /\ cache[i].at <= clock
        BY <1>0 DEF Entries, CacheInv
    <3>2. QED
        BY <1>0, <2>1, <3>1
  <2>4. QED
      BY <1>0, <1>t, <2>1, <2>2, <2>3 DEF CacheInv, BadIsBad, CacheIsAsOldAsItsStamp
<1>7. QED
  BY <1>1, <1>2, <1>3, <1>4, <1>5, <1>6 DEF BreakerNext

(* The types and the history of the cache hold for any number of threads   *)
(* and instances.                                                          *)
THEOREM BreakerCorrect == BreakerSpec => []CacheInv
<1>1. CacheInv /\ [BreakerNext]_breaker_vars => CacheInv'
  BY CacheStep
<1>2. QED
  BY <1>1, CacheStarts, PTL DEF BreakerSpec

(* A cached answer is never better than what held when its time to live    *)
(* began, in any instance and however slow the evaluations are.            *)
THEOREM CacheIsHonest == BreakerSpec => []CacheIsAsOldAsItsStamp
<1>1. CacheInv => CacheIsAsOldAsItsStamp
  BY DEF CacheInv
<1>2. QED
  BY <1>1, BreakerCorrect, PTL

\* The event read is a trip that is cooling down.
Trips(r) == r.active.status = "OPEN" /\ r.active.until > r.time

\* An evaluation knows the event that is unresolved: no other is stored while
\* it decides, and it replaces one only for a status that the event has not.
Knows(t) ==
    /\ reading[t].time <= clock
    /\ step[t] = "save" => events = <<>>
    /\ step[t] \in {"rules", "persist", "resolve"} /\ events # <<>> =>
          reading[t].active = events[1]
    /\ step[t] = "resolve" /\ events # <<>> =>
          cur[t] = events[1] /\ cur[t].status # reading[t].status
    /\ step[t] \in {"persist", "resolve"} /\ reading[t].mode = "AUTO" /\ Trips(reading[t])
          => reading[t].status = "OPEN"

LoneInv == BreakerTypeOK /\ OneUnresolvedEvent /\ \A t \in Evaluators : Knows(t)

(* Of a list of at most one element, all or nothing is kept.               *)
LEMMA UnderOne ==
    ASSUME NEW S, NEW s \in Seq(S), NEW t \in Seq(S), Len(t) <= 1, Under(s, t),
           Items(s) \subseteq Items(t)
    PROVE  s = <<>> \/ (Len(s) = 1 /\ Len(t) = 1 /\ s[1] = t[1])
<1>1. /\ DOMAIN s = 1..Len(s) /\ Len(s) \in Nat /\ DOMAIN t = 1..Len(t) /\ Len(t) \in Nat
  OBVIOUS
<1>2. Len(s) <= 1
  <2> SUFFICES ASSUME Len(s) > 1 PROVE FALSE
      BY <1>1
  <2>1. 1 \in DOMAIN s /\ 2 \in DOMAIN s
      BY <1>1
  <2>2. \E a, b \in DOMAIN t : a < b
      BY <2>1 DEF Under
  <2>3. QED
      BY <1>1, <2>2
<1>3. CASE Len(s) = 0
  BY <1>3
<1>4. CASE Len(s) = 1
  <2>1. s[1] \in Items(t)
      BY <1>1, <1>4 DEF Items
  <2>2. PICK k \in DOMAIN t : s[1] = t[k]
      BY <2>1 DEF Items
  <2>3. k = 1 /\ Len(t) = 1
      BY <1>1, <2>2
  <2>4. QED
      BY <1>4, <2>2, <2>3
<1>5. QED
  BY <1>1, <1>2, <1>3, <1>4

(* Nothing or the one event is left when an event is resolved, and the     *)
(* event itself is not.                                                    *)
LEMMA OneResolved ==
    ASSUME BreakerTypeOK, OneUnresolvedEvent, NEW e, ResolveEvent(e)
    PROVE  /\ OneUnresolvedEvent'
           /\ events' # <<>> => events # <<>> /\ events'[1] = events[1] /\ events[1].id # e.id
<1>1. /\ events \in Seq(Stored) /\ events' \in Seq(Stored) /\ Len(events) <= 1
      /\ Items(events') \subseteq Items(events) /\ Under(events', events)
      /\ \A i \in DOMAIN events' : events'[i].id # e.id
  BY ResolvedLeft DEF BreakerTypeOK, OneUnresolvedEvent
<1>2. events' = <<>> \/ (Len(events') = 1 /\ Len(events) = 1 /\ events'[1] = events[1])
  BY <1>1, UnderOne
<1>3. CASE events' = <<>>
  BY <1>3 DEF OneUnresolvedEvent
<1>4. CASE Len(events') = 1 /\ Len(events) = 1 /\ events'[1] = events[1]
  BY <1>1, <1>4 DEF OneUnresolvedEvent
<1>5. QED
  BY <1>2, <1>3, <1>4

(* The event found last is the only one.                                   *)
LEMMA LatestIsFirst ==
    ASSUME BreakerTypeOK, OneUnresolvedEvent, NEW e, Latest(e), events # <<>>
    PROVE  e = events[1]
<1>1. events \in Seq(Stored) /\ Len(events) <= 1 /\ DOMAIN events = 1..Len(events)
      /\ Len(events) \in Nat
  BY DEF BreakerTypeOK, OneUnresolvedEvent
<1>2. QED
  BY <1>1 DEF Latest

(* A breaker begins without events.                                        *)
LEMMA LoneStarts == BreakerInit => LoneInv
<1> SUFFICES ASSUME BreakerInit PROVE LoneInv
    OBVIOUS
<1>1. BreakerTypeOK
  BY BreakerTypeStarts
<1>2. OneUnresolvedEvent /\ \A t \in Evaluators : Knows(t)
  BY DEF BreakerInit, OneUnresolvedEvent, Knows, NoReading
<1>3. QED
  BY <1>1, <1>2 DEF LoneInv

(* As long as one thread evaluates, each step leaves one event at most,    *)
(* and the thread knows it.                                                *)
LEMMA LoneStep ==
    ASSUME \A t, u \in Evaluators : t = u, LoneInv, [BreakerNext]_breaker_vars
    PROVE  LoneInv'
<1>0. /\ clock \in 1..ClockEnd /\ events \in Seq(Stored) /\ Len(events) <= 1
      /\ reading \in [Evaluators -> Readings] /\ OneUnresolvedEvent
      /\ step \in [Evaluators -> {"idle", "settings", "event", "rules", "persist",
                                  "resolve", "save", "store"}]
      /\ cur \in [Evaluators \cup {Api} -> Stored] /\ BreakerTypeOK
      /\ NoReading \in Readings /\ NoReading.time = 0
  BY BreakerEmpty DEF LoneInv, OneUnresolvedEvent, BreakerTypeOK, Readings, NoReading
<1>t. BreakerTypeOK'
  BY BreakerTypeStep DEF LoneInv
<1>1. CASE UNCHANGED breaker_vars
  BY <1>1, <1>t DEF breaker_vars, LoneInv, OneUnresolvedEvent, Knows
<1>2. ASSUME NEW t \in Evaluators, Evaluate(t)
      PROVE  LoneInv'
  <2> SUFFICES OneUnresolvedEvent' /\ Knows(t)'
      BY <1>t DEF LoneInv
  <2>0. Knows(t) /\ reading[t] \in Readings /\ reading[t].time \in 0..ClockEnd
      BY <1>0 DEF LoneInv, Readings
  <2>1. CASE BeginEvaluation(t)
      BY <1>0, <2>1 DEF BeginEvaluation, GotoStep, Knows, world, OneUnresolvedEvent, NoReading
  <2>2. CASE ReadSettings(t)
      BY <1>0, <2>0, <2>2
      DEF ReadSettings, GotoStep, Knows, world, OneUnresolvedEvent, Readings
  <2>3. CASE ReadEvent(t)
    <3>1. PICK e \in EventRows :
             Latest(e) /\ reading' = [reading EXCEPT ![t].active = e, ![t].time = clock]
        BY <2>3 DEF ReadEvent
    <3>2. reading'[t].active = e /\ reading'[t].time = clock
        BY <1>0, <2>0, <3>1 DEF Readings
    <3>3. events # <<>> => e = events[1]
        BY <1>0, <3>1, LatestIsFirst
    <3>4. step' = [step EXCEPT ![t] = "rules"] /\ UNCHANGED <<world, events>>
        BY <2>3 DEF ReadEvent, GotoStep
    <3>5. QED
        BY <1>0, <3>2, <3>3, <3>4 DEF Knows, world, OneUnresolvedEvent
  <2>4. CASE Decide(t)
    <3>1. /\ reading'[t].time = reading[t].time /\ reading'[t].mode = reading[t].mode
          /\ reading'[t].active = reading[t].active
          /\ reading'[t].status = Verdict(reading[t].mode, reading[t].active, losses,
                                          decisions, reading[t].time)
        BY <1>0, <2>0, <2>4 DEF Decide, Readings
    <3>2. /\ step' = [step EXCEPT ![t] = "persist"] /\ UNCHANGED <<world, events>>
          /\ step[t] = "rules"
        BY <2>4 DEF Decide, GotoStep
    <3>3. /\ reading[t].mode = "AUTO" /\ Trips(reading[t]) => reading'[t].status = "OPEN"
          /\ Trips(reading'[t]) => Trips(reading[t])
        BY <3>1 DEF Verdict, Trips
    <3>4. QED
        BY <1>0, <2>0, <3>1, <3>2, <3>3 DEF Knows, world, OneUnresolvedEvent
  <2>5. CASE ReadCurrent(t)
    <3>1. PICK e \in EventRows :
             /\ Latest(e) /\ cur' = [cur EXCEPT ![t] = e]
             /\ GotoStep(t, IF events # <<>> /\ e.status = reading[t].status THEN "store"
                            ELSE IF events # <<>> THEN "resolve" ELSE "save")
        BY <2>5 DEF ReadCurrent
    <3>2. events # <<>> => e = events[1]
        BY <1>0, <3>1, LatestIsFirst
    <3>3. cur'[t] = e /\ step[t] = "persist" /\ UNCHANGED <<world, events, reading>>
        BY <1>0, <2>5, <3>1 DEF ReadCurrent
    <3>4. step'[t] = IF events # <<>> /\ e.status = reading[t].status THEN "store"
                     ELSE IF events # <<>> THEN "resolve" ELSE "save"
        BY <1>0, <3>1 DEF GotoStep
    <3>5. QED
        BY <2>0, <1>0, <3>2, <3>3, <3>4 DEF Knows, world, OneUnresolvedEvent
  <2>6. CASE ResolveCurrent(t)
    <3>1. /\ OneUnresolvedEvent'
          /\ events' # <<>> => events # <<>> /\ events'[1] = events[1]
                               /\ events[1].id # cur[t].id
        BY <1>0, <2>6, OneResolved DEF ResolveCurrent
    <3>2. step[t] = "resolve" /\ step'[t] = "save" /\ UNCHANGED <<world, reading>>
        BY <1>0, <2>6 DEF ResolveCurrent, GotoStep
    <3>3. events' = <<>>
        BY <2>0, <3>1, <3>2 DEF Knows
    <3>4. QED
        BY <2>0, <3>1, <3>2, <3>3 DEF Knows, world
  <2>7. CASE SaveEvent(t)
    <3> DEFINE e == [id |-> saved + 1, status |-> reading[t].status,
                     at |-> reading[t].time, until |-> reading[t].until]
    <3>1. /\ events = <<>> /\ step'[t] = "store" /\ UNCHANGED <<world, reading>>
          /\ events' = <<>> \/ events' = Append(<<>>, e)
        BY <1>0, <2>0, <2>7 DEF SaveEvent, GotoStep, Knows
    <3> HIDE DEF e
    <3>2. OneUnresolvedEvent'
      <4>1. Len(<<>>) = 0 /\ Len(Append(<<>>, e)) = 1
          OBVIOUS
      <4>2. Len(events') \in {0, 1}
          BY <3>1, <4>1, Zenon
      <4>3. \A n \in {0, 1} : n <= 1
          OBVIOUS
      <4>4. QED
          BY <4>2, <4>3, Zenon DEF OneUnresolvedEvent
    <3>3. QED
        BY <2>0, <3>1, <3>2 DEF Knows, world
  <2>8. CASE Store(t)
      BY <1>0, <2>8 DEF Store, GotoStep, Knows, world, OneUnresolvedEvent
  <2>9. QED
      BY <1>2, <2>1, <2>2, <2>3, <2>4, <2>5, <2>6, <2>7, <2>8 DEF Evaluate
<1>3. CASE ResetBreaker
  <2>1. PICK e \in EventRows : cur' = [cur EXCEPT ![Api] = e]
      BY <1>3 DEF ResetBreaker
  <2>2. \A t \in Evaluators : cur'[t] = cur[t]
      BY <1>0, <2>1, CircuitBreakerAssumption
  <2>3. QED
      BY <1>3, <1>t, <2>2 DEF ResetBreaker, LoneInv, OneUnresolvedEvent, Knows
<1>4. CASE ResetResolves
  <2>1. /\ OneUnresolvedEvent'
        /\ events' # <<>> => events # <<>> /\ events'[1] = events[1]
      BY <1>0, <1>4, OneResolved DEF ResetResolves
  <2>2. \A t \in Evaluators : cur'[t] = cur[t]
      BY <1>0, <1>4, CircuitBreakerAssumption DEF ResetResolves
  <2>3. UNCHANGED <<clock, step, reading>>
      BY <1>4 DEF ResetResolves, world
  <2>4. \A t \in Evaluators : Knows(t)'
      BY <2>1, <2>2, <2>3 DEF LoneInv, Knows
  <2>5. QED
      BY <1>t, <2>1, <2>4 DEF LoneInv
<1>5. CASE Invalidate
  BY <1>5, <1>t DEF Invalidate, LoneInv, OneUnresolvedEvent, Knows, world
<1>6. ASSUME NEW m \in Modes, UpdateSettings(m)
      PROVE  LoneInv'
  BY <1>6, <1>t DEF UpdateSettings, LoneInv, OneUnresolvedEvent, Knows
<1>7. ASSUME NEW b \in BOOLEAN, CloseTrade(b) \/ RecordDecision(b)
      PROVE  LoneInv'
  BY <1>7, <1>t DEF CloseTrade, RecordDecision, LoneInv, OneUnresolvedEvent, Knows
<1>8. CASE ClockTick
  <2>1. \A t \in Evaluators : reading[t].time \in 0..ClockEnd
      BY <1>0 DEF Readings
  <2>2. QED
      BY <1>0, <1>8, <1>t, <2>1 DEF ClockTick, LoneInv, OneUnresolvedEvent, Knows
<1>9. QED
  BY <1>1, <1>2, <1>3, <1>4, <1>5, <1>6, <1>7, <1>8 DEF BreakerNext

(* What one thread evaluates leaves at most one event unresolved, however  *)
(* its steps and those of the operator's resets interleave.                *)
THEOREM OneEventAtATime ==
    ASSUME \A t, u \in Evaluators : t = u
    PROVE  BreakerSpec => []OneUnresolvedEvent
<1>1. LoneInv /\ [BreakerNext]_breaker_vars => LoneInv'
  BY LoneStep
<1>2. LoneInv => OneUnresolvedEvent
  BY DEF LoneInv
<1>3. QED
  BY <1>1, <1>2, LoneStarts, PTL DEF BreakerSpec

(* The step that ends a cooldown is a reset, or resolves for a manual mode.*)
LEMMA CooldownEnds ==
    ASSUME \A t, u \in Evaluators : t = u, LoneInv, [BreakerNext]_breaker_vars,
           Cooling(events, clock), ~Cooling(events', clock)
    PROVE  ByReset \/ ByForce
<1>0. /\ clock \in 1..ClockEnd /\ events \in Seq(Stored) /\ Len(events) <= 1
      /\ reading \in [Evaluators -> Readings] /\ BreakerTypeOK
      /\ DOMAIN events = 1..Len(events) /\ Len(events) \in Nat
  BY DEF LoneInv, OneUnresolvedEvent, BreakerTypeOK, Readings
<1>1. events' # events
  OBVIOUS
<1>2. /\ events # <<>> /\ events[1].status = "OPEN" /\ events[1].until > clock
  BY <1>0 DEF Cooling
<1>3. CASE ResetResolves
  BY <1>3 DEF ByReset, ResetResolves
<1>4. ASSUME NEW t \in Evaluators, ResolveCurrent(t)
      PROVE  ByForce
  <2>1. Knows(t) /\ reading[t] \in Readings /\ step[t] = "resolve"
      BY <1>0, <1>4 DEF LoneInv, ResolveCurrent
  <2>2. reading[t].active = events[1] /\ events[1].status # reading[t].status
      BY <1>2, <2>1 DEF Knows
  <2>3. /\ reading[t].time \in 0..ClockEnd /\ reading[t].time <= clock
        /\ events[1].until \in 0..(ClockEnd + Cooldown)
      BY <1>0, <2>1, <2>2 DEF Readings, Stored, Knows
  <2>4. events[1].until > reading[t].time
      BY <1>0, <1>2, <2>3, BreakerNumbers
  <2>5. reading[t].mode # "AUTO"
      BY <1>2, <2>1, <2>2, <2>4 DEF Knows, Trips
  <2>6. QED
      BY <1>4, <2>5 DEF ByForce
<1>5. ASSUME NEW t \in Evaluators, SaveEvent(t)
      PROVE  FALSE
  <2>1. events = <<>>
      BY <1>5 DEF SaveEvent, LoneInv, Knows
  <2>2. QED
      BY <1>2, <2>1
<1>6. CASE UNCHANGED events
  BY <1>1, <1>6
<1>7. \/ UNCHANGED events \/ ResetResolves
      \/ \E t \in Evaluators : ResolveCurrent(t) \/ SaveEvent(t)
  BY DEF BreakerNext, breaker_vars, Evaluate, BeginEvaluation, ReadSettings, ReadEvent,
         Decide, ReadCurrent, Store, ResetBreaker, Invalidate, UpdateSettings, CloseTrade,
         RecordDecision, ClockTick
<1>8. QED
  BY <1>3, <1>4, <1>5, <1>6, <1>7

(* As long as one thread evaluates, a trip that is cooling down is ended   *)
(* only by a reset or a manual mode.                                       *)
THEOREM CooldownHolds ==
    ASSUME \A t, u \in Evaluators : t = u
    PROVE  BreakerSpec => CooldownIsServed
<1>1. LoneInv /\ [BreakerNext]_breaker_vars => LoneInv'
  BY LoneStep
<1>2. LoneInv /\ [BreakerNext]_breaker_vars =>
         [Cooling(events, clock) /\ ~Cooling(events', clock)
            => ByReset \/ ByForce]_breaker_vars
  BY CooldownEnds
<1>3. QED
  BY <1>1, <1>2, LoneStarts, PTL DEF BreakerSpec, CooldownIsServed

-----------------------------------------------------------------------------
(* SafetyGates.                                                            *)

GatePlaces == {"idle", "kill", "describe", "clear", "compare", "raise", "compute", "assign",
               "blocked", "refused", "limits", "adapter"}
Checks == [profile : Profiles \cup {"none"}, equity : Levels, notional : Notionals \cup {0},
           refuse : BOOLEAN, dd : States, sure : BOOLEAN, top : Levels]
Switches == [active : BOOLEAN, resumeAt : 0..(Horizon + ResumeAfter + 1)]

(* The settings are numbers, and so is every equity.                       *)
LEMMA GateNumbers ==
    /\ BlockAt \in 1..1000 /\ Hysteresis \in 0..1000 /\ ResumeAfter \in Nat
    /\ MaxPositions \in Nat /\ MaxNotional \in Nat /\ Horizon \in Nat \ {0}
    /\ MaxHeld \in Nat /\ MaxManual \in Nat /\ Levels \subseteq Nat /\ 0 \in Levels
<1>1. Levels \subseteq Nat /\ 0 \in Levels
  <2>1. ASSUME NEW e \in UNION {Equities[p] : p \in Profiles}
        PROVE  e \in Nat
    <3>1. PICK p \in Profiles : e \in Equities[p]
        OBVIOUS
    <3>2. Equities[p] \subseteq Nat
        BY SafetyAssumption
    <3>3. QED
        BY <3>1, <3>2
  <2> DEFINE U == UNION {Equities[p] : p \in Profiles}
  <2>2. Levels = {0} \cup U
      BY DEF Levels
  <2>3. \A e \in U : e \in Nat
      BY <2>1
  <2> HIDE DEF U
  <2>4. QED
      BY <2>2, <2>3
<1>2. QED
  BY <1>1, SafetyAssumption

(* A quotient is at most its factor.                                       *)
LEMMA QuotientBound ==
    ASSUME NEW a \in Nat, NEW b \in Nat \ {0}, a <= 1000 * b
    PROVE  (a \div b) \in 0..1000
OBVIOUS

(* A drawdown is at most the whole, and there is none at or above the peak.*)
LEMMA DrawdownBounds ==
    ASSUME NEW p \in Nat, NEW e \in Nat
    PROVE  Drawdown(p, e) \in 0..1000 /\ (e >= p => Drawdown(p, e) = 0)
<1>1. CASE p > e
  <2>1. (p - e) * 1000 \in Nat /\ (p - e) * 1000 <= 1000 * p /\ p \in Nat \ {0}
      BY <1>1
  <2>2. ((p - e) * 1000) \div p \in 0..1000
      BY <2>1, QuotientBound
  <2>3. QED
      BY <1>1, <2>2 DEF Drawdown
<1>2. CASE ~(p > e)
  BY <1>2 DEF Drawdown
<1>3. QED
  BY <1>1, <1>2

(* No halt, no drawdown and nothing checked are of their types.            *)
LEMMA GatesEmpty == Off \in Switches /\ Calm \in States /\ NoCheck \in Checks
<1>1. 0 \in 0..(Horizon + ResumeAfter + 1) /\ 0 \in 0..1000 /\ 0 \in Levels
  BY GateNumbers
<1>2. Off \in Switches
  BY <1>1 DEF Off, Switches
<1>3. Calm \in States
  BY <1>1 DEF Calm, States
<1>4. NoCheck \in Checks
  BY <1>1, <1>3 DEF NoCheck, Checks
<1>5. QED
  BY <1>2, <1>3, <1>4

(* The larger of two levels is one of them.                                *)
LEMMA LargerIs ==
    ASSUME NEW a \in Nat, NEW b \in Nat
    PROVE  Larger(a, b) \in {a, b} /\ Larger(a, b) >= a /\ Larger(a, b) >= b
BY DEF Larger

(* The next state of the drawdown gate is a state.                         *)
LEMMA NextStateIs ==
    ASSUME NEW s \in States, NEW e \in Levels
    PROVE  NextState(s, e) \in States
<1>1. s.peak \in Nat /\ e \in Nat
  BY GateNumbers, ZenonT(30) DEF States
<1>2. Drawdown(s.peak, e) \in 0..1000
  BY <1>1, DrawdownBounds, ZenonT(30)
<1>3. QED
  BY <1>2 DEF NextState, States

(* The gates begin open.                                                   *)
LEMMA GatesTypeStarts == GatesInit => GatesTypeOK
<1> SUFFICES ASSUME GatesInit PROVE GatesTypeOK
    OBVIOUS
<1>1. /\ now \in 1..Horizon /\ manual \in 0..MaxManual /\ haltEnd \in 0..Forever
      /\ highest \in Levels
  BY GateNumbers DEF GatesInit, Forever
<1>2. kill \in Switches /\ dd \in States /\ check \in [Traders -> Checks]
  BY GatesEmpty DEF GatesInit
<1>3. at \in [Traders -> GatePlaces] /\ \A t \in Traders : at[t] = "idle"
  BY DEF GatesInit, GatePlaces
<1>4. positions \in Seq(Notionals) /\ Len(positions) <= MaxHeld
  BY GateNumbers DEF GatesInit
<1>5. ownPeak \in [Profiles -> Levels] /\ hurt \subseteq Profiles
  BY GateNumbers DEF GatesInit
<1>6. QED
  BY <1>1, <1>2, <1>3, <1>4, <1>5
  DEF GatesTypeOK, GatePlaces, Checks, Switches

(* A list that loses an element is shorter.                                *)
LEMMA RemovedIs ==
    ASSUME NEW S, NEW s \in Seq(S), NEW i \in DOMAIN s
    PROVE  RemoveAt(s, i) \in Seq(S) /\ Len(RemoveAt(s, i)) = Len(s) - 1
<1>1. i \in 1..Len(s) /\ Len(s) \in Nat
  OBVIOUS
<1> DEFINE a == SubSeq(s, 1, i - 1)
           q == SubSeq(s, i + 1, Len(s))
<1>2. a \in Seq(S) /\ Len(a) = i - 1
  BY <1>1
<1>3. q \in Seq(S) /\ Len(q) = Len(s) - i
  BY <1>1
<1>4. RemoveAt(s, i) = a \o q
  BY DEF RemoveAt
<1> HIDE DEF a, q
<1>5. a \o q \in Seq(S) /\ Len(a \o q) = Len(a) + Len(q)
  BY <1>2, <1>3, ConcatProperties
<1>6. QED
  BY <1>1, <1>2, <1>3, <1>4, <1>5

(* What is read of a check may change without touching the order.          *)
LEMMA CheckChanges ==
    ASSUME NEW c \in Checks
    PROVE  /\ [c EXCEPT !.refuse = TRUE] \in Checks /\ [c EXCEPT !.sure = FALSE] \in Checks
           /\ \A s \in States : [c EXCEPT !.dd = s] \in Checks
<1>1. [c EXCEPT !.refuse = TRUE] \in Checks
  BY DEF Checks
<1>2. [c EXCEPT !.sure = FALSE] \in Checks
  BY DEF Checks
<1>3. \A s \in States : [c EXCEPT !.dd = s] \in Checks
  BY DEF Checks
<1>4. QED
  BY <1>1, <1>2, <1>3

(* The type of the shared state and of the threads, in one place.          *)
LEMMA GateTypes ==
    ASSUME GatesTypeOK
    PROVE  /\ now \in 1..Horizon /\ manual \in 0..MaxManual /\ kill \in Switches
           /\ dd \in States /\ at \in [Traders -> GatePlaces]
           /\ check \in [Traders -> Checks]
           /\ \A t \in Traders : at[t] # "idle" =>
                 check[t].profile \in Profiles /\ check[t].notional \in Notionals
           /\ positions \in Seq(Notionals) /\ Len(positions) <= MaxHeld
           /\ haltEnd \in 0..Forever /\ highest \in Levels
           /\ ownPeak \in [Profiles -> Levels] /\ hurt \subseteq Profiles
           /\ \A t \in Traders :
                 /\ check[t].equity \in Nat /\ check[t].equity \in Levels
                 /\ check[t].top \in Nat
           /\ highest \in Nat /\ dd.peak \in Nat /\ dd.peak \in Levels
           /\ \A p \in Profiles : ownPeak[p] \in Nat
<1>1. /\ now \in 1..Horizon /\ manual \in 0..MaxManual /\ kill \in Switches
      /\ dd \in States /\ at \in [Traders -> GatePlaces]
      /\ check \in [Traders -> Checks]
      /\ \A t \in Traders : at[t] # "idle" =>
            check[t].profile \in Profiles /\ check[t].notional \in Notionals
      /\ positions \in Seq(Notionals) /\ Len(positions) <= MaxHeld
      /\ haltEnd \in 0..Forever /\ highest \in Levels
      /\ ownPeak \in [Profiles -> Levels] /\ hurt \subseteq Profiles
  BY DEF GatesTypeOK, Switches, GatePlaces, Checks
<1>2. dd.peak \in Levels /\ Levels \subseteq Nat
  BY <1>1, GateNumbers DEF States
<1>3. \A t \in Traders : check[t].equity \in Levels /\ check[t].top \in Levels
  BY <1>1 DEF Checks
<1>4. QED
  BY <1>1, <1>2, <1>3

(* What update_equity notes keeps the types.                               *)
LEMMA NoteType ==
    ASSUME GatesTypeOK, NEW t \in Traders, at[t] # "idle", Note(t)
    PROVE  highest' \in Levels /\ ownPeak' \in [Profiles -> Levels] /\ hurt' \subseteq Profiles
<1> DEFINE j == check[t]
           best == Larger(ownPeak[j.profile], j.equity)
<1>1. j.profile \in Profiles /\ j.equity \in Levels /\ j.equity \in Nat
  BY GateTypes
<1>2. ownPeak[j.profile] \in Levels /\ ownPeak[j.profile] \in Nat /\ highest \in Levels
      /\ highest \in Nat /\ ownPeak \in [Profiles -> Levels] /\ hurt \subseteq Profiles
  BY <1>1, GateTypes
<1>3. best \in Levels /\ Larger(highest, j.equity) \in Levels
  BY <1>1, <1>2, LargerIs
<1>4. highest' = Larger(highest, j.equity) /\ ownPeak' = [ownPeak EXCEPT ![j.profile] = best]
      /\ (hurt' = hurt \/ hurt' = hurt \cup {j.profile})
  BY DEF Note
<1> HIDE DEF j, best
<1>5. QED
  BY <1>1, <1>2, <1>3, <1>4

(* Each step keeps the types.                                              *)
LEMMA GatesTypeStep ==
    ASSUME GatesTypeOK, [GatesNext]_gates_vars
    PROVE  GatesTypeOK'
<1> USE GateNumbers
<1>0. /\ now \in 1..Horizon /\ manual \in 0..MaxManual /\ kill \in Switches
      /\ dd \in States /\ at \in [Traders -> GatePlaces]
      /\ check \in [Traders -> Checks]
      /\ \A t \in Traders : at[t] # "idle" =>
            check[t].profile \in Profiles /\ check[t].notional \in Notionals
      /\ positions \in Seq(Notionals) /\ Len(positions) <= MaxHeld
      /\ haltEnd \in 0..Forever /\ highest \in Levels
      /\ ownPeak \in [Profiles -> Levels] /\ hurt \subseteq Profiles
      /\ Off \in Switches /\ Calm \in States /\ NoCheck \in Checks
  BY GateTypes, GatesEmpty
<1>1. CASE UNCHANGED gates_vars
  BY <1>1 DEF gates_vars, GatesTypeOK
<1>2. ASSUME NEW t \in Traders, OpenOrder(t)
      PROVE  GatesTypeOK'
  <2>1. CASE ResolveTarget(t)
    <3>0. PICK p \in Profiles, n \in Notionals : \E e \in Equities[p] :
             check' = [check EXCEPT ![t] = [NoCheck EXCEPT !.profile = p, !.equity = e,
                                      !.notional = n, !.sure = Halted, !.top = highest]]
        BY <2>1, ZenonT(30) DEF ResolveTarget
    <3>1. PICK e \in Equities[p] :
             check' = [check EXCEPT ![t] = [NoCheck EXCEPT !.profile = p, !.equity = e,
                                      !.notional = n, !.sure = Halted, !.top = highest]]
        BY <3>0
    <3> DEFINE c == [NoCheck EXCEPT !.profile = p, !.equity = e,
                                    !.notional = n, !.sure = Halted, !.top = highest]
    <3>2. e \in Levels /\ Halted \in BOOLEAN
        BY <3>1 DEF Levels, Halted
    <3>3. c \in Checks /\ c.profile = p /\ c.notional = n
      <4>1. NoCheck \in Checks /\ highest \in Levels
          BY <1>0
      <4>2. QED
          BY <3>2, <4>1 DEF Checks, NoCheck
    <3> HIDE DEF c
    <3>4. check' = [check EXCEPT ![t] = c]
        BY <3>1 DEF c
    <3>5. /\ at' = [at EXCEPT ![t] = "kill"]
          /\ UNCHANGED <<now, kill, dd, positions, manual, haltEnd, highest, ownPeak, hurt>>
        BY <2>1 DEF ResolveTarget, GotoGate
    <3>6. check' \in [Traders -> Checks] /\ at' \in [Traders -> GatePlaces]
        BY <1>0, <3>3, <3>4, <3>5 DEF GatePlaces
    <3>7. \A u \in Traders : at'[u] # "idle" =>
             check'[u].profile \in Profiles /\ check'[u].notional \in Notionals
        BY <1>0, <3>3, <3>4, <3>5
    <3>8. QED
        BY <1>0, <3>5, <3>6, <3>7 DEF GatesTypeOK, Switches, GatePlaces, Checks
  <2>2. CASE \/ IsActive(t) \/ Compare(t) \/ Blocked(t) \/ Refused(t) \/ Limits(t)
    <3>1. PICK place \in GatePlaces : at' = [at EXCEPT ![t] = place]
        BY <2>2 DEF IsActive, Compare, Blocked, Refused, Limits, GotoGate, GatePlaces
    <3>2. /\ at[t] # "idle"
          /\ UNCHANGED <<now, kill, dd, check, positions, manual, haltEnd, highest, ownPeak,
                         hurt>>
        BY <2>2 DEF IsActive, Compare, Blocked, Refused, Limits
    <3>3. /\ at' \in [Traders -> GatePlaces]
          /\ \A u \in Traders : at'[u] # "idle" => at[u] # "idle"
        BY <1>0, <3>1, <3>2
    <3>4. QED
        BY <1>0, <3>2, <3>3 DEF GatesTypeOK, Switches, GatePlaces, Checks
  <2>3. CASE Describe(t) \/ Clear(t)
    <3>1. PICK place \in GatePlaces : at' = [at EXCEPT ![t] = place]
        BY <2>3 DEF Describe, Clear, GotoGate, GatePlaces
    <3>2. /\ at[t] # "idle" /\ kill' \in Switches
          /\ (\/ check' = check
              \/ check' = [check EXCEPT ![t] = [check[t] EXCEPT !.refuse = TRUE]])
          /\ UNCHANGED <<now, dd, positions, manual, haltEnd, highest, ownPeak, hurt>>
        BY <1>0, <2>3 DEF Describe, Clear
    <3>3. [check[t] EXCEPT !.refuse = TRUE] \in Checks
        BY <1>0, CheckChanges, ZenonT(30)
    <3>4. /\ check' \in [Traders -> Checks]
          /\ \A u \in Traders : /\ check'[u].profile = check[u].profile
                                /\ check'[u].notional = check[u].notional
      <4>1. CASE check' = check
          BY <1>0, <4>1
      <4>2. CASE check' = [check EXCEPT ![t] = [check[t] EXCEPT !.refuse = TRUE]]
          BY <1>0, <3>3, <4>2, SMTT(30) DEF Checks
      <4>3. QED
          BY <3>2, <4>1, <4>2
    <3>5. /\ at' \in [Traders -> GatePlaces]
          /\ \A u \in Traders : at'[u] # "idle" => at[u] # "idle"
        BY <1>0, <3>1, <3>2
    <3>6. QED
        BY <1>0, <3>2, <3>4, <3>5, SMTT(30) DEF GatesTypeOK, Switches, GatePlaces, Checks
  <2>4. CASE Compute(t)
    <3> DEFINE s == NextState(dd, check[t].equity)
    <3>0. dd \in States /\ check[t] \in Checks /\ check[t].equity \in Levels
      <4>1. dd \in States /\ check[t] \in Checks
          BY <1>0
      <4>2. QED
          BY <4>1 DEF Checks
    <3>1. s \in States
        BY <3>0, NextStateIs
    <3>2. check' = [check EXCEPT ![t].dd = s]
        BY <2>4 DEF Compute
    <3> HIDE DEF s
    <3>3. [check[t] EXCEPT !.dd = s] \in Checks
        BY <3>0, <3>1, CheckChanges
    <3>4. /\ check' \in [Traders -> Checks]
          /\ \A u \in Traders : /\ check'[u].profile = check[u].profile
                                /\ check'[u].notional = check[u].notional
        BY <1>0, <3>2, <3>3, SMTT(30) DEF Checks
    <3>5. /\ at[t] # "idle" /\ at' = [at EXCEPT ![t] = "assign"]
          /\ UNCHANGED <<now, kill, dd, positions, manual, haltEnd, highest, ownPeak, hurt>>
        BY <2>4 DEF Compute, GotoGate
    <3>6. /\ at' \in [Traders -> GatePlaces]
          /\ \A u \in Traders : at'[u] # "idle" => at[u] # "idle"
        BY <1>0, <3>5 DEF GatePlaces
    <3>7. QED
        BY <1>0, <3>4, <3>5, <3>6 DEF GatesTypeOK, Switches, GatePlaces, Checks
  <2>5. CASE Raise(t) \/ Assign(t)
    <3>1. /\ at[t] # "idle" /\ at' = [at EXCEPT ![t] = "blocked"] /\ Note(t)
          /\ UNCHANGED <<now, kill, check, positions, manual, haltEnd>>
        BY <2>5 DEF Raise, Assign, GotoGate
    <3>2. dd' \in States
      <4>1. CASE Raise(t)
        <5>1. dd' = [Calm EXCEPT !.peak = check[t].equity] /\ check[t].equity \in Levels
            BY <1>0, <4>1 DEF Raise, Checks
        <5>2. Calm \in States
            BY <1>0
        <5>3. QED
            BY <5>1, <5>2 DEF States
      <4>2. CASE Assign(t)
        <5>1. /\ check[t].dd \in States /\ check[t].dd.peak \in Levels /\ dd.peak \in Levels
            BY <1>0 DEF Checks, States
        <5>2. PICK peak \in {check[t].dd.peak, dd.peak} :
                 dd' = IF peak = check[t].dd.peak THEN check[t].dd
                       ELSE [check[t].dd EXCEPT !.peak = peak]
            BY <4>2 DEF Assign
        <5>3. QED
            BY <5>1, <5>2 DEF States
      <4>3. QED
          BY <2>5, <4>1, <4>2
    <3>3. /\ at' \in [Traders -> GatePlaces]
          /\ \A u \in Traders : at'[u] # "idle" => at[u] # "idle"
        BY <1>0, <3>1 DEF GatePlaces
    <3>4. highest' \in Levels /\ ownPeak' \in [Profiles -> Levels] /\ hurt' \subseteq Profiles
        BY <3>1, NoteType
    <3>5. QED
        BY <1>0, <3>1, <3>2, <3>3, <3>4 DEF GatesTypeOK, Switches, GatePlaces, Checks
  <2>6. CASE Adapter(t)
    <3>1. /\ positions' = Append(positions, check[t].notional) /\ Len(positions) < MaxHeld
          /\ at' = [at EXCEPT ![t] = "idle"]
          /\ UNCHANGED <<now, kill, dd, check, manual, haltEnd, highest, ownPeak, hurt>>
        BY <2>6 DEF Adapter, GotoGate
    <3>2. /\ at' \in [Traders -> GatePlaces]
          /\ \A u \in Traders : at'[u] # "idle" => at[u] # "idle"
        BY <1>0, <3>1 DEF GatePlaces
    <3>3. check[t].notional \in Notionals
        BY <1>0, <2>6 DEF Adapter
    <3>4. QED
        BY <1>0, <3>1, <3>2, <3>3 DEF GatesTypeOK, Switches, GatePlaces, Checks
  <2>7. QED
      BY <1>2, <2>1, <2>2, <2>3, <2>4, <2>5, <2>6 DEF OpenOrder
<1>3. ASSUME NEW n \in Notionals, CreateManualOrder(n)
      PROVE  GatesTypeOK'
  BY <1>0, <1>3 DEF CreateManualOrder, GatesTypeOK, Switches, GatePlaces, Checks
<1>4. CASE ClosePosition
  <2>1. PICK i \in DOMAIN positions : positions' = RemoveAt(positions, i)
      BY <1>4 DEF ClosePosition
  <2>2. positions' \in Seq(Notionals) /\ Len(positions') <= MaxHeld
      BY <1>0, <2>1, RemovedIs
  <2>3. QED
      BY <1>0, <1>4, <2>2 DEF ClosePosition, GatesTypeOK, Switches, GatePlaces, Checks
<1>5. ASSUME Relieve
      PROVE  /\ check' \in [Traders -> Checks]
             /\ \A u \in Traders : /\ check'[u].profile = check[u].profile
                                   /\ check'[u].notional = check[u].notional
  <2>1. \A t \in Traders : [check[t] EXCEPT !.sure = FALSE] \in Checks
      BY <1>0, CheckChanges, ZenonT(30)
  <2>2. \A t \in Traders : check'[t] = [check[t] EXCEPT !.sure = FALSE]
      BY <1>5 DEF Relieve
  <2>3. check' \in [Traders -> Checks]
      BY <1>5, <2>1 DEF Relieve
  <2>4. QED
      BY <1>0, <2>2, <2>3, SMTT(30) DEF Checks
<1>6. CASE Trigger
  <2>1. kill' \in Switches /\ haltEnd' \in 0..Forever
      BY <1>0, <1>6 DEF Trigger, Switches, Forever
  <2>2. QED
      BY <1>0, <1>6, <2>1 DEF Trigger, GatesTypeOK, Switches, GatePlaces, Checks
<1>7. CASE Release
  <2>1. /\ check' \in [Traders -> Checks] /\ kill' \in Switches /\ haltEnd' \in 0..Forever
        /\ \A u \in Traders : /\ check'[u].profile = check[u].profile
                              /\ check'[u].notional = check[u].notional
      BY <1>0, <1>5, <1>7 DEF Release, Forever
  <2>2. QED
      BY <1>0, <1>7, <2>1 DEF Release, GatesTypeOK, Switches, GatePlaces, Checks
<1>8. CASE Tick
  <2>1. /\ check' \in [Traders -> Checks] /\ now' \in 1..Horizon
        /\ \A u \in Traders : /\ check'[u].profile = check[u].profile
                              /\ check'[u].notional = check[u].notional
      BY <1>0, <1>5, <1>8 DEF Tick
  <2>2. QED
      BY <1>0, <1>8, <2>1 DEF Tick, GatesTypeOK, Switches, GatePlaces, Checks
<1>9. QED
  BY <1>1, <1>2, <1>3, <1>4, <1>6, <1>7, <1>8 DEF GatesNext, CheckAutoConditions

\* While the switch is on for the halt, nobody clears it, and it is not over.
SwitchIsOn ==
    Halted => /\ kill.active /\ (kill.resumeAt = 0 \/ kill.resumeAt = haltEnd)
              /\ \A t \in Traders : at[t] # "clear"

\* A call that has to refuse is stopped at the switch.
SureIsStopped(t) == check[t].sure => Halted /\ at[t] \in {"idle", "kill", "describe"}

HaltInv == GatesTypeOK /\ SwitchIsOn /\ \A t \in Traders : SureIsStopped(t)

(* Nothing is halted when the gates begin.                                 *)
LEMMA HaltStarts == GatesInit => HaltInv
<1> SUFFICES ASSUME GatesInit PROVE HaltInv
    OBVIOUS
<1>1. GatesTypeOK
  BY GatesTypeStarts
<1>2. SwitchIsOn /\ \A t \in Traders : SureIsStopped(t)
  BY DEF GatesInit, SwitchIsOn, SureIsStopped, Halted, NoCheck
<1>3. QED
  BY <1>1, <1>2 DEF HaltInv

(* Each step keeps the calls that began in a halt away from the adapter.   *)
LEMMA HaltStep ==
    ASSUME HaltInv, [GatesNext]_gates_vars
    PROVE  HaltInv'
<1> USE GateNumbers
<1>0. /\ now \in 1..Horizon /\ kill \in Switches /\ at \in [Traders -> GatePlaces]
      /\ check \in [Traders -> Checks] /\ haltEnd \in Nat /\ kill.resumeAt \in Nat
      /\ SwitchIsOn /\ \A t \in Traders : SureIsStopped(t)
  <2>1. GatesTypeOK
      BY DEF HaltInv
  <2>2. haltEnd \in 0..Forever /\ kill \in Switches
      BY <2>1, GateTypes
  <2>3. QED
      BY <2>1, <2>2, GateTypes DEF HaltInv, Switches, Forever
<1>t. GatesTypeOK'
  BY GatesTypeStep DEF HaltInv
<1>1. CASE UNCHANGED gates_vars
  BY <1>0, <1>1, <1>t DEF gates_vars, HaltInv, SwitchIsOn, SureIsStopped, Halted
<1>2. ASSUME NEW t \in Traders, OpenOrder(t)
      PROVE  HaltInv'
  <2> SUFFICES SwitchIsOn' /\ \A u \in Traders : SureIsStopped(u)'
      BY <1>t DEF HaltInv
  <2>0. UNCHANGED <<now, haltEnd>>
      BY <1>2 DEF OpenOrder, ResolveTarget, IsActive, Describe, Clear, Compare, Raise,
                  Compute, Assign, Blocked, Refused, Limits, Adapter
  <2>1. Halted' = Halted
      BY <2>0 DEF Halted
  <2>2. CASE Clear(t)
    <3>1. ~Halted
        BY <1>0, <2>2 DEF Clear, SwitchIsOn
    <3>2. check' = check
        BY <2>2 DEF Clear
    <3>3. QED
        BY <1>0, <2>1, <3>1, <3>2 DEF SwitchIsOn, SureIsStopped
  <2>3. CASE ~Clear(t)
    <3>1. kill' = kill
        BY <1>2, <2>3 DEF OpenOrder, ResolveTarget, IsActive, Describe, Compare, Raise,
                          Compute, Assign, Blocked, Refused, Limits, Adapter
    <3>2. PICK place \in GatePlaces : at' = [at EXCEPT ![t] = place]
        BY <1>2, <2>3 DEF OpenOrder, ResolveTarget, IsActive, Describe, Compare, Raise,
                          Compute, Assign, Blocked, Refused, Limits, Adapter, GotoGate,
                          GatePlaces
    <3>3. Halted => place # "clear"
      <4>1. Halted /\ kill.active => ~Expired(kill)
          BY <1>0 DEF SwitchIsOn, Halted, Expired
      <4>2. Halted => kill.active
          BY <1>0 DEF SwitchIsOn
      <4>3. at'[t] = "clear" => IsActive(t) \/ Describe(t)
        <5>1. ASSUME \/ ResolveTarget(t) \/ Raise(t) \/ Compute(t) \/ Assign(t)
                     \/ Refused(t) \/ Adapter(t)
              PROVE  at'[t] # "clear"
          <6>1. PICK p \in {"kill", "blocked", "assign", "idle"} : at' = [at EXCEPT ![t] = p]
              BY <5>1 DEF ResolveTarget, Raise, Compute, Assign, Refused, Adapter, GotoGate
          <6>2. QED
              BY <1>0, <6>1
        <5>2. ASSUME Compare(t) \/ Blocked(t) \/ Limits(t)
              PROVE  at'[t] # "clear"
            BY <1>0, <5>2 DEF Compare, Blocked, Limits, GotoGate
        <5>3. QED
            BY <1>2, <2>3, <5>1, <5>2 DEF OpenOrder
      <4>4. Halted => ~(at'[t] = "clear")
          BY <1>0, <4>1, <4>2, <4>3 DEF IsActive, Describe, GotoGate
      <4>5. QED
          BY <1>0, <3>2, <4>4
    <3>4. SwitchIsOn'
        BY <1>0, <2>0, <2>1, <3>1, <3>2, <3>3 DEF SwitchIsOn
    <3>5. ASSUME NEW u \in Traders, check'[u].sure
          PROVE  Halted /\ at'[u] \in {"idle", "kill", "describe"}
      <4>1. CASE u # t
        <5>1. at'[u] = at[u]
            BY <1>0, <3>2, <4>1
        <5>2. check'[u] = check[u]
          <6>1. CASE ResolveTarget(t)
              BY <1>0, <4>1, <6>1 DEF ResolveTarget
          <6>2. CASE Describe(t) \/ Compute(t)
              BY <1>0, <4>1, <6>2 DEF Describe, Compute
          <6>3. CASE ~(ResolveTarget(t) \/ Describe(t) \/ Compute(t))
              BY <1>2, <2>3, <6>3 DEF OpenOrder, IsActive, Compare, Raise,
                                      Assign, Blocked, Refused, Limits, Adapter
          <6>4. QED
              BY <6>1, <6>2, <6>3
        <5>3. QED
            BY <1>0, <3>5, <5>1, <5>2 DEF SureIsStopped
      <4>2. CASE u = t /\ ResolveTarget(t)
        <5>1. check'[t].sure = Halted
            BY <1>0, <4>2 DEF ResolveTarget, NoCheck
        <5>2. at'[t] = "kill"
            BY <1>0, <4>2 DEF ResolveTarget, GotoGate
        <5>3. QED
            BY <3>5, <4>2, <5>1, <5>2
      <4>3. CASE u = t /\ ~ResolveTarget(t)
        <5>1. check'[t].sure = check[t].sure /\ at[t] # "idle"
            BY <1>0, <1>2, <2>3, <4>3
            DEF OpenOrder, IsActive, Describe, Compare, Raise,
                Compute, Assign, Blocked, Refused, Limits, Adapter, Checks
        <5>2. Halted /\ at[t] \in {"kill", "describe"}
            BY <1>0, <3>5, <4>3, <5>1 DEF SureIsStopped
        <5>3. kill.active /\ ~Expired(kill)
            BY <1>0, <5>2 DEF SwitchIsOn, Halted, Expired
        <5>4. IsActive(t) \/ Describe(t)
            BY <1>2, <2>3, <4>3, <5>2 DEF OpenOrder, Compare, Raise,
                Compute, Assign, Blocked, Refused, Limits, Adapter
        <5>5. at'[t] \in {"idle", "describe"}
            BY <1>0, <5>3, <5>4 DEF IsActive, Describe, GotoGate
        <5>6. QED
            BY <4>3, <5>2, <5>5
      <4>4. QED
          BY <4>1, <4>2, <4>3
    <3>6. QED
        BY <2>1, <3>4, <3>5 DEF SureIsStopped
  <2>4. QED
      BY <2>2, <2>3
<1>3. ASSUME NEW n \in Notionals, CreateManualOrder(n)
      PROVE  HaltInv'
  BY <1>0, <1>3, <1>t DEF CreateManualOrder, HaltInv, SwitchIsOn, SureIsStopped, Halted
<1>4. CASE ClosePosition
  BY <1>0, <1>4, <1>t DEF ClosePosition, HaltInv, SwitchIsOn, SureIsStopped, Halted
<1>5. CASE Trigger
  <2>1. /\ kill'.active /\ UNCHANGED <<now, at, check>>
        /\ kill'.resumeAt = IF ResumeAfter > 0 THEN now + ResumeAfter ELSE 0
        /\ haltEnd' = IF \E t \in Traders : at[t] = "clear" THEN 0
                      ELSE IF ResumeAfter > 0 THEN now + ResumeAfter ELSE Forever
      BY <1>5 DEF Trigger
  <2>2. CASE \E t \in Traders : at[t] = "clear"
    <3>1. ~Halted /\ ~Halted'
        BY <1>0, <2>1, <2>2 DEF SwitchIsOn, Halted
    <3>2. QED
        BY <1>0, <1>t, <2>1, <3>1 DEF HaltInv, SwitchIsOn, SureIsStopped
  <2>3. CASE ~ \E t \in Traders : at[t] = "clear"
    <3>1. Halted' /\ (kill'.resumeAt = 0 \/ kill'.resumeAt = haltEnd')
        BY <1>0, <2>1, <2>3 DEF Halted, Forever
    <3>2. QED
        BY <1>0, <1>t, <2>1, <2>3, <3>1 DEF HaltInv, SwitchIsOn, SureIsStopped
  <2>4. QED
      BY <2>2, <2>3
<1>6. ASSUME Relieve, NEW u \in Traders
      PROVE  ~check'[u].sure
  BY <1>0, <1>6 DEF Relieve, Checks
<1>7. CASE Release
  <2>1. ~Halted' /\ \A u \in Traders : ~check'[u].sure
      BY <1>0, <1>6, <1>7 DEF Release, Halted
  <2>2. QED
      BY <1>t, <2>1 DEF HaltInv, SwitchIsOn, SureIsStopped
<1>8. CASE Tick
  <2>1. now' = now + 1 /\ UNCHANGED <<kill, at, haltEnd>>
      BY <1>8 DEF Tick
  <2>2. CASE haltEnd = now + 1
    <3>1. ~Halted' /\ \A u \in Traders : ~check'[u].sure
        BY <1>0, <1>6, <1>8, <2>1, <2>2 DEF Tick, Halted
    <3>2. QED
        BY <1>t, <3>1 DEF HaltInv, SwitchIsOn, SureIsStopped
  <2>3. CASE haltEnd # now + 1
    <3>1. Halted' = Halted /\ check' = check
        BY <1>0, <1>8, <2>1, <2>3 DEF Tick, Halted
    <3>2. QED
        BY <1>0, <1>t, <2>1, <3>1 DEF HaltInv, SwitchIsOn, SureIsStopped
  <2>4. QED
      BY <2>2, <2>3
<1>9. QED
  BY <1>1, <1>2, <1>3, <1>4, <1>5, <1>7, <1>8 DEF GatesNext, CheckAutoConditions

(* The types of the gates, and where a call stands during a halt.          *)
THEOREM HaltCorrect == GatesSpec => []HaltInv
<1>1. HaltInv /\ [GatesNext]_gates_vars => HaltInv'
  BY HaltStep
<1>2. QED
  BY <1>1, HaltStarts, PTL DEF GatesSpec

(* A step that adds a position, and is no manual order, is an order of a   *)
(* thread that passed the switch.                                          *)
LEMMA OrderOpens ==
    ASSUME HaltInv, [GatesNext]_gates_vars, Len(positions') > Len(positions),
           manual' = manual
    PROVE  \E t \in Traders : at[t] = "adapter" /\ at'[t] = "idle" /\ ~check[t].sure
<1>0. /\ positions \in Seq(Notionals) /\ manual \in 0..MaxManual
      /\ at \in [Traders -> GatePlaces] /\ \A t \in Traders : SureIsStopped(t)
      /\ Len(positions) \in Nat
  <2>1. positions \in Seq(Notionals)
      BY GateTypes DEF HaltInv
  <2>2. QED
      BY <2>1, GateTypes DEF HaltInv
<1>1. ASSUME NEW t \in Traders, Adapter(t)
      PROVE  at[t] = "adapter" /\ at'[t] = "idle" /\ ~check[t].sure
  <2>1. at[t] = "adapter" /\ at'[t] = "idle"
      BY <1>0, <1>1 DEF Adapter, GotoGate
  <2>2. QED
      BY <1>0, <2>1 DEF SureIsStopped
<1>2. ASSUME NEW n \in Notionals, CreateManualOrder(n)
      PROVE  FALSE
  BY <1>0, <1>2, GateNumbers DEF CreateManualOrder
<1>3. CASE ClosePosition
  <2>1. PICK i \in DOMAIN positions : positions' = RemoveAt(positions, i)
      BY <1>3 DEF ClosePosition
  <2>2. Len(positions') = Len(positions) - 1
      BY <1>0, <2>1, RemovedIs
  <2>3. QED
      BY <1>0, <2>2
<1>4. CASE UNCHANGED positions
  BY <1>0, <1>4
<1>5. \/ UNCHANGED positions \/ ClosePosition \/ \E t \in Traders : Adapter(t)
      \/ \E n \in Notionals : CreateManualOrder(n)
  BY DEF GatesNext, gates_vars, OpenOrder, ResolveTarget, IsActive, Describe, Clear, Compare,
         Raise, Compute, Assign, Blocked, Refused, Limits, Trigger, CheckAutoConditions,
         Release, Tick
<1>6. QED
  BY <1>1, <1>2, <1>3, <1>4, <1>5

(* During a halt no order but a manual one is opened by a call that began  *)
(* after the trigger, whatever the threads and the operator do.            *)
THEOREM HaltHolds == GatesSpec => NoOrderWhileHalted
<1>1. HaltInv /\ [GatesNext]_gates_vars =>
         [Len(positions') > Len(positions) /\ manual' = manual /\ Halted
            => \E t \in Traders : at[t] = "adapter" /\ at'[t] = "idle" /\ ~check[t].sure
         ]_gates_vars
  BY OrderOpens
<1>2. QED
  BY <1>1, HaltCorrect, PTL DEF GatesSpec, NoOrderWhileHalted

\* The peak is the highest equity seen, and the one check under way has not
\* changed it yet, or has judged its equity by it.
PeakIsHighest(t) ==
    /\ dd.peak = highest
    /\ at[t] \in {"kill", "describe", "clear", "compare", "raise", "compute", "assign"}
          => check[t].top = highest
    /\ at[t] = "raise" => check[t].equity > dd.peak
    /\ at[t] \in {"compute", "assign"} => check[t].equity <= dd.peak
    /\ at[t] = "assign" => check[t].dd = NextState(dd, check[t].equity)
    /\ (at[t] \in {"limits", "adapter"} \/ (at[t] = "blocked" /\ ~dd.blocked))
          => (check[t].equity > 0 => Drawdown(check[t].top, check[t].equity) < BlockAt)

\* With one account its best equity is the peak, and it was hurt when the gate
\* blocks.
BlockedIsHurt(t) ==
    /\ \A p \in Profiles : ownPeak[p] = dd.peak
    /\ dd.blocked => Profiles \subseteq hurt
    /\ at[t] = "refused" => check[t].profile \in hurt

PeakInv == GatesTypeOK /\ \A t \in Traders : PeakIsHighest(t)
AccountInv == PeakInv /\ \A t \in Traders : BlockedIsHurt(t)

(* The gates begin without a peak.                                         *)
LEMMA PeakStarts == GatesInit => AccountInv
<1> SUFFICES ASSUME GatesInit PROVE AccountInv
    OBVIOUS
<1>1. GatesTypeOK
  BY GatesTypeStarts
<1>2. \A t \in Traders : PeakIsHighest(t) /\ BlockedIsHurt(t)
  BY DEF GatesInit, PeakIsHighest, BlockedIsHurt, Calm
<1>3. QED
  BY <1>1, <1>2 DEF AccountInv, PeakInv

(* What is no step of a check leaves all of this alone.                    *)
LEMMA GatesRest ==
    ASSUME GatesTypeOK, [GatesNext]_gates_vars, ~ \E t \in Traders : OpenOrder(t)
    PROVE  /\ UNCHANGED <<dd, at, highest, ownPeak, hurt>>
           /\ \A t \in Traders : /\ check'[t].equity = check[t].equity
                                 /\ check'[t].top = check[t].top
                                 /\ check'[t].dd = check[t].dd
                                 /\ check'[t].profile = check[t].profile
<1>1. check \in [Traders -> Checks]
  BY GateTypes
<1>2. ASSUME Relieve, NEW t \in Traders
      PROVE  /\ check'[t].equity = check[t].equity /\ check'[t].top = check[t].top
             /\ check'[t].dd = check[t].dd /\ check'[t].profile = check[t].profile
  <2>1. check'[t] = [check[t] EXCEPT !.sure = FALSE] /\ check[t] \in Checks
      BY <1>1, <1>2 DEF Relieve
  <2>2. QED
      BY <2>1 DEF Checks
<1>3. CASE Release \/ Tick
  <2>1. UNCHANGED <<dd, at, highest, ownPeak, hurt>> /\ (Relieve \/ check' = check)
      BY <1>3 DEF Release, Tick
  <2>2. QED
      BY <1>2, <2>1
<1>4. CASE ~(Release \/ Tick)
  BY <1>4 DEF GatesNext, gates_vars, CreateManualOrder, ClosePosition, Trigger,
              CheckAutoConditions
<1>5. QED
  BY <1>3, <1>4

(* A check that judges an equity judges it by the peak.                    *)
LEMMA JudgedBy ==
    ASSUME NEW s \in States, NEW e \in Levels
    PROVE  /\ NextState(s, e).peak = s.peak
           /\ ~NextState(s, e).blocked => Drawdown(s.peak, e) < BlockAt
           /\ NextState(s, e).blocked => Drawdown(s.peak, e) >= BlockAt \/ s.blocked
<1>1. s.peak \in Nat /\ e \in Nat
  BY GateNumbers, ZenonT(30) DEF States
<1>2. Drawdown(s.peak, e) \in 0..1000
  BY <1>1, DrawdownBounds, ZenonT(30)
<1> DEFINE d == Drawdown(s.peak, e)
<1> HIDE DEF d
<1>3. d \in Nat /\ BlockAt \in Nat /\ s.blocked \in BOOLEAN
  BY <1>2, GateNumbers DEF d, States
<1>4. /\ NextState(s, e).peak = s.peak
      /\ NextState(s, e).blocked
            <=> d >= BlockAt \/ (s.blocked /\ d > s.drawdown - Hysteresis)
  BY DEF NextState, d
<1>5. /\ ~NextState(s, e).blocked => d < BlockAt
      /\ NextState(s, e).blocked => d >= BlockAt \/ s.blocked
  <2>1. d >= BlockAt \/ d < BlockAt
      BY <1>3
  <2>2. QED
      BY <1>4, <2>1, Zenon
<1>6. QED
  BY <1>4, <1>5 DEF d

(* With one check at a time each step judges by the highest equity.        *)
LEMMA PeakStep ==
    ASSUME \A t, u \in Traders : t = u, PeakInv, [GatesNext]_gates_vars
    PROVE  PeakInv'
<1>t. GatesTypeOK /\ GatesTypeOK'
  BY GatesTypeStep DEF PeakInv
<1>0. /\ at \in [Traders -> GatePlaces] /\ check \in [Traders -> Checks] /\ dd \in States
      /\ highest \in Nat /\ dd.peak \in Nat
      /\ \A t \in Traders : /\ check[t].equity \in Nat /\ check[t].equity \in Levels
                            /\ check[t].top \in Nat /\ PeakIsHighest(t)
  BY <1>t, GateTypes DEF PeakInv
<1>1. CASE ~ \E t \in Traders : OpenOrder(t)
  <2>1. /\ UNCHANGED <<dd, at, highest>>
        /\ \A t \in Traders : /\ check'[t].equity = check[t].equity
                              /\ check'[t].top = check[t].top
                              /\ check'[t].dd = check[t].dd
      BY <1>1, <1>t, GatesRest
  <2>2. \A t \in Traders : PeakIsHighest(t)'
      BY <1>0, <2>1 DEF PeakIsHighest
  <2>3. QED
      BY <1>t, <2>2 DEF PeakInv
<1>2. ASSUME NEW t \in Traders, OpenOrder(t)
      PROVE  PeakInv'
  <2> SUFFICES PeakIsHighest(t)'
      BY <1>t DEF PeakInv
  <2>0. PeakIsHighest(t)
      BY <1>0
  <2>1. CASE ResolveTarget(t)
    <3>1. /\ at'[t] = "kill" /\ check'[t].top = highest /\ UNCHANGED <<dd, highest>>
      <4>1. PICK p \in Profiles, n \in Notionals : \E e \in Equities[p] :
               check' = [check EXCEPT ![t] = [NoCheck EXCEPT !.profile = p, !.equity = e,
                                      !.notional = n, !.sure = Halted, !.top = highest]]
          BY <2>1 DEF ResolveTarget
      <4>2. check'[t].top = highest
          BY <1>0, <4>1 DEF NoCheck
      <4>3. QED
          BY <1>0, <2>1, <4>2 DEF ResolveTarget, GotoGate
    <3>2. QED
        BY <2>0, <3>1 DEF PeakIsHighest
  <2>2. CASE IsActive(t) \/ Clear(t)
    <3>1. /\ at[t] \in {"kill", "clear"} /\ at'[t] \in {"idle", "compare", "clear", "describe"}
          /\ UNCHANGED <<check, dd, highest>>
        BY <1>0, <2>2 DEF IsActive, Clear, GotoGate
    <3>2. QED
        BY <2>0, <3>1 DEF PeakIsHighest
  <2>3. CASE Describe(t)
    <3>1. /\ at[t] = "describe" /\ at'[t] \in {"idle", "clear"} /\ UNCHANGED <<dd, highest>>
          /\ check'[t].top = check[t].top
        BY <1>0, <2>3 DEF Describe, GotoGate, Checks
    <3>2. QED
        BY <2>0, <3>1 DEF PeakIsHighest
  <2>4. CASE Compare(t)
    <3>1. /\ at[t] = "compare" /\ UNCHANGED <<check, dd, highest>>
          /\ at'[t] = IF check[t].equity <= 0 THEN "blocked"
                      ELSE IF check[t].equity > dd.peak THEN "raise" ELSE "compute"
        BY <1>0, <2>4 DEF Compare, GotoGate
    <3>2. QED
        BY <1>0, <2>0, <3>1 DEF PeakIsHighest
  <2>5. CASE Raise(t)
    <3> DEFINE e == check[t].equity
    <3>1. /\ at[t] = "raise" /\ at'[t] = "blocked" /\ check' = check
          /\ dd' = [Calm EXCEPT !.peak = e] /\ highest' = Larger(highest, e)
        BY <1>0, <2>5 DEF Raise, GotoGate, Note
    <3>2. e > dd.peak /\ dd.peak = highest /\ check[t].top = highest
        BY <2>0, <3>1 DEF PeakIsHighest
    <3>3. dd'.peak = e /\ highest' = e
        BY <1>0, <3>1, <3>2 DEF Calm, Larger
    <3>4. Drawdown(check[t].top, e) = 0
        BY <1>0, <3>2, DrawdownBounds
    <3>5. 0 < BlockAt
        BY GateNumbers
    <3>6. QED
        BY <3>1, <3>3, <3>4, <3>5 DEF PeakIsHighest
  <2>6. CASE Compute(t)
    <3>1. /\ at[t] = "compute" /\ at'[t] = "assign" /\ UNCHANGED <<dd, highest>>
          /\ check' = [check EXCEPT ![t].dd = NextState(dd, check[t].equity)]
        BY <1>0, <2>6 DEF Compute, GotoGate
    <3>2. /\ check'[t].equity = check[t].equity /\ check'[t].top = check[t].top
          /\ check'[t].dd = NextState(dd, check[t].equity)
        BY <1>0, <3>1 DEF Checks
    <3>3. QED
        BY <2>0, <3>1, <3>2 DEF PeakIsHighest
  <2>7. CASE Assign(t)
    <3> DEFINE e == check[t].equity
               s == NextState(dd, e)
    <3>1. /\ at[t] = "assign" /\ at'[t] = "blocked" /\ check' = check
          /\ highest' = Larger(highest, e)
        BY <1>0, <2>7 DEF Assign, GotoGate, Note
    <3>2. check[t].dd = s /\ e <= dd.peak /\ dd.peak = highest /\ check[t].top = highest
        BY <2>0, <3>1 DEF PeakIsHighest
    <3>3. s.peak = dd.peak /\ (~s.blocked => Drawdown(dd.peak, e) < BlockAt)
        BY <1>0, JudgedBy
    <3>4. dd' = s
        BY <2>7, <3>2, <3>3 DEF Assign
    <3>5. highest' = highest
        BY <1>0, <3>1, <3>2 DEF Larger
    <3> HIDE DEF s
    <3>6. QED
        BY <3>1, <3>2, <3>3, <3>4, <3>5 DEF PeakIsHighest
  <2>8. CASE Blocked(t) \/ Refused(t) \/ Limits(t) \/ Adapter(t)
    <3>1. /\ at[t] \in {"blocked", "refused", "limits", "adapter"}
          /\ UNCHANGED <<check, dd, highest>>
          /\ at'[t] \in {"refused", "limits", "adapter", "idle"}
          /\ at'[t] = "limits" => at[t] = "blocked" /\ ~dd.blocked
          /\ at'[t] = "adapter" => at[t] = "limits"
        BY <1>0, <2>8 DEF Blocked, Refused, Limits, Adapter, GotoGate
    <3>2. QED
        BY <2>0, <3>1 DEF PeakIsHighest
  <2>9. QED
      BY <1>2, <2>1, <2>2, <2>3, <2>4, <2>5, <2>6, <2>7, <2>8 DEF OpenOrder
<1>3. QED
  BY <1>1, <1>2

(* With one check at a time no order is passed in a drawdown of BlockAt    *)
(* from the best equity seen, whatever accounts there are.                 *)
THEOREM DrawdownIsBlocked ==
    ASSUME \A t, u \in Traders : t = u
    PROVE  GatesSpec => []PassesNoDrawdown
<1>1. PeakInv /\ [GatesNext]_gates_vars => PeakInv'
  BY PeakStep
<1>2. GatesInit => PeakInv
  BY PeakStarts DEF AccountInv
<1>3. PeakInv => PassesNoDrawdown
  BY DEF PeakInv, PeakIsHighest, PassesNoDrawdown
<1>4. QED
  BY <1>1, <1>2, <1>3, PTL DEF GatesSpec

(* With one account as well, each step blocks only an account that was     *)
(* hurt.                                                                   *)
LEMMA AccountStep ==
    ASSUME \A t, u \in Traders : t = u, \A p, q \in Profiles : p = q, AccountInv,
           [GatesNext]_gates_vars
    PROVE  AccountInv'
<1>p. PeakInv /\ PeakInv'
  BY PeakStep DEF AccountInv
<1>t. GatesTypeOK
  BY <1>p DEF PeakInv
<1>0. /\ at \in [Traders -> GatePlaces] /\ check \in [Traders -> Checks] /\ dd \in States
      /\ dd.peak \in Nat /\ ownPeak \in [Profiles -> Levels]
      /\ \A p \in Profiles : ownPeak[p] \in Nat
      /\ \A t \in Traders : /\ check[t].equity \in Nat /\ check[t].equity \in Levels
                            /\ at[t] # "idle" => check[t].profile \in Profiles
                            /\ PeakIsHighest(t) /\ BlockedIsHurt(t)
  BY <1>p, <1>t, GateTypes DEF PeakInv, AccountInv
<1>1. CASE ~ \E t \in Traders : OpenOrder(t)
  <2>1. /\ UNCHANGED <<dd, at, ownPeak, hurt>>
        /\ \A t \in Traders : check'[t].profile = check[t].profile
      BY <1>1, <1>t, GatesRest
  <2>2. \A t \in Traders : BlockedIsHurt(t)'
      BY <1>0, <2>1 DEF BlockedIsHurt
  <2>3. QED
      BY <1>p, <2>2 DEF AccountInv
<1>2. ASSUME NEW t \in Traders, OpenOrder(t)
      PROVE  AccountInv'
  <2> SUFFICES BlockedIsHurt(t)'
      BY <1>p DEF AccountInv
  <2>0. BlockedIsHurt(t) /\ PeakIsHighest(t)
      BY <1>0
  <2>1. CASE Raise(t) \/ Assign(t)
    <3> DEFINE j == check[t]
    <3>1. /\ at[t] \in {"raise", "assign"} /\ at'[t] = "blocked" /\ Note(t)
        BY <1>0, <2>1 DEF Raise, Assign, GotoGate
    <3>2. j.profile \in Profiles /\ ownPeak[j.profile] = dd.peak
        BY <1>0, <2>0, <3>1 DEF BlockedIsHurt
    <3>3. /\ ownPeak' = [ownPeak EXCEPT ![j.profile] = Larger(dd.peak, j.equity)]
          /\ hurt \subseteq hurt'
          /\ Drawdown(Larger(dd.peak, j.equity), j.equity) >= BlockAt => j.profile \in hurt'
        BY <3>1, <3>2 DEF Note
    <3>4. \A p \in Profiles : p = j.profile /\ ownPeak'[p] = Larger(dd.peak, j.equity)
        BY <1>0, <3>2, <3>3
    <3>5. CASE Raise(t)
      <4>1. dd' = [Calm EXCEPT !.peak = j.equity] /\ j.equity > dd.peak
          BY <2>0, <3>5 DEF Raise, PeakIsHighest
      <4>2. dd'.peak = j.equity /\ ~dd'.blocked /\ Larger(dd.peak, j.equity) = j.equity
          BY <1>0, <4>1 DEF Calm, Larger
      <4>3. QED
          BY <3>1, <3>4, <4>2 DEF BlockedIsHurt
    <3>6. CASE Assign(t)
      <4> DEFINE s == NextState(dd, j.equity)
      <4>1. j.dd = s /\ j.equity <= dd.peak
          BY <2>0, <3>6 DEF Assign, PeakIsHighest
      <4>2. /\ s.peak = dd.peak
            /\ s.blocked => Drawdown(dd.peak, j.equity) >= BlockAt \/ dd.blocked
          BY <1>0, JudgedBy
      <4>3. dd' = s
          BY <3>6, <4>1, <4>2 DEF Assign
      <4>4. Larger(dd.peak, j.equity) = dd.peak
          BY <1>0, <4>1 DEF Larger
      <4> HIDE DEF s
      <4>5. dd'.blocked => Profiles \subseteq hurt'
          BY <2>0, <3>3, <3>4, <4>2, <4>3, <4>4 DEF BlockedIsHurt
      <4>6. QED
          BY <3>1, <3>4, <4>2, <4>3, <4>4, <4>5 DEF BlockedIsHurt
    <3>7. QED
        BY <2>1, <3>5, <3>6
  <2>2. CASE Blocked(t)
    <3>1. /\ at[t] = "blocked" /\ at'[t] = (IF dd.blocked THEN "refused" ELSE "limits")
          /\ UNCHANGED <<dd, check, ownPeak, hurt>>
        BY <1>0, <2>2 DEF Blocked, GotoGate
    <3>2. check[t].profile \in Profiles
        BY <1>0, <3>1
    <3>3. QED
        BY <2>0, <3>1, <3>2 DEF BlockedIsHurt
  <2>3. CASE ~(Raise(t) \/ Assign(t) \/ Blocked(t))
    <3>1. /\ UNCHANGED <<dd, ownPeak, hurt>>
        BY <1>2, <2>3 DEF OpenOrder, ResolveTarget, IsActive, Describe, Clear, Compare,
                          Compute, Refused, Limits, Adapter
    <3>2. PICK place \in GatePlaces \ {"refused"} : at' = [at EXCEPT ![t] = place]
        BY <1>2, <2>3 DEF OpenOrder, ResolveTarget, IsActive, Describe, Clear, Compare,
                          Compute, Refused, Limits, Adapter, GotoGate, GatePlaces
    <3>3. at'[t] # "refused"
        BY <1>0, <3>2
    <3>4. QED
        BY <2>0, <3>1, <3>3 DEF BlockedIsHurt
  <2>4. QED
      BY <2>1, <2>2, <2>3
<1>3. QED
  BY <1>1, <1>2

(* With one check at a time and one account, the drawdown gate passes no   *)
(* order in a drawdown, and refuses one only to an account that had one.   *)
THEOREM DrawdownGateHolds ==
    ASSUME \A t, u \in Traders : t = u, \A p, q \in Profiles : p = q
    PROVE  GatesSpec => []BlocksInDrawdownOnly
<1>1. AccountInv /\ [GatesNext]_gates_vars => AccountInv'
  BY AccountStep
<1>2. AccountInv => BlocksInDrawdownOnly
  BY DEF AccountInv, PeakInv, PeakIsHighest, BlockedIsHurt, PassesNoDrawdown,
         RefusesForDrawdown, BlocksInDrawdownOnly
<1>3. QED
  BY <1>1, <1>2, PeakStarts, PTL DEF GatesSpec

-----------------------------------------------------------------------------
(* PaperExecution.                                                         *)

(* The prices are positive numbers and the bounds are numbers.             *)
LEMMA PaperNumbers ==
    /\ IsFiniteSet(Orders) /\ Orders # {} /\ Manual \subseteq Orders
    /\ Directions \subseteq {"BUY", "SELL"} /\ Prices \subseteq Nat \ {0}
    /\ Quantities \subseteq Nat /\ Deposits \subseteq Nat \ {0} /\ Default \in Nat
    /\ AllowUnfunded \in BOOLEAN /\ MaxOps \in Nat /\ MaxFailures \in Nat
BY PaperAssumption

(* The list of the orders has each order once.                             *)
LEMMA OrderListIs ==
    OrderList \in Seq(Orders) /\ Items(OrderList) = Orders /\ Distinct(OrderList)
<1> DEFINE n == Cardinality(Orders)
           F == {f \in [1..n -> Orders] : \A a, b \in 1..n : f[a] = f[b] => a = b}
<1>1. n \in Nat /\ \E f : f \in Bijection(1..n, Orders)
  BY PaperNumbers, FS_CardinalityType DEF ExistsBijection
<1>2. F # {}
  <2>1. PICK f : f \in Bijection(1..n, Orders)
      BY <1>1
  <2>2. f \in [1..n -> Orders] /\ \A a, b \in 1..n : f[a] = f[b] => a = b
      BY <2>1 DEF Bijection, Injection, IsInjective
  <2>3. QED
      BY <2>2
<1>3. OrderList = CHOOSE f \in [1..n -> Orders] : IsInjective(f)
  BY DEF OrderList, SetToSeq
<1>4. \A f \in [1..n -> Orders] : IsInjective(f) <=> f \in F
  BY DEF IsInjective
<1> HIDE DEF n, F
<1>5. \E f \in [1..n -> Orders] : IsInjective(f)
  <2>1. PICK f \in F : TRUE
      BY <1>2
  <2>2. f \in [1..n -> Orders]
      BY <2>1 DEF F
  <2>3. QED
      BY <1>4, <2>1, <2>2
<1>6. OrderList \in [1..n -> Orders] /\ IsInjective(OrderList)
  BY <1>3, <1>5
<1>7. OrderList \in Seq(Orders) /\ DOMAIN OrderList = 1..n
  BY <1>1, <1>6, IsList
<1>8. Distinct(OrderList)
  BY <1>6, <1>7 DEF Distinct, IsInjective
<1>9. OrderList \in Surjection(1..n, Orders)
  <2>1. IsFiniteSet(1..n) /\ Cardinality(1..n) = n
      BY <1>1, FS_Interval
  <2>2. OrderList \in Injection(1..n, Orders)
      BY <1>6 DEF Injection
  <2>3. QED
      BY <2>1, <2>2, PaperNumbers, FS_Injection DEF n
<1>10. Items(OrderList) = Orders
  BY <1>6, <1>7, <1>9 DEF Items, Surjection
<1>11. QED
  BY <1>7, <1>8, <1>10

(* What an order costs is a number.                                        *)
LEMMA CostIs ==
    ASSUME NEW row \in Rows
    PROVE  /\ row.entry \in Nat /\ row.quantity \in Nat /\ row.pnl \in Int
           /\ Cost(row) \in Nat /\ Held(row) \in Nat
<1>1. row.entry \in Prices \cup {0} /\ row.quantity \in Quantities \cup {0} /\ row.pnl \in Int
  BY DEF Rows
<1>2. row.entry \in Nat /\ row.quantity \in Nat
  <2>1. Prices \cup {0} \subseteq Nat /\ Quantities \cup {0} \subseteq Nat
      BY PaperNumbers
  <2>2. QED
      BY <1>1, <2>1
<1>3. Cost(row) \in Nat
  BY <1>2 DEF Cost
<1>4. QED
  BY <1>1, <1>2, <1>3 DEF Held

(* The totals are numbers, and change by what one order changes.           *)
LEMMA BooksAre ==
    ASSUME orders \in [Orders -> Rows]
    PROVE  /\ Realized \in Int /\ Invested \in Int
           /\ (\A o \in Orders : orders[o].status # "OPEN") => Invested = 0
<1> DEFINE f == [o \in Orders |-> orders[o].pnl]
           h == [o \in Orders |-> Held(orders[o])]
<1>1. \A o \in Orders : orders[o].pnl \in Int /\ Held(orders[o]) \in Int
  BY CostIs
<1>2. f \in [Orders -> Int] /\ h \in [Orders -> Int]
  BY <1>1
<1>3. (\A o \in Orders : orders[o].status # "OPEN") => \A o \in Orders : h[o] = 0
  BY DEF Held
<1> HIDE DEF f, h
<1>4. Total(OrderList, f) \in Int
  BY <1>2, OrderListIs, TotalIs
<1>5. Total(OrderList, h) \in Int /\ ((\A o \in Orders : h[o] = 0) => Total(OrderList, h) = 0)
  BY <1>2, OrderListIs, TotalIs
<1>6. QED
  BY <1>3, <1>4, <1>5 DEF Realized, Invested, f, h

(* A total changes by what one order changes.                              *)
LEMMA TotalsChange ==
    ASSUME NEW f \in [Orders -> Int], NEW h \in [Orders -> Int], NEW o \in Orders,
           \A p \in Orders : p # o => h[p] = f[p]
    PROVE  Total(OrderList, h) = Total(OrderList, f) + h[o] - f[o]
<1>1. ASSUME NEW l \in Seq(Orders), NEW x \in Items(l), Distinct(l),
             \A p \in Orders : p # x => h[p] = f[p]
      PROVE  Total(l, h) = Total(l, f) + h[x] - f[x]
  BY <1>1, TotalChanges, SMT
<1>2. QED
  BY <1>1, OrderListIs, Zenon

(* When one row is saved, the totals change by what this row changes.      *)
LEMMA BooksChange ==
    ASSUME NEW o \in Orders, NEW r \in Rows
    PROVE  orders \in [Orders -> Rows] /\ orders' = [orders EXCEPT ![o] = r]
              => /\ Realized' = Realized + r.pnl - orders[o].pnl
                 /\ Invested' = Invested + Held(r) - Held(orders[o])
<1>1. SUFFICES ASSUME orders \in [Orders -> Rows], orders' = [orders EXCEPT ![o] = r]
               PROVE  /\ Realized' = Realized + r.pnl - orders[o].pnl
                      /\ Invested' = Invested + Held(r) - Held(orders[o])
  OBVIOUS
<1> DEFINE f == [p \in Orders |-> orders[p].pnl]
           h == [p \in Orders |-> Held(orders[p])]
           f2 == [p \in Orders |-> orders'[p].pnl]
           h2 == [p \in Orders |-> Held(orders'[p])]
<1>2. \A p \in Orders : orders[p].pnl \in Int /\ Held(orders[p]) \in Int
  BY <1>1, CostIs
<1>3. \A p \in Orders : orders'[p].pnl \in Int /\ Held(orders'[p]) \in Int
  BY <1>1, CostIs
<1>4. /\ f \in [Orders -> Int] /\ h \in [Orders -> Int]
      /\ f2 \in [Orders -> Int] /\ h2 \in [Orders -> Int]
  BY <1>2, <1>3
<1>5. /\ \A p \in Orders : p # o => f2[p] = f[p]
      /\ \A p \in Orders : p # o => h2[p] = h[p]
      /\ f2[o] = r.pnl /\ f[o] = orders[o].pnl /\ h2[o] = Held(r) /\ h[o] = Held(orders[o])
  BY <1>1
<1>6. Realized = Total(OrderList, f) /\ Invested = Total(OrderList, h)
  BY DEF Realized, Invested
<1>7. Realized' = Total(OrderList, f2) /\ Invested' = Total(OrderList, h2)
  BY DEF Realized, Invested, OrderList, Held, Cost
<1> HIDE DEF f, h, f2, h2
<1>8. Total(OrderList, f2) = Total(OrderList, f) + f2[o] - f[o]
  BY <1>4, <1>5, TotalsChange, Zenon
<1>9. Total(OrderList, h2) = Total(OrderList, h) + h2[o] - h[o]
  BY <1>4, <1>5, TotalsChange, Zenon
<1>10. QED
  BY <1>5, <1>6, <1>7, <1>8, <1>9

\* Thread t is now at place p with job j, and every place and job has its type.
Moved(t, p, j) ==
    /\ pc' \in [Threads -> PaperPlaces] /\ job' \in [Threads -> Jobs]
    /\ pc'[t] = p /\ job'[t] = j
    /\ \A u \in Threads :
          /\ pc'[u] \in {"save", "position"} => job'[u].then = "save"
          /\ pc'[u] = "mark" => job'[u].then = "idle"
          /\ job'[u].then = "save" => job'[u].row.status \in {"OPEN", "CLOSED"}

(* A thread that goes to a place with a job: only that thread moves.       *)
LEMMA PaperMoves ==
    ASSUME PaperTypeOK, NEW t \in Threads, NEW j \in Jobs, NEW p \in PaperPlaces,
           p \in {"save", "position"} => j.then = "save",
           p = "mark" => j.then = "idle",
           j.then = "save" => j.row.status \in {"OPEN", "CLOSED"},
           job' = [job EXCEPT ![t] = j], pc' = [pc EXCEPT ![t] = p]
    PROVE  Moved(t, p, j)
<1>1. /\ pc \in [Threads -> PaperPlaces] /\ job \in [Threads -> Jobs]
      /\ \A u \in Threads :
            /\ pc[u] \in {"save", "position"} => job[u].then = "save"
            /\ pc[u] = "mark" => job[u].then = "idle"
            /\ job[u].then = "save" => job[u].row.status \in {"OPEN", "CLOSED"}
  BY DEF PaperTypeOK
<1>2. QED
  BY <1>1 DEF Moved

(* A thread that stays with its job.                                       *)
LEMMA PaperStays ==
    ASSUME PaperTypeOK, NEW t \in Threads, NEW p \in PaperPlaces,
           p \in {"save", "position"} => job[t].then = "save",
           p = "mark" => job[t].then = "idle",
           pc' = [pc EXCEPT ![t] = p], UNCHANGED job
    PROVE  Moved(t, p, job[t])
<1>1. /\ pc \in [Threads -> PaperPlaces] /\ job \in [Threads -> Jobs]
      /\ \A u \in Threads :
            /\ pc[u] \in {"save", "position"} => job[u].then = "save"
            /\ pc[u] = "mark" => job[u].then = "idle"
            /\ job[u].then = "save" => job[u].row.status \in {"OPEN", "CLOSED"}
  BY DEF PaperTypeOK
<1>2. QED
  BY <1>1 DEF Moved

(* The jobs and the rows that the calls make.                              *)
LEMMA JobsAre ==
    /\ Unsaved \in Rows /\ NoJob \in Jobs
    /\ \A d \in Directions, e \in Prices, q \in Quantities \cup {0}, s \in BOOLEAN :
          New(d, e, q, s) \in Rows
<1>1. Unsaved \in Rows
  BY DEF Unsaved, Rows
<1>2. (CHOOSE o \in Orders : TRUE) \in Orders
  BY PaperNumbers
<1>3. NoJob \in Jobs
  BY <1>1, <1>2 DEF NoJob, Jobs
<1>4. ASSUME NEW d \in Directions, NEW e \in Prices, NEW q \in Quantities \cup {0},
             NEW s \in BOOLEAN
      PROVE  New(d, e, q, s) \in Rows
  <2>1. d \in {"BUY", "SELL"}
      BY PaperNumbers
  <2>2. QED
      BY <2>1 DEF New, Rows
<1>5. QED
  BY <1>1, <1>3, <1>4

(* A row that is closed.                                                   *)
LEMMA ClosedIs ==
    ASSUME NEW row \in Rows, NEW price \in Prices
    PROVE  /\ Closed(row, price) \in Rows /\ Closed(row, price).status = "CLOSED"
           /\ price * row.quantity \in Nat
<1>1. row.entry \in Nat /\ row.quantity \in Nat /\ price \in Nat
  BY CostIs, PaperNumbers
<1>2. Multiplier(row.direction) \in Int
  BY DEF Multiplier
<1>3. (price - row.entry) * row.quantity \in Int
  BY <1>1
<1>4. (price - row.entry) * row.quantity * Multiplier(row.direction) \in Int
  BY <1>2, <1>3
<1>5. Closed(row, price) \in Rows /\ Closed(row, price).status = "CLOSED"
  BY <1>4 DEF Closed, Rows
<1>6. QED
  BY <1>1, <1>5

(* The job of an open.                                                     *)
OpeningJob(o, d, e, q) ==
    [NoJob EXCEPT !.op = "open", !.order = o, !.row = New(d, e, q, TRUE),
                  !.delta = -(e * q), !.then = "save"]
UnfundedJob(o, d, e, q) ==
    [OpeningJob(o, d, e, q) EXCEPT !.row = New(d, e, 0, FALSE), !.delta = 0]

LEMMA OpeningIs ==
    ASSUME NEW o \in Orders, NEW d \in Directions, NEW e \in Prices, NEW q \in Quantities,
           NEW j, j = OpeningJob(o, d, e, q)
    PROVE  /\ j \in Jobs /\ j.op = "open" /\ j.order = o /\ j.then = "save"
           /\ j.delta = -Cost(j.row) /\ j.delta = -(e * q) /\ e * q \in Nat
           /\ j.row.status = "OPEN" /\ j.row.pnl = 0 /\ j.row.direction = d
           /\ j.row.settled
<1>1. PICK b \in Jobs, r \in Rows : b = NoJob /\ r = New(d, e, q, TRUE)
  BY JobsAre
<1>2. e \in Nat /\ q \in Nat
  BY PaperNumbers
<1>3. PICK m \in Nat : m = e * q
  BY <1>2
<1>4. PICK n \in Int : n = -m
  OBVIOUS
<1>5. j = [b EXCEPT !.op = "open", !.order = o, !.row = r, !.delta = n, !.then = "save"]
  BY <1>1, <1>3, <1>4 DEF OpeningJob
<1>6. /\ j \in Jobs /\ j.op = "open" /\ j.order = o /\ j.row = r /\ j.delta = n
      /\ j.then = "save"
  BY <1>5 DEF Jobs
<1>7. /\ r.status = "OPEN" /\ r.pnl = 0 /\ r.direction = d /\ r.settled
      /\ r.entry = e /\ r.quantity = q
  BY <1>1 DEF New
<1>8. Cost(r) = m
  BY <1>3, <1>7 DEF Cost
<1>9. QED
  BY <1>3, <1>4, <1>6, <1>7, <1>8

(* The job of an open that is not funded.                                  *)
LEMMA UnfundedIs ==
    ASSUME NEW o \in Orders, NEW d \in Directions, NEW e \in Prices, NEW q \in Quantities,
           NEW j, j = UnfundedJob(o, d, e, q)
    PROVE  /\ j \in Jobs /\ j.op = "open" /\ j.order = o /\ j.then = "save"
           /\ j.delta = -Cost(j.row) /\ j.delta = 0
           /\ j.row.status = "OPEN" /\ j.row.pnl = 0 /\ j.row.direction = d
           /\ j.row.quantity = 0
<1>1. PICK b : b = OpeningJob(o, d, e, q)
  OBVIOUS
<1>2. b \in Jobs /\ b.op = "open" /\ b.order = o /\ b.then = "save"
  BY <1>1, OpeningIs
<1>3. PICK r \in Rows : r = New(d, e, 0, FALSE)
  BY JobsAre
<1>4. PICK m \in Nat, n \in Int : m = 0 /\ n = 0 /\ n = -m
  OBVIOUS
<1>5. j = [b EXCEPT !.row = r, !.delta = n]
  BY <1>1, <1>3, <1>4 DEF UnfundedJob
<1>6. j \in Jobs /\ j.op = b.op /\ j.order = b.order /\ j.row = r /\ j.delta = n /\ j.then = b.then
  BY <1>2, <1>5 DEF Jobs
<1>7. /\ r.status = "OPEN" /\ r.pnl = 0 /\ r.direction = d /\ r.entry = e /\ r.quantity = 0
  BY <1>3 DEF New
<1>8. Cost(r) = m
  <2>1. e \in Nat
      BY PaperNumbers
  <2>2. QED
      BY <1>4, <1>7, <2>1 DEF Cost
<1>9. QED
  BY <1>2, <1>4, <1>6, <1>7, <1>8

(* The job of a close.                                                     *)
ClosingJob(o, price) ==
    [NoJob EXCEPT !.op = "close", !.order = o, !.row = Closed(orders[o], price),
                  !.delta = IF orders[o].settled THEN price * orders[o].quantity ELSE 0,
                  !.then = "save"]

LEMMA ClosingIs ==
    ASSUME PaperTypeOK, NEW o \in Orders, NEW price \in Prices
    PROVE  LET j == ClosingJob(o, price)
           IN  /\ j \in Jobs /\ j.op = "close" /\ j.order = o
               /\ j.row = Closed(orders[o], price) /\ j.row.status = "CLOSED"
               /\ j.delta = (IF orders[o].settled THEN price * orders[o].quantity ELSE 0)
               /\ j.delta \in Nat /\ j.then = "save"
<1>1. orders[o] \in Rows
  BY DEF PaperTypeOK
<1>2. /\ Closed(orders[o], price) \in Rows /\ Closed(orders[o], price).status = "CLOSED"
      /\ price * orders[o].quantity \in Nat
  BY <1>1, ClosedIs
<1>3. (IF orders[o].settled THEN price * orders[o].quantity ELSE 0) \in Nat
  BY <1>2
<1>4. NoJob \in Jobs
  BY JobsAre
<1> DEFINE j == ClosingJob(o, price)
           n == IF orders[o].settled THEN price * orders[o].quantity ELSE 0
<1>5. j = [NoJob EXCEPT !.op = "close", !.order = o, !.row = Closed(orders[o], price),
                        !.delta = n, !.then = "save"]
  BY DEF ClosingJob
<1> HIDE DEF j, n
<1>6. /\ j \in Jobs /\ j.op = "close" /\ j.order = o /\ j.row = Closed(orders[o], price)
      /\ j.delta = n /\ j.then = "save"
  <2>1. PICK b \in Jobs, r \in Rows, m \in Int :
            b = NoJob /\ r = Closed(orders[o], price) /\ m = n
      BY <1>2, <1>3, <1>4 DEF n
  <2>2. j = [b EXCEPT !.op = "close", !.order = o, !.row = r, !.delta = m, !.then = "save"]
      BY <1>5, <2>1
  <2>3. /\ j \in Jobs /\ j.op = "close" /\ j.order = o /\ j.row = r /\ j.delta = m
        /\ j.then = "save"
      BY <2>2 DEF Jobs
  <2>4. QED
      BY <2>1, <2>3
<1>7. QED
  BY <1>2, <1>3, <1>6 DEF j, n

(* A call that changes the balance starts to read it, or has nothing to do.*)
LEMMA AdjustIs ==
    ASSUME PaperTypeOK, NEW t \in Threads, NEW j \in Jobs,
           j.then = "save" => j.row.status \in {"OPEN", "CLOSED"}, Adjust(t, j)
    PROVE  Moved(t, IF j.delta = 0 THEN j.then ELSE "read", j)
<1> DEFINE p == IF j.delta = 0 THEN j.then ELSE "read"
<1>1. j.then \in {"idle", "save"}
  BY DEF Jobs
<1>2. p \in PaperPlaces /\ (p \in {"save", "position"} => j.then = "save") /\ p # "mark"
  BY <1>1 DEF PaperPlaces
<1>3. job' = [job EXCEPT ![t] = j] /\ pc' = [pc EXCEPT ![t] = p]
  BY DEF Adjust, Goto
<1> HIDE DEF p
<1>4. Moved(t, p, j)
  BY <1>2, <1>3, PaperMoves
<1>5. QED
  BY <1>4 DEF p

\* The job of a call that gives back its cash.
GiveBack(j) ==
    [j EXCEPT !.delta = -j.delta, !.then = "idle",
              !.op = IF j.op = "close" THEN "revert" ELSE "refund"]

(* What a call that raised has left to do.                                 *)
LEMMA GiveBackIs ==
    ASSUME NEW j \in Jobs
    PROVE  /\ GiveBack(j) \in Jobs /\ GiveBack(j).delta = -j.delta
           /\ GiveBack(j).op \in {"revert", "refund"} /\ GiveBack(j).then = "idle"
           /\ GiveBack(j).order = j.order
<1>1. PICK n \in Int : n = -j.delta
  <2>1. j.delta \in Int
      BY DEF Jobs
  <2>2. QED
      BY <2>1
<1>2. PICK a \in {"revert", "refund"} : a = IF j.op = "close" THEN "revert" ELSE "refund"
  OBVIOUS
<1>3. GiveBack(j) = [j EXCEPT !.delta = n, !.then = "idle", !.op = a]
  BY <1>1, <1>2 DEF GiveBack
<1>4. /\ GiveBack(j) \in Jobs /\ GiveBack(j).delta = n /\ GiveBack(j).op = a
      /\ GiveBack(j).then = "idle" /\ GiveBack(j).order = j.order
  BY <1>3 DEF Jobs
<1>5. QED
  BY <1>1, <1>2, <1>4

(* The jobs that move no cash.                                             *)
PlainJob(a, o) == [NoJob EXCEPT !.op = a, !.order = o]
UpdateJob(o, r) == [NoJob EXCEPT !.op = "update", !.order = o, !.row = r]

LEMMA PlainJobIs ==
    ASSUME NEW o \in Orders, NEW a \in {"mark", "delete"}, NEW j, j = PlainJob(a, o)
    PROVE  j \in Jobs /\ j.op = a /\ j.order = o /\ j.then = "idle" /\ j.delta = 0
<1>1. PICK b \in Jobs : b = NoJob
  BY JobsAre
<1>2. b.then = "idle" /\ b.delta = 0
  BY <1>1 DEF NoJob
<1>3. j = [b EXCEPT !.op = a, !.order = o]
  BY <1>1 DEF PlainJob
<1>4. QED
  BY <1>2, <1>3 DEF Jobs

(* The job of an update.                                                   *)
LEMMA UpdateJobIs ==
    ASSUME NEW o \in Orders, NEW r \in Rows, NEW j, j = UpdateJob(o, r)
    PROVE  /\ j \in Jobs /\ j.op = "update" /\ j.order = o /\ j.then = "idle" /\ j.delta = 0
           /\ j.row = r
<1>1. PICK b \in Jobs : b = NoJob
  BY JobsAre
<1>2. b.then = "idle" /\ b.delta = 0
  BY <1>1 DEF NoJob
<1>3. j = [b EXCEPT !.op = "update", !.order = o, !.row = r]
  BY <1>1 DEF UpdateJob
<1>4. QED
  BY <1>2, <1>3 DEF Jobs

(* An open: what the thread has computed, and where it goes.               *)
LEMMA OpenMoves ==
    ASSUME PaperTypeOK, NEW t \in Threads, NEW o \in Orders, NEW d \in Directions,
           NEW e \in Prices, NEW q \in Quantities, Open(t, o, d, e, q)
    PROVE  \E j \in Jobs, p \in {"read", "save", "require"} :
              /\ Moved(t, p, j)
              /\ j.op = "open" /\ j.order = o /\ j.then = "save" /\ j.delta = -Cost(j.row)
              /\ j.row.status = "OPEN" /\ j.row.pnl = 0 /\ j.row.direction = d
              /\ ~j.row.settled => j.row.quantity = 0
              /\ p = "save" => j.delta = 0
              /\ p = "read" => cash + j.delta >= 0
<1>1. PICK j, k : j = OpeningJob(o, d, e, q) /\ k = UnfundedJob(o, d, e, q)
  OBVIOUS
<1>2. PICK short \in BOOLEAN : short <=> e * q > cash
  OBVIOUS
<1>3. cash \in Int
  BY DEF PaperTypeOK
<1>4. /\ j \in Jobs /\ j.op = "open" /\ j.order = o /\ j.then = "save"
      /\ j.delta = -Cost(j.row) /\ j.delta = -(e * q) /\ e * q \in Nat
      /\ j.row.status = "OPEN" /\ j.row.pnl = 0 /\ j.row.direction = d
      /\ j.row.settled
  BY <1>1, OpeningIs
<1>5. /\ k \in Jobs /\ k.op = "open" /\ k.order = o /\ k.then = "save"
      /\ k.delta = -Cost(k.row) /\ k.delta = 0
      /\ k.row.status = "OPEN" /\ k.row.pnl = 0 /\ k.row.direction = d
      /\ k.row.quantity = 0
  BY <1>1, UnfundedIs
<1>6. \/ Adjust(t, k)
      \/ job' = [job EXCEPT ![t] = j] /\ Goto(t, "require")
      \/ ~short /\ Adjust(t, j)
  BY <1>1, <1>2 DEF Open, OpeningJob, UnfundedJob
<1>7. CASE Adjust(t, k)
  <2>1. Moved(t, "save", k)
      BY <1>5, <1>7, AdjustIs
  <2>2. QED
      BY <1>5, <2>1
<1>8. CASE job' = [job EXCEPT ![t] = j] /\ Goto(t, "require")
  <2>1. pc' = [pc EXCEPT ![t] = "require"] /\ "require" \in PaperPlaces
      BY <1>8 DEF Goto, PaperPlaces
  <2>2. Moved(t, "require", j)
      BY <1>4, <1>8, <2>1, PaperMoves
  <2>3. QED
      BY <1>4, <2>2
<1>9. CASE ~short /\ Adjust(t, j)
  <2>1. Moved(t, IF j.delta = 0 THEN "save" ELSE "read", j)
      BY <1>4, <1>9, AdjustIs
  <2>2. cash + j.delta >= 0
      BY <1>2, <1>3, <1>4, <1>9
  <2>3. PICK p \in {"read", "save", "require"} :
            p = (IF j.delta = 0 THEN "save" ELSE "read")
      OBVIOUS
  <2>4. Moved(t, p, j) /\ (p = "save" => j.delta = 0)
      BY <2>1, <2>3
  <2>5. QED
      BY <1>4, <2>2, <2>4
<1>10. QED
  BY <1>6, <1>7, <1>8, <1>9

(* A close: what the thread has computed, and where it goes.               *)
LEMMA ClosingMoves ==
    ASSUME PaperTypeOK, NEW t \in Threads, NEW o \in Orders, NEW price \in Prices,
           Closing(t, o, price)
    PROVE  \E j \in Jobs, p \in {"read", "save"} :
              /\ Moved(t, p, j)
              /\ j.op = "close" /\ j.order = o /\ j.then = "save"
              /\ j.row = Closed(orders[o], price) /\ j.delta \in Nat
              /\ j.delta = (IF orders[o].settled THEN price * orders[o].quantity ELSE 0)
              /\ p = "save" => j.delta = 0
<1> DEFINE j == ClosingJob(o, price)
<1>1. /\ j \in Jobs /\ j.op = "close" /\ j.order = o
      /\ j.row = Closed(orders[o], price) /\ j.row.status = "CLOSED"
      /\ j.delta = (IF orders[o].settled THEN price * orders[o].quantity ELSE 0)
      /\ j.delta \in Nat /\ j.then = "save"
  BY ClosingIs
<1>2. Adjust(t, j)
  BY DEF Closing, ClosingJob
<1> HIDE DEF j
<1>3. Moved(t, IF j.delta = 0 THEN "save" ELSE "read", j)
  BY <1>1, <1>2, AdjustIs
<1>4. PICK p \in {"read", "save"} : p = (IF j.delta = 0 THEN "save" ELSE "read")
  OBVIOUS
<1>5. Moved(t, p, j) /\ (p = "save" => j.delta = 0)
  BY <1>3, <1>4
<1>6. QED
  BY <1>1, <1>5

(* An exception: what the thread has left to do.                           *)
LEMMA FailMoves ==
    ASSUME PaperTypeOK, NEW t \in Threads, Fail(t)
    PROVE  \E j \in Jobs, p \in {"read", "idle"} :
              /\ Moved(t, p, j)
              /\ j.op \in {"revert", "refund"} /\ j.then = "idle"
              /\ j.delta = -job[t].delta
              /\ p = "idle" => j.delta = 0
<1> DEFINE j == GiveBack(job[t])
<1>1. job[t] \in Jobs
  BY DEF PaperTypeOK
<1>2. /\ j \in Jobs /\ j.delta = -job[t].delta /\ j.op \in {"revert", "refund"}
      /\ j.then = "idle"
  BY <1>1, GiveBackIs
<1>3. Adjust(t, j)
  BY DEF Fail, GiveBack
<1> HIDE DEF j
<1>4. Moved(t, IF j.delta = 0 THEN "idle" ELSE "read", j)
  BY <1>2, <1>3, AdjustIs
<1>5. PICK p \in {"read", "idle"} : p = (IF j.delta = 0 THEN "idle" ELSE "read")
  OBVIOUS
<1>6. Moved(t, p, j) /\ (p = "idle" => j.delta = 0)
  BY <1>4, <1>5
<1>7. QED
  BY <1>2, <1>6

(* A deposit.                                                              *)
LEMMA DepositMoves ==
    ASSUME PaperTypeOK, NEW t \in Threads, NEW amount \in Deposits, Deposit(t, amount)
    PROVE  \E j \in Jobs : /\ Moved(t, "read", j)
                           /\ j.op = "deposit" /\ j.then = "idle" /\ j.delta \in Nat
<1> DEFINE j == [NoJob EXCEPT !.op = "deposit", !.delta = amount]
<1>1. PICK n \in Int : n = amount /\ n # 0 /\ n \in Nat
  BY PaperNumbers
<1>2. PICK b \in Jobs : b = NoJob
  BY JobsAre
<1>3. b.then = "idle"
  BY <1>2 DEF NoJob
<1>4. j = [b EXCEPT !.op = "deposit", !.delta = n]
  BY <1>1, <1>2
<1>5. Adjust(t, j)
  BY DEF Deposit
<1> HIDE DEF j
<1>6. j \in Jobs /\ j.op = "deposit" /\ j.delta = n /\ j.then = "idle"
  BY <1>3, <1>4 DEF Jobs
<1>7. Moved(t, IF j.delta = 0 THEN "idle" ELSE "read", j)
  BY <1>5, <1>6, AdjustIs
<1>8. Moved(t, "read", j)
  BY <1>1, <1>6, <1>7
<1>9. QED
  BY <1>1, <1>6, <1>8

(* A call that begins is counted.                                          *)
LEMMA BeginCounts ==
    ASSUME PaperTypeOK, NEW t \in Threads, Begin(t)
    PROVE  ops' \in 0..MaxOps
<1>1. ops \in 0..MaxOps /\ MaxOps \in Nat
  BY PaperNumbers DEF PaperTypeOK
<1>2. QED
  BY <1>1 DEF Begin

(* A call keeps the types.                                                 *)
LEMMA CallsKeepTypes ==
    ASSUME PaperTypeOK, NEW t \in Threads, Calls(t)
    PROVE  PaperTypeOK'
<1>1. /\ cash \in Int /\ base \in Int
      /\ orders \in [Orders -> Rows] /\ credits \in [Orders -> Int]
      /\ position \in [Orders -> {"none", "OPEN", "CLOSED"}]
      /\ failures \in 0..MaxFailures /\ odd \subseteq Orders
  BY DEF PaperTypeOK
<1>2. ASSUME ops' \in 0..MaxOps, UNCHANGED <<cash, orders, position, failures, hist>>,
             \E p, j : Moved(t, p, j)
      PROVE  PaperTypeOK'
  BY <1>1, <1>2 DEF PaperTypeOK, Moved, hist
<1>3. ASSUME NEW o \in Orders, NEW d \in Directions, NEW e \in Prices, NEW q \in Quantities,
             Open(t, o, d, e, q)
      PROVE  PaperTypeOK'
  <2>1. Begin(t) /\ UNCHANGED <<cash, orders, position, failures, hist>>
      BY <1>3 DEF Open
  <2>2. \E p, j : Moved(t, p, j)
      BY <1>3, OpenMoves
  <2>3. QED
      BY <1>2, <2>1, <2>2, BeginCounts
<1>4. ASSUME NEW o \in Orders, NEW price \in Prices, Close(t, o, price)
      PROVE  PaperTypeOK'
  <2>1. Begin(t) /\ UNCHANGED <<cash, orders, position, failures, hist>> /\ Closing(t, o, price)
      BY <1>4 DEF Close
  <2>2. \E p, j : Moved(t, p, j)
      BY <2>1, ClosingMoves
  <2>3. QED
      BY <1>2, <2>1, <2>2, BeginCounts
<1>5. ASSUME NEW j \in Jobs, j.then = "idle", NEW p \in {"mark", "rewrite", "delete"},
             Begin(t), job' = [job EXCEPT ![t] = j], Goto(t, p),
             UNCHANGED <<cash, orders, position, failures, hist>>
      PROVE  PaperTypeOK'
  <2>1. pc' = [pc EXCEPT ![t] = p] /\ p \in PaperPlaces /\ p \notin {"save", "position"}
      BY <1>5 DEF Goto, PaperPlaces
  <2>2. Moved(t, p, j)
      BY <1>5, <2>1, PaperMoves
  <2>3. QED
      BY <1>2, <1>5, <2>2, BeginCounts
<1>6. ASSUME NEW o \in Orders, Monitor(t, o)
      PROVE  PaperTypeOK'
  <2>1. PICK j : j = PlainJob("mark", o)
      OBVIOUS
  <2>2. j \in Jobs /\ j.then = "idle"
      BY <2>1, PlainJobIs
  <2>3. /\ Begin(t) /\ Goto(t, "mark") /\ UNCHANGED <<cash, orders, position, failures, hist>>
        /\ job' = [job EXCEPT ![t] = j]
      BY <1>6, <2>1 DEF Monitor, PlainJob
  <2>4. QED
      BY <1>5, <2>2, <2>3
<1>7. ASSUME NEW o \in Orders, Update(t, o)
      PROVE  PaperTypeOK'
  <2>1. PICK r : r = [orders[o] EXCEPT !.status = "OPEN"]
      OBVIOUS
  <2>2. r \in Rows
      BY <1>1, <2>1 DEF Rows
  <2>3. PICK j : j = UpdateJob(o, r)
      OBVIOUS
  <2>4. j \in Jobs /\ j.then = "idle"
      BY <2>2, <2>3, UpdateJobIs
  <2>5. /\ Begin(t) /\ Goto(t, "rewrite")
        /\ UNCHANGED <<cash, orders, position, failures, hist>>
        /\ job' = [job EXCEPT ![t] = j]
      BY <1>7, <2>1, <2>3 DEF Update, UpdateJob
  <2>6. QED
      BY <1>5, <2>4, <2>5
<1>8. ASSUME NEW o \in Orders, Delete(t, o)
      PROVE  PaperTypeOK'
  <2>1. PICK j : j = PlainJob("delete", o)
      OBVIOUS
  <2>2. j \in Jobs /\ j.then = "idle"
      BY <2>1, PlainJobIs
  <2>3. /\ Begin(t) /\ Goto(t, "delete")
        /\ UNCHANGED <<cash, orders, position, failures, hist>>
        /\ job' = [job EXCEPT ![t] = j]
      BY <1>8, <2>1 DEF Delete, PlainJob
  <2>4. QED
      BY <1>5, <2>2, <2>3
<1>9. ASSUME NEW amount \in Deposits, Deposit(t, amount)
      PROVE  PaperTypeOK'
  <2>1. Begin(t) /\ UNCHANGED <<cash, orders, position, failures, hist>>
      BY <1>9 DEF Deposit
  <2>2. \E p, j : Moved(t, p, j)
      BY <1>9, DepositMoves
  <2>3. QED
      BY <1>2, <2>1, <2>2, BeginCounts
<1>10. ASSUME ResetBalance(t)
       PROVE  PaperTypeOK'
  <2>1. /\ Begin(t) /\ UNCHANGED <<cash, orders, position, failures, hist>> /\ UNCHANGED job
        /\ pc' = [pc EXCEPT ![t] = "set"] /\ "set" \in PaperPlaces
      BY <1>10 DEF ResetBalance, Goto, PaperPlaces
  <2>2. Moved(t, "set", job[t])
      BY <2>1, PaperStays
  <2>3. QED
      BY <1>2, <2>1, <2>2, BeginCounts
<1>11. QED
  BY <1>3, <1>4, <1>6, <1>7, <1>8, <1>9, <1>10 DEF Calls

(* A step keeps the types.                                                 *)
LEMMA StepsKeepTypes ==
    ASSUME PaperTypeOK, NEW t \in Threads, Steps(t)
    PROVE  PaperTypeOK'
<1>1. /\ cash \in Int /\ base \in Int
      /\ orders \in [Orders -> Rows] /\ credits \in [Orders -> Int]
      /\ position \in [Orders -> {"none", "OPEN", "CLOSED"}]
      /\ pc \in [Threads -> PaperPlaces] /\ job \in [Threads -> Jobs]
      /\ ops \in 0..MaxOps /\ failures \in 0..MaxFailures /\ odd \subseteq Orders
      /\ \A u \in Threads :
            /\ pc[u] \in {"save", "position"} => job[u].then = "save"
            /\ pc[u] = "mark" => job[u].then = "idle"
            /\ job[u].then = "save" => job[u].row.status \in {"OPEN", "CLOSED"}
  BY DEF PaperTypeOK
<1>2. job[t] \in Jobs /\ pc[t] \in PaperPlaces
  BY <1>1
<1>3. /\ job[t].order \in Orders /\ job[t].row \in Rows /\ job[t].delta \in Int
      /\ job[t].read \in Int /\ job[t].then \in {"idle", "save"}
  BY <1>2 DEF Jobs
<1>4. ASSUME \E p, j : Moved(t, p, j), cash' \in Int, base' \in Int,
             orders' \in [Orders -> Rows], credits' \in [Orders -> Int],
             position' \in [Orders -> {"none", "OPEN", "CLOSED"}],
             ops' = ops, failures' \in 0..MaxFailures, odd' \subseteq Orders
      PROVE  PaperTypeOK'
  BY <1>1, <1>4 DEF PaperTypeOK, Moved
<1>5. ASSUME NEW p \in PaperPlaces, p \in {"save", "position"} => job[t].then = "save",
             p # "mark", Goto(t, p), UNCHANGED job
      PROVE  Moved(t, p, job[t])
  <2>1. pc' = [pc EXCEPT ![t] = p]
      BY <1>5 DEF Goto
  <2>2. QED
      BY <1>5, <2>1, PaperStays
<1>6. CASE ReadBalance(t)
  <2>1. PICK j : j = [job[t] EXCEPT !.read = cash]
      OBVIOUS
  <2>2. j \in Jobs /\ j.then = job[t].then /\ j.row = job[t].row
      BY <1>1, <1>2, <2>1 DEF Jobs
  <2>3. job' = [job EXCEPT ![t] = j] /\ pc' = [pc EXCEPT ![t] = "write"]
      BY <1>6, <2>1 DEF ReadBalance, Goto
  <2>4. "write" \in PaperPlaces /\ (job[t].then = "save" => j.row.status \in {"OPEN", "CLOSED"})
      BY <1>1, <2>2 DEF PaperPlaces
  <2>5. Moved(t, "write", j)
      BY <2>2, <2>3, <2>4, PaperMoves
  <2>6. UNCHANGED <<cash, orders, position, ops, failures, base, credits, odd>>
      BY <1>6 DEF ReadBalance, hist
  <2>7. QED
      BY <1>1, <1>4, <2>5, <2>6
<1>7. CASE WriteBalance(t)
  <2>1. Goto(t, job[t].then) /\ UNCHANGED <<orders, position, job, ops, failures, odd>>
      BY <1>7 DEF WriteBalance
  <2>2. job[t].then \in PaperPlaces /\ job[t].then \notin {"mark", "position"}
      BY <1>3 DEF PaperPlaces
  <2>3. Moved(t, job[t].then, job[t])
      BY <1>5, <2>1, <2>2
  <2>4. cash' \in Int /\ base' \in Int
      BY <1>1, <1>3, <1>7 DEF WriteBalance
  <2>5. credits' \in [Orders -> Int]
      BY <1>1, <1>3, <1>7 DEF WriteBalance
  <2>6. QED
      BY <1>1, <1>4, <2>1, <2>3, <2>4, <2>5
<1>8. CASE Require(t)
  <2>1. PICK p \in {"idle", "read"} : Goto(t, p)
      BY <1>8 DEF Require
  <2>2. UNCHANGED <<cash, orders, position, job, ops, failures, base, credits, odd>>
      BY <1>8 DEF Require, hist
  <2>3. p \in PaperPlaces /\ p \notin {"save", "position"}
      BY DEF PaperPlaces
  <2>4. Moved(t, p, job[t])
      BY <1>5, <2>1, <2>2, <2>3
  <2>5. QED
      BY <1>1, <1>4, <2>2, <2>4
<1>9. CASE SaveOrder(t)
  <2>1. /\ pc[t] = "save" /\ Goto(t, "position")
        /\ orders' = [orders EXCEPT ![job[t].order] = job[t].row]
        /\ UNCHANGED <<cash, position, job, ops, failures, base, credits, odd>>
      BY <1>9 DEF SaveOrder, hist
  <2>2. "position" \in PaperPlaces /\ job[t].then = "save"
      BY <1>1, <2>1 DEF PaperPlaces
  <2>3. Moved(t, "position", job[t])
      BY <1>5, <2>1, <2>2
  <2>4. QED
      BY <1>1, <1>3, <1>4, <2>1, <2>3
<1>10. CASE SavePosition(t)
  <2>1. /\ pc[t] = "position" /\ Goto(t, "finish")
        /\ position' = [position EXCEPT ![job[t].order] = job[t].row.status]
        /\ UNCHANGED <<cash, orders, job, ops, failures, base, credits, odd>>
      BY <1>10 DEF SavePosition, hist
  <2>2. job[t].row.status \in {"OPEN", "CLOSED"} /\ "finish" \in PaperPlaces
      BY <1>1, <2>1 DEF PaperPlaces
  <2>3. Moved(t, "finish", job[t])
      BY <1>5, <2>1, <2>2
  <2>4. QED
      BY <1>1, <1>3, <1>4, <2>1, <2>2, <2>3
<1>11. CASE Finish(t)
  <2>1. /\ Goto(t, "idle")
        /\ UNCHANGED <<cash, orders, position, job, ops, failures, base, credits, odd>>
      BY <1>11 DEF Finish, hist
  <2>2. "idle" \in PaperPlaces
      BY DEF PaperPlaces
  <2>3. Moved(t, "idle", job[t])
      BY <1>5, <2>1, <2>2
  <2>4. QED
      BY <1>1, <1>4, <2>1, <2>3
<1>12. CASE Fail(t)
  <2>1. \E p, j : Moved(t, p, j)
      BY <1>12, FailMoves
  <2>2. UNCHANGED <<cash, orders, position, ops, base, credits>>
      BY <1>12 DEF Fail
  <2>3. odd' \subseteq Orders
      BY <1>1, <1>3, <1>12 DEF Fail
  <2>4. failures' \in 0..MaxFailures
      BY <1>1, <1>12, PaperNumbers DEF Fail
  <2>5. QED
      BY <1>1, <1>4, <2>1, <2>2, <2>3, <2>4
<1>13. CASE Mark(t)
  <2>1. PICK j : j = [job[t] EXCEPT !.row = orders[job[t].order]]
      OBVIOUS
  <2>2. PICK p \in {"idle", "rewrite"} : Goto(t, p)
      BY <1>13 DEF Mark
  <2>3. /\ pc[t] = "mark" /\ job' = [job EXCEPT ![t] = j]
        /\ UNCHANGED <<cash, orders, position, ops, failures, base, credits, odd>>
      BY <1>13, <2>1 DEF Mark, hist
  <2>4. j \in Jobs /\ j.then = job[t].then /\ j.row = orders[job[t].order]
      BY <1>1, <1>2, <1>3, <2>1 DEF Jobs
  <2>5. p \in PaperPlaces /\ p \notin {"save", "position", "mark"} /\ j.then = "idle"
      BY <1>1, <2>3, <2>4 DEF PaperPlaces
  <2>6. pc' = [pc EXCEPT ![t] = p]
      BY <2>2 DEF Goto
  <2>7. Moved(t, p, j)
      BY <2>3, <2>4, <2>5, <2>6, PaperMoves
  <2>8. QED
      BY <1>1, <1>4, <2>3, <2>7
<1>14. CASE Rewrite(t)
  <2>1. /\ pc[t] = "rewrite" /\ Goto(t, "remark")
        /\ orders' = [orders EXCEPT ![job[t].order] = job[t].row]
        /\ UNCHANGED <<cash, position, job, ops, failures, base, credits>>
      BY <1>14 DEF Rewrite
  <2>2. "remark" \in PaperPlaces
      BY DEF PaperPlaces
  <2>3. Moved(t, "remark", job[t])
      BY <1>5, <2>1, <2>2
  <2>4. odd' \subseteq Orders
      BY <1>1, <1>3, <1>14 DEF Rewrite
  <2>5. QED
      BY <1>1, <1>3, <1>4, <2>1, <2>3, <2>4
<1>15. CASE Remark(t)
  <2>1. PICK p \in {"idle", "settle"} : Goto(t, p)
      BY <1>15 DEF Remark
  <2>2. UNCHANGED <<cash, orders, job, ops, failures, base, credits, odd>>
      BY <1>15 DEF Remark, hist
  <2>3. p \in PaperPlaces /\ p \notin {"save", "position", "mark"}
      BY DEF PaperPlaces
  <2>4. Moved(t, p, job[t])
      BY <1>5, <2>1, <2>2, <2>3
  <2>5. position' \in [Orders -> {"none", "OPEN", "CLOSED"}]
      BY <1>1, <1>3, <1>15 DEF Remark
  <2>6. QED
      BY <1>1, <1>4, <2>2, <2>4, <2>5
<1>16. CASE Settle(t)
  <2>1. UNCHANGED <<cash, orders, position, ops, failures, base, credits, odd>>
      BY <1>16 DEF Settle, hist
  <2>2. CASE Goto(t, "idle") /\ UNCHANGED job
    <3>1. "idle" \in PaperPlaces
        BY DEF PaperPlaces
    <3>2. Moved(t, "idle", job[t])
        BY <1>5, <2>2, <3>1
    <3>3. QED
        BY <1>1, <1>4, <2>1, <3>2
  <2>3. CASE \E price \in Prices : Closing(t, job[t].order, price)
    <3>1. \E p, j : Moved(t, p, j)
        BY <1>3, <2>3, ClosingMoves
    <3>2. QED
        BY <1>1, <1>4, <2>1, <3>1
  <2>4. QED
      BY <1>16, <2>2, <2>3 DEF Settle
<1>17. CASE Deleted(t)
  <2>1. /\ Goto(t, "idle")
        /\ UNCHANGED <<cash, job, ops, failures, base, credits, odd>>
      BY <1>17 DEF Deleted, hist
  <2>2. "idle" \in PaperPlaces
      BY DEF PaperPlaces
  <2>3. Moved(t, "idle", job[t])
      BY <1>5, <2>1, <2>2
  <2>4. [orders[job[t].order] EXCEPT !.status = "deleted"] \in Rows
    <3>1. orders[job[t].order] \in Rows
        BY <1>1, <1>3
    <3>2. QED
        BY <3>1 DEF Rows
  <2>5. /\ \/ orders' = [orders EXCEPT ![job[t].order] =
                             [orders[job[t].order] EXCEPT !.status = "deleted"]]
           \/ orders' = orders
        /\ \/ position' = [position EXCEPT ![job[t].order] = "none"]
           \/ position' = position
      BY <1>1, <1>3, <1>17 DEF Deleted
  <2>6. orders' \in [Orders -> Rows]
      BY <1>1, <1>3, <2>4, <2>5
  <2>7. position' \in [Orders -> {"none", "OPEN", "CLOSED"}]
      BY <1>1, <1>3, <2>5
  <2>8. QED
      BY <1>1, <1>4, <2>1, <2>3, <2>6, <2>7
<1>18. CASE SetBalance(t)
  <2>1. /\ Goto(t, "idle") /\ cash' = Default /\ base' = Default - Realized
        /\ UNCHANGED <<orders, position, job, ops, failures, credits, odd>>
      BY <1>18 DEF SetBalance
  <2>2. "idle" \in PaperPlaces
      BY DEF PaperPlaces
  <2>3. Moved(t, "idle", job[t])
      BY <1>5, <2>1, <2>2
  <2>4. Realized \in Int
      BY <1>1, BooksAre
  <2>5. cash' \in Int /\ base' \in Int
      BY <2>1, <2>4, PaperNumbers
  <2>6. QED
      BY <1>1, <1>4, <2>1, <2>3, <2>5
<1>19. QED
  BY <1>6, <1>7, <1>8, <1>9, <1>10, <1>11, <1>12, <1>13, <1>14, <1>15, <1>16, <1>17, <1>18
     DEF Steps

(* The account begins well-typed ...                                       *)
LEMMA PaperTypeStarts == PaperInit => PaperTypeOK
<1>1. Unsaved \in Rows /\ NoJob \in Jobs /\ NoJob.then = "idle"
  BY JobsAre DEF NoJob
<1>2. "idle" \in PaperPlaces
  BY DEF PaperPlaces
<1>3. QED
  BY <1>1, <1>2, PaperNumbers DEF PaperInit, PaperTypeOK

(* ... and every step keeps the types.                                     *)
LEMMA PaperTypeStep ==
    ASSUME PaperTypeOK, [PaperNext]_paper_vars
    PROVE  PaperTypeOK'
<1>1. CASE UNCHANGED paper_vars
  BY <1>1 DEF paper_vars, PaperTypeOK
<1>2. CASE PaperNext
  BY <1>2, CallsKeepTypes, StepsKeepTypes DEF PaperNext
<1>3. QED
  BY <1>1, <1>2

(* Every variable of the paper account has its type, whatever the threads. *)
THEOREM PaperTypeCorrect == PaperSpec => []PaperTypeOK
<1>1. PaperTypeOK /\ [PaperNext]_paper_vars => PaperTypeOK'
  BY PaperTypeStep
<1>2. QED
  BY <1>1, PaperTypeStarts, PTL DEF PaperSpec

-----------------------------------------------------------------------------
(* When the calls do not overlap the books balance.  Until something is    *)
(* odd, every row is one that an open or a close has saved, ...            *)
RowsTrue ==
    \A o \in Orders :
        /\ orders[o].status = "none" => orders[o] = Unsaved
        /\ orders[o].status = "OPEN" => orders[o].pnl = 0
        /\ orders[o].status # "none" => orders[o].direction \in Directions
        /\ ~orders[o].settled => orders[o].quantity = 0

\* ... what the one thread has computed is what its order asks for, ...
OpenTrue(p, j) ==
    /\ p \in {"require", "read", "write", "save"} /\ j.op = "open"
    /\ orders[j.order].status = "none" /\ j.then = "save" /\ j.delta = -Cost(j.row)
    /\ j.row.status = "OPEN" /\ j.row.pnl = 0 /\ j.row.direction \in Directions
    /\ ~j.row.settled => j.row.quantity = 0

CloseTrue(p, j) ==
    /\ p \in {"read", "write", "save"} /\ j.op = "close"
    /\ orders[j.order].status = "OPEN" /\ j.then = "save"
    /\ \E price \in Prices :
          /\ j.row = Closed(orders[j.order], price)
          /\ j.delta = (IF orders[j.order].settled THEN price * orders[j.order].quantity ELSE 0)

CashOnly(p, j) ==
    p \in {"read", "write"} /\ j.op \in {"refund", "revert", "deposit"} /\ j.then = "idle"

JobTrue(p, j) ==
    LET row == orders[j.order]
    IN  /\ p \in {"require", "read", "write", "save"}
              => OpenTrue(p, j) \/ CloseTrue(p, j) \/ CashOnly(p, j)
        /\ p = "write" => j.read = cash
        /\ p = "position" => row = j.row
        /\ p \in {"mark", "remark", "settle"} => row.status = "OPEN"
        /\ p = "rewrite" => /\ row.status \in {"OPEN", "CLOSED"}
                            /\ j.row = [row EXCEPT !.status = "OPEN"]
        /\ p = "delete" => row.status = "CLOSED"
        /\ p = "set" => \A o \in Orders : orders[o].status # "OPEN"

\* ... cash that is out while a call runs is on its way, ...
OnItsWay(p, j) ==
    CASE p = "save" -> j.delta
      [] p \in {"read", "write"} /\ j.op \in {"refund", "revert"} -> -j.delta
      [] OTHER -> 0

MoneyTrue(p, j) ==
    /\ cash >= 0
    /\ p \in {"read", "write"} => cash + j.delta >= 0
    /\ p = "save" => cash - j.delta >= 0
    /\ Directions = {"BUY"} => cash + Invested = base + Realized + OnItsWay(p, j)

\* ... and only the order that is being saved is ahead of its position.
PositionsTrue(p, j) ==
    \A o \in Orders : \/ p = "position" /\ o = j.order
                      \/ orders[o].status \in {"OPEN", "CLOSED"} => position[o] = orders[o].status

PaperTrue(t) ==
    odd = {} => /\ RowsTrue /\ JobTrue(pc[t], job[t])
                /\ MoneyTrue(pc[t], job[t]) /\ PositionsTrue(pc[t], job[t])

PaperInv(t) == PaperTypeOK /\ PaperTrue(t)

(* While no row is written, the totals stay.                               *)
LEMMA BooksStay ==
    ASSUME UNCHANGED orders
    PROVE  Realized' = Realized /\ Invested' = Invested
BY DEF Realized, Invested, OrderList, Held, Cost

(* A step that writes neither rows nor cash has to agree only with what    *)
(* the thread takes along.                                                 *)
LEMMA PaperStill ==
    ASSUME NEW t \in Threads, NEW p, NEW j, RowsTrue, MoneyTrue(pc[t], job[t]),
           PositionsTrue(pc[t], job[t]), pc[t] # "position",
           UNCHANGED <<cash, orders, position, base>>, pc'[t] = p, job'[t] = j,
           JobTrue(p, j), OnItsWay(p, j) = OnItsWay(pc[t], job[t]),
           p \in {"read", "write"} => cash + j.delta >= 0,
           p = "save" => cash - j.delta >= 0
    PROVE  PaperTrue(t)'
<1>1. RowsTrue'
  BY DEF RowsTrue
<1>2. JobTrue(pc[t], job[t])'
  BY DEF JobTrue, OpenTrue, CloseTrue, CashOnly
<1>3. OnItsWay(pc[t], job[t])' = OnItsWay(p, j)
  BY DEF OnItsWay
<1>4. Realized' = Realized /\ Invested' = Invested
  BY BooksStay
<1>5. MoneyTrue(pc[t], job[t])'
  BY <1>3, <1>4 DEF MoneyTrue
<1>6. PositionsTrue(pc[t], job[t])'
  BY DEF PositionsTrue
<1>7. QED
  BY <1>1, <1>2, <1>5, <1>6 DEF PaperTrue

(* A call that begins keeps the books.                                     *)
LEMMA CallsKeepBooks ==
    ASSUME NEW t \in Threads, PaperInv(t), Calls(t)
    PROVE  PaperTrue(t)'
<1>1. /\ cash \in Int /\ orders \in [Orders -> Rows] /\ PaperTypeOK
      /\ pc \in [Threads -> PaperPlaces] /\ job \in [Threads -> Jobs]
  BY DEF PaperInv, PaperTypeOK
<1>2. UNCHANGED <<cash, orders, position, base, odd>> /\ Begin(t)
  BY ZenonT(30) DEF Calls, Open, Close, Monitor, Update, Delete, Deposit, ResetBalance, hist
<1>3. SUFFICES ASSUME odd = {}
               PROVE  PaperTrue(t)'
  BY <1>2 DEF PaperTrue
<1>4. /\ RowsTrue /\ MoneyTrue(pc[t], job[t]) /\ PositionsTrue(pc[t], job[t])
      /\ pc[t] = "idle"
  BY <1>2, <1>3 DEF PaperInv, PaperTrue, Begin
<1>5. cash >= 0 /\ OnItsWay(pc[t], job[t]) = 0 /\ pc[t] # "position"
  BY <1>4 DEF MoneyTrue, OnItsWay
<1>6. ASSUME NEW p, NEW j, pc'[t] = p, job'[t] = j, JobTrue(p, j), OnItsWay(p, j) = 0,
             p \in {"read", "write"} => cash + j.delta >= 0,
             p = "save" => cash - j.delta >= 0
      PROVE  PaperTrue(t)'
  BY <1>2, <1>4, <1>5, <1>6, PaperStill
<1>7. ASSUME NEW p \in {"mark", "rewrite", "delete"}, NEW j,
             Goto(t, p), job' = [job EXCEPT ![t] = j], JobTrue(p, j)
      PROVE  PaperTrue(t)'
  <2>1. pc'[t] = p /\ job'[t] = j
      BY <1>1, <1>7 DEF Goto
  <2>2. OnItsWay(p, j) = 0
      BY DEF OnItsWay
  <2>3. QED
      BY <1>6, <1>7, <2>1, <2>2
<1>8. ASSUME NEW o \in Orders, NEW d \in Directions, NEW e \in Prices, NEW q \in Quantities,
             Open(t, o, d, e, q)
      PROVE  PaperTrue(t)'
  <2>1. PICK j \in Jobs, p \in {"read", "save", "require"} :
              /\ Moved(t, p, j)
              /\ j.op = "open" /\ j.order = o /\ j.then = "save" /\ j.delta = -Cost(j.row)
              /\ j.row.status = "OPEN" /\ j.row.pnl = 0 /\ j.row.direction = d
              /\ ~j.row.settled => j.row.quantity = 0
              /\ p = "save" => j.delta = 0
              /\ p = "read" => cash + j.delta >= 0
      BY <1>1, <1>8, OpenMoves
  <2>2. pc'[t] = p /\ job'[t] = j
      BY <2>1 DEF Moved
  <2>3. OpenTrue(p, j)
      BY <1>8, <2>1 DEF OpenTrue, Open
  <2>4. JobTrue(p, j)
      BY <2>3 DEF JobTrue
  <2>5. OnItsWay(p, j) = 0
      BY <2>1 DEF OnItsWay
  <2>6. p = "save" => cash - j.delta >= 0
      BY <1>1, <1>5, <2>1
  <2>7. QED
      BY <1>6, <2>1, <2>2, <2>4, <2>5, <2>6
<1>9. ASSUME NEW o \in Orders, NEW price \in Prices, Close(t, o, price)
      PROVE  PaperTrue(t)'
  <2>1. Closing(t, o, price) /\ orders[o].status = "OPEN"
      BY <1>9 DEF Close
  <2>2. PICK j \in Jobs, p \in {"read", "save"} :
              /\ Moved(t, p, j)
              /\ j.op = "close" /\ j.order = o /\ j.then = "save"
              /\ j.row = Closed(orders[o], price) /\ j.delta \in Nat
              /\ j.delta = (IF orders[o].settled THEN price * orders[o].quantity ELSE 0)
              /\ p = "save" => j.delta = 0
      BY <1>1, <2>1, ClosingMoves
  <2>3. pc'[t] = p /\ job'[t] = j
      BY <2>2 DEF Moved
  <2>4. CloseTrue(p, j)
      BY <2>1, <2>2 DEF CloseTrue
  <2>5. JobTrue(p, j)
      BY <2>4 DEF JobTrue
  <2>6. OnItsWay(p, j) = 0
      BY <2>2 DEF OnItsWay
  <2>7. cash + j.delta >= 0 /\ (p = "save" => cash - j.delta >= 0)
      BY <1>1, <1>5, <2>2
  <2>8. QED
      BY <1>6, <2>3, <2>5, <2>6, <2>7
<1>10. ASSUME NEW o \in Orders, Monitor(t, o)
       PROVE  PaperTrue(t)'
  <2>1. PICK j : j = PlainJob("mark", o)
      OBVIOUS
  <2>2. /\ Goto(t, "mark") /\ job' = [job EXCEPT ![t] = j]
        /\ orders[o].status = "OPEN"
      BY <1>10, <2>1 DEF Monitor, PlainJob
  <2>3. j.order = o
      BY <2>1, PlainJobIs
  <2>4. JobTrue("mark", j)
      BY <2>2, <2>3 DEF JobTrue
  <2>5. QED
      BY <1>7, <2>2, <2>4
<1>11. ASSUME NEW o \in Orders, Update(t, o)
       PROVE  PaperTrue(t)'
  <2>1. PICK r : r = [orders[o] EXCEPT !.status = "OPEN"]
      OBVIOUS
  <2>2. r \in Rows
      BY <1>1, <2>1 DEF Rows
  <2>3. PICK j : j = UpdateJob(o, r)
      OBVIOUS
  <2>4. j.order = o /\ j.row = r
      BY <2>2, <2>3, UpdateJobIs
  <2>5. /\ Goto(t, "rewrite") /\ job' = [job EXCEPT ![t] = j]
        /\ orders[o].status \in {"OPEN", "CLOSED"}
      BY <1>11, <2>1, <2>3 DEF Update, UpdateJob
  <2>6. JobTrue("rewrite", j)
      BY <2>1, <2>4, <2>5 DEF JobTrue
  <2>7. QED
      BY <1>7, <2>5, <2>6
<1>12. ASSUME NEW o \in Orders, Delete(t, o)
       PROVE  PaperTrue(t)'
  <2>1. PICK j : j = PlainJob("delete", o)
      OBVIOUS
  <2>2. /\ Goto(t, "delete") /\ job' = [job EXCEPT ![t] = j]
        /\ orders[o].status = "CLOSED"
      BY <1>12, <2>1 DEF Delete, PlainJob
  <2>3. j.order = o
      BY <2>1, PlainJobIs
  <2>4. JobTrue("delete", j)
      BY <2>2, <2>3 DEF JobTrue
  <2>5. QED
      BY <1>7, <2>2, <2>4
<1>13. ASSUME NEW amount \in Deposits, Deposit(t, amount)
       PROVE  PaperTrue(t)'
  <2>1. PICK j \in Jobs : /\ Moved(t, "read", j)
                          /\ j.op = "deposit" /\ j.then = "idle" /\ j.delta \in Nat
      BY <1>1, <1>13, DepositMoves
  <2>2. pc'[t] = "read" /\ job'[t] = j
      BY <2>1 DEF Moved
  <2>3. JobTrue("read", j)
      BY <2>1 DEF JobTrue, CashOnly
  <2>4. OnItsWay("read", j) = 0
      BY <2>1 DEF OnItsWay
  <2>5. cash + j.delta >= 0
      BY <1>1, <1>5, <2>1
  <2>6. QED
      BY <1>6, <2>2, <2>3, <2>4, <2>5
<1>14. ASSUME ResetBalance(t)
       PROVE  PaperTrue(t)'
  <2>1. pc'[t] = "set" /\ job'[t] = job[t] /\ \A o \in Orders : orders[o].status # "OPEN"
      BY <1>1, <1>14 DEF ResetBalance, Goto
  <2>2. JobTrue("set", job[t])
      BY <2>1 DEF JobTrue
  <2>3. OnItsWay("set", job[t]) = 0
      BY DEF OnItsWay
  <2>4. QED
      BY <1>6, <2>1, <2>2, <2>3
<1>15. QED
  BY <1>8, <1>9, <1>10, <1>11, <1>12, <1>13, <1>14 DEF Calls

(* A step that writes neither rows nor cash keeps the books.               *)
LEMMA QuietStepsKeepBooks ==
    ASSUME NEW t \in Threads, PaperInv(t),
           \/ ReadBalance(t) \/ Require(t) \/ Finish(t) \/ Fail(t) \/ Mark(t)
           \/ Rewrite(t) \/ Remark(t) \/ Settle(t)
    PROVE  PaperTrue(t)'
<1> DEFINE o == job[t].order
           j == job[t]
<1>1. /\ cash \in Int /\ orders \in [Orders -> Rows] /\ PaperTypeOK
      /\ pc \in [Threads -> PaperPlaces] /\ job \in [Threads -> Jobs]
      /\ position \in [Orders -> {"none", "OPEN", "CLOSED"}]
  BY DEF PaperInv, PaperTypeOK
<1>2. j \in Jobs /\ o \in Orders /\ orders[o] \in Rows /\ j.delta \in Int
  BY <1>1 DEF Jobs
<1>3. UNCHANGED <<cash, base>> /\ odd \subseteq odd'
  BY DEF ReadBalance, Require, Finish, Fail, Mark, Rewrite, Remark, Settle, hist
<1>4. SUFFICES ASSUME odd' = {}
               PROVE  PaperTrue(t)'
  BY DEF PaperTrue
<1>5. odd = {}
  BY <1>3, <1>4
<1>6. /\ RowsTrue /\ MoneyTrue(pc[t], j) /\ PositionsTrue(pc[t], j) /\ JobTrue(pc[t], j)
  BY <1>5 DEF PaperInv, PaperTrue
<1> HIDE DEF j, o
<1>7. ASSUME NEW p, NEW k, pc'[t] = p, job'[t] = k, JobTrue(p, k), OnItsWay(p, k) = OnItsWay(pc[t], j),
             pc[t] # "position", UNCHANGED <<orders, position>>,
             p \in {"read", "write"} => cash + k.delta >= 0,
             p = "save" => cash - k.delta >= 0
      PROVE  PaperTrue(t)'
  BY <1>3, <1>6, <1>7, PaperStill DEF j
<1>8. CASE ReadBalance(t)
  <2>1. PICK k : k = [j EXCEPT !.read = cash]
      OBVIOUS
  <2>2. /\ pc[t] = "read" /\ pc'[t] = "write" /\ job'[t] = k /\ UNCHANGED <<orders, position>>
      BY <1>1, <1>8, <2>1 DEF ReadBalance, Goto, j
  <2>3. /\ k.op = j.op /\ k.order = j.order /\ k.row = j.row /\ k.delta = j.delta
        /\ k.then = j.then /\ k.read = cash
      BY <1>2, <2>1 DEF Jobs
  <2>4. JobTrue("write", k)
      BY <1>6, <2>2, <2>3 DEF JobTrue, OpenTrue, CloseTrue, CashOnly
  <2>5. OnItsWay("write", k) = OnItsWay(pc[t], j)
      BY <2>2, <2>3 DEF OnItsWay
  <2>6. cash + k.delta >= 0
      BY <1>6, <2>2, <2>3 DEF MoneyTrue
  <2>7. QED
      BY <1>7, <2>2, <2>4, <2>5, <2>6
<1>9. CASE Require(t)
  <2>1. /\ pc[t] = "require" /\ job'[t] = j /\ UNCHANGED <<orders, position>>
        /\ pc'[t] = (IF Cost(j.row) > cash THEN "idle" ELSE "read")
      BY <1>1, <1>9 DEF Require, Goto, j
  <2>2. OpenTrue("require", j)
      BY <1>6, <2>1 DEF JobTrue, CloseTrue, CashOnly
  <2>3. OnItsWay(pc[t], j) = 0
      BY <2>1 DEF OnItsWay
  <2>4. CASE Cost(j.row) > cash
    <3>1. JobTrue("idle", j) /\ OnItsWay("idle", j) = 0 /\ pc'[t] = "idle"
        BY <2>1, <2>4 DEF JobTrue, OnItsWay
    <3>2. QED
        BY <1>7, <2>1, <2>3, <3>1
  <2>5. CASE ~(Cost(j.row) > cash)
    <3>1. j.row \in Rows
        BY <1>2 DEF Jobs
    <3>2. Cost(j.row) \in Nat
        BY <3>1, CostIs
    <3>3. cash + j.delta >= 0
        BY <1>1, <2>2, <2>5, <3>2 DEF OpenTrue
    <3>4. OpenTrue("read", j) /\ pc'[t] = "read"
        BY <2>1, <2>2, <2>5 DEF OpenTrue
    <3>5. JobTrue("read", j) /\ OnItsWay("read", j) = 0
        BY <3>4 DEF JobTrue, OnItsWay, OpenTrue
    <3>6. QED
        BY <1>7, <2>1, <2>3, <3>3, <3>4, <3>5
  <2>6. QED
      BY <2>4, <2>5
<1>10. CASE Finish(t)
  <2>1. /\ pc[t] = "finish" /\ pc'[t] = "idle" /\ job'[t] = j /\ UNCHANGED <<orders, position>>
      BY <1>1, <1>10 DEF Finish, Goto, j
  <2>2. JobTrue("idle", j) /\ OnItsWay("idle", j) = OnItsWay(pc[t], j)
      BY <2>1 DEF JobTrue, OnItsWay
  <2>3. QED
      BY <1>7, <2>1, <2>2
<1>11. CASE Fail(t)
  <2>1. pc[t] = "save" /\ UNCHANGED <<orders, position>>
      BY <1>4, <1>11 DEF Fail
  <2>2. PICK k \in Jobs, p \in {"read", "idle"} :
              /\ Moved(t, p, k)
              /\ k.op \in {"revert", "refund"} /\ k.then = "idle"
              /\ k.delta = -j.delta
              /\ p = "idle" => k.delta = 0
      BY <1>1, <1>11, FailMoves DEF j
  <2>3. pc'[t] = p /\ job'[t] = k
      BY <2>2 DEF Moved
  <2>4. JobTrue(p, k)
      BY <2>2 DEF JobTrue, CashOnly
  <2>5. OnItsWay(pc[t], j) = j.delta
      BY <2>1 DEF OnItsWay
  <2>6. OnItsWay(p, k) = j.delta
      BY <1>2, <2>2 DEF OnItsWay
  <2>7. p \in {"read", "write"} => cash + k.delta >= 0
      BY <1>1, <1>2, <1>6, <2>1, <2>2 DEF MoneyTrue
  <2>8. QED
      BY <1>7, <2>1, <2>2, <2>3, <2>4, <2>5, <2>6, <2>7
<1>12. CASE Mark(t)
  <2>1. PICK k : k = [j EXCEPT !.row = orders[o]]
      OBVIOUS
  <2>2. pc[t] = "mark" /\ orders[o].status = "OPEN"
      BY <1>6, <1>12 DEF Mark, JobTrue, o, j
  <2>3. /\ pc'[t] = "rewrite" /\ job'[t] = k /\ UNCHANGED <<orders, position>>
      BY <1>1, <1>12, <2>1, <2>2 DEF Mark, Goto, j, o
  <2>4. k.order = o /\ k.row = orders[o]
      BY <1>2, <2>1 DEF Jobs, o, j
  <2>5. [orders[o] EXCEPT !.status = "OPEN"] = orders[o]
      BY <1>2, <2>2 DEF Rows
  <2>6. JobTrue("rewrite", k)
      BY <2>2, <2>4, <2>5 DEF JobTrue
  <2>7. OnItsWay("rewrite", k) = OnItsWay(pc[t], j)
      BY <2>2 DEF OnItsWay
  <2>8. QED
      BY <1>7, <2>2, <2>3, <2>6, <2>7
<1>13. CASE Rewrite(t)
  <2>1. /\ pc[t] = "rewrite" /\ pc'[t] = "remark" /\ job'[t] = j /\ UNCHANGED position
        /\ orders' = [orders EXCEPT ![o] = j.row]
      BY <1>1, <1>13 DEF Rewrite, Goto, j, o
  <2>2. /\ orders[o].status \in {"OPEN", "CLOSED"}
        /\ j.row = [orders[o] EXCEPT !.status = "OPEN"]
      BY <1>6, <2>1 DEF JobTrue, o, j
  <2>3. j.row.status = "OPEN"
      BY <1>2, <2>2 DEF Rows
  <2>4. orders[o].status = "OPEN"
      BY <1>4, <1>13, <2>3 DEF Rewrite, o, j
  <2>5. j.row = orders[o]
      BY <1>2, <2>2, <2>4 DEF Rows
  <2>6. orders' = orders
      BY <1>1, <1>2, <2>1, <2>5
  <2>7. JobTrue("remark", j)
      BY <2>4 DEF JobTrue, o, j
  <2>8. OnItsWay("remark", j) = OnItsWay(pc[t], j)
      BY <2>1 DEF OnItsWay
  <2>9. QED
      BY <1>7, <2>1, <2>6, <2>7, <2>8
<1>14. CASE Remark(t)
  <2>1. PICK p \in {"idle", "settle"} : Goto(t, p)
      BY <1>14 DEF Remark
  <2>2. pc[t] = "remark" /\ pc'[t] = p /\ job'[t] = j /\ UNCHANGED orders
      BY <1>1, <1>14, <2>1 DEF Remark, Goto, j
  <2>3. orders[o].status = "OPEN"
      BY <1>6, <2>2 DEF JobTrue, o, j
  <2>4. position[o] = "OPEN"
      BY <1>2, <1>6, <2>2, <2>3 DEF PositionsTrue
  <2>5. position' = position
      BY <1>1, <1>14, <2>4 DEF Remark, o, j
  <2>6. JobTrue(p, j)
      BY <2>3 DEF JobTrue, o, j
  <2>7. OnItsWay(p, j) = OnItsWay(pc[t], j)
      BY <2>2 DEF OnItsWay
  <2>8. QED
      BY <1>7, <2>2, <2>5, <2>6, <2>7
<1>15. CASE Settle(t)
  <2>1. pc[t] = "settle" /\ UNCHANGED <<orders, position>>
      BY <1>15 DEF Settle
  <2>2. orders[o].status = "OPEN"
      BY <1>6, <2>1 DEF JobTrue, o, j
  <2>3. PICK price \in Prices : Closing(t, o, price)
      BY <1>15, <2>2 DEF Settle, o, j
  <2>4. PICK k \in Jobs, p \in {"read", "save"} :
              /\ Moved(t, p, k)
              /\ k.op = "close" /\ k.order = o /\ k.then = "save"
              /\ k.row = Closed(orders[o], price) /\ k.delta \in Nat
              /\ k.delta = (IF orders[o].settled THEN price * orders[o].quantity ELSE 0)
              /\ p = "save" => k.delta = 0
      BY <1>1, <1>2, <2>3, ClosingMoves
  <2>5. pc'[t] = p /\ job'[t] = k
      BY <2>4 DEF Moved
  <2>6. CloseTrue(p, k)
      BY <2>2, <2>4 DEF CloseTrue
  <2>7. JobTrue(p, k)
      BY <2>4, <2>6 DEF JobTrue
  <2>8. OnItsWay(p, k) = 0 /\ OnItsWay(pc[t], j) = 0
      BY <2>1, <2>4 DEF OnItsWay
  <2>9. cash + k.delta >= 0 /\ (p = "save" => cash - k.delta >= 0)
      BY <1>1, <1>6, <2>4 DEF MoneyTrue
  <2>10. QED
      BY <1>7, <2>1, <2>5, <2>7, <2>8, <2>9
<1>16. QED
  BY <1>8, <1>9, <1>10, <1>11, <1>12, <1>13, <1>14, <1>15

(* A step that writes a row or the cash keeps the books.                   *)
LEMMA WritingStepsKeepBooks ==
    ASSUME NEW t \in Threads, PaperInv(t),
           \/ WriteBalance(t) \/ SaveOrder(t) \/ SavePosition(t) \/ Deleted(t) \/ SetBalance(t)
    PROVE  PaperTrue(t)'
<1> DEFINE o == job[t].order
           j == job[t]
<1>1. /\ cash \in Int /\ base \in Int /\ orders \in [Orders -> Rows]
      /\ pc \in [Threads -> PaperPlaces] /\ job \in [Threads -> Jobs]
      /\ position \in [Orders -> {"none", "OPEN", "CLOSED"}]
  BY DEF PaperInv, PaperTypeOK
<1>2. j \in Jobs /\ o \in Orders /\ orders[o] \in Rows /\ j.delta \in Int /\ j.row \in Rows
  BY <1>1 DEF Jobs
<1>3. UNCHANGED odd /\ UNCHANGED job
  BY DEF WriteBalance, SaveOrder, SavePosition, Deleted, SetBalance, hist
<1>4. SUFFICES ASSUME odd' = {}
               PROVE  PaperTrue(t)'
  BY DEF PaperTrue
<1>5. /\ RowsTrue /\ MoneyTrue(pc[t], j) /\ PositionsTrue(pc[t], j) /\ JobTrue(pc[t], j)
  BY <1>3, <1>4 DEF PaperInv, PaperTrue
<1>6. cash >= 0 /\ Realized \in Int /\ Invested \in Int
  BY <1>1, <1>5, BooksAre DEF MoneyTrue
<1>7. j' = j /\ o' = o
  BY <1>3
<1> HIDE DEF j, o
<1>8. ASSUME NEW p, pc'[t] = p, RowsTrue', JobTrue(p, j)', MoneyTrue(p, j)', PositionsTrue(p, j)'
      PROVE  PaperTrue(t)'
  BY <1>8 DEF PaperTrue, JobTrue, OpenTrue, CloseTrue, CashOnly, MoneyTrue, PositionsTrue, OnItsWay, j
<1>9. CASE WriteBalance(t)
  <2>1. /\ pc[t] = "write" /\ pc'[t] = j.then /\ cash' = j.read + j.delta
        /\ base' = (IF j.op = "deposit" THEN base + j.delta ELSE base)
        /\ UNCHANGED <<orders, position>>
      BY <1>1, <1>9 DEF WriteBalance, Goto, j
  <2>2. cash' = cash + j.delta /\ cash' >= 0
      BY <1>5, <2>1 DEF JobTrue, MoneyTrue
  <2>3. RowsTrue' /\ Realized' = Realized /\ Invested' = Invested
      BY <1>5, <2>1, BooksStay DEF RowsTrue
  <2>4. CASE OpenTrue("write", j) \/ CloseTrue("write", j)
    <3>1. j.then = "save" /\ j.op \in {"open", "close"} /\ base' = base
        BY <2>1, <2>4 DEF OpenTrue, CloseTrue
    <3>2. OpenTrue("save", j)' \/ CloseTrue("save", j)'
        BY <1>7, <2>1, <2>4 DEF OpenTrue, CloseTrue
    <3>3. JobTrue("save", j)'
        BY <3>2 DEF JobTrue
    <3>4. OnItsWay("write", j) = 0 /\ OnItsWay("save", j)' = j.delta
        BY <1>7, <3>1 DEF OnItsWay
    <3>5. cash' - j.delta >= 0
        BY <1>1, <1>2, <1>6, <2>2
    <3>6. Directions = {"BUY"} => cash' + Invested' = base' + Realized' + j.delta
        BY <1>1, <1>2, <1>5, <1>6, <2>1, <2>2, <2>3, <3>1, <3>4 DEF MoneyTrue
    <3>7. MoneyTrue("save", j)'
        BY <1>7, <2>2, <3>4, <3>5, <3>6 DEF MoneyTrue
    <3>8. PositionsTrue("save", j)'
        BY <1>5, <2>1 DEF PositionsTrue
    <3>9. QED
        BY <1>8, <2>1, <2>3, <3>1, <3>3, <3>7, <3>8
  <2>5. CASE CashOnly("write", j)
    <3>1. j.then = "idle" /\ j.op \in {"refund", "revert", "deposit"}
        BY <2>5 DEF CashOnly
    <3>2. JobTrue("idle", j)' /\ OnItsWay("idle", j)' = 0
        BY DEF JobTrue, OnItsWay
    <3>3. PositionsTrue("idle", j)'
        BY <1>5, <2>1 DEF PositionsTrue
    <3>4. OnItsWay("write", j) = (IF j.op = "deposit" THEN 0 ELSE -j.delta)
        BY <3>1 DEF OnItsWay
    <3>5. Directions = {"BUY"} => cash' + Invested' = base' + Realized'
        BY <1>1, <1>2, <1>5, <1>6, <2>1, <2>2, <2>3, <3>1, <3>4 DEF MoneyTrue
    <3>6. base' \in Int /\ Realized' \in Int
        BY <1>1, <1>2, <1>6, <2>1, <2>3
    <3>7. MoneyTrue("idle", j)'
        BY <2>2, <3>2, <3>5, <3>6 DEF MoneyTrue
    <3>8. QED
        BY <1>8, <2>1, <2>3, <3>1, <3>2, <3>3, <3>7
  <2>6. QED
      BY <1>5, <2>1, <2>4, <2>5 DEF JobTrue, OpenTrue, CloseTrue, CashOnly
<1>10. CASE SavePosition(t)
  <2>1. /\ pc[t] = "position" /\ pc'[t] = "finish" /\ UNCHANGED <<cash, orders, base>>
        /\ position' = [position EXCEPT ![o] = j.row.status]
      BY <1>1, <1>10 DEF SavePosition, Goto, hist, j, o
  <2>2. orders[o] = j.row
      BY <1>5, <2>1 DEF JobTrue, o, j
  <2>3. RowsTrue' /\ Realized' = Realized /\ Invested' = Invested
      BY <1>5, <2>1, BooksStay DEF RowsTrue
  <2>4. JobTrue("finish", j)' /\ OnItsWay("finish", j)' = 0 /\ OnItsWay("position", j) = 0
      BY DEF JobTrue, OnItsWay
  <2>5. MoneyTrue("finish", j)'
      BY <1>5, <2>1, <2>3, <2>4 DEF MoneyTrue
  <2>6. PositionsTrue("finish", j)'
      BY <1>1, <1>2, <1>5, <2>1, <2>2 DEF PositionsTrue, o, j
  <2>7. QED
      BY <1>8, <2>1, <2>3, <2>4, <2>5, <2>6
<1>11. CASE SetBalance(t)
  <2>1. /\ pc[t] = "set" /\ pc'[t] = "idle" /\ UNCHANGED <<orders, position>>
        /\ cash' = Default /\ base' = Default - Realized
      BY <1>1, <1>11 DEF SetBalance, Goto
  <2>2. RowsTrue' /\ Realized' = Realized /\ Invested' = Invested
      BY <1>5, <2>1, BooksStay DEF RowsTrue
  <2>3. \A q \in Orders : orders[q].status # "OPEN"
      BY <1>5, <2>1 DEF JobTrue
  <2>4. Invested = 0
      BY <1>1, <2>3, BooksAre
  <2>5. JobTrue("idle", j)' /\ OnItsWay("idle", j)' = 0
      BY DEF JobTrue, OnItsWay
  <2>6. Default \in Nat
      BY PaperNumbers
  <2>7. MoneyTrue("idle", j)'
      BY <1>6, <2>1, <2>2, <2>4, <2>5, <2>6 DEF MoneyTrue
  <2>8. PositionsTrue("idle", j)'
      BY <1>5, <2>1 DEF PositionsTrue
  <2>9. QED
      BY <1>8, <2>1, <2>2, <2>5, <2>7, <2>8
<1>12. CASE SaveOrder(t)
  <2>1. /\ pc[t] = "save" /\ pc'[t] = "position" /\ UNCHANGED <<cash, position, base>>
        /\ orders' = [orders EXCEPT ![o] = j.row]
      BY <1>1, <1>12 DEF SaveOrder, Goto, hist, j, o
  <2>2. /\ Realized' = Realized + j.row.pnl - orders[o].pnl
        /\ Invested' = Invested + Held(j.row) - Held(orders[o])
      BY <1>1, <1>2, <2>1, BooksChange
  <2>3. /\ orders'[o] = j.row /\ orders' \in [Orders -> Rows]
        /\ \A q \in Orders : q # o => orders'[q] = orders[q]
      BY <1>1, <1>2, <2>1
  <2>4. JobTrue("position", j)'
      BY <1>7, <2>3 DEF JobTrue, o, j
  <2>5. OnItsWay("position", j)' = 0 /\ OnItsWay("save", j) = j.delta
      BY DEF OnItsWay
  <2>6. PositionsTrue("position", j)'
      BY <1>5, <1>7, <2>1, <2>3 DEF PositionsTrue, o, j
  <2>7. OpenTrue("save", j) \/ CloseTrue("save", j)
      BY <1>5, <2>1 DEF JobTrue, CashOnly
  <2>8. Directions = {"BUY"} => cash + Invested = base + Realized + j.delta
      BY <1>5, <2>1, <2>5 DEF MoneyTrue
  <2>9. SUFFICES /\ j.row.status \in {"OPEN", "CLOSED"}
                 /\ j.row.status = "OPEN" => j.row.pnl = 0
                 /\ j.row.direction \in Directions
                 /\ ~j.row.settled => j.row.quantity = 0
                 /\ Directions = {"BUY"}
                       => Held(j.row) - Held(orders[o]) + j.delta = j.row.pnl - orders[o].pnl
    <3>1. ASSUME /\ j.row.status \in {"OPEN", "CLOSED"}
                 /\ j.row.status = "OPEN" => j.row.pnl = 0
                 /\ j.row.direction \in Directions
                 /\ ~j.row.settled => j.row.quantity = 0,
                 Directions = {"BUY"}
                    => Held(j.row) - Held(orders[o]) + j.delta = j.row.pnl - orders[o].pnl
          PROVE  PaperTrue(t)'
      <4>1. RowsTrue'
          BY <1>5, <2>3, <3>1 DEF RowsTrue
      <4>2. /\ Held(j.row) \in Int /\ Held(orders[o]) \in Int
            /\ j.row.pnl \in Int /\ orders[o].pnl \in Int
          BY <1>2, CostIs
      <4>3. Directions = {"BUY"} => cash' + Invested' = base' + Realized'
          BY <1>1, <1>2, <1>6, <2>1, <2>2, <2>8, <3>1, <4>2
      <4>4. base' \in Int /\ Realized' \in Int
          BY <1>1, <1>6, <2>1, <2>2, <4>2
      <4>5. MoneyTrue("position", j)'
          BY <1>6, <2>1, <2>5, <4>3, <4>4 DEF MoneyTrue
      <4>6. QED
          BY <1>8, <2>1, <2>4, <2>6, <4>1, <4>5
    <3>2. QED
        BY <3>1
  <2>10. CASE OpenTrue("save", j)
    <3>1. orders[o] = Unsaved /\ Held(Unsaved) = 0 /\ orders[o].pnl = 0
        BY <1>2, <1>5, <2>10 DEF OpenTrue, RowsTrue, Unsaved, Held, o, j
    <3>2. Held(j.row) = Cost(j.row) /\ Cost(j.row) \in Nat /\ j.delta = -Cost(j.row)
        BY <1>2, <2>10, CostIs DEF OpenTrue, Held
    <3>3. /\ j.row.status = "OPEN" /\ j.row.pnl = 0 /\ j.row.direction \in Directions
          /\ ~j.row.settled => j.row.quantity = 0
        BY <2>10 DEF OpenTrue
    <3>4. Held(j.row) - Held(orders[o]) + j.delta = j.row.pnl - orders[o].pnl
        BY <3>1, <3>2, <3>3
    <3>5. QED
        BY <3>3, <3>4
  <2>11. CASE CloseTrue("save", j)
    <3>1. PICK price \in Prices :
              /\ j.row = Closed(orders[o], price)
              /\ j.delta = (IF orders[o].settled THEN price * orders[o].quantity ELSE 0)
        BY <2>11 DEF CloseTrue, o, j
    <3>2. /\ orders[o].status = "OPEN" /\ orders[o].pnl = 0
          /\ orders[o].direction \in Directions
          /\ ~orders[o].settled => orders[o].quantity = 0
        BY <1>2, <1>5, <2>11 DEF CloseTrue, RowsTrue, o, j
    <3>3. PICK row \in Rows : row = orders[o]
        BY <1>2
    <3>4. PICK e \in Nat, q \in Nat, n \in Nat : e = row.entry /\ q = row.quantity /\ n = price
        BY CostIs, PaperNumbers
    <3>5. j.row = [row EXCEPT !.status = "CLOSED",
                              !.pnl = (n - e) * q * Multiplier(row.direction)]
        BY <3>1, <3>3, <3>4 DEF Closed
    <3>6. /\ j.row.status = "CLOSED" /\ j.row.direction = row.direction
          /\ j.row.settled = row.settled /\ j.row.quantity = row.quantity
          /\ j.row.pnl = (n - e) * q * Multiplier(row.direction)
        BY <3>5 DEF Rows
    <3>7. j.delta = n * q
      <4>1. CASE row.settled
          BY <3>1, <3>3, <3>4, <4>1
      <4>2. CASE ~row.settled
          BY <3>1, <3>2, <3>3, <3>4, <4>2
      <4>3. QED
          BY <4>1, <4>2
    <3>8. Held(j.row) = 0 /\ Held(orders[o]) = e * q
        BY <3>2, <3>3, <3>4, <3>6 DEF Held, Cost
    <3>9. ASSUME Directions = {"BUY"}
          PROVE  j.row.pnl = n * q - e * q
      <4>1. Multiplier(row.direction) = 1
          BY <3>2, <3>3, <3>9 DEF Multiplier
      <4>2. (n - e) * q * 1 = n * q - e * q
          BY SMT
      <4>3. QED
          BY <3>6, <4>1, <4>2
    <3>10. ASSUME Directions = {"BUY"}
           PROVE  Held(j.row) - Held(orders[o]) + j.delta = j.row.pnl - orders[o].pnl
      <4>1. PICK a \in Nat, b \in Nat : a = n * q /\ b = e * q
          OBVIOUS
      <4>2. QED
          BY <3>2, <3>7, <3>8, <3>9, <3>10, <4>1
    <3>11. /\ j.row.status = "CLOSED" /\ j.row.direction \in Directions
           /\ ~j.row.settled => j.row.quantity = 0
        BY <3>2, <3>3, <3>6
    <3>12. QED
        BY <3>10, <3>11
  <2>12. QED
      BY <2>7, <2>10, <2>11
<1>13. CASE Deleted(t)
  <2>1. /\ pc[t] = "delete" /\ pc'[t] = "idle" /\ UNCHANGED <<cash, base>>
      BY <1>1, <1>13 DEF Deleted, Goto, hist
  <2>2. orders[o].status = "CLOSED"
      BY <1>5, <2>1 DEF JobTrue, o, j
  <2>3. PICK r : r = [orders[o] EXCEPT !.status = "deleted"]
      OBVIOUS
  <2>4. /\ r \in Rows /\ r.status = "deleted" /\ r.pnl = orders[o].pnl
        /\ r.direction = orders[o].direction /\ r.settled = orders[o].settled
        /\ r.quantity = orders[o].quantity
      BY <1>2, <2>3 DEF Rows
  <2>5. orders' = [orders EXCEPT ![o] = r] /\ position' = [position EXCEPT ![o] = "none"]
      BY <1>1, <1>2, <1>13, <2>2, <2>3 DEF Deleted, o, j
  <2>6. /\ Realized' = Realized + r.pnl - orders[o].pnl
        /\ Invested' = Invested + Held(r) - Held(orders[o])
      BY <1>1, <1>2, <2>4, <2>5, BooksChange
  <2>7. Held(r) = 0 /\ Held(orders[o]) = 0
      BY <2>2, <2>4 DEF Held
  <2>8. orders[o].pnl \in Int
      BY <1>2, CostIs
  <2>9. Realized' = Realized /\ Invested' = Invested
      BY <1>6, <2>4, <2>6, <2>7, <2>8
  <2>10. /\ orders'[o] = r
         /\ \A q \in Orders : q # o => orders'[q] = orders[q] /\ position'[q] = position[q]
      BY <1>1, <1>2, <2>5
  <2>11. RowsTrue'
      BY <1>2, <1>5, <2>2, <2>4, <2>10 DEF RowsTrue
  <2>12. JobTrue("idle", j)' /\ OnItsWay("idle", j)' = 0 /\ OnItsWay("delete", j) = 0
      BY DEF JobTrue, OnItsWay
  <2>13. MoneyTrue("idle", j)'
      BY <1>5, <2>1, <2>9, <2>12 DEF MoneyTrue
  <2>14. PositionsTrue("idle", j)'
      BY <1>5, <2>1, <2>4, <2>10 DEF PositionsTrue
  <2>15. QED
      BY <1>8, <2>1, <2>11, <2>12, <2>13, <2>14
<1>14. QED
  BY <1>9, <1>10, <1>11, <1>12, <1>13

(* What the run checks, for every set of orders, prices and quantities and *)
(* every bound, while the calls do not overlap: the money adds up, the     *)
(* positions follow the orders and the account is not overdrawn.           *)
THEOREM PaperCorrect ==
    ASSUME NEW t, Threads = {t}
    PROVE  PaperSpec => []PaperInv(t)
<1>1. PaperInit => PaperTrue(t)
  <2>1. SUFFICES ASSUME PaperInit
                 PROVE  PaperTrue(t)
      OBVIOUS
  <2>2. /\ cash = Default /\ base = Default /\ orders = [o \in Orders |-> Unsaved]
        /\ pc[t] = "idle" /\ \A o \in Orders : orders[o] = Unsaved
      BY <2>1 DEF PaperInit
  <2>3. /\ Unsaved.status = "none" /\ Unsaved.pnl = 0 /\ Unsaved.settled = TRUE
      BY DEF Unsaved
  <2>4. RowsTrue /\ JobTrue(pc[t], job[t]) /\ PositionsTrue(pc[t], job[t])
      BY <2>2, <2>3 DEF RowsTrue, JobTrue, PositionsTrue
  <2>5. orders \in [Orders -> Rows]
      BY <2>2, JobsAre
  <2>6. Invested = 0 /\ Realized = 0
    <3>1. Invested = 0
        BY <2>2, <2>3, <2>5, BooksAre
    <3> DEFINE f == [o \in Orders |-> orders[o].pnl]
    <3>2. \A o \in Orders : orders[o].pnl = 0
        BY <2>2, <2>3
    <3>3. f \in [Orders -> Int] /\ \A o \in Orders : f[o] = 0
        BY <3>2
    <3>4. Realized = Total(OrderList, f)
        BY DEF Realized
    <3> HIDE DEF f
    <3>5. Total(OrderList, f) = 0
        BY <3>3, OrderListIs, TotalIs
    <3>6. QED
        BY <3>1, <3>4, <3>5
  <2>7. OnItsWay(pc[t], job[t]) = 0 /\ Default \in Nat
      BY <2>2, PaperNumbers DEF OnItsWay
  <2>8. MoneyTrue(pc[t], job[t])
      BY <2>2, <2>6, <2>7 DEF MoneyTrue
  <2>9. QED
      BY <2>4, <2>8 DEF PaperTrue
<1>2. PaperTrue(t) /\ PaperTypeOK /\ [PaperNext]_paper_vars => PaperTrue(t)'
  <2>1. SUFFICES ASSUME PaperTrue(t), PaperTypeOK, [PaperNext]_paper_vars
                 PROVE  PaperTrue(t)'
      OBVIOUS
  <2>2. PaperInv(t) /\ t \in Threads
      BY <2>1 DEF PaperInv
  <2>3. CASE UNCHANGED paper_vars
    <3>1. /\ UNCHANGED <<cash, orders, position, base, odd>>
          /\ pc'[t] = pc[t] /\ job'[t] = job[t]
        BY <2>3 DEF paper_vars
    <3>2. Realized' = Realized /\ Invested' = Invested
        BY <3>1, BooksStay
    <3>3. QED
        BY <2>1, <3>1, <3>2 DEF PaperTrue, RowsTrue, JobTrue, OpenTrue, CloseTrue, CashOnly,
                                MoneyTrue, OnItsWay, PositionsTrue
  <2>4. CASE PaperNext
    <3>1. Calls(t) \/ Steps(t)
        BY <2>4 DEF PaperNext
    <3>2. QED
        BY <2>2, <3>1, CallsKeepBooks, QuietStepsKeepBooks, WritingStepsKeepBooks DEF Steps
  <2>5. QED
      BY <2>1, <2>3, <2>4
<1>3. PaperSpec => []PaperTrue(t)
  BY <1>1, <1>2, PaperTypeCorrect, PTL DEF PaperSpec
<1>4. QED
  BY <1>3, PaperTypeCorrect, PTL DEF PaperInv

(* Between calls that do not overlap, free cash and invested capital are   *)
(* what was paid in and what closed long orders have earned, an order and  *)
(* its position agree, and the account is never overdrawn.                 *)
THEOREM BooksHold ==
    ASSUME NEW t, Threads = {t}
    PROVE  PaperSpec => []BooksBalance
<1>1. PaperInv(t) => BooksBalance
  <2>1. SUFFICES ASSUME PaperInv(t)
                 PROVE  BooksBalance
      OBVIOUS
  <2>2. /\ odd = {} => /\ MoneyTrue(pc[t], job[t]) /\ PositionsTrue(pc[t], job[t])
      BY <2>1 DEF PaperInv, PaperTrue
  <2>3. ASSUME Quiet
        PROVE  odd = {} /\ pc[t] = "idle" /\ OnItsWay(pc[t], job[t]) = 0
      BY <2>3 DEF Quiet, OnItsWay
  <2>4. Quiet => PositionsTrue("idle", job[t])
      BY <2>2, <2>3
  <2>5. PositionFollowsOrder
      BY <2>4 DEF PositionFollowsOrder, PositionsTrue
  <2>6. NeverOverdrawn
      BY <2>2 DEF NeverOverdrawn, MoneyTrue
  <2>7. base \in Int /\ Realized \in Int
      BY <2>1, BooksAre DEF PaperInv, PaperTypeOK
  <2>8. Quiet /\ Directions = {"BUY"} => cash + Invested = base + Realized
      BY <2>2, <2>3, <2>7 DEF MoneyTrue
  <2>9. QED
      BY <2>5, <2>6, <2>8 DEF BooksBalance
<1>2. PaperSpec => []PaperInv(t)
  BY PaperCorrect
<1>3. QED
  BY <1>1, <1>2, PTL
=============================================================================
