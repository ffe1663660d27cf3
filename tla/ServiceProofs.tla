---------------------------- MODULE ServiceProofs ----------------------------
(***************************************************************************)
(* Theorems about the services that run beside the scans: AutonomousLoop,  *)
(* for any API threads and any number of loop threads, BundleCache, for    *)
(* any intervals, any map to higher ones and any pool, UserStream, for any *)
(* ages, and the run of all three in MCServices.                           *)
(***************************************************************************)
EXTENDS MCServices, FiniteSetTheorems, TLAPS

-----------------------------------------------------------------------------
(* AutonomousLoop.                                                         *)

ThreadType == [at : ThreadAt, enabled : BOOLEAN, manual : BOOLEAN]
ClientType == [at : ClientAt, op : {"none", "trigger", "settings"}]

(* The rest of a type, when a thread changes and the requests do not.      *)
LEMMA ThreadChanges ==
    ASSUME LoopTypeOK, NEW w \in Slots, NEW u \in ThreadType, u.at = "off" => u = Ended,
           thread' = [thread EXCEPT ![w] = u]
    PROVE  /\ thread' \in [Slots -> ThreadType]
           /\ \A v \in Slots : thread'[v].at = "off" => thread'[v] = Ended
BY DEF LoopTypeOK, ThreadType

(* A thread that goes elsewhere keeps its type.                            *)
LEMMA ThreadGoes ==
    ASSUME LoopTypeOK, NEW w \in Slots, NEW place \in ThreadAt \ {"off"}, Go(w, place)
    PROVE  /\ thread' \in [Slots -> ThreadType]
           /\ \A v \in Slots : thread'[v].at = "off" => thread'[v] = Ended
<1> DEFINE u == [thread[w] EXCEPT !.at = place]
<1>1. u \in ThreadType /\ u.at # "off"
  BY DEF LoopTypeOK, ThreadType
<1>2. thread' = [thread EXCEPT ![w] = u]
  BY DEF Go
<1>3. QED
  BY <1>1, <1>2, ThreadChanges

(* Each step keeps the types.                                              *)
LEMMA LoopTypeStep ==
    ASSUME LoopTypeOK, [LoopNext]_loop_vars
    PROVE  LoopTypeOK'
<1> USE LoopAssumption DEF Step, Outage, shared
<1>0. /\ Ended \in ThreadType /\ Begun \in ThreadType /\ Begun.at = "top"
      /\ \A w \in Slots : thread[w] \in ThreadType
      /\ thread \in [Slots -> ThreadType] /\ client \in [Clients -> ClientType]
  BY DEF LoopTypeOK, ThreadType, ClientType, Ended, Begun, ThreadAt
<1>1. ASSUME NEW w \in Slots, Turn(w) PROVE LoopTypeOK'
  <2>0. /\ thread' \in [Slots -> ThreadType]
        /\ \A v \in Slots : thread'[v].at = "off" => thread'[v] = Ended
    <3>1. CASE ReadSettings(w)
      <4> DEFINE u == IF stop THEN Ended ELSE [thread[w] EXCEPT !.at = "read", !.enabled = enabled]
      <4>1. u \in ThreadType /\ (u.at = "off" => u = Ended)
        BY <1>0 DEF ThreadType, ThreadAt, LoopTypeOK
      <4>2. QED
        BY <3>1, <4>1, ThreadChanges DEF ReadSettings
    <3>2. CASE ReadFlag(w)
      <4> DEFINE u == [thread[w] EXCEPT !.at = "claim", !.manual = flag]
      <4>1. u \in ThreadType /\ u.at # "off"
        BY <1>0 DEF ThreadType, ThreadAt, LoopTypeOK
      <4>2. thread' = [thread EXCEPT ![w] = u]
        BY <3>2 DEF ReadFlag
      <4>3. QED
        BY <4>1, <4>2, ThreadChanges
    <3>3. CASE Die(w)
      BY <1>0, <3>3, ThreadChanges DEF Die
    <3>4. CASE \E place \in ThreadAt \ {"off"} : Go(w, place)
      BY <3>4, ThreadGoes
    <3>5. QED
      BY <1>1, <3>1, <3>2, <3>3, <3>4 DEF Turn, Claim, Claims, RunOnce, EndScan, Wait,
         ClearWake, GiveUp, ThreadAt
  <2>1. /\ flag' \in BOOLEAN /\ wake' \in BOOLEAN /\ stop' \in BOOLEAN /\ owed' \in BOOLEAN
        /\ UNCHANGED <<enabled, paused, shared>>
    BY <1>1 DEF Turn, ReadSettings, ReadFlag, Claim, Claims, RunOnce, EndScan, Wait, ClearWake,
       GiveUp, Die, LoopTypeOK
  <2>2. QED
    BY <2>0, <2>1 DEF LoopTypeOK, ThreadType
<1>2. ASSUME NEW w \in Slots, DatabaseFails(w) PROVE LoopTypeOK'
  <2>1. /\ thread' \in [Slots -> ThreadType]
        /\ \A v \in Slots : thread'[v].at = "off" => thread'[v] = Ended
    BY <1>2, ThreadGoes DEF DatabaseFails, ThreadAt
  <2>2. QED
    BY <1>2, <2>1 DEF DatabaseFails, LoopTypeOK, ThreadType
<1>3. ASSUME NEW a \in Clients, Serve(a) PROVE LoopTypeOK'
  <2> USE DEF LoopTypeOK, ClientAt
  <2>1. CASE AskCircuit(a)
    BY <2>1 DEF AskCircuit
  <2>2. CASE AskAlive(a)
    BY <2>2 DEF AskAlive, After, LoopIsAlive
  <2>3. CASE ClearEvents(a)
    BY <2>3 DEF ClearEvents
  <2>4. CASE Spawn(a)
    <3>1. PICK w \in Slots : thread' = [thread EXCEPT ![w] = Begun] /\ latest' = w
      BY <2>4 DEF Spawn
    <3>2. /\ thread' \in [Slots -> ThreadType]
          /\ \A v \in Slots : thread'[v].at = "off" => thread'[v] = Ended
      BY <1>0, <3>1, ThreadChanges
    <3>3. /\ client' \in [Clients -> ClientType]
          /\ \A b \in Clients : client'[b].at = "flag" => client'[b].op = "trigger"
      BY <2>4 DEF Spawn, After, ClientType
    <3>4. QED
      BY <2>4, <3>1, <3>2, <3>3 DEF Spawn, ThreadType, ClientType
  <2>5. CASE SetFlag(a)
    BY <2>5 DEF SetFlag
  <2>6. CASE SetWake(a)
    BY <2>6 DEF SetWake
  <2>7. QED
    BY <1>3, <2>1, <2>2, <2>3, <2>4, <2>5, <2>6 DEF Serve
<1>4. ASSUME NEW a \in Clients, NEW op \in {"trigger", "settings", "pause"}, Request(a, op)
      PROVE  LoopTypeOK'
  <2>1. /\ client' \in [Clients -> ClientType]
        /\ \A b \in Clients : client'[b].at = "flag" => client'[b].op = "trigger"
    <3>1. CASE op \in {"trigger", "settings"}
      <4>1. PICK place \in {"circuit", "alive"} :
              client' = [client EXCEPT ![a] = [at |-> place, op |-> op]]
        BY <1>4, <3>1 DEF Request
      <4>2. [at |-> place, op |-> op] \in ClientType
        BY <3>1, <4>1 DEF ClientType, ClientAt
      <4>3. QED
        BY <1>0, <4>1, <4>2 DEF LoopTypeOK
    <3>2. CASE op = "pause"
      BY <1>0, <1>4, <3>2 DEF Request, LoopTypeOK
    <3>3. QED
      BY <3>1, <3>2
  <2>2. /\ paused' \in BOOLEAN /\ wake' \in BOOLEAN /\ enabled' \in BOOLEAN
        /\ UNCHANGED <<flag, stop, thread, latest, owed, upset, outages>>
    BY <1>4 DEF Request, LoopTypeOK
  <2>3. QED
    BY <2>1, <2>2 DEF LoopTypeOK, ClientType
<1>5. CASE Shutdown
  BY <1>5 DEF Shutdown, LoopTypeOK
<1>6. CASE UNCHANGED loop_vars
  BY <1>6 DEF loop_vars, LoopTypeOK
<1>7. QED
  BY <1>1, <1>2, <1>3, <1>4, <1>5, <1>6 DEF LoopNext

(* It begins with the types.                                               *)
LEMMA LoopTypeInit == LoopInit => LoopTypeOK
<1> SUFFICES ASSUME LoopInit PROVE LoopTypeOK
  OBVIOUS
<1>1. latest \in Slots
  BY LoopAssumption DEF LoopInit
<1>2. /\ Ended \in ThreadType /\ Begun \in ThreadType /\ Begun.at = "top"
      /\ [at |-> "idle", op |-> "none"] \in ClientType
  BY DEF ThreadType, ClientType, Ended, Begun, ThreadAt, ClientAt
<1>3. /\ thread \in [Slots -> ThreadType] /\ client \in [Clients -> ClientType]
      /\ \A w \in Slots : thread[w].at = "off" => thread[w] = Ended
      /\ \A a \in Clients : client[a].at = "flag" => client[a].op = "trigger"
  BY <1>2 DEF LoopInit
<1>4. QED
  BY <1>1, <1>3 DEF LoopInit, LoopTypeOK, ThreadType, ClientType

(* Flags, threads and requests keep their types: while a request is about  *)
(* to queue a trigger it is one that was asked to.                         *)
THEOREM LoopTypeCorrect == LoopSpec => []LoopTypeOK
<1>1. LoopInit => LoopTypeOK
  BY LoopTypeInit
<1>2. LoopTypeOK /\ [LoopNext]_loop_vars => LoopTypeOK'
  BY LoopTypeStep
<1>3. QED
  BY <1>1, <1>2, PTL DEF LoopSpec

-----------------------------------------------------------------------------
(* Until starts overlap, a loop that is alive is the one start() would     *)
(* find, and whoever starts one found none and is alone in it.             *)
Starts(a) == client[a].at \in {"start", "spawn"}

LoneLoop ==
    ~upset =>
        /\ \A w \in Slots : thread[w].at # "off" => w = latest
        /\ \A a \in Clients : Starts(a) => thread[latest].at = "off"
        /\ \A a, b \in Clients : Starts(a) /\ Starts(b) => a = b

\* The thread will come to its wait without another look at the flag.
Passed(w) ==
    \/ thread[w].at \in {"once", "scan", "wait"}
    \/ thread[w].at = "claim" /\ ~thread[w].manual

(* A flag that such a thread has missed has the wake event with it.        *)
WakeFollows ==
    ~upset /\ flag /\ (\A a \in Clients : client[a].at # "wake")
        => \A w \in Slots : Passed(w) => wake

LoopInv == LoopTypeOK /\ LoneLoop /\ WakeFollows

(* Each step keeps the invariant.                                          *)
LEMMA LoopInvStep ==
    ASSUME LoopInv, [LoopNext]_loop_vars
    PROVE  LoneLoop' /\ WakeFollows'
<1> USE LoopAssumption
        DEF LoopInv, LoopTypeOK, ThreadAt, ClientAt, Ended, Begun, Go, Step, Outage, shared,
            LoneLoop, WakeFollows, Passed, Starts
<1>1. ASSUME NEW w \in Slots, Turn(w) PROVE LoneLoop' /\ WakeFollows'
  <2>1. CASE ReadSettings(w)
    BY <2>1 DEF ReadSettings
  <2>2. CASE ReadFlag(w)
    BY <2>2 DEF ReadFlag
  <2>3. CASE Claim(w)
    BY <2>3 DEF Claim, Claims
  <2>4. CASE RunOnce(w)
    BY <2>4 DEF RunOnce
  <2>5. CASE EndScan(w) \/ Wait(w) \/ GiveUp(w) \/ Die(w)
    BY <2>5 DEF EndScan, Wait, GiveUp, Die
  <2>6. CASE ClearWake(w)
    BY <2>6 DEF ClearWake
  <2>7. QED
    BY <1>1, <2>1, <2>2, <2>3, <2>4, <2>5, <2>6 DEF Turn
<1>2. ASSUME NEW w \in Slots, DatabaseFails(w) PROVE LoneLoop' /\ WakeFollows'
  BY <1>2 DEF DatabaseFails
<1>3. ASSUME NEW a \in Clients, Serve(a) PROVE LoneLoop' /\ WakeFollows'
  <2>1. CASE AskCircuit(a)
    BY <2>1 DEF AskCircuit
  <2>2. CASE AskAlive(a)
    BY <2>2 DEF AskAlive, After, LoopIsAlive
  <2>3. CASE ClearEvents(a)
    BY <2>3 DEF ClearEvents
  <2>4. CASE Spawn(a)
    BY <2>4 DEF Spawn, After
  <2>5. CASE SetFlag(a)
    BY <2>5 DEF SetFlag
  <2>6. CASE SetWake(a)
    BY <2>6 DEF SetWake
  <2>7. QED
    BY <1>3, <2>1, <2>2, <2>3, <2>4, <2>5, <2>6 DEF Serve
<1>4. ASSUME NEW a \in Clients, NEW op \in {"trigger", "settings", "pause"}, Request(a, op)
      PROVE  LoneLoop' /\ WakeFollows'
  <2>1. /\ flag' = flag /\ thread' = thread /\ latest' = latest /\ upset' = upset
        /\ wake => wake'
        /\ client[a].at = "idle"
        /\ \A b \in Clients : b # a => client'[b] = client[b]
        /\ client'[a].at \in {"idle", "circuit", "alive"}
    <3>1. CASE op = "trigger"
      BY <1>4, <3>1 DEF Request
    <3>2. CASE op = "settings"
      BY <1>4, <3>2 DEF Request
    <3>3. CASE op = "pause"
      BY <1>4, <3>3 DEF Request
    <3>4. QED
      BY <3>1, <3>2, <3>3
  <2>2. QED
    BY <2>1
<1>5. CASE Shutdown
  BY <1>5 DEF Shutdown
<1>6. CASE UNCHANGED loop_vars
  BY <1>6 DEF loop_vars
<1>7. QED
  BY <1>1, <1>2, <1>3, <1>4, <1>5, <1>6 DEF LoopNext

(* In every reachable state a live loop is alone until starts overlap, and *)
(* a trigger that a thread has missed has set the wake event.              *)
THEOREM LoopCorrect == LoopSpec => []LoopInv
<1>1. LoopInit => LoopInv
  BY LoopTypeInit DEF LoopInit, LoopInv, Ended, LoneLoop, WakeFollows, Starts
<1>2. LoopInv /\ [LoopNext]_loop_vars => LoopInv'
  BY LoopInvStep, LoopTypeStep DEF LoopInv
<1>3. QED
  BY <1>1, <1>2, PTL DEF LoopSpec

(* Unless two starts overlap there is at most one loop thread, whatever    *)
(* triggers, settings and dying threads do (autonomous_loop.py:66).        *)
THEOREM OneLoopAtATime == LoopSpec => []OneLoop
<1>1. LoopInv => OneLoop
  <2> SUFFICES ASSUME LoopInv, ~upset PROVE Cardinality(Alive) <= 1
    BY DEF OneLoop
  <2>1. Alive \subseteq {latest}
    BY DEF LoopInv, LoneLoop, Alive
  <2>2. IsFiniteSet({latest}) /\ Cardinality({latest}) = 1
    BY FS_Singleton
  <2>3. QED
    BY <2>1, <2>2, FS_Subset
<1>2. QED
  BY LoopCorrect, <1>1, PTL

(* A thread never sleeps on a queued trigger, in whatever order its reads  *)
(* and clears meet the two writes of the trigger (autonomous_loop.py:301,  *)
(* :323).                                                                  *)
THEOREM NoWakeupLost == LoopSpec => []NoLostWakeup
<1>1. LoopInv => NoLostWakeup
  BY DEF LoopInv, WakeFollows, Passed, NoLostWakeup
<1>2. QED
  BY LoopCorrect, <1>1, PTL

-----------------------------------------------------------------------------
(* BundleCache.                                                             *)

(* The map of keys in flight and the tasks agree: a key is in flight for   *)
(* the one task that fetches it, and who waits, waits for such a task.     *)
SingleFlight ==
    /\ \A i \in Intervals : task[i].at = "fetch" => inflight[task[i].key] = i
    /\ \A k \in Keys : inflight[k] # Nobody =>
          task[inflight[k]].at = "fetch" /\ task[inflight[k]].key = k
    /\ \A i \in Intervals :
          task[i].awaits # Nobody => task[task[i].awaits].at = "fetch"

FlightInv == BundleTypeOK /\ SingleFlight

(* A higher interval is a key.                                             *)
LEMMA HigherIsKey == \A i \in Intervals : i \in Keys /\ HigherOf[i] \in Keys
BY DEF Keys

(* With its bundle a task goes on, and waits for nobody.                   *)
LEMMA ProceedType ==
    ASSUME BundleTypeOK, NEW i \in Intervals, task[i].at # "wait"
    PROVE  /\ Proceed(i) \in [at : {"trend", "resolve"}, key : Keys, awaits : {Nobody}]
           /\ Proceed(i).key \in {i, HigherOf[i]}
BY HigherIsKey, ZenonT(30) DEF BundleTypeOK, Proceed

(* A task that is replaced by one of the right type keeps the types.       *)
LEMMA TaskType ==
    ASSUME BundleTypeOK, NEW i \in Intervals,
           NEW u \in [at : Places, key : Keys, awaits : Intervals \union {Nobody}],
           u.key \in {i, HigherOf[i]}, u.at = "wait" <=> u.awaits # Nobody, u.awaits # i,
           task' = [task EXCEPT ![i] = u],
           stored' \subseteq Keys, trends' \subseteq Keys,
           inflight' \in [Keys -> Intervals \union {Nobody}]
    PROVE  BundleTypeOK'
<1>1. task' \in [Intervals -> [at : Places, key : Keys, awaits : Intervals \union {Nobody}]]
  BY DEF BundleTypeOK
<1>2. ASSUME NEW j \in Intervals
      PROVE  /\ task'[j].key \in {j, HigherOf[j]}
             /\ task'[j].at = "wait" <=> task'[j].awaits # Nobody
             /\ task'[j].awaits # j
  BY DEF BundleTypeOK
<1>3. QED
  BY <1>1, <1>2 DEF BundleTypeOK

(* A task outside waits and fetches that moves to another such place with  *)
(* the same map of flights keeps the invariant.                            *)
LEMMA TaskMoves ==
    ASSUME FlightInv, NEW i \in Intervals, task[i].at \notin {"wait", "fetch"},
           NEW u \in [at : Places \ {"wait", "fetch"}, key : Keys, awaits : {Nobody}],
           u.key \in {i, HigherOf[i]}, task' = [task EXCEPT ![i] = u],
           UNCHANGED inflight, stored' \subseteq Keys, trends' \subseteq Keys
    PROVE  FlightInv'
<1>1. BundleTypeOK'
  BY TaskType, BundleAssumption DEF FlightInv, BundleTypeOK
<1>2. SingleFlight'
  BY BundleAssumption DEF FlightInv, BundleTypeOK, SingleFlight
<1>3. QED
  BY <1>1, <1>2 DEF FlightInv

(* So does a move that changes only the place.                             *)
LEMMA PlaceMoves ==
    ASSUME FlightInv, NEW i \in Intervals, task[i].at \notin {"wait", "fetch"},
           NEW place \in Places \ {"wait", "fetch"}, Move(i, place),
           UNCHANGED inflight, stored' \subseteq Keys, trends' \subseteq Keys
    PROVE  FlightInv'
<1> DEFINE u == [task[i] EXCEPT !.at = place]
<1>1. /\ u \in [at : Places \ {"wait", "fetch"}, key : Keys, awaits : {Nobody}]
      /\ u.key \in {i, HigherOf[i]}
  BY DEF FlightInv, BundleTypeOK
<1>2. task' = [task EXCEPT ![i] = u]
  BY DEF Move
<1>3. QED
  BY <1>1, <1>2, TaskMoves

(* Each step keeps the invariant.                                          *)
LEMMA FlightStep ==
    ASSUME FlightInv, [BundleNext]_bundle_vars
    PROVE  FlightInv'
<1> USE BundleAssumption, HigherIsKey
<1> DEFINE Tasks == [at : Places, key : Keys, awaits : Intervals \union {Nobody}]
<1>0. /\ stored \subseteq Keys /\ trends \subseteq Keys
      /\ \A i \in Intervals : task[i] \in Tasks
  BY DEF FlightInv, BundleTypeOK
<1>1. ASSUME NEW i \in Intervals, Begin(i) PROVE FlightInv'
  BY <1>0, <1>1, PlaceMoves DEF Begin, Places
<1>2. ASSUME NEW i \in Intervals, Cancel(i) PROVE FlightInv'
  BY <1>0, <1>2, PlaceMoves DEF Cancel, Places
<1>3. ASSUME NEW i \in Intervals, LookUpTrend(i) PROVE FlightInv'
  BY <1>0, <1>3, PlaceMoves DEF LookUpTrend, Places
<1>4. ASSUME NEW i \in Intervals, StoreTrend(i) PROVE FlightInv'
  <2>1. trends' \subseteq Keys
    BY <1>0, <1>4 DEF StoreTrend
  <2>2. QED
    BY <1>0, <1>4, <2>1, PlaceMoves DEF StoreTrend, Places
<1>5. ASSUME NEW i \in Intervals, task[i].at \in {"look", "store"},
             task' = [task EXCEPT ![i] = Proceed(i)], UNCHANGED inflight,
             stored' \subseteq Keys, trends' \subseteq Keys
      PROVE  FlightInv'
  <2>1. /\ Proceed(i) \in [at : Places \ {"wait", "fetch"}, key : Keys, awaits : {Nobody}]
        /\ Proceed(i).key \in {i, HigherOf[i]}
    BY <1>5, ProceedType DEF FlightInv, Places
  <2>2. QED
    BY <1>5, <2>1, TaskMoves
<1>6. ASSUME NEW i \in Intervals, Store(i) PROVE FlightInv'
  <2>1. stored' \subseteq Keys
    BY <1>0, <1>6 DEF Store
  <2>2. QED
    BY <1>0, <1>5, <1>6, <2>1 DEF Store
<1>7. ASSUME NEW i \in Intervals, LookUp(i) PROVE FlightInv'
  <2> DEFINE k == task[i].key
  <2>1. /\ task[i].at = "look" /\ task[i].awaits = Nobody
        /\ k \in Keys /\ k \in {i, HigherOf[i]}
        /\ inflight \in [Keys -> Intervals \union {Nobody}]
    BY <1>7 DEF LookUp, FlightInv, BundleTypeOK
  <2>2. stored' \subseteq Keys /\ trends' \subseteq Keys
    BY <1>0, <1>7 DEF LookUp
  <2>3. CASE k \in stored
    BY <1>5, <1>7, <2>1, <2>2, <2>3 DEF LookUp
  <2>4. CASE k \notin stored /\ inflight[k] = Nobody
    <3> DEFINE u == [task[i] EXCEPT !.at = "fetch"]
    <3>1. task' = [task EXCEPT ![i] = u] /\ inflight' = [inflight EXCEPT ![k] = i]
      BY <1>7, <2>4 DEF LookUp, Move
    <3>2. u \in Tasks /\ u.at = "fetch" /\ u.key = k /\ u.awaits = Nobody
      BY <1>0, <2>1 DEF Places
    <3>3. BundleTypeOK'
      BY <2>1, <2>2, <3>1, <3>2, TaskType DEF FlightInv
    <3>4. SingleFlight'
      BY <2>1, <2>4, <3>1, <3>2 DEF FlightInv, BundleTypeOK, SingleFlight
    <3>5. QED
      BY <3>3, <3>4 DEF FlightInv
  <2>5. CASE k \notin stored /\ inflight[k] # Nobody
    <3> DEFINE u == [task[i] EXCEPT !.at = "wait", !.awaits = inflight[k]]
    <3>1. task' = [task EXCEPT ![i] = u] /\ inflight' = inflight
      BY <1>7, <2>5 DEF LookUp
    <3>2. /\ inflight[k] \in Intervals /\ inflight[k] # i
          /\ task[inflight[k]].at = "fetch"
      BY <2>1, <2>5 DEF FlightInv, SingleFlight
    <3>3. u \in Tasks /\ u.at = "wait" /\ u.key = k /\ u.awaits = inflight[k]
      BY <1>0, <2>1, <3>2 DEF Places
    <3>4. BundleTypeOK'
      BY <2>1, <2>2, <2>5, <3>1, <3>2, <3>3, TaskType DEF FlightInv
    <3>5. SingleFlight'
      BY <2>1, <3>1, <3>2, <3>3 DEF FlightInv, BundleTypeOK, SingleFlight
    <3>6. QED
      BY <3>4, <3>5 DEF FlightInv
  <2>6. QED
    BY <2>3, <2>4, <2>5
<1>8. ASSUME NEW i \in Intervals, EndFetch(i) PROVE FlightInv'
  <2> DEFINE k == task[i].key
  <2>1. /\ task[i].at = "fetch" /\ task[i].awaits = Nobody /\ k \in Keys
        /\ inflight[k] = i /\ inflight' = [inflight EXCEPT ![k] = Nobody]
        /\ inflight \in [Keys -> Intervals \union {Nobody}]
        /\ stored' = stored /\ trends' = trends
    BY <1>8 DEF EndFetch, FlightInv, BundleTypeOK, SingleFlight
  <2>2. PICK ok \in BOOLEAN :
          task' = [Releases(i, ok) EXCEPT ![i].at = IF ok THEN "store" ELSE GiveUpOn(i)]
    BY <1>8 DEF EndFetch
  <2> DEFINE place == IF ok THEN "store" ELSE GiveUpOn(i)
             u == [task[i] EXCEPT !.at = place]
  <2>3. place \in Places \ {"wait", "fetch"}
    BY DEF GiveUpOn, Places
  <2>4. u \in Tasks /\ u.at = place /\ u.key = k /\ u.awaits = Nobody
    BY <1>0, <2>1, <2>3
  <2>5. /\ task'[i] = u
        /\ \A j \in Intervals \ {i} :
              task'[j] = IF task[j].awaits = i THEN Released(task[j]) ELSE task[j]
        /\ DOMAIN task' = Intervals /\ task' = [j \in Intervals |-> task'[j]]
    BY <2>1, <2>2 DEF Releases
  <2>6. \A j \in Intervals :
          /\ Released(task[j]) \in Tasks /\ Released(task[j]).at = "look"
          /\ Released(task[j]).key = task[j].key /\ Released(task[j]).awaits = Nobody
    BY <1>0 DEF Released, Places
  <2>7. \A j \in Intervals : task[j].awaits = i => task[j].at = "wait"
    BY DEF FlightInv, BundleTypeOK
  <2>8. BundleTypeOK'
    <3>1. ASSUME NEW j \in Intervals
          PROVE  /\ task'[j] \in Tasks
                 /\ task'[j].key \in {j, HigherOf[j]}
                 /\ task'[j].at = "wait" <=> task'[j].awaits # Nobody
                 /\ task'[j].awaits # j
      BY <1>0, <2>1, <2>3, <2>4, <2>5, <2>6 DEF FlightInv, BundleTypeOK
    <3>2. QED
      BY <1>0, <2>1, <2>5, <3>1 DEF BundleTypeOK
  <2>9. SingleFlight'
    <3>1. \A j \in Intervals : task'[j].at = "fetch" =>
            j # i /\ task'[j] = task[j] /\ task[j].key # k
      BY <2>1, <2>3, <2>4, <2>5, <2>6 DEF FlightInv, SingleFlight
    <3>2. \A j \in Intervals : j # i /\ task[j].at = "fetch" => task'[j] = task[j]
      BY <2>5, <2>7
    <3>3. \A j \in Intervals : task'[j].awaits # Nobody =>
            task'[j] = task[j] /\ task[j].awaits \in Intervals \ {i}
      BY <1>0, <2>4, <2>5, <2>6
    <3>4. QED
      BY <2>1, <3>1, <3>2, <3>3 DEF FlightInv, BundleTypeOK, SingleFlight
  <2>10. QED
    BY <2>8, <2>9 DEF FlightInv
<1>9. CASE UNCHANGED bundle_vars
  BY <1>9 DEF bundle_vars, FlightInv, BundleTypeOK, SingleFlight
<1>10. QED
  BY <1>1, <1>2, <1>3, <1>4, <1>6, <1>7, <1>8, <1>9 DEF BundleNext, Works

(* At first nobody fetches.                                                *)
LEMMA FlightStarts == BundleInit => FlightInv
<1> SUFFICES ASSUME BundleInit PROVE FlightInv
  OBVIOUS
<1>1. BundleTypeOK
  BY BundleAssumption, HigherIsKey DEF BundleInit, BundleTypeOK, Places
<1>2. SingleFlight
  BY BundleAssumption DEF BundleInit, SingleFlight
<1>3. QED
  BY <1>1, <1>2 DEF FlightInv

(* Whatever the requests do, the map of flights and the tasks agree, and a *)
(* task that waits for an event has a leader that is still to set it       *)
(* (scan_runtime.py _get_market_snapshot_cached).                          *)
THEOREM FlightsAgree == BundleSpec => []FlightInv
<1>1. BundleInit => FlightInv
  BY FlightStarts
<1>2. FlightInv /\ [BundleNext]_bundle_vars => FlightInv'
  BY FlightStep
<1>3. QED
  BY <1>1, <1>2, PTL DEF BundleSpec

(* No bundle is fetched by two tasks at once, although the leader wakes    *)
(* its waiters before it stores what it fetched (scan_runtime.py:2689).    *)
THEOREM OneFetch == BundleSpec => []OneFetchAtATime
<1>1. FlightInv => OneFetchAtATime
  BY DEF FlightInv, SingleFlight, OneFetchAtATime
<1>2. QED
  BY FlightsAgree, <1>1, PTL

-----------------------------------------------------------------------------
(* UserStream: what the stream service keeps and the owner thread sees.    *)
StreamStates ==
    [status : Status, due : BOOLEAN, key : BOOLEAN, event : Ages, alive : Ages, started : Ages]
OwnerPlaces == {"look", "close", "request", "connect", "keepalive", "receive"}
Owners == [at : OwnerPlaces, restart : BOOLEAN, kept : 0 .. KeepaliveEvery, ticked : BOOLEAN]
Askings == [op : {"none", "start", "keepalive", "refresh", "close"}, seen : StreamStates]

StreamInv ==
    /\ StreamTypeOK
    /\ stream \in StreamStates /\ owner \in Owners /\ asking \in Askings
    /\ errors \in Nat /\ asks \in Nat

(* The ages at which the owner acts are numbers.                           *)
LEMMA StreamNumbers ==
    /\ KeepaliveEvery \in Nat /\ RotateAfter \in Nat /\ StaleAfter \in Nat
    /\ MaxErrors \in Nat /\ MaxAsks \in Nat
    /\ 0 < KeepaliveEvery /\ Old \in Nat
    /\ Never \in Ages /\ 0 \in Ages /\ \A age \in Ages : Older(age) \in Ages
BY StreamAssumption DEF Old, Ages, Never, Older

(* What a call writes is a state again, and one that says "refreshing" is  *)
(* due for a reconnect (binance_usdm_user_data_stream_service.py).         *)
LEMMA CallsWriteStates ==
    ASSUME NEW s \in StreamStates
    PROVE  /\ \A u \in {Degraded(s), Refreshing(s), Started(s), KeptAlive(s),
                        ClosedStream(s), Ingested(s), Expired(s),
                        [Degraded(s) EXCEPT !.due = FALSE]} : u \in StreamStates
           /\ \A u \in {Degraded(s), Refreshing(s), Started(s), KeptAlive(s),
                        ClosedStream(s), Ingested(s), Expired(s),
                        [Degraded(s) EXCEPT !.due = FALSE]} :
                 u.status = "REFRESHING" => u.due
<1>1. 0 \in Ages
  BY StreamNumbers
<1> USE <1>1 DEF StreamStates, Status
<1>2. /\ Degraded(s) \in StreamStates /\ Degraded(s).status = "DEGRADED"
      /\ [Degraded(s) EXCEPT !.due = FALSE] \in StreamStates
      /\ [Degraded(s) EXCEPT !.due = FALSE].status = "DEGRADED"
  BY DEF Degraded
<1>3. Refreshing(s) \in StreamStates /\ Refreshing(s).due
  BY DEF Refreshing
<1>4. /\ Started(s) \in StreamStates /\ Started(s).status = "ACTIVE"
      /\ ClosedStream(s) \in StreamStates /\ ClosedStream(s).status = "CLOSED"
      /\ Ingested(s) \in StreamStates /\ Ingested(s).status = "ACTIVE"
      /\ Expired(s) \in StreamStates /\ Expired(s).status = "EXPIRED"
  BY DEF Started, ClosedStream, Ingested, Expired
<1>5. KeptAlive(s) \in StreamStates /\ KeptAlive(s).status # "REFRESHING"
  BY <1>2 DEF KeptAlive
<1>6. QED
  BY <1>2, <1>3, <1>4, <1>5

(* The owner with another place and another count since its keepalive.     *)
LEMMA OwnerMoves ==
    ASSUME owner \in Owners, NEW place \in OwnerPlaces, NEW n \in 0 .. KeepaliveEvery,
           NEW ticked \in BOOLEAN
    PROVE  [owner EXCEPT !.at = place, !.kept = n, !.ticked = ticked] \in Owners
BY DEF Owners

(* The invariant of a step that writes no state, or one of those.          *)
LEMMA StreamWritten ==
    ASSUME StreamInv, stream' \in StreamStates,
           stream'.status = "REFRESHING" => stream'.due,
           owner' \in Owners, asking' \in Askings, errors' \in Nat, asks' \in Nat,
           link' \in {"down", "up", "broken", "mute"}, pending' \in BOOLEAN
    PROVE  StreamInv'
BY DEF StreamInv, StreamTypeOK, StreamStates, Owners

(* The stream of a running owner and of API calls begins well-typed.       *)
LEMMA StreamStarts == StreamInit => StreamInv
<1> SUFFICES ASSUME StreamInit PROVE StreamInv
  OBVIOUS
<1>1. NoStream \in StreamStates /\ NoStream.status = "INACTIVE"
  BY StreamNumbers DEF NoStream, StreamStates, Status
<1>2. owner \in Owners
  BY StreamNumbers DEF StreamInit, Owners, OwnerPlaces
<1>3. asking \in Askings
  BY <1>1 DEF StreamInit, Askings
<1>4. QED
  BY <1>1, <1>2, <1>3 DEF StreamInit, StreamInv, StreamTypeOK, StreamStates, Owners

(* Each step keeps the types.                                              *)
LEMMA StreamStep ==
    ASSUME StreamInv, [StreamNext]_stream_vars
    PROVE  StreamInv'
<1> DEFINE Writes == {Degraded(stream), Refreshing(stream), Started(stream), KeptAlive(stream),
                      Ingested(stream), Expired(stream), ClosedStream(asking.seen), stream,
                      [Degraded(stream) EXCEPT !.due = FALSE]}
<1>0. /\ stream \in StreamStates /\ owner \in Owners /\ asking \in Askings
      /\ asking.seen \in StreamStates /\ errors \in Nat /\ asks \in Nat
      /\ link \in {"down", "up", "broken", "mute"} /\ pending \in BOOLEAN
      /\ stream.status = "REFRESHING" => stream.due
  BY DEF StreamInv, StreamTypeOK, Askings
<1>1. \A u \in Writes : u \in StreamStates /\ (u.status = "REFRESHING" => u.due)
  BY <1>0, CallsWriteStates
<1> HIDE DEF Writes
<1>2. \A place \in OwnerPlaces : At(place) => owner' \in Owners
  BY <1>0 DEF At, Owners
<1>3. Error => errors' \in Nat
  BY <1>0 DEF Error
<1>4. [op |-> "none", seen |-> NoStream] \in Askings
  BY StreamNumbers DEF Askings, StreamStates, NoStream, Status
<1>5. CASE OwnerStep
  <2>1. UNCHANGED <<asking, asks>>
      BY <1>5 DEF OwnerStep, Look, CloseLink, RequestKey, Connect, Keepalive, Receive
  <2>2. stream' \in Writes
      BY <1>5 DEF OwnerStep, Look, CloseLink, RequestKey, Connect, Keepalive, Receive, Writes
  <2>3. errors' \in Nat
      BY <1>0, <1>3, <1>5 DEF OwnerStep, Look, CloseLink, RequestKey, Connect, Keepalive, Receive
  <2>4. link' \in {"down", "up", "broken", "mute"} /\ pending' \in BOOLEAN
      BY <1>0, <1>5 DEF OwnerStep, Look, CloseLink, RequestKey, Connect, Keepalive, Receive
  <2>5. owner' \in Owners
    <3>1. CASE Look
        BY <1>0, <1>2, <3>1 DEF Look, Owners, OwnerPlaces
    <3>2. CASE Connect
      <4>1. \/ owner' = [owner EXCEPT !.at = "look", !.kept = 0, !.ticked = TRUE]
            \/ At("look")
          BY <3>2 DEF Connect
      <4>2. 0 \in 0 .. KeepaliveEvery /\ "look" \in OwnerPlaces
          BY StreamNumbers DEF OwnerPlaces
      <4>3. QED
          BY <1>0, <1>2, <4>1, <4>2, OwnerMoves
    <3>3. CASE Keepalive
      <4>1. \/ \E n \in {0, owner.kept} : owner' = [owner EXCEPT !.at = "receive", !.kept = n]
            \/ At("receive")
          BY <3>3 DEF Keepalive
      <4>2. {0, owner.kept} \subseteq 0 .. KeepaliveEvery /\ "receive" \in OwnerPlaces
          BY <1>0, StreamNumbers DEF Owners, OwnerPlaces
      <4>3. QED
          BY <1>0, <1>2, <4>1, <4>2 DEF Owners
    <3>4. CASE CloseLink \/ RequestKey \/ Receive
        BY <1>2, <3>4 DEF CloseLink, RequestKey, Receive, OwnerPlaces
    <3>5. QED
        BY <1>5, <3>1, <3>2, <3>3, <3>4 DEF OwnerStep
  <2>6. QED
      BY <1>0, <1>1, <2>1, <2>2, <2>3, <2>4, <2>5, StreamWritten
<1>6. CASE Answer
  <2>1. stream' \in Writes
      BY <1>0, <1>6 DEF Answer, Writes, Degraded, StreamStates
  <2>2. /\ errors' \in Nat /\ UNCHANGED <<owner, asks, pending>> /\ asking' \in Askings
        /\ link' \in {"down", "up", "broken", "mute"}
      BY <1>0, <1>3, <1>4, <1>6 DEF Answer
  <2>3. QED
      BY <1>0, <1>1, <2>1, <2>2, StreamWritten
<1>7. CASE Send \/ Break
  BY <1>0, <1>3, <1>7, StreamWritten DEF Send, Break
<1>8. CASE TimePasses
  <2> DEFINE aged(s) == [s EXCEPT !.event = Older(@), !.alive = Older(@), !.started = Older(@)]
  <2>1. \A s \in StreamStates :
           aged(s) \in StreamStates /\ aged(s).status = s.status /\ aged(s).due = s.due
      BY StreamNumbers DEF StreamStates
  <2>2. /\ stream' = aged(stream) /\ asking' = [asking EXCEPT !.seen = aged(@)]
        /\ owner' = [owner EXCEPT !.ticked = FALSE,
                                  !.kept = IF @ < KeepaliveEvery THEN @ + 1 ELSE @]
        /\ UNCHANGED <<link, pending, errors, asks>>
      BY <1>8 DEF TimePasses
  <2>3. owner' \in Owners
    <3>1. owner.kept \in 0 .. KeepaliveEvery
        BY <1>0 DEF Owners
    <3>2. PICK n \in 0 .. KeepaliveEvery : owner' = [owner EXCEPT !.ticked = FALSE, !.kept = n]
      <4> DEFINE next == IF owner.kept < KeepaliveEvery THEN owner.kept + 1 ELSE owner.kept
      <4>1. next \in 0 .. KeepaliveEvery
          BY <3>1, StreamNumbers
      <4>2. owner' = [owner EXCEPT !.ticked = FALSE, !.kept = next]
          BY <2>2
      <4> HIDE DEF next
      <4>3. QED
          BY <4>1, <4>2
    <3>3. QED
        BY <1>0, <3>2 DEF Owners
  <2>4. asking' \in Askings
      BY <1>0, <2>1, <2>2 DEF Askings
  <2>5. QED
      BY <1>0, <2>1, <2>2, <2>3, <2>4, StreamWritten
<1>9. CASE Restart
  <2>1. owner' \in Owners
      BY <1>9, StreamNumbers DEF Restart, Owners, OwnerPlaces
  <2>2. QED
      BY <1>0, <1>3, <1>4, <1>9, <2>1, StreamWritten DEF Restart
<1>10. ASSUME NEW op \in {"start", "keepalive", "refresh", "close"}, Ask(op)
       PROVE  StreamInv'
  <2>1. asking' \in Askings
      BY <1>0, <1>4, <1>10 DEF Ask, Askings
  <2>2. stream' \in Writes /\ asks' \in Nat /\ UNCHANGED <<link, pending, owner, errors>>
      BY <1>0, <1>10 DEF Ask, Writes
  <2>3. QED
      BY <1>0, <1>1, <2>1, <2>2, StreamWritten
<1>11. CASE UNCHANGED stream_vars
  BY <1>0, <1>11, StreamWritten DEF stream_vars
<1>12. QED
  BY <1>5, <1>6, <1>7, <1>8, <1>9, <1>10, <1>11 DEF StreamNext

(* Whatever the owner, the API calls and the exchange do to it, the state  *)
(* of the stream stays one that the service knows, and a refresh that was  *)
(* begun is never forgotten (websocket_owner.py:_tick).                    *)
THEOREM StreamTypeCorrect == StreamSpec => []StreamTypeOK
<1>1. StreamInv => StreamTypeOK
  BY DEF StreamInv
<1>2. StreamInv /\ [StreamNext]_stream_vars => StreamInv'
  BY StreamStep
<1>3. QED
  BY <1>1, <1>2, StreamStarts, PTL DEF StreamSpec

-----------------------------------------------------------------------------
(* The three services together, as one run checks them.                    *)
THEOREM ServicesTypeCorrect == ServicesSpec => []TypeOK
<1> DEFINE Inv == StreamInv /\ LoopTypeOK /\ FlightInv
<1>1. ServicesInit => Inv
  BY StreamStarts, LoopTypeInit, FlightStarts DEF ServicesInit
<1>2. Inv /\ [ServicesNext]_services_vars => Inv'
  BY StreamStep, LoopTypeStep, FlightStep DEF ServicesNext, services_vars
<1>3. Inv => TypeOK
  BY DEF TypeOK, StreamInv, FlightInv
<1>4. QED
  BY <1>1, <1>2, <1>3, PTL DEF ServicesSpec
=============================================================================
