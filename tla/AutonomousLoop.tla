--------------------------- MODULE AutonomousLoop ---------------------------
(***************************************************************************)
(* runtime/runtime/autonomous_loop.py: the thread that scans on a timer or *)
(* when an operator triggers it.  A trigger leaves a flag and sets a wake  *)
(* event; the thread reads the flag once per turn, clears it before it     *)
(* scans, and clears the event after its wait.  API threads (routes/       *)
(* scans.py, settings.py) trigger scans, pause and resume, change the      *)
(* settings, and start a thread when they find none alive.                 *)
(*                                                                         *)
(* Whether a timed scan is due, how long a wait lasts and what the circuit *)
(* breaker says are free choices.  The monitor changes none of this state: *)
(* its time passes between ReadFlag and Claim.                             *)
(***************************************************************************)
EXTENDS Integers, FiniteSets

CONSTANTS
    Clients,                \* API threads
    Slots,                  \* loop threads that can exist at a time
    MaxRequests, MaxOutages \* bounds on API calls and database errors

ASSUME LoopAssumption == Slots # {} /\ 0 \notin Slots

VARIABLES
    flag,     \* _manual_scan_pending
    wake,     \* _wake_event
    stop,     \* _stop_event
    thread,   \* what each loop thread does, and what it read this turn
    latest,   \* _thread, the last one started
    client,   \* what each API thread does
    enabled,  \* AUTONOMOUS_ENABLED
    paused,   \* the desired state of scan control
    owed,     \* history: was a trigger queued that no run_once() followed?
    upset,    \* history: did starts overlap, or a trigger fail before its wake?
    requests, outages

loop_vars == <<flag, wake, stop, thread, latest, client, enabled, paused, owed, upset,
               requests, outages>>
shared == <<latest, client, upset, requests>>

Ended == [at |-> "off", enabled |-> FALSE, manual |-> FALSE]
Begun == [Ended EXCEPT !.at = "top"]

LoopInit ==
    /\ flag = FALSE /\ wake = FALSE /\ stop = FALSE
    /\ latest = CHOOSE w \in Slots : TRUE
    /\ thread = [w \in Slots |-> IF w = latest THEN Begun ELSE Ended]
    /\ client = [a \in Clients |-> [at |-> "idle", op |-> "none"]]
    /\ enabled \in BOOLEAN /\ paused = FALSE
    /\ owed = FALSE /\ upset = FALSE
    /\ requests = 0 /\ outages = 0

Outage == outages < MaxOutages /\ outages' = outages + 1
Go(w, place) == thread' = [thread EXCEPT ![w].at = place]
Step(a, place) == client' = [client EXCEPT ![a].at = place]

-----------------------------------------------------------------------------
(* run_forever(): one turn of the loop.                                    *)
ReadSettings(w) ==
    /\ thread[w].at = "top"
    /\ thread' = [thread EXCEPT ![w] = IF stop THEN Ended
                                       ELSE [@ EXCEPT !.at = "read", !.enabled = enabled]]
    /\ UNCHANGED <<flag, wake, stop, enabled, paused, owed, outages, shared>>

ReadFlag(w) ==
    /\ thread[w].at = "read"
    /\ thread' = [thread EXCEPT ![w].at = "claim", ![w].manual = flag]
    /\ UNCHANGED <<flag, wake, stop, enabled, paused, owed, outages, shared>>

\* Manual, or enabled and due: the flag is cleared, then run_once() is called.
Claims(w) ==
    /\ thread[w].at = "claim"
    /\ \/ /\ thread[w].manual \/ thread[w].enabled
          /\ flag' = FALSE
          /\ Go(w, "once")
       \/ ~thread[w].manual /\ Go(w, "wait") /\ UNCHANGED flag
    /\ UNCHANGED <<stop, enabled, paused, owed, outages, shared>>

\* Bug: the event is cleared before the wait instead of after it.
ClaimAndClear(w) == Claims(w) /\ wake' = FALSE

Claim(w) == Claims(w) /\ UNCHANGED wake

\* run_once(): it asks for the pause, the settings and the circuit again.
RunOnce(w) ==
    /\ thread[w].at = "once"
    /\ owed' = FALSE
    /\ \/ ~paused /\ (thread[w].manual \/ enabled) /\ Go(w, "scan")
       \/ Go(w, "wait")
    /\ UNCHANGED <<flag, wake, stop, enabled, paused, outages, shared>>

EndScan(w) ==
    /\ thread[w].at = "scan"
    /\ Go(w, "wait")
    /\ UNCHANGED <<flag, wake, stop, enabled, paused, owed, outages, shared>>

\* The event is set, or the time is up.
Wait(w) ==
    /\ thread[w].at = "wait"
    /\ Go(w, "clear")
    /\ UNCHANGED <<flag, wake, stop, enabled, paused, owed, outages, shared>>

\* Bug: the flag is reset with the event.
ClearBoth(w) ==
    /\ thread[w].at = "clear"
    /\ wake' = FALSE /\ flag' = FALSE
    /\ Go(w, "top")
    /\ UNCHANGED <<stop, enabled, paused, owed, outages, shared>>

ClearWake(w) ==
    /\ thread[w].at = "clear"
    /\ wake' = FALSE
    /\ Go(w, "top")
    /\ UNCHANGED <<flag, stop, enabled, paused, owed, outages, shared>>

\* The database fails: the thread stops the loop, and is alive till it ends.
\* A trigger it has claimed is lost, so none is owed any more.
DatabaseFails(w) ==
    /\ thread[w].at \in {"top", "read", "claim", "once", "scan", "wait"}
    /\ Outage
    /\ owed' = FALSE
    /\ Go(w, "failed")
    /\ UNCHANGED <<flag, wake, stop, enabled, paused, shared>>

GiveUp(w) ==
    /\ thread[w].at = "failed"
    /\ stop' = TRUE /\ wake' = TRUE
    /\ Go(w, "ending")
    /\ UNCHANGED <<flag, enabled, paused, owed, outages, shared>>

Die(w) ==
    /\ thread[w].at = "ending"
    /\ thread' = [thread EXCEPT ![w] = Ended]
    /\ UNCHANGED <<flag, wake, stop, enabled, paused, owed, outages, shared>>

-----------------------------------------------------------------------------
(* API calls.  A trigger resumes scan control and the loop, which wakes it.*)
Request(a, op) ==
    /\ client[a].at = "idle" /\ requests < MaxRequests
    /\ requests' = requests + 1
    /\ CASE op = "trigger" ->
              /\ paused' = FALSE /\ wake' = TRUE
              /\ client' = [client EXCEPT ![a] = [at |-> "circuit", op |-> op]]
              /\ UNCHANGED enabled
         [] op = "settings" ->
              /\ enabled' \in BOOLEAN
              /\ client' = [client EXCEPT ![a] = [at |-> "alive", op |-> op]]
              /\ UNCHANGED <<paused, wake>>
         [] op = "pause" ->
              /\ paused' = TRUE
              /\ UNCHANGED <<client, enabled, wake>>
    /\ UNCHANGED <<flag, stop, thread, latest, owed, upset, outages>>

\* trigger_scan_now(): refused while the circuit is open.
AskCircuit(a) ==
    /\ client[a].at = "circuit"
    /\ \E place \in {"idle", "alive"} : Step(a, place)
    /\ UNCHANGED <<flag, wake, stop, thread, latest, enabled, paused, owed, upset,
                   requests, outages>>

After(op) == IF op = "trigger" THEN "flag" ELSE "idle"

\* Bug: a loop that was told to stop counts as gone.
AliveUnlessStopping == thread[latest].at # "off" /\ ~stop

LoopIsAlive == thread[latest].at # "off"

\* start(): the thread is asked for, the events are cleared, a new one runs.
AskAlive(a) ==
    /\ client[a].at = "alive"
    /\ Step(a, IF LoopIsAlive THEN After(client[a].op) ELSE "start")
    /\ upset' = \/ upset
                \/ ~LoopIsAlive /\ \E b \in Clients : client[b].at \in {"start", "spawn"}
    /\ UNCHANGED <<flag, wake, stop, thread, latest, enabled, paused, owed, requests,
                   outages>>

ClearEvents(a) ==
    /\ client[a].at = "start"
    /\ stop' = FALSE /\ wake' = FALSE
    /\ Step(a, "spawn")
    /\ UNCHANGED <<flag, thread, latest, enabled, paused, owed, upset, requests, outages>>

Spawn(a) ==
    /\ client[a].at = "spawn"
    /\ \E w \in Slots :
          /\ thread[w].at = "off"
          /\ thread' = [thread EXCEPT ![w] = Begun]
          /\ latest' = w
    /\ Step(a, After(client[a].op))
    /\ UNCHANGED <<flag, wake, stop, enabled, paused, owed, upset, requests, outages>>

SetFlag(a) ==
    /\ client[a].at = "flag"
    /\ flag' = TRUE /\ owed' = TRUE
    /\ Step(a, "wake")
    /\ UNCHANGED <<wake, stop, thread, latest, enabled, paused, upset, requests, outages>>

\* The trigger is recorded first, which may fail.
SetWake(a) ==
    /\ client[a].at = "wake"
    /\ \/ wake' = TRUE /\ UNCHANGED <<upset, outages>>
       \/ Outage /\ upset' = TRUE /\ UNCHANGED wake
    /\ Step(a, "idle")
    /\ UNCHANGED <<flag, stop, thread, latest, enabled, paused, owed, requests>>

\* stop(): the server shuts down when its requests are done.
Shutdown ==
    /\ ~stop /\ \A a \in Clients : client[a].at = "idle"
    /\ stop' = TRUE /\ wake' = TRUE
    /\ requests' = MaxRequests
    /\ UNCHANGED <<flag, thread, latest, client, enabled, paused, owed, upset, outages>>

-----------------------------------------------------------------------------
Turn(w) ==
    \/ ReadSettings(w) \/ ReadFlag(w) \/ Claim(w) \/ RunOnce(w) \/ EndScan(w)
    \/ Wait(w) \/ ClearWake(w) \/ GiveUp(w) \/ Die(w)

Serve(a) ==
    AskCircuit(a) \/ AskAlive(a) \/ ClearEvents(a) \/ Spawn(a) \/ SetFlag(a) \/ SetWake(a)

LoopNext ==
    \/ Shutdown
    \/ \E w \in Slots : Turn(w) \/ DatabaseFails(w)
    \/ \E a \in Clients :
          Serve(a) \/ \E op \in {"trigger", "settings", "pause"} : Request(a, op)

\* Threads run, scans end, and waits end.
LoopFairness ==
    /\ \A w \in Slots : WF_loop_vars(Turn(w))
    /\ \A a \in Clients : WF_loop_vars(Serve(a))
LoopSpec == LoopInit /\ [][LoopNext]_loop_vars /\ LoopFairness

-----------------------------------------------------------------------------
Alive == {w \in Slots : thread[w].at # "off"}

ThreadAt == {"off", "top", "read", "claim", "once", "scan", "wait", "clear", "failed",
             "ending"}
ClientAt == {"idle", "circuit", "alive", "start", "spawn", "flag", "wake"}

(* The events are Boolean, threads and requests are where the code can be, *)
(* and while some loop is alive the last one started exists.               *)
LoopTypeOK ==
    /\ flag \in BOOLEAN /\ wake \in BOOLEAN /\ stop \in BOOLEAN
    /\ enabled \in BOOLEAN /\ paused \in BOOLEAN /\ owed \in BOOLEAN /\ upset \in BOOLEAN
    /\ thread \in [Slots -> [at : ThreadAt, enabled : BOOLEAN, manual : BOOLEAN]]
    /\ \A w \in Slots : thread[w].at = "off" => thread[w] = Ended
    /\ latest \in Slots
    /\ client \in [Clients -> [at : ClientAt, op : {"none", "trigger", "settings"}]]
    /\ \A a \in Clients : client[a].at = "flag" => client[a].op = "trigger"

(* Unless two starts overlap there is one loop thread, although a dying    *)
(* thread, settings and triggers all may start the next one.               *)
OneLoop == ~upset => Cardinality(Alive) <= 1

(* A thread never sleeps on a queued trigger: when it is at its wait, the  *)
(* flag is up and the trigger has returned, the event that ends the wait   *)
(* is set.  Left out: starts that overlapped, triggers that failed.        *)
NoLostWakeup ==
    \A w \in Slots :
        /\ thread[w].at = "wait" /\ flag /\ ~upset
        /\ \A a \in Clients : client[a].at # "wake"
        => wake

(* A queued trigger is followed by run_once(), even if it met a scan at    *)
(* work or disabled settings, unless the loop is stopped or fails; one     *)
(* that came while the loop was stopping waits for the next start.         *)
Working == \E w \in Slots : thread[w].at \notin {"off", "failed", "ending"}
TriggerIsFollowed == owed ~> ~(owed /\ Working)
=============================================================================
