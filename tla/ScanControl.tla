---------------------------- MODULE ScanControl ----------------------------
(***************************************************************************)
(* The pause / resume / stop / force-stop protocol of a scan.              *)
(*                                                                         *)
(* runtime/runtime/scan_control.py keeps one row per profile.  Every       *)
(* update() reads the whole row in one database session and writes the     *)
(* whole row back in another, so updates of different threads overwrite    *)
(* each other; request_stop, request_force_stop and activate_run read the  *)
(* row once more beforehand.  The actors are the threads inside            *)
(* ScanRuntime.run_scan (scan_runtime.py), one per run and nothing stops   *)
(* two of them from overlapping, and the request threads of                *)
(* api/routes/scans.py, most of whose calls first reconcile the row with   *)
(* the scan_runs table and cancel a run without progress for 300 seconds.  *)
(*                                                                         *)
(* An actor's script is the list of repository calls it still makes before *)
(* its next decision.  Wording, progress numbers, requested_by and the     *)
(* trace are left out, and so is the difference between COMPLETED and      *)
(* DEGRADED.  The executors have one worker.                               *)
(***************************************************************************)
EXTENDS Integers, Sequences, FiniteSets
LOCAL INSTANCE SequencesExt

CONSTANTS
    Runs,        \* calls of run_scan
    Callers,     \* request threads
    Kinds,       \* the calls they make, a subset of AllKinds
    MaxCalls,    \* bound: calls other than reconciling reads
    MaxDeaths,   \* bound: scan threads ended by an exception
    MaxStalls,   \* bound: periods of 300 seconds without progress
    Tasks,       \* bound: tasks of a run in the stages fetch, analyse and post
    None

AllKinds == {"get", "pause", "resume", "stop", "stop_all", "force_all"}

ASSUME ScanControlAssumption ==
    /\ Kinds \subseteq AllKinds
    /\ MaxCalls \in Nat /\ MaxDeaths \in Nat /\ MaxStalls \in Nat
    /\ Tasks \in [{"fetch", "analyse", "post"} -> Nat]
    /\ IsFiniteSet(Runs) /\ Runs \cap Callers = {} /\ None \notin Runs

VARIABLES
    row,      \* the persisted control row
    rows,     \* status of each run in scan_runs, "none" before it is created
    ctx,      \* the run in _active_run_contexts, or None
    event,    \* the force_stop_event of each run
    pc,       \* where each actor is
    left,     \* tasks a run has left in its stage
    then,     \* where a run goes when _honor_scan_control says "continue"
    noted,    \* pause_recorded inside _honor_scan_control
    script,   \* repository calls an actor makes next
    phase,    \* inside the first of them: "begin", "peeked" or "read"
    peek,     \* the row a stop request or an activation looked at first
    snap,     \* the row an actor read or wrote last, while it still matters
    kind,     \* the call a caller serves
    view,     \* the scan_runs a caller listed
    target,   \* the run its reconciliation considers active
    calls, deaths, stalls,
    asked,    \* history: a stop was requested, or a stale run cancelled
    late,     \* history: tasks a run submitted after its force_stop_event
    newest    \* history: the run that registered its context last

run_vars  == <<left, then, noted>>
db_vars   == <<row, rows>>
op_vars   == <<script, phase, peek, snap>>
call_vars == <<kind, view, target, calls>>
history   == <<asked, late, newest>>
vars == <<db_vars, ctx, event, pc, run_vars, op_vars, call_vars, deaths, stalls, history>>

Actors == Runs \cup Callers
Open == {"RUNNING", "PAUSED", "STOPPING"}       \* ACTIVE_SCAN_STATUSES
RowStatuses == {"none", "RUNNING", "PAUSED", "STOPPED", "COMPLETED"}

Idle == [want |-> "RUNNING", stop |-> FALSE, force |-> FALSE,
         active |-> None, status |-> "IDLE", fresh |-> TRUE]
Rows == [want : {"RUNNING", "PAUSED"}, stop : BOOLEAN, force : BOOLEAN,
         active : Runs \cup {None},
         status : {"IDLE", "RUNNING", "PAUSED", "STOPPING", "STOPPED"},
         fresh : BOOLEAN]
NoRuns == [r \in Runs |-> "none"]

Init ==
    /\ row = Idle /\ rows = NoRuns
    /\ ctx = None /\ event = [r \in Runs |-> FALSE]
    /\ pc = [a \in Actors |-> IF a \in Runs THEN "start" ELSE "idle"]
    /\ left = [r \in Runs |-> 0]
    /\ then = [r \in Runs |-> "fetch"] /\ noted = [r \in Runs |-> FALSE]
    /\ script = [a \in Actors |-> <<>>] /\ phase = [a \in Actors |-> "begin"]
    /\ peek = [a \in Actors |-> Idle] /\ snap = [a \in Actors |-> Idle]
    /\ kind = [c \in Callers |-> "get"] /\ view = [c \in Callers |-> NoRuns]
    /\ target = [c \in Callers |-> None]
    /\ calls = 0 /\ deaths = 0 /\ stalls = 0
    /\ asked = FALSE
    /\ late = [r \in Runs |-> 0] /\ newest = None

-----------------------------------------------------------------------------
(* The updates of ScanControlService.  A call is a record: its name, the   *)
(* run and the status it is about.                                         *)
Op(name, r, status) == [op |-> name, run |-> r, to |-> status]
Plain(name) == Op(name, None, "IDLE")
Mark(r, status) == Op("mark", r, status)
Save(r, status) == Op("save", r, status)
Finish(r, status) == Op("finish", r, status)
Progress(r, status) == <<Save(r, status), Mark(r, status)>>  \* _update_run_progress

Peeks(op) == op \in {"request_stop", "force_stop", "activate"}
Updates(op) == op \in {"pause", "resume", "idle", "touch", "mark", "adopt", "finish"}

StopStatus(p) == IF p.active # None THEN "STOPPING" ELSE "IDLE"

\* finish_run(): a stopped run takes the pause that a stop-all set with it.
Finished(s, to) ==
    LET want == IF to = "STOPPED" THEN "RUNNING" ELSE s.want
    IN  [s EXCEPT !.want = want, !.stop = FALSE, !.force = FALSE, !.active = None,
                  !.status = IF want = "PAUSED" THEN "PAUSED" ELSE "IDLE"]

\* The row that the update o writes over the snapshot s, p being peeked at.
Edit(o, p, s) ==
    CASE o.op = "pause"  -> [s EXCEPT !.want = "PAUSED"]
      [] o.op = "resume" -> [s EXCEPT !.want = "RUNNING", !.stop = FALSE, !.force = FALSE]
      [] o.op = "idle"   -> [s EXCEPT !.status = "IDLE"]
      [] o.op = "touch"  -> s
      [] o.op = "request_stop" ->
            [s EXCEPT !.stop = TRUE, !.force = FALSE, !.status = StopStatus(p)]
      [] o.op = "force_stop" ->
            [s EXCEPT !.stop = TRUE, !.force = TRUE, !.status = StopStatus(p)]
      [] o.op = "activate" ->
            [s EXCEPT !.force = FALSE, !.active = o.run, !.fresh = TRUE,
                      !.status = IF p.want = "PAUSED" THEN "PAUSED" ELSE "RUNNING"]
      [] o.op = "mark"   -> [s EXCEPT !.active = o.run, !.status = o.to, !.fresh = TRUE]
      [] o.op = "adopt"  -> [s EXCEPT !.active = o.run, !.status = o.to]
      [] o.op = "finish" -> Finished(s, o.to)

-----------------------------------------------------------------------------
(* The repository calls of an actor's script, one session each.            *)
AtWork(r) == pc[r] \notin {"start", "done", "dead"}
Next1(a) == Head(script[a])
Free(a) == script[a] = <<>>

\* request_stop, request_force_stop and activate_run: the look beforehand.
Peek(a) ==
    /\ ~Free(a) /\ Peeks(Next1(a).op) /\ phase[a] = "begin"
    /\ peek' = [peek EXCEPT ![a] = row]
    /\ phase' = [phase EXCEPT ![a] = "peeked"]
    /\ UNCHANGED <<db_vars, ctx, event, pc, run_vars, script, snap, call_vars,
                   deaths, stalls, history>>

\* update() and finish_run(): get_state().
Get(a) ==
    /\ ~Free(a)
    /\ phase[a] = IF Peeks(Next1(a).op) THEN "peeked" ELSE "begin"
    /\ Peeks(Next1(a).op) \/ Updates(Next1(a).op)
    /\ snap' = [snap EXCEPT ![a] = row]
    /\ phase' = [phase EXCEPT ![a] = "read"]
    /\ UNCHANGED <<db_vars, ctx, event, pc, run_vars, script, peek, call_vars,
                   deaths, stalls, history>>

\* update() and finish_run(): save_state() of the edited snapshot.  resume()
\* updates once more when it finds no active run.
Set(a) ==
    LET o == Next1(a)
        new == Edit(o, peek[a], snap[a])
        more == IF o.op = "resume" /\ new.active = None THEN <<Plain("idle")>> ELSE <<>>
        stops == o.op \in {"request_stop", "force_stop"}
    IN  /\ ~Free(a) /\ phase[a] = "read"
        /\ row' = new
        /\ snap' = [snap EXCEPT ![a] = IF pc[a] \in {"settle", "serve"} THEN new ELSE Idle]
        /\ peek' = [peek EXCEPT ![a] = Idle]
        /\ script' = [script EXCEPT ![a] = more \o Tail(@)]
        /\ phase' = [phase EXCEPT ![a] = "begin"]
        /\ asked' = (asked \/ stops)
        /\ UNCHANGED <<rows, ctx, event, pc, run_vars, call_vars, deaths, stalls,
                       late, newest>>

\* scan_repo.save_run()
SaveRow(a) ==
    /\ ~Free(a) /\ Next1(a).op = "save"
    /\ rows' = [rows EXCEPT ![Next1(a).run] = Next1(a).to]
    /\ script' = [script EXCEPT ![a] = Tail(@)]
    /\ UNCHANGED <<row, ctx, event, pc, run_vars, phase, peek, snap, call_vars,
                   deaths, stalls, history>>

\* scan_repo.list_runs()
ListRows(c) ==
    /\ ~Free(c) /\ Next1(c).op = "list"
    /\ view' = [view EXCEPT ![c] = rows]
    /\ script' = [script EXCEPT ![c] = Tail(@)]
    /\ UNCHANGED <<db_vars, ctx, event, pc, run_vars, phase, peek, snap, kind,
                   target, calls, deaths, stalls, history>>

OpenIn(v) == {r \in Runs : v[r] \in Open}

(* force_stop_active_run(): sets the event of the registered context and    *)
(* cancels its futures.  force-stop-all marks the listed runs itself when   *)
(* no context is registered.                                               *)
Signal(c) ==
    LET open == OpenIn(view[c])
        all == Next1(c).op = "signal_all" /\ ctx = None /\ open # {}
    IN  /\ ~Free(c) /\ Next1(c).op \in {"signal", "signal_all"}
        /\ event' = IF ctx = None THEN event ELSE [event EXCEPT ![ctx] = TRUE]
        /\ \E order \in SetToSeqs(open) :
              script' = [script EXCEPT ![c] =
                  (IF all THEN [i \in DOMAIN order |-> Save(order[i], "STOPPED")]
                               \o <<Finish(Head(order), "STOPPED")>>
                   ELSE <<>>) \o Tail(@)]
        /\ view' = [view EXCEPT ![c] = IF pc[c] = "idle" THEN NoRuns ELSE @]
        /\ UNCHANGED <<db_vars, ctx, pc, run_vars, phase, peek, snap, kind, target,
                       calls, deaths, stalls, history>>

Step(a) == Peek(a) \/ Get(a) \/ Set(a) \/ SaveRow(a)

-----------------------------------------------------------------------------
(* ScanRuntime.run_scan(), one decision per step; a decision is taken when *)
(* the repository calls of the one before are done.                        *)
At(r, place) == pc[r] = place /\ Free(r)
Goto(r, place) == pc' = [pc EXCEPT ![r] = place]
Do(a, ops) == script' = [script EXCEPT ![a] = ops]
Rest(r) == UNCHANGED <<db_vars, phase, peek, snap, call_vars, deaths, stalls,
                       asked>>

\* The run is created as RUNNING and activated.
StartRun(r) ==
    /\ At(r, "start")
    /\ Goto(r, "check")
    /\ Do(r, <<Save(r, "RUNNING"), Op("activate", r, "RUNNING")>>)
    /\ UNCHANGED <<ctx, event, newest, run_vars, late>> /\ Rest(r)

\* Bug: a run that starts during a pause is stopped at once.
CheckPauseToo(r) ==
    /\ At(r, "check")
    /\ IF row.stop \/ row.want = "PAUSED"
       THEN /\ Do(r, <<Mark(r, "STOPPING")>>) /\ Goto(r, "stopping")
            /\ UNCHANGED <<ctx, newest, run_vars>>
       ELSE /\ ctx' = r /\ newest' = r /\ Goto(r, "honor") /\ UNCHANGED <<script, noted>>
            /\ then' = [then EXCEPT ![r] = "fetch"]
            /\ left' = [left EXCEPT ![r] = Tasks["fetch"]]
    /\ UNCHANGED <<event, late>> /\ Rest(r)

\* The control row is asked once before the context is registered.
CheckStop(r) ==
    /\ At(r, "check")
    /\ IF row.stop
       THEN /\ Do(r, <<Mark(r, "STOPPING")>>) /\ Goto(r, "stopping")
            /\ UNCHANGED <<ctx, newest, run_vars>>
       ELSE /\ ctx' = r /\ newest' = r /\ Goto(r, "honor") /\ UNCHANGED <<script, noted>>
            /\ then' = [then EXCEPT ![r] = "fetch"]
            /\ left' = [left EXCEPT ![r] = Tasks["fetch"]]
    /\ UNCHANGED <<event, late>> /\ Rest(r)

\* Bug: a pause that follows a stop request hides it.
HonorPauseFirst(r) ==
    /\ At(r, "honor")
    /\ \/ /\ row.stop /\ row.want # "PAUSED"
          /\ Do(r, <<Mark(r, "STOPPING")>> \o Progress(r, "STOPPED"))
          /\ Goto(r, "stopping")
          /\ noted' = [noted EXCEPT ![r] = FALSE]
       \/ /\ row.want = "PAUSED" /\ ~noted[r]
          /\ Do(r, <<Mark(r, "PAUSED")>> \o Progress(r, "PAUSED"))
          /\ noted' = [noted EXCEPT ![r] = TRUE]
          /\ UNCHANGED pc
       \/ /\ ~row.stop /\ row.want = "RUNNING"
          /\ Do(r, <<Mark(r, "RUNNING")>> \o
                   (IF noted[r] THEN Progress(r, "RUNNING") ELSE <<>>))
          /\ noted' = [noted EXCEPT ![r] = FALSE]
          /\ Goto(r, then[r])
    /\ UNCHANGED <<ctx, event, newest, left, then, late>> /\ Rest(r)

\* _honor_scan_control(): one look at the row, until it says stop or go on.
Honor(r) ==
    /\ At(r, "honor")
    /\ \/ /\ row.stop
          /\ Do(r, <<Mark(r, "STOPPING")>> \o Progress(r, "STOPPED"))
          /\ Goto(r, "stopping")
          /\ noted' = [noted EXCEPT ![r] = FALSE]
       \/ /\ ~row.stop /\ row.want = "PAUSED" /\ ~noted[r]
          /\ Do(r, <<Mark(r, "PAUSED")>> \o Progress(r, "PAUSED"))
          /\ noted' = [noted EXCEPT ![r] = TRUE]
          /\ UNCHANGED pc
       \/ /\ ~row.stop /\ row.want = "RUNNING"
          /\ Do(r, <<Mark(r, "RUNNING")>> \o
                   (IF noted[r] THEN Progress(r, "RUNNING") ELSE <<>>))
          /\ noted' = [noted EXCEPT ![r] = FALSE]
          /\ Goto(r, then[r])
    /\ UNCHANGED <<ctx, event, newest, left, then, late>> /\ Rest(r)

\* Bug: the event of the context is not asked, only the row.
ForcedByRow(r) == row.force

Forced(r) == event[r] \/ row.force      \* force_stop_requested()

\* Head of the fetch loop: force check, then the control row before a task.
Fetch(r) ==
    /\ At(r, "fetch")
    /\ \/ /\ left[r] > 0 /\ Forced(r) /\ Goto(r, "stopping") /\ UNCHANGED <<left, then>>
       \/ /\ left[r] > 0 /\ ~Forced(r) /\ Goto(r, "honor")
          /\ then' = [then EXCEPT ![r] = "fetching"] /\ UNCHANGED left
       \/ /\ left[r] = 0 /\ Goto(r, "analyse")
          /\ left' = [left EXCEPT ![r] = Tasks["analyse"]] /\ UNCHANGED then
    /\ UNCHANGED <<ctx, event, newest, noted, script, late>> /\ Rest(r)

Worked(r) ==
    /\ left' = [left EXCEPT ![r] = @ - 1]
    /\ late' = [late EXCEPT ![r] = @ + IF event[r] THEN 1 ELSE 0]

\* A bundle is fetched: an error or a timeout is recorded as progress, a
\* bundle asks the control row again for each of its modes.
Fetching(r) ==
    /\ At(r, "fetching") /\ Worked(r)
    /\ \/ Do(r, Progress(r, "RUNNING")) /\ Goto(r, "fetch") /\ UNCHANGED then
       \/ /\ Goto(r, "honor") /\ then' = [then EXCEPT ![r] = "fetch"]
          /\ UNCHANGED script
    /\ UNCHANGED <<ctx, event, newest, noted>> /\ Rest(r)

\* Head of the analysis loop: force check.
Analyse(r) ==
    /\ At(r, "analyse")
    /\ \/ /\ left[r] > 0 /\ Forced(r) /\ Goto(r, "stopping") /\ UNCHANGED left
       \/ /\ left[r] > 0 /\ ~Forced(r) /\ Goto(r, "submit") /\ UNCHANGED left
       \/ /\ left[r] = 0 /\ Goto(r, "post") /\ left' = [left EXCEPT ![r] = Tasks["post"]]
    /\ UNCHANGED <<ctx, event, newest, then, noted, script, late>> /\ Rest(r)

\* A task is submitted, then the control row is asked.
Submit(r) ==
    /\ At(r, "submit") /\ Worked(r)
    /\ Goto(r, "honor") /\ then' = [then EXCEPT ![r] = "analysed"]
    /\ UNCHANGED <<ctx, event, newest, noted, script>> /\ Rest(r)

\* Its result is recorded, an order opened perhaps.
Analysed(r) ==
    /\ At(r, "analysed")
    /\ Do(r, Progress(r, "RUNNING")) /\ Goto(r, "analyse")
    /\ UNCHANGED <<ctx, event, newest, run_vars, late>> /\ Rest(r)

\* Bug: one candidate too many.
PostOneMore(r) ==
    /\ At(r, "post")
    /\ \/ /\ left[r] >= 0 /\ left' = [left EXCEPT ![r] = @ - 1]
          /\ Do(r, <<Mark(r, "RUNNING")>>) /\ UNCHANGED pc
       \/ /\ left' = [left EXCEPT ![r] = 0]
          /\ Do(r, <<Save(r, "COMPLETED"), Finish(r, "COMPLETED")>>) /\ Goto(r, "pop")
    /\ UNCHANGED <<ctx, event, newest, then, noted, late>> /\ Rest(r)

\* _execute_post_scan_ranked_entries(): any number of orders, nothing asked.
Post(r) ==
    /\ At(r, "post")
    /\ \/ /\ left[r] > 0 /\ left' = [left EXCEPT ![r] = @ - 1]
          /\ Do(r, <<Mark(r, "RUNNING")>>) /\ UNCHANGED pc
       \/ /\ left' = [left EXCEPT ![r] = 0]
          /\ Do(r, <<Save(r, "COMPLETED"), Finish(r, "COMPLETED")>>) /\ Goto(r, "pop")
    /\ UNCHANGED <<ctx, event, newest, then, noted, late>> /\ Rest(r)

\* _finalize_run() of a run that saw a stop.
FinalizeStopped(r) ==
    /\ At(r, "stopping")
    /\ Do(r, <<Save(r, "STOPPED"), Finish(r, "STOPPED")>>) /\ Goto(r, "pop")
    /\ UNCHANGED <<ctx, event, newest, run_vars, late>> /\ Rest(r)

\* Bug: whatever context is registered is removed.
PopAny(r) ==
    /\ At(r, "pop")
    /\ ctx' = None
    /\ Goto(r, "done")
    /\ UNCHANGED <<event, newest, run_vars, script, late>> /\ Rest(r)

\* _finalize_run(): the context is removed if it is still this run's.
Pop(r) ==
    /\ At(r, "pop")
    /\ ctx' = IF ctx = r THEN None ELSE ctx
    /\ Goto(r, "done")
    /\ UNCHANGED <<event, newest, run_vars, script, late>> /\ Rest(r)

\* An exception ends run_scan: database errors anywhere, or submit() to an
\* executor that a force stop has shut down.  The context stays.
Die(r) ==
    /\ AtWork(r) /\ deaths < MaxDeaths
    /\ deaths' = deaths + 1
    /\ Goto(r, "dead") /\ Do(r, <<>>)
    /\ phase' = [phase EXCEPT ![r] = "begin"]
    /\ peek' = [peek EXCEPT ![r] = Idle] /\ snap' = [snap EXCEPT ![r] = Idle]
    /\ UNCHANGED <<db_vars, ctx, event, run_vars, call_vars, stalls, history>>

Scan(r) == \/ CheckStop(r) \/ Honor(r) \/ Fetch(r) \/ Fetching(r) \/ Analyse(r)
           \/ Submit(r) \/ Analysed(r) \/ Post(r) \/ FinalizeStopped(r) \/ Pop(r)

-----------------------------------------------------------------------------
(* The routes of api/routes/scans.py.                                      *)
Quiet(c) == UNCHANGED <<db_vars, ctx, event, run_vars, phase, peek, deaths, stalls, history>>

\* A request comes in.  All but pause and resume reconcile first.
Call(c, k) ==
    /\ At(c, "idle")
    /\ k = "get" \/ calls < MaxCalls
    /\ calls' = IF k = "get" THEN calls ELSE calls + 1
    /\ kind' = [kind EXCEPT ![c] = IF k \in {"pause", "resume"} THEN "get" ELSE k]
    /\ IF k \in {"pause", "resume"}
       THEN Do(c, <<Plain(k)>>) /\ UNCHANGED pc
       ELSE Do(c, <<Plain("list")>>) /\ Goto(c, "state")
    /\ UNCHANGED <<snap, view, target>> /\ Quiet(c)

\* _reconcile_scan_state(): the active run is the listed one the row names,
\* a synthetic one if nothing is listed, or else a listed open one, which is
\* adopted.
ReadState(c) ==
    LET named == row.active # None /\ view[c][row.active] # "none"
        synthetic == row.active # None /\ view[c] = NoRuns /\ row.status \in Open
    IN  /\ At(c, "state") /\ Goto(c, "settle")
        /\ snap' = [snap EXCEPT ![c] = row]
        /\ \/ /\ named /\ target' = [target EXCEPT ![c] = row.active]
              /\ UNCHANGED <<view, script>>
           \/ /\ synthetic /\ target' = [target EXCEPT ![c] = row.active]
              /\ view' = [view EXCEPT ![c][row.active] = row.status]
              /\ UNCHANGED script
           \/ /\ ~named /\ ~synthetic
              /\ \E r \in OpenIn(view[c]) :
                    /\ target' = [target EXCEPT ![c] = r]
                    /\ Do(c, <<Op("adopt", r, view[c][r])>>)
              /\ UNCHANGED view
           \/ /\ ~named /\ ~synthetic /\ OpenIn(view[c]) = {}
              /\ target' = [target EXCEPT ![c] = None]
              /\ UNCHANGED <<view, script>>
        /\ UNCHANGED <<kind, calls>> /\ Quiet(c)

\* Bug: a run that is stopping is not watched.
StaleIfRunning(c) == target[c] # None /\ snap[c].status = "RUNNING" /\ ~snap[c].fresh

\* Progress is 300 seconds old and the row does not say PAUSED.
Stale(c) ==
    /\ target[c] # None
    /\ snap[c].status \in {"RUNNING", "STOPPING"}
    /\ ~snap[c].fresh

\* _reconcile_scan_state(): a stale run is force-stopped and written off.
Settle(c) ==
    /\ At(c, "settle") /\ Goto(c, "serve")
    /\ Do(c, IF Stale(c)
             THEN <<Plain("force_stop"), Plain("signal"), Save(target[c], "STOPPED"),
                    Finish(target[c], "STOPPED"), Plain("touch"), Plain("list")>>
             ELSE <<>>)
    /\ UNCHANGED <<snap, call_vars>> /\ Quiet(c)

\* The rest of the route, from the row the reconciliation returned.
Serve(c) ==
    LET orders == CASE kind[c] = "get" -> <<>>
                    [] kind[c] = "stop" -> <<Plain("request_stop")>>
                    [] kind[c] = "stop_all" -> <<Plain("pause"), Plain("request_stop")>>
                    [] kind[c] = "force_all" -> <<Plain("force_stop"), Plain("signal_all")>>
        adopts == kind[c] # "get" /\ snap[c].active = None
    IN  /\ At(c, "serve") /\ Goto(c, "idle")
        /\ \/ ~adopts /\ Do(c, orders)
           \/ adopts /\ OpenIn(view[c]) = {} /\ Do(c, orders)
           \/ /\ adopts
              /\ \E r \in OpenIn(view[c]) :
                    Do(c, <<Op("adopt", r, view[c][r])>> \o orders)
        /\ snap' = [snap EXCEPT ![c] = Idle]
        /\ target' = [target EXCEPT ![c] = None]
        /\ view' = [view EXCEPT ![c] = IF kind[c] = "force_all" THEN @ ELSE NoRuns]
        /\ kind' = [kind EXCEPT ![c] = "get"]
        /\ UNCHANGED calls /\ Quiet(c)

Route(c) == ReadState(c) \/ Settle(c) \/ Serve(c) \/ ListRows(c) \/ Signal(c)

\* 300 seconds pass without progress.
Age ==
    /\ row.fresh /\ stalls < MaxStalls
    /\ stalls' = stalls + 1
    /\ row' = [row EXCEPT !.fresh = FALSE]
    /\ snap' = [a \in Actors |-> [snap[a] EXCEPT !.fresh = FALSE]]
    /\ UNCHANGED <<rows, ctx, event, pc, run_vars, script, phase, peek, call_vars,
                   deaths, history>>

-----------------------------------------------------------------------------
Next ==
    \/ \E r \in Runs : StartRun(r) \/ Scan(r) \/ Die(r)
    \/ \E c \in Callers : Route(c) \/ \E k \in Kinds : Call(c, k)
    \/ \E a \in Actors : Step(a)
    \/ Age

Spec == Init /\ [][Next]_vars

(* A scan thread in run_scan and a request being served go on; nobody has  *)
(* to start a run or to send a request.                                    *)
FairSpec ==
    /\ Spec
    /\ \A r \in Runs : WF_vars(Scan(r) \/ Step(r))
    /\ \A c \in Callers : WF_vars(Route(c) \/ Step(c))

(* The interface polls the state.                                          *)
PolledSpec == FairSpec /\ \A c \in Callers : WF_vars(Call(c, "get"))
-----------------------------------------------------------------------------
Places == {"start", "check", "honor", "fetch", "fetching", "analyse", "submit",
           "analysed", "post", "stopping", "pop", "done", "dead"}

TypeOK ==
    /\ row \in Rows /\ rows \in [Runs -> RowStatuses]
    /\ ctx \in Runs \cup {None} /\ event \in [Runs -> BOOLEAN]
    /\ \A r \in Runs : pc[r] \in Places
    /\ \A c \in Callers : pc[c] \in {"idle", "state", "settle", "serve"}
    /\ then \in [Runs -> {"fetch", "fetching", "analysed"}]
    /\ noted \in [Runs -> BOOLEAN] /\ \A r \in Runs : left[r] \in Nat
    /\ phase \in [Actors -> {"begin", "peeked", "read"}]
    /\ peek \in [Actors -> Rows] /\ snap \in [Actors -> Rows]
    /\ kind \in [Callers -> AllKinds] /\ target \in [Callers -> Runs \cup {None}]
    /\ calls <= MaxCalls /\ deaths <= MaxDeaths /\ stalls <= MaxStalls
    /\ asked \in BOOLEAN
    /\ \A r \in Runs : late[r] \in Nat
    /\ newest \in Runs \cup {None}

(* A force stop reaches a run through its event although its write to the  *)
(* row may be overwritten: after it, the fetch and analysis loops submit   *)
(* at most the one task they were already submitting.                      *)
ForceStopBoundsWork == \A r \in Runs : late[r] <= 1

(* The registered context is never that of a run that has finished, and    *)
(* the run that registered last stays registered until it ends, also when  *)
(* an overlapping run finishes before it: a force stop finds it.           *)
ContextIsLive ==
    /\ ctx # None => pc[ctx] # "done"
    /\ newest # None /\ AtWork(newest) => ctx = newest

(* Nothing but a stop request or the cancelling of a stale run makes a run *)
(* STOPPED, whatever snapshots are written back.                           *)
StoppedWasAsked ==
    ~asked => /\ \A r \in Runs : rows[r] # "STOPPED" /\ pc[r] # "stopping"
              /\ ~row.stop /\ ~row.force

(* "stop_requested: one-shot stop signal for the active run"               *)
(* (scan_control.py:20): while its run is at work, a stop request stands   *)
(* until the run finishes, or until somebody resumes.                      *)
Serves(a) == ~Free(a) /\ phase[a] = "read" /\ Next1(a).op \in {"finish", "resume"}

StopStandsUntilServed ==
    [][ row.stop /\ ~row'.stop /\ row.active # None => \E a \in Actors : Serves(a) /\ Set(a) ]_vars

Ended(r) == pc[r] \in {"done", "dead"}
LeftPaused == row.want = "PAUSED" /\ ~row.stop

(* A run ends unless it is left paused: stop breaks a pause, and no        *)
(* sequence of overwritten updates leaves it waiting for anything else.    *)
EveryRunEnds == []<>~LeftPaused => \A r \in Runs : pc[r] = "check" ~> Ended(r)

Watched == {"RUNNING", "STOPPING"}

(* A dead run that the row shows as RUNNING or STOPPING, and whose progress*)
(* is 300 seconds old, is written off if somebody polls the state, unless  *)
(* the write of an older call hides it (a stop that looked at the row      *)
(* before the activation shows it as IDLE, and then it stays).             *)
DeadRunIsCleared ==
    \A r \in Runs :
        pc[r] = "dead" /\ row.active = r /\ ~row.fresh /\ row.status \in Watched
        ~> rows[r] = "STOPPED" \/ row.active # r \/ row.status \notin Watched
=============================================================================
