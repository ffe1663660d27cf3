------------------------- MODULE ScanControlProofs -------------------------
(***************************************************************************)
(* Theorems about ScanControl for any runs, request threads, calls and     *)
(* tasks: what a force stop bounds, which context is registered, and that  *)
(* only a stop request stops.                                              *)
(***************************************************************************)
EXTENDS ScanControl, FiniteSetTheorems, SequenceTheorems, TLAPS
LOCAL INSTANCE SequencesExt

-----------------------------------------------------------------------------
(* The repository calls.                                                   *)
OpNames == {"pause", "resume", "idle", "touch", "request_stop", "force_stop", "activate",
            "mark", "adopt", "finish", "save", "list", "signal", "signal_all"}

\* A call that names a run, and the status it is about.
Ops == {o \in [op : OpNames, run : Runs \cup {None},
               to : {"IDLE", "RUNNING", "PAUSED", "STOPPING", "STOPPED", "COMPLETED"}] :
          /\ o.op \in {"activate", "mark", "adopt", "save"} => o.run \in Runs
          /\ o.op \in {"mark", "adopt"} => o.to # "COMPLETED"
          /\ o.op = "save" => o.to \in RowStatuses}

\* Without a request before it in the script, it would stop a run.
Stops(o) == o.op \in {"signal", "signal_all"} \/ (o.op = "save" /\ o.to = "STOPPED")
Harmless(l) == \A i \in DOMAIN l : ~Stops(l[i])
Guarded(l) ==
    \A i \in DOMAIN l : Stops(l[i]) => \E k \in DOMAIN l : k < i /\ l[k].op = "force_stop"

(* The calls of the scan thread and of the routes are calls.               *)
LEMMA OpsAre ==
    /\ \A n \in OpNames \ {"activate", "mark", "adopt", "save"} : Plain(n) \in Ops
    /\ \A r \in Runs :
          /\ Op("activate", r, "RUNNING") \in Ops
          /\ \A to \in {"RUNNING", "PAUSED", "STOPPING", "STOPPED"} :
                Mark(r, to) \in Ops /\ Op("adopt", r, to) \in Ops
          /\ \A to \in {"RUNNING", "PAUSED", "STOPPED", "COMPLETED"} :
                Save(r, to) \in Ops /\ Finish(r, to) \in Ops
BY DEF Plain, Op, Mark, Save, Finish, Ops, OpNames, RowStatuses

(* What a scan thread does next.                                           *)
LEMMA RunScripts ==
    ASSUME NEW r \in Runs
    PROVE  /\ <<>> \in Seq(Ops)
           /\ <<Save(r, "RUNNING"), Op("activate", r, "RUNNING")>> \in Seq(Ops)
           /\ \A to \in {"RUNNING", "PAUSED", "STOPPING"} : <<Mark(r, to)>> \in Seq(Ops)
           /\ \A to \in {"RUNNING", "PAUSED", "STOPPED"} : Progress(r, to) \in Seq(Ops)
           /\ \A to \in {"STOPPED", "COMPLETED"} :
                 <<Save(r, to), Finish(r, to)>> \in Seq(Ops)
           /\ \A to \in {"RUNNING", "PAUSED", "STOPPING"} :
                 \A also \in {"RUNNING", "PAUSED", "STOPPED"} :
                    <<Mark(r, to)>> \o Progress(r, also) \in Seq(Ops)
           /\ \A to \in {"RUNNING", "PAUSED", "STOPPING"} : <<Mark(r, to)>> \o <<>> \in Seq(Ops)
<1>1. \A to \in {"RUNNING", "PAUSED", "STOPPING"} : <<Mark(r, to)>> \in Seq(Ops)
  BY OpsAre
<1>2. \A to \in {"RUNNING", "PAUSED", "STOPPED"} : Progress(r, to) \in Seq(Ops)
  BY OpsAre DEF Progress
<1>3. <<>> \in Seq(Ops)
  OBVIOUS
<1>4. \A to \in {"RUNNING", "PAUSED", "STOPPING"} :
         \A l \in Seq(Ops) : <<Mark(r, to)>> \o l \in Seq(Ops)
  BY <1>1, ConcatProperties
<1>5. \A to \in {"STOPPED", "COMPLETED"} : <<Save(r, to), Finish(r, to)>> \in Seq(Ops)
  BY OpsAre
<1>6. <<Save(r, "RUNNING"), Op("activate", r, "RUNNING")>> \in Seq(Ops)
  BY OpsAre
<1>7. QED
  BY <1>1, <1>2, <1>3, <1>4, <1>5, <1>6

(* Of these, only those of a stopped run stop one.                         *)
LEMMA RunHarmless ==
    ASSUME NEW r \in Runs
    PROVE  /\ Harmless(<<>>)
           /\ Harmless(<<Save(r, "RUNNING"), Op("activate", r, "RUNNING")>>)
           /\ \A to \in {"RUNNING", "PAUSED", "STOPPING"} :
                 Harmless(<<Mark(r, to)>>) /\ Harmless(<<Mark(r, to)>> \o <<>>)
           /\ \A to \in {"RUNNING", "PAUSED"} :
                 Harmless(Progress(r, to)) /\ Harmless(<<Mark(r, to)>> \o Progress(r, to))
           /\ Harmless(<<Save(r, "COMPLETED"), Finish(r, "COMPLETED")>>)
<1>1. /\ \A to : ~Stops(Mark(r, to)) /\ ~Stops(Finish(r, to))
      /\ \A to \in {"RUNNING", "PAUSED", "COMPLETED"} : ~Stops(Save(r, to))
      /\ ~Stops(Op("activate", r, "RUNNING"))
  BY DEF Stops, Mark, Finish, Save, Op
<1>2. \A x, y, z : ~Stops(x) /\ ~Stops(y) /\ ~Stops(z) =>
          Harmless(<<x>>) /\ Harmless(<<x, y>>) /\ Harmless(<<x, y, z>>)
  BY DEF Harmless
<1>3. ASSUME NEW l \in Seq(Ops), NEW m \in Seq(Ops), Harmless(l), Harmless(m)
      PROVE  Harmless(l \o m)
  <2>1. /\ DOMAIN (l \o m) = 1..(Len(l) + Len(m)) /\ Len(l) \in Nat /\ Len(m) \in Nat
        /\ \A i \in 1..Len(l) : (l \o m)[i] = l[i] /\ i \in DOMAIN l
        /\ \A i \in 1..Len(m) : (l \o m)[Len(l) + i] = m[i] /\ i \in DOMAIN m
      OBVIOUS
  <2> SUFFICES ASSUME NEW i \in DOMAIN (l \o m)
               PROVE  ~Stops((l \o m)[i])
      BY DEF Harmless
  <2>2. CASE i \in 1..Len(l)
      BY <1>3, <2>1, <2>2 DEF Harmless
  <2>3. CASE i \notin 1..Len(l)
    <3>1. i - Len(l) \in 1..Len(m) /\ Len(l) + (i - Len(l)) = i
        BY <2>1, <2>3
    <3>2. (l \o m)[i] = m[i - Len(l)]
        BY <2>1, <3>1
    <3>3. QED
        BY <1>3, <2>1, <3>1, <3>2 DEF Harmless
  <2>4. QED
      BY <2>2, <2>3
<1>4. Harmless(<<>>)
  BY DEF Harmless
<1>5. /\ \A to : Harmless(<<Mark(r, to)>>)
      /\ \A to \in {"RUNNING", "PAUSED"} : Harmless(Progress(r, to))
      /\ Harmless(<<Save(r, "COMPLETED"), Finish(r, "COMPLETED")>>)
      /\ Harmless(<<Save(r, "RUNNING"), Op("activate", r, "RUNNING")>>)
  BY <1>1, <1>2 DEF Progress
<1>6. \A to \in {"RUNNING", "PAUSED"} : Harmless(<<Mark(r, to)>> \o Progress(r, to))
  BY <1>3, <1>5, RunScripts
<1>7. \A to \in {"RUNNING", "PAUSED", "STOPPING"} : Harmless(<<Mark(r, to)>> \o <<>>)
  BY <1>3, <1>4, <1>5, RunScripts
<1>8. QED
  BY <1>4, <1>5, <1>6, <1>7

(* A harmless script is guarded; the rest of a guarded one is, once its    *)
(* request is made.                                                        *)
LEMMA GuardedIs ==
    ASSUME NEW l \in Seq(Ops)
    PROVE  /\ Harmless(l) => Guarded(l)
           /\ l # <<>> /\ Guarded(l) /\ Head(l).op # "force_stop"
                 => Guarded(Tail(l)) /\ ~Stops(Head(l))
           /\ Guarded(l) => \A x \in Ops : ~Stops(x) => Guarded(<<x>> \o l)
<1>1. Harmless(l) => Guarded(l)
  BY DEF Harmless, Guarded
<1>2. ASSUME l # <<>>, Guarded(l), Head(l).op # "force_stop"
      PROVE  Guarded(Tail(l)) /\ ~Stops(Head(l))
  <2> DEFINE m == Tail(l)
             h == Head(l)
  <2>1. /\ DOMAIN m = 1..(Len(l) - 1) /\ DOMAIN l = 1..Len(l) /\ Len(l) \in Nat /\ Len(l) >= 1
        /\ \A i \in 1..(Len(l) - 1) : m[i] = l[i + 1] /\ i + 1 \in 1..Len(l)
        /\ l[1] = h
      BY <1>2
  <2> HIDE DEF m, h
  <2>2. ~Stops(h)
      BY <1>2, <2>1 DEF Guarded, h
  <2>3. ASSUME NEW i \in DOMAIN m, Stops(m[i])
        PROVE  \E k \in DOMAIN m : k < i /\ m[k].op = "force_stop"
    <3>1. i + 1 \in DOMAIN l /\ Stops(l[i + 1])
        BY <2>1, <2>3
    <3>2. PICK k \in DOMAIN l : k < i + 1 /\ l[k].op = "force_stop"
        BY <1>2, <3>1 DEF Guarded
    <3>3. k # 1
        BY <1>2, <2>1, <3>2 DEF h
    <3>4. k - 1 \in DOMAIN m /\ m[k - 1] = l[k] /\ k - 1 < i
      <4>1. k - 1 \in 1..(Len(l) - 1) /\ (k - 1) + 1 = k /\ k - 1 < i
          BY <2>1, <2>3, <3>2, <3>3
      <4>2. QED
          BY <2>1, <4>1
    <3>5. QED
        BY <3>2, <3>4
  <2>4. QED
      BY <2>2, <2>3 DEF Guarded, m, h
<1>3. ASSUME Guarded(l), NEW x \in Ops, ~Stops(x)
      PROVE  Guarded(<<x>> \o l)
  <2> DEFINE m == <<x>> \o l
  <2>1. /\ DOMAIN m = 1..(Len(l) + 1) /\ DOMAIN l = 1..Len(l) /\ Len(l) \in Nat
        /\ \A i \in 1..Len(l) : m[i + 1] = l[i]
        /\ m[1] = x
      OBVIOUS
  <2> HIDE DEF m
  <2>2. ASSUME NEW i \in DOMAIN m, Stops(m[i])
        PROVE  \E k \in DOMAIN m : k < i /\ m[k].op = "force_stop"
    <3>1. i # 1 /\ i - 1 \in DOMAIN l /\ (i - 1) + 1 = i
        BY <1>3, <2>1, <2>2
    <3>2. Stops(l[i - 1])
        BY <2>1, <2>2, <3>1
    <3>3. PICK k \in DOMAIN l : k < i - 1 /\ l[k].op = "force_stop"
        BY <1>3, <3>1, <3>2 DEF Guarded
    <3>4. k + 1 \in DOMAIN m /\ m[k + 1] = l[k] /\ k + 1 < i
        BY <2>1, <2>2, <3>3
    <3>5. QED
        BY <3>3, <3>4
  <2>3. QED
      BY <2>2 DEF Guarded, m
<1>4. QED
  BY <1>1, <1>2, <1>3

-----------------------------------------------------------------------------
(* Types, and where a scan is when it has a task left.                     *)
CallPlaces == {"idle", "state", "settle", "serve"}
Routes == {"get", "stop", "stop_all", "force_all"}

RowType ==
    /\ row \in Rows /\ rows \in [Runs -> RowStatuses]
    /\ peek \in [Actors -> Rows] /\ snap \in [Actors -> Rows]

RunType ==
    /\ ctx \in Runs \cup {None} /\ newest \in Runs \cup {None}
    /\ event \in [Runs -> BOOLEAN] /\ noted \in [Runs -> BOOLEAN]
    /\ pc \in [Actors -> Places \cup CallPlaces]
    /\ \A r \in Runs : pc[r] \in Places
    /\ \A c \in Callers : pc[c] \in CallPlaces
    /\ left \in [Runs -> Nat] /\ late \in [Runs -> Nat]
    /\ then \in [Runs -> {"fetch", "fetching", "analysed"}]

CallType ==
    /\ kind \in [Callers -> Routes]
    /\ view \in [Callers -> [Runs -> RowStatuses \cup Open]]
    /\ target \in [Callers -> Runs \cup {None}]
    /\ calls \in 0..MaxCalls /\ deaths \in 0..MaxDeaths /\ stalls \in 0..MaxStalls
    /\ asked \in BOOLEAN

\* An actor inside an update has that update first in its script.
ScriptType ==
    /\ script \in [Actors -> Seq(Ops)]
    /\ phase \in [Actors -> {"begin", "peeked", "read"}]
    /\ \A a \in Actors : phase[a] # "begin" =>
          /\ script[a] # <<>>
          /\ Peeks(Head(script[a]).op) \/ (phase[a] = "read" /\ Updates(Head(script[a]).op))

TypeInv == RowType /\ RunType /\ CallType /\ ScriptType

\* The run is about to submit a task that was not forbidden to it.
Submitting(r) ==
    pc[r] \in {"fetching", "submit"} \/ (pc[r] = "honor" /\ then[r] = "fetching")
WorkInv ==
    \A r \in Runs :
        /\ Submitting(r) => left[r] > 0 /\ late[r] = 0
        /\ late[r] = 0 \/ (late[r] = 1 /\ event[r])

\* A run whose context is registered is at work or has failed.
ContextInv ==
    /\ newest # None => pc[newest] \notin {"start", "check"}
    /\ ContextIsLive

\* Until somebody asks, nothing says stop and no script will.
AskedInv ==
    ~asked =>
        /\ \A r \in Runs : rows[r] # "STOPPED" /\ pc[r] # "stopping" /\ ~event[r]
        /\ ~row.stop /\ ~row.force
        /\ \A a \in Actors : ~snap[a].stop /\ ~snap[a].force /\ Guarded(script[a])

ScanInv == TypeInv /\ WorkInv /\ ContextInv /\ AskedInv

(* The context that a step of a run leaves: the actors' own variables stay *)
(* in their sets when the run goes to a place with a new script.           *)
LEMMA RunGoes ==
    ASSUME TypeInv, NEW r \in Runs, Free(r), NEW place \in Places, NEW l \in Seq(Ops),
           pc' = [pc EXCEPT ![r] = place] \/ pc' = pc,
           script' = [script EXCEPT ![r] = l] \/ script' = script, phase' = phase
    PROVE  /\ ScriptType'
           /\ pc' \in [Actors -> Places \cup CallPlaces]
           /\ \A q \in Runs : pc'[q] \in Places
           /\ \A c \in Callers : pc'[c] \in CallPlaces
<1>1. r \in Actors /\ r \notin Callers /\ phase[r] = "begin"
  BY ScanControlAssumption DEF Actors, TypeInv, ScriptType, Free
<1>2. /\ pc' \in [Actors -> Places \cup CallPlaces]
      /\ \A q \in Runs : pc'[q] \in Places
      /\ \A c \in Callers : pc'[c] \in CallPlaces
  BY <1>1 DEF TypeInv, RunType, Actors
<1>3. script' \in [Actors -> Seq(Ops)] /\ \A a \in Actors : a # r => script'[a] = script[a]
  BY <1>1 DEF TypeInv, ScriptType
<1>4. ScriptType'
  BY <1>1, <1>3 DEF TypeInv, ScriptType
<1>5. QED
  BY <1>2, <1>4

(* The steps of run_scan keep the types.                                   *)
LEMMA ScanType ==
    ASSUME TypeInv, WorkInv, NEW r \in Runs, StartRun(r) \/ Scan(r)
    PROVE  TypeInv'
<1> DEFINE Kept == /\ ctx' \in Runs \cup {None} /\ newest' \in Runs \cup {None}
                   /\ event' \in [Runs -> BOOLEAN] /\ noted' \in [Runs -> BOOLEAN]
                   /\ left' \in [Runs -> Nat] /\ late' \in [Runs -> Nat]
                   /\ then' \in [Runs -> {"fetch", "fetching", "analysed"}]
           Goes == \E place \in Places, l \in Seq(Ops) :
                      /\ pc' = [pc EXCEPT ![r] = place] \/ pc' = pc
                      /\ script' = [script EXCEPT ![r] = l] \/ script' = script
<1>1. Free(r) /\ Rest(r)
  BY DEF StartRun, Scan, CheckStop, Honor, Fetch, Fetching, Analyse, Submit, Analysed, Post,
         FinalizeStopped, Pop, At
<1>2. Tasks["fetch"] \in Nat /\ Tasks["analyse"] \in Nat /\ Tasks["post"] \in Nat
  BY ScanControlAssumption
<1>3. RunType /\ \A q \in Runs : pc[q] \in {"fetching", "submit"} => left[q] > 0
  BY DEF TypeInv, WorkInv, Submitting
<1>4. ASSUME Kept, Goes
      PROVE  TypeInv'
  <2>1. PICK place \in Places, l \in Seq(Ops) :
           /\ pc' = [pc EXCEPT ![r] = place] \/ pc' = pc
           /\ script' = [script EXCEPT ![r] = l] \/ script' = script
      BY <1>4
  <2>2. /\ ScriptType'
        /\ pc' \in [Actors -> Places \cup CallPlaces]
        /\ \A q \in Runs : pc'[q] \in Places
        /\ \A c \in Callers : pc'[c] \in CallPlaces
      BY <1>1, <2>1, RunGoes DEF Rest
  <2>3. QED
      BY <1>1, <1>4, <2>2
         DEF Rest, TypeInv, RowType, RunType, CallType, db_vars, call_vars
<1>5. CASE StartRun(r)
  <2>1. Kept
      BY <1>3, <1>5 DEF StartRun, RunType, run_vars
  <2>2. Goes
      BY <1>5, RunScripts DEF StartRun, Goto, Do, Places
  <2>3. QED
      BY <1>4, <2>1, <2>2
<1>6. CASE CheckStop(r)
  <2>1. Kept
      BY <1>2, <1>3, <1>6 DEF CheckStop, RunType, run_vars
  <2>2. Goes
      BY <1>6, RunScripts DEF CheckStop, Goto, Do, Places
  <2>3. QED
      BY <1>4, <2>1, <2>2
<1>7. CASE Honor(r)
  <2>1. Kept
      BY <1>3, <1>7 DEF Honor, RunType, run_vars
  <2>2. then[r] \in Places
      BY <1>3 DEF RunType, Places
  <2>3. /\ "stopping" \in Places
        /\ <<Mark(r, "STOPPING")>> \o Progress(r, "STOPPED") \in Seq(Ops)
        /\ <<Mark(r, "PAUSED")>> \o Progress(r, "PAUSED") \in Seq(Ops)
        /\ <<Mark(r, "RUNNING")>> \o Progress(r, "RUNNING") \in Seq(Ops)
        /\ <<Mark(r, "RUNNING")>> \o <<>> \in Seq(Ops)
      BY RunScripts DEF Places
  <2>4. Goes
    <3>1. CASE row.stop
        BY <1>7, <2>3, <3>1 DEF Honor, Goto, Do
    <3>2. CASE ~row.stop /\ row.want = "PAUSED"
        BY <1>7, <2>2, <2>3, <3>2 DEF Honor, Do
    <3>3. CASE ~row.stop /\ row.want # "PAUSED" /\ noted[r]
        BY <1>7, <2>2, <2>3, <3>3 DEF Honor, Goto, Do
    <3>4. CASE ~row.stop /\ row.want # "PAUSED" /\ ~noted[r]
        BY <1>7, <2>2, <2>3, <3>4 DEF Honor, Goto, Do
    <3>5. QED
        BY <3>1, <3>2, <3>3, <3>4
  <2>5. QED
      BY <1>4, <2>1, <2>4
<1>8. CASE Fetch(r)
  <2>1. Kept
      BY <1>2, <1>3, <1>8 DEF Fetch, RunType, run_vars
  <2>2. Goes
      BY <1>8, RunScripts DEF Fetch, Goto, Do, Places
  <2>3. QED
      BY <1>4, <2>1, <2>2
<1>9. CASE Fetching(r)
  <2>1. Kept
      BY <1>3, <1>9 DEF Fetching, RunType, run_vars, Worked, At
  <2>2. Goes
      BY <1>9, RunScripts DEF Fetching, Goto, Do, Places
  <2>3. QED
      BY <1>4, <2>1, <2>2
<1>10. CASE Analyse(r)
  <2>1. Kept
      BY <1>2, <1>3, <1>10 DEF Analyse, RunType, run_vars
  <2>2. Goes
      BY <1>10, RunScripts DEF Analyse, Goto, Do, Places
  <2>3. QED
      BY <1>4, <2>1, <2>2
<1>11. CASE Submit(r)
  <2>1. Kept
      BY <1>3, <1>11 DEF Submit, RunType, run_vars, Worked, At
  <2>2. Goes
      BY <1>11, RunScripts DEF Submit, Goto, Do, Places
  <2>3. QED
      BY <1>4, <2>1, <2>2
<1>12. CASE Analysed(r)
  <2>1. Kept
      BY <1>3, <1>12 DEF Analysed, RunType, run_vars
  <2>2. Goes
      BY <1>12, RunScripts DEF Analysed, Goto, Do, Places
  <2>3. QED
      BY <1>4, <2>1, <2>2
<1>13. CASE Post(r)
  <2>1. Kept
      BY <1>3, <1>13 DEF Post, RunType, run_vars
  <2>2. Goes
      BY <1>13, RunScripts DEF Post, Goto, Do, Places
  <2>3. QED
      BY <1>4, <2>1, <2>2
<1>14. CASE FinalizeStopped(r)
  <2>1. Kept
      BY <1>3, <1>14 DEF FinalizeStopped, RunType, run_vars
  <2>2. Goes
      BY <1>14, RunScripts DEF FinalizeStopped, Goto, Do, Places
  <2>3. QED
      BY <1>4, <2>1, <2>2
<1>15. CASE Pop(r)
  <2>1. Kept
      BY <1>3, <1>15 DEF Pop, RunType, run_vars
  <2>2. Goes
      BY <1>15, RunScripts DEF Pop, Goto, Do, Places
  <2>3. QED
      BY <1>4, <2>1, <2>2
<1> HIDE DEF Kept, Goes
<1>16. QED
  BY <1>5, <1>6, <1>7, <1>8, <1>9, <1>10, <1>11, <1>12, <1>13, <1>14, <1>15 DEF Scan

-----------------------------------------------------------------------------
(* ScanControlService: an update writes a row, and only a request sets a   *)
(* stop flag.                                                              *)
LEMMA EditIs ==
    ASSUME NEW o \in Ops, Peeks(o.op) \/ Updates(o.op), NEW p \in Rows, NEW s \in Rows
    PROVE  /\ Edit(o, p, s) \in Rows
           /\ o.op \notin {"request_stop", "force_stop"} /\ ~s.stop /\ ~s.force
                 => ~Edit(o, p, s).stop /\ ~Edit(o, p, s).force
<1> DEFINE e == Edit(o, p, s)
<1>1. CASE o.op = "pause"
  BY <1>1 DEF Edit, Rows
<1>2. CASE o.op = "resume"
  BY <1>2 DEF Edit, Rows
<1>3. CASE o.op = "idle"
  BY <1>3 DEF Edit, Rows
<1>4. CASE o.op = "touch"
  BY <1>4 DEF Edit, Rows
<1>5. CASE o.op = "request_stop"
  BY <1>5 DEF Edit, Rows, StopStatus
<1>6. CASE o.op = "force_stop"
  BY <1>6 DEF Edit, Rows, StopStatus
<1>7. CASE o.op = "activate"
  BY <1>7 DEF Edit, Rows, Ops
<1>8. CASE o.op = "mark"
  BY <1>8 DEF Edit, Rows, Ops
<1>9. CASE o.op = "adopt"
  BY <1>9 DEF Edit, Rows, Ops
<1>10. CASE o.op = "finish"
  BY <1>10 DEF Edit, Rows, Finished
<1>11. QED
  BY <1>1, <1>2, <1>3, <1>4, <1>5, <1>6, <1>7, <1>8, <1>9, <1>10 DEF Peeks, Updates

(* Taking the first call off a script.                                     *)
LEMMA FirstCall ==
    ASSUME TypeInv, NEW a \in Actors, ~Free(a)
    PROVE  /\ script[a] \in Seq(Ops) /\ script[a] # <<>> /\ Next1(a) \in Ops
           /\ Tail(script[a]) \in Seq(Ops) /\ Next1(a) = Head(script[a])
BY DEF TypeInv, ScriptType, Free, Next1

(* The repository calls keep the types.                                    *)
LEMMA StepType ==
    ASSUME TypeInv, NEW a \in Actors, Step(a)
    PROVE  TypeInv'
<1>1. CASE Peek(a)
  <2>1. RowType' /\ RunType' /\ CallType'
      BY <1>1 DEF Peek, TypeInv, RowType, RunType, CallType, db_vars, run_vars, call_vars, history
  <2>2. ScriptType'
      BY <1>1 DEF Peek, TypeInv, ScriptType, Free, Next1
  <2>3. QED
      BY <2>1, <2>2 DEF TypeInv
<1>2. CASE Get(a)
  <2>1. RowType' /\ RunType' /\ CallType'
      BY <1>2 DEF Get, TypeInv, RowType, RunType, CallType, db_vars, run_vars, call_vars, history
  <2>2. ScriptType'
      BY <1>2 DEF Get, TypeInv, ScriptType, Free, Next1
  <2>3. QED
      BY <2>1, <2>2 DEF TypeInv
<1>3. CASE Set(a)
  <2> DEFINE o == Next1(a)
             new == Edit(o, peek[a], snap[a])
             more == IF o.op = "resume" /\ new.active = None THEN <<Plain("idle")>> ELSE <<>>
             rest == Tail(script[a])
  <2>1. /\ ~Free(a) /\ phase[a] = "read" /\ row' = new
        /\ snap' = [snap EXCEPT ![a] = IF pc[a] \in {"settle", "serve"} THEN new ELSE Idle]
        /\ peek' = [peek EXCEPT ![a] = Idle]
        /\ script' = [script EXCEPT ![a] = more \o rest]
        /\ phase' = [phase EXCEPT ![a] = "begin"]
        /\ asked' = (asked \/ o.op \in {"request_stop", "force_stop"})
        /\ UNCHANGED <<rows, ctx, event, pc, run_vars, call_vars, deaths, stalls, late, newest>>
      BY <1>3 DEF Set
  <2>2. o \in Ops /\ (Peeks(o.op) \/ Updates(o.op)) /\ rest \in Seq(Ops)
      BY <2>1, FirstCall DEF TypeInv, ScriptType
  <2>3. new \in Rows /\ Idle \in Rows
    <3>1. peek[a] \in Rows /\ snap[a] \in Rows
        BY DEF TypeInv, RowType
    <3>2. QED
        BY <2>2, <3>1, EditIs DEF Idle, Rows
  <2>4. more \o rest \in Seq(Ops)
    <3>1. more \in Seq(Ops)
        BY OpsAre DEF OpNames
    <3> HIDE DEF more, rest
    <3>2. QED
        BY <2>2, <3>1
  <2> HIDE DEF o, new, more, rest
  <2>5. RowType' /\ RunType' /\ CallType'
      BY <2>1, <2>3 DEF TypeInv, RowType, RunType, CallType, run_vars, call_vars
  <2>6. ScriptType'
      BY <2>1, <2>4 DEF TypeInv, ScriptType
  <2>7. QED
      BY <2>5, <2>6 DEF TypeInv
<1>4. CASE SaveRow(a)
  <2>1. Next1(a) \in Ops /\ Next1(a).op = "save" /\ Tail(script[a]) \in Seq(Ops)
      BY <1>4, FirstCall DEF SaveRow
  <2>2. phase[a] = "begin"
      BY <1>4 DEF SaveRow, TypeInv, ScriptType, Next1, Peeks, Updates
  <2>3. Next1(a).run \in Runs /\ Next1(a).to \in RowStatuses
      BY <2>1 DEF Ops
  <2>4. RowType' /\ RunType' /\ CallType'
      BY <1>4, <2>3 DEF SaveRow, TypeInv, RowType, RunType, CallType, run_vars, call_vars, history
  <2>5. ScriptType'
      BY <1>4, <2>1, <2>2 DEF SaveRow, TypeInv, ScriptType
  <2>6. QED
      BY <2>4, <2>5 DEF TypeInv
<1>5. QED
  BY <1>1, <1>2, <1>3, <1>4 DEF Step

(* The end of a scan thread, and the passing of time, too.                 *)
LEMMA DieAgeType ==
    ASSUME TypeInv, (\E r \in Runs : Die(r)) \/ Age
    PROVE  TypeInv'
<1>1. ASSUME NEW r \in Runs, Die(r)
      PROVE  TypeInv'
  <2>1. r \in Actors /\ r \notin Callers /\ Idle \in Rows /\ <<>> \in Seq(Ops)
      BY ScanControlAssumption DEF Actors, Idle, Rows
  <2>2. RunType'
      BY <1>1, <2>1 DEF Die, Goto, TypeInv, RunType, run_vars, history, Actors, Places
  <2>3. RowType' /\ CallType'
      BY <1>1, <2>1, ScanControlAssumption
         DEF Die, TypeInv, RowType, CallType, db_vars, call_vars, history
  <2>4. ScriptType'
      BY <1>1, <2>1 DEF Die, Do, TypeInv, ScriptType
  <2>5. QED
      BY <2>2, <2>3, <2>4 DEF TypeInv
<1>2. CASE Age
  <2>1. RowType'
      BY <1>2 DEF Age, TypeInv, RowType, Rows
  <2>2. RunType' /\ CallType' /\ ScriptType'
      BY <1>2, ScanControlAssumption, SMTT(30)
         DEF Age, TypeInv, RunType, CallType, ScriptType, run_vars, call_vars, history
  <2>3. QED
      BY <2>1, <2>2 DEF TypeInv
<1>3. QED
  BY <1>1, <1>2

-----------------------------------------------------------------------------
(* The routes.                                                             *)

\* What a route does once the state is settled.
Orders(k) ==
    CASE k = "get" -> <<>>
      [] k = "stop" -> <<Plain("request_stop")>>
      [] k = "stop_all" -> <<Plain("pause"), Plain("request_stop")>>
      [] k = "force_all" -> <<Plain("force_stop"), Plain("signal_all")>>
WriteOff(r) == <<Plain("force_stop"), Plain("signal"), Save(r, "STOPPED"),
                 Finish(r, "STOPPED"), Plain("touch"), Plain("list")>>

(* They request a stop before they make one happen.                        *)
LEMMA CallScripts ==
    /\ \A n \in {"pause", "resume", "list"} : <<Plain(n)>> \in Seq(Ops) /\ Guarded(<<Plain(n)>>)
    /\ \A k \in Routes : Orders(k) \in Seq(Ops) /\ Guarded(Orders(k))
    /\ \A r \in Runs, to \in Open :
          /\ <<Op("adopt", r, to)>> \in Seq(Ops) /\ Guarded(<<Op("adopt", r, to)>>)
          /\ \A k \in Routes : /\ <<Op("adopt", r, to)>> \o Orders(k) \in Seq(Ops)
                               /\ Guarded(<<Op("adopt", r, to)>> \o Orders(k))
    /\ \A r \in Runs : WriteOff(r) \in Seq(Ops) /\ Guarded(WriteOff(r))
<1>1. /\ \A n \in OpNames : Plain(n).op = n
      /\ \A n \in OpNames \ {"activate", "mark", "adopt", "save", "signal", "signal_all"} :
            Plain(n) \in Ops /\ ~Stops(Plain(n))
      /\ Plain("signal") \in Ops /\ Plain("signal_all") \in Ops
  BY OpsAre DEF Plain, Op, Stops, OpNames
<1>2. \A r \in Runs, to \in Open : Op("adopt", r, to) \in Ops /\ ~Stops(Op("adopt", r, to))
  BY OpsAre DEF Op, Stops, Open
<1>3. \A n \in {"pause", "resume", "list"} : <<Plain(n)>> \in Seq(Ops) /\ Guarded(<<Plain(n)>>)
  BY <1>1 DEF Guarded, OpNames
<1>4. ASSUME NEW k \in Routes
      PROVE  Orders(k) \in Seq(Ops) /\ Guarded(Orders(k))
  <2>1. CASE k = "get"
      BY <2>1 DEF Orders, Guarded
  <2>2. CASE k = "stop"
      BY <1>1, <2>2 DEF Orders, Guarded, OpNames
  <2>3. CASE k = "stop_all"
    <3>1. /\ Plain("pause") \in Ops /\ Plain("request_stop") \in Ops
          /\ ~Stops(Plain("pause")) /\ ~Stops(Plain("request_stop"))
        BY <1>1 DEF OpNames
    <3>2. QED
        BY <2>3, <3>1 DEF Orders, Guarded
  <2>4. CASE k = "force_all"
    <3>1. /\ Plain("force_stop") \in Ops /\ Plain("signal_all") \in Ops
          /\ Plain("force_stop").op = "force_stop" /\ ~Stops(Plain("force_stop"))
        BY <1>1 DEF OpNames
    <3>2. QED
        BY <2>4, <3>1 DEF Orders, Guarded
  <2>5. QED
      BY <2>1, <2>2, <2>3, <2>4 DEF Routes
<1>5. ASSUME NEW r \in Runs, NEW to \in Open
      PROVE  /\ <<Op("adopt", r, to)>> \in Seq(Ops) /\ Guarded(<<Op("adopt", r, to)>>)
             /\ \A k \in Routes : /\ <<Op("adopt", r, to)>> \o Orders(k) \in Seq(Ops)
                                  /\ Guarded(<<Op("adopt", r, to)>> \o Orders(k))
  <2> DEFINE x == Op("adopt", r, to)
  <2>1. x \in Ops /\ ~Stops(x)
      BY <1>2
  <2> HIDE DEF x
  <2>2. <<x>> \in Seq(Ops) /\ Guarded(<<x>>)
      BY <2>1 DEF Guarded
  <2>3. ASSUME NEW k \in Routes
        PROVE  <<x>> \o Orders(k) \in Seq(Ops) /\ Guarded(<<x>> \o Orders(k))
    <3>1. Orders(k) \in Seq(Ops) /\ Guarded(Orders(k))
        BY <1>4
    <3>2. <<x>> \o Orders(k) \in Seq(Ops)
        BY <2>2, <3>1, ConcatProperties
    <3>3. QED
        BY <2>1, <3>1, <3>2, GuardedIs
  <2>4. QED
      BY <2>2, <2>3 DEF x
<1>6. ASSUME NEW r \in Runs
      PROVE  WriteOff(r) \in Seq(Ops) /\ Guarded(WriteOff(r))
  <2>1. /\ Plain("force_stop") \in Ops /\ Plain("signal") \in Ops /\ Save(r, "STOPPED") \in Ops
        /\ Finish(r, "STOPPED") \in Ops /\ Plain("touch") \in Ops /\ Plain("list") \in Ops
        /\ Plain("force_stop").op = "force_stop" /\ ~Stops(Plain("force_stop"))
      BY <1>1, OpsAre DEF OpNames
  <2>2. WriteOff(r) \in Seq(Ops)
      BY <2>1 DEF WriteOff
  <2>3. DOMAIN WriteOff(r) = 1..6 /\ WriteOff(r)[1] = Plain("force_stop")
      BY DEF WriteOff
  <2>4. \A i \in DOMAIN WriteOff(r) : Stops(WriteOff(r)[i]) => 1 < i
      BY <2>1, <2>3
  <2>5. QED
      BY <2>1, <2>2, <2>3, <2>4 DEF Guarded
<1>7. QED
  BY <1>3, <1>4, <1>5, <1>6

(* A caller that goes elsewhere with a new script.                         *)
LEMMA CallerGoes ==
    ASSUME TypeInv, NEW c \in Callers, Free(c), NEW place \in CallPlaces, NEW l \in Seq(Ops),
           pc' = [pc EXCEPT ![c] = place] \/ pc' = pc,
           script' = [script EXCEPT ![c] = l] \/ script' = script, phase' = phase
    PROVE  /\ ScriptType'
           /\ pc' \in [Actors -> Places \cup CallPlaces]
           /\ \A q \in Runs : pc'[q] \in Places
           /\ \A b \in Callers : pc'[b] \in CallPlaces
<1>1. c \in Actors /\ c \notin Runs /\ phase[c] = "begin"
  BY ScanControlAssumption DEF Actors, TypeInv, ScriptType, Free
<1>2. /\ pc' \in [Actors -> Places \cup CallPlaces]
      /\ \A q \in Runs : pc'[q] \in Places
      /\ \A b \in Callers : pc'[b] \in CallPlaces
  BY <1>1, ZenonT(30) DEF TypeInv, RunType, Actors
<1>3. script' \in [Actors -> Seq(Ops)] /\ \A a \in Actors : a # c => script'[a] = script[a]
  BY <1>1 DEF TypeInv, ScriptType
<1>4. ScriptType'
  BY <1>1, <1>3 DEF TypeInv, ScriptType
<1>5. QED
  BY <1>2, <1>4

\* Where such a step goes, and with which script.
Goes(c, place, l) ==
    /\ pc' = [pc EXCEPT ![c] = place] \/ pc' = pc
    /\ script' = [script EXCEPT ![c] = l] \/ script' = script

Routed(c) == \E place \in CallPlaces, l \in Seq(Ops) : Guarded(l) /\ Goes(c, place, l)

(* Go somewhere, with a guarded script or with the one there is.           *)
LEMMA RoutedBy ==
    ASSUME NEW c, NEW place \in CallPlaces, Goto(c, place) \/ UNCHANGED pc
    PROVE  /\ \A l \in Seq(Ops) : Guarded(l) /\ Do(c, l) => Routed(c)
           /\ UNCHANGED script => Routed(c)
<1>1. \A l \in Seq(Ops) : Do(c, l) => Goes(c, place, l)
  BY DEF Do, Goto, Goes
<1>2. UNCHANGED script => Goes(c, place, <<>>)
  BY DEF Goto, Goes
<1>3. <<>> \in Seq(Ops) /\ Guarded(<<>>)
  BY DEF Guarded
<1>4. QED
  BY <1>1, <1>2, <1>3 DEF Routed

(* A request, and the decisions of its route.                              *)
LEMMA CallerScript ==
    ASSUME TypeInv, NEW c \in Callers,
           (\E k \in Kinds : Call(c, k)) \/ ReadState(c) \/ Settle(c) \/ Serve(c)
    PROVE  /\ Free(c) /\ Quiet(c)
           /\ Routed(c)
<1>1. Free(c) /\ Quiet(c)
  BY DEF Call, ReadState, Settle, Serve, At
<1>2. ASSUME NEW k \in Kinds, Call(c, k)
      PROVE  Routed(c)
  <2>1. CASE k \in {"pause", "resume"}
      BY <1>2, <2>1, CallScripts, RoutedBy DEF Call, CallPlaces
  <2>2. CASE k \notin {"pause", "resume"}
      BY <1>2, <2>2, CallScripts, RoutedBy DEF Call, CallPlaces
  <2>3. QED
      BY <2>1, <2>2
<1>3. ASSUME ReadState(c)
      PROVE  Routed(c)
  <2>1. Goto(c, "settle") /\ "settle" \in CallPlaces
      BY <1>3 DEF ReadState, CallPlaces
  <2>2. UNCHANGED script \/ \E r \in OpenIn(view[c]) : Do(c, <<Op("adopt", r, view[c][r])>>)
      BY <1>3 DEF ReadState
  <2>3. \A r \in OpenIn(view[c]) : r \in Runs /\ view[c][r] \in Open
      BY DEF OpenIn
  <2>4. CASE UNCHANGED script
      BY <2>1, <2>4, RoutedBy
  <2>5. CASE ~UNCHANGED script
    <3>1. PICK r \in OpenIn(view[c]) : Do(c, <<Op("adopt", r, view[c][r])>>)
        BY <2>2, <2>5
    <3>2. /\ <<Op("adopt", r, view[c][r])>> \in Seq(Ops)
          /\ Guarded(<<Op("adopt", r, view[c][r])>>)
        BY <2>3, CallScripts
    <3>3. QED
        BY <2>1, <3>1, <3>2, RoutedBy
  <2>6. QED
      BY <2>4, <2>5
<1>4. ASSUME Settle(c)
      PROVE  Routed(c)
  <2>1. Goto(c, "serve") /\ "serve" \in CallPlaces
      BY <1>4 DEF Settle, CallPlaces
  <2>2. CASE Stale(c)
    <3>1. target[c] \in Runs
        BY <2>2 DEF Stale, TypeInv, CallType
    <3>2. Do(c, WriteOff(target[c]))
        BY <1>4, <2>2 DEF Settle, WriteOff
    <3>3. QED
        BY <2>1, <3>1, <3>2, CallScripts, RoutedBy
  <2>3. CASE ~Stale(c)
    <3>1. Do(c, <<>>) /\ <<>> = Orders("get")
        BY <1>4, <2>3 DEF Settle, Orders
    <3>2. QED
        BY <2>1, <3>1, CallScripts, RoutedBy DEF Routes
  <2>4. QED
      BY <2>2, <2>3
<1>5. ASSUME Serve(c)
      PROVE  Routed(c)
  <2>1. Goto(c, "idle") /\ "idle" \in CallPlaces /\ kind[c] \in Routes
      BY <1>5 DEF Serve, CallPlaces, TypeInv, CallType
  <2>2. \/ Do(c, Orders(kind[c]))
        \/ \E r \in OpenIn(view[c]) : Do(c, <<Op("adopt", r, view[c][r])>> \o Orders(kind[c]))
      BY <1>5 DEF Serve, Orders
  <2>3. \A r \in OpenIn(view[c]) : r \in Runs /\ view[c][r] \in Open
      BY DEF OpenIn
  <2>4. CASE Do(c, Orders(kind[c]))
      BY <2>1, <2>4, CallScripts, RoutedBy
  <2>5. CASE ~Do(c, Orders(kind[c]))
    <3>1. PICK r \in OpenIn(view[c]) : Do(c, <<Op("adopt", r, view[c][r])>> \o Orders(kind[c]))
        BY <2>2, <2>5
    <3>2. /\ <<Op("adopt", r, view[c][r])>> \o Orders(kind[c]) \in Seq(Ops)
          /\ Guarded(<<Op("adopt", r, view[c][r])>> \o Orders(kind[c]))
        BY <2>1, <2>3, CallScripts
    <3>3. QED
        BY <2>1, <3>1, <3>2, RoutedBy
  <2>6. QED
      BY <2>4, <2>5
<1>6. QED
  BY <1>1, <1>2, <1>3, <1>4, <1>5

(* A request and the decisions of its route keep the types.                *)
LEMMA CallerType ==
    ASSUME TypeInv, NEW c \in Callers,
           (\E k \in Kinds : Call(c, k)) \/ ReadState(c) \/ Settle(c) \/ Serve(c)
    PROVE  TypeInv'
<1>1. /\ ScriptType'
      /\ pc' \in [Actors -> Places \cup CallPlaces]
      /\ \A q \in Runs : pc'[q] \in Places
      /\ \A b \in Callers : pc'[b] \in CallPlaces
  <2>1. Free(c) /\ Quiet(c) /\ Routed(c)
      BY CallerScript
  <2>2. PICK place \in CallPlaces, l \in Seq(Ops) : Goes(c, place, l)
      BY <2>1 DEF Routed
  <2>3. QED
      BY <2>1, <2>2, CallerGoes DEF Quiet, Goes
<1>2. Quiet(c)
  BY CallerScript
<1>3. c \in Actors /\ Idle \in Rows /\ row \in Rows
  BY DEF Actors, Idle, Rows, TypeInv, RowType
<1>4. RunType'
  BY <1>1, <1>2 DEF Quiet, TypeInv, RunType, run_vars, history
<1>5. ASSUME NEW k \in Kinds, Call(c, k)
      PROVE  RowType' /\ CallType'
  <2>1. k \in {"pause", "resume"} \/ k \in Routes
      BY ScanControlAssumption DEF AllKinds, Routes
  <2>2. kind' \in [Callers -> Routes] /\ calls' \in 0..MaxCalls
    <3>1. kind \in [Callers -> Routes] /\ calls \in 0..MaxCalls /\ MaxCalls \in Nat
        BY ScanControlAssumption DEF TypeInv, CallType
    <3>2. kind' \in [Callers -> Routes]
        BY <1>5, <2>1, <3>1 DEF Call, Routes
    <3>3. calls' \in 0..MaxCalls
        BY <1>5, <3>1 DEF Call
    <3>4. QED
        BY <3>2, <3>3
  <2>3. QED
      BY <1>2, <1>5, <2>2 DEF Call, Quiet, TypeInv, RowType, CallType, db_vars, history
<1>6. ASSUME ReadState(c)
      PROVE  RowType' /\ CallType'
  <2>1. snap' = [snap EXCEPT ![c] = row] /\ UNCHANGED <<kind, calls>>
      BY <1>6 DEF ReadState
  <2>2. view' \in [Callers -> [Runs -> RowStatuses \cup Open]]
    <3>1. view \in [Callers -> [Runs -> RowStatuses \cup Open]]
        BY DEF TypeInv, CallType
    <3>2. \/ UNCHANGED view
          \/ row.status \in Open /\ view' = [view EXCEPT ![c][row.active] = row.status]
        BY <1>6 DEF ReadState
    <3>3. QED
        BY <3>1, <3>2
  <2>3. target' \in [Callers -> Runs \cup {None}]
    <3>1. \E r \in Runs \cup {None} : target' = [target EXCEPT ![c] = r]
        BY <1>3, <1>6 DEF ReadState, OpenIn, Rows
    <3>2. QED
        BY <3>1 DEF TypeInv, CallType
  <2>4. QED
      BY <1>2, <1>3, <2>1, <2>2, <2>3 DEF Quiet, TypeInv, RowType, CallType, db_vars, history
<1>7. ASSUME Settle(c)
      PROVE  RowType' /\ CallType'
  BY <1>2, <1>7 DEF Settle, Quiet, TypeInv, RowType, CallType, db_vars, call_vars, history
<1>8. ASSUME Serve(c)
      PROVE  RowType' /\ CallType'
  <2>1. /\ snap' = [snap EXCEPT ![c] = Idle] /\ target' = [target EXCEPT ![c] = None]
        /\ view' = [view EXCEPT ![c] = IF kind[c] = "force_all" THEN @ ELSE NoRuns]
        /\ kind' = [kind EXCEPT ![c] = "get"] /\ UNCHANGED calls
      BY <1>8 DEF Serve
  <2>2. NoRuns \in [Runs -> RowStatuses \cup Open]
      BY DEF NoRuns, RowStatuses
  <2>3. view' \in [Callers -> [Runs -> RowStatuses \cup Open]] /\ kind' \in [Callers -> Routes]
      BY <2>1, <2>2 DEF TypeInv, CallType, Routes
  <2>4. QED
      BY <1>2, <1>3, <2>1, <2>3 DEF Quiet, TypeInv, RowType, CallType, db_vars, history
<1>9. QED
  BY <1>1, <1>4, <1>5, <1>6, <1>7, <1>8 DEF TypeInv

(* Any order of the open runs is a list of them.                           *)
LEMMA OrderIs ==
    ASSUME NEW S \in SUBSET Runs, NEW order \in SetToSeqs(S)
    PROVE  /\ \E n \in Nat : order \in [1..n -> Runs] /\ (S # {} => n >= 1)
           /\ order \in Seq(Runs)
<1>1. IsFiniteSet(S)
  BY ScanControlAssumption, FS_Subset
<1>2. Cardinality(S) \in Nat /\ (S # {} => Cardinality(S) >= 1)
  BY <1>1, FS_CardinalityType, FS_EmptySet
<1>3. order \in [1..Cardinality(S) -> Runs]
  BY DEF SetToSeqs
<1>4. QED
  BY <1>2, <1>3, SeqDef

(* The listing and the signal keep the types.                              *)
LEMMA ListSignalType ==
    ASSUME TypeInv, NEW c \in Callers, ListRows(c) \/ Signal(c)
    PROVE  TypeInv'
<1>1. /\ c \in Actors /\ ~Free(c) /\ Next1(c).op \in {"list", "signal", "signal_all"}
      /\ Tail(script[c]) \in Seq(Ops)
  BY FirstCall DEF ListRows, Signal, Actors
<1>2. phase[c] = "begin"
  BY <1>1 DEF TypeInv, ScriptType, Next1, Peeks, Updates
<1>3. CASE ListRows(c)
  <2>1. RowType' /\ RunType' /\ CallType'
      BY <1>3 DEF ListRows, TypeInv, RowType, RunType, CallType, db_vars, run_vars, history
  <2>2. ScriptType'
      BY <1>1, <1>2, <1>3 DEF ListRows, TypeInv, ScriptType
  <2>3. QED
      BY <2>1, <2>2 DEF TypeInv
<1>4. CASE Signal(c)
  <2> DEFINE open == OpenIn(view[c])
             all == Next1(c).op = "signal_all" /\ ctx = None /\ open # {}
             rest == Tail(script[c])
  <2>1. /\ event' = IF ctx = None THEN event ELSE [event EXCEPT ![ctx] = TRUE]
        /\ view' = [view EXCEPT ![c] = IF pc[c] = "idle" THEN NoRuns ELSE @]
        /\ UNCHANGED <<db_vars, ctx, pc, run_vars, phase, peek, snap, kind, target,
                       calls, deaths, stalls, history>>
      BY <1>4 DEF Signal
  <2>2. PICK order \in SetToSeqs(open) :
           script' = [script EXCEPT ![c] =
              (IF all THEN [i \in DOMAIN order |-> Save(order[i], "STOPPED")]
                           \o <<Finish(Head(order), "STOPPED")>>
               ELSE <<>>) \o rest]
      BY <1>4 DEF Signal
  <2>3. open \in SUBSET Runs
      BY DEF OpenIn
  <2>4. PICK n \in Nat : order \in [1..n -> Runs] /\ (open # {} => n >= 1)
      BY <2>3, OrderIs
  <2>5. order \in Seq(Runs)
      BY <2>3, OrderIs
  <2> DEFINE saves == [i \in DOMAIN order |-> Save(order[i], "STOPPED")]
             done == <<Finish(Head(order), "STOPPED")>>
  <2>6. saves \in Seq(Ops)
    <3>1. saves \in [1..n -> Ops]
        BY <2>4, OpsAre
    <3> HIDE DEF saves
    <3>2. QED
        BY <3>1, SeqDef
  <2>7. all => done \in Seq(Ops)
    <3>1. all => Head(order) \in Runs
        BY <2>4, <2>5
    <3>2. QED
        BY <3>1, OpsAre
  <2> DEFINE first == IF all THEN saves \o done ELSE <<>>
  <2>8. first \o rest \in Seq(Ops)
    <3>1. all => saves \o done \in Seq(Ops)
      <4> HIDE DEF saves, done
      <4>1. QED
          BY <2>6, <2>7, ConcatProperties
    <3>2. first \in Seq(Ops)
        BY <3>1
    <3> HIDE DEF first, rest
    <3>3. rest \in Seq(Ops)
        BY <1>1 DEF rest
    <3>4. QED
        BY <3>2, <3>3, ConcatProperties
  <2>9. script' = [script EXCEPT ![c] = first \o rest]
      BY <2>2
  <2> HIDE DEF first, rest, all, saves, done
  <2>10. ScriptType'
      BY <1>1, <1>2, <2>1, <2>8, <2>9 DEF TypeInv, ScriptType
  <2>11. RowType' /\ RunType'
      BY <2>1 DEF TypeInv, RowType, RunType, db_vars, run_vars, history
  <2>12. CallType'
    <3>1. NoRuns \in [Runs -> RowStatuses \cup Open]
        BY DEF NoRuns, RowStatuses
    <3>2. QED
        BY <2>1, <3>1 DEF TypeInv, CallType, history
  <2>13. QED
      BY <2>10, <2>11, <2>12 DEF TypeInv
<1>5. QED
  BY <1>3, <1>4

-----------------------------------------------------------------------------
(* What the steps that are not decisions of a run mean to the runs.        *)
LEMMA OthersLeave ==
    ASSUME TypeInv,
           \/ \E c \in Callers : Route(c) \/ \E k \in Kinds : Call(c, k)
           \/ (\E a \in Actors : Step(a)) \/ Age
    PROVE  /\ UNCHANGED <<run_vars, late, newest, ctx>>
           /\ \A r \in Runs : pc'[r] = pc[r] /\ (event[r] => event'[r])
<1>1. ASSUME NEW c \in Callers,
             (\E k \in Kinds : Call(c, k)) \/ ReadState(c) \/ Settle(c) \/ Serve(c)
      PROVE  /\ UNCHANGED <<run_vars, late, newest, ctx>>
             /\ \A r \in Runs : pc'[r] = pc[r] /\ (event[r] => event'[r])
  <2>1. Quiet(c) /\ Routed(c) /\ c \notin Runs
      BY <1>1, CallerScript, ScanControlAssumption
  <2>2. \A r \in Runs : pc'[r] = pc[r]
    <3>1. PICK place \in CallPlaces : pc' = [pc EXCEPT ![c] = place] \/ pc' = pc
        BY <2>1 DEF Routed, Goes
    <3>2. QED
        BY <2>1, <3>1 DEF TypeInv, RunType, Actors
  <2>3. QED
      BY <2>1, <2>2 DEF Quiet, history
<1>2. ASSUME NEW c \in Callers, ListRows(c) \/ Signal(c)
      PROVE  /\ UNCHANGED <<run_vars, late, newest, ctx>>
             /\ \A r \in Runs : pc'[r] = pc[r] /\ (event[r] => event'[r])
  BY <1>2 DEF ListRows, Signal, TypeInv, RunType, history
<1>3. ASSUME NEW a \in Actors, Step(a)
      PROVE  /\ UNCHANGED <<run_vars, late, newest, ctx>>
             /\ \A r \in Runs : pc'[r] = pc[r] /\ (event[r] => event'[r])
  BY <1>3 DEF Step, Peek, Get, Set, SaveRow, history
<1>4. ASSUME Age
      PROVE  /\ UNCHANGED <<run_vars, late, newest, ctx>>
             /\ \A r \in Runs : pc'[r] = pc[r] /\ (event[r] => event'[r])
  BY <1>4 DEF Age, history
<1>5. QED
  BY <1>1, <1>2, <1>3, <1>4 DEF Route

(* The fetch and analysis loops ask before they submit, and submit one.    *)
LEMMA WorkStep ==
    ASSUME TypeInv, WorkInv, [Next]_vars
    PROVE  WorkInv'
<1>1. CASE UNCHANGED vars
  BY <1>1 DEF vars, run_vars, history, WorkInv, Submitting
<1>2. ASSUME \/ \E c \in Callers : Route(c) \/ \E k \in Kinds : Call(c, k)
             \/ (\E a \in Actors : Step(a)) \/ Age
      PROVE  WorkInv'
  BY <1>2, OthersLeave DEF WorkInv, Submitting, run_vars
<1>3. ASSUME NEW r \in Runs, StartRun(r) \/ Scan(r) \/ Die(r)
      PROVE  WorkInv'
  <2>1. /\ RunType
        /\ \A q \in Runs : /\ Submitting(q) => left[q] > 0 /\ late[q] = 0
                           /\ late[q] = 0 \/ (late[q] = 1 /\ event[q])
      BY DEF TypeInv, WorkInv
  <2>2. ASSUME NEW q \in Runs, q # r
        PROVE  /\ Submitting(q)' => left'[q] > 0 /\ late'[q] = 0
               /\ late'[q] = 0 \/ (late'[q] = 1 /\ event'[q])
    <3>1. event' = event /\ pc'[q] = pc[q]
      <4>1. event' = event /\ (pc' = pc \/ \E place : pc' = [pc EXCEPT ![r] = place])
          BY <1>3 DEF StartRun, Scan, CheckStop, Honor, Fetch, Fetching, Analyse, Submit,
                      Analysed, Post, FinalizeStopped, Pop, Die, Goto
      <4>2. QED
          BY <2>1, <2>2, <4>1 DEF RunType, Actors
    <3>2. left'[q] = left[q]
      <4>1. left' = left \/ \E n : left' = [left EXCEPT ![r] = n]
          BY <1>3 DEF StartRun, Scan, CheckStop, Honor, Fetch, Fetching, Analyse, Submit,
                      Analysed, Post, FinalizeStopped, Pop, Die, Worked, run_vars
      <4>2. QED
          BY <2>1, <2>2, <4>1 DEF RunType, Actors
    <3>3. late'[q] = late[q]
      <4>1. late' = late \/ \E n : late' = [late EXCEPT ![r] = n]
          BY <1>3 DEF StartRun, Scan, CheckStop, Honor, Fetch, Fetching, Analyse, Submit,
                      Analysed, Post, FinalizeStopped, Pop, Die, Worked, history
      <4>2. QED
          BY <2>1, <2>2, <4>1 DEF RunType, Actors
    <3>4. then'[q] = then[q]
      <4>1. then' = then \/ \E place : then' = [then EXCEPT ![r] = place]
          BY <1>3 DEF StartRun, Scan, CheckStop, Honor, Fetch, Fetching, Analyse, Submit,
                      Analysed, Post, FinalizeStopped, Pop, Die, run_vars
      <4>2. QED
          BY <2>1, <2>2, <4>1 DEF RunType, Actors
    <3>5. QED
        BY <2>1, <3>1, <3>2, <3>3, <3>4 DEF Submitting
  <2>3. /\ Submitting(r)' => left'[r] > 0 /\ late'[r] = 0
        /\ late'[r] = 0 \/ (late'[r] = 1 /\ event'[r])
    <3>1. r \in DOMAIN pc /\ left[r] \in Nat
        BY <2>1 DEF RunType, Actors
    <3>2. CASE StartRun(r) \/ Analysed(r) \/ FinalizeStopped(r) \/ Pop(r) \/ Die(r)
        BY <2>1, <3>1, <3>2
           DEF StartRun, Analysed, FinalizeStopped, Pop, Die, Goto, Submitting, run_vars, history
    <3>3. CASE CheckStop(r)
        BY <2>1, <3>1, <3>3 DEF CheckStop, Goto, Submitting, RunType, run_vars
    <3>4. CASE Honor(r)
        BY <2>1, <3>1, <3>4 DEF Honor, At, Goto, Submitting, RunType
    <3>5. CASE Fetch(r)
        BY <2>1, <3>1, <3>5 DEF Fetch, Forced, Goto, Submitting, RunType
    <3>6. CASE Fetching(r)
        BY <2>1, <3>1, <3>6 DEF Fetching, At, Worked, Goto, Submitting, RunType
    <3>7. CASE Analyse(r)
        BY <2>1, <3>1, <3>7 DEF Analyse, Forced, Goto, Submitting, RunType
    <3>8. CASE Submit(r)
        BY <2>1, <3>1, <3>8 DEF Submit, At, Worked, Goto, Submitting, RunType
    <3>9. CASE Post(r)
        BY <2>1, <3>1, <3>9 DEF Post, At, Goto, Submitting, RunType
    <3>10. QED
        BY <1>3, <3>2, <3>3, <3>4, <3>5, <3>6, <3>7, <3>8, <3>9 DEF Scan
  <2>4. QED
      BY <2>2, <2>3 DEF WorkInv
<1>4. QED
  BY <1>1, <1>2, <1>3 DEF Next

(* Registering and removing the context.                                   *)
LEMMA ContextStep ==
    ASSUME TypeInv, ContextInv, [Next]_vars
    PROVE  ContextInv'
<1>1. CASE UNCHANGED vars
  BY <1>1 DEF vars, history, ContextInv, ContextIsLive, AtWork
<1>2. ASSUME \/ \E c \in Callers : Route(c) \/ \E k \in Kinds : Call(c, k)
             \/ (\E a \in Actors : Step(a)) \/ Age
      PROVE  ContextInv'
  BY <1>2, OthersLeave DEF ContextInv, ContextIsLive, AtWork, TypeInv, RunType
<1>3. ASSUME NEW r \in Runs, StartRun(r) \/ Scan(r) \/ Die(r)
      PROVE  ContextInv'
  <2>1. /\ ctx \in Runs \cup {None} /\ newest \in Runs \cup {None}
        /\ r \in DOMAIN pc /\ r # None
      BY ScanControlAssumption DEF TypeInv, RunType, Actors
  <2>2. CASE CheckStop(r)
    <3>1. pc[r] = "check" /\ newest # r
        BY <2>1, <2>2 DEF CheckStop, At, ContextInv
    <3>2. CASE row.stop
      <4>1. pc' = [pc EXCEPT ![r] = "stopping"] /\ UNCHANGED <<ctx, newest>>
          BY <2>2, <3>2 DEF CheckStop, Goto
      <4>2. QED
          BY <2>1, <3>1, <4>1 DEF ContextInv, ContextIsLive, AtWork
    <3>3. CASE ~row.stop
      <4>1. pc' = [pc EXCEPT ![r] = "honor"] /\ ctx' = r /\ newest' = r
          BY <2>2, <3>3 DEF CheckStop, Goto
      <4>2. QED
          BY <2>1, <4>1 DEF ContextInv, ContextIsLive
    <3>4. QED
        BY <3>2, <3>3
  <2>3. CASE Pop(r)
      BY <2>1, <2>3 DEF Pop, At, Goto, ContextInv, ContextIsLive, AtWork
  <2>4. CASE StartRun(r) \/ Honor(r) \/ Fetch(r) \/ Fetching(r) \/ Analyse(r) \/ Submit(r)
             \/ Analysed(r) \/ Post(r) \/ FinalizeStopped(r) \/ Die(r)
    <3>1. UNCHANGED <<ctx, newest>>
        BY <2>4 DEF StartRun, Honor, Fetch, Fetching, Analyse, Submit, Analysed, Post,
                    FinalizeStopped, Die, history
    <3>2. \/ pc' = pc /\ AtWork(r)
          \/ /\ pc[r] = "start" /\ pc' = [pc EXCEPT ![r] = "check"]
          \/ AtWork(r) /\ \E place \in Places \ {"start", "check", "done"} :
                             pc' = [pc EXCEPT ![r] = place]
      <4>1. then[r] \in {"fetch", "fetching", "analysed"}
          BY DEF TypeInv, RunType
      <4>2. CASE StartRun(r)
          BY <4>2 DEF StartRun, At, Goto
      <4>3. CASE Honor(r)
          BY <4>1, <4>3 DEF Honor, At, Goto, AtWork, Places
      <4>4. CASE Fetch(r) \/ Fetching(r) \/ Analyse(r) \/ Submit(r) \/ Analysed(r)
          BY <4>4 DEF Fetch, Fetching, Analyse, Submit, Analysed, At, Goto, AtWork, Places
      <4>5. CASE Post(r) \/ FinalizeStopped(r) \/ Die(r)
          BY <4>5 DEF Post, FinalizeStopped, Die, At, Goto, AtWork, Places
      <4>6. QED
          BY <2>4, <4>2, <4>3, <4>4, <4>5
    <3>3. CASE pc' = pc
        BY <3>1, <3>3 DEF ContextInv, ContextIsLive, AtWork
    <3>4. CASE pc[r] = "start" /\ pc' = [pc EXCEPT ![r] = "check"]
      <4>1. newest # r
          BY <2>1, <3>4 DEF ContextInv
      <4>2. QED
          BY <2>1, <3>1, <3>4, <4>1 DEF ContextInv, ContextIsLive, AtWork
    <3>5. ASSUME AtWork(r), NEW place \in Places \ {"start", "check", "done"},
                 pc' = [pc EXCEPT ![r] = place]
          PROVE  ContextInv'
      <4>1. newest' = newest /\ ctx' = ctx /\ pc'[r] = place
          BY <2>1, <3>1, <3>5
      <4>2. \A q \in Runs : q # r => pc'[q] = pc[q]
          BY <3>5 DEF TypeInv, RunType, Actors
      <4>3. newest' # None => pc'[newest'] \notin {"start", "check"}
          BY <2>1, <3>5, <4>1, <4>2 DEF ContextInv
      <4>4. ctx' # None => pc'[ctx'] # "done"
          BY <2>1, <3>5, <4>1, <4>2 DEF ContextInv, ContextIsLive
      <4>5. newest' # None /\ AtWork(newest)' => ctx' = newest'
          BY <2>1, <3>5, <4>1, <4>2 DEF ContextInv, ContextIsLive, AtWork
      <4>6. QED
          BY <4>3, <4>4, <4>5 DEF ContextInv, ContextIsLive
    <3>6. QED
        BY <3>2, <3>3, <3>4, <3>5
  <2>5. QED
      BY <1>3, <2>2, <2>3, <2>4 DEF Scan
<1>4. QED
  BY <1>1, <1>2, <1>3 DEF Next

-----------------------------------------------------------------------------
(* Nothing but a request makes anything say stop.                          *)

(* The steps of a run, ...                                                 *)
LEMMA AskedRun ==
    ASSUME TypeInv, AskedInv, NEW r \in Runs, StartRun(r) \/ Scan(r) \/ Die(r)
    PROVE  AskedInv'
<1> SUFFICES ASSUME ~asked'
             PROVE  /\ \A q \in Runs : rows'[q] # "STOPPED" /\ pc'[q] # "stopping" /\ ~event'[q]
                    /\ ~row'.stop /\ ~row'.force
                    /\ \A a \in Actors : ~snap'[a].stop /\ ~snap'[a].force /\ Guarded(script'[a])
  BY DEF AskedInv
<1>1. UNCHANGED <<row, rows, event, asked>> /\ (snap' = snap \/ snap' = [snap EXCEPT ![r] = Idle])
  BY DEF StartRun, Scan, CheckStop, Honor, Fetch, Fetching, Analyse, Submit, Analysed, Post,
         FinalizeStopped, Pop, Die, Rest, db_vars, history
<1>2. /\ \A q \in Runs : rows[q] # "STOPPED" /\ pc[q] # "stopping" /\ ~event[q]
      /\ ~row.stop /\ ~row.force
      /\ \A a \in Actors : ~snap[a].stop /\ ~snap[a].force /\ Guarded(script[a])
  BY <1>1 DEF AskedInv
<1>3. r \in Actors /\ ~Idle.stop /\ ~Idle.force
  BY DEF Actors, Idle
<1>4. then[r] # "stopping" /\ ~Forced(r)
  BY <1>2 DEF Forced, TypeInv, RunType
<1>5. pc' = pc \/ \E place \in Places \ {"stopping"} : pc' = [pc EXCEPT ![r] = place]
  <2>1. CASE StartRun(r) \/ CheckStop(r) \/ Fetch(r) \/ Fetching(r)
      BY <1>2, <1>4, <2>1 DEF StartRun, CheckStop, Fetch, Fetching, Goto, Places
  <2>2. CASE Honor(r)
    <3>1. then[r] \in Places
        BY DEF TypeInv, RunType, Places
    <3>2. QED
        BY <1>2, <1>4, <2>2, <3>1 DEF Honor, Goto
  <2>3. CASE Analyse(r) \/ Submit(r) \/ Analysed(r) \/ Post(r) \/ Pop(r) \/ Die(r)
      BY <1>4, <2>3 DEF Analyse, Submit, Analysed, Post, Pop, Die, Goto, Places
  <2>4. CASE FinalizeStopped(r)
      BY <1>2, <2>4 DEF FinalizeStopped, At
  <2>5. QED
      BY <2>1, <2>2, <2>3, <2>4 DEF Scan
<1>6. \A q \in Runs : pc'[q] # "stopping"
  BY <1>2, <1>5 DEF TypeInv, RunType, Actors
<1>7. script' = script \/ \E l \in Seq(Ops) : Harmless(l) /\ Do(r, l)
  <2>1. CASE StartRun(r)
      BY <2>1, RunScripts, RunHarmless DEF StartRun
  <2>2. CASE CheckStop(r)
      BY <1>2, <2>2 DEF CheckStop
  <2>3. CASE Honor(r)
    <3>1. /\ <<Mark(r, "PAUSED")>> \o Progress(r, "PAUSED") \in Seq(Ops)
          /\ Harmless(<<Mark(r, "PAUSED")>> \o Progress(r, "PAUSED"))
          /\ <<Mark(r, "RUNNING")>> \o Progress(r, "RUNNING") \in Seq(Ops)
          /\ Harmless(<<Mark(r, "RUNNING")>> \o Progress(r, "RUNNING"))
          /\ <<Mark(r, "RUNNING")>> \o <<>> \in Seq(Ops)
          /\ Harmless(<<Mark(r, "RUNNING")>> \o <<>>)
        BY RunScripts, RunHarmless
    <3>2. CASE row.want = "PAUSED"
        BY <1>2, <2>3, <3>1, <3>2 DEF Honor
    <3>3. CASE row.want # "PAUSED" /\ noted[r]
        BY <1>2, <2>3, <3>1, <3>3 DEF Honor
    <3>4. CASE row.want # "PAUSED" /\ ~noted[r]
        BY <1>2, <2>3, <3>1, <3>4 DEF Honor
    <3>5. QED
        BY <3>2, <3>3, <3>4
  <2>4. CASE Fetch(r) \/ Analyse(r) \/ Submit(r) \/ Pop(r)
      BY <2>4 DEF Fetch, Analyse, Submit, Pop
  <2>5. CASE Fetching(r)
      BY <2>5, RunScripts, RunHarmless DEF Fetching
  <2>6. CASE Analysed(r)
      BY <2>6, RunScripts, RunHarmless DEF Analysed
  <2>7. CASE Post(r)
      BY <2>7, RunScripts, RunHarmless DEF Post
  <2>8. CASE Die(r)
      BY <2>8, RunScripts, RunHarmless DEF Die
  <2>9. CASE FinalizeStopped(r)
      BY <1>2, <2>9 DEF FinalizeStopped, At
  <2>10. QED
      BY <2>1, <2>2, <2>3, <2>4, <2>5, <2>6, <2>7, <2>8, <2>9 DEF Scan
<1>8. \A a \in Actors : Guarded(script'[a])
  <2>1. CASE script' = script
      BY <1>2, <2>1
  <2>2. ASSUME NEW l \in Seq(Ops), Harmless(l), Do(r, l)
        PROVE  \A a \in Actors : Guarded(script'[a])
    <3>1. Guarded(l)
        BY <2>2, GuardedIs
    <3>2. QED
        BY <1>2, <2>2, <3>1 DEF Do, TypeInv, ScriptType
  <2>3. QED
      BY <1>7, <2>1, <2>2
<1>9. \A a \in Actors : ~snap'[a].stop /\ ~snap'[a].force
  BY <1>1, <1>2, <1>3 DEF TypeInv, RowType
<1>10. QED
  BY <1>1, <1>2, <1>6, <1>8, <1>9

(* ... the repository calls, ...                                           *)
LEMMA AskedCall ==
    ASSUME TypeInv, AskedInv, NEW a \in Actors, Step(a)
    PROVE  AskedInv'
<1> SUFFICES ASSUME ~asked'
             PROVE  /\ \A q \in Runs : rows'[q] # "STOPPED" /\ pc'[q] # "stopping" /\ ~event'[q]
                    /\ ~row'.stop /\ ~row'.force
                    /\ \A b \in Actors : ~snap'[b].stop /\ ~snap'[b].force /\ Guarded(script'[b])
  BY DEF AskedInv
<1>1. ~asked /\ UNCHANGED <<event, pc>>
  <2>1. CASE Peek(a) \/ Get(a) \/ SaveRow(a)
      BY <2>1 DEF Peek, Get, SaveRow, history
  <2>2. CASE Set(a)
      BY <2>2 DEF Set
  <2>3. QED
      BY <2>1, <2>2 DEF Step
<1>2. /\ \A q \in Runs : rows[q] # "STOPPED" /\ pc[q] # "stopping" /\ ~event[q]
      /\ ~row.stop /\ ~row.force
      /\ \A b \in Actors : ~snap[b].stop /\ ~snap[b].force /\ Guarded(script[b])
  BY <1>1 DEF AskedInv
<1>3. DOMAIN snap = Actors /\ DOMAIN script = Actors /\ DOMAIN rows = Runs
  BY DEF TypeInv, RowType, ScriptType
<1>4. CASE Peek(a)
  BY <1>1, <1>2, <1>4 DEF Peek, db_vars
<1>5. CASE Get(a)
  BY <1>1, <1>2, <1>3, <1>5 DEF Get, db_vars
<1>6. CASE Set(a)
  <2> DEFINE o == Next1(a)
             new == Edit(o, peek[a], snap[a])
             more == IF o.op = "resume" /\ new.active = None THEN <<Plain("idle")>> ELSE <<>>
             rest == Tail(script[a])
  <2>1. /\ ~Free(a) /\ phase[a] = "read" /\ row' = new
        /\ snap' = [snap EXCEPT ![a] = IF pc[a] \in {"settle", "serve"} THEN new ELSE Idle]
        /\ script' = [script EXCEPT ![a] = more \o rest]
        /\ asked' = (asked \/ o.op \in {"request_stop", "force_stop"})
        /\ rows' = rows
      BY <1>6 DEF Set
  <2>2. /\ o \in Ops /\ (Peeks(o.op) \/ Updates(o.op)) /\ rest \in Seq(Ops)
        /\ o = Head(script[a]) /\ script[a] # <<>> /\ script[a] \in Seq(Ops)
      BY <2>1, FirstCall DEF TypeInv, ScriptType
  <2>3. o.op \notin {"request_stop", "force_stop"}
      BY <2>1
  <2>4. ~new.stop /\ ~new.force
    <3>1. peek[a] \in Rows /\ snap[a] \in Rows
        BY DEF TypeInv, RowType
    <3>2. QED
        BY <1>2, <2>2, <2>3, <3>1, EditIs
  <2>5. Guarded(rest)
      BY <1>2, <2>2, <2>3, GuardedIs
  <2>6. Guarded(more \o rest)
    <3>1. CASE o.op = "resume" /\ new.active = None
      <4>1. Plain("idle") \in Ops /\ ~Stops(Plain("idle")) /\ more = <<Plain("idle")>>
          BY <3>1, OpsAre DEF OpNames, Stops, Plain, Op
      <4> HIDE DEF more, rest
      <4>2. QED
          BY <2>2, <2>5, <4>1, GuardedIs
    <3>2. CASE ~(o.op = "resume" /\ new.active = None)
      <4>1. more = <<>>
          BY <3>2
      <4> HIDE DEF more, rest
      <4>2. <<>> \o rest = rest
          BY <2>2
      <4>3. QED
          BY <2>5, <4>1, <4>2
    <3>3. QED
        BY <3>1, <3>2
  <2>7. ~Idle.stop /\ ~Idle.force
      BY DEF Idle
  <2> HIDE DEF o, new, more, rest
  <2>8. QED
      BY <1>1, <1>2, <1>3, <2>1, <2>4, <2>6, <2>7
<1>7. CASE SaveRow(a)
  <2>1. /\ Next1(a) = Head(script[a]) /\ script[a] # <<>> /\ script[a] \in Seq(Ops)
        /\ Next1(a).op = "save"
      BY <1>7, FirstCall DEF SaveRow
  <2>2. Guarded(Tail(script[a])) /\ ~Stops(Head(script[a]))
      BY <1>2, <2>1, GuardedIs
  <2>3. Next1(a).to # "STOPPED"
      BY <2>1, <2>2 DEF Stops
  <2>4. QED
      BY <1>1, <1>2, <1>3, <1>7, <2>2, <2>3 DEF SaveRow
<1>8. QED
  BY <1>4, <1>5, <1>6, <1>7 DEF Step

(* ... the routes and the passing of time.                                 *)
LEMMA AskedRoute ==
    ASSUME TypeInv, AskedInv,
           Age \/ \E c \in Callers : Route(c) \/ \E k \in Kinds : Call(c, k)
    PROVE  AskedInv'
<1> SUFFICES ASSUME ~asked'
             PROVE  /\ \A q \in Runs : rows'[q] # "STOPPED" /\ pc'[q] # "stopping" /\ ~event'[q]
                    /\ ~row'.stop /\ ~row'.force
                    /\ \A a \in Actors : ~snap'[a].stop /\ ~snap'[a].force /\ Guarded(script'[a])
  BY DEF AskedInv
<1>1. asked' = asked /\ rows' = rows /\ \A q \in Runs : pc'[q] = pc[q]
  <2>1. \A q \in Runs : pc'[q] = pc[q]
      BY OthersLeave
  <2>2. asked' = asked /\ rows' = rows
    <3>1. ASSUME NEW c \in Callers, Route(c) \/ \E k \in Kinds : Call(c, k)
          PROVE  asked' = asked /\ rows' = rows
        BY <3>1 DEF Route, Call, ReadState, Settle, Serve, ListRows, Signal, Quiet, db_vars, history
    <3>2. QED
        BY <3>1 DEF Age, history
  <2>3. QED
      BY <2>1, <2>2
<1>2. /\ \A q \in Runs : rows[q] # "STOPPED" /\ pc[q] # "stopping" /\ ~event[q]
      /\ ~row.stop /\ ~row.force
      /\ \A a \in Actors : ~snap[a].stop /\ ~snap[a].force /\ Guarded(script[a])
  BY <1>1 DEF AskedInv
<1>3. /\ DOMAIN snap = Actors /\ DOMAIN script = Actors /\ row \in Rows
      /\ \A a \in Actors : snap[a] \in Rows
      /\ ~Idle.stop /\ ~Idle.force
  BY DEF TypeInv, RowType, ScriptType, Idle
<1>4. ASSUME NEW c \in Callers,
             (\E k \in Kinds : Call(c, k)) \/ ReadState(c) \/ Settle(c) \/ Serve(c)
      PROVE  /\ \A q \in Runs : ~event'[q]
             /\ ~row'.stop /\ ~row'.force
             /\ \A a \in Actors : ~snap'[a].stop /\ ~snap'[a].force /\ Guarded(script'[a])
  <2>1. Quiet(c) /\ Routed(c)
      BY <1>4, CallerScript
  <2>2. event' = event /\ row' = row
      BY <2>1 DEF Quiet, db_vars
  <2>3. \A a \in Actors : Guarded(script'[a])
      BY <1>2, <1>3, <2>1 DEF Routed, Goes
  <2>4. snap' = snap \/ \E s \in {row, Idle} : snap' = [snap EXCEPT ![c] = s]
      BY <1>4 DEF Call, ReadState, Settle, Serve
  <2>5. \A a \in Actors : ~snap'[a].stop /\ ~snap'[a].force
      BY <1>2, <1>3, <2>4
  <2>6. QED
      BY <1>2, <2>2, <2>3, <2>5
<1>5. ASSUME NEW c \in Callers, ListRows(c)
      PROVE  /\ \A q \in Runs : ~event'[q]
             /\ ~row'.stop /\ ~row'.force
             /\ \A a \in Actors : ~snap'[a].stop /\ ~snap'[a].force /\ Guarded(script'[a])
  <2>1. /\ Next1(c) = Head(script[c]) /\ script[c] # <<>> /\ script[c] \in Seq(Ops)
        /\ Next1(c).op = "list" /\ c \in Actors
      BY <1>5, FirstCall DEF ListRows, Actors
  <2>2. Guarded(Tail(script[c]))
      BY <1>2, <2>1, GuardedIs
  <2>3. QED
      BY <1>2, <1>3, <1>5, <2>2 DEF ListRows, db_vars
<1>6. ASSUME NEW c \in Callers, Signal(c)
      PROVE  FALSE
  <2>1. /\ Next1(c) = Head(script[c]) /\ script[c] # <<>> /\ script[c] \in Seq(Ops)
        /\ Next1(c).op \in {"signal", "signal_all"} /\ c \in Actors
      BY <1>6, FirstCall DEF Signal, Actors
  <2>2. ~Stops(Head(script[c]))
      BY <1>2, <2>1, GuardedIs
  <2>3. QED
      BY <2>1, <2>2 DEF Stops
<1>7. ASSUME Age
      PROVE  /\ \A q \in Runs : ~event'[q]
             /\ ~row'.stop /\ ~row'.force
             /\ \A a \in Actors : ~snap'[a].stop /\ ~snap'[a].force /\ Guarded(script'[a])
  BY <1>2, <1>3, <1>7 DEF Age, Rows
<1>8. QED
  BY <1>1, <1>2, <1>4, <1>5, <1>6, <1>7 DEF Route

-----------------------------------------------------------------------------
(* The invariant of the scan's control.                                    *)
THEOREM ScanCorrect == Spec => []ScanInv
<1>1. Init => ScanInv
  <2> SUFFICES ASSUME Init PROVE ScanInv
      OBVIOUS
  <2>1. /\ Idle \in Rows /\ NoRuns \in [Runs -> RowStatuses]
        /\ NoRuns \in [Runs -> RowStatuses \cup Open]
      BY DEF Idle, Rows, NoRuns, RowStatuses
  <2>2. RowType /\ ScriptType
      BY <2>1 DEF Init, RowType, ScriptType
  <2>3. RunType
      BY ScanControlAssumption DEF Init, RunType, Actors, Places, CallPlaces
  <2>4. CallType
    <3>1. view = [c \in Callers |-> NoRuns] /\ kind = [c \in Callers |-> "get"]
        BY DEF Init
    <3>2. view \in [Callers -> [Runs -> RowStatuses \cup Open]] /\ kind \in [Callers -> Routes]
        BY <2>1, <3>1 DEF Routes
    <3>3. /\ calls = 0 /\ deaths = 0 /\ stalls = 0 /\ asked = FALSE
          /\ target = [c \in Callers |-> None]
        BY DEF Init
    <3>4. 0 \in 0..MaxCalls /\ 0 \in 0..MaxDeaths /\ 0 \in 0..MaxStalls
        BY ScanControlAssumption
    <3>5. target \in [Callers -> Runs \cup {None}]
        BY <3>3
    <3>6. calls \in 0..MaxCalls /\ deaths \in 0..MaxDeaths /\ stalls \in 0..MaxStalls
        BY <3>3, <3>4
    <3>7. asked \in BOOLEAN
        BY <3>3
    <3>8. QED
        BY <3>2, <3>5, <3>6, <3>7 DEF CallType
  <2>5. WorkInv
      BY DEF Init, WorkInv, Submitting, Actors
  <2>6. ContextInv
      BY DEF Init, ContextInv, ContextIsLive
  <2>7. AskedInv
    <3>1. Guarded(<<>>) /\ ~Idle.stop /\ ~Idle.force
        BY DEF Guarded, Idle
    <3>2. QED
        BY <3>1 DEF Init, AskedInv, NoRuns, Actors
  <2>8. QED
      BY <2>2, <2>3, <2>4, <2>5, <2>6, <2>7 DEF ScanInv, TypeInv
<1>2. ScanInv /\ [Next]_vars => ScanInv'
  <2> SUFFICES ASSUME TypeInv, WorkInv, ContextInv, AskedInv, [Next]_vars
               PROVE  ScanInv'
      BY DEF ScanInv
  <2>1. TypeInv'
    <3>1. CASE UNCHANGED vars
        BY <3>1 DEF vars, db_vars, run_vars, op_vars, call_vars, history, TypeInv, RowType,
                    RunType, CallType, ScriptType
    <3>2. CASE Next
        BY <3>2, ScanType, DieAgeType, CallerType, ListSignalType, StepType DEF Next, Route
    <3>3. QED
        BY <3>1, <3>2
  <2>2. AskedInv'
    <3>1. CASE UNCHANGED vars
        BY <3>1 DEF vars, db_vars, op_vars, history, AskedInv
    <3>2. CASE Next
        BY <3>2, AskedRun, AskedCall, AskedRoute DEF Next
    <3>3. QED
        BY <3>1, <3>2
  <2>3. QED
      BY <2>1, <2>2, WorkStep, ContextStep DEF ScanInv
<1>3. QED
  BY <1>1, <1>2, PTL DEF Spec

(* The row, the threads and the scripts keep their types.                  *)
THEOREM ScanTypeCorrect == Spec => []TypeOK
<1>1. ScanInv => TypeOK
  <2> SUFFICES ASSUME ScanInv PROVE TypeOK
      OBVIOUS
  <2>1. RowType /\ RunType /\ CallType /\ ScriptType
      BY DEF ScanInv, TypeInv
  <2>2. Routes \subseteq AllKinds
      BY DEF Routes, AllKinds
  <2>3. calls <= MaxCalls /\ deaths <= MaxDeaths /\ stalls <= MaxStalls
      BY <2>1, ScanControlAssumption DEF CallType
  <2>4. QED
      BY <2>1, <2>2, <2>3 DEF RowType, RunType, CallType, ScriptType, CallPlaces, TypeOK
<1>2. QED
  BY <1>1, ScanCorrect, PTL

(* A run that a force stop reached submits at most the task it was         *)
(* submitting, however its write to the row is overwritten.                *)
THEOREM ForceStopBounds == Spec => []ForceStopBoundsWork
<1>1. ScanInv => ForceStopBoundsWork
  BY DEF ScanInv, WorkInv, ForceStopBoundsWork
<1>2. QED
  BY <1>1, ScanCorrect, PTL

(* _active_run_contexts: a force stop finds the run that registered last   *)
(* as long as it is at work.                                               *)
THEOREM ContextHolds == Spec => []ContextIsLive
<1>1. ScanInv => ContextIsLive
  BY DEF ScanInv, ContextInv
<1>2. QED
  BY <1>1, ScanCorrect, PTL

(* No run is stopped, and no row says so, before a stop is asked for or a  *)
(* stale run is cancelled, whatever old rows are written back.             *)
THEOREM StoppedHolds == Spec => []StoppedWasAsked
<1>1. ScanInv => StoppedWasAsked
  BY DEF ScanInv, AskedInv, StoppedWasAsked
<1>2. QED
  BY <1>1, ScanCorrect, PTL

============================================================================
