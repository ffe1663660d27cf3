---------------------------- MODULE InferenceBus ----------------------------
(***************************************************************************)
(* runtime/runtime/inference_bus.py: the process-wide pool of daemon       *)
(* threads that runs the inference jobs of every scan.  A scan thread      *)
(* registers a job, puts it on a bounded queue without blocking, and       *)
(* blocks on the job's `done` event; a worker takes it, runs it, records   *)
(* a terminal state and sets `done`.  One TLA+ step is one section under   *)
(* `_lock`, one operation of queue.Queue, or one write to the job object   *)
(* that its submitter may already be reading.                              *)
(*                                                                         *)
(* A job's `execute` is a callable of the scan: it returns an outcome      *)
(* (completed or timed out) or raises; TLC picks one.  Events published    *)
(* on the scan event bus are left out (a publisher's exception is          *)
(* swallowed by _emit_job_event), see ScanEventBus.                        *)
(***************************************************************************)
EXTENDS Integers, Sequences, FiniteSets

CONSTANTS
    Jobs,        \* jobs that may be submitted, one submitting thread each
    MaxWorkers,  \* bound on the max_workers passed to configure
    MaxQueue,    \* bound on the max_queue_size passed to configure
    NoJob        \* what a worker that took no job holds

ASSUME BusAssumption ==
    /\ MaxWorkers \in Nat
    /\ MaxQueue \in Nat \ {0}
    /\ NoJob \notin Jobs

Workers == 1..MaxWorkers          \* the n-th thread started, n \in Workers

VARIABLES
    queue,      \* self._queue, jobs in put order
    limit,      \* self._queue.maxsize
    capacity,   \* self._worker_capacity
    running,    \* self._running_jobs
    status,     \* self._jobs[j]["status"], "NONE" before the job is registered
    started,    \* self._jobs[j]["started_at_utc"] is not None
    stats,      \* self._stats
    spc,        \* where the submitter of a job is in submit()
    wpc,        \* where a worker is in _worker_loop()
    held,       \* the job a worker took from the queue
    outcome,    \* what execute() did on the worker's job
    done,       \* queued.done.is_set()
    failure     \* the class of queued.failure, "None" when it is None

control  == <<queue, limit, capacity>>
ledger   == <<running, status, started, stats>>
workers  == <<wpc, held, outcome>>
answer   == <<done, failure>>
vars     == <<control, ledger, spc, workers, answer>>

Counters == {"submitted", "completed", "failed", "timed_out", "rejected",
             "max_queue_depth", "max_running"}
Terminal == {"COMPLETED", "TIMED_OUT", "FAILED", "REJECTED"}
Statuses == {"NONE", "QUEUED", "RUNNING"} \cup Terminal
SubmitterAt == {"idle", "registered", "enqueue", "full", "unavailable",
                "rejecting", "failing", "waiting", "returned", "raised"}
WorkerAt == {"absent", "idle", "got", "executing", "executed", "recorded",
             "answering"}
\* What execute() may do: return a COMPLETED or a TIMED_OUT outcome, or raise.
Outcomes == {"COMPLETED", "TIMED_OUT", "FAILED"}
Failures == {"None", "TIMED_OUT", "FAILED"}

BMax(a, b) == IF a > b THEN a ELSE b
OnQueue == {queue[i] : i \in DOMAIN queue}
Bump(c) == [stats EXCEPT ![c] = @ + 1]

Init ==
    /\ queue = <<>> /\ limit = MaxQueue /\ capacity = 0
    /\ running = 0
    /\ status = [j \in Jobs |-> "NONE"]
    /\ started = [j \in Jobs |-> FALSE]
    /\ stats = [c \in Counters |-> 0]
    /\ spc = [j \in Jobs |-> "idle"]
    /\ wpc = [w \in Workers |-> "absent"]
    /\ held = [w \in Workers |-> NoJob]
    /\ outcome = [w \in Workers |-> "COMPLETED"]
    /\ done = [j \in Jobs |-> FALSE]
    /\ failure = [j \in Jobs |-> "None"]

-----------------------------------------------------------------------------
(* Bug: configure replaces the queue although workers are reading it.      *)
ConfigureAnyTime(n, size) ==
    /\ queue' = <<>> /\ limit' = size
    /\ capacity' = BMax(capacity, n)
    /\ wpc' = [w \in Workers |->
                 IF w > capacity /\ w <= n THEN "idle" ELSE wpc[w]]
    /\ UNCHANGED <<ledger, spc, held, outcome, answer>>

(* configure(): the queue is replaced only while no worker exists, and the *)
(* number of workers never goes down.                                      *)
Configure(n, size) ==
    /\ IF capacity = 0
         THEN queue' = <<>> /\ limit' = size
         ELSE UNCHANGED <<queue, limit>>
    /\ capacity' = BMax(capacity, n)
    /\ wpc' = [w \in Workers |->
                 IF w > capacity /\ w <= n THEN "idle" ELSE wpc[w]]
    /\ UNCHANGED <<ledger, spc, held, outcome, answer>>

(* _set_running_state(j)                                                   *)
SetRunning(j) ==
    /\ running' = running + 1
    /\ stats' = [stats EXCEPT !["max_running"] = BMax(@, running + 1)]
    /\ status' = [status EXCEPT ![j] = "RUNNING"]
    /\ started' = [started EXCEPT ![j] = TRUE]

(* Bug: the decrement has lost its floor.                                  *)
SetTerminalNoFloor(j, s) ==
    /\ status' = [status EXCEPT ![j] = s]
    /\ started' = [started EXCEPT ![j] = TRUE]
    /\ running' = IF started'[j] THEN running - 1 ELSE running

(* _set_terminal_state(j, s).  A job that never started gets its start time *)
(* here, so started_monotonic is never None when the counter is decremented.*)
SetTerminal(j, s) ==
    /\ status' = [status EXCEPT ![j] = s]
    /\ started' = [started EXCEPT ![j] = TRUE]
    /\ running' = IF running > 0 /\ started'[j] THEN running - 1 ELSE running

-----------------------------------------------------------------------------
(* submit(j), the scan thread's side.                                      *)
Register(j) ==
    /\ spc[j] = "idle"
    /\ status' = [status EXCEPT ![j] = "QUEUED"]
    /\ stats' = [stats EXCEPT !["submitted"] = @ + 1,
                              !["max_queue_depth"] = BMax(@, Len(queue) + 1)]
    /\ spc' = [spc EXCEPT ![j] = "registered"]
    /\ UNCHANGED <<control, running, started, workers, answer>>

\* `if self._worker_capacity <= 0`, read without the lock.
CheckCapacity(j) ==
    /\ spc[j] = "registered"
    /\ spc' = [spc EXCEPT ![j] = IF capacity <= 0 THEN "unavailable" ELSE "enqueue"]
    /\ UNCHANGED <<control, ledger, workers, answer>>

\* Bug: the job is put first and the limit is looked at afterwards.
EnqueueThenCheck(j) ==
    /\ spc[j] = "enqueue"
    /\ queue' = Append(queue, j)
    /\ spc' = [spc EXCEPT ![j] = IF Len(queue) < limit THEN "waiting" ELSE "full"]
    /\ UNCHANGED <<limit, capacity, ledger, workers, answer>>

\* self._queue.put_nowait(queued), or queue.Full.
Enqueue(j) ==
    /\ spc[j] = "enqueue"
    /\ \/ /\ Len(queue) < limit
          /\ queue' = Append(queue, j)
          /\ spc' = [spc EXCEPT ![j] = "waiting"]
       \/ /\ Len(queue) >= limit
          /\ spc' = [spc EXCEPT ![j] = "full"]
          /\ UNCHANGED queue
    /\ UNCHANGED <<limit, capacity, ledger, workers, answer>>

\* The two refusals record a terminal state for a job that no worker ran ...
Refuse(j) ==
    /\ \/ spc[j] = "full"        /\ SetTerminal(j, "REJECTED")
                                 /\ spc' = [spc EXCEPT ![j] = "rejecting"]
       \/ spc[j] = "unavailable" /\ SetTerminal(j, "FAILED")
                                 /\ spc' = [spc EXCEPT ![j] = "failing"]
    /\ UNCHANGED <<control, stats, workers, answer>>

\* ... and, in a second locked section, count it and raise.
CountRefusal(j) ==
    /\ \/ spc[j] = "rejecting" /\ stats' = Bump("rejected")
       \/ spc[j] = "failing"   /\ stats' = Bump("failed")
    /\ spc' = [spc EXCEPT ![j] = "raised"]
    /\ UNCHANGED <<control, running, status, started, workers, answer>>

\* queued.done.wait() returns; raise queued.failure or return the payload.
Wake(j) ==
    /\ spc[j] = "waiting"
    /\ done[j]
    /\ spc' = [spc EXCEPT ![j] = IF failure[j] # "None" THEN "raised" ELSE "returned"]
    /\ UNCHANGED <<control, ledger, workers, answer>>

-----------------------------------------------------------------------------
(* Bug: the worker looks at the head of the queue and leaves it there.     *)
TakeByPeeking(w) ==
    /\ wpc[w] = "idle"
    /\ queue # <<>>
    /\ held' = [held EXCEPT ![w] = Head(queue)]
    /\ wpc' = [wpc EXCEPT ![w] = "got"]
    /\ UNCHANGED <<control, ledger, spc, outcome, answer>>

(* _worker_loop() of worker w.                                             *)
Take(w) ==
    /\ wpc[w] = "idle"
    /\ queue # <<>>
    /\ held' = [held EXCEPT ![w] = Head(queue)]
    /\ queue' = Tail(queue)
    /\ wpc' = [wpc EXCEPT ![w] = "got"]
    /\ UNCHANGED <<limit, capacity, ledger, spc, outcome, answer>>

Start(w) ==
    /\ wpc[w] = "got"
    /\ SetRunning(held[w])
    /\ wpc' = [wpc EXCEPT ![w] = "executing"]
    /\ UNCHANGED <<control, spc, held, outcome, answer>>

Execute(w, o) ==
    /\ wpc[w] = "executing"
    /\ outcome' = [outcome EXCEPT ![w] = o]
    /\ wpc' = [wpc EXCEPT ![w] = "executed"]
    /\ UNCHANGED <<control, ledger, spc, held, answer>>

\* _set_terminal_state: the returned outcome's status, FAILED for an exception.
Record(w) ==
    /\ wpc[w] = "executed"
    /\ SetTerminal(held[w], outcome[w])
    /\ wpc' = [wpc EXCEPT ![w] = "recorded"]
    /\ UNCHANGED <<control, stats, spc, held, outcome, answer>>

\* Bug: a timed-out outcome is counted, but its submitter gets no failure.
CountSilentTimeout(w) ==
    /\ wpc[w] = "recorded"
    /\ stats' = Bump(CASE outcome[w] = "COMPLETED" -> "completed"
                       [] outcome[w] = "TIMED_OUT" -> "timed_out"
                       [] outcome[w] = "FAILED"    -> "failed")
    /\ failure' = [failure EXCEPT ![held[w]] =
                     IF outcome[w] = "FAILED" THEN "FAILED" ELSE @]
    /\ wpc' = [wpc EXCEPT ![w] = "answering"]
    /\ UNCHANGED <<control, running, status, started, spc, held, outcome, done>>

\* Bug: a timed-out job is counted among the completed ones.
CountTimeoutAsCompleted(w) ==
    /\ wpc[w] = "recorded"
    /\ stats' = Bump(IF outcome[w] = "FAILED" THEN "failed" ELSE "completed")
    /\ failure' = [failure EXCEPT ![held[w]] =
                     IF outcome[w] = "COMPLETED" THEN @ ELSE outcome[w]]
    /\ wpc' = [wpc EXCEPT ![w] = "answering"]
    /\ UNCHANGED <<control, running, status, started, spc, held, outcome, done>>

\* The counter of the recorded status, then queued.failure.
Count(w) ==
    /\ wpc[w] = "recorded"
    /\ stats' = Bump(CASE outcome[w] = "COMPLETED" -> "completed"
                       [] outcome[w] = "TIMED_OUT" -> "timed_out"
                       [] outcome[w] = "FAILED"    -> "failed")
    /\ failure' = [failure EXCEPT ![held[w]] =
                     IF outcome[w] = "COMPLETED" THEN @ ELSE outcome[w]]
    /\ wpc' = [wpc EXCEPT ![w] = "answering"]
    /\ UNCHANGED <<control, running, status, started, spc, held, outcome, done>>

\* Bug: done is set at the end of the try block instead of in `finally`.
AnswerOnSuccess(w) ==
    /\ wpc[w] = "answering"
    /\ done' = [done EXCEPT ![held[w]] = (outcome[w] # "FAILED")]
    /\ held' = [held EXCEPT ![w] = NoJob]
    /\ wpc' = [wpc EXCEPT ![w] = "idle"]
    /\ UNCHANGED <<control, ledger, spc, outcome, failure>>

\* finally: queued.done.set(); task_done().  The loop variable keeps no job.
Answer(w) ==
    /\ wpc[w] = "answering"
    /\ done' = [done EXCEPT ![held[w]] = TRUE]
    /\ held' = [held EXCEPT ![w] = NoJob]
    /\ wpc' = [wpc EXCEPT ![w] = "idle"]
    /\ UNCHANGED <<control, ledger, spc, outcome, failure>>

-----------------------------------------------------------------------------
Submit(j) == \/ Register(j) \/ CheckCapacity(j) \/ Enqueue(j)
             \/ Refuse(j) \/ CountRefusal(j) \/ Wake(j)

Work(w) == \/ Take(w) \/ Start(w) \/ \E o \in Outcomes : Execute(w, o)
           \/ Record(w) \/ Count(w) \/ Answer(w)

\* Configure is offered only while it can change something.
Reconfigure == \E n \in 0..MaxWorkers, size \in 1..MaxQueue :
                  /\ capacity = 0 \/ n > capacity
                  /\ Configure(n, size)

Next == \/ Reconfigure
        \/ \E j \in Jobs : Submit(j)
        \/ \E w \in Workers : Work(w)

Spec == Init /\ [][Next]_vars

(* Threads are scheduled by the operating system and execute() returns:    *)
(* every thread that can move eventually does.  Nobody has to submit a     *)
(* job or to configure the bus.                                            *)
Fairness ==
    /\ \A j \in Jobs : WF_vars(Submit(j) /\ spc[j] # "idle")
    /\ \A w \in Workers : WF_vars(Work(w))

FairSpec == Spec /\ Fairness
-----------------------------------------------------------------------------
TypeOK ==
    /\ queue \in Seq(Jobs) /\ limit \in 1..MaxQueue /\ capacity \in 0..MaxWorkers
    /\ running \in Nat
    /\ status \in [Jobs -> Statuses] /\ started \in [Jobs -> BOOLEAN]
    /\ stats \in [Counters -> Nat]
    /\ spc \in [Jobs -> SubmitterAt]
    /\ wpc \in [Workers -> WorkerAt]
    /\ held \in [Workers -> Jobs \cup {NoJob}]
    /\ outcome \in [Workers -> Outcomes]
    /\ done \in [Jobs -> BOOLEAN] /\ failure \in [Jobs -> Failures]

(* Two jobs never share a place and no job has two: a job is on the queue  *)
(* once, or with one worker, so execute() is never run twice for it.       *)
OnePlacePerJob ==
    /\ \A i, k \in DOMAIN queue : queue[i] = queue[k] => i = k
    /\ \A w \in Workers : held[w] \notin OnQueue
    /\ \A w, v \in Workers : held[w] = held[v] /\ held[w] # NoJob => w = v

(* A submitter blocked in done.wait() without a timeout is always being    *)
(* served: its job is on the queue the started workers read, or with one   *)
(* of them.  It is what makes the replacement of the queue in configure    *)
(* safe, and what a job dropped between queue and worker would break.      *)
WaitingIsServed ==
    \A j \in Jobs : spc[j] = "waiting" /\ ~done[j] =>
        \/ j \in OnQueue /\ capacity > 0
        \/ \E w \in Workers : held[w] = j

InFlight == {w \in Workers : wpc[w] \in {"executing", "executed"}}

\* A job whose submission was refused: it is terminal and no worker ran it.
Refused(j) == \/ spc[j] \in {"rejecting", "failing"}
              \/ spc[j] = "raised" /\ failure[j] = "None"

(* running_jobs never claims more than the jobs that are between           *)
(* _set_running_state and _set_terminal_state, nor max_running more than   *)
(* the number of workers, and while no submission has been refused it is   *)
(* exact.  (A refused job takes another job's unit with it in              *)
(* _set_terminal_state, after which the counter stays too low until the    *)
(* pool is idle.)                                                          *)
RunningCountsExecutions ==
    /\ running <= Cardinality(InFlight)
    /\ stats["max_running"] <= capacity
    /\ (\A j \in Jobs : ~Refused(j)) => running = Cardinality(InFlight)

\* Jobs whose terminal status s is recorded and whose counter is not yet bumped.
Uncounted(s) ==
    {j \in Jobs : /\ status[j] = s
                  /\ \/ spc[j] \in {"rejecting", "failing"}
                     \/ \E w \in Workers : held[w] = j /\ wpc[w] = "recorded"}

CounterOf == [COMPLETED |-> "completed", TIMED_OUT |-> "timed_out",
              FAILED |-> "failed", REJECTED |-> "rejected"]

(* The counters and the ledger are written in separate locked sections,    *)
(* yet no job is ever counted twice or missed: each counter is the number  *)
(* of jobs with that status less the ones in between the two sections,     *)
(* and running_jobs counts executions.                                     *)
CountersMatchLedger ==
    /\ RunningCountsExecutions
    /\ stats["submitted"] = Cardinality({j \in Jobs : status[j] # "NONE"})
    /\ \A s \in Terminal :
          stats[CounterOf[s]] + Cardinality(Uncounted(s))
            = Cardinality({j \in Jobs : status[j] = s})

(* A terminal status is final: no late worker and no late refusal          *)
(* overwrites what was already reported.                                   *)
TerminalIsFinal ==
    [][\A j \in Jobs : status[j] \in Terminal => status'[j] = status[j]]_vars

(* What the submitter of a job is told, as a status.                       *)
Told(j) == CASE spc[j] = "returned" -> "COMPLETED"
             [] spc[j] = "raised" /\ failure[j] # "None" -> failure[j]
             [] OTHER -> status[j]

(* submit() blocks without a timeout, so this is its whole promise: once   *)
(* called it returns or raises, whatever the other jobs do and whenever    *)
(* the bus is configured.                                                  *)
EverySubmitReturns ==
    \A j \in Jobs : spc[j] # "idle" ~> spc[j] \in {"returned", "raised"}

(* How far a job is and how it ended, in the terms of InferencePromise.     *)
Phase(j) == IF spc[j] = "idle" THEN "new"
            ELSE IF spc[j] \in {"returned", "raised"} THEN "told"
            ELSE IF status[j] \in Terminal THEN "ended"
            ELSE IF status[j] = "RUNNING" THEN "running" ELSE "asked"
Verdict(j) == IF status[j] \in Terminal THEN Told(j) ELSE "NONE"

(* The bus implements InferencePromise: a job runs at most once, a refused *)
(* job never runs, and the submitter is told how its own run ended.        *)
Promise == INSTANCE InferencePromise
             WITH phase <- [j \in Jobs |-> Phase(j)], verdict <- [j \in Jobs |-> Verdict(j)]

PromiseSpec == Promise!Spec
=============================================================================
