-------------------------- MODULE InferenceBusProofs --------------------------
(***************************************************************************)
(* Theorems about InferenceBus for any set of jobs, any number of workers  *)
(* and any queue size.                                                     *)
(***************************************************************************)
EXTENDS InferenceBus, SequenceTheorems, FiniteSetTheorems, TLAPS

(* _set_terminal_state keeps its types and never makes the counter of      *)
(* running jobs negative (inference_bus.py:268).                           *)
LEMMA SetTerminalType ==
    ASSUME TypeOK, NEW j, NEW s \in Terminal, SetTerminal(j, s)
    PROVE  /\ running' \in Nat
           /\ status' \in [Jobs -> Statuses]
           /\ started' \in [Jobs -> BOOLEAN]
<1>1. running' \in Nat
  <2>1. running' = running \/ (running > 0 /\ running' = running - 1)
    BY Zenon DEF SetTerminal
  <2>2. QED
    BY <2>1 DEF TypeOK
<1>2. status' \in [Jobs -> Statuses] /\ started' \in [Jobs -> BOOLEAN]
  BY DEF TypeOK, SetTerminal, Statuses
<1>3. QED
  BY <1>1, <1>2

(* Each step keeps the types.                                              *)
LEMMA TypeStep ==
    ASSUME TypeOK, [Next]_vars
    PROVE  TypeOK'
<1> USE BusAssumption DEF TypeOK, control, ledger, workers, answer
<1>1. ASSUME NEW n \in 0..MaxWorkers, NEW size \in 1..MaxQueue, Configure(n, size)
      PROVE  TypeOK'
  <2>1. queue' \in Seq(Jobs) /\ limit' \in 1..MaxQueue
    <3>1. \/ queue' = <<>> /\ limit' = size
          \/ queue' = queue /\ limit' = limit
      BY <1>1 DEF Configure
    <3>2. queue \in Seq(Jobs) /\ limit \in 1..MaxQueue /\ <<>> \in Seq(Jobs)
      BY EmptySeq
    <3>3. QED
      BY <3>1, <3>2
  <2>2. capacity' \in 0..MaxWorkers
    BY <1>1 DEF Configure, BMax
  <2>3. wpc' \in [Workers -> WorkerAt]
    BY <1>1 DEF Configure, WorkerAt
  <2>4. QED
    BY <1>1, <2>1, <2>2, <2>3 DEF Configure
<1>2. ASSUME NEW j \in Jobs, Register(j) PROVE TypeOK'
  BY <1>2 DEF Register, Statuses, SubmitterAt, Counters, BMax
<1>3. ASSUME NEW j \in Jobs, CheckCapacity(j) PROVE TypeOK'
  BY <1>3 DEF CheckCapacity, SubmitterAt
<1>4. ASSUME NEW j \in Jobs, Enqueue(j) PROVE TypeOK'
  <2>1. queue' \in Seq(Jobs)
    <3>1. queue' = queue \/ queue' = Append(queue, j)
      BY <1>4 DEF Enqueue
    <3>2. queue \in Seq(Jobs)
      OBVIOUS
    <3>3. Append(queue, j) \in Seq(Jobs)
      BY <3>2, AppendProperties
    <3>4. QED
      BY <3>1, <3>2, <3>3
  <2>2. spc' \in [Jobs -> SubmitterAt]
    BY <1>4 DEF Enqueue, SubmitterAt
  <2>3. QED
    BY <1>4, <2>1, <2>2 DEF Enqueue
<1>5. ASSUME NEW j \in Jobs, Refuse(j) PROVE TypeOK'
  <2>1. spc' \in [Jobs -> SubmitterAt]
    BY <1>5 DEF Refuse, SubmitterAt
  <2>2. ASSUME NEW s \in Terminal, SetTerminal(j, s)
        PROVE  /\ running' \in Nat
               /\ status' \in [Jobs -> Statuses]
               /\ started' \in [Jobs -> BOOLEAN]
    BY <2>2, SetTerminalType
  <2>3. QED
    BY <1>5, <2>1, <2>2 DEF Refuse, Terminal
<1>6. ASSUME NEW j \in Jobs, CountRefusal(j) PROVE TypeOK'
  BY <1>6 DEF CountRefusal, Bump, SubmitterAt, Counters
<1>7. ASSUME NEW j \in Jobs, Wake(j) PROVE TypeOK'
  BY <1>7 DEF Wake, SubmitterAt
<1>8. ASSUME NEW w \in Workers, Take(w) PROVE TypeOK'
  BY <1>8 DEF Take, WorkerAt
<1>9. ASSUME NEW w \in Workers, Start(w) PROVE TypeOK'
  <2>1. running' \in Nat /\ stats' \in [Counters -> Nat]
    BY <1>9 DEF Start, SetRunning, BMax, Counters
  <2>2. status' \in [Jobs -> Statuses] /\ started' \in [Jobs -> BOOLEAN]
    BY <1>9 DEF Start, SetRunning, Statuses
  <2>3. wpc' \in [Workers -> WorkerAt]
    BY <1>9 DEF Start, WorkerAt
  <2>4. QED
    BY <1>9, <2>1, <2>2, <2>3 DEF Start, SetRunning
<1>10. ASSUME NEW w \in Workers, NEW o \in Outcomes, Execute(w, o) PROVE TypeOK'
  BY <1>10 DEF Execute, WorkerAt
<1>11. ASSUME NEW w \in Workers, Record(w) PROVE TypeOK'
  <2>1. outcome[w] \in Terminal
    BY DEF Outcomes, Terminal
  <2>2. /\ running' \in Nat
        /\ status' \in [Jobs -> Statuses]
        /\ started' \in [Jobs -> BOOLEAN]
    BY <1>11, <2>1, SetTerminalType DEF Record
  <2>3. wpc' \in [Workers -> WorkerAt]
    BY <1>11 DEF Record, WorkerAt
  <2>4. QED
    BY <1>11, <2>2, <2>3 DEF Record
<1>12. ASSUME NEW w \in Workers, Count(w) PROVE TypeOK'
  <2>1. stats' \in [Counters -> Nat]
    <3>1. PICK c \in Counters : stats' = [stats EXCEPT ![c] = @ + 1]
      BY <1>12 DEF Count, Bump, Outcomes, Counters
    <3>2. QED
      BY <3>1
  <2>2. failure' \in [Jobs -> Failures]
    BY <1>12 DEF Count, Outcomes, Failures
  <2>3. wpc' \in [Workers -> WorkerAt]
    BY <1>12 DEF Count, WorkerAt
  <2>4. QED
    BY <1>12, <2>1, <2>2, <2>3 DEF Count
<1>13. ASSUME NEW w \in Workers, Answer(w) PROVE TypeOK'
  BY <1>13 DEF Answer, WorkerAt
<1>14. CASE UNCHANGED vars
  BY <1>14 DEF vars
<1>15. QED
  BY <1>1, <1>2, <1>3, <1>4, <1>5, <1>6, <1>7, <1>8, <1>9, <1>10, <1>11,
     <1>12, <1>13, <1>14 DEF Next, Reconfigure, Submit, Work

(* The variables of the bus keep their types: in particular running_jobs   *)
(* never goes below zero although refused jobs decrement it as well        *)
(* (inference_bus.py:268).                                                 *)
THEOREM TypeCorrect == Spec => []TypeOK
<1>1. Init => TypeOK
  BY BusAssumption DEF Init, TypeOK, Statuses, SubmitterAt, WorkerAt, Outcomes,
     Failures, Counters
<1>2. TypeOK /\ [Next]_vars => TypeOK'
  BY TypeStep
<1>3. QED
  BY <1>1, <1>2, PTL DEF Spec

-----------------------------------------------------------------------------
(* Where a job is.  The properties about queue and workers follow from one *)
(* inductive invariant: it says of the queue, of each worker and of each   *)
(* submitter which job it has and what the ledger says of that job.        *)
Elements(s) == {s[i] : i \in DOMAIN s}
Distinct(s) == \A i, k \in DOMAIN s : s[i] = s[k] => i = k

QueueInv ==
    /\ Distinct(queue)
    /\ capacity = 0 => queue = <<>>
    /\ \A j \in Elements(queue) :
          spc[j] = "waiting" /\ ~done[j] /\ status[j] = "QUEUED" /\ failure[j] = "None"

\* The status and the failure of the job that worker w holds.
Stage(w) == CASE wpc[w] = "got" -> "QUEUED"
              [] wpc[w] \in {"executing", "executed"} -> "RUNNING"
              [] OTHER -> outcome[w]
Reported(w) == IF wpc[w] = "answering" /\ outcome[w] # "COMPLETED" THEN outcome[w] ELSE "None"

Holds(w) ==
    /\ held[w] \in Jobs /\ held[w] \notin Elements(queue)
    /\ spc[held[w]] = "waiting" /\ ~done[held[w]]
    /\ status[held[w]] = Stage(w) /\ failure[held[w]] = Reported(w)

WorkerInv ==
    /\ \A w \in Workers :
          /\ w > capacity => wpc[w] = "absent"
          /\ wpc[w] \in {"absent", "idle"} => held[w] = NoJob
          /\ wpc[w] \notin {"absent", "idle"} => Holds(w)
    /\ \A w, v \in Workers : held[w] = held[v] /\ held[w] # NoJob => w = v

Fresh(j, s) == status[j] = s /\ ~done[j] /\ failure[j] = "None"
Ended(j) == /\ status[j] \in Outcomes
            /\ failure[j] = IF status[j] = "COMPLETED" THEN "None" ELSE status[j]

Submitter(j) ==
    /\ spc[j] = "idle" => Fresh(j, "NONE")
    /\ spc[j] \in {"registered", "enqueue", "full", "unavailable"} => Fresh(j, "QUEUED")
    /\ spc[j] \in {"enqueue", "waiting"} => capacity > 0
    /\ spc[j] = "rejecting" => Fresh(j, "REJECTED")
    /\ spc[j] = "failing" => Fresh(j, "FAILED")
    /\ spc[j] = "waiting" /\ done[j] => Ended(j)
    /\ spc[j] = "waiting" /\ ~done[j] =>
          j \in Elements(queue) \/ \E w \in Workers : held[w] = j
    /\ spc[j] = "returned" => status[j] = "COMPLETED" /\ failure[j] = "None"
    /\ spc[j] = "raised" => \/ status[j] \in {"TIMED_OUT", "FAILED"} /\ failure[j] = status[j]
                            \/ status[j] \in {"REJECTED", "FAILED"} /\ failure[j] = "None"

SubmitterInv == \A j \in Jobs : Submitter(j)

Placement == TypeOK /\ QueueInv /\ WorkerInv /\ SubmitterInv

(* put_nowait adds a new job at the end.                                   *)
LEMMA AppendElements ==
    ASSUME NEW s \in Seq(Jobs), NEW j \in Jobs, Distinct(s), j \notin Elements(s)
    PROVE  Elements(Append(s, j)) = Elements(s) \cup {j} /\ Distinct(Append(s, j))
<1> DEFINE a == Append(s, j)
<1>1. /\ a \in Seq(Jobs) /\ Len(a) = Len(s) + 1
      /\ \A i \in 1..Len(s) : a[i] = s[i]
      /\ a[Len(s) + 1] = j
  BY AppendProperties
<1>2. /\ DOMAIN a = 1..Len(a) /\ DOMAIN s = 1..Len(s) /\ Len(s) \in Nat
  BY <1>1, LenProperties
<1> HIDE DEF a
<1>3. Elements(a) = Elements(s) \cup {j}
  <2>1. ASSUME NEW i \in DOMAIN a PROVE a[i] \in Elements(s) \cup {j}
    BY <1>1, <1>2 DEF Elements
  <2>2. ASSUME NEW i \in DOMAIN s PROVE i \in DOMAIN a /\ a[i] = s[i]
    BY <1>1, <1>2
  <2>3. Len(s) + 1 \in DOMAIN a
    BY <1>1, <1>2
  <2>4. QED
    BY <1>1, <2>1, <2>2, <2>3 DEF Elements
<1>4. Distinct(a)
  BY <1>1, <1>2 DEF Distinct, Elements
<1>5. QED
  BY <1>3, <1>4 DEF a

(* get takes the first job and leaves the others.                          *)
LEMMA TailElements ==
    ASSUME NEW s \in Seq(Jobs), s # <<>>, Distinct(s)
    PROVE  /\ Head(s) \in Elements(s) /\ Head(s) \in Jobs
           /\ Elements(Tail(s)) = Elements(s) \ {Head(s)}
           /\ Distinct(Tail(s))
<1> DEFINE t == Tail(s)
<1>1. /\ t \in Seq(Jobs) /\ Len(t) = Len(s) - 1 /\ Head(s) \in Jobs
      /\ \A i \in 1..Len(t) : t[i] = s[i + 1]
  BY HeadTailProperties
<1>2. /\ DOMAIN t = 1..Len(t) /\ DOMAIN s = 1..Len(s) /\ Len(s) \in Nat \ {0}
  BY <1>1, LenProperties, EmptySeq
<1>3. Head(s) = s[1]
  OBVIOUS
<1> HIDE DEF t
<1>4. Head(s) \in Elements(s)
  BY <1>2, <1>3 DEF Elements
<1>5. ASSUME NEW i \in DOMAIN t PROVE i + 1 \in DOMAIN s /\ t[i] = s[i + 1] /\ t[i] # Head(s)
  BY <1>1, <1>2, <1>3, <1>5 DEF Distinct
<1>6. ASSUME NEW i \in DOMAIN s, s[i] # Head(s) PROVE i - 1 \in DOMAIN t /\ t[i - 1] = s[i]
  BY <1>1, <1>2, <1>3, <1>6
<1>7. Elements(t) = Elements(s) \ {Head(s)}
  BY <1>5, <1>6 DEF Elements
<1>8. Distinct(t)
  BY <1>1, <1>2 DEF Distinct
<1>9. QED
  BY <1>1, <1>4, <1>7, <1>8 DEF t

(* What a step must leave alone for a submitter to stay where it is.       *)
LEMMA SubmitterKept ==
    ASSUME NEW k \in Jobs, Submitter(k),
           spc'[k] = spc[k], status'[k] = status[k], done'[k] = done[k], failure'[k] = failure[k],
           capacity' = capacity, queue' = queue, held' = held
    PROVE  Submitter(k)'
BY DEF Submitter, Fresh, Ended, Elements

(* Every step keeps the invariant: registering and answering change one    *)
(* job, and a job passes from the queue to exactly one worker.             *)
LEMMA PlacementStep ==
    ASSUME Placement, [Next]_vars
    PROVE  QueueInv' /\ WorkerInv' /\ SubmitterInv'
<1> USE BusAssumption DEF Placement, control, ledger, workers, answer
<1>0. TypeOK'
  BY TypeStep
<1> DEFINE E == Elements(queue)
<1>1. ASSUME NEW n \in 0..MaxWorkers, NEW size \in 1..MaxQueue, Configure(n, size)
      PROVE  QueueInv' /\ WorkerInv' /\ SubmitterInv'
  <2>1. queue' = queue
    BY <1>1 DEF Configure, QueueInv
  <2>2. capacity \in Nat /\ capacity' \in Nat /\ capacity' >= capacity /\ capacity' >= n
    BY <1>1 DEF Configure, BMax, TypeOK
  <2>3. QueueInv'
    BY <1>1, <2>1, <2>2 DEF Configure, QueueInv, Elements, Distinct
  <2>4. WorkerInv'
    <3>1. \A w \in Workers : wpc'[w] # wpc[w] => wpc[w] = "absent" /\ wpc'[w] = "idle"
      BY <1>1 DEF Configure, WorkerInv, TypeOK
    <3>2. \A w \in Workers : w > capacity' => wpc'[w] = "absent"
      BY <1>1, <2>2 DEF Configure, WorkerInv, TypeOK, Workers
    <3>3. held' = held /\ spc' = spc /\ done' = done /\ status' = status /\ failure' = failure /\ outcome' = outcome
      BY <1>1 DEF Configure
    <3>4. \A w \in Workers : wpc'[w] \notin {"absent", "idle"} => Holds(w)'
      BY <2>1, <3>1, <3>3 DEF WorkerInv, Holds, Elements, Stage, Reported
    <3>5. QED
      BY <3>1, <3>2, <3>3, <3>4 DEF WorkerInv
  <2>5. SubmitterInv'
    BY <1>1, <2>1, <2>2 DEF Configure, SubmitterInv, Submitter, Elements, Fresh, Ended
  <2>6. QED
    BY <2>3, <2>4, <2>5
<1>2. ASSUME NEW j \in Jobs, Register(j) PROVE QueueInv' /\ WorkerInv' /\ SubmitterInv'
  <2>1. QueueInv'
    BY <1>2 DEF Register, QueueInv, Elements, Distinct, TypeOK
  <2>2. WorkerInv'
    BY <1>2 DEF Register, WorkerInv, Holds, Elements, Stage, Reported, TypeOK
  <2>3. SubmitterInv'
    BY <1>2 DEF Register, SubmitterInv, Submitter, Elements, Fresh, Ended, TypeOK
  <2>4. QED
    BY <2>1, <2>2, <2>3
<1>3. ASSUME NEW j \in Jobs, CheckCapacity(j) PROVE QueueInv' /\ WorkerInv' /\ SubmitterInv'
  <2>1. QueueInv'
    BY <1>3 DEF CheckCapacity, QueueInv, Elements, Distinct, TypeOK
  <2>2. WorkerInv'
    BY <1>3 DEF CheckCapacity, WorkerInv, Holds, Elements, Stage, Reported, TypeOK
  <2>3. SubmitterInv'
    <3>1. ASSUME NEW k \in Jobs, k # j PROVE Submitter(k)'
      <4>1. /\ spc'[k] = spc[k] /\ status' = status /\ done' = done /\ failure' = failure
            /\ capacity' = capacity /\ queue' = queue /\ held' = held
        BY <1>3, <3>1 DEF CheckCapacity, TypeOK
      <4>2. QED
        BY <4>1, SubmitterKept DEF SubmitterInv
    <3>2. /\ Fresh(j, "QUEUED") /\ Fresh(j, "QUEUED")' /\ capacity' = capacity /\ capacity \in Nat
          /\ spc'[j] = IF capacity <= 0 THEN "unavailable" ELSE "enqueue"
      BY <1>3 DEF CheckCapacity, SubmitterInv, Submitter, Fresh, TypeOK
    <3>3. Submitter(j)'
      BY <3>2 DEF Submitter
    <3>4. QED
      BY <3>1, <3>3 DEF SubmitterInv
  <2>4. QED
    BY <2>1, <2>2, <2>3
<1>4. ASSUME NEW j \in Jobs, Enqueue(j) PROVE QueueInv' /\ WorkerInv' /\ SubmitterInv'
  <2>1. CASE Len(queue) < limit /\ queue' = Append(queue, j) /\ spc' = [spc EXCEPT ![j] = "waiting"]
    <3>1. j \notin Elements(queue) /\ Fresh(j, "QUEUED") /\ capacity > 0
      BY <1>4 DEF Enqueue, QueueInv, SubmitterInv, Submitter
    <3>2. Elements(queue') = Elements(queue) \cup {j} /\ Distinct(queue')
      BY <2>1, <3>1, AppendElements DEF QueueInv, TypeOK
    <3>3. \A w \in Workers : held[w] # j
      BY <1>4 DEF Enqueue, WorkerInv, Holds
    <3>4. QueueInv'
      <4>1. Distinct(queue')
        BY <3>2
      <4>2. capacity' # 0
        BY <1>4, <3>1 DEF Enqueue, TypeOK
      <4>3. \A k \in Elements(queue') :
              spc'[k] = "waiting" /\ ~done'[k] /\ status'[k] = "QUEUED" /\ failure'[k] = "None"
        BY <1>4, <2>1, <3>1, <3>2 DEF Enqueue, QueueInv, Fresh, TypeOK
      <4>4. QED
        BY <4>1, <4>2, <4>3 DEF QueueInv, Elements, Distinct
    <3>5. WorkerInv'
      <4>1. \A w \in Workers : Holds(w) => Holds(w)'
        BY <1>4, <2>1, <3>2, <3>3 DEF Enqueue, Holds, Stage, Reported, TypeOK
      <4>2. QED
        BY <1>4, <4>1 DEF Enqueue, WorkerInv
    <3>6. SubmitterInv'
      BY <1>4, <2>1, <3>1, <3>2 DEF Enqueue, SubmitterInv, Submitter, Fresh, Ended, TypeOK
    <3>7. QED
      BY <3>4, <3>5, <3>6
  <2>2. CASE spc' = [spc EXCEPT ![j] = "full"] /\ queue' = queue
    <3>1. QueueInv'
      BY <1>4, <2>2 DEF Enqueue, QueueInv, Elements, Distinct, TypeOK
    <3>2. WorkerInv'
      BY <1>4, <2>2 DEF Enqueue, WorkerInv, Holds, Elements, Stage, Reported, TypeOK
    <3>3. SubmitterInv'
      BY <1>4, <2>2 DEF Enqueue, SubmitterInv, Submitter, Elements, Fresh, Ended, TypeOK
    <3>4. QED
      BY <3>1, <3>2, <3>3
  <2>3. QED
    BY <1>4, <2>1, <2>2 DEF Enqueue
<1>5. ASSUME NEW j \in Jobs, Refuse(j) PROVE QueueInv' /\ WorkerInv' /\ SubmitterInv'
  <2>1. spc[j] \in {"full", "unavailable"}
    BY <1>5 DEF Refuse
  <2>2. QueueInv'
    BY <1>5, <2>1 DEF Refuse, SetTerminal, QueueInv, Elements, Distinct, TypeOK
  <2>3. WorkerInv'
    BY <1>5, <2>1 DEF Refuse, SetTerminal, WorkerInv, Holds, Elements, Stage, Reported, TypeOK
  <2>4. SubmitterInv'
    <3>1. ASSUME NEW k \in Jobs, k # j PROVE Submitter(k)'
      <4>1. /\ spc'[k] = spc[k] /\ status'[k] = status[k] /\ done' = done /\ failure' = failure
            /\ capacity' = capacity /\ queue' = queue /\ held' = held
        BY <1>5, <3>1 DEF Refuse, SetTerminal, TypeOK
      <4>2. QED
        BY <4>1, SubmitterKept DEF SubmitterInv
    <3>2. \/ spc'[j] = "rejecting" /\ Fresh(j, "REJECTED")'
          \/ spc'[j] = "failing" /\ Fresh(j, "FAILED")'
      BY <1>5, <2>1 DEF Refuse, SetTerminal, SubmitterInv, Submitter, Fresh, TypeOK
    <3>3. Submitter(j)'
      BY <3>2 DEF Submitter
    <3>4. QED
      BY <3>1, <3>3 DEF SubmitterInv
  <2>5. QED
    BY <2>2, <2>3, <2>4
<1>6. ASSUME NEW j \in Jobs, CountRefusal(j) PROVE QueueInv' /\ WorkerInv' /\ SubmitterInv'
  <2>1. spc[j] \in {"rejecting", "failing"}
    BY <1>6 DEF CountRefusal
  <2>2. QueueInv'
    BY <1>6, <2>1 DEF CountRefusal, QueueInv, Elements, Distinct, TypeOK
  <2>3. WorkerInv'
    BY <1>6, <2>1 DEF CountRefusal, WorkerInv, Holds, Elements, Stage, Reported, TypeOK
  <2>4. SubmitterInv'
    BY <1>6, <2>1 DEF CountRefusal, SubmitterInv, Submitter, Elements, Fresh, Ended, TypeOK
  <2>5. QED
    BY <2>2, <2>3, <2>4
<1>7. ASSUME NEW j \in Jobs, Wake(j) PROVE QueueInv' /\ WorkerInv' /\ SubmitterInv'
  <2>1. QueueInv'
    BY <1>7 DEF Wake, QueueInv, Elements, Distinct, TypeOK
  <2>2. WorkerInv'
    BY <1>7 DEF Wake, WorkerInv, Holds, Elements, Stage, Reported, TypeOK
  <2>3. SubmitterInv'
    BY <1>7 DEF Wake, SubmitterInv, Submitter, Elements, Fresh, Ended, Outcomes, TypeOK
  <2>4. QED
    BY <2>1, <2>2, <2>3
<1>8. ASSUME NEW w \in Workers, Take(w) PROVE QueueInv' /\ WorkerInv' /\ SubmitterInv'
  <2> DEFINE j == Head(queue)
  <2>1. /\ j \in Elements(queue) /\ j \in Jobs
        /\ Elements(queue') = Elements(queue) \ {j} /\ Distinct(queue')
    BY <1>8, TailElements DEF Take, QueueInv, TypeOK
  <2>2. /\ held' = [held EXCEPT ![w] = j] /\ wpc' = [wpc EXCEPT ![w] = "got"]
        /\ capacity' = capacity /\ spc' = spc /\ status' = status /\ done' = done
        /\ failure' = failure /\ outcome' = outcome /\ wpc[w] = "idle" /\ queue # <<>>
    BY <1>8 DEF Take
  <2> HIDE DEF j
  <2>3. QueueInv'
    <3>1. \A k \in Elements(queue') :
            spc'[k] = "waiting" /\ ~done'[k] /\ status'[k] = "QUEUED" /\ failure'[k] = "None"
      BY <2>1, <2>2 DEF QueueInv
    <3>2. capacity' # 0
      BY <2>2 DEF QueueInv
    <3>3. QED
      BY <2>1, <3>1, <3>2 DEF QueueInv, Elements, Distinct
  <2>4. \A v \in Workers : held[v] # j
    BY <2>1, BusAssumption DEF WorkerInv, Holds
  <2>5. WorkerInv'
    <3>1. Holds(w)'
      BY <2>1, <2>2 DEF QueueInv, Holds, Stage, Reported, TypeOK
    <3>2. ASSUME NEW v \in Workers, v # w, Holds(v) PROVE Holds(v)'
      BY <2>1, <2>2, <3>2 DEF Holds, Stage, Reported, TypeOK
    <3>3. ASSUME NEW v \in Workers
          PROVE  /\ v > capacity' => wpc'[v] = "absent"
                 /\ wpc'[v] \in {"absent", "idle"} => held'[v] = NoJob
                 /\ wpc'[v] \notin {"absent", "idle"} => Holds(v)'
      BY <2>2, <3>1, <3>2 DEF WorkerInv, TypeOK
    <3>4. ASSUME NEW u \in Workers, NEW v \in Workers, held'[u] = held'[v], held'[u] # NoJob
          PROVE  u = v
      BY <2>2, <2>4, <3>4 DEF WorkerInv, TypeOK
    <3>5. QED
      BY <3>3, <3>4 DEF WorkerInv
  <2>6. SubmitterInv'
    <3>1. ASSUME NEW k \in Jobs, spc[k] = "waiting", ~done[k]
          PROVE  k \in Elements(queue') \/ \E v \in Workers : held'[v] = k
      <4>1. CASE k = j
        BY <2>2, <4>1 DEF TypeOK
      <4>2. CASE k # j /\ k \in Elements(queue)
        BY <2>1, <4>2
      <4>3. CASE \E v \in Workers : held[v] = k
        <5>1. PICK v \in Workers : held[v] = k
          BY <4>3
        <5>2. v # w
          BY <2>2, <5>1, BusAssumption DEF WorkerInv
        <5>3. QED
          BY <2>2, <5>1, <5>2 DEF TypeOK
      <4>4. QED
        BY <3>1, <4>1, <4>2, <4>3 DEF SubmitterInv, Submitter
    <3>2. QED
      BY <2>2, <3>1 DEF SubmitterInv, Submitter, Fresh, Ended
  <2>7. QED
    BY <2>3, <2>5, <2>6
<1>9. ASSUME NEW w \in Workers, Start(w) PROVE QueueInv' /\ WorkerInv' /\ SubmitterInv'
  <2>1. /\ held[w] \in Jobs /\ held[w] \notin Elements(queue)
        /\ spc[held[w]] = "waiting" /\ ~done[held[w]]
    BY <1>9 DEF Start, WorkerInv, Holds
  <2>2. /\ status' = [status EXCEPT ![held[w]] = "RUNNING"]
        /\ wpc' = [wpc EXCEPT ![w] = "executing"] /\ wpc[w] = "got"
        /\ queue' = queue /\ capacity' = capacity /\ spc' = spc /\ held' = held
        /\ done' = done /\ failure' = failure /\ outcome' = outcome
    BY <1>9 DEF Start, SetRunning
  <2>3. QueueInv'
    BY <2>1, <2>2 DEF QueueInv, Elements, Distinct, TypeOK
  <2>4. WorkerInv'
    BY <2>1, <2>2 DEF WorkerInv, Holds, Elements, Stage, Reported, TypeOK
  <2>5. SubmitterInv'
    BY <2>1, <2>2 DEF SubmitterInv, Submitter, Elements, Fresh, Ended, TypeOK
  <2>6. QED
    BY <2>3, <2>4, <2>5
<1>10. ASSUME NEW w \in Workers, NEW o \in Outcomes, Execute(w, o)
       PROVE  QueueInv' /\ WorkerInv' /\ SubmitterInv'
  <2>1. QueueInv'
    BY <1>10 DEF Execute, QueueInv, Elements, Distinct
  <2>2. WorkerInv'
    BY <1>10 DEF Execute, WorkerInv, Holds, Elements, Stage, Reported, TypeOK
  <2>3. SubmitterInv'
    BY <1>10 DEF Execute, SubmitterInv, Submitter, Elements, Fresh, Ended
  <2>4. QED
    BY <2>1, <2>2, <2>3
<1>11. ASSUME NEW w \in Workers, Record(w) PROVE QueueInv' /\ WorkerInv' /\ SubmitterInv'
  <2>1. /\ held[w] \in Jobs /\ held[w] \notin Elements(queue)
        /\ spc[held[w]] = "waiting" /\ ~done[held[w]]
    BY <1>11 DEF Record, WorkerInv, Holds
  <2>2. /\ status' = [status EXCEPT ![held[w]] = outcome[w]]
        /\ wpc' = [wpc EXCEPT ![w] = "recorded"] /\ wpc[w] = "executed"
        /\ queue' = queue /\ capacity' = capacity /\ spc' = spc /\ held' = held
        /\ done' = done /\ failure' = failure /\ outcome' = outcome
    BY <1>11 DEF Record, SetTerminal
  <2>3. QueueInv'
    BY <2>1, <2>2 DEF QueueInv, Elements, Distinct, TypeOK
  <2>4. WorkerInv'
    BY <2>1, <2>2 DEF WorkerInv, Holds, Elements, Stage, Reported, TypeOK
  <2>5. SubmitterInv'
    BY <2>1, <2>2 DEF SubmitterInv, Submitter, Elements, Fresh, Ended, TypeOK
  <2>6. QED
    BY <2>3, <2>4, <2>5
<1>12. ASSUME NEW w \in Workers, Count(w) PROVE QueueInv' /\ WorkerInv' /\ SubmitterInv'
  <2>1. /\ held[w] \in Jobs /\ held[w] \notin Elements(queue)
        /\ spc[held[w]] = "waiting" /\ ~done[held[w]] /\ failure[held[w]] = "None"
    BY <1>12 DEF Count, WorkerInv, Holds, Reported
  <2>2. /\ failure' = [failure EXCEPT ![held[w]] =
                         IF outcome[w] = "COMPLETED" THEN "None" ELSE outcome[w]]
        /\ wpc' = [wpc EXCEPT ![w] = "answering"] /\ wpc[w] = "recorded"
        /\ queue' = queue /\ capacity' = capacity /\ spc' = spc /\ held' = held
        /\ done' = done /\ status' = status /\ outcome' = outcome
    BY <1>12, <2>1 DEF Count, TypeOK
  <2>3. QueueInv'
    BY <2>1, <2>2 DEF QueueInv, Elements, Distinct, TypeOK
  <2>4. WorkerInv'
    BY <2>1, <2>2 DEF WorkerInv, Holds, Elements, Stage, Reported, TypeOK
  <2>5. SubmitterInv'
    BY <2>1, <2>2 DEF SubmitterInv, Submitter, Elements, Fresh, Ended, TypeOK
  <2>6. QED
    BY <2>3, <2>4, <2>5
<1>13. ASSUME NEW w \in Workers, Answer(w) PROVE QueueInv' /\ WorkerInv' /\ SubmitterInv'
  <2>1. /\ held[w] \in Jobs /\ held[w] \notin Elements(queue) /\ Ended(held[w])
        /\ spc[held[w]] = "waiting" /\ \A v \in Workers : held[v] = held[w] => v = w
    BY <1>13 DEF Answer, WorkerInv, Holds, Stage, Reported, Ended, TypeOK
  <2>2. /\ done' = [done EXCEPT ![held[w]] = TRUE] /\ held' = [held EXCEPT ![w] = NoJob]
        /\ wpc' = [wpc EXCEPT ![w] = "idle"] /\ wpc[w] = "answering"
        /\ queue' = queue /\ capacity' = capacity /\ spc' = spc
        /\ status' = status /\ failure' = failure /\ outcome' = outcome
    BY <1>13 DEF Answer
  <2>3. QueueInv'
    BY <2>1, <2>2 DEF QueueInv, Elements, Distinct, TypeOK
  <2>4. WorkerInv'
    BY <2>1, <2>2 DEF WorkerInv, Holds, Elements, Stage, Reported, TypeOK
  <2>5. SubmitterInv'
    BY <2>1, <2>2 DEF SubmitterInv, Submitter, Elements, Fresh, Ended, TypeOK
  <2>6. QED
    BY <2>3, <2>4, <2>5
<1>14. CASE UNCHANGED vars
  BY <1>14 DEF vars, QueueInv, WorkerInv, SubmitterInv, Submitter, Holds, Elements, Distinct, Stage,
     Reported, Fresh, Ended
<1>15. QED
  BY <1>1, <1>2, <1>3, <1>4, <1>5, <1>6, <1>7, <1>8, <1>9, <1>10, <1>11, <1>12, <1>13,
     <1>14 DEF Next, Reconfigure, Submit, Work

(* Initially no job is anywhere.                                           *)
LEMMA PlacementInit == Init => Placement
<1> SUFFICES ASSUME Init PROVE Placement
  OBVIOUS
<1>1. TypeOK
  BY BusAssumption DEF Init, TypeOK, Statuses, SubmitterAt, WorkerAt, Outcomes, Failures, Counters
<1>2. Elements(<<>>) = {} /\ Distinct(<<>>)
  BY DEF Elements, Distinct
<1>3. QueueInv
  BY <1>2 DEF Init, QueueInv
<1>4. WorkerInv
  BY DEF Init, WorkerInv
<1>5. SubmitterInv
  BY DEF Init, SubmitterInv, Submitter, Fresh
<1>6. QED
  BY <1>1, <1>3, <1>4, <1>5 DEF Placement

(* Every reachable state of the bus places every job.                      *)
THEOREM PlacementCorrect == Spec => []Placement
<1>1. Placement /\ [Next]_vars => Placement'
  BY PlacementStep, TypeStep DEF Placement
<1>2. QED
  BY PlacementInit, <1>1, PTL DEF Spec

(* A job is on the queue once or with one worker: execute() never runs     *)
(* twice for it (inference_bus.py _worker_loop).                           *)
THEOREM OnePlace == Spec => []OnePlacePerJob
<1>1. Placement => OnePlacePerJob
  <2> SUFFICES ASSUME Placement PROVE OnePlacePerJob
    OBVIOUS
  <2>1. OnQueue = Elements(queue)
    BY DEF OnQueue, Elements
  <2>2. \A i, k \in DOMAIN queue : queue[i] = queue[k] => i = k
    BY DEF Placement, QueueInv, Distinct
  <2>3. NoJob \notin Elements(queue)
    BY BusAssumption DEF Placement, TypeOK, Elements
  <2>4. \A w \in Workers : held[w] \notin Elements(queue)
    BY <2>3 DEF Placement, WorkerInv, Holds
  <2>5. QED
    BY <2>1, <2>2, <2>4 DEF OnePlacePerJob, Placement, WorkerInv
<1>2. QED
  BY PlacementCorrect, <1>1, PTL

(* A submitter that blocks in done.wait() has its job on a queue that      *)
(* started workers read, or with a worker, whenever configure() is called. *)
THEOREM Served == Spec => []WaitingIsServed
<1>1. Placement => WaitingIsServed
  <2> SUFFICES ASSUME Placement, NEW j \in Jobs, spc[j] = "waiting", ~done[j]
               PROVE  \/ j \in OnQueue /\ capacity > 0
                      \/ \E w \in Workers : held[w] = j
    BY DEF WaitingIsServed
  <2>1. capacity > 0 /\ (j \in Elements(queue) \/ \E w \in Workers : held[w] = j)
    BY DEF Placement, SubmitterInv, Submitter
  <2>2. QED
    BY <2>1 DEF OnQueue, Elements
<1>2. QED
  BY PlacementCorrect, <1>1, PTL

(* A terminal status is final: only a job that is queued or running is     *)
(* given one, and only a job that is registered or held changes at all.    *)
LEMMA TerminalStep ==
    ASSUME Placement, [Next]_vars, NEW j \in Jobs, status[j] \in Terminal
    PROVE  status'[j] = status[j]
<1> USE DEF control, ledger, workers, answer
<1>1. ASSUME NEW k \in Jobs, Submit(k) PROVE status'[j] = status[j]
  <2>1. CASE Register(k)
    BY <2>1 DEF Register, Placement, TypeOK, SubmitterInv, Submitter, Fresh, Terminal
  <2>2. CASE Refuse(k)
    BY <2>2 DEF Refuse, SetTerminal, Placement, TypeOK, SubmitterInv, Submitter, Fresh, Terminal
  <2>3. CASE CheckCapacity(k) \/ Enqueue(k) \/ CountRefusal(k) \/ Wake(k)
    BY <2>3 DEF CheckCapacity, Enqueue, CountRefusal, Wake
  <2>4. QED
    BY <1>1, <2>1, <2>2, <2>3 DEF Submit
<1>2. ASSUME NEW w \in Workers, Work(w) PROVE status'[j] = status[j]
  <2>1. CASE Start(w)
    BY <2>1 DEF Start, SetRunning, Placement, TypeOK, WorkerInv, Holds, Stage, Terminal
  <2>2. CASE Record(w)
    BY <2>2 DEF Record, SetTerminal, Placement, TypeOK, WorkerInv, Holds, Stage, Terminal
  <2>3. CASE Take(w) \/ (\E o \in Outcomes : Execute(w, o)) \/ Count(w) \/ Answer(w)
    BY <2>3 DEF Take, Execute, Count, Answer
  <2>4. QED
    BY <1>2, <2>1, <2>2, <2>3 DEF Work
<1>3. CASE Reconfigure
  BY <1>3 DEF Reconfigure, Configure
<1>4. CASE UNCHANGED vars
  BY <1>4 DEF vars
<1>5. QED
  BY <1>1, <1>2, <1>3, <1>4 DEF Next

(* What was reported of a job is never overwritten: no step of the bus     *)
(* changes a terminal status (_set_terminal_state, inference_bus.py).      *)
THEOREM TerminalFinal == Spec => TerminalIsFinal
<1>1. Placement /\ [Next]_vars => [\A j \in Jobs : status[j] \in Terminal => status'[j] = status[j]]_vars
  BY TerminalStep
<1>2. QED
  BY PlacementCorrect, <1>1, PTL DEF Spec, TerminalIsFinal

-----------------------------------------------------------------------------
(* The bus implements InferencePromise.                                    *)

(* What the submitter is told is what the ledger says of its job.          *)
VerdictInv == \A j \in Jobs : Verdict(j) = IF status[j] \in Terminal THEN status[j] ELSE "NONE"

(* A caller is told what the ledger says, because placement ties the two.  *)
LEMMA VerdictIsStatus == Placement => VerdictInv
<1> SUFFICES ASSUME Placement, NEW j \in Jobs
             PROVE  Verdict(j) = IF status[j] \in Terminal THEN status[j] ELSE "NONE"
  BY DEF VerdictInv
<1>1. Submitter(j) /\ status[j] \in Statuses /\ spc[j] \in SubmitterAt /\ failure[j] \in Failures
  BY DEF Placement, SubmitterInv, TypeOK
<1>2. CASE spc[j] = "returned"
  BY <1>1, <1>2 DEF Verdict, Told, Submitter, Terminal
<1>3. CASE spc[j] = "raised"
  BY <1>1, <1>3 DEF Verdict, Told, Submitter, Terminal
<1>4. CASE spc[j] \notin {"returned", "raised"}
  BY <1>4 DEF Verdict, Told
<1>5. QED
  BY <1>2, <1>3, <1>4

(* A step of the promise, from what it does to one job.                    *)
LEMMA MoveStep ==
    ASSUME NEW j \in Jobs, NEW from, NEW to, Phase(j) = from, Phase(j)' = to,
           \A k \in Jobs : k # j => Phase(k)' = Phase(k)
    PROVE  Promise!Move(j, from, to)
BY DEF Promise!Move

(* No verdict changes.                                                     *)
LEMMA SameVerdict ==
    ASSUME \A k \in Jobs : Verdict(k)' = Verdict(k)
    PROVE  [j \in Jobs |-> Verdict(j)]' = [j \in Jobs |-> Verdict(j)]
OBVIOUS

(* One verdict changes.                                                    *)
LEMMA NewVerdict ==
    ASSUME NEW j \in Jobs, NEW v, Verdict(j)' = v, \A k \in Jobs : k # j => Verdict(k)' = Verdict(k)
    PROVE  [k \in Jobs |-> Verdict(k)]' = [[k \in Jobs |-> Verdict(k)] EXCEPT ![j] = v]
OBVIOUS

(* A job whose submitter and status stay keeps its phase and its verdict.  *)
LEMMA PhaseKept ==
    ASSUME VerdictInv, VerdictInv', NEW k \in Jobs, spc'[k] = spc[k], status'[k] = status[k]
    PROVE  Phase(k)' = Phase(k) /\ Verdict(k)' = Verdict(k)
BY DEF Phase, VerdictInv

(* Every step of the bus is a step of the promise or changes nothing of it. *)
LEMMA PromiseStep ==
    ASSUME Placement, VerdictInv, VerdictInv', [Next]_vars
    PROVE  Promise!Next \/ UNCHANGED Promise!vars
<1> USE DEF control, ledger, workers, answer
<1>1. ASSUME \A k \in Jobs : Phase(k)' = Phase(k) /\ Verdict(k)' = Verdict(k)
      PROVE  UNCHANGED Promise!vars
  BY <1>1 DEF Promise!vars
<1>2. ASSUME spc' = spc, status' = status PROVE UNCHANGED Promise!vars
  BY <1>1, <1>2, PhaseKept
<1>3. \A k \in Jobs : Verdict(k) = IF status[k] \in Terminal THEN status[k] ELSE "NONE"
  BY DEF VerdictInv
<1>4. \A k \in Jobs : Verdict(k)' = IF status'[k] \in Terminal THEN status'[k] ELSE "NONE"
  BY DEF VerdictInv
<1>5. ASSUME NEW j \in Jobs, Register(j) PROVE Promise!Next
  <2>1. \A k \in Jobs : k # j => Phase(k)' = Phase(k)
    BY <1>5, PhaseKept DEF Register, Placement, TypeOK
  <2>2. Phase(j) = "new" /\ Phase(j)' = "asked" /\ status[j] = "NONE" /\ status'[j] = "QUEUED"
    BY <1>5 DEF Register, Placement, TypeOK, SubmitterInv, Submitter, Fresh, Phase, Terminal
  <2>3. \A k \in Jobs : Verdict(k)' = Verdict(k)
    BY <1>3, <1>4, <1>5, <2>2 DEF Register, Placement, TypeOK, Terminal
  <2>4. Promise!Ask(j)
    BY <2>1, <2>2, <2>3, MoveStep, SameVerdict DEF Promise!Ask
  <2>5. QED
    BY <2>4 DEF Promise!Next
<1>6. ASSUME NEW j \in Jobs, CheckCapacity(j) \/ Enqueue(j) PROVE UNCHANGED Promise!vars
  <2>1. /\ status' = status /\ status[j] = "QUEUED"
        /\ spc[j] \notin {"idle", "returned", "raised"} /\ spc'[j] \notin {"idle", "returned", "raised"}
        /\ \A k \in Jobs : k # j => spc'[k] = spc[k]
    BY <1>6 DEF CheckCapacity, Enqueue, Placement, TypeOK, SubmitterInv, Submitter, Fresh
  <2>2. Phase(j)' = Phase(j) /\ Verdict(j)' = Verdict(j)
    BY <1>3, <1>4, <2>1 DEF Phase
  <2>3. QED
    BY <1>1, <2>1, <2>2, PhaseKept
<1>7. ASSUME NEW j \in Jobs, Refuse(j) PROVE Promise!Next
  <2>1. PICK v \in Promise!Declines :
          /\ status' = [status EXCEPT ![j] = v] /\ status[j] = "QUEUED"
          /\ spc[j] \notin {"idle", "returned", "raised"} /\ spc'[j] \notin {"idle", "returned", "raised"}
          /\ \A k \in Jobs : k # j => spc'[k] = spc[k]
    BY <1>7 DEF Refuse, SetTerminal, Promise!Declines, Placement, TypeOK, SubmitterInv, Submitter, Fresh
  <2>2. v \in Terminal /\ status'[j] = v
    BY <2>1 DEF Terminal, Promise!Declines, Placement, TypeOK
  <2>3. Phase(j) = "asked" /\ Phase(j)' = "ended" /\ Verdict(j)' = v
    BY <1>4, <2>1, <2>2 DEF Phase, Terminal
  <2>4. \A k \in Jobs : k # j => Phase(k)' = Phase(k) /\ Verdict(k)' = Verdict(k)
    BY <2>1, PhaseKept DEF Placement, TypeOK
  <2>5. Promise!Move(j, "asked", "ended")
    BY <2>3, <2>4, MoveStep
  <2>6. Promise!Decline(j)
    BY <2>3, <2>4, <2>5, NewVerdict DEF Promise!Decline
  <2>7. QED
    BY <2>6 DEF Promise!Next
<1>8. ASSUME NEW j \in Jobs, CountRefusal(j) \/ Wake(j) PROVE Promise!Next
  <2>1. /\ status' = status /\ status[j] \in Terminal
        /\ spc[j] \notin {"idle", "returned", "raised"} /\ spc'[j] \in {"returned", "raised"}
        /\ \A k \in Jobs : k # j => spc'[k] = spc[k]
    BY <1>8 DEF CountRefusal, Wake, Placement, TypeOK, SubmitterInv, Submitter, Fresh, Ended,
       Outcomes, Terminal
  <2>2. Phase(j) = "ended" /\ Phase(j)' = "told"
    BY <2>1 DEF Phase
  <2>3. \A k \in Jobs : Verdict(k)' = Verdict(k)
    BY <1>3, <1>4, <2>1
  <2>4. \A k \in Jobs : k # j => Phase(k)' = Phase(k)
    BY <2>1, PhaseKept
  <2>5. Promise!Tell(j)
    BY <2>2, <2>3, <2>4, MoveStep, SameVerdict DEF Promise!Tell
  <2>6. QED
    BY <2>5 DEF Promise!Next
<1>9. ASSUME NEW w \in Workers, Start(w) PROVE Promise!Next
  <2>1. PICK j \in Jobs :
        /\ spc' = spc /\ spc[j] = "waiting"
        /\ status[j] = "QUEUED" /\ status' = [status EXCEPT ![j] = "RUNNING"]
    BY <1>9 DEF Start, SetRunning, Placement, WorkerInv, Holds, Stage
  <2>2. Phase(j) = "asked" /\ Phase(j)' = "running" /\ status'[j] = "RUNNING"
    BY <2>1 DEF Phase, Terminal, Placement, TypeOK
  <2>3. \A k \in Jobs : k # j => Phase(k)' = Phase(k)
    BY <2>1, PhaseKept DEF Placement, TypeOK
  <2>4. \A k \in Jobs : Verdict(k)' = Verdict(k)
    BY <1>3, <1>4, <2>1, <2>2 DEF Placement, TypeOK, Terminal
  <2>5. Promise!Begin(j)
    BY <2>1, <2>2, <2>3, <2>4, MoveStep, SameVerdict DEF Promise!Begin
  <2>6. QED
    BY <2>1, <2>5 DEF Promise!Next
<1>10. ASSUME NEW w \in Workers, Record(w) PROVE Promise!Next
  <2>1. PICK j \in Jobs, v \in Outcomes :
        /\ spc' = spc /\ spc[j] = "waiting"
        /\ status[j] = "RUNNING" /\ status' = [status EXCEPT ![j] = v]
    BY <1>10 DEF Record, SetTerminal, Placement, TypeOK, WorkerInv, Holds, Stage
  <2>2. v \in Terminal /\ v \in Promise!Endings /\ status'[j] = v
    BY <2>1 DEF Terminal, Outcomes, Promise!Endings, Placement, TypeOK
  <2>3. Phase(j) = "running" /\ Phase(j)' = "ended" /\ Verdict(j)' = v
    BY <1>4, <2>1, <2>2 DEF Phase, Terminal
  <2>4. \A k \in Jobs : k # j => Phase(k)' = Phase(k) /\ Verdict(k)' = Verdict(k)
    BY <2>1, PhaseKept DEF Placement, TypeOK
  <2>5. Promise!Move(j, "running", "ended")
    BY <2>1, <2>3, <2>4, MoveStep
  <2>6. Promise!End(j)
    BY <2>1, <2>2, <2>3, <2>4, <2>5, NewVerdict DEF Promise!End
  <2>7. QED
    BY <2>1, <2>6 DEF Promise!Next
<1>11. ASSUME NEW w \in Workers,
              Take(w) \/ (\E o \in Outcomes : Execute(w, o)) \/ Count(w) \/ Answer(w)
       PROVE  UNCHANGED Promise!vars
  BY <1>2, <1>11 DEF Take, Execute, Count, Answer
<1>12. CASE Reconfigure
  BY <1>2, <1>12 DEF Reconfigure, Configure
<1>13. CASE UNCHANGED vars
  BY <1>2, <1>13 DEF vars
<1>14. QED
  BY <1>5, <1>6, <1>7, <1>8, <1>9, <1>10, <1>11, <1>12, <1>13 DEF Next, Submit, Work

(* InferenceBus.submit keeps InferencePromise for any number of jobs and   *)
(* workers: a job runs at most once, a refused job never runs, and its     *)
(* submitter is told how its own run ended.                                *)
THEOREM KeepsPromise == Spec => PromiseSpec
<1>1. Init => Promise!Init
  BY DEF Init, Promise!Init, Phase, Verdict, Terminal
<1>2. Placement /\ VerdictInv /\ VerdictInv' /\ [Next]_vars => [Promise!Next]_Promise!vars
  BY PromiseStep
<1>3. QED
  BY PlacementCorrect, VerdictIsStatus, <1>1, <1>2, PTL DEF Spec, PromiseSpec, Promise!Spec

-----------------------------------------------------------------------------
(* The counters.  Each status counter is the number of jobs that have that *)
(* status and are past the section that counts them; only a finite number  *)
(* of jobs is ever registered.                                             *)
Registered == {j \in Jobs : status[j] # "NONE"}
WithStatus(s) == {j \in Jobs : status[j] = s}
Between(j) == \/ spc[j] \in {"rejecting", "failing"}
              \/ \E w \in Workers : held[w] = j /\ wpc[w] = "recorded"
Counted(s) == {j \in Jobs : status[j] = s /\ ~Between(j)}

StatsInv ==
    /\ IsFiniteSet(Registered) /\ stats["submitted"] = Cardinality(Registered)
    /\ \A s \in Terminal : stats[CounterOf[s]] = Cardinality(Counted(s))

(* running_jobs counts the executions, unless a refusal has lowered it.    *)
RunningInv ==
    /\ running <= Cardinality(InFlight)
    /\ stats["max_running"] <= capacity
    /\ (\A j \in Jobs : ~Refused(j)) => running = Cardinality(InFlight)

(* A job in between the two sections of a refusal or of a worker is not    *)
(* counted, and one that no such step touches keeps its place.             *)
LEMMA CountedStays ==
    ASSUME UNCHANGED stats,
           \A k \in Jobs : (status'[k] = "NONE") <=> (status[k] = "NONE"),
           \A k \in Jobs, s \in Terminal :
              (status'[k] = s /\ ~Between(k)') <=> (status[k] = s /\ ~Between(k)),
           StatsInv
    PROVE  StatsInv'
<1>1. Registered' = Registered
  BY DEF Registered
<1>2. \A s \in Terminal : Counted(s)' = Counted(s)
  BY DEF Counted
<1>3. QED
  BY <1>1, <1>2 DEF StatsInv, CounterOf

(* The counter of a status, and no other, goes up with the job counted.    *)
LEMMA CountedGrows ==
    ASSUME TypeOK, StatsInv, NEW j \in Jobs, NEW s \in Terminal,
           stats' = Bump(CounterOf[s]), UNCHANGED status, status[j] = s, Between(j), ~Between(j)',
           \A k \in Jobs \ {j} : Between(k)' <=> Between(k)
    PROVE  StatsInv'
<1>1. Registered' = Registered
  BY DEF Registered
<1>2. Counted(s)' = Counted(s) \cup {j} /\ j \notin Counted(s)
  BY DEF Counted
<1>3. \A r \in Terminal : r # s => Counted(r)' = Counted(r)
  BY DEF Counted
<1>4. IsFiniteSet(Counted(s)) /\ Cardinality(Counted(s)) \in Nat
  <2>1. Counted(s) \subseteq Registered
      BY DEF Counted, Registered, Terminal
  <2>2. QED
      BY <2>1, FS_Subset, FS_CardinalityType DEF StatsInv
<1>5. Cardinality(Counted(s)') = Cardinality(Counted(s)) + 1
  BY <1>2, <1>4, FS_AddElement
<1>6. /\ \A r \in Terminal : CounterOf[r] \in Counters /\ CounterOf[r] # "submitted"
      /\ \A r \in Terminal : r # s => CounterOf[r] # CounterOf[s]
  BY DEF Terminal, CounterOf, Counters
<1>7. /\ stats'[CounterOf[s]] = stats[CounterOf[s]] + 1
      /\ \A c \in Counters : c # CounterOf[s] => stats'[c] = stats[c]
  BY <1>6 DEF Bump, TypeOK
<1>8. stats'["submitted"] = stats["submitted"]
  BY <1>6, <1>7 DEF Counters
<1>9. \A r \in Terminal : stats'[CounterOf[r]] = Cardinality(Counted(r)')
  <2>1. ASSUME NEW r \in Terminal
        PROVE  stats'[CounterOf[r]] = Cardinality(Counted(r)')
    <3>1. CASE r = s
        BY <1>5, <1>7, <3>1 DEF StatsInv
    <3>2. CASE r # s
        BY <1>3, <1>6, <1>7, <3>2 DEF StatsInv
    <3>3. QED
        BY <3>1, <3>2
  <2>2. QED
      BY <2>1
<1>10. QED
  BY <1>1, <1>8, <1>9 DEF StatsInv, CounterOf

(* The status counters keep up with the ledger.                            *)
LEMMA StatsStep ==
    ASSUME Placement, StatsInv, [Next]_vars
    PROVE  StatsInv'
<1> USE DEF Placement, control, ledger, workers, answer
<1>0. TypeOK
  OBVIOUS
<1>1. ASSUME NEW n \in 0..MaxWorkers, NEW size \in 1..MaxQueue, Configure(n, size)
      PROVE  StatsInv'
  <2>1. UNCHANGED <<stats, status, spc, held>>
      BY <1>1 DEF Configure
  <2>2. \A w \in Workers : wpc'[w] # wpc[w] => wpc[w] = "absent" /\ wpc'[w] = "idle"
      BY <1>1 DEF Configure, WorkerInv, TypeOK
  <2>3. \A k \in Jobs : Between(k)' <=> Between(k)
      BY <2>1, <2>2 DEF Between
  <2>4. QED
      BY <2>1, <2>3, CountedStays
<1>2. ASSUME NEW j \in Jobs, Register(j)
      PROVE  StatsInv'
  <2>1. /\ status[j] = "NONE" /\ status' = [status EXCEPT ![j] = "QUEUED"]
        /\ UNCHANGED <<held, wpc>> /\ spc' = [spc EXCEPT ![j] = "registered"] /\ spc[j] = "idle"
      BY <1>2 DEF Register, SubmitterInv, Submitter, Fresh
  <2>2. Registered' = Registered \cup {j} /\ j \notin Registered
      BY <2>1 DEF Registered, TypeOK
  <2>3. \A s \in Terminal : Counted(s)' = Counted(s)
      BY <2>1 DEF Counted, Between, Terminal, TypeOK
  <2>4. IsFiniteSet(Registered') /\ Cardinality(Registered') = Cardinality(Registered) + 1
      BY <2>2, FS_AddElement DEF StatsInv
  <2>5. /\ stats'["submitted"] = stats["submitted"] + 1
        /\ \A s \in Terminal : stats'[CounterOf[s]] = stats[CounterOf[s]]
      BY <1>2 DEF Register, TypeOK, Counters, CounterOf, Terminal
  <2>6. QED
      BY <2>3, <2>4, <2>5 DEF StatsInv, CounterOf
<1>3. ASSUME NEW j \in Jobs, CheckCapacity(j) \/ Enqueue(j) \/ Wake(j)
      PROVE  StatsInv'
  <2>1. /\ UNCHANGED <<stats, status, held, wpc>> /\ spc[j] \notin {"rejecting", "failing"}
        /\ \E p \in SubmitterAt \ {"rejecting", "failing"} : spc' = [spc EXCEPT ![j] = p]
      BY <1>3 DEF CheckCapacity, Enqueue, Wake, SubmitterAt
  <2>2. \A k \in Jobs : Between(k)' <=> Between(k)
      BY <2>1 DEF Between, TypeOK
  <2>3. QED
      BY <2>1, <2>2, CountedStays
<1>4. ASSUME NEW j \in Jobs, Refuse(j)
      PROVE  StatsInv'
  <2>1. /\ UNCHANGED <<stats, held, wpc>> /\ status[j] = "QUEUED" /\ spc[j] \in {"full", "unavailable"}
        /\ \E p \in {"rejecting", "failing"} : spc' = [spc EXCEPT ![j] = p]
        /\ \E s \in Terminal : status' = [status EXCEPT ![j] = s]
      BY <1>4 DEF Refuse, SetTerminal, SubmitterInv, Submitter, Fresh, Terminal
  <2>2. Between(j)' /\ \A k \in Jobs \ {j} : Between(k)' <=> Between(k)
      BY <2>1 DEF Between, TypeOK
  <2>3. /\ \A k \in Jobs \ {j} : status'[k] = status[k]
        /\ status'[j] \in Terminal
      BY <2>1 DEF TypeOK
  <2>4. QED
      BY <2>1, <2>2, <2>3, CountedStays DEF Terminal
<1>5. ASSUME NEW j \in Jobs, CountRefusal(j)
      PROVE  StatsInv'
  <2>1. /\ UNCHANGED <<status, held, wpc>> /\ spc' = [spc EXCEPT ![j] = "raised"]
        /\ \/ spc[j] = "rejecting" /\ status[j] = "REJECTED" /\ stats' = Bump("rejected")
           \/ spc[j] = "failing" /\ status[j] = "FAILED" /\ stats' = Bump("failed")
      BY <1>5 DEF CountRefusal, SubmitterInv, Submitter, Fresh
  <2>2. \A w \in Workers : ~(held[w] = j /\ wpc[w] = "recorded")
      BY <2>1 DEF WorkerInv, Holds
  <2>3. Between(j) /\ ~Between(j)' /\ \A k \in Jobs \ {j} : Between(k)' <=> Between(k)
      BY <2>1, <2>2 DEF Between, TypeOK
  <2>4. \E s \in Terminal : status[j] = s /\ stats' = Bump(CounterOf[s])
      BY <2>1 DEF Terminal, CounterOf
  <2>5. QED
      BY <1>0, <2>1, <2>3, <2>4, CountedGrows
<1>6. ASSUME NEW w \in Workers,
             Take(w) \/ Start(w) \/ (\E o \in Outcomes : Execute(w, o)) \/ Answer(w)
      PROVE  StatsInv'
  <2>1. /\ wpc[w] # "recorded" /\ UNCHANGED spc
        /\ \E p \in WorkerAt \ {"recorded"} : wpc' = [wpc EXCEPT ![w] = p]
        /\ \A v \in Workers \ {w} : held'[v] = held[v]
      BY <1>6 DEF Take, Start, Execute, Answer, WorkerAt, TypeOK
  <2>2. \A k \in Jobs : Between(k)' <=> Between(k)
      BY <2>1 DEF Between, TypeOK
  <2>3. CASE UNCHANGED <<stats, status>>
      BY <2>2, <2>3, CountedStays
  <2>4. CASE Start(w)
    <3>1. /\ held[w] \in Jobs /\ status[held[w]] = "QUEUED"
          /\ status' = [status EXCEPT ![held[w]] = "RUNNING"]
        BY <2>4 DEF Start, SetRunning, WorkerInv, Holds, Stage
    <3>2. Registered' = Registered /\ \A s \in Terminal : Counted(s)' = Counted(s)
        BY <2>2, <3>1 DEF Registered, Counted, Terminal, TypeOK
    <3>3. /\ stats'["submitted"] = stats["submitted"]
          /\ \A s \in Terminal : stats'[CounterOf[s]] = stats[CounterOf[s]]
        BY <2>4 DEF Start, SetRunning, TypeOK, Counters, CounterOf, Terminal
    <3>4. QED
        BY <3>2, <3>3 DEF StatsInv, CounterOf
  <2>5. QED
      BY <1>6, <2>3, <2>4 DEF Take, Execute, Answer
<1>7. ASSUME NEW w \in Workers, Record(w)
      PROVE  StatsInv'
  <2>1. /\ UNCHANGED <<stats, spc, held>> /\ wpc[w] = "executed"
        /\ wpc' = [wpc EXCEPT ![w] = "recorded"]
        /\ status' = [status EXCEPT ![held[w]] = outcome[w]]
      BY <1>7 DEF Record, SetTerminal
  <2>2. held[w] \in Jobs /\ status[held[w]] = "RUNNING" /\ outcome[w] \in Terminal
      BY <2>1 DEF WorkerInv, Holds, Stage, TypeOK, Outcomes, Terminal
  <2>3. Between(held[w])' /\ \A k \in Jobs \ {held[w]} : Between(k)' <=> Between(k)
      BY <2>1 DEF Between, TypeOK
  <2>4. /\ \A k \in Jobs \ {held[w]} : status'[k] = status[k]
        /\ status'[held[w]] \in Terminal
      BY <2>1, <2>2 DEF TypeOK
  <2>5. QED
      BY <2>1, <2>2, <2>3, <2>4, CountedStays DEF Terminal
<1>8. ASSUME NEW w \in Workers, Count(w)
      PROVE  StatsInv'
  <2>1. /\ UNCHANGED <<status, spc, held>> /\ wpc[w] = "recorded"
        /\ wpc' = [wpc EXCEPT ![w] = "answering"]
      BY <1>8 DEF Count
  <2>2. /\ held[w] \in Jobs /\ status[held[w]] = outcome[w] /\ spc[held[w]] = "waiting"
        /\ outcome[w] \in Outcomes
        /\ \A v \in Workers : held[v] = held[w] => v = w
      BY <2>1, BusAssumption DEF WorkerInv, Holds, Stage, TypeOK
  <2>3. /\ Between(held[w]) /\ ~Between(held[w])'
        /\ \A k \in Jobs \ {held[w]} : Between(k)' <=> Between(k)
      BY <2>1, <2>2 DEF Between, TypeOK
  <2>4. stats' = Bump(CounterOf[outcome[w]]) /\ outcome[w] \in Terminal
      BY <1>8, <2>2 DEF Count, Outcomes, CounterOf, Terminal
  <2>5. QED
      BY <1>0, <2>1, <2>2, <2>3, <2>4, CountedGrows
<1>9. CASE UNCHANGED vars
  <2>1. \A k \in Jobs : Between(k)' <=> Between(k)
      BY <1>9 DEF Between, vars
  <2>2. QED
      BY <1>9, <2>1, CountedStays DEF vars
<1>10. QED
  BY <1>1, <1>2, <1>3, <1>4, <1>5, <1>6, <1>7, <1>8, <1>9 DEF Next, Reconfigure, Submit, Work

(* Only started workers execute.                                           *)
LEMMA InFlightIs ==
    ASSUME Placement
    PROVE  /\ IsFiniteSet(InFlight) /\ Cardinality(InFlight) \in Nat
           /\ Cardinality(InFlight) <= capacity
<1>1. capacity \in Nat
  BY BusAssumption DEF Placement, TypeOK
<1>2. InFlight \subseteq 1..capacity
  BY <1>1, BusAssumption DEF InFlight, Workers, WorkerInv, Placement
<1>3. IsFiniteSet(1..capacity) /\ Cardinality(1..capacity) = capacity
  BY <1>1, FS_Interval
<1>4. QED
  BY <1>1, <1>2, <1>3, FS_Subset, FS_CardinalityType

(* A refusal is never undone: who was refused stays refused.               *)
LEMMA RefusedStays ==
    ASSUME Placement, [Next]_vars, NEW j \in Jobs, Refused(j)
    PROVE  Refused(j)'
<1> USE DEF Placement, control, ledger, workers, answer
<1>1. ASSUME NEW i \in Jobs, Submit(i)
      PROVE  Refused(j)'
  <2>1. \/ spc'[j] = spc[j] \/ i = j
      BY <1>1 DEF Submit, Register, CheckCapacity, Enqueue, Refuse, CountRefusal, Wake, TypeOK
  <2>2. UNCHANGED failure
      BY <1>1 DEF Submit, Register, CheckCapacity, Enqueue, Refuse, CountRefusal, Wake
  <2>3. CASE i = j
    <3>1. CountRefusal(j)
        BY <1>1, <2>3 DEF Refused, Submit, Register, CheckCapacity, Enqueue, Refuse, Wake
    <3>2. spc'[j] = "raised" /\ failure[j] = "None"
        BY <3>1 DEF CountRefusal, SubmitterInv, Submitter, Fresh, TypeOK
    <3>3. QED
        BY <2>2, <3>2 DEF Refused
  <2>4. QED
      BY <2>1, <2>2, <2>3 DEF Refused
<1>2. ASSUME NEW w \in Workers, Work(w)
      PROVE  Refused(j)'
  <2>1. UNCHANGED spc
      BY <1>2 DEF Work, Take, Start, Execute, Record, Count, Answer
  <2>2. failure'[j] = failure[j]
    <3>1. CASE Count(w)
      <4>1. held[w] # j
          BY <3>1 DEF Count, WorkerInv, Holds, Refused
      <4>2. QED
          BY <3>1, <4>1 DEF Count, TypeOK
    <3>2. CASE ~Count(w)
        BY <1>2, <3>2 DEF Work, Take, Start, Execute, Record, Answer
    <3>3. QED
        BY <3>1, <3>2
  <2>3. QED
      BY <2>1, <2>2 DEF Refused
<1>3. CASE Reconfigure \/ UNCHANGED vars
  BY <1>3 DEF Reconfigure, Configure, vars, Refused
<1>4. QED
  BY <1>1, <1>2, <1>3 DEF Next

(* A step that neither starts nor ends an execution.                       *)
LEMMA RunningStays ==
    ASSUME RunningInv, UNCHANGED <<running, InFlight>>,
           stats'["max_running"] = stats["max_running"],
           capacity \in Nat, capacity' \in Nat, capacity <= capacity', stats["max_running"] \in Nat,
           \A j \in Jobs : Refused(j) => Refused(j)'
    PROVE  RunningInv'
BY DEF RunningInv

(* running_jobs keeps up with the workers.                                 *)
LEMMA RunningStep ==
    ASSUME Placement, Placement', RunningInv, [Next]_vars
    PROVE  RunningInv'
<1> DEFINE N == Cardinality(InFlight)
<1>1. /\ TypeOK /\ capacity \in Nat /\ capacity' \in Nat /\ running \in Nat
      /\ stats \in [Counters -> Nat] /\ "max_running" \in Counters
      /\ wpc \in [Workers -> WorkerAt]
  <2>1. TypeOK /\ TypeOK'
      BY DEF Placement
  <2>2. capacity \in 0..MaxWorkers /\ capacity' \in 0..MaxWorkers
      BY <2>1 DEF TypeOK
  <2>3. capacity \in Nat /\ capacity' \in Nat
      BY <2>2, BusAssumption
  <2>4. /\ running \in Nat /\ stats \in [Counters -> Nat]
        /\ wpc \in [Workers -> WorkerAt]
      BY <2>1 DEF TypeOK
  <2>5. "max_running" \in Counters
      BY DEF Counters
  <2>6. QED
      BY <2>1, <2>3, <2>4, <2>5
<1>2. IsFiniteSet(InFlight) /\ N \in Nat /\ N <= capacity
  BY InFlightIs
<1>3. IsFiniteSet(InFlight') /\ Cardinality(InFlight') \in Nat
  <2>1. capacity' \in Nat /\ InFlight' \subseteq 1..capacity'
      BY <1>1, BusAssumption DEF InFlight, Workers, WorkerInv, Placement
  <2>2. IsFiniteSet(1..capacity')
      BY <2>1, FS_Interval
  <2>3. QED
      BY <2>1, <2>2, FS_Subset, FS_CardinalityType
<1>4. \A j \in Jobs : Refused(j) => Refused(j)'
  BY RefusedStays
<1>5. stats["max_running"] \in Nat
  BY <1>1
<1> USE DEF control, ledger, workers, answer
<1>6. ASSUME NEW n \in 0..MaxWorkers, NEW size \in 1..MaxQueue, Configure(n, size)
      PROVE  RunningInv'
  <2>1. capacity <= capacity' /\ UNCHANGED <<running, stats>>
      BY <1>1, <1>6 DEF Configure, BMax
  <2>2. \A w \in Workers : wpc'[w] # wpc[w] => wpc[w] = "absent" /\ wpc'[w] = "idle"
      BY <1>1, <1>6 DEF Configure, WorkerInv, Placement
  <2>3. InFlight' = InFlight
      BY <2>2 DEF InFlight
  <2>4. QED
      BY <1>1, <1>4, <1>5, <2>1, <2>3, RunningStays
<1>7. ASSUME NEW j \in Jobs, Submit(j), ~Refuse(j)
      PROVE  RunningInv'
  <2>1. UNCHANGED <<running, wpc, capacity>> /\ stats'["max_running"] = stats["max_running"]
      BY <1>1, <1>7 DEF Submit, Register, CheckCapacity, Enqueue, CountRefusal, Wake, Bump, Counters
  <2>2. InFlight' = InFlight
      BY <2>1 DEF InFlight
  <2>3. QED
      BY <1>1, <1>4, <1>5, <2>1, <2>2, RunningStays
<1>8. ASSUME NEW j \in Jobs, Refuse(j)
      PROVE  RunningInv'
  <2>1. UNCHANGED <<wpc, capacity, stats>> /\ (running' = running \/ running' = running - 1)
      BY <1>8 DEF Refuse, SetTerminal
  <2>2. InFlight' = InFlight
      BY <2>1 DEF InFlight
  <2>3. Refused(j)'
      BY <1>8 DEF Refuse, Refused, Placement, TypeOK
  <2>4. running' <= N
      BY <1>1, <1>2, <2>1 DEF RunningInv
  <2>5. QED
      BY <2>1, <2>2, <2>3, <2>4 DEF RunningInv
<1>9. ASSUME NEW w \in Workers, Take(w) \/ (\E o \in Outcomes : Execute(w, o)) \/ Count(w) \/ Answer(w)
      PROVE  RunningInv'
  <2>1. UNCHANGED <<running, capacity>> /\ stats'["max_running"] = stats["max_running"]
    <3>1. CASE Count(w)
      <4>1. outcome[w] \in Outcomes
          BY <1>1 DEF TypeOK
      <4>2. PICK c \in Counters \ {"max_running"} : stats' = [stats EXCEPT ![c] = @ + 1]
          BY <3>1, <4>1 DEF Count, Bump, Outcomes, Counters
      <4>3. stats'["max_running"] = stats["max_running"]
          BY <1>1, <4>2
      <4>4. QED
          BY <3>1, <4>3 DEF Count
    <3>2. CASE UNCHANGED <<running, capacity, stats>>
        BY <3>2
    <3>3. QED
        BY <1>9, <3>1, <3>2 DEF Take, Execute, Answer
  <2>2. /\ \/ wpc[w] = "executing" /\ wpc' = [wpc EXCEPT ![w] = "executed"]
           \/ /\ wpc[w] \notin {"executing", "executed"}
              /\ \E p \in WorkerAt \ {"executing", "executed"} : wpc' = [wpc EXCEPT ![w] = p]
      BY <1>9 DEF Take, Execute, Count, Answer, WorkerAt
  <2>3. InFlight' = InFlight
      BY <1>1, <2>2 DEF InFlight
  <2>4. QED
      BY <1>1, <1>4, <1>5, <2>1, <2>3, RunningStays
<1>10. ASSUME NEW w \in Workers, Start(w)
       PROVE  RunningInv'
  <2>1. /\ wpc[w] = "got" /\ wpc' = [wpc EXCEPT ![w] = "executing"] /\ running' = running + 1
        /\ stats' = [stats EXCEPT !["max_running"] = BMax(@, running + 1)]
        /\ UNCHANGED capacity
      BY <1>10 DEF Start, SetRunning
  <2>2. InFlight' = InFlight \cup {w} /\ w \notin InFlight
      BY <1>1, <2>1 DEF InFlight
  <2>3. Cardinality(InFlight') = N + 1
      BY <1>2, <2>2, FS_AddElement
  <2>4. Cardinality(InFlight') <= capacity'
    <3>1. InFlight' \subseteq 1..capacity'
        BY <1>1, BusAssumption DEF InFlight, Workers, WorkerInv, Placement
    <3>2. IsFiniteSet(1..capacity') /\ Cardinality(1..capacity') = capacity'
        BY <1>1, FS_Interval
    <3>3. QED
        BY <1>1, <3>1, <3>2, FS_Subset
  <2>5. running + 1 <= capacity'
      BY <1>1, <1>2, <2>3, <2>4 DEF RunningInv
  <2>6. stats'["max_running"] = BMax(stats["max_running"], running + 1)
      BY <1>1, <2>1
  <2>7. stats'["max_running"] <= capacity'
      BY <1>1, <1>5, <2>1, <2>5, <2>6 DEF BMax, RunningInv
  <2>8. running' <= Cardinality(InFlight') /\ (running = N => running' = Cardinality(InFlight'))
      BY <1>1, <1>2, <2>1, <2>3 DEF RunningInv
  <2>9. QED
      BY <1>4, <2>7, <2>8 DEF RunningInv
<1>11. ASSUME NEW w \in Workers, Record(w)
       PROVE  RunningInv'
  <2>1. /\ wpc[w] = "executed" /\ wpc' = [wpc EXCEPT ![w] = "recorded"]
        /\ UNCHANGED <<capacity, stats>> /\ held[w] \in Jobs
        /\ started' = [started EXCEPT ![held[w]] = TRUE]
        /\ running' = IF running > 0 /\ started'[held[w]] THEN running - 1 ELSE running
      BY <1>11 DEF Record, SetTerminal, WorkerInv, Holds, Placement
  <2>2. started'[held[w]]
      BY <2>1 DEF Placement, TypeOK
  <2>3. InFlight' = InFlight \ {w} /\ w \in InFlight
      BY <1>1, <2>1 DEF InFlight
  <2>4. Cardinality(InFlight') = N - 1
      BY <1>2, <2>3, FS_RemoveElement
  <2>5. running' = IF running > 0 THEN running - 1 ELSE running
      BY <2>1, <2>2
  <2>6. running' <= Cardinality(InFlight') /\ (running = N => running' = Cardinality(InFlight'))
      BY <1>1, <1>2, <1>3, <2>4, <2>5 DEF RunningInv
  <2>7. QED
      BY <1>4, <2>1, <2>6 DEF RunningInv
<1>12. CASE UNCHANGED vars
  BY <1>12 DEF vars, RunningInv, InFlight, Refused
<1>13. QED
  BY <1>6, <1>7, <1>8, <1>9, <1>10, <1>11, <1>12 DEF Next, Reconfigure, Work

(* The inductive invariant of the counters.                                *)
LEMMA CountersHold == Spec => [](StatsInv /\ RunningInv)
<1>1. Init => StatsInv /\ RunningInv
  <2>1. SUFFICES ASSUME Init
                 PROVE  StatsInv /\ RunningInv
      OBVIOUS
  <2>2. Registered = {} /\ InFlight = {} /\ \A s \in Terminal : Counted(s) = {}
      BY <2>1 DEF Init, Registered, InFlight, Counted, Terminal
  <2>3. IsFiniteSet({}) /\ Cardinality({}) = 0
      BY FS_EmptySet
  <2>4. \A s \in Terminal : CounterOf[s] \in Counters
      BY DEF Terminal, CounterOf, Counters
  <2>5. \A c \in Counters : stats[c] = 0
      BY <2>1 DEF Init
  <2>6. StatsInv
    <3>1. "submitted" \in Counters
        BY DEF Counters
    <3>2. stats["submitted"] = 0 /\ \A s \in Terminal : stats[CounterOf[s]] = 0
        BY <2>4, <2>5, <3>1
    <3>3. QED
        BY <2>2, <2>3, <3>2 DEF StatsInv
  <2>7. RunningInv
    <3>1. "max_running" \in Counters /\ capacity = 0 /\ running = 0
        BY <2>1 DEF Init, Counters
    <3>2. stats["max_running"] = 0
        BY <2>5, <3>1
    <3>3. QED
        BY <2>2, <2>3, <3>1, <3>2 DEF RunningInv
  <2>8. QED
      BY <2>6, <2>7
<1>2. /\ Placement /\ Placement' /\ StatsInv /\ RunningInv /\ [Next]_vars
      => (StatsInv /\ RunningInv)'
  BY StatsStep, RunningStep
<1>3. QED
  BY <1>1, <1>2, PlacementCorrect, PTL DEF Spec

(* The counters and the ledger are written in separate locked sections     *)
(* (inference_bus.py:268 and the callers of _set_terminal_state), yet no   *)
(* job is counted twice or missed, and running_jobs never claims more than *)
(* the executions.                                                         *)
THEOREM CountersCorrect == Spec => []CountersMatchLedger
<1>1. Placement /\ StatsInv /\ RunningInv => CountersMatchLedger
  <2>1. SUFFICES ASSUME Placement, StatsInv, RunningInv
                 PROVE  CountersMatchLedger
      OBVIOUS
  <2>2. stats["submitted"] = Cardinality({j \in Jobs : status[j] # "NONE"})
      BY <2>1 DEF StatsInv, Registered
  <2>3. ASSUME NEW s \in Terminal
        PROVE  stats[CounterOf[s]] + Cardinality(Uncounted(s))
                 = Cardinality({j \in Jobs : status[j] = s})
    <3>1. Uncounted(s) = {j \in WithStatus(s) : Between(j)}
        BY DEF Uncounted, WithStatus, Between
    <3>2. /\ Counted(s) \cup Uncounted(s) = WithStatus(s)
          /\ Counted(s) \cap Uncounted(s) = {}
        BY <3>1 DEF Counted, WithStatus
    <3>3. Counted(s) \subseteq Registered /\ Uncounted(s) \subseteq Registered
        BY <3>1 DEF Counted, WithStatus, Registered, Terminal
    <3>4. /\ IsFiniteSet(Counted(s)) /\ Cardinality(Counted(s)) \in Nat
          /\ IsFiniteSet(Uncounted(s)) /\ Cardinality(Uncounted(s)) \in Nat
        BY <2>1, <3>3, FS_Subset, FS_CardinalityType DEF StatsInv
    <3>5. Cardinality(WithStatus(s))
            = Cardinality(Counted(s)) + Cardinality(Uncounted(s))
        BY <3>2, <3>4, FS_Union, FS_EmptySet
    <3>6. QED
        BY <2>1, <3>4, <3>5 DEF StatsInv, WithStatus
  <2>4. RunningCountsExecutions
      BY <2>1 DEF RunningInv, RunningCountsExecutions
  <2>5. QED
      BY <2>2, <2>3, <2>4 DEF CountersMatchLedger
<1>2. QED
  BY <1>1, CountersHold, PlacementCorrect, PTL
=============================================================================
