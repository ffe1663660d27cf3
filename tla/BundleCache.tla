----------------------------- MODULE BundleCache -----------------------------
(***************************************************************************)
(* runtime/runtime/scan_runtime.py: the market snapshots of one scan run.  *)
(* A pool of threads runs a fetch task per interval; each asks for the     *)
(* bundle of its interval and, for the trend, for that of the next higher  *)
(* one.  Whoever finds a bundle neither stored nor in flight fetches it,   *)
(* the others wait for an event and look again.  The leader sets the event *)
(* under one lock and stores the bundle under the next.                    *)
(*                                                                         *)
(* Steps are the sections under cache_lock.  An event is known by the task *)
(* that registered it: setting it releases the tasks that wait on it.      *)
(***************************************************************************)
EXTENDS Integers, FiniteSets

CONSTANTS
    Intervals,     \* the fetch tasks of a symbol
    HigherOf,      \* HTF_MAP, a function to the interval of the trend
    PoolSize       \* threads of the fetch pool

Keys == Intervals \union {HigherOf[i] : i \in Intervals}
Nobody == "nobody"

ASSUME BundleAssumption ==
    PoolSize \in Nat \ {0} /\ DOMAIN HigherOf = Intervals /\ Nobody \notin Intervals

VARIABLES
    stored,   \* keys in market_bundle_cache
    inflight, \* market_bundle_inflight, from key to the task that registered it
    trends,   \* keys in htf_trend_cache
    task      \* where each task is, which key it wants, whose event it awaits

bundle_vars == <<stored, inflight, trends, task>>

BundleInit ==
    /\ stored = {} /\ trends = {}
    /\ inflight = [k \in Keys |-> Nobody]
    /\ task = [i \in Intervals |-> [at |-> "queued", key |-> i, awaits |-> Nobody]]

Running == {i \in Intervals : task[i].at \notin {"queued", "done", "failed"}}
Move(i, place) == task' = [task EXCEPT ![i].at = place]

-----------------------------------------------------------------------------
\* The pool takes up a task.
Begin(i) ==
    /\ task[i].at = "queued" /\ Cardinality(Running) < PoolSize
    /\ Move(i, "look")
    /\ UNCHANGED <<stored, inflight, trends>>

\* A stop, or the time-out of the fetch, cancels a task that has not begun.
Cancel(i) ==
    /\ task[i].at = "queued"
    /\ Move(i, "failed")
    /\ UNCHANGED <<stored, inflight, trends>>

\* With its own bundle, a task turns to the trend; with that one it is done.
Proceed(i) ==
    IF task[i].key = i THEN [task[i] EXCEPT !.at = "trend", !.key = HigherOf[i]]
    ELSE [task[i] EXCEPT !.at = "resolve"]

\* _get_market_snapshot_cached(): stored, or to be fetched, or awaited.
LookUp(i) ==
    LET k == task[i].key
    IN  /\ task[i].at = "look"
        /\ IF k \in stored
           THEN task' = [task EXCEPT ![i] = Proceed(i)] /\ UNCHANGED inflight
           ELSE IF inflight[k] = Nobody
           THEN Move(i, "fetch") /\ inflight' = [inflight EXCEPT ![k] = i]
           ELSE /\ task' = [task EXCEPT ![i].at = "wait", ![i].awaits = inflight[k]]
                /\ UNCHANGED inflight
        /\ UNCHANGED <<stored, trends>>

\* Bug: who waited for a leader fetches without another look.
FetchesNext(u) == [u EXCEPT !.at = "fetch", !.awaits = Nobody]

\* The event is set: who waits for it looks again.
Released(u) == [u EXCEPT !.at = "look", !.awaits = Nobody]

\* Bug: only a success releases the waiters.
ReleasesOnSuccess(i, ok) ==
    [j \in Intervals |-> IF ok /\ task[j].awaits = i THEN Released(task[j]) ELSE task[j]]

Releases(i, ok) ==
    [j \in Intervals |-> IF task[j].awaits = i THEN Released(task[j]) ELSE task[j]]

\* The request ends, well or not, and the waiters of its event are released.
\* A trend that cannot be had is given up, a bundle of its own fails the task.
GiveUpOn(i) == IF task[i].key = i THEN "failed" ELSE "done"

EndFetch(i) ==
    LET k == task[i].key
    IN  /\ task[i].at = "fetch"
        /\ \E ok \in BOOLEAN :
              task' = [Releases(i, ok) EXCEPT ![i].at = IF ok THEN "store" ELSE GiveUpOn(i)]
        /\ inflight' = [inflight EXCEPT ![k] = Nobody]
        /\ UNCHANGED <<stored, trends>>

Store(i) ==
    /\ task[i].at = "store"
    /\ stored' = stored \union {task[i].key}
    /\ task' = [task EXCEPT ![i] = Proceed(i)]
    /\ UNCHANGED <<inflight, trends>>

\* _resolve_htf_trend(): first the trends already known, then the bundle.
LookUpTrend(i) ==
    /\ task[i].at = "trend"
    /\ Move(i, IF task[i].key \in trends THEN "done" ELSE "look")
    /\ UNCHANGED <<stored, inflight, trends>>

StoreTrend(i) ==
    /\ task[i].at = "resolve"
    /\ trends' \in {trends, trends \union {task[i].key}}
    /\ Move(i, "done")
    /\ UNCHANGED <<stored, inflight>>

-----------------------------------------------------------------------------
Works(i) ==
    Begin(i) \/ LookUp(i) \/ EndFetch(i) \/ Store(i) \/ LookUpTrend(i) \/ StoreTrend(i)

BundleNext == \E i \in Intervals : Works(i) \/ Cancel(i)

\* The threads of the pool run and requests to the exchange end.
BundleFairness == \A i \in Intervals : WF_bundle_vars(Works(i))
BundleSpec == BundleInit /\ [][BundleNext]_bundle_vars /\ BundleFairness

-----------------------------------------------------------------------------
Places == {"queued", "look", "wait", "fetch", "store", "trend", "resolve", "done", "failed"}

(* Maps and tasks have their types; no task waits for itself.              *)
BundleTypeOK ==
    /\ stored \subseteq Keys /\ trends \subseteq Keys
    /\ inflight \in [Keys -> Intervals \union {Nobody}]
    /\ task \in [Intervals -> [at : Places, key : Keys, awaits : Intervals \union {Nobody}]]
    /\ \A i \in Intervals :
          /\ task[i].key \in {i, HigherOf[i]}
          /\ task[i].at = "wait" <=> task[i].awaits # Nobody
          /\ task[i].awaits # i

(* No key is fetched by two tasks at once, although the event is set       *)
(* before the bundle is stored.                                            *)
OneFetchAtATime ==
    \A i, j \in Intervals :
        task[i].at = "fetch" /\ task[j].at = "fetch" /\ task[i].key = task[j].key => i = j

(* Once the pool runs a fetch task, all of them end, even if requests fail *)
(* and although the tasks that wait for a leader hold threads of the pool. *)
FetchTasksEnd ==
    Running # {} ~> \A i \in Intervals : task[i].at \in {"done", "failed"}
=============================================================================
