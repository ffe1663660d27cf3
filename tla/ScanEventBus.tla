---------------------------- MODULE ScanEventBus ----------------------------
(***************************************************************************)
(* runtime/runtime/scan_event_bus.py: the in-process bus that mirrors the  *)
(* events of scans and inference jobs to websocket clients.  A publisher   *)
(* appends its event to a bounded list of recent events and copies the     *)
(* list of subscribers under one lock, then delivers outside it; a new     *)
(* subscriber is registered and copies the recent events under the same    *)
(* lock, then replays them into its own queue outside it.  A delivery to a *)
(* full queue drops the oldest entry in two further queue operations.      *)
(*                                                                         *)
(* A publisher is a thread that publishes the events of one run, so the    *)
(* pair <<publisher, n>> stands for its n-th event and the filter of a     *)
(* subscriber is the set of publishers it wants.  An event that            *)
(* _normalize_event refuses reaches none of these steps.                   *)
(***************************************************************************)
EXTENDS Lists, FiniteSets

CONSTANTS
    Publishers, Subscribers,
    Wants,          \* Wants[s]: the publishers whose events s subscribes to
    EventsEach,     \* bound: how many events a publisher publishes
    MaxRecent,      \* max_recent
    QueueSize       \* subscriber_queue_size

ASSUME EventBusAssumption ==
    /\ Publishers \cap Subscribers = {}
    /\ Wants \in [Subscribers -> SUBSET Publishers]
    /\ EventsEach \in Nat
    /\ MaxRecent \in Nat
    /\ QueueSize \in Nat \ {0}

Threads == Publishers \cup Subscribers
Events == Publishers \X (1..EventsEach)
NoEvent == <<>>

VARIABLES
    recent,       \* self._recent
    subscribers,  \* self._subscribers, in registration order
    queue,        \* the queue.Queue of each subscriber
    published,    \* how many events a publisher has published
    state,        \* of a subscriber: "new", "replaying", "reading" or "gone"
    todo,         \* deliveries a thread still has to make: <<subscriber, event>>
    phase,        \* inside _put_nonblocking of the first of them
    seen,         \* history: what a subscriber has read from its queue
    overflowed,   \* history: some delivery found this subscriber's queue full
    replayed,     \* history: the recent events a subscriber copied
    live          \* history: matching events published after it registered

vars == <<recent, subscribers, queue, published, state, todo, phase,
          seen, overflowed, replayed, live>>

Phases == {"put", "evict", "retry"}

Init ==
    /\ recent = <<>> /\ subscribers = <<>>
    /\ queue = [s \in Subscribers |-> <<>>]
    /\ published = [p \in Publishers |-> 0]
    /\ state = [s \in Subscribers |-> "new"]
    /\ todo = [t \in Threads |-> <<>>]
    /\ phase = [t \in Threads |-> "put"]
    /\ seen = [s \in Subscribers |-> <<>>]
    /\ overflowed = [s \in Subscribers |-> FALSE]
    /\ replayed = [s \in Subscribers |-> {}]
    /\ live = [s \in Subscribers |-> {}]

Matches(s, e) == e[1] \in Wants[s]
Takers(e) == {s \in Subscribers : Matches(s, e)}
Wanted(s) == {e \in Events : Matches(s, e)}

\* Bug: the list of recent events keeps one too many.
TrimLate(s) == IF Len(s) > MaxRecent + 1 THEN Tail(s) ELSE s

\* del self._recent[: len - max_recent]
Trim(s) == IF Len(s) > MaxRecent THEN SubSeq(s, Len(s) - MaxRecent + 1, Len(s)) ELSE s

-----------------------------------------------------------------------------
(* Bug: the first subscriber that does not match ends the loop (`break`).  *)
PublishBreaks(p) ==
    LET e == <<p, published[p] + 1>>
        to == Keep(subscribers, Takers(e))
        reached == IF to # <<>> /\ Head(subscribers) = Head(to) THEN <<Head(to)>> ELSE <<>>
    IN  /\ published[p] < EventsEach
        /\ todo[p] = <<>>
        /\ published' = [published EXCEPT ![p] = @ + 1]
        /\ recent' = IF MaxRecent > 0 THEN Trim(Append(recent, e)) ELSE recent
        /\ todo' = [todo EXCEPT ![p] = [i \in DOMAIN reached |-> <<reached[i], e>>]]
        /\ live' = [s \in Subscribers |->
                      IF s \in Items(to) THEN live[s] \cup {e} ELSE live[s]]
        /\ UNCHANGED <<subscribers, queue, state, phase, seen, overflowed, replayed>>

(* publish(): the locked part.  The filter is applied while delivering; a  *)
(* subscriber that does not match is passed over without a step.           *)
Publish(p) ==
    LET e == <<p, published[p] + 1>>
        to == Keep(subscribers, Takers(e))
    IN  /\ published[p] < EventsEach
        /\ todo[p] = <<>>
        /\ published' = [published EXCEPT ![p] = @ + 1]
        /\ recent' = IF MaxRecent > 0 THEN Trim(Append(recent, e)) ELSE recent
        /\ todo' = [todo EXCEPT ![p] = [i \in DOMAIN to |-> <<to[i], e>>]]
        /\ live' = [s \in Subscribers |->
                      IF s \in Items(to) THEN live[s] \cup {e} ELSE live[s]]
        /\ UNCHANGED <<subscribers, queue, state, phase, seen, overflowed, replayed>>

(* Bug: the recent events are replayed newest first.                       *)
SubscribeNewestFirst(s) ==
    LET copy == Keep(recent, Wanted(s))
    IN  /\ state[s] = "new"
        /\ subscribers' = Append(subscribers, s)
        /\ todo' = [todo EXCEPT ![s] =
                      [i \in DOMAIN copy |-> <<s, copy[Len(copy) + 1 - i]>>]]
        /\ state' = [state EXCEPT ![s] = "replaying"]
        /\ replayed' = [replayed EXCEPT ![s] = Items(copy)]
        /\ UNCHANGED <<recent, queue, published, phase, seen, overflowed, live>>

(* subscribe(): registration and copy of the recent events, one section.   *)
Subscribe(s) ==
    LET copy == Keep(recent, Wanted(s))
    IN  /\ state[s] = "new"
        /\ subscribers' = Append(subscribers, s)
        /\ todo' = [todo EXCEPT ![s] = [i \in DOMAIN copy |-> <<s, copy[i]>>]]
        /\ state' = [state EXCEPT ![s] = "replaying"]
        /\ replayed' = [replayed EXCEPT ![s] = Items(copy)]
        /\ UNCHANGED <<recent, queue, published, phase, seen, overflowed, live>>

\* subscribe() returns the queue once the replay is in it.
Subscribed(s) ==
    /\ state[s] = "replaying"
    /\ todo[s] = <<>>
    /\ state' = [state EXCEPT ![s] = "reading"]
    /\ UNCHANGED <<recent, subscribers, queue, published, todo, phase, seen,
                   overflowed, replayed, live>>

\* unsubscribe(): deliveries already under way still reach the old queue.
Unsubscribe(s) ==
    /\ state[s] = "reading"
    /\ subscribers' = Keep(subscribers, Subscribers \ {s})
    /\ state' = [state EXCEPT ![s] = "gone"]
    /\ UNCHANGED <<recent, queue, published, todo, phase, seen, overflowed, replayed, live>>

-----------------------------------------------------------------------------
(* _put_nonblocking(queue, event) for the first delivery of thread t.      *)
Target(t) == Head(todo[t])[1]
Delivered(t) ==
    /\ todo' = [todo EXCEPT ![t] = Tail(@)]
    /\ phase' = [phase EXCEPT ![t] = "put"]

Room(s) == Len(queue[s]) < QueueSize
PutHead(t) == queue' = [queue EXCEPT ![Target(t)] = Append(@, Head(todo[t])[2])]

\* Bug: no return after a successful put, so the drop-oldest branch runs too.
PutFallsThrough(t) ==
    /\ todo[t] # <<>> /\ phase[t] = "put"
    /\ IF Room(Target(t)) THEN PutHead(t) ELSE UNCHANGED queue
    /\ phase' = [phase EXCEPT ![t] = "evict"]
    /\ UNCHANGED <<recent, subscribers, published, state, todo, seen, overflowed,
                   replayed, live>>

\* Bug: a delivery to a full queue waits for the reader.
PutBlocks(t) ==
    /\ todo[t] # <<>> /\ phase[t] = "put"
    /\ Room(Target(t))
    /\ PutHead(t)
    /\ Delivered(t)
    /\ UNCHANGED <<recent, subscribers, published, state, seen, overflowed,
                   replayed, live>>

\* queue.put_nowait(event)
Put(t) ==
    /\ todo[t] # <<>> /\ phase[t] = "put"
    /\ \/ /\ Room(Target(t))
          /\ PutHead(t)
          /\ Delivered(t)
          /\ UNCHANGED overflowed
       \/ /\ ~Room(Target(t))
          /\ phase' = [phase EXCEPT ![t] = "evict"]
          /\ overflowed' = [overflowed EXCEPT ![Target(t)] = TRUE]
          /\ UNCHANGED <<queue, todo>>
    /\ UNCHANGED <<recent, subscribers, published, state, seen, replayed, live>>

\* queue.get_nowait(): if the reader emptied the queue meanwhile, Empty is
\* raised and the event is given up.
Evict(t) ==
    /\ todo[t] # <<>> /\ phase[t] = "evict"
    /\ \/ /\ queue[Target(t)] # <<>>
          /\ queue' = [queue EXCEPT ![Target(t)] = Tail(@)]
          /\ phase' = [phase EXCEPT ![t] = "retry"]
          /\ UNCHANGED todo
       \/ /\ queue[Target(t)] = <<>>
          /\ Delivered(t)
          /\ UNCHANGED queue
    /\ UNCHANGED <<recent, subscribers, published, state, seen, overflowed, replayed, live>>

\* queue.put_nowait(event): if another thread took the room, give the event up.
Retry(t) ==
    /\ todo[t] # <<>> /\ phase[t] = "retry"
    /\ IF Room(Target(t)) THEN PutHead(t) ELSE UNCHANGED queue
    /\ Delivered(t)
    /\ UNCHANGED <<recent, subscribers, published, state, seen, overflowed, replayed, live>>

Deliver(t) == Put(t) \/ Evict(t) \/ Retry(t)

\* The websocket handler reads its queue.
Read(s) ==
    /\ state[s] = "reading"
    /\ queue[s] # <<>>
    /\ seen' = [seen EXCEPT ![s] = Append(@, Head(queue[s]))]
    /\ queue' = [queue EXCEPT ![s] = Tail(@)]
    /\ UNCHANGED <<recent, subscribers, published, state, todo, phase,
                   overflowed, replayed, live>>

-----------------------------------------------------------------------------
Next ==
    \/ \E p \in Publishers : Publish(p) \/ Deliver(p)
    \/ \E s \in Subscribers :
          Subscribe(s) \/ Deliver(s) \/ Subscribed(s) \/ Unsubscribe(s) \/ Read(s)

Spec == Init /\ [][Next]_vars

(* Threads inside publish or subscribe run on; nobody has to read.         *)
FairSpec == /\ Spec
            /\ \A t \in Threads : WF_vars(Deliver(t))
            /\ \A s \in Subscribers : WF_vars(Subscribed(s))
-----------------------------------------------------------------------------
TypeOK ==
    /\ recent \in Seq(Events) /\ Len(recent) <= MaxRecent
    /\ subscribers \in Seq(Subscribers)
    /\ queue \in [Subscribers -> Seq(Events)]
    /\ \A s \in Subscribers : Len(queue[s]) <= QueueSize
    /\ published \in [Publishers -> 0..EventsEach]
    /\ state \in [Subscribers -> {"new", "replaying", "reading", "gone"}]
    /\ todo \in [Threads -> Seq(Subscribers \X Events)]
    /\ phase \in [Threads -> Phases]
    /\ seen \in [Subscribers -> Seq(Events)]
    /\ overflowed \in [Subscribers -> BOOLEAN]
    /\ replayed \in [Subscribers -> SUBSET Events]
    /\ live \in [Subscribers -> SUBSET Events]

Got(s) == seen[s] \o queue[s]
UnderWay(t, s) == {todo[t][i][2] : i \in {k \in DOMAIN todo[t] : todo[t][k][1] = s}}
Owed(s) == replayed[s] \cup live[s]

(* No subscriber gets an event twice, neither through replay and delivery  *)
(* (registration and copy are one section) nor through the retried put,    *)
(* and none gets an event it did not ask for.                              *)
EachEventOnce ==
    \A s \in Subscribers :
        /\ \A i, k \in DOMAIN Got(s) : Got(s)[i] = Got(s)[k] => i = k
        /\ Items(Got(s)) \subseteq Owed(s)
        /\ \A t \in Threads : UnderWay(t, s) \cap Items(Got(s)) = {}
        /\ \A t, u \in Threads : t # u => UnderWay(t, s) \cap UnderWay(u, s) = {}

(* An event is lost only for a subscriber whose queue some delivery found  *)
(* full: until then every matching event is read, queued or under way,     *)
(* from the recent events copied at registration on.                       *)
LostOnlyByOverflow ==
    \A s \in Subscribers : ~overflowed[s] =>
        Owed(s) = Items(Got(s)) \cup UNION {UnderWay(t, s) : t \in Threads}

(* The events of one publisher stay in order among the replayed ones and   *)
(* among the live ones, evictions and racing publishers included.  (A live *)
(* event may overtake the replay of an older one.)                         *)
OrderedPerPublisher ==
    \A s \in Subscribers : \A i, k \in DOMAIN Got(s) :
        LET e == Got(s)[i]
            f == Got(s)[k]
        IN  i < k /\ e[1] = f[1] /\ (e \in live[s] <=> f \in live[s]) => e[2] < f[2]

(* Publishing and subscribing never wait for a reader.                     *)
DeliveryEnds == \A t \in Threads : todo[t] # <<>> ~> todo[t] = <<>>
=============================================================================
