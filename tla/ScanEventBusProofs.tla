------------------------- MODULE ScanEventBusProofs -------------------------
(***************************************************************************)
(* Proofs about ScanEventBus: types, and the promises of the bus to each   *)
(* subscriber, for any publishers, subscribers and bounds.  The invariant  *)
(* says of the deliveries under way what the promises say of the queue:    *)
(* what a thread still has to deliver was not delivered before, and comes  *)
(* later in the order.                                                     *)
(***************************************************************************)
EXTENDS ScanEventBus, ListFacts

-----------------------------------------------------------------------------
(* Types.                                                                  *)

(* publish() cuts old events off the recent ones, and keeps their order.   *)
LEMMA TrimIs ==
    ASSUME NEW l \in Seq(Events), Len(l) <= MaxRecent + 1
    PROVE  /\ Trim(l) \in Seq(Events) /\ Len(Trim(l)) <= MaxRecent
           /\ Under(Trim(l), l) /\ Items(Trim(l)) \subseteq Items(l)
<1>1. MaxRecent \in Nat /\ Len(l) \in Nat /\ DOMAIN l = 1..Len(l)
  BY EventBusAssumption
<1>2. CASE Len(l) <= MaxRecent
  <2>1. Trim(l) = l
      BY <1>1, <1>2 DEF Trim
  <2>2. QED
      BY <1>2, <2>1 DEF Under
<1>3. CASE Len(l) > MaxRecent
  <2> DEFINE r == SubSeq(l, Len(l) - MaxRecent + 1, Len(l))
  <2>1. Len(l) = MaxRecent + 1 /\ Trim(l) = r
    <3>1. Len(l) = MaxRecent + 1
      <4> DEFINE n == Len(l)
      <4>1. n \in Nat /\ MaxRecent \in Nat /\ n <= MaxRecent + 1 /\ n > MaxRecent
          BY <1>1, <1>3
      <4> HIDE DEF n
      <4>2. n = MaxRecent + 1
          BY <4>1
      <4>3. QED
          BY <4>2 DEF n
    <3>2. Trim(l) = r
        BY <1>3 DEF Trim
    <3>3. QED
        BY <3>1, <3>2
  <2>2. r = SubSeq(l, 2, Len(l))
      BY <1>1, <2>1
  <2>3. /\ r \in Seq(Events) /\ Len(r) = MaxRecent /\ DOMAIN r = 1..MaxRecent
        /\ \A i \in 1..MaxRecent : r[i] = l[i + 1] /\ i + 1 \in DOMAIN l
      BY <1>1, <2>1, <2>2
  <2> HIDE DEF r
  <2>4. Under(r, l)
    <3> SUFFICES ASSUME NEW i \in DOMAIN r, NEW k \in DOMAIN r, i < k
                 PROVE  \E a, b \in DOMAIN l : a < b /\ l[a] = r[i] /\ l[b] = r[k]
        BY DEF Under
    <3>1. i + 1 < k + 1
        BY <1>1, <2>3
    <3>2. QED
        BY <2>3, <3>1
  <2>5. Items(r) \subseteq Items(l)
      BY <2>3 DEF Items
  <2>6. QED
      BY <1>1, <2>1, <2>3, <2>4, <2>5
<1>4. QED
  BY <1>1, <1>2, <1>3

(* The delivery that a thread makes first.                                 *)
LEMMA HeadIs ==
    ASSUME TypeOK, NEW t \in Threads, todo[t] # <<>>
    PROVE  /\ todo[t] \in Seq(Subscribers \X Events)
           /\ Target(t) \in Subscribers /\ Head(todo[t])[2] \in Events
           /\ Head(todo[t]) = <<Target(t), Head(todo[t])[2]>>
           /\ Head(todo[t]) \in Items(todo[t])
           /\ Tail(todo[t]) \in Seq(Subscribers \X Events)
           /\ Items(todo[t]) = {Head(todo[t])} \cup Items(Tail(todo[t]))
           /\ Under(Tail(todo[t]), todo[t])
<1>1. todo[t] \in Seq(Subscribers \X Events)
  BY DEF TypeOK
<1>2. /\ Head(todo[t]) \in Subscribers \X Events
      /\ Tail(todo[t]) \in Seq(Subscribers \X Events)
      /\ Items(todo[t]) = {Head(todo[t])} \cup Items(Tail(todo[t]))
      /\ Under(Tail(todo[t]), todo[t])
  BY <1>1, TailIs
<1>3. QED
  BY <1>1, <1>2 DEF Target

\* The four outcomes of a queue operation: the event is in the queue, is
\* given up, or is retried after the oldest is dropped, or room is missing.
Puts(t) ==
    /\ todo[t] # <<>> /\ Room(Target(t)) /\ PutHead(t) /\ Delivered(t)
    /\ UNCHANGED overflowed
GivesUp(t) ==
    /\ todo[t] # <<>> /\ phase[t] # "put" /\ Delivered(t)
    /\ UNCHANGED <<queue, overflowed>>
Evicts(t) ==
    /\ todo[t] # <<>> /\ phase[t] # "put" /\ queue[Target(t)] # <<>>
    /\ queue' = [queue EXCEPT ![Target(t)] = Tail(@)]
    /\ phase' = [phase EXCEPT ![t] = "retry"]
    /\ UNCHANGED <<todo, overflowed>>
FindsFull(t) ==
    /\ todo[t] # <<>>
    /\ phase' = [phase EXCEPT ![t] = "evict"]
    /\ overflowed' = [overflowed EXCEPT ![Target(t)] = TRUE]
    /\ UNCHANGED <<queue, todo>>

(* There is no other.                                                      *)
LEMMA DeliverIs ==
    ASSUME NEW t, Deliver(t)
    PROVE  /\ UNCHANGED <<recent, subscribers, published, state, seen, replayed, live>>
           /\ Puts(t) \/ GivesUp(t) \/ Evicts(t) \/ FindsFull(t)
<1>1. CASE Put(t)
  BY <1>1 DEF Put, Puts, FindsFull
<1>2. CASE Evict(t)
  BY <1>2 DEF Evict, Evicts, GivesUp
<1>3. CASE Retry(t)
  BY <1>3 DEF Retry, Puts, GivesUp
<1>4. QED
  BY <1>1, <1>2, <1>3 DEF Deliver

\* What publish() makes of the recent events, and whom it delivers to.
Event(p) == <<p, published[p] + 1>>
Recipients(p) == Keep(subscribers, Takers(Event(p)))
Copied(s) == Keep(recent, Wanted(s))

(* publish(): the event goes once to each registered subscriber that wants *)
(* it.                                                                     *)
LEMMA PublishIs ==
    ASSUME TypeOK, NEW p \in Publishers, Publish(p)
    PROVE  /\ published' = [published EXCEPT ![p] = @ + 1]
           /\ Event(p) \in Events /\ published[p] + 1 \in 0..EventsEach
           /\ Recipients(p) \in Seq(Subscribers)
           /\ Items(Recipients(p)) \subseteq Items(subscribers)
           /\ Under(Recipients(p), subscribers)
           /\ recent' \in Seq(Events) /\ Len(recent') <= MaxRecent
           /\ Items(recent') \subseteq Items(recent) \cup {Event(p)}
           /\ Under(recent', Append(recent, Event(p)))
           /\ todo' = [todo EXCEPT ![p] =
                         [i \in DOMAIN Recipients(p) |-> <<Recipients(p)[i], Event(p)>>]]
           /\ todo[p] = <<>>
           /\ todo'[p] \in Seq(Subscribers \X Events)
           /\ DOMAIN todo'[p] = DOMAIN Recipients(p)
           /\ \A i \in DOMAIN Recipients(p) : todo'[p][i] = <<Recipients(p)[i], Event(p)>>
           /\ live' = [s \in Subscribers |->
                         IF s \in Items(Recipients(p)) THEN live[s] \cup {Event(p)} ELSE live[s]]
           /\ UNCHANGED <<subscribers, queue, state, phase, seen, overflowed, replayed>>
<1>1. Event(p) \in Events /\ published[p] + 1 \in 0..EventsEach
  BY EventBusAssumption DEF Publish, TypeOK, Event, Events
<1>2. Event(p)[1] = p /\ Event(p)[2] = published[p] + 1
  BY DEF Event
<1> DEFINE to == Recipients(p)
<1>3. /\ to \in Seq(Subscribers) /\ Items(to) \subseteq Items(subscribers)
      /\ Under(to, subscribers)
  <2>1. subscribers \in Seq(Subscribers)
      BY DEF TypeOK
  <2>2. /\ to \in Seq(Subscribers \cap Takers(Event(p)))
        /\ Items(to) = Items(subscribers) \cap Takers(Event(p))
        /\ Under(to, subscribers)
      BY <2>1, KeepKeeps DEF Recipients
  <2>3. to \in Seq(Subscribers)
      BY <2>2, SeqMonotonic
  <2>4. QED
      BY <2>2, <2>3
<1>4. /\ published' = [published EXCEPT ![p] = @ + 1]
      /\ todo' = [todo EXCEPT ![p] = [i \in DOMAIN to |-> <<to[i], Event(p)>>]]
      /\ todo[p] = <<>>
      /\ live' = [s \in Subscribers |->
                    IF s \in Items(to) THEN live[s] \cup {Event(p)} ELSE live[s]]
      /\ recent' = IF MaxRecent > 0 THEN Trim(Append(recent, Event(p))) ELSE recent
      /\ UNCHANGED <<subscribers, queue, state, phase, seen, overflowed, replayed>>
  BY DEF Publish, Recipients, Event
<1>5. /\ recent' \in Seq(Events) /\ Len(recent') <= MaxRecent
      /\ Items(recent') \subseteq Items(recent) \cup {Event(p)}
      /\ Under(recent', Append(recent, Event(p)))
  <2>1. /\ recent \in Seq(Events) /\ Len(recent) <= MaxRecent /\ MaxRecent \in Nat
      BY EventBusAssumption DEF TypeOK
  <2> DEFINE l == Append(recent, Event(p))
  <2>2. /\ l \in Seq(Events) /\ Len(l) = Len(recent) + 1 /\ Len(recent) \in Nat
        /\ DOMAIN l = 1..(Len(recent) + 1) /\ DOMAIN recent = 1..Len(recent)
        /\ \A i \in 1..Len(recent) : l[i] = recent[i]
        /\ Items(l) = Items(recent) \cup {Event(p)}
      BY <1>1, <2>1, AppendIs
  <2> HIDE DEF l
  <2>3. CASE MaxRecent > 0
    <3>1. recent' = Trim(l)
        BY <1>4, <2>3 DEF l
    <3>2. Len(l) <= MaxRecent + 1
        BY <2>1, <2>2
    <3>3. QED
        BY <2>2, <3>1, <3>2, TrimIs DEF l
  <2>4. CASE ~(MaxRecent > 0)
    <3>1. recent' = recent
        BY <1>4, <2>4
    <3>2. Under(recent, l)
        BY <2>2 DEF Under
    <3>3. QED
        BY <2>1, <3>1, <3>2 DEF l
  <2>5. QED
      BY <2>3, <2>4
<1> HIDE DEF to
<1>6. /\ [i \in DOMAIN to |-> <<to[i], Event(p)>>] \in Seq(Subscribers \X Events)
      /\ p \in DOMAIN todo
  <2>1. Len(to) \in Nat /\ DOMAIN to = 1..Len(to) /\ \A i \in DOMAIN to : to[i] \in Subscribers
      BY <1>3
  <2>2. [i \in DOMAIN to |-> <<to[i], Event(p)>>] \in [1..Len(to) -> Subscribers \X Events]
      BY <1>1, <2>1
  <2>3. QED
      BY <2>1, <2>2, IsList DEF TypeOK, Threads
<1>7. todo'[p] = [i \in DOMAIN to |-> <<to[i], Event(p)>>]
  BY <1>4, <1>6
<1>8. QED
  BY <1>1, <1>3, <1>4, <1>5, <1>6, <1>7 DEF to

(* subscribe(): the recent events that the subscriber wants, in order.     *)
LEMMA SubscribeIs ==
    ASSUME TypeOK, NEW s \in Subscribers, Subscribe(s)
    PROVE  /\ state[s] = "new" /\ state' = [state EXCEPT ![s] = "replaying"]
           /\ subscribers' = Append(subscribers, s)
           /\ Copied(s) \in Seq(Events) /\ Items(Copied(s)) \subseteq Items(recent)
           /\ Under(Copied(s), recent)
           /\ replayed' = [replayed EXCEPT ![s] = Items(Copied(s))]
           /\ todo' = [todo EXCEPT ![s] = [i \in DOMAIN Copied(s) |-> <<s, Copied(s)[i]>>]]
           /\ todo'[s] \in Seq(Subscribers \X Events)
           /\ DOMAIN todo'[s] = DOMAIN Copied(s)
           /\ \A i \in DOMAIN Copied(s) : todo'[s][i] = <<s, Copied(s)[i]>>
           /\ UNCHANGED <<recent, queue, published, phase, seen, overflowed, live>>
<1>1. recent \in Seq(Events)
  BY DEF TypeOK
<1> DEFINE copy == Copied(s)
<1>2. /\ copy \in Seq(Events) /\ Items(copy) \subseteq Items(recent) /\ Under(copy, recent)
  <2>1. /\ copy \in Seq(Events \cap Wanted(s)) /\ Items(copy) = Items(recent) \cap Wanted(s)
        /\ Under(copy, recent)
      BY <1>1, KeepKeeps DEF Copied
  <2>2. copy \in Seq(Events)
      BY <2>1, SeqMonotonic
  <2>3. QED
      BY <2>1, <2>2
<1>3. /\ state[s] = "new" /\ state' = [state EXCEPT ![s] = "replaying"]
      /\ subscribers' = Append(subscribers, s)
      /\ replayed' = [replayed EXCEPT ![s] = Items(copy)]
      /\ todo' = [todo EXCEPT ![s] = [i \in DOMAIN copy |-> <<s, copy[i]>>]]
      /\ UNCHANGED <<recent, queue, published, phase, seen, overflowed, live>>
  BY DEF Subscribe, Copied
<1> HIDE DEF copy
<1>4. [i \in DOMAIN copy |-> <<s, copy[i]>>] \in Seq(Subscribers \X Events)
      /\ s \in DOMAIN todo
  <2>1. Len(copy) \in Nat /\ DOMAIN copy = 1..Len(copy) /\ \A i \in DOMAIN copy : copy[i] \in Events
      BY <1>2
  <2>2. [i \in DOMAIN copy |-> <<s, copy[i]>>] \in [1..Len(copy) -> Subscribers \X Events]
      BY <2>1
  <2>3. QED
      BY <2>1, <2>2, IsList DEF TypeOK, Threads
<1>5. todo'[s] = [i \in DOMAIN copy |-> <<s, copy[i]>>]
  BY <1>3, <1>4
<1>6. QED
  BY <1>2, <1>3, <1>4, <1>5 DEF copy

(* unsubscribe(): the others stay registered, in order.                    *)
LEMMA UnsubscribeIs ==
    ASSUME TypeOK, NEW s \in Subscribers, Unsubscribe(s)
    PROVE  /\ subscribers' \in Seq(Subscribers) /\ Items(subscribers') \subseteq Items(subscribers)
           /\ Under(subscribers', subscribers)
<1>1. subscribers \in Seq(Subscribers) /\ subscribers' = Keep(subscribers, Subscribers \ {s})
  BY DEF TypeOK, Unsubscribe
<1>2. /\ subscribers' \in Seq(Subscribers \cap (Subscribers \ {s}))
      /\ Items(subscribers') = Items(subscribers) \cap (Subscribers \ {s})
      /\ Under(subscribers', subscribers)
  BY <1>1, KeepKeeps
<1>3. subscribers' \in Seq(Subscribers)
  BY <1>2, SeqMonotonic
<1>4. QED
  BY <1>2, <1>3

-----------------------------------------------------------------------------
(* Every step keeps the types.                                             *)
LEMMA TypeStep ==
    ASSUME TypeOK, [Next]_vars
    PROVE  TypeOK'
<1>1. CASE UNCHANGED vars
  BY <1>1 DEF TypeOK, vars
<1>2. ASSUME NEW p \in Publishers, Publish(p)
      PROVE  TypeOK'
  <2>1. /\ published' = [published EXCEPT ![p] = @ + 1]
        /\ Event(p) \in Events /\ published[p] + 1 \in 0..EventsEach
        /\ recent' \in Seq(Events) /\ Len(recent') <= MaxRecent
        /\ todo'[p] \in Seq(Subscribers \X Events)
        /\ todo' = [todo EXCEPT ![p] =
                      [i \in DOMAIN Recipients(p) |-> <<Recipients(p)[i], Event(p)>>]]
        /\ live' = [s \in Subscribers |->
                      IF s \in Items(Recipients(p)) THEN live[s] \cup {Event(p)} ELSE live[s]]
        /\ UNCHANGED <<subscribers, queue, state, phase, seen, overflowed, replayed>>
      BY <1>2, PublishIs
  <2>2. published' \in [Publishers -> 0..EventsEach]
      BY <2>1 DEF TypeOK
  <2>3. todo' \in [Threads -> Seq(Subscribers \X Events)]
    <3> DEFINE list == [i \in DOMAIN Recipients(p) |-> <<Recipients(p)[i], Event(p)>>]
    <3>1. todo' = [todo EXCEPT ![p] = list] /\ p \in Threads
        BY <2>1 DEF Threads
    <3> HIDE DEF list
    <3>2. QED
        BY <2>1, <3>1 DEF TypeOK
  <2>4. live' \in [Subscribers -> SUBSET Events]
      BY <2>1 DEF TypeOK
  <2>5. QED
      BY <2>1, <2>2, <2>3, <2>4 DEF TypeOK
<1>3. ASSUME NEW s \in Subscribers, Subscribe(s)
      PROVE  TypeOK'
  <2>1. /\ state[s] = "new" /\ state' = [state EXCEPT ![s] = "replaying"]
        /\ subscribers' = Append(subscribers, s)
        /\ Copied(s) \in Seq(Events) /\ Items(Copied(s)) \subseteq Items(recent)
        /\ replayed' = [replayed EXCEPT ![s] = Items(Copied(s))]
        /\ todo' = [todo EXCEPT ![s] = [i \in DOMAIN Copied(s) |-> <<s, Copied(s)[i]>>]]
        /\ todo'[s] \in Seq(Subscribers \X Events)
        /\ UNCHANGED <<recent, queue, published, phase, seen, overflowed, live>>
      BY <1>3, SubscribeIs
  <2>2. todo' \in [Threads -> Seq(Subscribers \X Events)]
    <3> DEFINE list == [i \in DOMAIN Copied(s) |-> <<s, Copied(s)[i]>>]
    <3>1. todo' = [todo EXCEPT ![s] = list] /\ s \in Threads
        BY <2>1 DEF Threads
    <3> HIDE DEF list
    <3>2. QED
        BY <2>1, <3>1 DEF TypeOK
  <2>3. replayed' \in [Subscribers -> SUBSET Events]
    <3>1. Items(Copied(s)) \subseteq Events
        BY <2>1 DEF Items
    <3>2. QED
        BY <2>1, <3>1 DEF TypeOK
  <2>4. state' \in [Subscribers -> {"new", "replaying", "reading", "gone"}]
      BY <2>1 DEF TypeOK
  <2>5. subscribers' \in Seq(Subscribers)
      BY <2>1 DEF TypeOK
  <2>6. QED
      BY <2>1, <2>2, <2>3, <2>4, <2>5 DEF TypeOK
<1>4. ASSUME NEW s \in Subscribers, Subscribed(s)
      PROVE  TypeOK'
  BY <1>4 DEF Subscribed, TypeOK
<1>5. ASSUME NEW s \in Subscribers, Unsubscribe(s)
      PROVE  TypeOK'
  <2>1. subscribers' \in Seq(Subscribers)
      BY <1>5, UnsubscribeIs
  <2>2. QED
      BY <1>5, <2>1 DEF Unsubscribe, TypeOK
<1>6. ASSUME NEW s \in Subscribers, Read(s)
      PROVE  TypeOK'
  <2> DEFINE q == queue[s]
  <2>1. /\ q \in Seq(Events) /\ q # <<>> /\ Len(q) <= QueueSize
        /\ seen' = [seen EXCEPT ![s] = Append(@, Head(q))]
        /\ queue' = [queue EXCEPT ![s] = Tail(q)]
        /\ UNCHANGED <<recent, subscribers, published, state, todo, phase,
                       overflowed, replayed, live>>
      BY <1>6 DEF Read, TypeOK
  <2>2. Head(q) \in Events /\ Tail(q) \in Seq(Events) /\ Len(Tail(q)) <= QueueSize
    <3>1. /\ Head(q) \in Events /\ Tail(q) \in Seq(Events) /\ Len(Tail(q)) = Len(q) - 1
          /\ Len(q) \in Nat /\ QueueSize \in Nat
        BY <2>1, TailIs, EventBusAssumption
    <3>2. QED
        BY <2>1, <3>1
  <2> HIDE DEF q
  <2>3. QED
      BY <2>1, <2>2 DEF TypeOK
<1>7. ASSUME NEW t \in Threads, Deliver(t)
      PROVE  TypeOK'
  <2>1. /\ UNCHANGED <<recent, subscribers, published, state, seen, replayed, live>>
        /\ Puts(t) \/ GivesUp(t) \/ Evicts(t) \/ FindsFull(t)
      BY <1>7, DeliverIs
  <2>2. todo[t] # <<>>
      BY <2>1 DEF Puts, GivesUp, Evicts, FindsFull
  <2> DEFINE s == Target(t)
             e == Head(todo[t])[2]
             q == queue[s]
             rest == Tail(todo[t])
  <2>3. s \in Subscribers /\ e \in Events /\ rest \in Seq(Subscribers \X Events)
      BY <2>2, HeadIs
  <2>4. q \in Seq(Events) /\ Len(q) <= QueueSize /\ Len(q) \in Nat /\ QueueSize \in Nat
      BY <2>3, EventBusAssumption DEF TypeOK
  <2>5. CASE Puts(t)
    <3>1. /\ Len(q) < QueueSize /\ queue' = [queue EXCEPT ![s] = Append(q, e)]
          /\ todo' = [todo EXCEPT ![t] = rest] /\ phase' = [phase EXCEPT ![t] = "put"]
          /\ UNCHANGED overflowed
        BY <2>3, <2>5 DEF Puts, Room, PutHead, Delivered, TypeOK
    <3>2. Append(q, e) \in Seq(Events) /\ Len(Append(q, e)) <= QueueSize
        BY <2>3, <2>4, <3>1
    <3> HIDE DEF s, e, q, rest
    <3>3. QED
        BY <2>1, <2>3, <3>1, <3>2 DEF TypeOK, Phases
  <2>6. CASE GivesUp(t)
    <3>1. /\ todo' = [todo EXCEPT ![t] = rest] /\ phase' = [phase EXCEPT ![t] = "put"]
          /\ UNCHANGED <<queue, overflowed>>
        BY <2>6 DEF GivesUp, Delivered
    <3> HIDE DEF s, e, q, rest
    <3>2. QED
        BY <2>1, <2>3, <3>1 DEF TypeOK, Phases
  <2>7. CASE Evicts(t)
    <3>1. /\ q # <<>> /\ queue' = [queue EXCEPT ![s] = Tail(q)]
          /\ phase' = [phase EXCEPT ![t] = "retry"] /\ UNCHANGED <<todo, overflowed>>
        BY <2>3, <2>7 DEF Evicts, TypeOK
    <3>2. Tail(q) \in Seq(Events) /\ Len(Tail(q)) <= QueueSize
      <4>1. Tail(q) \in Seq(Events) /\ Len(Tail(q)) = Len(q) - 1
          BY <2>4, <3>1, TailIs
      <4>2. QED
          BY <2>4, <4>1
    <3> HIDE DEF s, e, q, rest
    <3>3. QED
        BY <2>1, <2>3, <3>1, <3>2 DEF TypeOK, Phases
  <2>8. CASE FindsFull(t)
    <3>1. /\ phase' = [phase EXCEPT ![t] = "evict"]
          /\ overflowed' = [overflowed EXCEPT ![s] = TRUE] /\ UNCHANGED <<queue, todo>>
        BY <2>8 DEF FindsFull
    <3> HIDE DEF s, e, q, rest
    <3>2. QED
        BY <2>1, <2>3, <3>1 DEF TypeOK, Phases
  <2>9. QED
      BY <2>1, <2>5, <2>6, <2>7, <2>8
<1>8. QED
  BY <1>1, <1>2, <1>3, <1>4, <1>5, <1>6, <1>7 DEF Next, Threads

(* The bus holds events and subscribers, and its lists keep their bounds.  *)
THEOREM BusTypeCorrect == Spec => []TypeOK
<1>1. Init => TypeOK
  BY EventBusAssumption DEF Init, TypeOK, Phases
<1>2. TypeOK /\ [Next]_vars => TypeOK'
  BY TypeStep
<1>3. QED
  BY <1>1, <1>2, PTL DEF Spec

-----------------------------------------------------------------------------
(* Events in order.                                                        *)

\* In l the events of a publisher come in the order of their numbers, those in
\* L among themselves and the others among themselves.
Rising(l, L) ==
    \A i, k \in DOMAIN l :
        i < k /\ l[i][1] = l[k][1] /\ (l[i] \in L <=> l[k] \in L) => l[i][2] < l[k][2]

\* The deliveries of a replay do so too.
RisingTodo(l) ==
    \A i, k \in DOMAIN l : i < k /\ l[i][2][1] = l[k][2][1] => l[i][2][2] < l[k][2][2]

(* What lies under a list in order is in order.                            *)
LEMMA UnderRising ==
    ASSUME NEW s, NEW t, NEW L, Under(s, t)
    PROVE  (Rising(t, L) => Rising(s, L)) /\ (RisingTodo(t) => RisingTodo(s))
<1>1. ASSUME Rising(t, L), NEW i \in DOMAIN s, NEW k \in DOMAIN s,
             i < k, s[i][1] = s[k][1], s[i] \in L <=> s[k] \in L
      PROVE  s[i][2] < s[k][2]
  <2>1. PICK a \in DOMAIN t, b \in DOMAIN t : a < b /\ t[a] = s[i] /\ t[b] = s[k]
      BY <1>1 DEF Under
  <2>2. t[a][1] = t[b][1] /\ (t[a] \in L <=> t[b] \in L)
      BY <1>1, <2>1
  <2>3. t[a][2] < t[b][2]
      BY <1>1, <2>1, <2>2 DEF Rising
  <2>4. QED
      BY <2>1, <2>3
<1>2. ASSUME RisingTodo(t), NEW i \in DOMAIN s, NEW k \in DOMAIN s,
             i < k, s[i][2][1] = s[k][2][1]
      PROVE  s[i][2][2] < s[k][2][2]
  <2>1. PICK a \in DOMAIN t, b \in DOMAIN t : a < b /\ t[a] = s[i] /\ t[b] = s[k]
      BY <1>2 DEF Under
  <2>2. t[a][2][1] = t[b][2][1]
      BY <1>2, <2>1
  <2>3. t[a][2][2] < t[b][2][2]
      BY <1>2, <2>1, <2>2 DEF RisingTodo
  <2>4. QED
      BY <2>1, <2>3
<1>3. Rising(t, L) => Rising(s, L)
  BY <1>1 DEF Rising
<1>4. RisingTodo(t) => RisingTodo(s)
  BY <1>2 DEF RisingTodo
<1>5. QED
  BY <1>3, <1>4

(* An event that is younger than those of its publisher may come next.     *)
LEMMA AppendRising ==
    ASSUME NEW S, NEW s \in Seq(S), NEW e \in S, NEW L, Rising(s, L),
           \A f \in Items(s) : f[1] = e[1] /\ (f \in L <=> e \in L) => f[2] < e[2]
    PROVE  Rising(Append(s, e), L)
<1> DEFINE l == Append(s, e)
<1>1. /\ DOMAIN l = 1..(Len(s) + 1) /\ DOMAIN s = 1..Len(s) /\ Len(s) \in Nat
      /\ \A i \in 1..Len(s) : l[i] = s[i] /\ s[i] \in Items(s)
      /\ l[Len(s) + 1] = e
  BY AppendIs DEF Items
<1> HIDE DEF l
<1>2. ASSUME NEW i \in DOMAIN l, NEW k \in DOMAIN l, i < k, l[i][1] = l[k][1],
             l[i] \in L <=> l[k] \in L
      PROVE  l[i][2] < l[k][2]
  <2>1. i \in 1..Len(s) /\ l[i] = s[i] /\ s[i] \in Items(s)
      BY <1>1, <1>2
  <2>2. CASE k = Len(s) + 1
      BY <1>1, <1>2, <2>1, <2>2
  <2>3. CASE k # Len(s) + 1
    <3>1. k \in 1..Len(s) /\ l[k] = s[k]
        BY <1>1, <2>3
    <3>2. s[i][1] = s[k][1] /\ (s[i] \in L <=> s[k] \in L)
        BY <1>2, <2>1, <3>1
    <3>3. s[i][2] < s[k][2]
        BY <1>1, <1>2, <2>1, <3>1, <3>2 DEF Rising
    <3>4. QED
        BY <2>1, <3>1, <3>3
  <2>4. QED
      BY <2>2, <2>3
<1>3. QED
  BY <1>2 DEF Rising, l

(* The first delivery of a replay is older than the others.                *)
LEMMA HeadRising ==
    ASSUME NEW S, NEW l \in Seq(S), l # <<>>, RisingTodo(l), NEW d \in Items(Tail(l)),
           Head(l)[2][1] = d[2][1]
    PROVE  Head(l)[2][2] < d[2][2]
<1>1. /\ DOMAIN l = 1..Len(l) /\ DOMAIN Tail(l) = 1..(Len(l) - 1) /\ Len(l) >= 1
      /\ l[1] = Head(l) /\ \A i \in 1..(Len(l) - 1) : Tail(l)[i] = l[i + 1]
      /\ Len(l) \in Nat
  BY TailIs
<1>2. PICK i \in 1..(Len(l) - 1) : d = l[i + 1]
  BY <1>1 DEF Items
<1>3. 1 \in DOMAIN l /\ i + 1 \in DOMAIN l /\ 1 < i + 1
  BY <1>1
<1>4. l[1][2][1] = l[i + 1][2][1]
  BY <1>1, <1>2
<1>5. QED
  BY <1>1, <1>2, <1>3, <1>4 DEF RisingTodo

-----------------------------------------------------------------------------
(* The invariant.                                                          *)

\* Numbers tell what was published so far; to a subscriber live events are
\* younger than the replayed ones.
NumbersInv ==
    /\ Rising(recent, Events)
    /\ \A e \in Items(recent) : e[2] <= published[e[1]]
    /\ \A s \in Subscribers :
          /\ \A e \in Owed(s) : e[2] <= published[e[1]]
          /\ \A e \in replayed[s], f \in live[s] : e[1] = f[1] => e[2] < f[2]

\* A subscriber is registered once; nothing is owed to a new one.
RegisterInv ==
    /\ Distinct(subscribers)
    /\ \A s \in Items(subscribers) : state[s] # "new"
    /\ \A s \in Subscribers : state[s] = "new" => Got(s) = <<>> /\ Owed(s) = {}

\* A publisher delivers its last event, once to each; a subscriber delivers to
\* itself what it copied, in order.
TodoInv ==
    /\ \A p \in Publishers :
          /\ Distinct(todo[p])
          /\ \A d \in Items(todo[p]) :
                d[2] = <<p, published[p]>> /\ d[2] \in live[d[1]] /\ state[d[1]] # "new"
    /\ \A s \in Subscribers :
          /\ RisingTodo(todo[s])
          /\ todo[s] # <<>> => state[s] = "replaying"
          /\ \A d \in Items(todo[s]) : d[1] = s /\ d[2] \in replayed[s]
    /\ \A t \in Threads : phase[t] # "put" => todo[t] # <<>> /\ overflowed[Target(t)]

\* What is still to be delivered is not yet there, and is younger than what is.
GotInv ==
    \A s \in Subscribers :
        /\ Distinct(Got(s)) /\ Rising(Got(s), live[s])
        /\ Items(Got(s)) \subseteq Owed(s)
        /\ \A t \in Threads : \A d \in Items(todo[t]) : d[1] = s => d[2] \notin Items(Got(s))
        /\ \A e \in Items(Got(s)) \cap replayed[s], d \in Items(todo[s]) :
              e[1] = d[2][1] => e[2] < d[2][2]

\* Until the queue overflowed, what is owed is there or under way.
LostInv ==
    \A s \in Subscribers : ~overflowed[s] =>
        \A e \in Owed(s) :
            e \in Items(Got(s)) \/ \E t \in Threads : <<s, e>> \in Items(todo[t])

BusInv == NumbersInv /\ RegisterInv /\ TodoInv /\ GotInv /\ LostInv

(* What a subscriber read and what waits in its queue.                     *)
LEMMA GotIs ==
    ASSUME TypeOK, NEW s \in Subscribers
    PROVE  /\ Got(s) \in Seq(Events) /\ seen[s] \in Seq(Events) /\ queue[s] \in Seq(Events)
           /\ Items(Got(s)) = Items(seen[s]) \cup Items(queue[s])
           /\ Items(Got(s)) \subseteq Events
<1>1. seen[s] \in Seq(Events) /\ queue[s] \in Seq(Events)
  BY DEF TypeOK
<1>2. Got(s) \in Seq(Events) /\ Items(Got(s)) = Items(seen[s]) \cup Items(queue[s])
  <2> DEFINE a == seen[s]
             q == queue[s]
  <2>1. a \in Seq(Events) /\ q \in Seq(Events)
      BY <1>1
  <2> HIDE DEF a, q
  <2>2. a \o q \in Seq(Events) /\ Items(a \o q) = Items(a) \cup Items(q)
      BY <2>1, ConcatIs
  <2>3. QED
      BY <2>2 DEF Got, a, q
<1>3. Items(Got(s)) \subseteq Events
  BY <1>2 DEF Items
<1>4. QED
  BY <1>1, <1>2, <1>3

-----------------------------------------------------------------------------
(* publish()                                                               *)
LEMMA PublishKeeps ==
    ASSUME TypeOK, BusInv, NEW p \in Publishers, Publish(p)
    PROVE  BusInv'
<1> DEFINE e == Event(p)
           to == Recipients(p)
<1>1. /\ published' = [published EXCEPT ![p] = @ + 1]
      /\ e \in Events
      /\ to \in Seq(Subscribers) /\ Items(to) \subseteq Items(subscribers)
      /\ Under(to, subscribers)
      /\ recent' \in Seq(Events)
      /\ Items(recent') \subseteq Items(recent) \cup {e}
      /\ Under(recent', Append(recent, e))
      /\ todo' = [todo EXCEPT ![p] = [i \in DOMAIN to |-> <<to[i], e>>]]
      /\ todo[p] = <<>>
      /\ DOMAIN todo'[p] = DOMAIN to
      /\ \A i \in DOMAIN to : todo'[p][i] = <<to[i], e>>
      /\ live' = [s \in Subscribers |->
                    IF s \in Items(to) THEN live[s] \cup {e} ELSE live[s]]
      /\ UNCHANGED <<subscribers, queue, state, phase, seen, overflowed, replayed>>
  BY PublishIs
<1>2. e = <<p, published[p] + 1>> /\ e[1] = p /\ e[2] = published[p] + 1
  BY DEF Event
<1>3. /\ \A q \in Publishers : published[q] \in Nat /\ published'[q] \in Nat
      /\ \A q \in Publishers : published'[q] = IF q = p THEN published[p] + 1 ELSE published[q]
      /\ \A f \in Events : f[1] \in Publishers /\ f[2] \in Nat /\ f = <<f[1], f[2]>>
  BY <1>1, EventBusAssumption DEF TypeOK, Events
<1>4. /\ recent \in Seq(Events) /\ Items(recent) \subseteq Events
      /\ \A s \in Subscribers : Owed(s) \subseteq Events
      /\ Items(subscribers) \subseteq Subscribers
  BY DEF TypeOK, Items, Owed
<1>5. /\ \A s : Got(s)' = Got(s)
      /\ \A t : t # p => todo'[t] = todo[t]
      /\ Items(todo[p]) = {}
      /\ \A s \in Publishers : s \notin Subscribers
  BY <1>1, EventBusAssumption DEF Got, Items, TypeOK
<1> HIDE DEF e, to
<1>6. \A f : f \in Items(recent) \/ (\E s \in Subscribers : f \in Owed(s)) => f # e
  BY <1>2, <1>3, <1>4 DEF BusInv, NumbersInv
<1>7. /\ \A s \in Subscribers : live'[s] = live[s] \/ (live'[s] = live[s] \cup {e} /\ state[s] # "new")
      /\ \A s \in Subscribers : s \in Items(to) => e \in live'[s] /\ state[s] # "new"
      /\ \A s \in Subscribers : s \notin Items(to) => live'[s] = live[s]
      /\ \A s \in Subscribers : Owed(s)' = replayed[s] \cup live'[s]
  BY <1>1, <1>4 DEF BusInv, RegisterInv, Owed
<1>8. NumbersInv'
  <2>1. Rising(Append(recent, e), Events)
    <3>1. \A f \in Items(recent) : f[1] = e[1] => f[2] < e[2]
        BY <1>2, <1>3, <1>4 DEF BusInv, NumbersInv
    <3>2. QED
        BY <1>1, <1>4, <3>1, AppendRising DEF BusInv, NumbersInv
  <2>2. Rising(recent', Events)
      BY <1>1, <2>1, UnderRising
  <2>3. \A f \in Items(recent') : f[2] <= published'[f[1]]
      BY <1>1, <1>2, <1>3, <1>4, SMTT(30) DEF BusInv, NumbersInv
  <2>4. ASSUME NEW s \in Subscribers
        PROVE  /\ \A f \in Owed(s)' : f[2] <= published'[f[1]]
               /\ \A f \in replayed'[s], g \in live'[s] : f[1] = g[1] => f[2] < g[2]
    <3>1. /\ \A f \in replayed[s] \cup live[s] : f \in Events /\ f[2] <= published[f[1]]
          /\ \A f \in replayed[s], g \in live[s] : f[1] = g[1] => f[2] < g[2]
        BY <1>4 DEF BusInv, NumbersInv, Owed
    <3>2. \A f \in replayed[s] : f[1] = e[1] => f[2] < e[2]
        BY <1>2, <1>3, <3>1
    <3>3. \A f \in Owed(s)' : f[2] <= published'[f[1]]
        BY <1>1, <1>2, <1>3, <1>7, <3>1
    <3>4. QED
        BY <1>1, <1>7, <3>1, <3>2, <3>3
  <2>5. QED
      BY <2>2, <2>3, <2>4 DEF NumbersInv
<1>9. RegisterInv'
  BY <1>1, <1>5, <1>7 DEF BusInv, RegisterInv, Owed
<1>10. \A d \in Items(todo'[p]) : d[1] \in Items(to) /\ d[1] \in Subscribers /\ d[2] = e
  BY <1>1, <1>4 DEF Items
<1>11. TodoInv'
  <2>1. Distinct(todo'[p])
    <3>1. Distinct(to)
        BY <1>1, UnderDistinct DEF BusInv, RegisterInv, TypeOK
    <3>2. QED
        BY <1>1, <3>1 DEF Distinct
  <2>2. \A d \in Items(todo'[p]) :
           d[2] = <<p, published'[p]>> /\ d[2] \in live'[d[1]] /\ state'[d[1]] # "new"
      BY <1>1, <1>2, <1>3, <1>7, <1>10
  <2>3. ASSUME NEW q \in Publishers, q # p
        PROVE  /\ Distinct(todo'[q])
               /\ \A d \in Items(todo'[q]) :
                     d[2] = <<q, published'[q]>> /\ d[2] \in live'[d[1]] /\ state'[d[1]] # "new"
    <3>1. todo'[q] = todo[q] /\ published'[q] = published[q]
        BY <1>3, <1>5, <2>3
    <3>2. \A d \in Items(todo[q]) : d[1] \in Subscribers
      <4>1. todo[q] \in Seq(Subscribers \X Events)
          BY DEF TypeOK, Threads
      <4>2. QED
          BY <4>1 DEF Items
    <3>3. QED
        BY <1>1, <1>7, <3>1, <3>2 DEF BusInv, TodoInv
  <2>4. ASSUME NEW s \in Subscribers
        PROVE  /\ RisingTodo(todo'[s])
               /\ todo'[s] # <<>> => state'[s] = "replaying"
               /\ \A d \in Items(todo'[s]) : d[1] = s /\ d[2] \in replayed'[s]
    <3>1. todo'[s] = todo[s]
        BY <1>5
    <3>2. QED
        BY <1>1, <3>1 DEF BusInv, TodoInv
  <2>5. ASSUME NEW t \in Threads, phase'[t] # "put"
        PROVE  todo'[t] # <<>> /\ overflowed'[Target(t)']
    <3>1. phase[t] # "put" /\ todo[t] # <<>> /\ overflowed[Target(t)]
        BY <1>1, <2>5 DEF BusInv, TodoInv
    <3>2. todo'[t] = todo[t] /\ Target(t)' = Target(t)
        BY <1>1, <1>5, <3>1 DEF Target
    <3>3. QED
        BY <1>1, <3>1, <3>2
  <2>6. QED
      BY <2>1, <2>2, <2>3, <2>4, <2>5 DEF TodoInv
<1>12. GotInv'
  <2> SUFFICES ASSUME NEW s \in Subscribers
               PROVE  /\ Distinct(Got(s)') /\ Rising(Got(s)', live'[s])
                      /\ Items(Got(s)') \subseteq Owed(s)'
                      /\ \A t \in Threads : \A d \in Items(todo'[t]) :
                            d[1] = s => d[2] \notin Items(Got(s)')
                      /\ \A f \in Items(Got(s)') \cap replayed'[s], d \in Items(todo'[s]) :
                            f[1] = d[2][1] => f[2] < d[2][2]
      BY DEF GotInv
  <2>1. /\ Got(s)' = Got(s) /\ todo'[s] = todo[s]
        /\ Distinct(Got(s)) /\ Rising(Got(s), live[s]) /\ Items(Got(s)) \subseteq Owed(s)
        /\ \A t \in Threads : \A d \in Items(todo[t]) : d[1] = s => d[2] \notin Items(Got(s))
        /\ \A f \in Items(Got(s)) \cap replayed[s], d \in Items(todo[s]) :
              f[1] = d[2][1] => f[2] < d[2][2]
      BY <1>5 DEF BusInv, GotInv
  <2>2. \A f \in Items(Got(s)) : f \in live'[s] <=> f \in live[s]
      BY <1>6, <1>7, <2>1
  <2>3. Rising(Got(s), live'[s])
    <3>1. \A i \in DOMAIN Got(s) : Got(s)[i] \in live'[s] <=> Got(s)[i] \in live[s]
        BY <2>2 DEF Items
    <3>2. QED
        BY <2>1, <3>1 DEF Rising
  <2>4. Items(Got(s)) \subseteq Owed(s)'
      BY <1>7, <2>1 DEF Owed
  <2>5. \A d \in Items(todo'[p]) : d[2] \notin Items(Got(s))
      BY <1>6, <1>10, <2>1
  <2>6. \A t \in Threads : \A d \in Items(todo'[t]) : d[1] = s => d[2] \notin Items(Got(s))
      BY <1>5, <2>1, <2>5
  <2>7. QED
      BY <1>1, <2>1, <2>3, <2>4, <2>6
<1>13. LostInv'
  <2> SUFFICES ASSUME NEW s \in Subscribers, ~overflowed'[s], NEW f \in Owed(s)'
               PROVE  f \in Items(Got(s)') \/ \E t \in Threads : <<s, f>> \in Items(todo'[t])
      BY DEF LostInv
  <2>1. CASE f \in Owed(s)
    <3>1. f \in Items(Got(s)) \/ \E t \in Threads : <<s, f>> \in Items(todo[t])
        BY <1>1, <2>1 DEF BusInv, LostInv
    <3>2. \A t : <<s, f>> \in Items(todo[t]) => todo'[t] = todo[t]
        BY <1>5
    <3>3. QED
        BY <1>5, <3>1, <3>2
  <2>2. CASE f \notin Owed(s)
    <3>1. f = e /\ s \in Items(to)
        BY <1>7, <2>2 DEF Owed
    <3>2. PICK i \in DOMAIN to : to[i] = s
        BY <3>1 DEF Items
    <3>3. <<s, f>> \in Items(todo'[p])
        BY <1>1, <3>1, <3>2 DEF Items
    <3>4. QED
        BY <3>3 DEF Threads
  <2>3. QED
      BY <2>1, <2>2
<1>14. QED
  BY <1>8, <1>9, <1>11, <1>12, <1>13 DEF BusInv

(* subscribe()                                                             *)
LEMMA SubscribeKeeps ==
    ASSUME TypeOK, BusInv, NEW s \in Subscribers, Subscribe(s)
    PROVE  BusInv'
<1> DEFINE copy == Copied(s)
<1>1. /\ state[s] = "new" /\ state' = [state EXCEPT ![s] = "replaying"]
      /\ subscribers' = Append(subscribers, s)
      /\ copy \in Seq(Events) /\ Items(copy) \subseteq Items(recent)
      /\ Under(copy, recent)
      /\ replayed' = [replayed EXCEPT ![s] = Items(copy)]
      /\ todo' = [todo EXCEPT ![s] = [i \in DOMAIN copy |-> <<s, copy[i]>>]]
      /\ DOMAIN todo'[s] = DOMAIN copy
      /\ \A i \in DOMAIN copy : todo'[s][i] = <<s, copy[i]>>
      /\ UNCHANGED <<recent, queue, published, phase, seen, overflowed, live>>
  BY SubscribeIs
<1>2. /\ \A r \in Subscribers : r # s =>
            state'[r] = state[r] /\ replayed'[r] = replayed[r] /\ todo'[r] = todo[r]
      /\ \A t : t # s => todo'[t] = todo[t]
      /\ state'[s] = "replaying" /\ replayed'[s] = Items(copy)
      /\ \A r \in Subscribers : Got(r)' = Got(r) /\ Owed(r)' = replayed'[r] \cup live[r]
      /\ \A p \in Publishers : p # s
  BY <1>1, EventBusAssumption DEF TypeOK, Got, Owed
<1> HIDE DEF copy
<1>3. /\ Got(s) = <<>> /\ Items(Got(s)) = {} /\ live[s] = {} /\ todo[s] = <<>>
      /\ Items(todo[s]) = {}
  BY <1>1 DEF BusInv, RegisterInv, TodoInv, Items, Owed
<1>4. \A t \in Threads : \A d \in Items(todo[t]) : d[1] # s
  <2>1. \A p \in Publishers : \A d \in Items(todo[p]) : d[1] # s
      BY <1>1 DEF BusInv, TodoInv
  <2>2. \A r \in Subscribers : r # s => \A d \in Items(todo[r]) : d[1] # s
      BY DEF BusInv, TodoInv
  <2>3. QED
      BY <1>3, <2>1, <2>2 DEF Threads
<1>5. ASSUME NEW d \in Items(todo'[s])
      PROVE  d[1] = s /\ d[2] \in Items(copy)
  <2>1. PICK i \in DOMAIN copy : d = <<s, copy[i]>>
      BY <1>1, <1>5 DEF Items
  <2>2. copy[i] \in Items(copy)
      BY DEF Items
  <2>3. QED
      BY <2>1, <2>2
<1>6. NumbersInv'
  <2>1. \A e \in Items(copy) : e[2] <= published[e[1]]
      BY <1>1 DEF BusInv, NumbersInv
  <2>2. ASSUME NEW r \in Subscribers
        PROVE  /\ \A e \in Owed(r)' : e[2] <= published'[e[1]]
               /\ \A e \in replayed'[r], f \in live'[r] : e[1] = f[1] => e[2] < f[2]
    <3>1. CASE r = s
        BY <1>1, <1>2, <1>3, <2>1, <3>1
    <3>2. CASE r # s
        BY <1>1, <1>2, <3>2 DEF BusInv, NumbersInv, Owed
    <3>3. QED
        BY <3>1, <3>2
  <2>3. QED
      BY <1>1, <2>2 DEF BusInv, NumbersInv
<1>7. RegisterInv'
  <2>1. subscribers \in Seq(Subscribers) /\ s \notin Items(subscribers)
      BY <1>1 DEF BusInv, RegisterInv, TypeOK
  <2>2. Distinct(subscribers') /\ Items(subscribers') = Items(subscribers) \cup {s}
      BY <1>1, <2>1, AppendDistinct, AppendIs DEF BusInv, RegisterInv
  <2>3. Items(subscribers) \subseteq Subscribers
      BY <2>1 DEF Items
  <2>4. QED
      BY <1>1, <1>2, <2>2, <2>3 DEF BusInv, RegisterInv, Owed
<1>8. TodoInv'
  <2>1. ASSUME NEW p \in Publishers
        PROVE  /\ Distinct(todo'[p])
               /\ \A d \in Items(todo'[p]) :
                     d[2] = <<p, published'[p]>> /\ d[2] \in live'[d[1]] /\ state'[d[1]] # "new"
    <3>1. todo'[p] = todo[p]
        BY <1>2
    <3>2. \A d \in Items(todo[p]) : d[1] \in Subscribers
      <4>1. todo[p] \in Seq(Subscribers \X Events)
          BY DEF TypeOK, Threads
      <4>2. QED
          BY <4>1 DEF Items
    <3>3. QED
        BY <1>1, <1>2, <3>1, <3>2 DEF BusInv, TodoInv
  <2>2. RisingTodo(todo'[s])
    <3>1. Rising(copy, Events)
        BY <1>1, UnderRising DEF BusInv, NumbersInv
    <3>2. \A i \in DOMAIN copy : copy[i] \in Events
        BY <1>1
    <3>3. QED
        BY <1>1, <3>1, <3>2 DEF Rising, RisingTodo
  <2>3. ASSUME NEW r \in Subscribers, r # s
        PROVE  /\ RisingTodo(todo'[r])
               /\ todo'[r] # <<>> => state'[r] = "replaying"
               /\ \A d \in Items(todo'[r]) : d[1] = r /\ d[2] \in replayed'[r]
      BY <1>2, <2>3 DEF BusInv, TodoInv
  <2>4. ASSUME NEW t \in Threads, phase'[t] # "put"
        PROVE  todo'[t] # <<>> /\ overflowed'[Target(t)']
    <3>1. phase[t] # "put" /\ todo[t] # <<>> /\ overflowed[Target(t)]
        BY <1>1, <2>4 DEF BusInv, TodoInv
    <3>2. todo'[t] = todo[t] /\ Target(t)' = Target(t)
        BY <1>2, <1>3, <3>1 DEF Target
    <3>3. QED
        BY <1>1, <3>1, <3>2
  <2>5. QED
      BY <1>2, <1>5, <2>1, <2>2, <2>3, <2>4 DEF TodoInv
<1>9. GotInv'
  <2> SUFFICES ASSUME NEW r \in Subscribers
               PROVE  /\ Distinct(Got(r)') /\ Rising(Got(r)', live'[r])
                      /\ Items(Got(r)') \subseteq Owed(r)'
                      /\ \A t \in Threads : \A d \in Items(todo'[t]) :
                            d[1] = r => d[2] \notin Items(Got(r)')
                      /\ \A e \in Items(Got(r)') \cap replayed'[r], d \in Items(todo'[r]) :
                            e[1] = d[2][1] => e[2] < d[2][2]
      BY DEF GotInv
  <2>1. /\ Got(r)' = Got(r) /\ live' = live
        /\ Distinct(Got(r)) /\ Rising(Got(r), live[r]) /\ Items(Got(r)) \subseteq Owed(r)
        /\ \A t \in Threads : \A d \in Items(todo[t]) : d[1] = r => d[2] \notin Items(Got(r))
        /\ \A e \in Items(Got(r)) \cap replayed[r], d \in Items(todo[r]) :
              e[1] = d[2][1] => e[2] < d[2][2]
      BY <1>1, <1>2 DEF BusInv, GotInv
  <2>2. CASE r = s
      BY <1>3, <2>1, <2>2
  <2>3. CASE r # s
    <3>1. \A t \in Threads : \A d \in Items(todo'[t]) : d[1] = r => d[2] \notin Items(Got(r))
        BY <1>2, <1>5, <2>1, <2>3
    <3>2. QED
        BY <1>2, <2>1, <2>3, <3>1 DEF Owed
  <2>4. QED
      BY <2>2, <2>3
<1>10. LostInv'
  <2> SUFFICES ASSUME NEW r \in Subscribers, ~overflowed'[r], NEW e \in Owed(r)'
               PROVE  e \in Items(Got(r)') \/ \E t \in Threads : <<r, e>> \in Items(todo'[t])
      BY DEF LostInv
  <2>1. CASE r = s
    <3>1. e \in Items(copy)
        BY <1>2, <1>3, <2>1
    <3>2. PICK i \in DOMAIN copy : copy[i] = e
        BY <3>1 DEF Items
    <3>3. <<r, e>> \in Items(todo'[s])
        BY <1>1, <2>1, <3>2 DEF Items
    <3>4. QED
        BY <3>3 DEF Threads
  <2>2. CASE r # s
    <3>1. e \in Items(Got(r)) \/ \E t \in Threads : <<r, e>> \in Items(todo[t])
        BY <1>1, <1>2, <2>2 DEF BusInv, LostInv, Owed
    <3>2. \A t \in Threads : <<r, e>> \in Items(todo[t]) => todo'[t] = todo[t]
        BY <1>2, <1>3
    <3>3. QED
        BY <1>2, <3>1, <3>2
  <2>3. QED
      BY <2>1, <2>2
<1>11. QED
  BY <1>6, <1>7, <1>8, <1>9, <1>10 DEF BusInv

(* The end of subscribe(), and unsubscribe().                              *)
LEMMA StateKeeps ==
    ASSUME TypeOK, BusInv, NEW s \in Subscribers, Subscribed(s) \/ Unsubscribe(s)
    PROVE  BusInv'
<1>1. /\ todo[s] = <<>> /\ state[s] # "new"
      /\ UNCHANGED <<recent, queue, published, todo, phase, seen, overflowed, replayed, live>>
      /\ \A r \in Subscribers : state'[r] = "new" <=> state[r] = "new"
      /\ \A r \in Subscribers : r # s => state'[r] = state[r]
  BY DEF Subscribed, Unsubscribe, TypeOK, BusInv, TodoInv
<1>2. Distinct(subscribers') /\ Items(subscribers') \subseteq Items(subscribers)
  <2>1. CASE Subscribed(s)
      BY <2>1 DEF Subscribed, BusInv, RegisterInv
  <2>2. CASE Unsubscribe(s)
    <3>1. /\ subscribers \in Seq(Subscribers) /\ subscribers' \in Seq(Subscribers)
          /\ Items(subscribers') \subseteq Items(subscribers)
          /\ Under(subscribers', subscribers) /\ Distinct(subscribers)
        BY <2>2, UnsubscribeIs DEF BusInv, RegisterInv, TypeOK
    <3>2. QED
        BY <3>1, UnderDistinct
  <2>3. QED
      BY <2>1, <2>2
<1>3. Items(subscribers) \subseteq Subscribers
  BY DEF TypeOK, Items
<1>4. (\A r : Got(r)' = Got(r) /\ Owed(r)' = Owed(r)) /\ \A t : Target(t)' = Target(t)
  BY <1>1 DEF Got, Owed, Target
<1>5. RegisterInv'
  BY <1>1, <1>2, <1>3, <1>4 DEF BusInv, RegisterInv
<1>6. TodoInv'
  <2>1. ASSUME NEW p \in Publishers, NEW d \in Items(todo[p])
        PROVE  state'[d[1]] # "new"
    <3>1. d[1] \in Subscribers
      <4>1. todo[p] \in Seq(Subscribers \X Events)
          BY DEF TypeOK, Threads
      <4>2. QED
          BY <4>1 DEF Items
    <3>2. QED
        BY <1>1, <3>1 DEF BusInv, TodoInv
  <2>2. QED
      BY <1>1, <1>4, <2>1 DEF BusInv, TodoInv
<1>7. NumbersInv' /\ GotInv' /\ LostInv'
  BY <1>1, <1>4 DEF BusInv, NumbersInv, GotInv, LostInv
<1>8. QED
  BY <1>5, <1>6, <1>7 DEF BusInv

-----------------------------------------------------------------------------
(* What the deliveries under way have in common.                           *)

\* What a thread still has to deliver, and to whom.
Todos(t) == Items(todo[t])

(* A delivery is of an event owed to a subscriber that is registered.      *)
LEMMA DeliveryIs ==
    ASSUME TypeOK, BusInv, NEW t \in Threads, NEW d \in Todos(t)
    PROVE  /\ d[1] \in Subscribers /\ d[2] \in Events /\ d = <<d[1], d[2]>>
           /\ d[2][1] \in Publishers /\ d[2][2] \in Nat /\ d[2] = <<d[2][1], d[2][2]>>
           /\ state[d[1]] # "new" /\ d[2] \in Owed(d[1])
           /\ t \in Publishers => d[2] = <<t, published[t]>> /\ d[2] \in live[d[1]]
           /\ t \in Subscribers => d[1] = t /\ d[2] \in replayed[d[1]]
<1>1. todo[t] \in Seq(Subscribers \X Events)
  BY DEF TypeOK
<1>2. d \in Subscribers \X Events
  BY <1>1 DEF Todos, Items
<1>3. /\ d[1] \in Subscribers /\ d[2] \in Events /\ d = <<d[1], d[2]>>
      /\ d[2][1] \in Publishers /\ d[2][2] \in Nat /\ d[2] = <<d[2][1], d[2][2]>>
  BY <1>2, EventBusAssumption DEF Events
<1>4. t \in Publishers =>
          d[2] = <<t, published[t]>> /\ d[2] \in live[d[1]] /\ state[d[1]] # "new"
  BY DEF BusInv, TodoInv, Todos
<1>5. t \in Subscribers => d[1] = t /\ d[2] \in replayed[t] /\ state[t] = "replaying"
  <2>1. t \in Subscribers => todo[t] # <<>>
      BY DEF Todos, Items
  <2>2. QED
      BY <2>1 DEF BusInv, TodoInv, Todos
<1>6. QED
  BY <1>3, <1>4, <1>5 DEF Threads, Owed

(* No event is replayed to a subscriber and live to it.                    *)
LEMMA ReplayedOrLive ==
    ASSUME TypeOK, BusInv, NEW s \in Subscribers
    PROVE  replayed[s] \cap live[s] = {}
<1> SUFFICES ASSUME NEW e \in replayed[s], e \in live[s]
             PROVE  FALSE
  OBVIOUS
<1>1. e[2] \in Nat
  BY EventBusAssumption DEF TypeOK, Events
<1>2. e[2] < e[2]
  BY DEF BusInv, NumbersInv
<1>3. QED
  BY <1>1, <1>2

(* No two threads deliver the same event to the same subscriber.           *)
LEMMA Apart ==
    ASSUME TypeOK, BusInv, NEW t \in Threads, NEW u \in Threads, t # u,
           NEW c \in Todos(t), NEW d \in Todos(u), c[1] = d[1]
    PROVE  c[2] # d[2]
<1>1. CASE t \in Publishers /\ u \in Publishers
  <2>1. c[2][1] = t /\ d[2][1] = u
      BY <1>1, DeliveryIs
  <2>2. QED
      BY <2>1
<1>2. CASE t \in Publishers /\ u \in Subscribers
  <2>1. c[2] \in live[c[1]] /\ d[2] \in replayed[c[1]] /\ c[1] \in Subscribers
      BY <1>2, DeliveryIs
  <2>2. QED
      BY <2>1, ReplayedOrLive
<1>3. CASE t \in Subscribers /\ u \in Publishers
  <2>1. c[2] \in replayed[c[1]] /\ d[2] \in live[c[1]] /\ c[1] \in Subscribers
      BY <1>3, DeliveryIs
  <2>2. QED
      BY <2>1, ReplayedOrLive
<1>4. CASE t \in Subscribers /\ u \in Subscribers
  <2>1. c[1] = t /\ d[1] = u
      BY <1>4, DeliveryIs
  <2>2. QED
      BY <2>1
<1>5. QED
  BY <1>1, <1>2, <1>3, <1>4 DEF Threads

(* A thread delivers its first event to a subscriber only once, and a      *)
(* replay has older events first.                                          *)
LEMMA FirstAlone ==
    ASSUME TypeOK, BusInv, NEW t \in Threads, todo[t] # <<>>,
           NEW d \in Items(Tail(todo[t])), d[1] = Target(t)
    PROVE  /\ d[2] # Head(todo[t])[2]
           /\ t \in Subscribers /\ d[2][1] = Head(todo[t])[2][1]
                 => Head(todo[t])[2][2] < d[2][2]
<1> DEFINE h == Head(todo[t])
<1>1. /\ todo[t] \in Seq(Subscribers \X Events) /\ h \in Todos(t) /\ d \in Todos(t)
      /\ h = <<Target(t), h[2]>>
  BY HeadIs DEF Todos
<1>2. d = <<d[1], d[2]>> /\ d[2][2] \in Nat
  BY <1>1, DeliveryIs
<1>3. CASE t \in Publishers
  <2>1. h \notin Items(Tail(todo[t])) /\ t \notin Subscribers
      BY <1>1, <1>3, TailIs, EventBusAssumption DEF BusInv, TodoInv
  <2>2. QED
      BY <1>1, <1>2, <2>1
<1>4. CASE t \in Subscribers
  <2>1. RisingTodo(todo[t])
      BY <1>4 DEF BusInv, TodoInv
  <2>2. d[2][1] = h[2][1] => h[2][2] < d[2][2]
      BY <1>1, <2>1, HeadRising
  <2>3. d[2] # h[2]
      BY <1>2, <2>2
  <2>4. QED
      BY <2>2, <2>3
<1>5. QED
  BY <1>3, <1>4 DEF Threads

(* The first delivery of a thread is younger than what its subscriber got  *)
(* before, of the same publisher and the same part.                        *)
LEMMA FirstIsNext ==
    ASSUME TypeOK, BusInv, NEW t \in Threads, todo[t] # <<>>,
           NEW f \in Items(Got(Target(t))), f[1] = Head(todo[t])[2][1],
           f \in live[Target(t)] <=> Head(todo[t])[2] \in live[Target(t)]
    PROVE  f[2] < Head(todo[t])[2][2]
<1> DEFINE s == Target(t)
           e == Head(todo[t])[2]
<1>1. s \in Subscribers /\ Head(todo[t]) \in Todos(t) /\ Head(todo[t]) = <<s, e>>
  BY HeadIs DEF Todos
<1>2. /\ e[2] \in Nat /\ e = <<e[1], e[2]>>
      /\ t \in Publishers => e = <<t, published[t]>> /\ e \in live[s]
      /\ t \in Subscribers => s = t /\ e \in replayed[s]
  BY <1>1, DeliveryIs
<1>3. f \in Owed(s) /\ f # e /\ f \in Events
  <2>1. f \in Owed(s) /\ f # e
      BY <1>1 DEF BusInv, GotInv, Todos
  <2>2. QED
      BY <1>1, <2>1, GotIs
<1>4. f[2] \in Nat /\ f = <<f[1], f[2]>>
  BY <1>3, EventBusAssumption DEF Events
<1> HIDE DEF s, e
<1>5. CASE t \in Publishers
  <2>1. f[2] <= published[f[1]] /\ published[f[1]] = e[2] /\ f[1] = e[1]
      BY <1>1, <1>2, <1>3, <1>5 DEF BusInv, NumbersInv, e, s
  <2>2. f[2] # e[2]
      BY <1>2, <1>3, <1>4, <2>1
  <2>3. QED
      BY <1>2, <1>4, <2>1, <2>2 DEF e
<1>6. CASE t \in Subscribers
  <2>1. f \in replayed[s]
    <3>1. e \notin live[s]
        BY <1>1, <1>2, <1>6, ReplayedOrLive
    <3>2. QED
        BY <1>3, <3>1 DEF Owed, s, e
  <2>2. <<s, e>> \in Items(todo[s]) /\ f[1] = <<s, e>>[2][1]
      BY <1>1, <1>2, <1>6 DEF Todos, s, e
  <2>3. f[2] < <<s, e>>[2][2]
      BY <1>1, <2>1, <2>2 DEF BusInv, GotInv, s
  <2>4. QED
      BY <2>3 DEF e
<1>7. QED
  BY <1>5, <1>6 DEF Threads

-----------------------------------------------------------------------------
(* One queue operation of a delivery                                       *)

(* The list of deliveries keeps its part of the invariant.                 *)
LEMMA DeliverTodo ==
    ASSUME TypeOK, BusInv, NEW t \in Threads, Deliver(t)
    PROVE  /\ TodoInv'
           /\ \A u \in Threads : Todos(u)' \subseteq Todos(u)
           /\ \A u \in Threads : u # t => todo'[u] = todo[u]
<1>1. /\ UNCHANGED <<recent, subscribers, published, state, seen, replayed, live>>
      /\ Puts(t) \/ GivesUp(t) \/ Evicts(t) \/ FindsFull(t)
  BY DeliverIs
<1>2. todo[t] # <<>>
  BY <1>1 DEF Puts, GivesUp, Evicts, FindsFull
<1> DEFINE rest == Tail(todo[t])
<1>3. /\ todo[t] \in Seq(Subscribers \X Events) /\ rest \in Seq(Subscribers \X Events)
      /\ Todos(t) = {Head(todo[t])} \cup Items(rest) /\ Under(rest, todo[t])
      /\ Target(t) \in Subscribers
  BY <1>2, HeadIs DEF Todos
<1>4. \/ todo' = todo
      \/ todo' = [todo EXCEPT ![t] = rest] /\ phase' = [phase EXCEPT ![t] = "put"]
  BY <1>1 DEF Puts, GivesUp, Evicts, FindsFull, Delivered
<1>5. t \in DOMAIN todo /\ t \in DOMAIN phase /\ DOMAIN overflowed = Subscribers
  BY DEF TypeOK
<1> HIDE DEF rest
<1>6. /\ \A u \in Threads : u # t => todo'[u] = todo[u]
      /\ todo'[t] = todo[t] \/ (todo'[t] = rest /\ phase'[t] = "put")
  <2>1. CASE todo' = todo
      BY <2>1
  <2>2. CASE todo' # todo
    <3>1. todo' = [todo EXCEPT ![t] = rest] /\ phase' = [phase EXCEPT ![t] = "put"]
        BY <1>4, <2>2
    <3>2. QED
        BY <1>5, <3>1
  <2>3. QED
      BY <2>1, <2>2
<1>7. \A u \in Threads : Todos(u)' \subseteq Todos(u)
  BY <1>3, <1>6 DEF Todos
<1>8. ASSUME NEW p \in Publishers
      PROVE  /\ Distinct(todo'[p])
             /\ \A d \in Items(todo'[p]) :
                   d[2] = <<p, published'[p]>> /\ d[2] \in live'[d[1]] /\ state'[d[1]] # "new"
  <2>1. /\ Distinct(todo[p])
        /\ \A d \in Todos(p) :
              d[2] = <<p, published[p]>> /\ d[2] \in live[d[1]] /\ state[d[1]] # "new"
      BY DEF BusInv, TodoInv, Todos
  <2>2. Distinct(todo'[p])
    <3>1. CASE todo'[p] = todo[p]
        BY <2>1, <3>1
    <3>2. CASE todo'[p] # todo[p]
      <4>1. p = t /\ todo'[p] = rest
          BY <1>6, <3>2 DEF Threads
      <4>2. QED
          BY <1>3, <2>1, <4>1, UnderDistinct
    <3>3. QED
        BY <3>1, <3>2
  <2>3. Items(todo'[p]) \subseteq Todos(p)
      BY <1>7 DEF Todos, Threads
  <2>4. QED
      BY <1>1, <2>1, <2>2, <2>3
<1>9. ASSUME NEW s \in Subscribers
      PROVE  /\ RisingTodo(todo'[s])
             /\ todo'[s] # <<>> => state'[s] = "replaying"
             /\ \A d \in Items(todo'[s]) : d[1] = s /\ d[2] \in replayed'[s]
  <2>1. /\ RisingTodo(todo[s])
        /\ todo[s] # <<>> => state[s] = "replaying"
        /\ \A d \in Todos(s) : d[1] = s /\ d[2] \in replayed[s]
      BY DEF BusInv, TodoInv, Todos
  <2>2. RisingTodo(todo'[s]) /\ (todo'[s] # <<>> => todo[s] # <<>>)
    <3>1. CASE todo'[s] = todo[s]
        BY <2>1, <3>1
    <3>2. CASE todo'[s] # todo[s]
      <4>1. s = t /\ todo'[s] = rest
          BY <1>6, <3>2 DEF Threads
      <4>2. RisingTodo(rest)
          BY <1>3, <2>1, <4>1, UnderRising
      <4>3. QED
          BY <1>2, <4>1, <4>2
    <3>3. QED
        BY <3>1, <3>2
  <2>3. Items(todo'[s]) \subseteq Todos(s)
      BY <1>7 DEF Todos, Threads
  <2>4. QED
      BY <1>1, <2>1, <2>2, <2>3
<1>10. ASSUME NEW u \in Threads, phase'[u] # "put"
       PROVE  todo'[u] # <<>> /\ overflowed'[Target(u)']
  <2>1. todo'[u] = todo[u] /\ Target(u)' = Target(u)
      BY <1>6, <1>10 DEF Target
  <2>2. \A s \in Subscribers : overflowed[s] => overflowed'[s]
      BY <1>1, <1>5 DEF Puts, GivesUp, Evicts, FindsFull
  <2>3. CASE u = t
    <3>1. overflowed'[Target(t)]
      <4>1. CASE Puts(t) \/ GivesUp(t)
        <5>1. phase'[t] = "put"
            BY <1>5, <4>1 DEF Puts, GivesUp, Delivered
        <5>2. QED
            BY <1>10, <2>3, <5>1
      <4>2. CASE Evicts(t)
          BY <1>3, <2>2, <4>2 DEF Evicts, BusInv, TodoInv
      <4>3. CASE FindsFull(t)
          BY <1>3, <1>5, <4>3 DEF FindsFull
      <4>4. QED
          BY <1>1, <4>1, <4>2, <4>3
    <3>2. QED
        BY <1>2, <2>1, <2>3, <3>1
  <2>4. CASE u # t
    <3>1. phase[u] # "put"
      <4>1. \E v : phase' = [phase EXCEPT ![t] = v]
          BY <1>1 DEF Puts, GivesUp, Evicts, FindsFull, Delivered
      <4>2. phase'[u] = phase[u]
          BY <2>4, <4>1 DEF TypeOK
      <4>3. QED
          BY <1>10, <4>2
    <3>2. todo[u] # <<>> /\ overflowed[Target(u)]
        BY <3>1 DEF BusInv, TodoInv
    <3>3. Target(u) \in Subscribers
        BY <3>2, HeadIs
    <3>4. QED
        BY <2>1, <2>2, <3>2, <3>3
  <2>5. QED
      BY <2>3, <2>4
<1>11. TodoInv'
  BY <1>8, <1>9, <1>10 DEF TodoInv
<1>12. QED
  BY <1>6, <1>7, <1>11

(* What a subscriber got grows by the event put, or loses its oldest.      *)
LEMMA DeliverGot ==
    ASSUME TypeOK, BusInv, NEW t \in Threads, Deliver(t),
           NEW s, s = Target(t), NEW e, e = Head(todo[t])[2]
    PROVE  LET moved == todo' = [todo EXCEPT ![t] = Tail(todo[t])]
           IN  /\ s \in Subscribers /\ todo[t] # <<>>
               /\ \A r \in Subscribers : r # s => Got(r)' = Got(r)
               /\ \/ /\ Got(s)' = Append(Got(s), e) /\ moved
                     /\ UNCHANGED overflowed
                  \/ /\ Got(s)' = Got(s) /\ overflowed[s] /\ moved
                     /\ UNCHANGED overflowed
                  \/ /\ Got(s)' \in Seq(Events) /\ Under(Got(s)', Got(s))
                     /\ Items(Got(s)') \subseteq Items(Got(s))
                     /\ overflowed[s] /\ UNCHANGED <<todo, overflowed>>
                  \/ /\ Got(s)' = Got(s) /\ UNCHANGED todo
                     /\ overflowed' = [overflowed EXCEPT ![s] = TRUE]
<1> DEFINE q == queue[s]
<1>1. /\ UNCHANGED <<recent, subscribers, published, state, seen, replayed, live>>
      /\ Puts(t) \/ GivesUp(t) \/ Evicts(t) \/ FindsFull(t)
  BY DeliverIs
<1>2. todo[t] # <<>>
  BY <1>1 DEF Puts, GivesUp, Evicts, FindsFull
<1>3. s \in Subscribers /\ e \in Events
  BY <1>2, HeadIs
<1>4. /\ q \in Seq(Events) /\ seen[s] \in Seq(Events)
      /\ queue \in [Subscribers -> Seq(Events)] /\ DOMAIN queue = Subscribers
  BY <1>3 DEF TypeOK
<1>5. phase[t] # "put" => overflowed[s]
  BY DEF BusInv, TodoInv
<1>6. ASSUME NEW r \in Subscribers, r # s
      PROVE  Got(r)' = Got(r)
  <2>1. queue'[r] = queue[r]
    <3>1. CASE Puts(t)
        BY <1>4, <1>6, <3>1 DEF Puts, PutHead
    <3>2. CASE GivesUp(t) \/ FindsFull(t)
        BY <3>2 DEF GivesUp, FindsFull
    <3>3. CASE Evicts(t)
        BY <1>4, <1>6, <3>3 DEF Evicts
    <3>4. QED
        BY <1>1, <3>1, <3>2, <3>3
  <2>2. QED
      BY <1>1, <2>1 DEF Got
<1>7. CASE Puts(t)
  <2>1. queue'[s] = Append(q, e)
      BY <1>3, <1>4, <1>7 DEF Puts, PutHead
  <2>2. Got(s)' = seen[s] \o Append(q, e)
      BY <1>1, <2>1 DEF Got
  <2>3. Got(s)' = Append(Got(s), e)
    <3>1. seen[s] \o Append(q, e) = Append(seen[s] \o q, e)
      <4> DEFINE a == seen[s]
      <4>1. a \in Seq(Events) /\ q \in Seq(Events)
          BY <1>4
      <4> HIDE DEF a, q
      <4>2. a \o Append(q, e) = Append(a \o q, e)
          BY <1>3, <4>1, AppendBehind
      <4>3. QED
          BY <4>2 DEF a
    <3>2. QED
        BY <2>2, <3>1 DEF Got
  <2>4. QED
      BY <1>2, <1>3, <1>6, <1>7, <2>3 DEF Puts, Delivered
<1>8. CASE GivesUp(t)
  <2>1. Got(s)' = Got(s)
      BY <1>1, <1>8 DEF GivesUp, Got
  <2>2. QED
      BY <1>2, <1>3, <1>5, <1>6, <1>8, <2>1 DEF GivesUp, Delivered
<1>9. CASE Evicts(t)
  <2>1. q # <<>> /\ queue'[s] = Tail(q)
      BY <1>3, <1>4, <1>9 DEF Evicts
  <2>2. /\ seen[s] \o Tail(q) \in Seq(Events) /\ Under(seen[s] \o Tail(q), seen[s] \o q)
        /\ Items(seen[s] \o Tail(q)) \subseteq Items(seen[s] \o q)
    <3> DEFINE a == seen[s]
    <3> HIDE DEF a, q
    <3>1. a \in Seq(Events) /\ q \in Seq(Events)
        BY <1>4 DEF a
    <3>2. a \o Tail(q) \in Seq(Events) /\ Under(a \o Tail(q), a \o q)
        BY <2>1, <3>1, MoveOn
    <3>3. Tail(q) \in Seq(Events) /\ Items(Tail(q)) \subseteq Items(q)
        BY <2>1, <3>1, TailIs
    <3>4. /\ Items(a \o Tail(q)) = Items(a) \cup Items(Tail(q))
          /\ Items(a \o q) = Items(a) \cup Items(q)
        BY <3>1, <3>3, ConcatIs, ZenonT(30)
    <3>5. QED
        BY <3>2, <3>3, <3>4 DEF a
  <2>3. Got(s)' = seen[s] \o Tail(q)
      BY <1>1, <2>1 DEF Got
  <2>4. Got(s) = seen[s] \o q
      BY DEF Got
  <2>5. /\ Got(s)' \in Seq(Events) /\ Under(Got(s)', Got(s))
        /\ Items(Got(s)') \subseteq Items(Got(s))
    <3> HIDE DEF q
    <3>1. QED
        BY <2>2, <2>3, <2>4
  <2>6. QED
      BY <1>2, <1>3, <1>5, <1>6, <1>9, <2>5 DEF Evicts
<1>10. CASE FindsFull(t)
  <2>1. Got(s)' = Got(s)
      BY <1>1, <1>10 DEF FindsFull, Got
  <2>2. QED
      BY <1>2, <1>3, <1>6, <1>10, <2>1 DEF FindsFull
<1>11. QED
  BY <1>1, <1>7, <1>8, <1>9, <1>10

(* One queue operation keeps the invariant.                                *)
LEMMA DeliverKeeps ==
    ASSUME TypeOK, BusInv, NEW t \in Threads, Deliver(t)
    PROVE  BusInv'
<1>1. /\ UNCHANGED <<recent, subscribers, published, state, seen, replayed, live>>
      /\ TodoInv' /\ \A u \in Threads : Todos(u)' \subseteq Todos(u)
      /\ \A u \in Threads : u # t => todo'[u] = todo[u]
  BY DeliverIs, DeliverTodo
<1>2. PICK s, e : s = Target(t) /\ e = Head(todo[t])[2]
  OBVIOUS
<1> DEFINE moved == todo' = [todo EXCEPT ![t] = Tail(todo[t])]
           put == /\ Got(s)' = Append(Got(s), e) /\ moved
                  /\ UNCHANGED overflowed
           givenUp == /\ Got(s)' = Got(s) /\ overflowed[s] /\ moved
                      /\ UNCHANGED overflowed
           evicted == /\ Got(s)' \in Seq(Events) /\ Under(Got(s)', Got(s))
                      /\ Items(Got(s)') \subseteq Items(Got(s))
                      /\ overflowed[s] /\ UNCHANGED <<todo, overflowed>>
           full == /\ Got(s)' = Got(s) /\ UNCHANGED todo
                   /\ overflowed' = [overflowed EXCEPT ![s] = TRUE]
<1>3. /\ s \in Subscribers /\ todo[t] # <<>>
      /\ \A r \in Subscribers : r # s => Got(r)' = Got(r)
      /\ put \/ givenUp \/ evicted \/ full
  BY <1>2, DeliverGot
<1>4. /\ <<s, e>> = Head(todo[t]) /\ <<s, e>> \in Todos(t) /\ e \in Events
      /\ Todos(t) = {<<s, e>>} \cup Items(Tail(todo[t]))
  BY <1>2, <1>3, HeadIs DEF Todos
<1>5. /\ state[s] # "new" /\ e \in Owed(s) /\ e[2] \in Nat
      /\ t \in Publishers => e \in live[s]
      /\ t \in Subscribers => t = s
  <2>1. PICK d \in Todos(t) : d = <<s, e>>
      BY <1>4
  <2>2. d[1] = s /\ d[2] = e
      BY <2>1
  <2>3. /\ state[d[1]] # "new" /\ d[2] \in Owed(d[1]) /\ d[2][2] \in Nat
        /\ t \in Publishers => d[2] \in live[d[1]]
        /\ t \in Subscribers => d[1] = t
      BY DeliveryIs
  <2>4. QED
      BY <2>2, <2>3
<1>6. /\ Distinct(Got(s)) /\ Rising(Got(s), live[s]) /\ Items(Got(s)) \subseteq Owed(s)
      /\ Got(s) \in Seq(Events) /\ e \notin Items(Got(s))
  <2>1. e \notin Items(Got(s))
      BY <1>3, <1>4 DEF BusInv, GotInv, Todos
  <2>2. QED
      BY <1>3, <2>1, GotIs DEF BusInv, GotInv
<1>7. \A r \in Subscribers : Owed(r)' = Owed(r)
  BY <1>1 DEF Owed
<1>8. DOMAIN overflowed = Subscribers /\ t \in DOMAIN todo
  BY DEF TypeOK
<1>9. moved => Todos(t)' = Items(Tail(todo[t]))
  BY <1>8 DEF Todos
<1> HIDE DEF put, givenUp, evicted, full, moved
<1>10. NumbersInv'
  BY <1>1, <1>7 DEF BusInv, NumbersInv
<1>11. RegisterInv'
  <2>1. \A r \in Subscribers : state[r] = "new" => Got(r)' = Got(r)
      BY <1>3, <1>5
  <2>2. QED
      BY <1>1, <1>7, <2>1 DEF BusInv, RegisterInv
<1>12. CASE put
  <2>1. /\ Got(s)' = Append(Got(s), e) /\ moved /\ UNCHANGED overflowed
        /\ Items(Append(Got(s), e)) = Items(Got(s)) \cup {e}
    <3>1. Items(Append(Got(s), e)) = Items(Got(s)) \cup {e}
        BY <1>4, <1>6, AppendIs
    <3>2. QED
        BY <1>12, <3>1 DEF put
  <2>2. /\ Distinct(Append(Got(s), e)) /\ Rising(Append(Got(s), e), live[s])
        /\ Items(Append(Got(s), e)) \subseteq Owed(s)
    <3>1. Distinct(Append(Got(s), e))
        BY <1>4, <1>6, AppendDistinct
    <3>2. \A f \in Items(Got(s)) : f[1] = e[1] /\ (f \in live[s] <=> e \in live[s]) => f[2] < e[2]
        BY <1>2, <1>3, FirstIsNext
    <3>3. Rising(Append(Got(s), e), live[s])
        BY <1>4, <1>6, <3>2, AppendRising
    <3>4. QED
        BY <1>5, <1>6, <2>1, <3>1, <3>3
  <2>3. ASSUME NEW u \in Threads, NEW d \in Todos(u)', d[1] = s
        PROVE  /\ d[2] \notin Items(Got(s)) /\ d[2] # e
               /\ u = t => d \in Items(Tail(todo[t]))
    <3>1. d \in Todos(u) /\ (u = t => d \in Items(Tail(todo[t])))
        BY <1>1, <1>9, <2>1
    <3>2. d[2] \notin Items(Got(s))
        BY <1>3, <2>3, <3>1 DEF BusInv, GotInv, Todos
    <3>3. u = t => d[2] # e
        BY <1>2, <1>3, <2>3, <3>1, FirstAlone
    <3>4. u # t => d[2] # e
        BY <1>4, <2>3, <3>1, Apart
    <3>5. QED
        BY <3>1, <3>2, <3>3, <3>4
  <2>4. ASSUME NEW f \in Items(Got(s)) \cup {e}, f \in replayed[s], NEW d \in Todos(s)',
               f[1] = d[2][1]
        PROVE  f[2] < d[2][2]
    <3>1. d \in Todos(s) /\ s \in Threads
        BY <1>1, <1>3 DEF Threads
    <3>2. CASE f \in Items(Got(s))
        BY <1>3, <2>4, <3>1, <3>2 DEF BusInv, GotInv, Todos
    <3>3. CASE f = e
      <4>1. t \notin Publishers
          BY <1>3, <1>5, <2>4, <3>3, ReplayedOrLive
      <4>2. t \in Subscribers /\ t = s
          BY <1>5, <4>1 DEF Threads
      <4>3. d[1] = s /\ d \in Items(Tail(todo[t]))
          BY <1>9, <2>1, <2>4, <3>1, <4>2, DeliveryIs
      <4>4. QED
          BY <1>2, <1>3, <2>4, <3>3, <4>2, <4>3, FirstAlone
    <3>4. QED
        BY <2>4, <3>2, <3>3
  <2>5. GotInv'
    <3> SUFFICES ASSUME NEW r \in Subscribers
                 PROVE  /\ Distinct(Got(r)') /\ Rising(Got(r)', live'[r])
                        /\ Items(Got(r)') \subseteq Owed(r)'
                        /\ \A u \in Threads : \A d \in Items(todo'[u]) :
                              d[1] = r => d[2] \notin Items(Got(r)')
                        /\ \A f \in Items(Got(r)') \cap replayed'[r], d \in Items(todo'[r]) :
                              f[1] = d[2][1] => f[2] < d[2][2]
        BY DEF GotInv
    <3>1. CASE r = s
        BY <1>1, <1>7, <2>1, <2>2, <2>3, <2>4, <3>1 DEF Todos
    <3>2. CASE r # s
      <4>1. Got(r)' = Got(r) /\ r \in Threads
          BY <1>3, <3>2 DEF Threads
      <4>2. QED
          BY <1>1, <1>7, <4>1 DEF BusInv, GotInv, Todos
    <3>3. QED
        BY <3>1, <3>2
  <2>6. ASSUME NEW r \in Subscribers, ~overflowed'[r], NEW f \in Owed(r)'
        PROVE  f \in Items(Got(r)') \/ \E u \in Threads : <<r, f>> \in Items(todo'[u])
    <3>1. f \in Items(Got(r)) \/ \E u \in Threads : <<r, f>> \in Todos(u)
        BY <1>7, <2>1, <2>6 DEF BusInv, LostInv, Todos
    <3>2. Items(Got(r)) \subseteq Items(Got(r)')
        BY <1>3, <2>1
    <3>3. ASSUME NEW u \in Threads, <<r, f>> \in Todos(u)
          PROVE  <<r, f>> \in Todos(u)' \/ f \in Items(Got(r)')
      <4>1. CASE <<r, f>> = <<s, e>>
          BY <2>1, <4>1
      <4>2. CASE <<r, f>> # <<s, e>>
          BY <1>1, <1>4, <1>9, <2>1, <3>3, <4>2 DEF Todos
      <4>3. QED
          BY <4>1, <4>2
    <3>4. QED
        BY <3>1, <3>2, <3>3 DEF Todos
  <2>7. QED
      BY <1>1, <1>10, <1>11, <2>5, <2>6 DEF BusInv, LostInv
<1>13. CASE givenUp \/ evicted \/ full
  <2>1. /\ Distinct(Got(s)') /\ Rising(Got(s)', live[s])
        /\ Items(Got(s)') \subseteq Items(Got(s))
    <3>1. CASE Got(s)' = Got(s)
        BY <1>6, <3>1
    <3>2. CASE evicted
        BY <1>6, <3>2, UnderDistinct, UnderRising DEF evicted
    <3>3. QED
        BY <1>13, <3>1, <3>2 DEF givenUp, full
  <2>2. ~overflowed'[s] => FALSE
      BY <1>3, <1>8, <1>13 DEF givenUp, evicted, full
  <2>3. GotInv'
    <3> SUFFICES ASSUME NEW r \in Subscribers
                 PROVE  /\ Distinct(Got(r)') /\ Rising(Got(r)', live'[r])
                        /\ Items(Got(r)') \subseteq Owed(r)'
                        /\ \A u \in Threads : \A d \in Items(todo'[u]) :
                              d[1] = r => d[2] \notin Items(Got(r)')
                        /\ \A f \in Items(Got(r)') \cap replayed'[r], d \in Items(todo'[r]) :
                              f[1] = d[2][1] => f[2] < d[2][2]
        BY DEF GotInv
    <3>1. /\ Distinct(Got(r)') /\ Rising(Got(r)', live[r])
          /\ Items(Got(r)') \subseteq Items(Got(r)) /\ Items(Got(r)) \subseteq Owed(r)
      <4>1. CASE r = s
          BY <1>6, <2>1, <4>1
      <4>2. CASE r # s
          BY <1>3, <4>2 DEF BusInv, GotInv
      <4>3. QED
          BY <4>1, <4>2
    <3>2. r \in Threads
        BY DEF Threads
    <3>3. /\ \A u \in Threads : \A d \in Todos(u) : d[1] = r => d[2] \notin Items(Got(r))
          /\ \A f \in Items(Got(r)) \cap replayed[r], d \in Todos(r) :
                f[1] = d[2][1] => f[2] < d[2][2]
        BY DEF BusInv, GotInv, Todos
    <3>4. QED
        BY <1>1, <1>7, <3>1, <3>2, <3>3 DEF Todos
  <2>4. ASSUME NEW r \in Subscribers, ~overflowed'[r], NEW f \in Owed(r)'
        PROVE  f \in Items(Got(r)') \/ \E u \in Threads : <<r, f>> \in Items(todo'[u])
    <3>1. r # s /\ Got(r)' = Got(r) /\ ~overflowed[r]
        BY <1>3, <1>13, <2>2, <2>4 DEF givenUp, evicted, full, TypeOK
    <3>2. f \in Items(Got(r)) \/ \E u \in Threads : <<r, f>> \in Todos(u)
        BY <1>7, <2>4, <3>1 DEF BusInv, LostInv, Todos
    <3>3. ASSUME NEW u \in Threads, <<r, f>> \in Todos(u)
          PROVE  <<r, f>> \in Todos(u)'
      <4>1. <<r, f>> # <<s, e>>
          BY <3>1
      <4>2. CASE moved
          BY <1>1, <1>4, <1>9, <3>3, <4>1, <4>2 DEF Todos
      <4>3. CASE ~moved
        <5>1. UNCHANGED todo
            BY <1>13, <4>3 DEF givenUp, evicted, full
        <5>2. QED
            BY <3>3, <5>1 DEF Todos
      <4>4. QED
          BY <4>2, <4>3
    <3>4. QED
        BY <3>1, <3>2, <3>3 DEF Todos
  <2>5. QED
      BY <1>1, <1>10, <1>11, <2>3, <2>4 DEF BusInv, LostInv
<1>14. QED
  BY <1>3, <1>12, <1>13

-----------------------------------------------------------------------------
(* The reader moves an event from the queue to what it has seen.           *)
LEMMA ReadKeeps ==
    ASSUME TypeOK, BusInv, NEW s \in Subscribers, Read(s)
    PROVE  BusInv'
<1> DEFINE q == queue[s]
           a == seen[s]
<1>1. /\ q \in Seq(Events) /\ a \in Seq(Events) /\ q # <<>>
      /\ seen'[s] = Append(a, Head(q)) /\ queue'[s] = Tail(q)
      /\ \A r : r # s => queue'[r] = queue[r] /\ seen'[r] = seen[r]
      /\ UNCHANGED <<recent, subscribers, published, state, todo, phase,
                     overflowed, replayed, live>>
  BY DEF Read, TypeOK
<1>2. Got(s)' = Got(s)
  <2>1. Got(s)' = Append(a, Head(q)) \o Tail(q) /\ Got(s) = a \o q
      BY <1>1 DEF Got
  <2> HIDE DEF a, q
  <2>2. Append(a, Head(q)) \o Tail(q) = a \o q
      BY <1>1, MoveOn
  <2>3. QED
      BY <2>1, <2>2
<1>3. \A r : r # s => Got(r)' = Got(r)
  BY <1>1 DEF Got
<1>4. \A r : Got(r)' = Got(r) /\ Owed(r)' = Owed(r)
  BY <1>1, <1>2, <1>3 DEF Owed
<1>5. \A t : Target(t)' = Target(t)
  BY <1>1 DEF Target
<1>6. NumbersInv' /\ RegisterInv' /\ TodoInv'
  BY <1>1, <1>4, <1>5 DEF BusInv, NumbersInv, RegisterInv, TodoInv
<1>7. GotInv' /\ LostInv'
  BY <1>1, <1>4 DEF BusInv, GotInv, LostInv
<1>8. QED
  BY <1>6, <1>7 DEF BusInv

(* The invariant of the bus.                                               *)
THEOREM BusCorrect == Spec => []BusInv
<1>1. Init => BusInv
  <2> SUFFICES ASSUME Init PROVE BusInv
      OBVIOUS
  <2>1. /\ recent = <<>> /\ subscribers = <<>>
        /\ \A t \in Threads : todo[t] = <<>> /\ phase[t] = "put"
        /\ \A s \in Subscribers : queue[s] = <<>> /\ seen[s] = <<>> /\ state[s] = "new"
                                  /\ replayed[s] = {} /\ live[s] = {}
      BY DEF Init
  <2>2. Items(<<>>) = {} /\ Distinct(<<>>) /\ RisingTodo(<<>>) /\ \A L : Rising(<<>>, L)
      BY DEF Items, Distinct, RisingTodo, Rising
  <2>3. \A s \in Subscribers : Got(s) = <<>> /\ Owed(s) = {}
      BY <2>1 DEF Got, Owed
  <2>4. NumbersInv /\ RegisterInv /\ GotInv /\ LostInv
      BY <2>1, <2>2, <2>3 DEF NumbersInv, RegisterInv, GotInv, LostInv
  <2>5. TodoInv
      BY <2>1, <2>2 DEF TodoInv, Threads
  <2>6. QED
      BY <2>4, <2>5 DEF BusInv
<1>2. TypeOK /\ BusInv /\ [Next]_vars => BusInv'
  <2> SUFFICES ASSUME TypeOK, BusInv, [Next]_vars
               PROVE  BusInv'
      OBVIOUS
  <2>1. CASE UNCHANGED vars
    <3>1. \A r : Got(r)' = Got(r) /\ Owed(r)' = Owed(r) /\ Target(r)' = Target(r)
        BY <2>1 DEF vars, Got, Owed, Target
    <3>2. NumbersInv' /\ RegisterInv' /\ TodoInv'
        BY <2>1, <3>1 DEF vars, BusInv, NumbersInv, RegisterInv, TodoInv
    <3>3. GotInv' /\ LostInv'
        BY <2>1, <3>1 DEF vars, BusInv, GotInv, LostInv
    <3>4. QED
        BY <3>2, <3>3 DEF BusInv
  <2>2. ASSUME NEW p \in Publishers, Publish(p)
        PROVE  BusInv'
      BY <2>2, PublishKeeps
  <2>3. ASSUME NEW t \in Threads, Deliver(t)
        PROVE  BusInv'
      BY <2>3, DeliverKeeps
  <2>4. ASSUME NEW s \in Subscribers, Subscribe(s)
        PROVE  BusInv'
      BY <2>4, SubscribeKeeps
  <2>5. ASSUME NEW s \in Subscribers, Subscribed(s) \/ Unsubscribe(s)
        PROVE  BusInv'
      BY <2>5, StateKeeps
  <2>6. ASSUME NEW s \in Subscribers, Read(s)
        PROVE  BusInv'
      BY <2>6, ReadKeeps
  <2>7. QED
      BY <2>1, <2>2, <2>3, <2>4, <2>5, <2>6 DEF Next, Threads
<1>3. QED
  BY <1>1, <1>2, BusTypeCorrect, PTL DEF Spec

(* What is under way from a thread to a subscriber.                        *)
LEMMA UnderWayIs ==
    ASSUME NEW t, NEW s, NEW e
    PROVE  e \in UnderWay(t, s) <=> \E d \in Todos(t) : d[1] = s /\ d[2] = e
BY DEF UnderWay, Todos, Items

(* publish() and subscribe(): every subscriber gets an event at most once, *)
(* and only events it asked for.                                           *)
THEOREM EachEventOnceHolds == Spec => []EachEventOnce
<1>1. TypeOK /\ BusInv => EachEventOnce
  <2> SUFFICES ASSUME TypeOK, BusInv, NEW s \in Subscribers
               PROVE  /\ Distinct(Got(s)) /\ Items(Got(s)) \subseteq Owed(s)
                      /\ \A t \in Threads : UnderWay(t, s) \cap Items(Got(s)) = {}
                      /\ \A t, u \in Threads : t # u => UnderWay(t, s) \cap UnderWay(u, s) = {}
      BY DEF EachEventOnce, Distinct
  <2>1. Distinct(Got(s)) /\ Items(Got(s)) \subseteq Owed(s)
      BY DEF BusInv, GotInv
  <2>2. ASSUME NEW t \in Threads, NEW e \in UnderWay(t, s)
        PROVE  e \notin Items(Got(s))
    <3>1. PICK d \in Todos(t) : d[1] = s /\ d[2] = e
        BY <2>2, UnderWayIs
    <3>2. QED
        BY <3>1 DEF BusInv, GotInv, Todos
  <2>3. ASSUME NEW t \in Threads, NEW u \in Threads, t # u, NEW e \in UnderWay(t, s)
        PROVE  e \notin UnderWay(u, s)
    <3>1. PICK c \in Todos(t) : c[1] = s /\ c[2] = e
        BY <2>3, UnderWayIs
    <3>2. \A d \in Todos(u) : d[1] = s => d[2] # e
        BY <2>3, <3>1, Apart
    <3>3. QED
        BY <3>2, UnderWayIs
  <2>4. QED
      BY <2>1, <2>2, <2>3
<1>2. QED
  BY <1>1, BusTypeCorrect, BusCorrect, PTL

(* _put_nonblocking: as long as no delivery found its queue full, a        *)
(* subscriber has, or is about to get, every event it asked for.           *)
THEOREM LostOnlyByOverflowHolds == Spec => []LostOnlyByOverflow
<1>1. TypeOK /\ BusInv => LostOnlyByOverflow
  <2> SUFFICES ASSUME TypeOK, BusInv, NEW s \in Subscribers, ~overflowed[s], NEW e
               PROVE  e \in Owed(s) <=>
                        e \in Items(Got(s)) \/ \E t \in Threads : e \in UnderWay(t, s)
      BY DEF LostOnlyByOverflow
  <2>1. ASSUME e \in Owed(s)
        PROVE  e \in Items(Got(s)) \/ \E t \in Threads : e \in UnderWay(t, s)
    <3>1. e \in Items(Got(s)) \/ \E t \in Threads : <<s, e>> \in Todos(t)
        BY <2>1 DEF BusInv, LostInv, Todos
    <3>2. \A t \in Threads : <<s, e>> \in Todos(t) => e \in UnderWay(t, s)
        BY UnderWayIs
    <3>3. QED
        BY <3>1, <3>2
  <2>2. Items(Got(s)) \subseteq Owed(s)
      BY DEF BusInv, GotInv
  <2>3. ASSUME NEW t \in Threads, e \in UnderWay(t, s)
        PROVE  e \in Owed(s)
    <3>1. PICK d \in Todos(t) : d[1] = s /\ d[2] = e
        BY <2>3, UnderWayIs
    <3>2. QED
        BY <3>1, DeliveryIs
  <2>4. QED
      BY <2>1, <2>2, <2>3
<1>2. QED
  BY <1>1, BusTypeCorrect, BusCorrect, PTL

(* The replay and the live events each come in the order in which the      *)
(* publisher published them.                                               *)
THEOREM OrderedHolds == Spec => []OrderedPerPublisher
<1>1. BusInv => OrderedPerPublisher
  BY DEF BusInv, GotInv, Rising, OrderedPerPublisher
<1>2. QED
  BY <1>1, BusCorrect, PTL

=============================================================================
