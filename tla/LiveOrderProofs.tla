---------------------------- MODULE LiveOrderProofs ----------------------------
(***************************************************************************)
(* Theorems about LiveOrder for any callers, any number of requests,       *)
(* synchronisations, posts and faults, with or without a take-profit.      *)
(***************************************************************************)
EXTENDS LiveOrder, TLAPS

EntryStates == {"CANCELED", "FILLED"} \union OpenStatus
AlgoStates == {"absent", "NEW", "CANCELED", "FILLED"}
Venues == [entry : {"absent"} \union EntryStates, exposed : BOOLEAN, algos : Seq(AlgoStates)]

CallPlaces ==
    {"idle", "post", "posted", "delete", "deleted", "ask", "settle", "verified", "protect",
     "confirm", "cleanup", "keep", "positions", "orders"}
Calls ==
    [at : CallPlaces, op : {"none", "create", "query", "cancel", "sync"}, order : Order,
     kid : {"STOP", "PROFIT"}, left : SUBSET Kinds, unsure : BOOLEAN,
     seen : {"none", "lost"} \union EntryStates, flat : 0 .. MaxSyncs, passes : 0 .. 2]

-----------------------------------------------------------------------------
(* What an order, and the copy of a call, may say of the venue v once n    *)
(* synchronisations have begun.                                            *)

\* A child is named once it was posted; what was heard of it stays true.
KidTrue(kid, v) ==
    /\ kid.id <= Len(v.algos)
    /\ kid.status = "none" <=> kid.id = 0
    /\ kid.status = "CONFIRMED" => v.algos[kid.id] # "absent"
    /\ kid.status \in {"CANCELED", "TRIGGERED"} => v.algos[kid.id] # "NEW"

OrderTrue(o, v, n) ==
    /\ o \in Order /\ o.stamp <= n
    /\ o.status = "FILLED" => v.entry = "FILLED"
    /\ \A k \in Kinds : KidTrue(o.kids[k], v)

Posturing(c) ==
    c.at \in {"protect", "confirm", "cleanup", "keep"} \/ (c.at = "settle" /\ c.passes > 0)

\* The call has heard of the entry, or that nothing was to be heard.
Heard(c) ==
    \/ c.at \in {"posted", "deleted", "verified"}
    \/ c.at = "settle" /\ c.passes = 0 /\ c.op # "sync"

HeardOfEntry(c, v) ==
    Heard(c) => c.seen # "none" /\ (c.seen = "FILLED" => v.entry = "FILLED")

PostureTrue(c, v) ==
    /\ c.op = "query" /\ c.kid \in Kinds
    /\ c.at \in {"protect", "keep"} => c.left = {}
    /\ c.at = "protect" => c.order.kids[c.kid].id = 0
    /\ c.at \in {"confirm", "settle"} => c.order.kids[c.kid].id # 0
    /\ c.at = "settle" /\ c.seen = "NEW" => v.algos[c.order.kids[c.kid].id] # "absent"
    /\ c.at = "settle" /\ c.seen \in {"FILLED", "CANCELED"} =>
          v.algos[c.order.kids[c.kid].id] # "NEW"
    /\ c.at = "cleanup" => c.left # {}
    /\ \A k \in c.left : c.order.kids[k].id # 0

CallTrue(c, v, n) ==
    /\ c \in Calls /\ OrderTrue(c.order, v, n) /\ c.flat <= n
    /\ c.at = "idle" <=> c = NoCall
    /\ c.passes > 0 <=> Posturing(c)
    /\ Posturing(c) => PostureTrue(c, v)
    /\ ~Posturing(c) => c.left = {} /\ c.kid = "STOP"
    /\ c.op = "sync" <=> c.at \in {"positions", "orders"} \/ (c.at = "settle" /\ c.op = "sync")
    /\ c.op = "create" => c.at \in {"post", "posted", "ask", "settle", "verified"}
    /\ c.at \in {"post", "posted"} => c.op = "create"
    /\ c.at \in {"delete", "deleted"} => c.op = "cancel"
    /\ c.at # "idle" => c.op # "none"
    /\ c.op \notin {"none", "sync"} => c.order.status # "none"
    /\ HeardOfEntry(c, v)

\* Orders of the exchange come, and end, but an end is never undone.
VenueMoves(v, w) ==
    /\ v.entry = "FILLED" => w.entry = "FILLED"
    /\ Len(v.algos) <= Len(w.algos)
    /\ \A i \in 1 .. Len(v.algos) :
          /\ v.algos[i] # "absent" => w.algos[i] # "absent"
          /\ v.algos[i] # "NEW" => w.algos[i] # "NEW"

(* The bounds are numbers, and a stop is always asked for.                 *)
LEMMA LiveNumbers ==
    /\ MaxSyncs \in Nat /\ MaxPosts \in Nat
    /\ "STOP" \in Kinds /\ \A k \in Kinds : k \in {"STOP", "PROFIT"}
BY LiveAssumption

(* What an order says stays true while the exchange moves on.              *)
LEMMA OrderStaysTrue ==
    ASSUME NEW v \in Venues, NEW w \in Venues, VenueMoves(v, w),
           NEW n \in Nat, NEW m \in Nat, n <= m,
           NEW o, OrderTrue(o, v, n)
    PROVE  OrderTrue(o, w, m)
<1>1. o \in Order /\ o.stamp \in Nat /\ \A k \in Kinds : o.kids[k] \in Kid
  BY LiveNumbers DEF OrderTrue, Order
<1>2. ASSUME NEW k \in Kinds
      PROVE  KidTrue(o.kids[k], w)
  <2>1. o.kids[k].id \in Nat /\ KidTrue(o.kids[k], v)
      BY <1>1, LiveNumbers DEF OrderTrue, Kid
  <2>2. Len(v.algos) \in Nat /\ Len(w.algos) \in Nat
      BY DEF Venues
  <2>3. QED
      BY <2>1, <2>2 DEF KidTrue, VenueMoves
<1>3. QED
  BY <1>1, <1>2 DEF OrderTrue, VenueMoves

(* And so does what a call has heard.                                      *)
LEMMA CallStaysTrue ==
    ASSUME NEW v \in Venues, NEW w \in Venues, VenueMoves(v, w),
           NEW n \in Nat, NEW m \in Nat, n <= m,
           NEW c, CallTrue(c, v, n)
    PROVE  CallTrue(c, w, m)
<1>1. OrderTrue(c.order, w, m)
  BY OrderStaysTrue DEF CallTrue
<1>2. c.flat \in Nat /\ c \in Calls
  BY LiveNumbers DEF CallTrue, Calls
<1>3. HeardOfEntry(c, w)
  BY DEF CallTrue, HeardOfEntry, VenueMoves
<1>4. ASSUME Posturing(c)
      PROVE  PostureTrue(c, w)
  <2>1. PostureTrue(c, v) /\ OrderTrue(c.order, v, n)
      BY <1>4 DEF CallTrue
  <2>2. c.order.kids[c.kid].id \in Nat /\ c.order.kids[c.kid].id <= Len(v.algos)
      BY <2>1, LiveNumbers DEF PostureTrue, OrderTrue, KidTrue, Order, Kid
  <2>3. Len(v.algos) \in Nat
      BY DEF Venues
  <2>4. QED
      BY <2>1, <2>2, <2>3 DEF PostureTrue, VenueMoves
<1>5. QED
  BY <1>1, <1>2, <1>3, <1>4 DEF CallTrue

-----------------------------------------------------------------------------
(* The posture of a call.                                                  *)

\* d goes on with what c has, and has nothing to say that is not true.
GoesOn(c, d, v, n) ==
    /\ CallTrue(d, v, n) /\ Posturing(d) /\ d.at # "settle"
    /\ d.order = c.order /\ d.flat = c.flat /\ d.passes = c.passes

\* c may be given to the operators that choose what comes next.
Ready(c, v, n) ==
    /\ c \in Calls /\ OrderTrue(c.order, v, n) /\ c.flat <= n
    /\ c.op = "query" /\ c.passes > 0 /\ c.order.status # "none"

(* _ensure_protective_child() posts or asks.                               *)
LEMMA EnsureGoesOn ==
    ASSUME NEW v \in Venues, NEW n \in Nat, NEW c, Ready(c, v, n), c.left = {}, NEW k \in Kinds
    PROVE  GoesOn(c, Ensure(c, k), v, n)
<1> DEFINE d == Ensure(c, k)
           wary == c.order.kids[k].status \in {"PENDING", "DEGRADED"}
           place == IF HasId(c.order.kids[k]) THEN "confirm" ELSE "protect"
<1>1. d = [c EXCEPT !.kid = k, !.at = place, !.unsure = wary]
  BY DEF Ensure
<1>2. wary \in BOOLEAN /\ place \in {"confirm", "protect"} /\ k \in {"STOP", "PROFIT"}
  BY LiveNumbers
<1>3. place = "protect" <=> c.order.kids[k].id = 0
  BY DEF HasId
<1> HIDE DEF wary, place, d
<1>4. /\ d \in Calls /\ d.at = place /\ d.kid = k /\ d.order = c.order /\ d.left = {}
      /\ d.flat = c.flat /\ d.passes = c.passes /\ d.op = "query"
  BY <1>1, <1>2 DEF Ready, Calls, CallPlaces
<1>5. Posturing(d) /\ ~Heard(d) /\ d # NoCall
  BY <1>2, <1>4 DEF Posturing, Heard, NoCall
<1>6. PostureTrue(d, v)
  BY <1>2, <1>3, <1>4 DEF PostureTrue
<1>7. QED
  BY <1>2, <1>4, <1>5, <1>6 DEF GoesOn, CallTrue, Ready, HeardOfEntry, d

(* The clean-up goes through children that were posted.                    *)
LEMMA CancelEachGoesOn ==
    ASSUME NEW v \in Venues, NEW n \in Nat, NEW c, Ready(c, v, n), NEW left \in SUBSET Kinds,
           \A k \in left : c.order.kids[k].id # 0
    PROVE  GoesOn(c, CancelEach(c, left), v, n)
<1> DEFINE d == CancelEach(c, left)
           place == IF left = {} THEN "keep" ELSE "cleanup"
<1>1. d = [c EXCEPT !.left = left, !.at = place, !.kid = "STOP", !.unsure = FALSE]
  BY DEF CancelEach
<1>2. place \in {"keep", "cleanup"} /\ (place = "cleanup" <=> left # {})
  OBVIOUS
<1> HIDE DEF place, d
<1>3. /\ d \in Calls /\ d.at = place /\ d.kid = "STOP" /\ d.order = c.order /\ d.left = left
      /\ d.flat = c.flat /\ d.passes = c.passes /\ d.op = "query"
  BY <1>1, <1>2 DEF Ready, Calls, CallPlaces
<1>4. Posturing(d) /\ ~Heard(d) /\ d # NoCall
  BY <1>2, <1>3 DEF Posturing, Heard, NoCall
<1>5. PostureTrue(d, v)
  BY <1>2, <1>3, LiveNumbers DEF PostureTrue
<1>6. QED
  BY <1>2, <1>3, <1>4, <1>5 DEF GoesOn, CallTrue, Ready, HeardOfEntry, d

(* What is to be cancelled is active, and so was posted.                   *)
LEMMA ClosureGoesOn ==
    ASSUME NEW v \in Venues, NEW n \in Nat, NEW c, Ready(c, v, n)
    PROVE  GoesOn(c, Closure(c), v, n)
<1>1. ToCancel(c.order) \in SUBSET Kinds
  BY DEF ToCancel
<1>2. \A k \in ToCancel(c.order) : c.order.kids[k].id # 0
  BY DEF ToCancel, ActiveKid, Ready, OrderTrue, KidTrue
<1>3. QED
  BY <1>1, <1>2, CancelEachGoesOn DEF Closure

(* After a child comes the next one.                                       *)
LEMMA NextKidGoesOn ==
    ASSUME NEW v \in Venues, NEW n \in Nat, NEW c, Ready(c, v, n),
           \A k \in c.left : c.order.kids[k].id # 0
    PROVE  GoesOn(c, NextKid(c), v, n)
<1>1. CASE c.left # {}
  <2>1. c.left \ {c.kid} \in SUBSET Kinds
      BY DEF Ready, Calls
  <2>2. QED
      BY <1>1, <2>1, CancelEachGoesOn DEF NextKid
<1>2. CASE c.left = {} /\ c.kid = "STOP" /\ "PROFIT" \in Kinds
  BY <1>2, EnsureGoesOn DEF NextKid
<1>3. CASE c.left = {} /\ ~(c.kid = "STOP" /\ "PROFIT" \in Kinds)
  BY <1>3, ClosureGoesOn DEF NextKid
<1>4. QED
  BY <1>1, <1>2, <1>3

(* The posture begins with the stop, with the clean-up or with nothing.    *)
LEMMA PostureGoesOn ==
    ASSUME NEW v \in Venues, NEW n \in Nat, NEW c, Ready(c, v, n), c.left = {}, c.kid \in Kinds
    PROVE  GoesOn(c, Posture(c), v, n)
<1>1. CASE EntryAllows(c.order)
  <2>1. Posture(c) = Ensure(c, "STOP")
      BY <1>1 DEF Posture, EntryAllows, Terminal
  <2>2. QED
      BY <2>1, LiveNumbers, EnsureGoesOn
<1>2. CASE ~EntryAllows(c.order) /\ Terminal(c.order)
  BY <1>2, ClosureGoesOn DEF Posture
<1>3. CASE ~EntryAllows(c.order) /\ ~Terminal(c.order)
  <2> DEFINE d == [c EXCEPT !.at = "keep"]
  <2>1. Posture(c) = d
      BY <1>3 DEF Posture
  <2>2. /\ d \in Calls /\ d.at = "keep" /\ d.kid = c.kid /\ d.order = c.order /\ d.left = {}
        /\ d.flat = c.flat /\ d.passes = c.passes /\ d.op = "query"
      BY DEF Ready, Calls, CallPlaces
  <2> HIDE DEF d
  <2>3. Posturing(d) /\ ~Heard(d) /\ d # NoCall /\ PostureTrue(d, v)
      BY <2>2 DEF Posturing, Heard, NoCall, PostureTrue
  <2>4. QED
      BY <2>1, <2>2, <2>3 DEF GoesOn, CallTrue, Ready, HeardOfEntry
<1>4. QED
  BY <1>1, <1>2, <1>3

\* The order with another child of this kind.
Given(o, k, kid) == [o EXCEPT !.kids = [o.kids EXCEPT ![k] = kid]]

(* A child that is given what is true of it leaves the order true.         *)
LEMMA KidGiven ==
    ASSUME NEW v \in Venues, NEW n \in Nat, NEW o, OrderTrue(o, v, n),
           NEW k \in Kinds, NEW kid \in Kid, KidTrue(kid, v)
    PROVE  /\ OrderTrue(Given(o, k, kid), v, n) /\ Given(o, k, kid).status = o.status
           /\ Given(o, k, kid).stamp = o.stamp /\ Given(o, k, kid).prot = o.prot
           /\ Given(o, k, kid).closed = o.closed /\ Given(o, k, kid).kids[k] = kid
           /\ \A j \in Kinds : j # k => Given(o, k, kid).kids[j] = o.kids[j]
<1> DEFINE kids == [o.kids EXCEPT ![k] = kid]
           p == Given(o, k, kid)
<1>1. o \in Order /\ o.kids \in [Kinds -> Kid]
  BY DEF OrderTrue, Order
<1>2. /\ kids \in [Kinds -> Kid] /\ kids[k] = kid
      /\ \A j \in Kinds : j # k => kids[j] = o.kids[j]
  BY <1>1
<1>3. p = [o EXCEPT !.kids = kids]
  BY DEF Given
<1> HIDE DEF kids, p
<1>4. /\ p \in Order /\ p.kids = kids /\ p.status = o.status /\ p.stamp = o.stamp
      /\ p.prot = o.prot /\ p.closed = o.closed
  BY <1>1, <1>2, <1>3 DEF Order
<1>5. \A j \in Kinds : KidTrue(p.kids[j], v)
  BY <1>2, <1>4 DEF OrderTrue
<1>6. QED
  BY <1>2, <1>4, <1>5 DEF OrderTrue, p

\* The two orders name the same children.
SameNames(o, p) == \A k \in Kinds : p.kids[k].id = o.kids[k].id

(* What _confirm_protective_child() makes of a true answer is true.        *)
LEMMA WithKidGoesOn ==
    ASSUME NEW v \in Venues, NEW n \in Nat, NEW c, Ready(c, v, n), c.kid \in Kinds,
           c.order.kids[c.kid].id # 0, \A k \in c.left : c.order.kids[k].id # 0,
           NEW status \in KidStatuses \ {"none"},
           status = "CONFIRMED" => v.algos[c.order.kids[c.kid].id] # "absent",
           status \in {"CANCELED", "TRIGGERED"} => v.algos[c.order.kids[c.kid].id] # "NEW"
    PROVE  LET d == WithKid(c, status)
           IN  /\ CallTrue(d, v, n) /\ Posturing(d) /\ d.at # "settle"
               /\ d.flat = c.flat /\ d.passes = c.passes /\ SameNames(c.order, d.order)
               /\ d.order.status = c.order.status /\ d.order.stamp = c.order.stamp
<1> DEFINE kid == [c.order.kids[c.kid] EXCEPT !.status = status]
           o == Given(c.order, c.kid, kid)
           e == [c EXCEPT !.order = o, !.seen = "none"]
<1>1. WithKid(c, status) = NextKid(e)
  BY DEF WithKid, Given
<1>2. c \in Calls /\ OrderTrue(c.order, v, n) /\ c.order.kids[c.kid] \in Kid
      /\ KidTrue(c.order.kids[c.kid], v)
  BY DEF Ready, OrderTrue, Order
<1>3. kid \in Kid /\ kid.id = c.order.kids[c.kid].id /\ kid.status = status
  BY <1>2 DEF Kid
<1>4. KidTrue(kid, v)
  BY <1>2, <1>3 DEF KidTrue, Kid
<1> HIDE DEF kid
<1>5. /\ OrderTrue(o, v, n) /\ o.status = c.order.status /\ o.stamp = c.order.stamp
      /\ SameNames(c.order, o)
  BY <1>2, <1>3, <1>4, KidGiven DEF SameNames
<1> HIDE DEF o
<1>6. /\ e \in Calls /\ e.order = o /\ e.flat = c.flat /\ e.op = c.op /\ e.passes = c.passes
      /\ e.left = c.left
  BY <1>2, <1>5 DEF Calls, OrderTrue
<1> HIDE DEF e
<1>7. Ready(e, v, n) /\ \A k \in e.left : e.order.kids[k].id # 0
  BY <1>2, <1>5, <1>6 DEF Ready, SameNames, Calls
<1>8. GoesOn(e, NextKid(e), v, n)
  BY <1>7, NextKidGoesOn
<1>9. QED
  BY <1>1, <1>5, <1>6, <1>8 DEF GoesOn

(* A status of a child says what was heard, or that nothing was.           *)
LEMMA KidStatusTrue ==
    ASSUME NEW c, NEW seen
    PROVE  /\ KidStatus(c, seen) \in KidStatuses \ {"none"}
           /\ KidStatus(c, seen) = "CONFIRMED" => seen = "NEW"
           /\ KidStatus(c, seen) = "CANCELED" => seen = "CANCELED"
           /\ KidStatus(c, seen) = "TRIGGERED" => seen = "FILLED"
BY DEF KidStatus, KidStatuses

-----------------------------------------------------------------------------
(* The state.                                                              *)

OneCreation ==
    /\ \A t, u \in Callers : call[t].op = "create" /\ call[u].op = "create" => t = u
    /\ \A t \in Callers : call[t].at = "post" => venue.entry = "absent"
    /\ \A t \in Callers : call[t].op \notin {"none", "sync"} => row # NoRow
    /\ row = NoRow => venue.entry = "absent"

LiveShape ==
    /\ venue \in Venues /\ Len(venue.algos) <= MaxPosts
    /\ syncs \in 0 .. MaxSyncs /\ rest \in 0 .. syncs
    /\ book \in [exposed : BOOLEAN, open : SUBSET Nat]
    /\ \A i \in book.open : i <= Len(venue.algos)
    /\ upset \in {"no", "overlap", "crash"}
    /\ call \in [Callers -> Calls]

LiveTrue ==
    /\ LiveShape
    /\ OrderTrue(row, venue, syncs) /\ (row.status = "none" => row = NoRow)
    /\ \A t \in Callers : CallTrue(call[t], venue, syncs)
    /\ OneCreation

(* An idle call, and a new order, have nothing to say.                     *)
LEMMA NothingSaid ==
    ASSUME NEW v \in Venues, NEW n \in Nat
    PROVE  /\ Fresh \in Order /\ NoRow \in Order /\ NoCall \in Calls
           /\ OrderTrue(Fresh, v, n) /\ OrderTrue(NoRow, v, n) /\ CallTrue(NoCall, v, n)
           /\ NoRow.status = "none" /\ NoCall.order = NoRow /\ Fresh.status = "PENDING"
           /\ \A k \in Kinds : NoRow.kids[k].id = 0 /\ Fresh.kids[k].id = 0
<1>1. NoKid \in Kid /\ [k \in Kinds |-> NoKid] \in [Kinds -> Kid] /\ KidTrue(NoKid, v)
      /\ 0 \in 0 .. MaxSyncs
  BY LiveNumbers DEF NoKid, Kid, KidStatuses, KidTrue, Venues
<1>2. /\ Fresh \in Order /\ Fresh.status = "PENDING" /\ Fresh.stamp = 0
      /\ Fresh.kids = [k \in Kinds |-> NoKid]
  BY <1>1 DEF Fresh, Order
<1>3. /\ NoRow \in Order /\ NoRow.status = "none" /\ NoRow.stamp = 0
      /\ NoRow.kids = [k \in Kinds |-> NoKid]
  BY <1>2 DEF NoRow, Order
<1>4. OrderTrue(Fresh, v, n) /\ OrderTrue(NoRow, v, n)
  BY <1>1, <1>2, <1>3 DEF OrderTrue
<1>5. /\ NoCall \in Calls /\ NoCall.at = "idle" /\ NoCall.op = "none" /\ NoCall.left = {}
      /\ NoCall.flat = 0 /\ NoCall.passes = 0 /\ NoCall.order = NoRow /\ NoCall.kid = "STOP"
  BY <1>1, <1>3, LiveNumbers DEF NoCall, Calls, CallPlaces
<1>6. ~Posturing(NoCall) /\ ~Heard(NoCall)
  BY <1>5 DEF Posturing, Heard
<1>7. CallTrue(NoCall, v, n)
  BY <1>4, <1>5, <1>6 DEF CallTrue, HeardOfEntry
<1>8. QED
  BY <1>1, <1>2, <1>3, <1>4, <1>5, <1>7 DEF NoKid

(* At first there is no order.                                             *)
LEMMA LiveStarts == LiveInit => LiveTrue
<1> SUFFICES ASSUME LiveInit PROVE LiveTrue
    OBVIOUS
<1>1. venue \in Venues /\ Len(venue.algos) = 0
  BY DEF LiveInit, Venues
<1>2. \A t \in Callers : call[t] = NoCall
  BY DEF LiveInit
<1>3. syncs = 0 /\ syncs \in Nat
  BY DEF LiveInit
<1>4. LiveShape
  <2>1. NoCall \in Calls
      BY <1>1, <1>3, NothingSaid
  <2>2. call \in [Callers -> Calls] /\ rest = 0
      BY <2>1 DEF LiveInit
  <2>3. book \in [exposed : BOOLEAN, open : SUBSET Nat] /\ book.open = {}
      BY DEF LiveInit
  <2>4. QED
      BY <1>1, <1>3, <2>2, <2>3, LiveNumbers DEF LiveInit, LiveShape
<1>5. OneCreation
  BY <1>2 DEF LiveInit, OneCreation, NoCall
<1>6. QED
  BY <1>1, <1>2, <1>3, <1>4, <1>5, NothingSaid DEF LiveInit, LiveTrue

(* What each caller had heard stays true, when the others change the rest. *)
LEMMA LiveKept ==
    ASSUME LiveTrue, LiveShape', VenueMoves(venue, venue'), syncs <= syncs',
           OrderTrue(row', venue', syncs'), row'.status = "none" => row' = NoRow,
           \A u \in Callers : call'[u] = call[u] \/ CallTrue(call'[u], venue', syncs'),
           OneCreation'
    PROVE  LiveTrue'
<1>1. venue \in Venues /\ venue' \in Venues /\ syncs \in Nat /\ syncs' \in Nat
  BY LiveNumbers DEF LiveTrue, LiveShape
<1>2. \A u \in Callers : CallTrue(call[u], venue, syncs)
  BY DEF LiveTrue
<1>3. \A u \in Callers : CallTrue(call[u], venue', syncs')
  BY <1>1, <1>2, CallStaysTrue
<1>4. QED
  BY <1>3 DEF LiveTrue

(* A step of one caller that goes on as d keeps the state true if d is.    *)
LEMMA OneGoesOn ==
    ASSUME LiveTrue, NEW t \in Callers, NEW d, Become(t, d), CallTrue(d, venue', syncs'),
           venue' \in Venues, Len(venue'.algos) <= MaxPosts, VenueMoves(venue, venue'),
           syncs <= syncs', syncs' \in 0 .. MaxSyncs, rest' \in 0 .. syncs',
           book' \in [exposed : BOOLEAN, open : SUBSET Nat],
           \A i \in book'.open : i <= Len(venue'.algos),
           upset' \in {"no", "overlap", "crash"},
           OrderTrue(row', venue', syncs'), row'.status # "none" \/ UNCHANGED row,
           d.op = "create" => call[t].op = "create" \/ row = NoRow,
           call[t].at = "post" \/ venue'.entry = venue.entry,
           d.at = "post" => venue'.entry = "absent",
           d.op \notin {"none", "sync"} => row' # NoRow
    PROVE  /\ LiveTrue' /\ call'[t] = d
           /\ \A u \in Callers : u # t => call'[u] = call[u]
<1>1. d \in Calls /\ call \in [Callers -> Calls]
  BY DEF CallTrue, LiveTrue, LiveShape
<1>2. call' \in [Callers -> Calls] /\ call'[t] = d
      /\ \A u \in Callers : u # t => call'[u] = call[u]
  BY <1>1 DEF Become
<1>3. \A u \in Callers : call[u].at = "post" => call[u].op = "create"
  BY DEF LiveTrue, CallTrue
<1>4. row'.status # "none" => row' # NoRow
  BY NothingSaid DEF LiveTrue, LiveShape
<1>5. OneCreation'
  BY <1>2, <1>3, <1>4 DEF LiveTrue, OneCreation
<1>6. LiveShape'
  BY <1>2 DEF LiveShape
<1>7. row'.status = "none" => row' = NoRow
  BY DEF LiveTrue
<1>8. LiveTrue'
  BY <1>2, <1>5, <1>6, <1>7, LiveKept
<1>9. QED
  BY <1>2, <1>8

-----------------------------------------------------------------------------
(* The steps.                                                              *)

(* The exchange moves on its own.                                          *)
LEMMA VenueSteps ==
    ASSUME LiveTrue, Fill \/ EntryEnds \/ Flatten
    PROVE  /\ LiveTrue' /\ VenueMoves(venue, venue')
           /\ DOMAIN venue'.algos = DOMAIN venue.algos
<1>1. venue \in Venues /\ syncs \in Nat /\ UNCHANGED <<row, book, rest, call, syncs, upset>>
  <2>1. UNCHANGED <<row, book, rest, call, syncs, upset>>
      BY DEF Fill, EntryEnds, Flatten
  <2>2. QED
      BY <2>1, LiveNumbers DEF LiveTrue, LiveShape
<1>2. /\ venue' \in Venues /\ VenueMoves(venue, venue') /\ Len(venue'.algos) = Len(venue.algos)
      /\ DOMAIN venue'.algos = DOMAIN venue.algos
      /\ venue.entry = "absent" => venue'.entry = "absent"
  <2>1. CASE Fill
    <3>1. PICK s \in {"PARTIALLY_FILLED", "FILLED"} \ {venue.entry} :
             venue' = [venue EXCEPT !.entry = s, !.exposed = TRUE]
        BY <2>1 DEF Fill
    <3>2. venue.entry \in OpenStatus
        BY <2>1 DEF Fill
    <3>3. /\ venue' \in Venues /\ venue'.algos = venue.algos
        BY <1>1, <3>1 DEF Venues, EntryStates, OpenStatus
    <3>4. QED
        BY <1>1, <3>2, <3>3 DEF OpenStatus, VenueMoves, Venues
  <2>2. CASE EntryEnds
    <3>1. venue' \in Venues /\ venue'.algos = venue.algos /\ venue.entry \in OpenStatus
        BY <1>1, <2>2 DEF EntryEnds, Venues, EntryStates
    <3>2. QED
        BY <1>1, <3>1 DEF OpenStatus, VenueMoves, Venues
  <2>3. CASE Flatten
    <3>1. CASE venue' = [venue EXCEPT !.exposed = FALSE]
      <4>1. /\ venue' \in Venues /\ venue'.algos = venue.algos /\ venue'.entry = venue.entry
          BY <1>1, <3>1 DEF Venues
      <4>2. QED
          BY <1>1, <4>1 DEF Venues, VenueMoves
    <3>2. ASSUME NEW i \in DOMAIN venue.algos,
                 venue' = [venue EXCEPT !.exposed = FALSE, !.algos[i] = "FILLED"]
          PROVE  /\ venue' \in Venues /\ VenueMoves(venue, venue')
                 /\ Len(venue'.algos) = Len(venue.algos)
                 /\ DOMAIN venue'.algos = DOMAIN venue.algos /\ venue'.entry = venue.entry
      <4> DEFINE algos == [venue.algos EXCEPT ![i] = "FILLED"]
      <4>1. /\ algos \in Seq(AlgoStates) /\ Len(algos) = Len(venue.algos)
            /\ DOMAIN algos = DOMAIN venue.algos
            /\ \A j \in 1 .. Len(algos) : algos[j] = "FILLED" \/ algos[j] = venue.algos[j]
          BY <1>1 DEF Venues, AlgoStates
      <4>2. venue' = [venue EXCEPT !.exposed = FALSE, !.algos = algos]
          BY <3>2
      <4> HIDE DEF algos
      <4>3. venue' \in Venues /\ venue'.algos = algos /\ venue'.entry = venue.entry
          BY <1>1, <4>1, <4>2 DEF Venues
      <4>4. Len(venue.algos) \in Nat
          BY <1>1 DEF Venues
      <4>5. QED
          BY <1>1, <4>1, <4>3, <4>4 DEF VenueMoves
    <3>3. QED
        BY <2>3, <3>1, <3>2 DEF Flatten
  <2>4. QED
      BY <2>1, <2>2, <2>3
<1>3. LiveShape'
  BY <1>1, <1>2 DEF LiveTrue, LiveShape
<1>4. OrderTrue(row', venue', syncs')
  BY <1>1, <1>2, OrderStaysTrue DEF LiveTrue
<1>5. OneCreation'
  BY <1>1, <1>2 DEF LiveTrue, OneCreation
<1>6. LiveTrue'
  BY <1>1, <1>2, <1>3, <1>4, <1>5, LiveKept DEF LiveTrue
<1>7. QED
  BY <1>2, <1>6

(* Calls are cut off.                                                      *)
LEMMA DieStep ==
    ASSUME LiveTrue, Die
    PROVE  LiveTrue'
<1>1. /\ call' = [t \in Callers |-> NoCall] /\ upset' = "crash"
      /\ UNCHANGED <<row, venue, book, rest, syncs>>
  BY DEF Die
<1>2. venue \in Venues /\ syncs \in Nat
  BY LiveNumbers DEF LiveTrue, LiveShape
<1>3. NoCall \in Calls /\ CallTrue(NoCall, venue, syncs) /\ NoCall.op = "none"
      /\ NoCall.at = "idle"
  BY <1>2, NothingSaid DEF NoCall
<1>4. call' \in [Callers -> Calls] /\ \A u \in Callers : call'[u] = NoCall
  BY <1>1, <1>3
<1>5. OneCreation'
  BY <1>1, <1>3, <1>4 DEF LiveTrue, OneCreation
<1>6. LiveShape' /\ VenueMoves(venue, venue')
  BY <1>1, <1>2, <1>4 DEF LiveTrue, LiveShape, VenueMoves, Venues
<1>7. QED
  BY <1>1, <1>2, <1>3, <1>4, <1>5, <1>6, LiveKept DEF LiveTrue

\* What most steps of a call leave alone.
Steady ==
    /\ venue \in Venues /\ syncs \in Nat /\ syncs \in 0 .. MaxSyncs /\ rest \in 0 .. syncs
    /\ Len(venue.algos) \in Nat /\ Len(venue.algos) <= MaxPosts /\ VenueMoves(venue, venue)
    /\ book \in [exposed : BOOLEAN, open : SUBSET Nat]
    /\ \A i \in book.open : i <= Len(venue.algos)
    /\ upset \in {"no", "overlap", "crash"}
    /\ OrderTrue(row, venue, syncs) /\ (row.status = "none" => row = NoRow)

(* These are as they should be.                                            *)
LEMMA LiveSteady == LiveTrue => Steady
BY LiveNumbers DEF LiveTrue, LiveShape, Steady, VenueMoves, Venues

(* A call begins, with the row it just saved, with the row as it is, or to *)
(* synchronise.                                                            *)
LEMMA StartSteps ==
    ASSUME LiveTrue, NEW t \in Callers,
           CreateOrder(t) \/ LoadOrder(t, "query") \/ LoadOrder(t, "cancel") \/ Sync(t)
    PROVE  LiveTrue'
<1> USE LiveNumbers
<1>1. Steady /\ NoCall \in Calls /\ NoCall.order = NoRow
  BY LiveSteady, NothingSaid DEF Steady
<1>2. CASE CreateOrder(t)
  <2> DEFINE order == [Fresh EXCEPT !.stamp = syncs]
             d == [NoCall EXCEPT !.at = "post", !.op = "create", !.order = order]
  <2>1. /\ row = NoRow /\ row' = order /\ Become(t, d) /\ upset' \in {upset, "overlap"}
        /\ UNCHANGED <<venue, book, rest, syncs>>
      BY <1>2 DEF CreateOrder, Start
  <2>2. OrderTrue(Fresh, venue, syncs) /\ Fresh \in Order /\ Fresh.status = "PENDING"
      BY <1>1, NothingSaid DEF Steady
  <2>3. OrderTrue(order, venue, syncs) /\ order.status = "PENDING"
      BY <1>1, <2>2 DEF Steady, OrderTrue, Order
  <2> HIDE DEF order
  <2>4. /\ d \in Calls /\ d.at = "post" /\ d.op = "create" /\ d.order = order /\ d.left = {}
        /\ d.flat = 0 /\ d.passes = 0 /\ d.kid = "STOP"
      BY <2>3, <1>1 DEF NoCall, Calls, CallPlaces, OrderTrue
  <2> HIDE DEF d
  <2>5. CallTrue(d, venue, syncs)
      BY <1>1, <2>3, <2>4 DEF CallTrue, Posturing, HeardOfEntry, Heard, NoCall, Steady
  <2>6. row' # NoRow
      BY <1>1, <2>1, <2>3, NothingSaid DEF Steady
  <2>7. venue.entry = "absent"
      BY <2>1 DEF LiveTrue, OneCreation
  <2>8. QED
      BY <1>1, <2>1, <2>3, <2>4, <2>5, <2>6, <2>7, OneGoesOn DEF Steady
<1>3. ASSUME NEW op \in {"query", "cancel"}, LoadOrder(t, op)
      PROVE  LiveTrue'
  <2> DEFINE place == IF op = "cancel" THEN "delete" ELSE "ask"
             d == [NoCall EXCEPT !.at = place, !.op = op, !.order = row]
  <2>1. /\ row # NoRow /\ Become(t, d) /\ upset' \in {upset, "overlap"}
        /\ UNCHANGED <<row, venue, book, rest, syncs>>
      BY <1>3 DEF LoadOrder, Start
  <2>2. place \in {"delete", "ask"} /\ (place = "delete" => op = "cancel")
      OBVIOUS
  <2> HIDE DEF place
  <2>3. /\ d \in Calls /\ d.at = place /\ d.op = op /\ d.order = row /\ d.left = {}
        /\ d.flat = 0 /\ d.passes = 0 /\ d.kid = "STOP"
      BY <1>1, <2>2 DEF NoCall, Calls, CallPlaces, OrderTrue, Steady
  <2> HIDE DEF d
  <2>4. row.status # "none"
      BY <1>1, <2>1 DEF Steady
  <2>5. CallTrue(d, venue, syncs)
      BY <1>1, <2>2, <2>3, <2>4
      DEF CallTrue, Posturing, HeardOfEntry, Heard, NoCall, Steady
  <2>6. QED
      BY <1>1, <2>1, <2>2, <2>3, <2>5, OneGoesOn DEF Steady
<1>4. CASE Sync(t)
  <2> DEFINE d == [NoCall EXCEPT !.at = "positions", !.op = "sync", !.flat = syncs + 1]
  <2>1. /\ syncs < MaxSyncs /\ syncs' = syncs + 1 /\ Become(t, d)
        /\ upset' \in {upset, "overlap"} /\ UNCHANGED <<row, venue, book, rest>>
      BY <1>4 DEF Sync, Start
  <2>2. syncs' \in 0 .. MaxSyncs /\ syncs <= syncs' /\ rest' \in 0 .. syncs' /\ syncs' \in Nat
      BY <1>1, <2>1 DEF Steady
  <2>3. /\ d \in Calls /\ d.at = "positions" /\ d.op = "sync" /\ d.order = NoRow
        /\ d.left = {} /\ d.flat = syncs' /\ d.passes = 0 /\ d.kid = "STOP"
      BY <1>1, <2>1, <2>2 DEF NoCall, Calls, CallPlaces
  <2> HIDE DEF d
  <2>4. OrderTrue(NoRow, venue, syncs') /\ OrderTrue(row, venue, syncs')
      BY <1>1, <2>2, NothingSaid, OrderStaysTrue DEF Steady
  <2>5. CallTrue(d, venue, syncs')
      BY <1>1, <2>2, <2>3, <2>4
      DEF CallTrue, Posturing, HeardOfEntry, Heard, NoCall, Steady
  <2>6. QED
      BY <1>1, <2>1, <2>2, <2>3, <2>4, <2>5, OneGoesOn DEF Steady
<1>5. QED
  BY <1>2, <1>3, <1>4

(* A call that ends is idle, whatever it leaves behind.                    *)
LEMMA EndOfCall ==
    ASSUME LiveTrue, NEW t \in Callers, Become(t, NoCall),
           venue' = venue, UNCHANGED <<row, syncs, upset>>, rest' \in 0 .. syncs,
           book' \in [exposed : BOOLEAN, open : SUBSET Nat],
           \A i \in book'.open : i <= Len(venue.algos)
    PROVE  LiveTrue' /\ call'[t] = NoCall /\ \A u \in Callers : u # t => call'[u] = call[u]
<1>1. Steady /\ CallTrue(NoCall, venue, syncs) /\ NoCall.op = "none" /\ NoCall.at = "idle"
  BY LiveSteady, NothingSaid DEF Steady, NoCall
<1>2. QED
  BY <1>1, OneGoesOn DEF Steady

(* create_manual_order(): the post, and what is made of its answer.        *)
LEMMA SubmitSteps ==
    ASSUME LiveTrue, NEW t \in Callers, PostEntry(t) \/ SaveSubmission(t)
    PROVE  LiveTrue'
<1> DEFINE c == call[t]
<1>1. Steady /\ CallTrue(c, venue, syncs) /\ c \in Calls
  BY LiveSteady DEF LiveTrue, CallTrue
<1>2. CASE PostEntry(t)
  <2>1. /\ c.at = "post" /\ UNCHANGED <<row, book, rest, syncs, upset>>
        /\ \/ Become(t, NoCall) /\ UNCHANGED venue
           \/ \E seen \in {"NEW", "FILLED", "lost"} :
                 /\ Become(t, [c EXCEPT !.at = "posted", !.seen = seen])
                 /\ \/ UNCHANGED venue /\ seen = "lost"
                    \/ \E s \in {"NEW", "FILLED"} :
                          /\ venue' = [venue EXCEPT !.entry = s, !.exposed = (s = "FILLED")]
                          /\ seen \in {s, "lost"}
      BY <1>2 DEF PostEntry
  <2>2. venue.entry = "absent" /\ c.op = "create" /\ row # NoRow
      BY <1>1, <2>1 DEF LiveTrue, OneCreation, CallTrue
  <2>3. ASSUME Become(t, NoCall), UNCHANGED venue
        PROVE  LiveTrue'
      BY <1>1, <2>1, <2>3, EndOfCall DEF Steady
  <2>4. ASSUME NEW seen \in {"NEW", "FILLED", "lost"},
               Become(t, [c EXCEPT !.at = "posted", !.seen = seen]),
               \/ UNCHANGED venue /\ seen = "lost"
               \/ \E s \in {"NEW", "FILLED"} :
                     /\ venue' = [venue EXCEPT !.entry = s, !.exposed = (s = "FILLED")]
                     /\ seen \in {s, "lost"}
        PROVE  LiveTrue'
    <3> DEFINE d == [c EXCEPT !.at = "posted", !.seen = seen]
    <3>1. /\ venue' \in Venues /\ venue'.algos = venue.algos
          /\ seen = "FILLED" => venue'.entry = "FILLED"
      <4>1. CASE UNCHANGED venue /\ seen = "lost"
          BY <1>1, <4>1 DEF Steady
      <4>2. ASSUME NEW s \in {"NEW", "FILLED"}, seen \in {s, "lost"},
                   venue' = [venue EXCEPT !.entry = s, !.exposed = (s = "FILLED")]
            PROVE  /\ venue' \in Venues /\ venue'.algos = venue.algos
                   /\ seen = "FILLED" => venue'.entry = "FILLED"
        <5> DEFINE filled == s = "FILLED"
        <5>1. filled \in BOOLEAN /\ venue' = [venue EXCEPT !.entry = s, !.exposed = filled]
            BY <4>2
        <5> HIDE DEF filled
        <5>2. QED
            BY <1>1, <4>2, <5>1 DEF Steady, Venues, EntryStates, OpenStatus
      <4>3. QED
          BY <2>4, <4>1, <4>2
    <3>2. VenueMoves(venue, venue')
        BY <1>1, <2>2, <3>1 DEF VenueMoves, Steady
    <3>3. /\ d \in Calls /\ d.at = "posted" /\ d.op = "create" /\ d.order = c.order
          /\ d.seen = seen /\ d.left = c.left /\ d.flat = c.flat /\ d.passes = c.passes
          /\ d.kid = c.kid
        BY <1>1, <2>2 DEF Calls, CallPlaces, EntryStates, OpenStatus
    <3>4. Become(t, d)
        BY <2>4
    <3> HIDE DEF d
    <3>5. OrderTrue(c.order, venue', syncs) /\ OrderTrue(row, venue', syncs)
        BY <1>1, <3>1, <3>2, OrderStaysTrue DEF CallTrue, Steady
    <3>6. CallTrue(d, venue', syncs)
        BY <1>1, <2>1, <2>2, <3>1, <3>3, <3>5
        DEF CallTrue, Posturing, HeardOfEntry, Heard, NoCall
    <3>7. QED
        BY <1>1, <2>1, <2>2, <3>1, <3>2, <3>3, <3>4, <3>5, <3>6, OneGoesOn DEF Steady
  <2>5. QED
      BY <2>1, <2>3, <2>4
<1>3. CASE SaveSubmission(t)
  <2> DEFINE status == IF c.seen = "lost" THEN "PENDING" ELSE c.seen
             order == [c.order EXCEPT !.status = status, !.prot = row.prot, !.kids = row.kids]
             saved == [order EXCEPT !.closed = row.closed]
             d == [c EXCEPT !.at = "ask", !.order = saved]
  <2>1. /\ c.at = "posted" /\ row' = saved /\ Become(t, d)
        /\ UNCHANGED <<venue, book, rest, syncs, upset>>
      BY <1>3 DEF SaveSubmission, Save, Saved
  <2>2. /\ status \in EntryStates \union {"PENDING"} /\ c.op = "create"
        /\ status = "FILLED" => venue.entry = "FILLED"
      BY <1>1, <2>1 DEF CallTrue, Calls, HeardOfEntry, Heard
  <2> HIDE DEF status
  <2>3. c.order \in Order /\ row \in Order /\ c.order.stamp <= syncs
      BY <1>1 DEF CallTrue, OrderTrue, Steady
  <2>4. order \in Order /\ order.status = status /\ order.stamp = c.order.stamp
        /\ order.kids = row.kids
      BY <2>2, <2>3 DEF Order, EntryStates, OpenStatus
  <2> HIDE DEF order
  <2>5. saved \in Order /\ saved.status = status /\ saved.stamp = c.order.stamp
        /\ saved.kids = row.kids
      BY <2>3, <2>4 DEF Order
  <2> HIDE DEF saved
  <2>6. OrderTrue(saved, venue, syncs) /\ saved.status # "none"
      BY <1>1, <2>2, <2>3, <2>5 DEF OrderTrue, Steady, EntryStates, OpenStatus
  <2>7. /\ d \in Calls /\ d.at = "ask" /\ d.op = "create" /\ d.order = saved
        /\ d.left = c.left /\ d.flat = c.flat /\ d.passes = c.passes /\ d.kid = c.kid
      BY <1>1, <2>2, <2>5 DEF Calls, CallPlaces
  <2> HIDE DEF d
  <2>8. CallTrue(d, venue, syncs)
      BY <1>1, <2>1, <2>6, <2>7 DEF CallTrue, Posturing, HeardOfEntry, Heard, NoCall
  <2>9. row' # NoRow
      BY <1>1, <2>1, <2>6, NothingSaid DEF Steady
  <2>10. QED
      BY <1>1, <2>1, <2>2, <2>6, <2>7, <2>8, <2>9, OneGoesOn DEF Steady
<1>4. QED
  BY <1>2, <1>3

(* cancel_order(): the delete, and what is made of its answer.             *)
LEMMA CancelSteps ==
    ASSUME LiveTrue, NEW t \in Callers, DeleteEntry(t) \/ SaveCancel(t)
    PROVE  LiveTrue'
<1> DEFINE c == call[t]
<1>1. Steady /\ CallTrue(c, venue, syncs) /\ c \in Calls
  BY LiveSteady DEF LiveTrue, CallTrue
<1>2. CASE DeleteEntry(t)
  <2>1. PICK seen \in {"CANCELED", "lost"} :
           /\ c.at = "delete" /\ UNCHANGED <<row, book, rest, syncs, upset>>
           /\ Become(t, [c EXCEPT !.at = "deleted", !.seen = seen])
           /\ \/ UNCHANGED venue
              \/ venue.entry \in OpenStatus /\ venue' = [venue EXCEPT !.entry = "CANCELED"]
      BY <1>2 DEF DeleteEntry
  <2> DEFINE d == [c EXCEPT !.at = "deleted", !.seen = seen]
  <2>2. c.op = "cancel" /\ row # NoRow
      BY <1>1, <2>1 DEF LiveTrue, OneCreation, CallTrue
  <2>3. venue' \in Venues /\ venue'.algos = venue.algos
      BY <1>1, <2>1 DEF Steady, Venues, EntryStates
  <2>4. VenueMoves(venue, venue')
      BY <1>1, <2>1, <2>3 DEF VenueMoves, Steady, OpenStatus
  <2>5. /\ d \in Calls /\ d.at = "deleted" /\ d.op = "cancel" /\ d.order = c.order
        /\ d.seen = seen /\ d.left = c.left /\ d.flat = c.flat /\ d.passes = c.passes
        /\ d.kid = c.kid
      BY <1>1, <2>2 DEF Calls, CallPlaces, EntryStates
  <2>6. Become(t, d)
      BY <2>1
  <2> HIDE DEF d
  <2>7. OrderTrue(c.order, venue', syncs) /\ OrderTrue(row, venue', syncs)
      BY <1>1, <2>3, <2>4, OrderStaysTrue DEF CallTrue, Steady
  <2>8. CallTrue(d, venue', syncs)
      BY <1>1, <2>1, <2>2, <2>5, <2>7
      DEF CallTrue, Posturing, HeardOfEntry, Heard, NoCall
  <2>9. \A u \in Callers : u # t /\ call[u].at = "post" => venue'.entry = venue.entry
      BY <2>1 DEF LiveTrue, OneCreation, OpenStatus
  <2>10. LiveTrue'
    <3>1. CASE venue'.entry = venue.entry
        BY <1>1, <2>1, <2>2, <2>3, <2>4, <2>5, <2>6, <2>7, <2>8, <3>1, OneGoesOn DEF Steady
    <3>2. CASE venue'.entry # venue.entry
      <4>1. /\ call' \in [Callers -> Calls] /\ call'[t] = d
            /\ \A u \in Callers : u # t => call'[u] = call[u]
          BY <1>1, <2>5, <2>6 DEF Become, LiveTrue, LiveShape
      <4>2. OneCreation'
          BY <2>1, <2>2, <2>5, <2>9, <3>2, <4>1 DEF LiveTrue, OneCreation
      <4>3. LiveShape'
          BY <1>1, <2>1, <2>3, <4>1 DEF LiveTrue, LiveShape
      <4>4. QED
          BY <1>1, <2>1, <2>4, <2>7, <2>8, <4>1, <4>2, <4>3, LiveKept DEF LiveTrue, Steady
    <3>3. QED
        BY <3>1, <3>2
  <2>11. QED
      BY <2>10
<1>3. CASE SaveCancel(t)
  <2> DEFINE status == IF c.seen = "lost" THEN c.order.status ELSE c.seen
             order == [c.order EXCEPT !.status = status, !.stamp = syncs]
             saved == [order EXCEPT !.closed = row.closed]
             d == [c EXCEPT !.at = "ask", !.order = saved]
  <2>1. /\ c.at = "deleted" /\ row' = saved /\ Become(t, d)
        /\ UNCHANGED <<venue, book, rest, syncs, upset>>
      BY <1>3 DEF SaveCancel, Save, Saved
  <2>2. c.order \in Order /\ row \in Order /\ c.op = "cancel" /\ c.order.status # "none"
      BY <1>1, <2>1 DEF CallTrue, OrderTrue, Steady
  <2>3. /\ status \in EntryStates \union {c.order.status} /\ status # "none"
        /\ status = "FILLED" => venue.entry = "FILLED"
      BY <1>1, <2>1, <2>2
      DEF CallTrue, OrderTrue, Calls, HeardOfEntry, Heard, EntryStates, OpenStatus
  <2> HIDE DEF status
  <2>4. order \in Order /\ order.status = status /\ order.stamp = syncs
        /\ order.kids = c.order.kids
      BY <1>1, <2>2, <2>3 DEF Order, EntryStates, OpenStatus, Steady
  <2> HIDE DEF order
  <2>5. saved \in Order /\ saved.status = status /\ saved.stamp = syncs
        /\ saved.kids = c.order.kids
      BY <2>2, <2>4 DEF Order
  <2> HIDE DEF saved
  <2>6. OrderTrue(saved, venue, syncs) /\ saved.status # "none"
      BY <1>1, <2>2, <2>3, <2>5 DEF OrderTrue, CallTrue, Steady
  <2>7. /\ d \in Calls /\ d.at = "ask" /\ d.op = "cancel" /\ d.order = saved
        /\ d.left = c.left /\ d.flat = c.flat /\ d.passes = c.passes /\ d.kid = c.kid
      BY <1>1, <2>2, <2>5 DEF Calls, CallPlaces
  <2> HIDE DEF d
  <2>8. CallTrue(d, venue, syncs)
      BY <1>1, <2>1, <2>6, <2>7 DEF CallTrue, Posturing, HeardOfEntry, Heard, NoCall
  <2>9. row' # NoRow
      BY <1>1, <2>1, <2>6, NothingSaid DEF Steady
  <2>10. QED
      BY <1>1, <2>1, <2>6, <2>7, <2>8, <2>9, OneGoesOn DEF Steady
<1>4. QED
  BY <1>2, <1>3

\* The call may settle with this answer, whatever reconcile() read with it.
Settles(c, seen, flat) == [c EXCEPT !.at = "settle", !.seen = seen, !.flat = flat]

MaySettle(c, seen, v, n) ==
    \A flat \in 0 .. n :
       CallTrue(Settles(c, seen, flat), v, n) /\ Settles(c, seen, flat).op = c.op
          /\ Settles(c, seen, flat).at = "settle"

\* The order asked for was posted.
AsksKnown(c, v) == c.passes # 0 => c.order.kids[c.kid].id \in 0 .. Len(v.algos)

(* A query that is answered settles; one that is not goes on unanswered.   *)
LEMMA AskedStep ==
    ASSUME LiveTrue, NEW t \in Callers, NEW status \in {"absent"} \union EntryStates, NEW un,
           Asked(t, status, un), CallTrue(un, venue, syncs), un.op = call[t].op,
           un.at # "post", call[t].op \notin {"none", "sync"},
           AsksKnown(call[t], venue),
           status # "absent" => MaySettle(call[t], status, venue, syncs)
    PROVE  LiveTrue'
<1> DEFINE c == call[t]
           id == IF c.passes = 0 THEN Entry ELSE c.order.kids[c.kid].id
           open == IF status \in OpenStatus THEN book.open \union {id} ELSE book.open \ {id}
           flat == IF ~book.exposed /\ open = {} THEN rest ELSE 0
           d == Settles(c, status, flat)
<1>1. Steady /\ row # NoRow
  BY LiveSteady DEF LiveTrue, OneCreation
<1>2. id \in Nat /\ id <= Len(venue.algos)
  <2>1. Len(venue.algos) \in Nat
      BY <1>1 DEF Steady
  <2>2. CASE c.passes = 0
      BY <2>1, <2>2 DEF Entry
  <2>3. CASE c.passes # 0
      BY <2>1, <2>3 DEF AsksKnown
  <2>4. QED
      BY <2>2, <2>3
<1> HIDE DEF id
<1>3. open \in SUBSET Nat /\ \A i \in open : i <= Len(venue.algos)
  <2>1. book.open \in SUBSET Nat /\ \A i \in book.open : i <= Len(venue.algos)
      BY <1>1 DEF Steady
  <2>2. open \in {book.open \union {id}, book.open \ {id}}
      OBVIOUS
  <2> HIDE DEF open
  <2>3. QED
      BY <1>2, <2>1, <2>2
<1> HIDE DEF open
<1>4. flat \in 0 .. syncs
  <2>1. rest \in 0 .. syncs /\ 0 \in 0 .. syncs
      BY <1>1 DEF Steady
  <2>2. flat \in {rest, 0}
      OBVIOUS
  <2> HIDE DEF flat
  <2>3. QED
      BY <2>1, <2>2
<1> HIDE DEF flat
<1>5. UNCHANGED <<row, venue, syncs, upset>>
  BY DEF Asked
<1>6. ASSUME Become(t, un), rest' \in {0, rest}, UNCHANGED book
      PROVE  LiveTrue'
  <2>1. rest' \in 0 .. syncs' /\ row' # NoRow /\ UNCHANGED row
      BY <1>1, <1>5, <1>6 DEF Steady
  <2>2. CallTrue(un, venue', syncs') /\ OrderTrue(row', venue', syncs')
      BY <1>1, <1>5 DEF Steady
  <2> HIDE DEF c
  <2>3. QED
      BY <1>1, <1>5, <1>6, <2>1, <2>2, OneGoesOn DEF Steady
<1>7. ASSUME status # "absent", book' = [book EXCEPT !.open = open], Become(t, d),
             UNCHANGED rest
      PROVE  LiveTrue'
  <2>1. book' \in [exposed : BOOLEAN, open : SUBSET Nat] /\ book'.open = open
      BY <1>1, <1>3, <1>7 DEF Steady
  <2>2. CallTrue(d, venue, syncs) /\ d.op = c.op /\ d.at = "settle"
      BY <1>4, <1>7 DEF MaySettle
  <2>3. Become(t, d) /\ rest' \in 0 .. syncs' /\ row' # NoRow /\ UNCHANGED row
      BY <1>1, <1>5, <1>7 DEF Steady
  <2> HIDE DEF d
  <2>4. CallTrue(d, venue', syncs') /\ OrderTrue(row', venue', syncs')
      BY <1>1, <1>5, <2>2 DEF Steady
  <2>5. d.op = call[t].op
      BY <2>2
  <2> HIDE DEF c
  <2>6. QED
      BY <1>1, <1>3, <1>5, <2>1, <2>2, <2>3, <2>4, <2>5, OneGoesOn DEF Steady
<1>8. QED
  BY <1>6, <1>7 DEF Asked, Settles, open, id, flat

(* The query of the entry.                                                 *)
LEMMA AskEntryStep ==
    ASSUME LiveTrue, NEW t \in Callers, AskEntry(t)
    PROVE  LiveTrue'
<1> DEFINE c == call[t]
           un == [c EXCEPT !.at = "verified", !.seen = "lost"]
<1>1. Steady /\ CallTrue(c, venue, syncs) /\ c \in Calls
  BY LiveSteady DEF LiveTrue, CallTrue
<1>2. /\ c.at = "ask" /\ Asked(t, venue.entry, un) /\ c.passes = 0 /\ c.left = {}
      /\ c.kid = "STOP"
  <2>1. c.at = "ask" /\ Asked(t, venue.entry, un)
      BY DEF AskEntry
  <2>2. ~Posturing(c) /\ c.passes \in 0 .. 2
      BY <1>1, <2>1 DEF Calls, Posturing
  <2>3. QED
      BY <1>1, <2>1, <2>2 DEF CallTrue
<1>3. c.op \notin {"none", "sync"}
  BY <1>1, <1>2 DEF CallTrue, Calls
<1>4. /\ un \in Calls /\ un.at = "verified" /\ un.seen = "lost" /\ un.op = c.op
      /\ un.order = c.order /\ un.left = {} /\ un.flat = c.flat /\ un.passes = 0
      /\ un.kid = "STOP"
  BY <1>1, <1>2 DEF Calls, CallPlaces
<1> HIDE DEF un
<1>5. CallTrue(un, venue, syncs)
  BY <1>1, <1>2, <1>3, <1>4 DEF CallTrue, Posturing, HeardOfEntry, Heard, NoCall
<1>6. ASSUME NEW flat \in 0 .. syncs, venue.entry # "absent"
      PROVE  /\ CallTrue(Settles(c, venue.entry, flat), venue, syncs)
             /\ Settles(c, venue.entry, flat).op = c.op
             /\ Settles(c, venue.entry, flat).at = "settle"
  <2> DEFINE d == Settles(c, venue.entry, flat)
  <2>1. venue.entry \in EntryStates /\ flat \in 0 .. MaxSyncs /\ flat <= syncs
      BY <1>1, <1>6, LiveNumbers DEF Steady, Venues
  <2>2. /\ d \in Calls /\ d.at = "settle" /\ d.seen = venue.entry /\ d.op = c.op
        /\ d.order = c.order /\ d.left = {} /\ d.flat = flat /\ d.passes = 0
        /\ d.kid = "STOP"
      BY <1>1, <1>2, <2>1 DEF Calls, CallPlaces, Settles
  <2> HIDE DEF d
  <2>3. CallTrue(d, venue, syncs)
      BY <1>1, <1>2, <1>3, <2>1, <2>2
      DEF CallTrue, Posturing, HeardOfEntry, Heard, NoCall, EntryStates, OpenStatus
  <2>4. QED
      BY <2>2, <2>3 DEF d
<1>7. venue.entry \in {"absent"} \union EntryStates
  BY <1>1 DEF Steady, Venues
<1>8. AsksKnown(c, venue) /\ (venue.entry # "absent" => MaySettle(c, venue.entry, venue, syncs))
  BY <1>2, <1>6 DEF AsksKnown, MaySettle
<1>9. QED
  BY <1>2, <1>3, <1>4, <1>5, <1>7, <1>8, AskedStep

(* The query of a child.                                                   *)
LEMMA AskKidStep ==
    ASSUME LiveTrue, NEW t \in Callers, AskKid(t)
    PROVE  LiveTrue'
<1> DEFINE c == call[t]
           id == c.order.kids[c.kid].id
           seen == venue.algos[id]
           un == WithKid(c, KidStatus(c, "lost"))
<1>1. Steady /\ CallTrue(c, venue, syncs) /\ c \in Calls
  BY LiveSteady DEF LiveTrue, CallTrue
<1>2. c.at = "confirm" /\ Asked(t, seen, un)
  BY DEF AskKid
<1>3. Posturing(c) /\ c.passes > 0 /\ PostureTrue(c, venue) /\ Ready(c, venue, syncs)
  BY <1>1, <1>2 DEF CallTrue, Posturing, PostureTrue, Ready
<1>4. c.kid \in Kinds /\ id # 0 /\ id \in 1 .. Len(venue.algos) /\ id \in 0 .. Len(venue.algos)
  <2>1. c.kid \in Kinds /\ id # 0
      BY <1>2, <1>3 DEF PostureTrue
  <2>2. c.order.kids[c.kid] \in Kid /\ KidTrue(c.order.kids[c.kid], venue)
      BY <1>3, <2>1 DEF Ready, OrderTrue, Order
  <2>3. id \in Nat /\ id <= Len(venue.algos) /\ Len(venue.algos) \in Nat
      BY <1>1, <2>2, LiveNumbers DEF Kid, KidTrue, Steady
  <2>4. QED
      BY <2>1, <2>3
<1>5. seen \in AlgoStates
  BY <1>1, <1>4 DEF Steady, Venues
<1>6. CallTrue(un, venue, syncs) /\ Posturing(un) /\ un.at # "settle"
  <2> DEFINE status == KidStatus(c, "lost")
  <2>1. status \in KidStatuses \ {"none"} /\ status \notin {"CONFIRMED", "CANCELED", "TRIGGERED"}
      BY KidStatusTrue
  <2> HIDE DEF status
  <2>2. c.order.kids[c.kid].id # 0 /\ (\A k \in c.left : c.order.kids[k].id # 0)
        /\ venue \in Venues /\ syncs \in Nat
      BY <1>1, <1>3, <1>4 DEF PostureTrue, Steady
  <2> HIDE DEF c
  <2>3. LET d == WithKid(c, status)
        IN  CallTrue(d, venue, syncs) /\ Posturing(d) /\ d.at # "settle"
      BY <1>3, <1>4, <2>1, <2>2, WithKidGoesOn
  <2>4. QED
      BY <2>3 DEF status, c
<1>7. un.op = "query" /\ c.op = "query" /\ un.at # "post"
  BY <1>3, <1>6 DEF CallTrue, PostureTrue, Posturing
<1> HIDE DEF un
<1>8. ASSUME NEW flat \in 0 .. syncs, seen # "absent"
      PROVE  /\ CallTrue(Settles(c, seen, flat), venue, syncs)
             /\ Settles(c, seen, flat).op = c.op /\ Settles(c, seen, flat).at = "settle"
  <2> DEFINE d == Settles(c, seen, flat)
  <2>1. seen \in EntryStates /\ flat \in 0 .. MaxSyncs /\ flat <= syncs
      BY <1>1, <1>5, <1>8, LiveNumbers DEF AlgoStates, EntryStates, OpenStatus, Steady
  <2>2. /\ d \in Calls /\ d.at = "settle" /\ d.seen = seen /\ d.op = c.op
        /\ d.order = c.order /\ d.left = c.left /\ d.flat = flat /\ d.passes = c.passes
        /\ d.kid = c.kid
      BY <1>1, <1>2, <2>1 DEF Calls, CallPlaces, Settles
  <2> HIDE DEF d
  <2>3. Posturing(d) /\ ~Heard(d)
      BY <1>3, <2>2 DEF Posturing, Heard
  <2>4. d.order.kids[d.kid].id = id /\ venue.algos[d.order.kids[d.kid].id] = seen
      BY <2>2
  <2> HIDE DEF seen, id
  <2>5. PostureTrue(d, venue)
      BY <1>3, <1>4, <1>8, <2>2, <2>4 DEF PostureTrue
  <2>6. CallTrue(d, venue, syncs)
      BY <1>1, <1>3, <2>1, <2>2, <2>3, <2>5 DEF CallTrue, HeardOfEntry, NoCall, Ready
  <2>7. QED
      BY <2>2, <2>6 DEF d
<1>9. seen \in {"absent"} \union EntryStates
  BY <1>5 DEF AlgoStates, EntryStates, OpenStatus
<1>10. AsksKnown(c, venue) /\ (seen # "absent" => MaySettle(c, seen, venue, syncs))
  BY <1>4, <1>8 DEF AsksKnown, MaySettle
<1> HIDE DEF seen
<1>11. QED
  BY <1>2, <1>6, <1>7, <1>9, <1>10, AskedStep

(* _reconcile_local_live_orders(): the row is closed, or left as it is.    *)
LEMMA SettleFlatStep ==
    ASSUME LiveTrue, NEW t \in Callers, SettleFlat(t)
    PROVE  LiveTrue'
<1> DEFINE c0 == call[t]
           c == [call[t] EXCEPT !.flat = 0]
           d == IF c.op = "sync" THEN NoCall
                ELSE IF c.passes = 0 THEN [c EXCEPT !.at = "verified"]
                ELSE WithKid(c, KidStatus(c, c.seen))
           closed == [row EXCEPT !.status = "CLOSED", !.prot = "CLOSED", !.closed = TRUE,
                                 !.stamp = syncs]
<1>1. Steady /\ CallTrue(c0, venue, syncs) /\ c0 \in Calls
  BY LiveSteady DEF LiveTrue, CallTrue
<1>2. /\ c0.at = "settle" /\ row' \in {row, closed} /\ Become(t, d)
      /\ UNCHANGED <<venue, book, rest, syncs, upset>>
  BY DEF SettleFlat
<1>3. /\ OrderTrue(row', venue, syncs) /\ (row'.status # "none" \/ UNCHANGED row)
      /\ (row # NoRow => row' # NoRow)
  <2>1. CASE row' = row
      BY <1>1, <2>1 DEF Steady
  <2>2. CASE row' = closed
    <3>1. closed \in Order /\ closed.status = "CLOSED" /\ closed.stamp = syncs
          /\ closed.kids = row.kids
        BY <1>1 DEF Steady, OrderTrue, Order
    <3> HIDE DEF closed
    <3>2. QED
        BY <1>1, <2>2, <3>1, NothingSaid DEF Steady, OrderTrue
  <2>3. QED
      BY <1>2, <2>1, <2>2
<1>4. /\ c \in Calls /\ c.at = "settle" /\ c.op = c0.op /\ c.order = c0.order /\ c.flat = 0
      /\ c.left = c0.left /\ c.passes = c0.passes /\ c.kid = c0.kid /\ c.seen = c0.seen
      /\ c.passes \in 0 .. 2
  BY <1>1, <1>2, LiveNumbers DEF Calls
<1>5. CallTrue(d, venue, syncs) /\ d.at # "post" /\ (d.op = "create" => c0.op = "create")
      /\ (d.op \notin {"none", "sync"} => c0.op \notin {"none", "sync"})
  <2> HIDE DEF c
  <2>1. CASE c.op = "sync"
      BY <1>1, <1>4, <2>1, NothingSaid DEF Steady, NoCall
  <2>2. CASE c.op # "sync" /\ c.passes = 0
    <3> DEFINE e == [c EXCEPT !.at = "verified"]
    <3>1. /\ e \in Calls /\ e.at = "verified" /\ e.op = c.op /\ e.order = c.order /\ e.flat = 0
          /\ e.left = c.left /\ e.passes = 0 /\ e.kid = c.kid /\ e.seen = c.seen
        BY <1>4, <2>2 DEF Calls, CallPlaces
    <3>2. d = e
        BY <2>2
    <3> HIDE DEF e, d
    <3>3. ~Posturing(c0) /\ Heard(c0) /\ ~Posturing(e) /\ Heard(e)
        BY <1>2, <1>4, <2>2, <3>1 DEF Posturing, Heard
    <3>4. HeardOfEntry(e, venue)
        BY <1>1, <1>4, <3>1, <3>3 DEF CallTrue, HeardOfEntry
    <3>5. CallTrue(e, venue, syncs)
        BY <1>1, <1>2, <1>4, <2>2, <3>1, <3>3, <3>4 DEF CallTrue, NoCall, Steady
    <3>6. c0.op # "none"
        BY <1>1, <1>2 DEF CallTrue
    <3>7. QED
        BY <1>4, <2>2, <3>1, <3>2, <3>5, <3>6
  <2>3. CASE c.op # "sync" /\ c.passes # 0
    <3> DEFINE status == KidStatus(c, c.seen)
    <3>1. Posturing(c0) /\ PostureTrue(c0, venue)
        BY <1>1, <1>2, <1>4, <2>3 DEF Posturing, CallTrue
    <3>2. Ready(c, venue, syncs) /\ c.kid \in Kinds
        BY <1>1, <1>4, <2>3, <3>1 DEF Ready, CallTrue, PostureTrue, Steady
    <3>3. c.order.kids[c.kid].id # 0 /\ (\A k \in c.left : c.order.kids[k].id # 0)
        BY <1>2, <1>4, <3>1 DEF PostureTrue
    <3>4. status \in KidStatuses \ {"none"}
          /\ (status = "CONFIRMED" => venue.algos[c.order.kids[c.kid].id] # "absent")
          /\ (status \in {"CANCELED", "TRIGGERED"} => venue.algos[c.order.kids[c.kid].id] # "NEW")
        BY <1>2, <1>4, <3>1, KidStatusTrue DEF PostureTrue
    <3> HIDE DEF status
    <3>5. LET e == WithKid(c, status)
          IN  CallTrue(e, venue, syncs) /\ Posturing(e)
        BY <1>1, <3>2, <3>3, <3>4, WithKidGoesOn DEF Steady
    <3>6. d = WithKid(c, status)
        BY <2>3 DEF status
    <3> HIDE DEF d
    <3>7. d.at # "post" /\ d.op = "query" /\ c0.op = "query"
        BY <3>1, <3>5, <3>6 DEF CallTrue, PostureTrue, Posturing
    <3>8. QED
        BY <3>5, <3>6, <3>7
  <2>4. QED
      BY <2>1, <2>2, <2>3
<1> HIDE DEF d, closed, c
<1>6. c0.op \notin {"none", "sync"} => row # NoRow
  BY DEF LiveTrue, OneCreation
<1>7. QED
  BY <1>1, <1>2, <1>3, <1>5, <1>6, OneGoesOn DEF Steady

(* _verify_live_order(): the copy is saved; the posture follows.           *)
LEMMA SaveVerificationStep ==
    ASSUME LiveTrue, NEW t \in Callers, SaveVerification(t)
    PROVE  LiveTrue' /\ row'.stamp = syncs /\ UNCHANGED <<venue, syncs>>
           /\ (Posturing(call'[t]) => call'[t].order = row')
<1> DEFINE c == call[t]
           status == IF c.seen = "lost" THEN c.order.status ELSE c.seen
           order == [c.order EXCEPT !.status = status, !.stamp = syncs]
           saved == [order EXCEPT !.closed = row.closed]
           passes == IF c.op = "create" THEN 2 ELSE 1
           e == [c EXCEPT !.order = row', !.seen = "none", !.op = "query", !.passes = passes]
<1>1. Steady /\ CallTrue(c, venue, syncs) /\ c \in Calls
  BY LiveSteady DEF LiveTrue, CallTrue
<1>2. /\ c.at = "verified" /\ row' = saved
      /\ Become(t, IF c.op = "cancel" THEN NoCall ELSE Posture(e))
      /\ UNCHANGED <<venue, book, rest, syncs, upset>>
  BY DEF SaveVerification, Saved
<1>3. c.order \in Order /\ row \in Order /\ c.op \notin {"none", "sync"}
      /\ c.order.status # "none" /\ ~Posturing(c) /\ Heard(c)
  BY <1>1, <1>2 DEF CallTrue, OrderTrue, Steady, Posturing, Heard
<1>4. /\ status \in EntryStates \union {c.order.status} /\ status # "none"
      /\ status = "FILLED" => venue.entry = "FILLED"
  BY <1>1, <1>3 DEF CallTrue, OrderTrue, Calls, HeardOfEntry, EntryStates, OpenStatus
<1> HIDE DEF status
<1>5. order \in Order /\ order.status = status /\ order.stamp = syncs
      /\ order.kids = c.order.kids
  BY <1>1, <1>3, <1>4 DEF Order, EntryStates, OpenStatus, Steady
<1> HIDE DEF order
<1>6. saved \in Order /\ saved.status = status /\ saved.stamp = syncs
      /\ saved.kids = c.order.kids
  BY <1>3, <1>5 DEF Order
<1> HIDE DEF saved
<1>7. OrderTrue(row', venue, syncs) /\ row'.status # "none" /\ row'.stamp = syncs
      /\ row' # NoRow
  BY <1>1, <1>2, <1>3, <1>4, <1>6, NothingSaid DEF OrderTrue, CallTrue, Steady
<1>8. passes \in 1 .. 2
  OBVIOUS
<1> HIDE DEF passes
<1>9. /\ e \in Calls /\ e.order = row' /\ e.op = "query" /\ e.left = {} /\ e.kid = "STOP"
      /\ e.flat = c.flat /\ e.passes > 0
  <2>1. row' \in Order /\ c.left = {} /\ c.kid = "STOP"
      BY <1>1, <1>3, <1>7 DEF CallTrue, OrderTrue
  <2>2. passes \in 0 .. 2 /\ passes > 0
      BY <1>8
  <2> DEFINE f == [c EXCEPT !.order = row', !.seen = "none"]
  <2>3. /\ f \in Calls /\ f.order = row' /\ f.left = {} /\ f.kid = "STOP" /\ f.flat = c.flat
      BY <1>1, <2>1 DEF Calls
  <2>4. e = [f EXCEPT !.op = "query", !.passes = passes]
      BY <1>1 DEF Calls
  <2> HIDE DEF e, f
  <2>5. QED
      BY <2>2, <2>3, <2>4 DEF Calls
<1> HIDE DEF e
<1>10. Ready(e, venue, syncs)
  BY <1>1, <1>7, <1>9 DEF Ready, CallTrue
<1>11. GoesOn(e, Posture(e), venue, syncs)
  BY <1>1, <1>9, <1>10, LiveNumbers, PostureGoesOn DEF Steady
<1>12. ASSUME NEW d, Become(t, d), CallTrue(d, venue, syncs), d.op # "create", d.at # "post",
              d.order = row' \/ ~Posturing(d)
       PROVE  LiveTrue' /\ (Posturing(call'[t]) => call'[t].order = row')
  BY <1>1, <1>2, <1>7, <1>12, OneGoesOn DEF Steady
<1>13. CASE c.op = "cancel"
  <2>1. CallTrue(NoCall, venue, syncs) /\ NoCall.op = "none" /\ NoCall.at = "idle"
        /\ ~Posturing(NoCall)
      BY <1>1, NothingSaid DEF Steady, NoCall, Posturing
  <2>2. QED
      BY <1>2, <1>7, <1>12, <1>13, <2>1
<1>14. CASE c.op # "cancel"
  <2> DEFINE d == Posture(e)
  <2>1. Become(t, d) /\ CallTrue(d, venue, syncs) /\ Posturing(d) /\ d.order = row'
      BY <1>2, <1>9, <1>11, <1>14 DEF GoesOn
  <2> HIDE DEF d
  <2>2. d.op # "create" /\ d.at # "post"
      BY <2>1 DEF CallTrue, PostureTrue, Posturing
  <2>3. QED
      BY <1>2, <1>7, <1>12, <2>1, <2>2
<1>15. QED
  BY <1>13, <1>14

(* _ensure_protective_child() posts a child the order does not yet name.   *)
LEMMA PostKidStep ==
    ASSUME LiveTrue, NEW t \in Callers, PostKid(t)
    PROVE  LiveTrue' /\ VenueMoves(venue, venue')
<1> DEFINE c == call[t]
           id == Len(venue.algos) + 1
<1>1. Steady /\ CallTrue(c, venue, syncs) /\ c \in Calls
  BY LiveSteady DEF LiveTrue, CallTrue
<1>2. PICK how \in {"NEW", "absent"}, unsure \in BOOLEAN, as \in {"PENDING", "FAILED"} :
         /\ c.at = "protect" /\ id <= MaxPosts
         /\ venue' = [venue EXCEPT !.algos = Append(@, how)]
         /\ Become(t, LET p == [c EXCEPT !.order.kids[c.kid] = [id |-> id, status |-> as]]
                      IN  IF as = "FAILED" THEN NextKid(p)
                          ELSE [p EXCEPT !.at = "confirm", !.unsure = unsure])
         /\ UNCHANGED <<row, book, rest, syncs, upset>>
  BY DEF PostKid
<1> DEFINE kid == [id |-> id, status |-> as]
           order == Given(c.order, c.kid, kid)
           p == [c EXCEPT !.order = order]
           d == IF as = "FAILED" THEN NextKid(p)
                ELSE [p EXCEPT !.at = "confirm", !.unsure = unsure]
<1>3. Become(t, d)
  BY <1>2 DEF Given
<1>4. /\ c.op = "query" /\ c.kid \in Kinds /\ c.left = {} /\ c.passes > 0
      /\ Ready(c, venue, syncs)
  BY <1>1, <1>2 DEF CallTrue, Posturing, PostureTrue, Ready
<1>5. /\ venue' \in Venues /\ Len(venue'.algos) = id /\ id \in Nat /\ id > 0
      /\ venue'.entry = venue.entry
      /\ \A i \in 1 .. Len(venue.algos) : venue'.algos[i] = venue.algos[i]
  <2> DEFINE algos == Append(venue.algos, how)
  <2>1. /\ venue.algos \in Seq(AlgoStates) /\ how \in AlgoStates /\ Len(venue.algos) \in Nat
      BY <1>1 DEF Steady, Venues, AlgoStates
  <2>2. /\ algos \in Seq(AlgoStates) /\ Len(algos) = Len(venue.algos) + 1
        /\ \A i \in 1 .. Len(venue.algos) : algos[i] = venue.algos[i]
      BY <2>1
  <2>3. venue' = [venue EXCEPT !.algos = algos]
      BY <1>2
  <2> HIDE DEF algos
  <2>4. venue' \in Venues /\ venue'.algos = algos /\ venue'.entry = venue.entry
      BY <1>1, <2>2, <2>3 DEF Steady, Venues
  <2>5. QED
      BY <2>1, <2>2, <2>4
<1>6. VenueMoves(venue, venue') /\ OrderTrue(c.order, venue', syncs)
      /\ OrderTrue(row, venue', syncs)
  <2>1. VenueMoves(venue, venue')
      BY <1>1, <1>5 DEF VenueMoves, Steady
  <2>2. QED
      BY <1>1, <1>5, <2>1, OrderStaysTrue DEF CallTrue, Steady
<1>7. kid \in Kid /\ KidTrue(kid, venue') /\ kid.id = id
  <2>1. id \in 0 .. MaxPosts /\ id # 0 /\ id <= Len(venue'.algos)
      BY <1>2, <1>5, LiveNumbers
  <2> HIDE DEF id
  <2>2. QED
      BY <2>1 DEF Kid, KidStatuses, KidTrue
<1> HIDE DEF kid, id, c
<1>8. OrderTrue(order, venue', syncs) /\ order.status = c.order.status
      /\ order.kids[c.kid].id = id
  <2>1. /\ syncs \in Nat /\ c.kid \in Kinds /\ venue' \in Venues
        /\ OrderTrue(c.order, venue', syncs)
      BY <1>1, <1>4, <1>5, <1>6 DEF Steady
  <2>2. OrderTrue(order, venue', syncs) /\ order.status = c.order.status
        /\ order.kids[c.kid] = kid
      BY <1>7, <2>1, KidGiven
  <2>3. QED
      BY <1>7, <2>2
<1> HIDE DEF order
<1>9. /\ p \in Calls /\ p.order = order /\ p.flat = c.flat /\ p.op = "query"
      /\ p.passes = c.passes /\ p.left = {} /\ p.kid = c.kid
  BY <1>1, <1>4, <1>8 DEF Calls, OrderTrue
<1> HIDE DEF p
<1>10. Ready(p, venue', syncs)
  BY <1>1, <1>4, <1>8, <1>9 DEF Ready
<1>11. CallTrue(d, venue', syncs) /\ Posturing(d)
  <2>1. CASE as = "FAILED"
      BY <1>1, <1>5, <1>9, <1>10, <2>1, NextKidGoesOn DEF GoesOn, Steady
  <2>2. CASE as # "FAILED"
    <3> DEFINE e == [p EXCEPT !.at = "confirm", !.unsure = unsure]
    <3>1. /\ e \in Calls /\ e.at = "confirm" /\ e.order = order /\ e.flat = c.flat
          /\ e.op = "query" /\ e.passes = c.passes /\ e.left = {} /\ e.kid = c.kid
        BY <1>9 DEF Calls, CallPlaces
    <3>2. d = e
        BY <2>2
    <3> HIDE DEF e, d
    <3>3. Posturing(e) /\ ~Heard(e) /\ PostureTrue(e, venue')
        BY <1>4, <1>5, <1>8, <3>1 DEF Posturing, Heard, PostureTrue
    <3>4. QED
        BY <1>4, <1>8, <1>9, <1>10, <3>1, <3>2, <3>3 DEF CallTrue, HeardOfEntry, NoCall, Ready
  <2>3. QED
      BY <2>1, <2>2
<1> HIDE DEF d
<1>12. d.op # "create" /\ d.at # "post" /\ row # NoRow
  BY <1>4, <1>11 DEF CallTrue, PostureTrue, Posturing, LiveTrue, OneCreation, c
<1>13. /\ \A i \in book.open : i <= Len(venue'.algos)
       /\ Len(venue'.algos) <= MaxPosts
  <2>1. Len(venue.algos) \in Nat /\ \A i \in book.open : i \in Nat /\ i <= Len(venue.algos)
      BY <1>1 DEF Steady
  <2>2. QED
      BY <1>2, <1>5, <2>1
<1>14. /\ syncs' = syncs /\ syncs' \in 0 .. MaxSyncs /\ rest' \in 0 .. syncs' /\ row' = row
       /\ book' \in [exposed : BOOLEAN, open : SUBSET Nat] /\ book' = book
       /\ upset' \in {"no", "overlap", "crash"}
  BY <1>1, <1>2 DEF Steady
<1>15. CallTrue(d, venue', syncs') /\ OrderTrue(row', venue', syncs') /\ syncs <= syncs'
       /\ Become(t, d) /\ \A i \in book'.open : i <= Len(venue'.algos)
  BY <1>1, <1>3, <1>6, <1>11, <1>13, <1>14 DEF Steady
<1>16. QED
  BY <1>5, <1>6, <1>12, <1>13, <1>14, <1>15, OneGoesOn

(* _cancel_protective_child(): a child at work is ended.                   *)
LEMMA CancelKidStep ==
    ASSUME LiveTrue, NEW t \in Callers, CancelKid(t)
    PROVE  LiveTrue' /\ VenueMoves(venue, venue')
<1> DEFINE k == IF "STOP" \in call[t].left THEN "STOP" ELSE "PROFIT"
           c == [call[t] EXCEPT !.kid = k]
           id == c.order.kids[k].id
           gone == [venue EXCEPT !.algos[id] = "CANCELED"]
           e == [c EXCEPT !.at = "confirm", !.unsure = TRUE]
<1>1. Steady /\ CallTrue(call[t], venue, syncs) /\ call[t] \in Calls
  BY LiveSteady DEF LiveTrue, CallTrue
<1>2. /\ c.at = "cleanup"
      /\ venue' = gone \/ UNCHANGED venue
      /\ Become(t, e) \/ Become(t, WithKid(c, "DEGRADED"))
      /\ UNCHANGED <<row, book, rest, syncs, upset>>
  BY DEF CancelKid
<1>3. call[t].at = "cleanup"
  <2> HIDE DEF k
  <2>1. QED
      BY <1>1, <1>2 DEF Calls
<1>4. Posturing(call[t]) /\ PostureTrue(call[t], venue) /\ call[t].passes > 0
  BY <1>1, <1>3 DEF CallTrue, Posturing
<1>5. k \in call[t].left /\ k \in Kinds /\ k \in {"STOP", "PROFIT"}
  BY <1>1, <1>3, <1>4, LiveNumbers DEF PostureTrue, Calls
<1> HIDE DEF k
<1>6. /\ c \in Calls /\ c.kid = k /\ c.order = call[t].order /\ c.flat = call[t].flat
      /\ c.op = "query" /\ c.passes = call[t].passes /\ c.left = call[t].left
  BY <1>1, <1>4, <1>5 DEF Calls, PostureTrue
<1> HIDE DEF c
<1>7. Ready(c, venue, syncs) /\ c.kid \in Kinds /\ c.order.kids[c.kid].id # 0
      /\ (\A j \in c.left : c.order.kids[j].id # 0)
  BY <1>1, <1>4, <1>5, <1>6 DEF Ready, CallTrue, PostureTrue
<1>8. id \in 1 .. Len(venue.algos)
  <2>1. c.order.kids[k] \in Kid /\ KidTrue(c.order.kids[k], venue) /\ id # 0
      BY <1>5, <1>6, <1>7 DEF Ready, OrderTrue, Order
  <2>2. id \in Nat /\ id <= Len(venue.algos) /\ Len(venue.algos) \in Nat
      BY <1>1, <2>1, LiveNumbers DEF Kid, KidTrue, Steady
  <2>3. QED
      BY <2>1, <2>2
<1> HIDE DEF id
<1>9. /\ venue' \in Venues /\ venue'.entry = venue.entry /\ VenueMoves(venue, venue')
      /\ Len(venue'.algos) = Len(venue.algos)
  <2> DEFINE algos == [venue.algos EXCEPT ![id] = "CANCELED"]
  <2>1. venue.algos \in Seq(AlgoStates) /\ Len(venue.algos) \in Nat
      BY <1>1 DEF Steady, Venues
  <2>2. /\ algos \in Seq(AlgoStates) /\ Len(algos) = Len(venue.algos)
        /\ \A i \in 1 .. Len(algos) : algos[i] = "CANCELED" \/ algos[i] = venue.algos[i]
      BY <1>8, <2>1 DEF AlgoStates
  <2>3. gone = [venue EXCEPT !.algos = algos]
      OBVIOUS
  <2> HIDE DEF algos, gone
  <2>4. CASE venue' = gone
    <3>1. venue' \in Venues /\ venue'.entry = venue.entry /\ venue'.algos = algos
        BY <1>1, <2>2, <2>3, <2>4 DEF Steady, Venues
    <3>2. QED
        BY <2>1, <2>2, <3>1 DEF VenueMoves
  <2>5. CASE venue' = venue
      BY <1>1, <2>5 DEF Steady
  <2>6. QED
      BY <1>2, <2>4, <2>5
<1> HIDE DEF gone
<1>10. OrderTrue(c.order, venue', syncs) /\ OrderTrue(row, venue', syncs)
  BY <1>1, <1>6, <1>9, OrderStaysTrue DEF CallTrue, Steady
<1>11. Ready(c, venue', syncs) /\ row # NoRow
  BY <1>4, <1>7, <1>10 DEF Ready, LiveTrue, OneCreation, PostureTrue
<1>12. ASSUME NEW d, Become(t, d), CallTrue(d, venue', syncs), Posturing(d)
       PROVE  LiveTrue'
  <2>1. d.op # "create" /\ d.at # "post"
      BY <1>12 DEF CallTrue, PostureTrue, Posturing
  <2>2. \A i \in book.open : i <= Len(venue'.algos)
      BY <1>1, <1>9 DEF Steady
  <2>3. QED
      BY <1>1, <1>2, <1>9, <1>10, <1>11, <1>12, <2>1, <2>2, OneGoesOn DEF Steady
<1>13. CASE Become(t, e)
  <2>1. /\ e \in Calls /\ e.at = "confirm" /\ e.order = c.order /\ e.flat = c.flat
        /\ e.op = "query" /\ e.passes = c.passes /\ e.left = c.left /\ e.kid = c.kid
      BY <1>6 DEF Calls, CallPlaces
  <2> HIDE DEF e
  <2>2. Posturing(e) /\ ~Heard(e) /\ PostureTrue(e, venue')
      BY <1>7, <2>1 DEF Posturing, Heard, PostureTrue
  <2>3. CallTrue(e, venue', syncs)
      BY <1>11, <2>1, <2>2 DEF CallTrue, HeardOfEntry, NoCall, Ready
  <2>4. QED
      BY <1>9, <1>12, <1>13, <2>2, <2>3
<1>14. CASE Become(t, WithKid(c, "DEGRADED"))
  <2> DEFINE d == WithKid(c, "DEGRADED")
  <2>1. "DEGRADED" \in KidStatuses \ {"none"}
      BY DEF KidStatuses
  <2>2. CallTrue(d, venue', syncs) /\ Posturing(d)
      BY <1>1, <1>7, <1>9, <1>11, <2>1, WithKidGoesOn DEF Steady
  <2>3. Become(t, d)
      BY <1>14
  <2> HIDE DEF d
  <2>4. QED
      BY <1>9, <1>12, <2>2, <2>3
<1>15. QED
  BY <1>2, <1>13, <1>14

(* The summary of the children is one of the words for it; confirmed only  *)
(* if every child was, closed only if every child has ended.               *)
LEMMA SummarySays ==
    ASSUME NEW o
    PROVE  /\ Summary(o) \in {"PENDING", "CONFIRMED", "DEGRADED", "FAILED", "CLOSED"}
           /\ Summary(o) = "CONFIRMED" =>
                 \A k \in Present(o.kids) : o.kids[k].status = "CONFIRMED"
           /\ Summary(o) = "CLOSED" => \A k \in Present(o.kids) : TerminalKid(o.kids[k])
BY DEF Summary

(* _summarize_protection_status(): the copy is saved, and perhaps a second *)
(* round begins.                                                           *)
LEMMA SavePostureStep ==
    ASSUME LiveTrue, NEW t \in Callers, SavePosture(t)
    PROVE  /\ LiveTrue' /\ UNCHANGED <<venue, syncs>>
           /\ row' = Saved([call[t].order EXCEPT !.prot = Summary(call[t].order)])
           /\ row'.prot = Summary(call[t].order) /\ row'.kids = call[t].order.kids
           /\ row'.status = call[t].order.status /\ row'.stamp = call[t].order.stamp
           /\ call'[t] = NoCall \/ (Posturing(call'[t]) /\ call'[t].order = row')
<1> DEFINE c == call[t]
           order == [c.order EXCEPT !.prot = Summary(c.order)]
           saved == [order EXCEPT !.closed = row.closed]
           e == [c EXCEPT !.order = row', !.passes = @ - 1]
<1>1. Steady /\ CallTrue(c, venue, syncs) /\ c \in Calls
  BY LiveSteady DEF LiveTrue, CallTrue
<1>2. /\ c.at = "keep" /\ row' = saved /\ row' = Saved(order)
      /\ Become(t, IF c.passes > 1 THEN Posture(e) ELSE NoCall)
      /\ UNCHANGED <<venue, book, rest, syncs, upset>>
  BY DEF SavePosture, Saved
<1>3. /\ c.order \in Order /\ row \in Order /\ c.order.status # "none" /\ Posturing(c)
      /\ PostureTrue(c, venue)
  BY <1>1, <1>2 DEF CallTrue, OrderTrue, Steady, Posturing, PostureTrue
<1>4. /\ order \in Order /\ order.status = c.order.status /\ order.stamp = c.order.stamp
      /\ order.kids = c.order.kids /\ order.prot = Summary(c.order)
  BY <1>3, SummarySays DEF Order
<1>5. /\ row' \in Order /\ row'.status = c.order.status /\ row'.stamp = c.order.stamp
      /\ row'.kids = c.order.kids /\ row'.prot = Summary(c.order)
  <2> HIDE DEF order
  <2>1. QED
      BY <1>2, <1>3, <1>4 DEF Order
<1>6. OrderTrue(row', venue, syncs) /\ row'.status # "none" /\ row' # NoRow
  BY <1>1, <1>3, <1>5, NothingSaid DEF OrderTrue, CallTrue, Steady
<1> HIDE DEF saved, order
<1>7. ASSUME NEW d, Become(t, d), CallTrue(d, venue, syncs), d.op # "create", d.at # "post"
      PROVE  LiveTrue' /\ call'[t] = d
  BY <1>1, <1>2, <1>6, <1>7, OneGoesOn DEF Steady
<1>8. CASE c.passes > 1
  <2>1. /\ e \in Calls /\ e.order = row' /\ e.op = "query" /\ e.flat = c.flat
        /\ e.passes > 0 /\ e.kid \in Kinds /\ e.left = {}
    <3> DEFINE left == c.passes - 1
    <3>1. left \in 0 .. 2 /\ left > 0 /\ e = [c EXCEPT !.order = row', !.passes = left]
        BY <1>1, <1>8 DEF Calls
    <3>2. c.op = "query" /\ c.kid \in Kinds /\ c.left = {}
        BY <1>2, <1>3 DEF PostureTrue
    <3> HIDE DEF left, e, c
    <3>3. QED
        BY <1>1, <1>5, <3>1, <3>2 DEF Calls
  <2> HIDE DEF e
  <2>2. Ready(e, venue, syncs)
      BY <1>1, <1>6, <2>1 DEF Ready, CallTrue
  <2>3. GoesOn(e, Posture(e), venue, syncs)
      BY <1>1, <2>1, <2>2, PostureGoesOn DEF Steady
  <2> DEFINE d == Posture(e)
  <2>4. Become(t, d) /\ CallTrue(d, venue, syncs) /\ Posturing(d) /\ d.order = row'
      BY <1>2, <1>8, <2>1, <2>3 DEF GoesOn
  <2> HIDE DEF d
  <2>5. d.op # "create" /\ d.at # "post"
      BY <2>4 DEF CallTrue, PostureTrue, Posturing
  <2>6. QED
      BY <1>2, <1>4, <1>5, <1>7, <2>4, <2>5 DEF order
<1>9. CASE ~(c.passes > 1)
  <2>1. CallTrue(NoCall, venue, syncs) /\ NoCall.op = "none" /\ NoCall.at = "idle"
      BY <1>1, NothingSaid DEF Steady, NoCall
  <2>2. QED
      BY <1>2, <1>5, <1>7, <1>9, <2>1 DEF order
<1>10. QED
  BY <1>8, <1>9

(* sync_account_state(): positions are read, then all is saved.            *)
LEMMA SyncSteps ==
    ASSUME LiveTrue, NEW t \in Callers, ReadPositions(t) \/ SaveSync(t)
    PROVE  LiveTrue'
<1> DEFINE c == call[t]
<1>1. Steady /\ CallTrue(c, venue, syncs) /\ c \in Calls
  BY LiveSteady DEF LiveTrue, CallTrue
<1>2. CASE ReadPositions(t)
  <2> DEFINE d == [c EXCEPT !.at = "orders", !.unsure = venue.exposed]
  <2>1. /\ c.at = "positions" /\ UNCHANGED <<row, venue, book, syncs, upset>>
        /\ \/ Become(t, d) /\ UNCHANGED rest
           \/ rest' = 0 /\ Become(t, NoCall)
      BY <1>2 DEF ReadPositions
  <2>2. CASE Become(t, d) /\ UNCHANGED rest
    <3>1. venue.exposed \in BOOLEAN /\ c.op = "sync"
        BY <1>1, <2>1 DEF Steady, Venues, CallTrue
    <3>2. /\ d \in Calls /\ d.at = "orders" /\ d.op = "sync" /\ d.order = c.order
          /\ d.left = c.left /\ d.kid = c.kid /\ d.flat = c.flat /\ d.passes = c.passes
        BY <1>1, <3>1 DEF Calls, CallPlaces
    <3>3. Become(t, d)
        BY <2>2
    <3> HIDE DEF d
    <3>4. CallTrue(d, venue, syncs)
        BY <1>1, <2>1, <3>1, <3>2
        DEF CallTrue, Posturing, HeardOfEntry, Heard, NoCall
    <3>5. d.op \in {"none", "sync"} /\ d.op # "create" /\ d.at # "post"
        BY <3>2
    <3>6. QED
        BY <1>1, <2>1, <2>2, <3>3, <3>4, <3>5, OneGoesOn DEF Steady
  <2>3. CASE rest' = 0 /\ Become(t, NoCall)
    <3>1. rest' \in 0 .. syncs
        BY <1>1, <2>3 DEF Steady
    <3>2. QED
        BY <1>1, <2>1, <2>3, <3>1, EndOfCall DEF Steady
  <2>4. QED
      BY <2>1, <2>2, <2>3
<1>3. CASE SaveSync(t)
  <2> DEFINE open == book.open \union OpenOnVenue
             flat == IF book'.exposed \/ book'.open # {} THEN 0 ELSE rest'
             d == [c EXCEPT !.at = "settle", !.flat = flat]
  <2>1. /\ c.at = "orders" /\ book' = [exposed |-> c.unsure, open |-> open] /\ rest' = c.flat
        /\ Become(t, d) /\ UNCHANGED <<row, venue, syncs, upset>>
      BY <1>3 DEF SaveSync
  <2>2. \A i \in OpenOnVenue : i \in Nat /\ i <= Len(venue.algos)
    <3>1. /\ DOMAIN venue.algos = 1 .. Len(venue.algos) /\ Len(venue.algos) \in Nat
        BY <1>1 DEF Steady, Venues
    <3>2. QED
        BY <3>1 DEF OpenOnVenue, Entry
  <2>3. open \in SUBSET Nat /\ \A i \in open : i <= Len(venue.algos)
      BY <1>1, <2>2 DEF Steady
  <2>4. book' \in [exposed : BOOLEAN, open : SUBSET Nat] /\ book'.open = open
      BY <1>1, <2>1, <2>3 DEF Calls
  <2> HIDE DEF open
  <2>5. c.op = "sync" /\ rest' \in 0 .. syncs /\ rest' \in 0 .. MaxSyncs /\ 0 \in 0 .. syncs
        /\ 0 \in 0 .. MaxSyncs
      BY <1>1, <2>1, LiveNumbers DEF CallTrue, Calls, Steady
  <2>6. flat \in 0 .. syncs /\ flat \in 0 .. MaxSyncs
      BY <2>5
  <2> HIDE DEF flat
  <2>7. /\ d \in Calls /\ d.at = "settle" /\ d.op = "sync" /\ d.order = c.order
        /\ d.left = c.left /\ d.kid = c.kid /\ d.flat = flat /\ d.passes = c.passes
        /\ d.passes \in 0 .. 2
      BY <1>1, <2>5, <2>6 DEF Calls, CallPlaces
  <2>8. Become(t, d)
      BY <2>1
  <2> HIDE DEF d
  <2>9. ~Posturing(c) /\ c.passes = 0
      BY <1>1, <2>1, <2>7 DEF CallTrue, Posturing
  <2>10. ~Posturing(d) /\ ~Heard(d) /\ d # NoCall /\ flat <= syncs
      BY <1>1, <2>6, <2>7, <2>9 DEF Posturing, Heard, NoCall, Steady
  <2>11. CallTrue(d, venue, syncs)
      BY <1>1, <2>1, <2>5, <2>7, <2>9, <2>10 DEF CallTrue, HeardOfEntry
  <2>12. \A i \in book'.open : i <= Len(venue'.algos)
      BY <2>1, <2>3, <2>4
  <2>13. d.op \in {"none", "sync"} /\ d.op # "create" /\ d.at # "post"
      BY <2>7
  <2>14. /\ rest' \in 0 .. syncs' /\ CallTrue(d, venue', syncs') /\ OrderTrue(row', venue', syncs')
         /\ syncs' \in 0 .. MaxSyncs /\ syncs <= syncs'
      BY <1>1, <2>1, <2>5, <2>11 DEF Steady
  <2>15. QED
      BY <1>1, <2>1, <2>4, <2>8, <2>12, <2>13, <2>14, OneGoesOn DEF Steady
<1>4. QED
  BY <1>2, <1>3

(* Every step keeps what is said true, and undoes no end at the exchange.  *)
LEMMA LiveStep ==
    ASSUME LiveTrue, [LiveNext]_live_vars
    PROVE  LiveTrue' /\ VenueMoves(venue, venue') /\ syncs <= syncs'
<1>1. Steady
  BY LiveSteady
<1>2. CASE UNCHANGED live_vars
  <2>1. LiveShape' /\ OneCreation'
      BY <1>2 DEF LiveTrue, LiveShape, OneCreation, live_vars
  <2>2. QED
      BY <1>1, <1>2, <2>1, LiveKept DEF live_vars, Steady
<1>3. CASE Fill \/ EntryEnds \/ Flatten
  <2>1. UNCHANGED syncs
      BY <1>3 DEF Fill, EntryEnds, Flatten
  <2>2. QED
      BY <1>1, <1>3, <2>1, VenueSteps DEF Steady
<1>4. CASE Die
  BY <1>1, <1>4, DieStep DEF Die, Steady
<1>5. ASSUME NEW t \in Callers,
             Submits(t) \/ Cancels(t) \/ Verifies(t) \/ Protects(t) \/ Syncs(t)
      PROVE  LiveTrue' /\ VenueMoves(venue, venue') /\ syncs <= syncs'
  <2>1. CASE Submits(t)
    <3>1. VenueMoves(venue, venue') /\ UNCHANGED syncs
      <4>1. CASE PostEntry(t)
        <5>1. /\ venue.entry = "absent" /\ UNCHANGED syncs
              /\ venue'.algos = venue.algos
          <6>1. /\ call[t].at = "post" /\ UNCHANGED syncs
                /\ \/ UNCHANGED venue
                   \/ \E s \in {"NEW", "FILLED"} :
                         venue' = [venue EXCEPT !.entry = s, !.exposed = (s = "FILLED")]
              BY <4>1 DEF PostEntry
          <6>2. QED
              BY <1>1, <6>1 DEF LiveTrue, OneCreation, Steady, Venues
        <5>2. QED
            BY <1>1, <5>1 DEF VenueMoves, Steady
      <4>2. CASE ~PostEntry(t)
          BY <1>1, <2>1, <4>2 DEF Submits, CreateOrder, SaveSubmission, Steady
      <4>3. QED
          BY <4>1, <4>2
    <3>2. QED
        BY <1>1, <2>1, <3>1, StartSteps, SubmitSteps DEF Submits, Steady
  <2>2. CASE Cancels(t)
    <3>1. VenueMoves(venue, venue') /\ UNCHANGED syncs
      <4>1. CASE DeleteEntry(t)
        <5>1. /\ UNCHANGED syncs
              /\ \/ UNCHANGED venue
                 \/ venue.entry \in OpenStatus /\ venue' = [venue EXCEPT !.entry = "CANCELED"]
            BY <4>1 DEF DeleteEntry
        <5>2. venue'.algos = venue.algos /\ (venue.entry = "FILLED" => venue'.entry = "FILLED")
            BY <1>1, <5>1 DEF Steady, Venues, OpenStatus
        <5>3. QED
            BY <1>1, <5>1, <5>2 DEF VenueMoves, Steady
      <4>2. CASE ~DeleteEntry(t)
          BY <1>1, <2>2, <4>2 DEF Cancels, LoadOrder, SaveCancel, Steady
      <4>3. QED
          BY <4>1, <4>2
    <3>2. QED
        BY <1>1, <2>2, <3>1, StartSteps, CancelSteps DEF Cancels, Steady
  <2>3. CASE Verifies(t)
    <3>1. UNCHANGED <<venue, syncs>>
        BY <2>3 DEF Verifies, LoadOrder, AskEntry, Asked, SettleFlat, SaveVerification
    <3>2. LiveTrue'
        BY <2>3, StartSteps, AskEntryStep, SettleFlatStep, SaveVerificationStep DEF Verifies
    <3>3. QED
        BY <1>1, <3>1, <3>2 DEF Steady
  <2>4. CASE Protects(t)
    <3>1. UNCHANGED syncs
        BY <2>4 DEF Protects, PostKid, AskKid, Asked, CancelKid, SavePosture
    <3>2. (LiveTrue' /\ VenueMoves(venue, venue')) \/ AskKid(t) \/ SavePosture(t)
        BY <2>4, PostKidStep, CancelKidStep DEF Protects
    <3>3. LiveTrue' /\ VenueMoves(venue, venue')
      <4>1. CASE AskKid(t)
          BY <1>1, <4>1, AskKidStep DEF AskKid, Asked, Steady
      <4>2. CASE SavePosture(t)
          BY <1>1, <4>2, SavePostureStep DEF Steady
      <4>3. QED
          BY <3>2, <4>1, <4>2
    <3>4. QED
        BY <1>1, <3>1, <3>3 DEF Steady
  <2>5. CASE Syncs(t)
    <3>1. UNCHANGED venue /\ syncs <= syncs'
        BY <1>1, <2>5 DEF Syncs, Sync, ReadPositions, SaveSync, Steady
    <3>2. QED
        BY <1>1, <2>5, <3>1, StartSteps, SyncSteps DEF Syncs, Steady
  <2>6. QED
      BY <1>5, <2>1, <2>2, <2>3, <2>4, <2>5
<1>6. QED
  BY <1>2, <1>3, <1>4, <1>5 DEF LiveNext

(* What the row and every copy say was true at some time, and what cannot  *)
(* be undone at the exchange is still true.                                *)
THEOREM LiveCorrect == LiveSpec => []LiveTrue
<1>1. LiveInit => LiveTrue
  BY LiveStarts
<1>2. LiveTrue /\ [LiveNext]_live_vars => LiveTrue'
  BY LiveStep
<1>3. QED
  BY <1>1, <1>2, PTL DEF LiveSpec

(* Rows, copies, children and the exchange hold what the services put      *)
(* there, and name only children that were posted.                         *)
THEOREM LiveTypeCorrect == LiveSpec => []LiveTypeOK
<1>1. LiveTrue => LiveTypeOK
  <2> SUFFICES ASSUME LiveTrue PROVE LiveTypeOK
      OBVIOUS
  <2>1. Steady /\ \A t \in Callers : CallTrue(call[t], venue, syncs)
      BY LiveSteady DEF LiveTrue
  <2>2. row \in Order /\ \A t \in Callers : call[t].order \in Order
      BY <2>1 DEF Steady, CallTrue, OrderTrue
  <2>3. \A o \in {row} \union {call[t].order : t \in Callers}, k \in Kinds :
           o.kids[k].id <= Len(venue.algos)
      BY <2>1 DEF Steady, CallTrue, OrderTrue, KidTrue
  <2>4. book.open \subseteq 0 .. Len(venue.algos)
      BY <2>1 DEF Steady
  <2>5. venue.entry \in {"absent", "CANCELED", "FILLED"} \union OpenStatus
        /\ venue.exposed \in BOOLEAN
      BY <2>1 DEF Steady, Venues, EntryStates
  <2>6. QED
      BY <2>1, <2>2, <2>3, <2>4, <2>5 DEF LiveTypeOK, Steady
<1>2. QED
  BY <1>1, LiveCorrect, PTL

-----------------------------------------------------------------------------
(* What a step makes of the row and of the copies.                         *)

\* p says the same of its protection as o.
SaysSame(p, o) == p.prot = o.prot /\ p.kids = o.kids
KeepsNames(o, p) == \A k \in Kinds : o.kids[k].id # 0 => p.kids[k].id = o.kids[k].id

ClosedRow ==
    [row EXCEPT !.status = "CLOSED", !.prot = "CLOSED", !.closed = TRUE, !.stamp = syncs]

\* The ways in which a call t changes the row.
RowCreated(t) ==
    CreateOrder(t) /\ row = NoRow /\ row' = [Fresh EXCEPT !.stamp = syncs]
RowSubmitted(t) ==
    /\ SaveSubmission(t) /\ SaysSame(row', row)
    /\ row'.stamp = call[t].order.stamp /\ row'.closed = row.closed
RowHeard(t) ==
    /\ SaveCancel(t) \/ SaveVerification(t)
    /\ SaysSame(row', call[t].order)
    /\ row'.stamp = syncs /\ row'.closed = row.closed
RowClosed(t) ==
    /\ SettleFlat(t) /\ row.status = "FILLED" /\ ConfirmedFlat(call[t].flat)
    /\ row' = ClosedRow
RowPostured(t) ==
    /\ SavePosture(t)
    /\ row'.prot = Summary(call[t].order) /\ row'.kids = call[t].order.kids
    /\ row'.status = call[t].order.status /\ row'.stamp = call[t].order.stamp
    /\ row'.closed = row.closed
RowChanges(t) ==
    RowCreated(t) \/ RowSubmitted(t) \/ RowHeard(t) \/ RowClosed(t) \/ RowPostured(t)

\* The steps of a call.
CallSteps(t) == Submits(t) \/ Cancels(t) \/ Verifies(t) \/ Protects(t) \/ Syncs(t)

(* No other step writes the row.                                           *)
LEMMA RowSteps ==
    ASSUME LiveTrue, NEW t \in Callers, CallSteps(t)
    PROVE  UNCHANGED row \/ RowChanges(t)
<1>1. row \in Order /\ call[t].order \in Order
  BY DEF LiveTrue, CallTrue, OrderTrue
<1>2. CASE CreateOrder(t)
  BY <1>2 DEF CreateOrder, RowChanges, RowCreated
<1>3. CASE SaveSubmission(t)
  <2> DEFINE status == IF call[t].seen = "lost" THEN "PENDING" ELSE call[t].seen
             order == [call[t].order EXCEPT !.status = status, !.prot = row.prot,
                                            !.kids = row.kids]
  <2>1. row' = [order EXCEPT !.closed = row.closed]
      BY <1>3 DEF SaveSubmission, Save, Saved
  <2> HIDE DEF status
  <2>2. QED
      BY <1>1, <1>3, <2>1 DEF RowChanges, RowSubmitted, SaysSame, Order
<1>4. CASE SaveCancel(t)
  <2> DEFINE status == IF call[t].seen = "lost" THEN call[t].order.status ELSE call[t].seen
             order == [call[t].order EXCEPT !.status = status, !.stamp = syncs]
  <2>1. row' = [order EXCEPT !.closed = row.closed]
      BY <1>4 DEF SaveCancel, Save, Saved
  <2> HIDE DEF status
  <2>2. QED
      BY <1>1, <1>4, <2>1 DEF RowChanges, RowHeard, SaysSame, Order
<1>5. CASE SaveVerification(t)
  <2> DEFINE status == IF call[t].seen = "lost" THEN call[t].order.status ELSE call[t].seen
             order == [call[t].order EXCEPT !.status = status, !.stamp = syncs]
  <2>1. row' = [order EXCEPT !.closed = row.closed]
      BY <1>5 DEF SaveVerification, Save, Saved
  <2> HIDE DEF status
  <2>2. QED
      BY <1>1, <1>5, <2>1 DEF RowChanges, RowHeard, SaysSame, Order
<1>6. CASE SettleFlat(t)
  BY <1>6 DEF SettleFlat, RowChanges, RowClosed, ClosedRow
<1>7. CASE SavePosture(t)
  <2>1. /\ row'.prot = Summary(call[t].order) /\ row'.kids = call[t].order.kids
        /\ row'.status = call[t].order.status /\ row'.stamp = call[t].order.stamp
        /\ row' = Saved([call[t].order EXCEPT !.prot = Summary(call[t].order)])
      BY <1>7, SavePostureStep
  <2>2. row'.closed = row.closed
      BY <1>1, <2>1 DEF Saved, Order
  <2>3. QED
      BY <1>7, <2>1, <2>2 DEF RowChanges, RowPostured
<1>8. CASE ~CreateOrder(t) /\ ~SaveSubmission(t) /\ ~SaveCancel(t) /\ ~SaveVerification(t)
           /\ ~SettleFlat(t) /\ ~SavePosture(t)
  BY <1>8 DEF CallSteps, Submits, Cancels, Verifies, Protects, Syncs, LoadOrder, PostEntry,
              DeleteEntry, AskEntry, AskKid, Asked, PostKid, CancelKid, Sync, ReadPositions,
              SaveSync
<1>9. QED
  BY <1>2, <1>3, <1>4, <1>5, <1>6, <1>7, <1>8

PosturePlaces == {"protect", "confirm", "cleanup", "keep"}

(* What comes next is decided for a copy without changing it.              *)
LEMMA CopyKept ==
    ASSUME NEW c \in Calls
    PROVE  /\ NextKid(c).order = c.order /\ NextKid(c).op = c.op
           /\ NextKid(c).passes = c.passes /\ NextKid(c).at \in PosturePlaces
           /\ Posture(c).order = c.order /\ Posture(c).op = c.op
           /\ Posture(c).passes = c.passes /\ Posture(c).at \in PosturePlaces
<1>1. ASSUME NEW k
      PROVE  Ensure(c, k).order = c.order /\ Ensure(c, k).op = c.op
             /\ Ensure(c, k).passes = c.passes /\ Ensure(c, k).at \in PosturePlaces
  BY DEF Ensure, Calls, PosturePlaces
<1>2. ASSUME NEW left
      PROVE  CancelEach(c, left).order = c.order /\ CancelEach(c, left).op = c.op
             /\ CancelEach(c, left).passes = c.passes
             /\ CancelEach(c, left).at \in PosturePlaces
  BY DEF CancelEach, Calls, PosturePlaces
<1>3. LET d == [c EXCEPT !.at = "keep"]
      IN  d.order = c.order /\ d.op = c.op /\ d.passes = c.passes /\ d.at \in PosturePlaces
  BY DEF Calls, PosturePlaces
<1>4. QED
  BY <1>1, <1>2, <1>3 DEF NextKid, Posture, Closure

(* And an answer changes but the status of its child.                      *)
LEMMA WithKidKept ==
    ASSUME NEW c \in Calls, c.kid \in Kinds, NEW status \in KidStatuses
    PROVE  LET d == WithKid(c, status)
           IN  /\ d.order.status = c.order.status /\ d.order.stamp = c.order.stamp
               /\ SameNames(c.order, d.order) /\ d.op = c.op /\ d.passes = c.passes
               /\ d.at \in PosturePlaces
<1> DEFINE kid == [c.order.kids[c.kid] EXCEPT !.status = status]
           o == Given(c.order, c.kid, kid)
           e == [c EXCEPT !.order = o, !.seen = "none"]
<1>1. WithKid(c, status) = NextKid(e)
  BY DEF WithKid, Given
<1>2. c.order \in Order /\ c.order.kids \in [Kinds -> Kid]
  BY DEF Calls, Order
<1>3. kid \in Kid /\ kid.id = c.order.kids[c.kid].id
  BY <1>2 DEF Kid
<1> HIDE DEF kid
<1>4. o \in Order /\ o.status = c.order.status /\ o.stamp = c.order.stamp
      /\ SameNames(c.order, o)
  <2> DEFINE kids == [c.order.kids EXCEPT ![c.kid] = kid]
  <2>1. kids \in [Kinds -> Kid] /\ \A k \in Kinds : kids[k].id = c.order.kids[k].id
      BY <1>2, <1>3
  <2>2. o = [c.order EXCEPT !.kids = kids]
      BY DEF Given
  <2> HIDE DEF kids, o
  <2>3. QED
      BY <1>2, <2>1, <2>2 DEF Order, SameNames
<1> HIDE DEF o
<1>5. e \in Calls /\ e.order = o /\ e.op = c.op /\ e.passes = c.passes
  BY <1>4 DEF Calls
<1> HIDE DEF e
<1>6. QED
  BY <1>1, <1>4, <1>5, CopyKept

\* What a step makes of the copy of c, when r is the row that it leaves.
CopyGoesOn(c, d, r) ==
    \/ d.order = NoRow /\ d.op \in {"none", "sync"}
    \/ ~Posturing(c) /\ d.order = r
    \/ /\ ~Posturing(c) /\ ~Posturing(d) /\ d.order = c.order
       /\ d.op = c.op
    \/ /\ Posturing(c) /\ Posturing(d) /\ KeepsNames(c.order, d.order) /\ d.op = c.op
       /\ d.order.status = c.order.status /\ d.order.stamp = c.order.stamp

\* Nothing is posted, or what is posted is named by the copy of t.
NewIsNamed(t) ==
    \/ Len(venue'.algos) = Len(venue.algos)
    \/ /\ Len(venue'.algos) = Len(venue.algos) + 1 /\ call[t].op = "query"
       /\ \E k \in Kinds : call'[t].order.kids[k].id = Len(venue'.algos)

\* Where the steps lead, and where they come from.
Leads(t) ==
    /\ Posturing(call'[t]) => Posturing(call[t]) \/ SaveVerification(t)
    /\ Posturing(call[t]) => Posturing(call'[t]) \/ SavePosture(t)
    /\ call'[t].at = "settle" => AskEntry(t) \/ AskKid(t) \/ SaveSync(t)
    /\ call'[t].at = "orders" => ReadPositions(t)
    /\ call'[t].at \in {"post", "posted"} => CreateOrder(t) \/ PostEntry(t)
    /\ call[t].op = "create" /\ call[t].at \notin {"post", "posted"} =>
          \/ SaveVerification(t)
          \/ call'[t].op = "create" /\ call'[t].at \notin {"post", "posted"}
    /\ SaveSubmission(t) => call'[t].op = "create" /\ call'[t].at = "ask"

(* A copy is dropped, is that of the row, or goes on.                      *)
LEMMA CopySteps ==
    ASSUME LiveTrue, NEW t \in Callers, CallSteps(t)
    PROVE  /\ \A u \in Callers : u # t => call'[u] = call[u]
           /\ CopyGoesOn(call[t], call'[t], row')
           /\ NewIsNamed(t) /\ Leads(t)
<1> DEFINE c == call[t]
           d == call'[t]
<1>1. /\ Steady /\ CallTrue(c, venue, syncs) /\ c \in Calls
      /\ LiveTrue' /\ CallTrue(d, venue', syncs') /\ NoCall.order = NoRow
      /\ NoCall.op = "none" /\ NoCall.at = "idle"
  <2>1. LiveNext
      BY DEF CallSteps, LiveNext
  <2>2. LiveTrue' /\ Steady /\ NoCall.op = "none" /\ NoCall.at = "idle"
      BY <2>1, LiveStep, LiveSteady DEF NoCall
  <2>3. QED
      BY <2>2, NothingSaid DEF LiveTrue, CallTrue, Steady
<1>2. \A e : Become(t, e) => d = e /\ \A u \in Callers : u # t => call'[u] = call[u]
  BY DEF LiveTrue, LiveShape, Become
<1>3. /\ c.passes > 0 <=> Posturing(c)
      /\ d.passes > 0 <=> Posturing(d)
      /\ Posturing(c) => c.op = "query" /\ c.kid \in Kinds
      /\ c.at \in PosturePlaces => Posturing(c)
      /\ d.at \in PosturePlaces => Posturing(d)
      /\ Posturing(d) => d.at \in PosturePlaces \union {"settle"}
  BY <1>1 DEF CallTrue, PostureTrue, Posturing, PosturePlaces
<1>4. \A o, p : SameNames(o, p) \/ o = p => KeepsNames(o, p)
  BY DEF SameNames, KeepsNames
<1>5. CASE CreateOrder(t) \/ LoadOrder(t, "query") \/ LoadOrder(t, "cancel") \/ Sync(t)
  <2>1. UNCHANGED venue /\ c.at = "idle" /\ ~Posturing(c) /\ c.op = "none"
    <3>1. UNCHANGED venue /\ c.at = "idle"
        BY <1>5 DEF CreateOrder, LoadOrder, Sync, Start
    <3>2. QED
        BY <1>1, <3>1 DEF Posturing, CallTrue
  <2>2. CASE CreateOrder(t)
    <3>1. Become(t, [NoCall EXCEPT !.at = "post", !.op = "create", !.order = row'])
        BY <2>2 DEF CreateOrder, Start
    <3>2. d = [NoCall EXCEPT !.at = "post", !.op = "create", !.order = row']
        BY <1>2, <3>1
    <3>3. d.order = row' /\ d.at = "post"
        BY <3>2 DEF NoCall
    <3>4. QED
        BY <1>2, <2>1, <2>2, <3>1, <3>3 DEF CopyGoesOn, NewIsNamed, Leads, Posturing,
                                           SaveSubmission
  <2>3. ASSUME NEW op, LoadOrder(t, op)
        PROVE  d.order = row' /\ d.at \in {"ask", "delete"}
               /\ \A u \in Callers : u # t => call'[u] = call[u]
    <3>1. /\ Become(t, [NoCall EXCEPT !.at = IF op = "cancel" THEN "delete" ELSE "ask",
                                      !.op = op, !.order = row])
          /\ row' = row
        BY <2>3 DEF LoadOrder, Start
    <3>2. d = [NoCall EXCEPT !.at = IF op = "cancel" THEN "delete" ELSE "ask",
                             !.op = op, !.order = row]
        BY <1>2, <3>1
    <3>3. d.order = row /\ d.at \in {"ask", "delete"}
        BY <3>2 DEF NoCall
    <3>4. QED
        BY <1>2, <3>1, <3>3
  <2>4. CASE Sync(t)
    <3>1. Become(t, [NoCall EXCEPT !.at = "positions", !.op = "sync", !.flat = syncs'])
        BY <2>4 DEF Sync, Start
    <3>2. d = [NoCall EXCEPT !.at = "positions", !.op = "sync", !.flat = syncs']
        BY <1>2, <3>1
    <3>3. d.order = NoRow /\ d.op = "sync" /\ d.at = "positions"
        BY <3>2 DEF NoCall
    <3>4. QED
        BY <1>2, <2>1, <3>1, <3>3 DEF CopyGoesOn, NewIsNamed, Leads, Posturing, SaveSubmission
  <2>5. CASE LoadOrder(t, "query") \/ LoadOrder(t, "cancel")
      BY <2>1, <2>3, <2>5 DEF CopyGoesOn, NewIsNamed, Leads, Posturing, SaveSubmission
  <2>6. QED
      BY <1>5, <2>2, <2>4, <2>5
<1>6. CASE PostEntry(t) \/ DeleteEntry(t) \/ AskEntry(t) \/ ReadPositions(t) \/ SaveSync(t)
  <2>1. c.at \in {"post", "delete", "ask", "positions", "orders"}
      BY <1>6 DEF PostEntry, DeleteEntry, AskEntry, ReadPositions, SaveSync
  <2>2. venue'.algos = venue.algos
    <3>1. \/ UNCHANGED venue
          \/ venue' = [venue EXCEPT !.entry = "CANCELED"]
          \/ \E s \in {"NEW", "FILLED"} :
                venue' = [venue EXCEPT !.entry = s, !.exposed = (s = "FILLED")]
        BY <1>6 DEF PostEntry, DeleteEntry, AskEntry, Asked, ReadPositions, SaveSync
    <3>2. QED
        BY <1>1, <3>1 DEF Steady, Venues
  <2>3. /\ \/ d = NoCall /\ (PostEntry(t) \/ ReadPositions(t))
           \/ /\ d.order = c.order /\ d.op = c.op /\ d.passes = c.passes
              /\ \/ d.at = "posted" /\ PostEntry(t)
                 \/ d.at = "deleted"
                 \/ d.at = "verified"
                 \/ d.at = "settle" /\ (AskEntry(t) \/ SaveSync(t))
                 \/ d.at = "orders" /\ ReadPositions(t)
        /\ \A u \in Callers : u # t => call'[u] = call[u]
    <3>1. CASE PostEntry(t)
      <4>1. Become(t, NoCall) \/ \E seen : Become(t, [c EXCEPT !.at = "posted", !.seen = seen])
          BY <3>1 DEF PostEntry
      <4>2. (d = NoCall \/ \E seen : d = [c EXCEPT !.at = "posted", !.seen = seen])
            /\ \A u \in Callers : u # t => call'[u] = call[u]
          BY <1>2, <4>1
      <4>3. QED
          BY <1>1, <3>1, <4>2 DEF Calls
    <3>2. CASE DeleteEntry(t)
      <4>1. \E seen : Become(t, [c EXCEPT !.at = "deleted", !.seen = seen])
          BY <3>2 DEF DeleteEntry
      <4>2. (\E seen : d = [c EXCEPT !.at = "deleted", !.seen = seen])
            /\ \A u \in Callers : u # t => call'[u] = call[u]
          BY <1>2, <4>1
      <4>3. QED
          BY <1>1, <3>2, <4>2 DEF Calls
    <3>3. CASE AskEntry(t)
      <4>1. \/ Become(t, [c EXCEPT !.at = "verified", !.seen = "lost"])
            \/ \E seen, flat : Become(t, [c EXCEPT !.at = "settle", !.seen = seen, !.flat = flat])
          BY <3>3 DEF AskEntry, Asked
      <4>2. (\/ d = [c EXCEPT !.at = "verified", !.seen = "lost"]
             \/ \E seen, flat : d = [c EXCEPT !.at = "settle", !.seen = seen, !.flat = flat])
            /\ \A u \in Callers : u # t => call'[u] = call[u]
          BY <1>2, <4>1
      <4>3. QED
          BY <1>1, <3>3, <4>2 DEF Calls
    <3>4. CASE ReadPositions(t)
      <4>1. \/ Become(t, NoCall)
            \/ Become(t, [c EXCEPT !.at = "orders", !.unsure = venue.exposed])
          BY <3>4 DEF ReadPositions
      <4>2. (d = NoCall \/ d = [c EXCEPT !.at = "orders", !.unsure = venue.exposed])
            /\ \A u \in Callers : u # t => call'[u] = call[u]
          BY <1>2, <4>1
      <4>3. QED
          BY <1>1, <3>4, <4>2 DEF Calls
    <3>5. CASE SaveSync(t)
      <4>1. \E flat : Become(t, [c EXCEPT !.at = "settle", !.flat = flat])
          BY <3>5 DEF SaveSync
      <4>2. (\E flat : d = [c EXCEPT !.at = "settle", !.flat = flat])
            /\ \A u \in Callers : u # t => call'[u] = call[u]
          BY <1>2, <4>1
      <4>3. QED
          BY <1>1, <3>5, <4>2 DEF Calls
    <3>6. QED
        BY <1>6, <3>1, <3>2, <3>3, <3>4, <3>5
  <2>4. ~Posturing(c)
      BY <2>1 DEF Posturing
  <2>5. ~Posturing(d)
    <3>1. ~Posturing(NoCall)
        BY <1>1 DEF Posturing
    <3>2. QED
        BY <1>3, <2>3, <2>4, <3>1
  <2>6. Leads(t)
    <3>1. c.op = "create" /\ c.at \notin {"post", "posted"} => AskEntry(t)
        BY <1>1, <1>6 DEF PostEntry, DeleteEntry, ReadPositions, SaveSync, CallTrue
    <3>2. ~SaveSubmission(t)
        BY <2>1 DEF SaveSubmission
    <3>3. AskEntry(t) => ~PostEntry(t) /\ ~ReadPositions(t)
        BY DEF AskEntry, PostEntry, ReadPositions
    <3>4. QED
        BY <1>1, <2>3, <2>4, <2>5, <3>1, <3>2, <3>3 DEF Leads
  <2>7. QED
      BY <1>1, <2>2, <2>3, <2>4, <2>5, <2>6 DEF CopyGoesOn, NewIsNamed
<1>7. CASE SaveSubmission(t) \/ SaveCancel(t)
  <2>1. /\ c.at \in {"posted", "deleted"} /\ UNCHANGED venue
        /\ Become(t, [c EXCEPT !.at = "ask", !.order = row'])
      BY <1>7 DEF SaveSubmission, SaveCancel, Save
  <2>2. d = [c EXCEPT !.at = "ask", !.order = row']
      BY <1>2, <2>1
  <2>3. d.order = row' /\ d.at = "ask" /\ d.op = c.op
      BY <1>1, <2>2 DEF Calls
  <2>4. ~Posturing(c) /\ ~Posturing(d)
      BY <2>1, <2>3 DEF Posturing
  <2>5. Leads(t)
      BY <1>1, <2>1, <2>3, <2>4 DEF Leads, SaveSubmission, CallTrue
  <2>6. QED
      BY <1>2, <2>1, <2>3, <2>4, <2>5 DEF CopyGoesOn, NewIsNamed
<1>8. CASE SaveVerification(t)
  <2>1. UNCHANGED venue /\ (d = NoCall \/ (d.order = row' /\ d.at \in PosturePlaces))
    <3> DEFINE passes == IF c.op = "create" THEN 2 ELSE 1
               e == [c EXCEPT !.order = row', !.seen = "none", !.op = "query",
                              !.passes = passes]
    <3>1. UNCHANGED venue /\ (Become(t, NoCall) \/ Become(t, Posture(e)))
        BY <1>8 DEF SaveVerification
    <3>2. row' \in Order /\ passes \in 0 .. 2
        BY <1>1 DEF LiveTrue, OrderTrue
    <3> HIDE DEF passes
    <3>3. e \in Calls /\ e.order = row'
        BY <1>1, <3>2 DEF Calls
    <3> HIDE DEF e
    <3>4. QED
        BY <1>2, <3>1, <3>3, CopyKept
  <2>2. \A u \in Callers : u # t => call'[u] = call[u]
      BY <1>2, <1>8 DEF SaveVerification
  <2>3. c.at = "verified" /\ ~Posturing(c)
      BY <1>8 DEF SaveVerification, Posturing
  <2>4. Leads(t)
      BY <1>1, <1>8, <2>1, <2>3 DEF Leads, SaveSubmission, PosturePlaces
  <2>5. QED
      BY <1>1, <2>1, <2>2, <2>3, <2>4 DEF CopyGoesOn, NewIsNamed
<1>9. CASE SavePosture(t)
  <2>1. /\ UNCHANGED venue /\ c.at = "keep" /\ c.at \in PosturePlaces
        /\ row'.kids = c.order.kids /\ row'.status = c.order.status
        /\ row'.stamp = c.order.stamp
      BY <1>9, SavePostureStep DEF SavePosture, PosturePlaces
  <2>2. Posturing(c)
      BY <1>3, <2>1
  <2>3. d = NoCall \/ (d.order = row' /\ d.op = c.op /\ d.at \in PosturePlaces)
    <3> DEFINE left == c.passes - 1
               e == [c EXCEPT !.order = row', !.passes = left]
    <3>1. Become(t, NoCall) \/ (c.passes > 1 /\ Become(t, Posture(e)))
        BY <1>9 DEF SavePosture
    <3>2. row' \in Order /\ (c.passes > 1 => left \in 0 .. 2)
        BY <1>1 DEF LiveTrue, OrderTrue, Calls
    <3> HIDE DEF left
    <3>3. c.passes > 1 => e \in Calls /\ e.order = row' /\ e.op = c.op
        BY <1>1, <3>2 DEF Calls
    <3> HIDE DEF e
    <3>4. QED
        BY <1>2, <3>1, <3>3, CopyKept
  <2>4. \A u \in Callers : u # t => call'[u] = call[u]
      BY <1>2, <1>9 DEF SavePosture
  <2>5. Leads(t)
      BY <1>1, <1>3, <1>9, <2>1, <2>2, <2>3 DEF Leads, SaveSubmission, PosturePlaces
  <2>6. QED
      BY <1>1, <1>3, <2>1, <2>2, <2>3, <2>4, <2>5 DEF CopyGoesOn, KeepsNames, NewIsNamed
<1>10. ASSUME NEW e \in Calls, e.order = c.order, e.op = c.op, e.passes = c.passes,
              e.kid \in Kinds, NEW status \in KidStatuses, Posturing(c),
              Become(t, WithKid(e, status)), Len(venue'.algos) = Len(venue.algos)
       PROVE  /\ \A u \in Callers : u # t => call'[u] = call[u]
              /\ CopyGoesOn(c, d, row') /\ NewIsNamed(t) /\ d.at \in PosturePlaces
  <2> DEFINE f == WithKid(e, status)
  <2>1. /\ d = f /\ f.passes = c.passes /\ f.op = c.op
        /\ f.order.status = c.order.status
        /\ f.order.stamp = c.order.stamp /\ SameNames(c.order, f.order)
        /\ f.at \in PosturePlaces
      BY <1>2, <1>10, WithKidKept
  <2> HIDE DEF f
  <2>2. CopyGoesOn(c, d, row') /\ NewIsNamed(t)
      BY <1>3, <1>4, <1>10, <2>1 DEF CopyGoesOn, NewIsNamed
  <2>3. QED
      BY <1>2, <1>10, <2>1, <2>2
<1>11. \A e, seen : KidStatus(e, seen) \in KidStatuses
  BY KidStatusTrue
<1>12. ASSUME Posturing(c), d.at \in PosturePlaces, c.at # "posted"
       PROVE  Leads(t)
  BY <1>3, <1>12 DEF Leads, PosturePlaces, SaveSubmission
<1>13. CASE AskKid(t)
  <2>1. /\ c.at = "confirm" /\ UNCHANGED venue
        /\ \/ Become(t, WithKid(c, KidStatus(c, "lost")))
           \/ \E seen, flat : Become(t, [c EXCEPT !.at = "settle", !.seen = seen, !.flat = flat])
      BY <1>13 DEF AskKid, Asked
  <2>2. Posturing(c)
      BY <2>1 DEF Posturing
  <2>3. CASE Become(t, WithKid(c, KidStatus(c, "lost")))
      BY <1>1, <1>3, <1>10, <1>11, <1>12, <2>1, <2>2, <2>3
  <2>4. ASSUME NEW seen, NEW flat,
               Become(t, [c EXCEPT !.at = "settle", !.seen = seen, !.flat = flat])
        PROVE  d.order = c.order /\ d.op = c.op /\ d.passes = c.passes /\ d.at = "settle"
               /\ \A u \in Callers : u # t => call'[u] = call[u]
    <3>1. d = [c EXCEPT !.at = "settle", !.seen = seen, !.flat = flat]
        BY <1>2, <2>4
    <3>2. QED
        BY <1>1, <1>2, <2>4, <3>1 DEF Calls
  <2>5. ASSUME d.order = c.order, d.op = c.op, d.passes = c.passes, d.at = "settle"
        PROVE  CopyGoesOn(c, d, row') /\ NewIsNamed(t) /\ Leads(t)
    <3>1. CopyGoesOn(c, d, row') /\ NewIsNamed(t)
        BY <1>3, <1>4, <2>1, <2>2, <2>5 DEF CopyGoesOn, NewIsNamed
    <3>2. Leads(t)
        BY <1>3, <1>13, <2>1, <2>2, <2>5 DEF Leads, SaveSubmission
    <3>3. QED
        BY <3>1, <3>2
  <2>6. QED
      BY <2>1, <2>3, <2>4, <2>5
<1>14. CASE SettleFlat(t)
  <2> DEFINE e == [c EXCEPT !.flat = 0]
  <2>1. /\ c.at = "settle" /\ UNCHANGED venue
        /\ Become(t, IF e.op = "sync" THEN NoCall
                     ELSE IF e.passes = 0 THEN [e EXCEPT !.at = "verified"]
                     ELSE WithKid(e, KidStatus(e, e.seen)))
      BY <1>14 DEF SettleFlat
  <2>2. /\ e \in Calls /\ e.order = c.order /\ e.op = c.op /\ e.passes = c.passes
        /\ e.kid = c.kid /\ e.passes \in 0 .. 2
      BY <1>1, LiveNumbers DEF Calls
  <2> HIDE DEF e
  <2>3. CASE e.op = "sync"
    <3>1. d = NoCall /\ c.op = "sync" /\ ~Posturing(NoCall)
        BY <1>1, <1>2, <2>1, <2>2, <2>3 DEF Posturing
    <3>2. Leads(t)
        BY <1>1, <1>3, <2>1, <3>1 DEF Leads, SaveSubmission
    <3>3. QED
        BY <1>1, <1>2, <2>1, <2>3, <3>1, <3>2 DEF CopyGoesOn, NewIsNamed
  <2>4. CASE e.op # "sync" /\ e.passes = 0
    <3>1. d.order = c.order /\ d.op = c.op /\ d.passes = 0 /\ d.at = "verified"
        BY <1>2, <2>1, <2>2, <2>4 DEF Calls
    <3>2. Leads(t)
        BY <1>3, <2>1, <2>2, <2>4, <3>1 DEF Leads, SaveSubmission
    <3>3. QED
        BY <1>2, <1>3, <2>1, <2>2, <2>4, <3>1, <3>2 DEF CopyGoesOn, NewIsNamed
  <2>5. CASE e.op # "sync" /\ e.passes # 0
    <3>1. Posturing(c) /\ e.kid \in Kinds
        BY <1>3, <2>2, <2>5
    <3>2. Become(t, WithKid(e, KidStatus(e, e.seen))) /\ Len(venue'.algos) = Len(venue.algos)
        BY <2>1, <2>5
    <3>3. QED
        BY <1>10, <1>11, <1>12, <2>1, <2>2, <3>1, <3>2
  <2>6. QED
      BY <2>3, <2>4, <2>5
<1>15. CASE CancelKid(t)
  <2> DEFINE k == IF "STOP" \in c.left THEN "STOP" ELSE "PROFIT"
             e == [c EXCEPT !.kid = k]
             id == e.order.kids[k].id
             gone == [venue EXCEPT !.algos[id] = "CANCELED"]
  <2>1. /\ e.at = "cleanup"
        /\ UNCHANGED venue \/ venue' = gone
        /\ \/ Become(t, WithKid(e, "DEGRADED"))
           \/ Become(t, [e EXCEPT !.at = "confirm", !.unsure = TRUE])
      BY <1>15 DEF CancelKid
  <2>2. k \in {"STOP", "PROFIT"} /\ (k \in c.left \/ c.left \subseteq {"PROFIT"})
      BY <1>1, LiveNumbers DEF Calls
  <2>3. (k = "PROFIT" => "STOP" \notin c.left)
      OBVIOUS
  <2> HIDE DEF k, gone
  <2>4. /\ e \in Calls /\ e.order = c.order /\ e.op = c.op /\ e.passes = c.passes
        /\ e.kid = k /\ e.at = c.at
      BY <1>1, <2>2 DEF Calls
  <2>5. Posturing(c) /\ c.left # {}
      BY <1>1, <2>1, <2>4 DEF Posturing, CallTrue, PostureTrue
  <2>6. e.kid \in Kinds
      BY <1>1, <2>2, <2>3, <2>4, <2>5, LiveNumbers DEF Calls
  <2>7. Len(venue'.algos) = Len(venue.algos)
    <3>1. venue.algos \in Seq(AlgoStates)
        BY <1>1 DEF Steady, Venues
    <3>2. Len([venue.algos EXCEPT ![id] = "CANCELED"]) = Len(venue.algos)
        BY <3>1
    <3>3. gone.algos = [venue.algos EXCEPT ![id] = "CANCELED"]
        BY <1>1 DEF Steady, Venues, gone
    <3>4. QED
        BY <2>1, <3>2, <3>3
  <2> HIDE DEF e, id
  <2>8. CASE Become(t, WithKid(e, "DEGRADED"))
    <3>1. "DEGRADED" \in KidStatuses
        BY DEF KidStatuses
    <3>2. QED
        BY <1>10, <1>12, <2>1, <2>4, <2>5, <2>6, <2>7, <2>8, <3>1
  <2>9. CASE Become(t, [e EXCEPT !.at = "confirm", !.unsure = TRUE])
    <3>1. d = [e EXCEPT !.at = "confirm", !.unsure = TRUE]
        BY <1>2, <2>9
    <3>2. d.order = c.order /\ d.op = c.op /\ d.passes = c.passes /\ d.at = "confirm"
        BY <2>4, <3>1 DEF Calls
    <3>3. Leads(t)
        BY <1>12, <2>1, <2>4, <2>5, <3>2 DEF PosturePlaces
    <3>4. QED
        BY <1>2, <1>3, <1>4, <2>5, <2>7, <2>9, <3>2, <3>3 DEF CopyGoesOn, NewIsNamed
  <2>10. QED
      BY <2>1, <2>8, <2>9
<1>16. CASE PostKid(t)
  <2> DEFINE id == Len(venue.algos) + 1
  <2>1. PICK how \in {"NEW", "absent"}, unsure \in BOOLEAN, as \in {"PENDING", "FAILED"} :
           /\ c.at = "protect" /\ id <= MaxPosts
           /\ venue' = [venue EXCEPT !.algos = Append(@, how)]
           /\ Become(t, LET p == [c EXCEPT !.order.kids[c.kid] = [id |-> id, status |-> as]]
                        IN  IF as = "FAILED" THEN NextKid(p)
                            ELSE [p EXCEPT !.at = "confirm", !.unsure = unsure])
      BY <1>16 DEF PostKid
  <2> DEFINE kid == [id |-> id, status |-> as]
             order == Given(c.order, c.kid, kid)
             p == [c EXCEPT !.order = order]
  <2>2. /\ Posturing(c) /\ c.order.kids[c.kid].id = 0 /\ c.kid \in Kinds
        /\ c.op = "query" /\ c.order \in Order
      BY <1>1, <2>1 DEF Posturing, CallTrue, PostureTrue, OrderTrue
  <2>3. Len(venue'.algos) = id /\ id \in 0 .. MaxPosts
    <3>1. venue.algos \in Seq(AlgoStates) /\ Len(venue.algos) \in Nat
        BY <1>1 DEF Steady, Venues
    <3>2. Len(Append(venue.algos, how)) = id
        BY <3>1
    <3>3. venue'.algos = Append(venue.algos, how)
        BY <1>1, <2>1 DEF Steady, Venues
    <3>4. QED
        BY <2>1, <3>1, <3>2, <3>3, LiveNumbers
  <2>4. Become(t, IF as = "FAILED" THEN NextKid(p)
                  ELSE [p EXCEPT !.at = "confirm", !.unsure = unsure])
      BY <2>1 DEF Given
  <2>5. kid \in Kid /\ kid.id = id
      BY <2>3 DEF Kid, KidStatuses
  <2> HIDE DEF kid
  <2>6. /\ order \in Order /\ order.status = c.order.status /\ order.stamp = c.order.stamp
        /\ KeepsNames(c.order, order) /\ order.kids[c.kid].id = id
    <3> DEFINE kids == [c.order.kids EXCEPT ![c.kid] = kid]
    <3>1. /\ kids \in [Kinds -> Kid] /\ kids[c.kid].id = id
          /\ \A k \in Kinds : c.order.kids[k].id # 0 => kids[k].id = c.order.kids[k].id
        BY <2>2, <2>5 DEF Order
    <3>2. order = [c.order EXCEPT !.kids = kids]
        BY DEF Given
    <3> HIDE DEF kids, order
    <3>3. QED
        BY <2>2, <3>1, <3>2 DEF Order, KeepsNames
  <2> HIDE DEF order
  <2>7. p \in Calls /\ p.order = order /\ p.op = c.op /\ p.passes = c.passes
      BY <1>1, <2>6 DEF Calls
  <2> HIDE DEF p
  <2>8. d.order = order /\ d.op = c.op /\ d.passes = c.passes /\ d.at \in PosturePlaces
    <3>1. CASE as = "FAILED"
        BY <1>2, <2>4, <2>7, <3>1, CopyKept
    <3>2. CASE as # "FAILED"
      <4>1. d = [p EXCEPT !.at = "confirm", !.unsure = unsure]
          BY <1>2, <2>4, <3>2
      <4>2. QED
          BY <2>7, <4>1 DEF Calls, PosturePlaces
    <3>3. QED
        BY <3>1, <3>2
  <2>9. \A u \in Callers : u # t => call'[u] = call[u]
      BY <1>2, <2>4
  <2>10. CopyGoesOn(c, d, row')
      BY <1>3, <2>2, <2>6, <2>8 DEF CopyGoesOn
  <2>11. NewIsNamed(t)
      BY <2>2, <2>3, <2>6, <2>8 DEF NewIsNamed
  <2>12. Leads(t)
      BY <1>12, <2>1, <2>2, <2>8
  <2>13. QED
      BY <2>9, <2>10, <2>11, <2>12
<1>17. QED
  BY <1>5, <1>6, <1>7, <1>8, <1>9, <1>13, <1>14, <1>15, <1>16
  DEF CallSteps, Submits, Cancels, Verifies, Protects, Syncs

-----------------------------------------------------------------------------
(* What the row says of its protection.                                    *)

\* Confirmed children were accepted by the exchange.
ProtTrue(o, v) ==
    o.prot = "CONFIRMED" =>
        \A k \in Present(o.kids) : v.algos[o.kids[k].id] # "absent"

\* A closed posture leaves no child at work, unless it counts as failed.
LeavesNothing(o, v) ==
    o.prot = "CLOSED" =>
        \A k \in Present(o.kids) :
            o.kids[k].status # "FAILED" => v.algos[o.kids[k].id] # "NEW"

\* Of a copy whose posture is at work the word is written anew in the end.
ConfirmedInv ==
    /\ ProtTrue(row, venue)
    /\ \A u \in Callers : Posturing(call[u]) \/ ProtTrue(call[u].order, venue)

\* While calls come one at a time no synchronisation begins behind a posture:
\* what a later one finds flat has no child at work, or it would be in the book.
AloneInv ==
    upset = "no" =>
        \A t, u \in Callers : call[t].at # "idle" /\ call[u].at # "idle" => t = u

ClosedInv ==
    upset = "no" =>
        /\ \A u \in Callers :
              Posturing(call[u]) => row.stamp = syncs /\ call[u].order.stamp = syncs
        /\ \A u \in Callers :
              call[u].at \in {"post", "posted"} => call[u].order.stamp = row.stamp
        /\ row.stamp < rest =>
              \A i \in DOMAIN venue.algos : venue.algos[i] = "NEW" => i \in book.open
        /\ \A u \in Callers :
              call[u].at = "settle" /\ row.stamp < call[u].flat =>
                 \A i \in DOMAIN venue.algos : venue.algos[i] # "NEW"
        /\ LeavesNothing(row, venue)
        /\ \A u \in Callers : Posturing(call[u]) \/ LeavesNothing(call[u].order, venue)

\* The row names no child that the copy at work does not, and but the copy of a
\* posture names children that the row does not.
NamesInv ==
    upset = "no" =>
        /\ \A u \in Callers : call[u].op \notin {"none", "sync"} =>
              /\ KeepsNames(row, call[u].order)
              /\ ~Posturing(call[u]) => SameNames(row, call[u].order)
        /\ \A i \in DOMAIN venue.algos :
              \/ \E k \in Kinds : row.kids[k].id = i
              \/ \E u \in Callers, k \in Kinds :
                    Posturing(call[u]) /\ call[u].order.kids[k].id = i

\* If the order has filled, whoever finds the account flat by a synchronisation
\* that began after the stamp is right: there is no position any more.
FlatTruth(o, v, b, r, cs) ==
    o.status = "FILLED" =>
        /\ o.stamp < r /\ ~b.exposed => ~v.exposed
        /\ \A u \in Callers :
              cs[u].at = "orders" /\ o.stamp < cs[u].flat /\ ~cs[u].unsure => ~v.exposed
        /\ \A u \in Callers : cs[u].at = "settle" /\ o.stamp < cs[u].flat => ~v.exposed

\* Not so for a row whose submission is saved, but not yet verified.
FlatInv ==
    upset # "crash" =>
        /\ \A u \in Callers :
              Posturing(call[u]) => FlatTruth(call[u].order, venue, book, rest, call)
        /\ (\A u \in Callers : call[u].op = "create" => call[u].at \in {"post", "posted"}) =>
              FlatTruth(row, venue, book, rest, call)

(* What is said of the protection stays true while the exchange moves on.  *)
LEMMA ProtStays ==
    ASSUME NEW v \in Venues, NEW w \in Venues, VenueMoves(v, w),
           NEW n, NEW o, OrderTrue(o, v, n)
    PROVE  /\ ProtTrue(o, v) => ProtTrue(o, w)
           /\ LeavesNothing(o, v) => LeavesNothing(o, w)
<1>1. ASSUME NEW k \in Present(o.kids)
      PROVE  o.kids[k].id \in 1 .. Len(v.algos)
  <2>1. k \in Kinds /\ o.kids[k] \in Kid /\ KidTrue(o.kids[k], v) /\ o.kids[k].status # "none"
      BY DEF OrderTrue, Order, Present
  <2>2. o.kids[k].id \in Nat /\ Len(v.algos) \in Nat
      BY <2>1, LiveNumbers DEF Kid, Venues
  <2>3. QED
      BY <2>1, <2>2 DEF KidTrue
<1>2. QED
  BY <1>1 DEF ProtTrue, LeavesNothing, VenueMoves

(* It is a matter of what the order says of its protection alone.          *)
LEMMA ProtSame ==
    ASSUME NEW o, NEW p, SaysSame(p, o), NEW v
    PROVE  /\ ProtTrue(o, v) => ProtTrue(p, v)
           /\ LeavesNothing(o, v) => LeavesNothing(p, v)
BY DEF SaysSame, ProtTrue, LeavesNothing

(* And true of what the posture makes of true children.                    *)
LEMMA ProtSummed ==
    ASSUME NEW o, NEW p, NEW v, NEW n, OrderTrue(p, v, n),
           p.prot = Summary(o), p.kids = o.kids
    PROVE  ProtTrue(p, v) /\ LeavesNothing(p, v)
<1>1. \A k \in Present(p.kids) : KidTrue(p.kids[k], v)
  BY DEF OrderTrue, Present
<1>2. QED
  BY <1>1, SummarySays DEF ProtTrue, LeavesNothing, KidTrue, TerminalKid

(* Nothing is said of an order that there is not.                          *)
LEMMA ProtOfNothing ==
    ASSUME NEW v
    PROVE  /\ ProtTrue(NoRow, v) /\ LeavesNothing(NoRow, v)
           /\ \A n : ProtTrue([Fresh EXCEPT !.stamp = n], v)
                        /\ LeavesNothing([Fresh EXCEPT !.stamp = n], v)
BY DEF ProtTrue, LeavesNothing, NoRow, Fresh

\* The steps that no call takes.
OtherSteps == UNCHANGED live_vars \/ Fill \/ EntryEnds \/ Flatten \/ Die

(* They leave the row alone, and the calls, if these are not cut off.      *)
LEMMA OtherStepsKeep ==
    ASSUME LiveTrue, OtherSteps
    PROVE  /\ UNCHANGED <<row, book, rest, syncs>>
           /\ DOMAIN venue'.algos = DOMAIN venue.algos
           /\ \/ UNCHANGED <<call, upset>>
              \/ upset' = "crash" /\ \A u \in Callers : call'[u] = NoCall
<1>1. CASE Fill \/ EntryEnds \/ Flatten
  <2>1. UNCHANGED <<row, book, rest, call, syncs, upset>>
      BY <1>1 DEF Fill, EntryEnds, Flatten
  <2>2. QED
      BY <1>1, <2>1, VenueSteps
<1>2. CASE Die
  BY <1>2 DEF Die
<1>3. CASE UNCHANGED live_vars
  BY <1>3 DEF live_vars
<1>4. QED
  BY <1>1, <1>2, <1>3 DEF OtherSteps

(* The steps of the model are these and those of the calls.                *)
LEMMA LiveStepsAre ==
    [LiveNext]_live_vars => OtherSteps \/ \E t \in Callers : CallSteps(t)
BY DEF LiveNext, OtherSteps, CallSteps

(* A row that was confirmed names accepted children, whatever is saved.    *)
LEMMA ConfirmedKept ==
    ASSUME LiveTrue, ConfirmedInv, [LiveNext]_live_vars
    PROVE  ConfirmedInv'
<1>1. /\ LiveTrue' /\ VenueMoves(venue, venue')
      /\ venue \in Venues /\ venue' \in Venues /\ syncs \in Nat /\ syncs' \in Nat
      /\ OrderTrue(row, venue, syncs) /\ OrderTrue(row', venue', syncs')
      /\ \A u \in Callers : OrderTrue(call[u].order, venue, syncs)
  BY LiveStep, LiveNumbers DEF LiveTrue, LiveShape, CallTrue
<1>2. /\ ProtTrue(row, venue')
      /\ \A u \in Callers : Posturing(call[u]) \/ ProtTrue(call[u].order, venue')
  BY <1>1, ProtStays DEF ConfirmedInv
<1>3. CASE OtherSteps
  <2>1. ~Posturing(NoCall) /\ NoCall.order = NoRow
      BY DEF NoCall, Posturing
  <2>2. QED
      BY <1>2, <1>3, <2>1, OtherStepsKeep, ProtOfNothing DEF ConfirmedInv
<1>4. ASSUME NEW t \in Callers, CallSteps(t)
      PROVE  ConfirmedInv'
  <2>1. ProtTrue(row', venue')
    <3>1. CASE UNCHANGED row
        BY <1>2, <3>1
    <3>2. CASE RowCreated(t)
        BY <3>2, ProtOfNothing DEF RowCreated
    <3>3. CASE RowSubmitted(t)
        BY <1>2, <3>3, ProtSame DEF RowSubmitted
    <3>4. CASE RowHeard(t)
      <4>1. ~Posturing(call[t])
          BY <3>4 DEF RowHeard, SaveCancel, SaveVerification, Posturing
      <4>2. QED
          BY <1>2, <3>4, <4>1, ProtSame DEF RowHeard
    <3>5. CASE RowClosed(t)
      <4>1. row'.prot = "CLOSED"
          BY <1>1, <3>5 DEF RowClosed, ClosedRow, OrderTrue, Order
      <4>2. QED
          BY <4>1 DEF ProtTrue
    <3>6. CASE RowPostured(t)
        BY <1>1, <3>6, ProtSummed DEF RowPostured
    <3>7. QED
        BY <1>4, <3>1, <3>2, <3>3, <3>4, <3>5, <3>6, RowSteps DEF RowChanges
  <2>2. ASSUME NEW u \in Callers
        PROVE  Posturing(call'[u]) \/ ProtTrue(call'[u].order, venue')
    <3>1. CASE u # t
        BY <1>2, <1>4, <3>1, CopySteps
    <3>2. CASE u = t
      <4>1. CopyGoesOn(call[t], call'[t], row')
          BY <1>4, CopySteps
      <4>2. QED
          BY <1>2, <2>1, <3>2, <4>1, ProtOfNothing DEF CopyGoesOn
    <3>3. QED
        BY <3>1, <3>2
  <2>3. QED
      BY <2>1, <2>2 DEF ConfirmedInv
<1>5. QED
  BY <1>3, <1>4, LiveStepsAre

(* A row that says its protection is confirmed names children that the     *)
(* exchange accepted, even if another call overwrote it meanwhile.         *)
THEOREM ConfirmedIsTrue == LiveSpec => []ConfirmedWasAccepted
<1>1. LiveInit => ConfirmedInv
  <2> SUFFICES ASSUME LiveInit PROVE ConfirmedInv
      OBVIOUS
  <2>1. row = NoRow /\ \A u \in Callers : call[u] = NoCall
      BY DEF LiveInit
  <2>2. NoCall.order = NoRow
      BY DEF NoCall
  <2>3. QED
      BY <2>1, <2>2, ProtOfNothing DEF ConfirmedInv
<1>2. LiveTrue /\ ConfirmedInv /\ [LiveNext]_live_vars => ConfirmedInv'
  BY ConfirmedKept
<1>3. ConfirmedInv => ConfirmedWasAccepted
  BY DEF ConfirmedInv, ProtTrue, ConfirmedWasAccepted
<1>4. QED
  BY <1>1, <1>2, <1>3, LiveCorrect, PTL DEF LiveSpec

-----------------------------------------------------------------------------
(* The closing of a flat account.                                          *)

(* What reconcile() is given was read with the answer or the               *)
(* synchronisation just saved.                                             *)
LEMMA SettleBegins ==
    ASSUME LiveTrue, NEW t \in Callers, CallSteps(t), call'[t].at = "settle"
    PROVE  /\ UNCHANGED <<row, venue, syncs, upset>>
           /\ \/ call'[t].flat = 0
              \/ call'[t].flat = rest' /\ ~book'.exposed /\ book'.open = {}
           /\ AskEntry(t) \/ AskKid(t) \/ SaveSync(t)
<1> DEFINE c == call[t]
<1>1. c \in Calls /\ CallTrue(c, venue, syncs) /\ book \in [exposed : BOOLEAN, open : SUBSET Nat]
  BY DEF LiveTrue, LiveShape
<1>2. \A e : Become(t, e) => call'[t] = e
  BY DEF LiveTrue, LiveShape, Become
<1>3. AskEntry(t) \/ AskKid(t) \/ SaveSync(t)
  BY CopySteps DEF Leads
<1>4. ASSUME NEW status, NEW un, Asked(t, status, un), un.at # "settle"
      PROVE  /\ UNCHANGED <<row, venue, syncs, upset>>
             /\ \/ call'[t].flat = 0
                \/ call'[t].flat = rest' /\ ~book'.exposed /\ book'.open = {}
  <2> DEFINE id == IF c.passes = 0 THEN Entry ELSE c.order.kids[c.kid].id
             open == IF status \in OpenStatus THEN book.open \union {id} ELSE book.open \ {id}
             flat == IF ~book.exposed /\ open = {} THEN rest ELSE 0
             d == [c EXCEPT !.at = "settle", !.seen = status, !.flat = flat]
  <2>1. ~Become(t, un)
      BY <1>2, <1>4
  <2>2. /\ UNCHANGED <<row, venue, syncs, upset, rest>>
        /\ book' = [book EXCEPT !.open = open] /\ Become(t, d)
      BY <1>4, <2>1 DEF Asked
  <2> HIDE DEF open
  <2>3. call'[t] = d /\ book'.open = open /\ book'.exposed = book.exposed
      BY <1>1, <1>2, <2>2
  <2>4. flat = 0 \/ (flat = rest /\ ~book.exposed /\ open = {})
      OBVIOUS
  <2> HIDE DEF flat
  <2>5. call'[t].flat = flat
      BY <1>1, <2>3 DEF Calls
  <2>6. QED
      BY <2>2, <2>3, <2>4, <2>5
<1>5. CASE AskEntry(t)
  <2>1. [c EXCEPT !.at = "verified", !.seen = "lost"].at # "settle"
      BY <1>1 DEF Calls
  <2>2. QED
      BY <1>4, <1>5, <2>1 DEF AskEntry
<1>6. CASE AskKid(t)
  <2>1. c.kid \in Kinds
      BY <1>1, <1>6 DEF AskKid, CallTrue, PostureTrue, Posturing
  <2>2. WithKid(c, KidStatus(c, "lost")).at # "settle"
      BY <1>1, <2>1, WithKidKept, KidStatusTrue DEF PosturePlaces
  <2>3. QED
      BY <1>4, <1>6, <2>2 DEF AskKid
<1>7. CASE SaveSync(t)
  <2> DEFINE flat == IF book'.exposed \/ book'.open # {} THEN 0 ELSE rest'
  <2>1. /\ UNCHANGED <<row, venue, syncs, upset>>
        /\ Become(t, [c EXCEPT !.at = "settle", !.flat = flat])
        /\ book' = [exposed |-> c.unsure, open |-> book.open \union OpenOnVenue]
      BY <1>7 DEF SaveSync
  <2>2. call'[t] = [c EXCEPT !.at = "settle", !.flat = flat]
      BY <1>2, <2>1
  <2>3. flat = 0 \/ (flat = rest' /\ ~book'.exposed /\ book'.open = {})
      OBVIOUS
  <2> HIDE DEF flat
  <2>4. call'[t].flat = flat
      BY <1>1, <2>2 DEF Calls
  <2>5. QED
      BY <1>7, <2>1, <2>3, <2>4
<1>8. QED
  BY <1>3, <1>5, <1>6, <1>7

(* A synchronisation carries what it read of the positions.                *)
LEMMA OrdersBegin ==
    ASSUME LiveTrue, NEW t \in Callers, CallSteps(t), call'[t].at = "orders"
    PROVE  UNCHANGED venue /\ call'[t].unsure = venue.exposed
<1>1. call[t] \in Calls /\ ReadPositions(t)
  BY CopySteps DEF LiveTrue, LiveShape, Leads
<1>2. \A e : Become(t, e) => call'[t] = e
  BY DEF LiveTrue, LiveShape, Become
<1>3. /\ UNCHANGED venue
      /\ \/ call'[t] = NoCall
         \/ call'[t] = [call[t] EXCEPT !.at = "orders", !.unsure = venue.exposed]
  BY <1>1, <1>2 DEF ReadPositions
<1>4. call'[t] # NoCall
  BY DEF NoCall
<1>5. QED
  BY <1>1, <1>3, <1>4 DEF Calls

(* The last good synchronisation is none after a failed request, and       *)
(* changes with the positions when one is saved.                           *)
LEMMA RestMoves ==
    ASSUME LiveTrue, NEW t \in Callers, CallSteps(t)
    PROVE  \/ rest' = 0
           \/ rest' = rest /\ book'.exposed = book.exposed
           \/ call[t].at = "orders" /\ rest' = call[t].flat /\ book'.exposed = call[t].unsure
<1>1. book \in [exposed : BOOLEAN, open : SUBSET Nat]
  BY DEF LiveTrue, LiveShape
<1>2. CASE AskEntry(t) \/ AskKid(t)
  <2>1. \/ rest' = 0
        \/ rest' = rest /\ (book' = book \/ \E open : book' = [book EXCEPT !.open = open])
      BY <1>2 DEF AskEntry, AskKid, Asked
  <2>2. QED
      BY <1>1, <2>1
<1>3. CASE SaveSync(t)
  BY <1>3 DEF SaveSync
<1>4. CASE ReadPositions(t)
  BY <1>4 DEF ReadPositions
<1>5. CASE ~AskEntry(t) /\ ~AskKid(t) /\ ~SaveSync(t) /\ ~ReadPositions(t)
  BY <1>5 DEF CallSteps, Submits, Cancels, Verifies, Protects, Syncs, CreateOrder, LoadOrder,
              PostEntry, SaveSubmission, DeleteEntry, SaveCancel, SettleFlat, SaveVerification,
              PostKid, CancelKid, SavePosture, Sync
<1>6. QED
  BY <1>2, <1>3, <1>4, <1>5

(* Once the entry has filled, a position that is gone does not come back.  *)
LEMMA ExposureEnds ==
    ASSUME LiveTrue, [LiveNext]_live_vars, venue.entry = "FILLED"
    PROVE  venue'.exposed => venue.exposed
<1>1. venue \in Venues
  BY DEF LiveTrue, LiveShape
<1>2. CASE UNCHANGED live_vars
  BY <1>2 DEF live_vars
<1>3. CASE Fill \/ EntryEnds
  BY <1>3 DEF Fill, EntryEnds, OpenStatus
<1>4. CASE Flatten
  BY <1>4 DEF Flatten
<1>5. CASE Die
  BY <1>5 DEF Die
<1>6. ASSUME NEW t \in Callers, CallSteps(t)
      PROVE  venue'.exposed => venue.exposed
  <2>1. CASE PostEntry(t)
      BY <2>1 DEF PostEntry, LiveTrue, OneCreation
  <2>2. CASE DeleteEntry(t)
      BY <1>1, <2>2 DEF DeleteEntry, OpenStatus
  <2>3. CASE PostKid(t)
    <3>1. \E algos : venue' = [venue EXCEPT !.algos = algos]
        BY <2>3 DEF PostKid
    <3>2. QED
        BY <1>1, <3>1 DEF Venues
  <2>4. CASE CancelKid(t)
    <3>1. UNCHANGED venue \/ \E algos : venue' = [venue EXCEPT !.algos = algos]
        BY <2>4 DEF CancelKid
    <3>2. QED
        BY <1>1, <3>1 DEF Venues
  <2>5. CASE ~PostEntry(t) /\ ~DeleteEntry(t) /\ ~PostKid(t) /\ ~CancelKid(t)
      BY <1>6, <2>5 DEF CallSteps, Submits, Cancels, Verifies, Protects, Syncs, CreateOrder,
         LoadOrder, SaveSubmission, SaveCancel, AskEntry, AskKid, Asked, SettleFlat,
         SaveVerification, SavePosture, Sync, ReadPositions, SaveSync
  <2>6. QED
      BY <2>1, <2>2, <2>3, <2>4, <2>5
<1>7. QED
  BY <1>2, <1>3, <1>4, <1>5, <1>6 DEF LiveNext, CallSteps

(* What is true of a filled order stays true, whatever is read and saved.  *)
LEMMA FlatStays ==
    ASSUME LiveTrue, [LiveNext]_live_vars, NEW o, OrderTrue(o, venue, syncs),
           FlatTruth(o, venue, book, rest, call)
    PROVE  FlatTruth(o, venue', book', rest', call')
<1> SUFFICES ASSUME o.status = "FILLED" PROVE FlatTruth(o, venue', book', rest', call')
    BY DEF FlatTruth
<1>1. (venue'.exposed => venue.exposed) /\ o.stamp \in Nat
  BY ExposureEnds, LiveNumbers DEF OrderTrue, Order
<1>2. /\ o.stamp < rest /\ ~book.exposed => ~venue.exposed
      /\ \A u \in Callers :
            call[u].at = "orders" /\ o.stamp < call[u].flat /\ ~call[u].unsure =>
               ~venue.exposed
      /\ \A u \in Callers :
            call[u].at = "settle" /\ o.stamp < call[u].flat => ~venue.exposed
  BY DEF FlatTruth
<1>3. CASE OtherSteps
  <2>1. NoCall.at \notin {"orders", "settle"}
      BY DEF NoCall
  <2>2. QED
      BY <1>1, <1>2, <1>3, <2>1, OtherStepsKeep DEF FlatTruth
<1>4. ASSUME NEW t \in Callers, CallSteps(t)
      PROVE  FlatTruth(o, venue', book', rest', call')
  <2>1. o.stamp < rest' /\ ~book'.exposed => ~venue'.exposed
      BY <1>1, <1>2, <1>4, RestMoves
  <2>2. ASSUME NEW u \in Callers, call'[u].at = "orders", o.stamp < call'[u].flat,
               ~call'[u].unsure
        PROVE  ~venue'.exposed
    <3>1. CASE u = t
        BY <1>4, <2>2, <3>1, OrdersBegin
    <3>2. CASE u # t
        BY <1>1, <1>2, <1>4, <2>2, <3>2, CopySteps
    <3>3. QED
        BY <3>1, <3>2
  <2>3. ASSUME NEW u \in Callers, call'[u].at = "settle", o.stamp < call'[u].flat
        PROVE  ~venue'.exposed
    <3>1. CASE u = t
      <4>1. call'[t].flat = rest' /\ ~book'.exposed
          BY <1>1, <1>4, <2>3, <3>1, SettleBegins
      <4>2. QED
          BY <2>1, <2>3, <3>1, <4>1
    <3>2. CASE u # t
        BY <1>1, <1>2, <1>4, <2>3, <3>2, CopySteps
    <3>3. QED
        BY <3>1, <3>2
  <2>4. QED
      BY <2>1, <2>2, <2>3 DEF FlatTruth
<1>5. QED
  BY <1>3, <1>4, LiveStepsAre

(* No synchronisation has begun after a stamp that was just set.           *)
LEMMA FlatFresh ==
    ASSUME NEW n \in Nat, NEW v, NEW b, NEW r \in 0 .. n, NEW cs,
           \A u \in Callers : CallTrue(cs[u], v, n), NEW o, o.stamp = n
    PROVE  FlatTruth(o, v, b, r, cs)
<1>1. \A u \in Callers : cs[u].flat \in Nat /\ cs[u].flat <= n
  BY LiveNumbers DEF CallTrue, Calls
<1>2. QED
  BY <1>1 DEF FlatTruth

(* The truth is a matter of the status and its stamp alone.                *)
LEMMA FlatSame ==
    ASSUME NEW o, NEW p, p.status = o.status, p.stamp = o.stamp,
           NEW v, NEW b, NEW r, NEW cs, FlatTruth(o, v, b, r, cs)
    PROVE  FlatTruth(p, v, b, r, cs)
BY DEF FlatTruth

(* A call that is not cut off leaves the truth behind, unless it has saved *)
(* a submission that is not yet verified.                                  *)
LEMMA FlatKept ==
    ASSUME LiveTrue, FlatInv, [LiveNext]_live_vars
    PROVE  FlatInv'
<1> DEFINE Stamped(o) == FlatTruth(o, venue, book, rest, call)
           Stamped2(o) == FlatTruth(o, venue', book', rest', call')
<1>1. /\ LiveTrue' /\ syncs \in Nat /\ syncs' \in Nat /\ rest' \in 0 .. syncs'
      /\ OrderTrue(row, venue, syncs)
      /\ \A u \in Callers : OrderTrue(call[u].order, venue, syncs)
      /\ \A u \in Callers : CallTrue(call'[u], venue', syncs')
  BY LiveStep, LiveNumbers DEF LiveTrue, LiveShape, CallTrue
<1>2. /\ Stamped(row) => Stamped2(row)
      /\ \A u \in Callers : Stamped(call[u].order) => Stamped2(call[u].order)
  BY <1>1, FlatStays
<1>3. \A o : o.stamp = syncs' => Stamped2(o)
  BY <1>1, FlatFresh
<1>4. \A o, p : p.status = o.status /\ p.stamp = o.stamp /\ Stamped2(o) => Stamped2(p)
  BY FlatSame
<1>5. \A o : o.status # "FILLED" => Stamped2(o)
  BY DEF FlatTruth
<1>6. /\ FlatInv => (upset # "crash" =>
            /\ \A u \in Callers : Posturing(call[u]) => Stamped(call[u].order)
            /\ (\A u \in Callers : call[u].op = "create" => call[u].at \in {"post", "posted"})
                  => Stamped(row))
      /\ (upset' # "crash" =>
            /\ \A u \in Callers : Posturing(call'[u]) => Stamped2(call'[u].order)
            /\ (\A u \in Callers : call'[u].op = "create" => call'[u].at \in {"post", "posted"})
                  => Stamped2(row')) => FlatInv'
  BY DEF FlatInv
<1> HIDE DEF Stamped, Stamped2
<1>7. CASE OtherSteps
  BY <1>2, <1>6, <1>7, OtherStepsKeep
<1>8. ASSUME NEW t \in Callers, CallSteps(t), upset' # "crash"
      PROVE  /\ \A u \in Callers : Posturing(call'[u]) => Stamped2(call'[u].order)
             /\ (\A u \in Callers : call'[u].op = "create" => call'[u].at \in {"post", "posted"})
                   => Stamped2(row')
  <2>1. upset # "crash"
    <3>1. upset' \in {upset, "overlap"} /\ (upset = "crash" => upset' = "crash")
        BY <1>8 DEF CallSteps, Submits, Cancels, Verifies, Protects, Syncs, CreateOrder, Start,
           LoadOrder, PostEntry, SaveSubmission, DeleteEntry, SaveCancel, AskEntry, AskKid,
           Asked, SettleFlat, SaveVerification, PostKid, CancelKid, SavePosture, Sync,
           ReadPositions, SaveSync
    <3>2. QED
        BY <1>8, <3>1
  <2>2. /\ \A u \in Callers : u # t => call'[u] = call[u]
        /\ CopyGoesOn(call[t], call'[t], row') /\ Leads(t)
      BY <1>8, CopySteps
  <2>3. ASSUME NEW u \in Callers, Posturing(call'[u])
        PROVE  Stamped2(call'[u].order)
    <3>1. CASE u # t
        BY <1>2, <1>6, <2>1, <2>2, <2>3, <3>1
    <3>2. CASE u = t /\ SaveVerification(t)
      <4>1. row'.stamp = syncs /\ UNCHANGED syncs /\ call'[t].order = row'
          BY <2>3, <3>2, SaveVerificationStep
      <4>2. QED
          BY <1>3, <3>2, <4>1
    <3>3. CASE u = t /\ ~SaveVerification(t)
      <4>1. Posturing(call[t]) /\ call'[t].op = "query"
          BY <1>1, <2>2, <2>3, <3>3 DEF Leads, CallTrue, PostureTrue
      <4>2. /\ call'[t].order.status = call[t].order.status
            /\ call'[t].order.stamp = call[t].order.stamp
          BY <2>2, <4>1 DEF CopyGoesOn
      <4>3. QED
          BY <1>2, <1>4, <1>6, <2>1, <3>3, <4>1, <4>2
    <3>4. QED
        BY <3>1, <3>2, <3>3
  <2>4. ASSUME \A u \in Callers : call'[u].op = "create" => call'[u].at \in {"post", "posted"}
        PROVE  Stamped2(row')
    <3>1. CASE RowCreated(t)
      <4>1. row'.status = "PENDING"
          BY <3>1 DEF RowCreated, Fresh
      <4>2. QED
          BY <1>5, <4>1
    <3>2. CASE RowSubmitted(t)
        BY <2>2, <2>4, <3>2 DEF RowSubmitted, Leads
    <3>3. CASE RowHeard(t)
      <4>1. row'.stamp = syncs'
          BY <3>3 DEF RowHeard, SaveCancel, SaveVerification
      <4>2. QED
          BY <1>3, <4>1
    <3>4. CASE RowClosed(t)
      <4>1. row'.status = "CLOSED"
          BY <1>1, <3>4 DEF RowClosed, ClosedRow, OrderTrue, Order
      <4>2. QED
          BY <1>5, <4>1
    <3>5. CASE RowPostured(t)
      <4>1. Posturing(call[t])
          BY <3>5 DEF RowPostured, SavePosture, Posturing
      <4>2. QED
          BY <1>2, <1>4, <1>6, <2>1, <3>5, <4>1 DEF RowPostured
    <3>6. CASE UNCHANGED row
      <4>1. CASE SaveVerification(t)
        <5>1. row'.stamp = syncs'
            BY <4>1, SaveVerificationStep
        <5>2. QED
            BY <1>3, <5>1
      <4>2. CASE ~SaveVerification(t)
        <5>1. \A u \in Callers : call[u].op = "create" => call[u].at \in {"post", "posted"}
            BY <2>2, <2>4, <4>2 DEF Leads
        <5>2. QED
            BY <1>2, <1>6, <2>1, <3>6, <5>1
      <4>3. QED
          BY <4>1, <4>2
    <3>7. QED
        BY <1>8, <3>1, <3>2, <3>3, <3>4, <3>5, <3>6, RowSteps DEF RowChanges
  <2>5. QED
      BY <2>3, <2>4
<1>9. QED
  BY <1>6, <1>7, <1>8, LiveStepsAre

(* Closed is a row only by the reconciliation, and never opened again.     *)
LEMMA CloseStep ==
    ASSUME LiveTrue, FlatInv, [LiveNext]_live_vars
    PROVE  /\ ~row.closed /\ row'.closed /\ Submitted => ~venue'.exposed
           /\ row.closed => row'.closed
<1>1. row \in Order /\ \A u \in Callers : CallTrue(call[u], venue, syncs)
  BY DEF LiveTrue, OrderTrue
<1>2. CASE UNCHANGED row
  BY <1>2
<1>3. ASSUME NEW t \in Callers, RowChanges(t)
      PROVE  /\ ~row.closed /\ row'.closed /\ Submitted => ~venue'.exposed
             /\ row.closed => row'.closed
  <2>1. CASE RowCreated(t)
      BY <2>1 DEF RowCreated, Fresh, NoRow
  <2>2. CASE RowSubmitted(t) \/ RowHeard(t) \/ RowPostured(t)
      BY <2>2 DEF RowSubmitted, RowHeard, RowPostured
  <2>3. CASE RowClosed(t)
    <3>1. row'.closed
        BY <1>1, <2>3 DEF RowClosed, ClosedRow, Order
    <3>2. ASSUME Submitted
          PROVE  ~venue'.exposed
      <4>1. FlatTruth(row, venue, book, rest, call)
          BY <3>2 DEF FlatInv, Submitted
      <4>2. call[t].at = "settle" /\ row.status = "FILLED" /\ row.stamp < call[t].flat
            /\ UNCHANGED venue
          BY <2>3 DEF RowClosed, SettleFlat, ConfirmedFlat
      <4>3. QED
          BY <4>1, <4>2 DEF FlatTruth
    <3>3. QED
        BY <3>1, <3>2
  <2>4. QED
      BY <1>3, <2>1, <2>2, <2>3 DEF RowChanges
<1>4. QED
  BY <1>2, <1>3, LiveStepsAre, OtherStepsKeep, RowSteps

(* The reconciliation closes an order only when its position is gone, even *)
(* if what it read is older than the row; and an order stays closed,       *)
(* whatever stale copy is saved later.                                     *)
THEOREM FlatCloseHolds == LiveSpec => FlatCloseIsFinal
<1>1. LiveInit => FlatInv
  <2> SUFFICES ASSUME LiveInit PROVE FlatInv
      OBVIOUS
  <2>1. row.status = "none" /\ \A u \in Callers : call[u] = NoCall
      BY DEF LiveInit, NoRow, Fresh
  <2>2. ~Posturing(NoCall)
      BY DEF NoCall, Posturing
  <2>3. QED
      BY <2>1, <2>2 DEF FlatInv, FlatTruth
<1>2. LiveTrue /\ FlatInv /\ [LiveNext]_live_vars => FlatInv'
  BY FlatKept
<1>3. LiveTrue /\ FlatInv /\ [LiveNext]_live_vars =>
         /\ [~row.closed /\ row'.closed /\ Submitted => ~venue'.exposed]_live_vars
         /\ [row.closed => row'.closed]_live_vars
  BY CloseStep
<1>4. QED
  BY <1>1, <1>2, <1>3, LiveCorrect, PTL DEF LiveSpec, FlatCloseIsFinal

-----------------------------------------------------------------------------
(* Calls that come one at a time.                                          *)

(* _cancel_protective_child() is called in the cleanup.                    *)
LEMMA CancelKidPlace ==
    ASSUME LiveTrue, NEW t \in Callers, CancelKid(t)
    PROVE  call[t].at = "cleanup"
<1> DEFINE k == IF "STOP" \in call[t].left THEN "STOP" ELSE "PROFIT"
<1>1. call[t] \in Calls
  BY DEF LiveTrue, CallTrue
<1>2. [call[t] EXCEPT !.kid = k].at = "cleanup"
  BY DEF CancelKid
<1> HIDE DEF k
<1>3. QED
  BY <1>1, <1>2 DEF Calls

(* Beside the one at work the others are idle.                             *)
LEMMA AloneStep ==
    ASSUME LiveTrue, AloneInv, NEW t \in Callers, CallSteps(t), upset' = "no"
    PROVE  /\ upset = "no" /\ AloneInv'
           /\ \A u \in Callers : u # t => call[u] = NoCall /\ call'[u] = NoCall
<1>1. \A u \in Callers : CallTrue(call[u], venue, syncs)
  BY DEF LiveTrue
<1>2. upset = "no" /\ \A u \in Callers : u # t => call[u].at = "idle"
  <2>1. CASE CreateOrder(t) \/ LoadOrder(t, "query") \/ LoadOrder(t, "cancel") \/ Sync(t)
    <3>1. upset' = IF upset = "no" /\ ~Quiet THEN "overlap" ELSE upset
        BY <2>1 DEF CreateOrder, LoadOrder, Sync, Start
    <3>2. upset = "no" /\ Quiet
        BY <3>1
    <3>3. QED
        BY <3>2 DEF Quiet
  <2>2. CASE ~CreateOrder(t) /\ ~LoadOrder(t, "query") /\ ~LoadOrder(t, "cancel") /\ ~Sync(t)
    <3>1. CASE PostEntry(t) \/ SaveSubmission(t) \/ DeleteEntry(t) \/ SaveCancel(t)
        BY <3>1 DEF PostEntry, SaveSubmission, DeleteEntry, SaveCancel, AloneInv
    <3>2. CASE AskEntry(t) \/ SettleFlat(t) \/ SaveVerification(t)
        BY <3>2 DEF AskEntry, Asked, SettleFlat, SaveVerification, AloneInv
    <3>3. CASE PostKid(t) \/ AskKid(t) \/ SavePosture(t)
        BY <3>3 DEF PostKid, AskKid, Asked, SavePosture, AloneInv
    <3>4. CASE CancelKid(t)
      <4>1. call[t].at = "cleanup" /\ upset' = upset
          BY <3>4, CancelKidPlace DEF CancelKid
      <4>2. QED
          BY <4>1 DEF AloneInv
    <3>5. CASE ReadPositions(t) \/ SaveSync(t)
        BY <3>5 DEF ReadPositions, SaveSync, AloneInv
    <3>6. QED
        BY <2>2, <3>1, <3>2, <3>3, <3>4, <3>5
        DEF CallSteps, Submits, Cancels, Verifies, Protects, Syncs
  <2>3. QED
      BY <2>1, <2>2
<1>3. \A u \in Callers : u # t => call[u] = NoCall /\ call'[u] = NoCall
  BY <1>1, <1>2, CopySteps DEF CallTrue
<1>4. AloneInv'
  BY <1>3 DEF AloneInv, NoCall
<1>5. QED
  BY <1>2, <1>3, <1>4

(* One at a time they stay.                                                *)
LEMMA AloneKept ==
    ASSUME LiveTrue, AloneInv, [LiveNext]_live_vars
    PROVE  AloneInv'
<1>1. CASE OtherSteps
  BY <1>1, OtherStepsKeep DEF AloneInv
<1>2. ASSUME NEW t \in Callers, CallSteps(t)
      PROVE  AloneInv'
  BY <1>2, AloneStep DEF AloneInv
<1>3. QED
  BY <1>1, <1>2, LiveStepsAre

(* A query takes from the book only what is not open at the exchange, and  *)
(* a synchronisation puts all there that is.                               *)
LEMMA BookStep ==
    ASSUME LiveTrue, NEW t \in Callers, CallSteps(t), ~Posturing(call[t]),
           row' = row \/ RowSubmitted(t)
    PROVE  /\ venue'.algos = venue.algos
           /\ \/ rest' = 0
              \/ rest' = rest /\ \A i \in book.open : i = 0 \/ i \in book'.open
              \/ \A i \in DOMAIN venue.algos : venue.algos[i] = "NEW" => i \in book'.open
<1> DEFINE c == call[t]
<1>1. c \in Calls /\ CallTrue(c, venue, syncs) /\ venue \in Venues
      /\ book \in [exposed : BOOLEAN, open : SUBSET Nat]
  BY DEF LiveTrue, LiveShape
<1>2. CASE AskEntry(t)
  <2>1. c.at = "ask" /\ c.passes \in 0 .. 2
      BY <1>1, <1>2 DEF AskEntry, Calls
  <2>2. c.passes = 0
      BY <1>1, <2>1 DEF CallTrue, Posturing
  <2> DEFINE open == IF venue.entry \in OpenStatus THEN book.open \union {Entry}
                     ELSE book.open \ {Entry}
  <2>3. /\ UNCHANGED venue
        /\ \/ rest' = 0
           \/ rest' = rest /\ (book' = book \/ book' = [book EXCEPT !.open = open])
      BY <1>2, <2>2 DEF AskEntry, Asked
  <2>4. \A i \in book.open : i = 0 \/ i \in open
      BY DEF Entry
  <2> HIDE DEF open
  <2>5. QED
      BY <1>1, <2>3, <2>4
<1>3. CASE SaveSync(t)
  <2>1. UNCHANGED venue /\ book' = [exposed |-> c.unsure, open |-> book.open \union OpenOnVenue]
      BY <1>3 DEF SaveSync
  <2>2. QED
      BY <2>1 DEF OpenOnVenue
<1>4. CASE ReadPositions(t)
  BY <1>4 DEF ReadPositions
<1>5. CASE PostEntry(t) \/ DeleteEntry(t)
  <2>1. UNCHANGED <<rest, book>>
        /\ (\/ UNCHANGED venue
            \/ venue' = [venue EXCEPT !.entry = "CANCELED"]
            \/ \E s \in {"NEW", "FILLED"} :
                  venue' = [venue EXCEPT !.entry = s, !.exposed = (s = "FILLED")])
      BY <1>5 DEF PostEntry, DeleteEntry
  <2>2. QED
      BY <1>1, <2>1 DEF Venues
<1>6. CASE PostKid(t) \/ CancelKid(t) \/ AskKid(t) \/ SavePosture(t)
  BY <1>6, CancelKidPlace DEF PostKid, AskKid, SavePosture, Posturing
<1>7. CASE ~AskEntry(t) /\ ~SaveSync(t) /\ ~ReadPositions(t) /\ ~PostEntry(t) /\ ~DeleteEntry(t)
           /\ ~PostKid(t) /\ ~CancelKid(t) /\ ~AskKid(t) /\ ~SavePosture(t)
  BY <1>7 DEF CallSteps, Submits, Cancels, Verifies, Protects, Syncs, CreateOrder, LoadOrder,
              SaveSubmission, SaveCancel, SettleFlat, SaveVerification, Sync
<1>8. QED
  BY <1>2, <1>3, <1>4, <1>5, <1>6, <1>7

(* A posture lives in the time of its stamp, and what is found flat later  *)
(* has no child at work.                                                   *)
LEMMA ClosedKept ==
    ASSUME LiveTrue, AloneInv, ClosedInv, [LiveNext]_live_vars
    PROVE  ClosedInv'
<1> SUFFICES ASSUME upset' = "no" PROVE ClosedInv'
    BY DEF ClosedInv
<1>1. /\ LiveTrue' /\ VenueMoves(venue, venue')
      /\ venue \in Venues /\ venue' \in Venues /\ syncs \in Nat /\ syncs' \in Nat
      /\ syncs <= syncs' /\ rest \in Nat /\ rest <= syncs /\ rest' \in Nat /\ rest' <= syncs'
      /\ OrderTrue(row, venue, syncs) /\ OrderTrue(row', venue', syncs')
      /\ row.stamp \in Nat /\ row'.stamp \in Nat /\ row.stamp <= syncs /\ row'.stamp <= syncs'
      /\ DOMAIN venue.algos = 1 .. Len(venue.algos)
      /\ DOMAIN venue'.algos = 1 .. Len(venue'.algos)
      /\ book \in [exposed : BOOLEAN, open : SUBSET Nat]
  <2>1. LiveTrue' /\ VenueMoves(venue, venue') /\ syncs <= syncs'
      BY LiveStep
  <2>2. /\ OrderTrue(row, venue, syncs) /\ OrderTrue(row', venue', syncs')
        /\ venue \in Venues /\ venue' \in Venues /\ syncs \in Nat /\ syncs' \in Nat
        /\ rest \in 0 .. syncs /\ rest' \in 0 .. syncs'
        /\ book \in [exposed : BOOLEAN, open : SUBSET Nat]
      BY <2>1, LiveNumbers DEF LiveTrue, LiveShape
  <2>3. /\ row.stamp \in Nat /\ row'.stamp \in Nat /\ row.stamp <= syncs /\ row'.stamp <= syncs'
      BY <2>2, LiveNumbers DEF OrderTrue, Order
  <2>4. QED
      BY <2>1, <2>2, <2>3 DEF Venues
<1>2. \A u \in Callers : /\ CallTrue(call[u], venue, syncs) /\ CallTrue(call'[u], venue', syncs')
                         /\ OrderTrue(call[u].order, venue, syncs)
                         /\ call[u].flat \in Nat /\ call'[u].flat \in Nat
                         /\ call[u].flat <= syncs /\ call'[u].flat <= syncs'
  <2>1. \A u \in Callers : CallTrue(call[u], venue, syncs) /\ CallTrue(call'[u], venue', syncs')
      BY <1>1 DEF LiveTrue
  <2>2. QED
      BY <2>1, LiveNumbers DEF CallTrue, Calls
<1>3. /\ LeavesNothing(row, venue) => LeavesNothing(row, venue')
      /\ \A u \in Callers :
            LeavesNothing(call[u].order, venue) => LeavesNothing(call[u].order, venue')
  BY <1>1, <1>2, ProtStays
<1>4. ASSUME OtherSteps
      PROVE  ClosedInv'
  <2>1. /\ UNCHANGED <<row, book, rest, syncs, call, upset>>
        /\ DOMAIN venue'.algos = DOMAIN venue.algos
      BY <1>4, OtherStepsKeep
  <2>2. \A i \in DOMAIN venue'.algos : venue.algos[i] # "NEW" => venue'.algos[i] # "NEW"
      BY <1>1, <2>1 DEF VenueMoves
  <2>3. QED
      BY <1>3, <2>1, <2>2 DEF ClosedInv
<1>5. ASSUME NEW t \in Callers, CallSteps(t)
      PROVE  ClosedInv'
  <2> DEFINE c == call[t]
             d == call'[t]
  <2>1. upset = "no" /\ \A u \in Callers : u # t => call[u] = NoCall /\ call'[u] = NoCall
      BY <1>5, AloneStep
  <2>2. /\ NoCall.at = "idle" /\ NoCall.order = NoRow /\ ~Posturing(NoCall)
        /\ \A v : LeavesNothing(NoRow, v)
      BY ProtOfNothing DEF NoCall, Posturing
  <2>3. /\ Posturing(c) => row.stamp = syncs /\ c.order.stamp = syncs
        /\ c.at \in {"post", "posted"} => c.order.stamp = row.stamp
        /\ row.stamp < rest =>
              \A i \in DOMAIN venue.algos : venue.algos[i] = "NEW" => i \in book.open
        /\ c.at = "settle" /\ row.stamp < c.flat =>
              \A i \in DOMAIN venue.algos : venue.algos[i] # "NEW"
        /\ LeavesNothing(row, venue)
        /\ Posturing(c) \/ LeavesNothing(c.order, venue)
      BY <2>1 DEF ClosedInv
  <2>4. CopyGoesOn(c, d, row') /\ Leads(t)
      BY <1>5, CopySteps
  <2>5. UNCHANGED row \/ RowChanges(t)
      BY <1>5, RowSteps
  <2>6. Posturing(c) => syncs' = syncs
      BY <1>5 DEF CallSteps, Submits, Cancels, Verifies, Protects, Syncs, CreateOrder, LoadOrder,
         PostEntry, SaveSubmission, DeleteEntry, SaveCancel, AskEntry, AskKid, Asked, SettleFlat,
         SaveVerification, PostKid, CancelKid, SavePosture, Sync, Start, ReadPositions, SaveSync,
         Posturing
  <2>7. \/ UNCHANGED row \/ RowSubmitted(t)
        \/ row'.stamp = syncs' \/ (RowPostured(t) /\ row'.stamp = syncs')
    <3>1. CASE RowCreated(t)
        BY <3>1 DEF RowCreated, CreateOrder, Fresh
    <3>2. CASE RowHeard(t)
        BY <3>2 DEF RowHeard, SaveCancel, SaveVerification
    <3>3. CASE RowClosed(t)
      <4>1. row \in Order /\ syncs' = syncs
          BY <1>1, <3>3 DEF RowClosed, SettleFlat, OrderTrue
      <4>2. QED
          BY <3>3, <4>1 DEF RowClosed, ClosedRow, Order
    <3>4. CASE RowPostured(t)
      <4>1. Posturing(c)
          BY <3>4 DEF RowPostured, SavePosture, Posturing
      <4>2. QED
          BY <2>3, <2>6, <3>4, <4>1 DEF RowPostured
    <3>5. QED
        BY <2>5, <3>1, <3>2, <3>3, <3>4 DEF RowChanges
  <2>8. RowSubmitted(t) => row'.stamp = row.stamp /\ ~Posturing(c)
      BY <2>3 DEF RowSubmitted, SaveSubmission, Posturing
  <2>9. Posturing(d) => row'.stamp = syncs' /\ d.order.stamp = syncs'
    <3>1. CASE SaveVerification(t)
        BY <3>1, SaveVerificationStep
    <3>2. CASE Posturing(d) /\ ~SaveVerification(t)
      <4>1. Posturing(c) /\ d.op = "query"
          BY <1>2, <2>4, <3>2 DEF Leads, CallTrue, PostureTrue
      <4>2. row'.stamp = syncs'
          BY <2>3, <2>6, <2>7, <2>8, <4>1
      <4>3. d.order.stamp = syncs'
          BY <2>3, <2>4, <2>6, <4>1 DEF CopyGoesOn
      <4>4. QED
          BY <4>2, <4>3
    <3>3. QED
        BY <3>1, <3>2
  <2>10. d.at \in {"post", "posted"} => d.order.stamp = row'.stamp
    <3>1. CASE CreateOrder(t)
      <4>1. Become(t, [NoCall EXCEPT !.at = "post", !.op = "create", !.order = row'])
          BY <3>1 DEF CreateOrder, Start
      <4>2. d = [NoCall EXCEPT !.at = "post", !.op = "create", !.order = row']
          BY <4>1 DEF Become, LiveTrue, LiveShape
      <4>3. QED
          BY <4>2 DEF NoCall
    <3>2. CASE PostEntry(t)
      <4>1. /\ c.at = "post" /\ UNCHANGED row
            /\ Become(t, NoCall) \/ \E seen : Become(t, [c EXCEPT !.at = "posted", !.seen = seen])
          BY <3>2 DEF PostEntry
      <4>2. d = NoCall \/ \E seen : d = [c EXCEPT !.at = "posted", !.seen = seen]
          BY <4>1 DEF Become, LiveTrue, LiveShape
      <4>3. d = NoCall \/ d.order = c.order
          BY <1>2, <4>2 DEF CallTrue, Calls
      <4>4. QED
          BY <2>2, <2>3, <4>1, <4>3
    <3>3. QED
        BY <2>4, <3>1, <3>2 DEF Leads
  <2>11. row'.stamp < rest' =>
            \A i \in DOMAIN venue'.algos : venue'.algos[i] = "NEW" => i \in book'.open
    <3>1. CASE row'.stamp = syncs'
        BY <1>1, <3>1
    <3>2. CASE (UNCHANGED row \/ RowSubmitted(t)) /\ Posturing(c)
        BY <1>1, <2>3, <2>6, <2>8, <3>2
    <3>3. CASE (UNCHANGED row \/ RowSubmitted(t)) /\ ~Posturing(c)
      <4>1. /\ venue'.algos = venue.algos /\ row'.stamp = row.stamp
            /\ \/ rest' = 0
               \/ rest' = rest /\ \A i \in book.open : i = 0 \/ i \in book'.open
               \/ \A i \in DOMAIN venue.algos : venue.algos[i] = "NEW" => i \in book'.open
          BY <1>5, <2>8, <3>3, BookStep
      <4>2. \A i \in DOMAIN venue.algos : i # 0
          BY <1>1
      <4>3. QED
          BY <1>1, <2>3, <4>1, <4>2
    <3>4. QED
        BY <2>7, <3>1, <3>2, <3>3
  <2>12. d.at = "settle" /\ row'.stamp < d.flat =>
            \A i \in DOMAIN venue'.algos : venue'.algos[i] # "NEW"
    <3> SUFFICES ASSUME d.at = "settle", row'.stamp < d.flat
                 PROVE  \A i \in DOMAIN venue'.algos : venue'.algos[i] # "NEW"
        OBVIOUS
    <3>1. d.flat = rest' /\ book'.open = {}
        BY <1>1, <1>5, SettleBegins
    <3>2. QED
        BY <2>11, <3>1
  <2>13. LeavesNothing(row', venue')
    <3>1. CASE UNCHANGED row
        BY <1>3, <2>3, <3>1
    <3>2. CASE RowCreated(t)
        BY <3>2, ProtOfNothing DEF RowCreated
    <3>3. CASE RowSubmitted(t)
        BY <1>3, <2>3, <3>3, ProtSame DEF RowSubmitted
    <3>4. CASE RowHeard(t)
      <4>1. ~Posturing(c)
          BY <3>4 DEF RowHeard, SaveCancel, SaveVerification, Posturing
      <4>2. QED
          BY <1>3, <2>3, <3>4, <4>1, ProtSame DEF RowHeard
    <3>5. CASE RowClosed(t)
      <4>1. c.at = "settle" /\ row.stamp < c.flat /\ UNCHANGED venue
          BY <3>5 DEF RowClosed, SettleFlat, ConfirmedFlat
      <4>2. \A i \in DOMAIN venue'.algos : venue'.algos[i] # "NEW"
          BY <2>3, <4>1
      <4>3. \A k \in Present(row'.kids) : row'.kids[k].id \in DOMAIN venue'.algos
        <5>1. ASSUME NEW k \in Present(row'.kids)
              PROVE  row'.kids[k].id \in 1 .. Len(venue'.algos)
          <6>1. /\ row'.kids[k] \in Kid /\ KidTrue(row'.kids[k], venue')
                /\ row'.kids[k].status # "none"
              BY <1>1 DEF OrderTrue, Order, Present
          <6>2. row'.kids[k].id \in Nat /\ Len(venue'.algos) \in Nat
              BY <1>1, <6>1, LiveNumbers DEF Kid, Venues
          <6>3. QED
              BY <6>1, <6>2 DEF KidTrue
        <5>2. QED
            BY <1>1, <5>1
      <4>4. QED
          BY <4>2, <4>3 DEF LeavesNothing
    <3>6. CASE RowPostured(t)
        BY <1>1, <3>6, ProtSummed DEF RowPostured
    <3>7. QED
        BY <2>5, <3>1, <3>2, <3>3, <3>4, <3>5, <3>6 DEF RowChanges
  <2>14. Posturing(d) \/ LeavesNothing(d.order, venue')
      BY <1>3, <2>2, <2>3, <2>4, <2>13 DEF CopyGoesOn
  <2> HIDE DEF d
  <2>15. /\ \A u \in Callers : Posturing(call'[u]) =>
                row'.stamp = syncs' /\ call'[u].order.stamp = syncs'
         /\ \A u \in Callers : call'[u].at \in {"post", "posted"} =>
                call'[u].order.stamp = row'.stamp
         /\ \A u \in Callers : call'[u].at = "settle" /\ row'.stamp < call'[u].flat =>
                \A i \in DOMAIN venue'.algos : venue'.algos[i] # "NEW"
         /\ \A u \in Callers : Posturing(call'[u]) \/ LeavesNothing(call'[u].order, venue')
      BY <2>1, <2>2, <2>9, <2>10, <2>12, <2>14 DEF d
  <2>16. QED
      BY <2>11, <2>13, <2>15 DEF ClosedInv
<1>6. QED
  BY <1>4, <1>5, LiveStepsAre

(* What a row says of its protection is true at the exchange: confirmed    *)
(* children were accepted, and a closed posture left none at work that     *)
(* does not count as failed.                                               *)
THEOREM ProtectionHolds == LiveSpec => []ProtectionIsTrue
<1>1. LiveInit => AloneInv /\ ClosedInv
  <2> SUFFICES ASSUME LiveInit PROVE AloneInv /\ ClosedInv
      OBVIOUS
  <2>1. /\ row = NoRow /\ rest = 0 /\ venue.algos = <<>> /\ row.stamp = 0
        /\ \A u \in Callers : call[u] = NoCall
      BY DEF LiveInit, NoRow, Fresh
  <2>2. /\ NoCall.at = "idle" /\ NoCall.order = NoRow /\ ~Posturing(NoCall)
      BY DEF NoCall, Posturing
  <2>3. QED
      BY <2>1, <2>2, ProtOfNothing DEF AloneInv, ClosedInv
<1>2. LiveTrue /\ AloneInv /\ ClosedInv /\ [LiveNext]_live_vars => AloneInv' /\ ClosedInv'
  BY AloneKept, ClosedKept
<1>3. ConfirmedWasAccepted /\ ClosedInv => ProtectionIsTrue
  BY DEF ClosedInv, LeavesNothing, ClosedLeavesNothing, ProtectionIsTrue
<1>4. QED
  BY <1>1, <1>2, <1>3, LiveCorrect, ConfirmedIsTrue, PTL DEF LiveSpec

-----------------------------------------------------------------------------
(* Every child has a name.                                                 *)

(* A step keeps what the row names, and what the copy at work does.        *)
LEMMA NamesStep ==
    ASSUME LiveTrue, AloneInv, NamesInv, NEW t \in Callers, CallSteps(t), upset' = "no"
    PROVE  /\ call'[t].op \notin {"none", "sync"} =>
                 /\ KeepsNames(row', call'[t].order)
                 /\ ~Posturing(call'[t]) => SameNames(row', call'[t].order)
           /\ \A k \in Kinds : row.kids[k].id # 0 => row'.kids[k].id = row.kids[k].id
           /\ Posturing(call[t]) /\ ~Posturing(call'[t]) => row'.kids = call[t].order.kids
           /\ Posturing(call[t]) /\ Posturing(call'[t]) =>
                 KeepsNames(call[t].order, call'[t].order)
<1> DEFINE c == call[t]
           d == call'[t]
<1>1. /\ c.op \notin {"none", "sync"} =>
            KeepsNames(row, c.order) /\ (~Posturing(c) => SameNames(row, c.order))
      /\ CallTrue(c, venue, syncs)
      /\ row \in Order
  <2>1. upset = "no"
      BY AloneStep
  <2>2. QED
      BY <2>1 DEF NamesInv, LiveTrue, OrderTrue
<1>2. /\ NoRow.kids = [k \in Kinds |-> NoKid] /\ NoKid.id = 0
      /\ ~Posturing(NoCall) /\ NoCall.op = "none"
  BY DEF NoRow, Fresh, NoKid, NoCall, Posturing
<1>3. CopyGoesOn(c, d, row') /\ Leads(t)
  BY CopySteps
<1>4. UNCHANGED row \/ RowChanges(t)
  BY RowSteps
<1>5. Posturing(c) => c.op = "query"
  BY <1>1 DEF CallTrue, PostureTrue
<1>6. RowCreated(t) => row = NoRow /\ c.op = "none" /\ ~Posturing(c)
  <2>1. RowCreated(t) => row = NoRow /\ c.at = "idle"
      BY DEF RowCreated, CreateOrder, Start
  <2>2. QED
      BY <1>1, <1>2, <2>1 DEF CallTrue
<1>7. RowPostured(t) => Posturing(c) /\ row'.kids = c.order.kids
  BY DEF RowPostured, SavePosture, Posturing
<1>8. RowHeard(t) => ~Posturing(c) /\ c.op \notin {"none", "sync"} /\ row'.kids = c.order.kids
  <2>1. RowHeard(t) => c.at \in {"deleted", "verified"} /\ row'.kids = c.order.kids
      BY DEF RowHeard, SaveCancel, SaveVerification, SaysSame
  <2>2. QED
      BY <1>1, <2>1 DEF CallTrue, Posturing
<1>9. (RowSubmitted(t) \/ RowClosed(t)) => row'.kids = row.kids
  BY <1>1 DEF RowSubmitted, RowClosed, ClosedRow, SaysSame, Order
<1>10. \A k \in Kinds : row.kids[k].id # 0 => row'.kids[k].id = row.kids[k].id
  BY <1>1, <1>2, <1>4, <1>5, <1>6, <1>7, <1>8, <1>9 DEF RowChanges, KeepsNames
<1>11. Posturing(c) /\ ~Posturing(d) => row'.kids = c.order.kids
  BY <1>3, SavePostureStep DEF Leads
<1>12. Posturing(c) /\ Posturing(d) => KeepsNames(c.order, d.order)
  <2>1. LiveTrue'
      BY LiveStep DEF CallSteps, LiveNext
  <2>2. Posturing(d) => d.op = "query"
      BY <2>1 DEF LiveTrue, CallTrue, PostureTrue
  <2>3. QED
      BY <1>3, <2>2 DEF CopyGoesOn
<1>13. ASSUME d.op \notin {"none", "sync"}
       PROVE  KeepsNames(row', d.order) /\ (~Posturing(d) => SameNames(row', d.order))
  <2>1. CASE d.order = row'
      BY <2>1 DEF KeepsNames, SameNames
  <2>2. CASE ~Posturing(c) /\ ~Posturing(d) /\ d.order = c.order /\ d.op = c.op
    <3>1. \A k \in Kinds : row'.kids[k].id = row.kids[k].id
        BY <1>1, <1>4, <1>6, <1>7, <1>8, <1>9, <1>13, <2>2 DEF RowChanges, SameNames
    <3>2. QED
        BY <1>1, <1>13, <2>2, <3>1 DEF KeepsNames, SameNames
  <2>3. CASE Posturing(c) /\ Posturing(d) /\ KeepsNames(c.order, d.order)
    <3>1. \A k \in Kinds : row'.kids[k].id # 0 => c.order.kids[k].id = row'.kids[k].id
        BY <1>1, <1>4, <1>5, <1>6, <1>7, <1>8, <1>9, <2>3 DEF RowChanges, KeepsNames
    <3>2. QED
        BY <2>3, <3>1 DEF KeepsNames
  <2>4. QED
      BY <1>3, <1>13, <2>1, <2>2, <2>3 DEF CopyGoesOn
<1>14. QED
  BY <1>10, <1>11, <1>12, <1>13

(* What is posted is named by the copy that posts it, and what is saved    *)
(* loses no name.                                                          *)
LEMMA NamesKept ==
    ASSUME LiveTrue, AloneInv, NamesInv, [LiveNext]_live_vars
    PROVE  NamesInv'
<1> SUFFICES ASSUME upset' = "no" PROVE NamesInv'
    BY DEF NamesInv
<1>1. /\ DOMAIN venue.algos = 1 .. Len(venue.algos)
      /\ DOMAIN venue'.algos = 1 .. Len(venue'.algos)
      /\ Len(venue.algos) \in Nat /\ Len(venue'.algos) \in Nat
  <2>1. venue \in Venues /\ venue' \in Venues
      BY LiveStep DEF LiveTrue, LiveShape
  <2>2. QED
      BY <2>1 DEF Venues
<1>2. CASE OtherSteps
  <2>1. /\ UNCHANGED <<row, call, upset>> /\ DOMAIN venue'.algos = DOMAIN venue.algos
      BY <1>2, OtherStepsKeep
  <2>2. QED
      BY <2>1 DEF NamesInv
<1>3. ASSUME NEW t \in Callers, CallSteps(t)
      PROVE  NamesInv'
  <2> DEFINE c == call[t]
             d == call'[t]
  <2>1. upset = "no" /\ \A u \in Callers : u # t => call[u] = NoCall /\ call'[u] = NoCall
      BY <1>3, AloneStep
  <2>2. NoCall.op = "none" /\ ~Posturing(NoCall)
      BY DEF NoCall, Posturing
  <2>3. /\ d.op \notin {"none", "sync"} =>
              KeepsNames(row', d.order) /\ (~Posturing(d) => SameNames(row', d.order))
        /\ \A k \in Kinds : row.kids[k].id # 0 => row'.kids[k].id = row.kids[k].id
        /\ Posturing(c) /\ ~Posturing(d) => row'.kids = c.order.kids
        /\ Posturing(c) /\ Posturing(d) => KeepsNames(c.order, d.order)
      BY <1>3, NamesStep
  <2>4. CopyGoesOn(c, d, row') /\ NewIsNamed(t) /\ Leads(t)
      BY <1>3, CopySteps
  <2>5. \A i \in DOMAIN venue.algos :
           \/ \E k \in Kinds : row.kids[k].id = i
           \/ Posturing(c) /\ \E k \in Kinds : c.order.kids[k].id = i
      BY <2>1, <2>2 DEF NamesInv
  <2> HIDE DEF c, d
  <2>6. ASSUME NEW i \in DOMAIN venue.algos
        PROVE  \/ \E k \in Kinds : row'.kids[k].id = i
               \/ Posturing(d) /\ \E k \in Kinds : d.order.kids[k].id = i
    <3>1. i # 0
        BY <1>1
    <3>2. QED
        BY <2>3, <2>5, <3>1 DEF KeepsNames
  <2>7. ASSUME Len(venue'.algos) = Len(venue.algos) + 1, call[t].op = "query",
               \E k \in Kinds : call'[t].order.kids[k].id = Len(venue'.algos)
        PROVE  \/ \E k \in Kinds : row'.kids[k].id = Len(venue'.algos)
               \/ Posturing(d) /\ \E k \in Kinds : d.order.kids[k].id = Len(venue'.algos)
    <3>1. CASE Posturing(d)
        BY <2>7, <3>1 DEF d
    <3>2. CASE ~Posturing(d) /\ d.op \notin {"none", "sync"}
        BY <2>3, <2>7, <3>2 DEF d, SameNames
    <3>3. CASE d.order = row'
        BY <2>7, <3>3 DEF d
    <3>4. CASE d.order = NoRow
      <4>1. \A k \in Kinds : d.order.kids[k].id = 0
          BY <3>4 DEF NoRow, Fresh, NoKid
      <4>2. QED
          BY <1>1, <2>7, <4>1 DEF d
    <3>5. QED
        BY <2>4, <2>7, <3>1, <3>2, <3>3, <3>4 DEF CopyGoesOn, c, d
  <2>8. \A i \in DOMAIN venue'.algos :
           i \in DOMAIN venue.algos
           \/ (i = Len(venue'.algos) /\ Len(venue'.algos) = Len(venue.algos) + 1)
      BY <1>1, <2>4 DEF NewIsNamed
  <2>9. \A i \in DOMAIN venue'.algos :
           \/ \E k \in Kinds : row'.kids[k].id = i
           \/ Posturing(d) /\ \E k \in Kinds : d.order.kids[k].id = i
    <3>1. \A i \in DOMAIN venue'.algos : i \notin DOMAIN venue.algos =>
             /\ i = Len(venue'.algos) /\ call[t].op = "query"
             /\ \E k \in Kinds : call'[t].order.kids[k].id = Len(venue'.algos)
             /\ Len(venue'.algos) = Len(venue.algos) + 1
        BY <1>1, <2>4, <2>8 DEF NewIsNamed
    <3>2. QED
        BY <2>6, <2>7, <3>1
  <2>10. \A u \in Callers : call'[u].op \notin {"none", "sync"} =>
            /\ KeepsNames(row', call'[u].order)
            /\ ~Posturing(call'[u]) => SameNames(row', call'[u].order)
      BY <2>1, <2>2, <2>3 DEF d
  <2>11. QED
      BY <2>9, <2>10 DEF NamesInv, d
<1>4. QED
  BY <1>2, <1>3, LiveStepsAre

(* While calls come one at a time and none is cut off, every protective    *)
(* order ever posted is named by the row or by the call at work.           *)
THEOREM ChildrenKeepTheirNames == LiveSpec => []NoChildForgotten
<1>1. LiveInit => AloneInv /\ NamesInv
  <2> SUFFICES ASSUME LiveInit PROVE AloneInv /\ NamesInv
      OBVIOUS
  <2>1. /\ venue.algos = <<>> /\ DOMAIN venue.algos = {}
        /\ \A u \in Callers : call[u] = NoCall
      BY DEF LiveInit
  <2>2. NoCall.at = "idle" /\ NoCall.op = "none"
      BY DEF NoCall
  <2>3. QED
      BY <2>1, <2>2 DEF AloneInv, NamesInv
<1>2. LiveTrue /\ AloneInv /\ NamesInv /\ [LiveNext]_live_vars => AloneInv' /\ NamesInv'
  BY AloneKept, NamesKept
<1>3. NamesInv => NoChildForgotten
  BY DEF NamesInv, NoChildForgotten
<1>4. QED
  BY <1>1, <1>2, <1>3, LiveCorrect, PTL DEF LiveSpec

================================================================================
