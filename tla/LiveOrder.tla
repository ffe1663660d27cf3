----------------------------- MODULE LiveOrder -----------------------------
(***************************************************************************)
(* runtime/services: one entry order on Binance and its protective orders. *)
(*                                                                         *)
(* binance_usdm_manual_live_service.py saves a row, posts the entry, asks  *)
(* the venue what became of it, then posts, confirms and cancels a stop    *)
(* and a take-profit.  Each request may fail or lose its answer.  Between  *)
(* the requests the service works on the copy of the row it loaded, and    *)
(* each save writes the whole copy; only the closing time is read again.   *)
(* binance_usdm_readonly_service.py copies positions and open orders into  *)
(* the database (the book); the reconciliation, which every answered query *)
(* and every synchronisation runs, closes filled orders of a flat account. *)
(*                                                                         *)
(* Times are counted in synchronisations begun: a row is older than a      *)
(* synchronisation that began after its stamp.  The minimum age of a row   *)
(* is a free choice.  The user-data stream is taken to be inactive.        *)
(***************************************************************************)
EXTENDS Integers, FiniteSets, Sequences, SequencesExt

CONSTANTS
    Callers,      \* API requests in flight
    Kinds,        \* the protective orders asked for
    MaxCalls, MaxSyncs, MaxPosts, MaxFaults \* bounds

ASSUME LiveAssumption ==
    /\ IsFiniteSet(Callers)
    /\ "STOP" \in Kinds /\ Kinds \subseteq {"STOP", "PROFIT"}
    /\ {MaxCalls, MaxSyncs, MaxPosts, MaxFaults} \subseteq Nat

VARIABLES
    row,    \* the order row, with the protective children in its payload
    venue,  \* the exchange: entry order, position, protective orders by id
    book,   \* the local copy: is there a position, which orders are open
    rest,   \* the last good synchronisation, 0 if the last request failed
    call,   \* what each caller does and the copy it works on
    syncs, calls, faults,
    upset   \* history: have calls met an "overlap" or a "crash"?

live_vars == <<row, venue, book, rest, call, syncs, calls, faults, upset>>

Entry == 0
NoKid == [id |-> 0, status |-> "none"]
Fresh == [status |-> "PENDING", prot |-> "PENDING", kids |-> [k \in Kinds |-> NoKid],
          stamp |-> 0, closed |-> FALSE]
NoRow == [Fresh EXCEPT !.status = "none"]
NoCall == [at |-> "idle", op |-> "none", order |-> NoRow, kid |-> "STOP", left |-> {},
           unsure |-> FALSE, seen |-> "none", flat |-> 0, passes |-> 0]

LiveInit ==
    /\ row = NoRow
    /\ venue = [entry |-> "absent", exposed |-> FALSE, algos |-> <<>>]
    /\ book = [exposed |-> FALSE, open |-> {}]
    /\ rest = 0
    /\ call = [t \in Callers |-> NoCall]
    /\ syncs = 0 /\ calls = 0 /\ faults = 0
    /\ upset = "no"

OpenStatus == {"NEW", "PARTIALLY_FILLED"}
Become(t, c) == call' = [call EXCEPT ![t] = c]
Quiet == \A t \in Callers : call[t].at = "idle"
Fault == faults < MaxFaults /\ faults' = faults + 1
NoFault == UNCHANGED faults

-----------------------------------------------------------------------------
(* The exchange, on its own.                                               *)
Fill ==
    /\ venue.entry \in OpenStatus
    /\ \E s \in {"PARTIALLY_FILLED", "FILLED"} \ {venue.entry} :
          venue' = [venue EXCEPT !.entry = s, !.exposed = TRUE]
    /\ UNCHANGED <<row, book, rest, call, syncs, calls, faults, upset>>

\* Canceled by hand or expired.
EntryEnds ==
    /\ venue.entry \in OpenStatus
    /\ venue' = [venue EXCEPT !.entry = "CANCELED"]
    /\ UNCHANGED <<row, book, rest, call, syncs, calls, faults, upset>>

\* A protective order triggers, or the position is closed by hand.
Flatten ==
    /\ venue.exposed
    /\ \/ venue' = [venue EXCEPT !.exposed = FALSE]
       \/ \E i \in DOMAIN venue.algos :
             /\ venue.algos[i] = "NEW"
             /\ venue' = [venue EXCEPT !.exposed = FALSE, !.algos[i] = "FILLED"]
    /\ UNCHANGED <<row, book, rest, call, syncs, calls, faults, upset>>

-----------------------------------------------------------------------------
(* Calls begin and are cut off.                                            *)
Start(t, c) ==
    /\ call[t].at = "idle" /\ calls < MaxCalls
    /\ calls' = calls + 1
    /\ upset' = IF upset = "no" /\ ~Quiet THEN "overlap" ELSE upset
    /\ Become(t, c)

\* create_manual_order(): the row, with its client order id, is saved first.
CreateOrder(t) ==
    /\ row = NoRow
    /\ row' = [Fresh EXCEPT !.stamp = syncs]
    /\ Start(t, [NoCall EXCEPT !.at = "post", !.op = "create", !.order = row'])
    /\ UNCHANGED <<venue, book, rest, syncs, faults>>

\* query_order() and verify_order(), cancel_order(): they load the row.
LoadOrder(t, op) ==
    /\ row # NoRow
    /\ Start(t, [NoCall EXCEPT !.at = IF op = "cancel" THEN "delete" ELSE "ask",
                               !.op = op, !.order = row])
    /\ UNCHANGED <<row, venue, book, rest, syncs, faults>>

\* The process dies: what a call has not saved is lost.
Die ==
    /\ Fault
    /\ ~Quiet
    /\ call' = [t \in Callers |-> NoCall]
    /\ upset' = "crash"
    /\ UNCHANGED <<row, venue, book, rest, syncs, calls>>

-----------------------------------------------------------------------------
(* Saves.  The closing time is that of the row, all else that of the copy. *)
\* Bug: the closing time is that of the copy as well.
SavedWhole(order) == order

Saved(order) == [order EXCEPT !.closed = row.closed]

Save(t, order, c) ==
    /\ row' = Saved(order)
    /\ Become(t, [c EXCEPT !.order = row'])

-----------------------------------------------------------------------------
(* _ensure_protection_posture(): what a caller does next with its copy.    *)
EntryAllows(order) == order.status \in {"FILLED", "PARTIALLY_FILLED"}
Terminal(order) == order.status \in {"CANCELED", "CLOSED"}
ActiveKid(kid) == kid.status \in {"PENDING", "CONFIRMED", "DEGRADED"}

\* Bug: a child that could not be cancelled counts as ended.
UnconfirmedKid(kid) == kid.status # "CONFIRMED"

TerminalKid(kid) == kid.status \in {"TRIGGERED", "CANCELED", "FAILED"}
Present(kids) == {k \in Kinds : kids[k].status # "none"}

\* Bug: a child that failed is posted again.
HasWorkingId(kid) == kid.id # 0 /\ kid.status # "FAILED"

\* _ensure_protective_child(): a child with an id is only asked for.
HasId(kid) == kid.id # 0

Ensure(c, k) ==
    [c EXCEPT !.kid = k,
              !.at = IF HasId(c.order.kids[k]) THEN "confirm" ELSE "protect",
              !.unsure = c.order.kids[k].status \in {"PENDING", "DEGRADED"}]

\* _apply_terminal_protection_closure(): all children of a terminal parent,
\* or the sibling of a child that triggered.
ToCancel(order) ==
    LET triggered == {k \in Kinds : order.kids[k].status = "TRIGGERED"}
    IN  {k \in Kinds : /\ ActiveKid(order.kids[k])
                       /\ Terminal(order) \/ triggered \ {k} # {}}

CancelEach(c, left) ==
    [c EXCEPT !.left = left, !.at = IF left = {} THEN "keep" ELSE "cleanup",
              !.kid = "STOP", !.unsure = FALSE]
Closure(c) == CancelEach(c, ToCancel(c.order))

\* After a child: the next one to cancel or to ensure, or the closure.
NextKid(c) ==
    IF c.left # {} THEN CancelEach(c, c.left \ {c.kid})
    ELSE IF c.kid = "STOP" /\ "PROFIT" \in Kinds THEN Ensure(c, "PROFIT")
    ELSE Closure(c)

Posture(c) ==
    CASE EntryAllows(c.order) -> Ensure(c, "STOP")
      [] Terminal(c.order)    -> Closure(c)
      [] OTHER                -> [c EXCEPT !.at = "keep"]

\* _confirm_protective_child(): what the answer, or its absence, makes of it.
WithKid(c, status) ==
    NextKid([c EXCEPT !.order.kids[c.kid].status = status, !.seen = "none"])

\* Bug: the status of the exchange is kept as it came.
KidStatusAsHeard(c, seen) == seen

KidStatus(c, seen) ==
    CASE seen = "FILLED"   -> "TRIGGERED"
      [] seen = "CANCELED" -> "CANCELED"
      [] seen = "NEW"      -> "CONFIRMED"
      [] OTHER             -> IF c.unsure THEN "DEGRADED" ELSE "FAILED"

-----------------------------------------------------------------------------
(* create_manual_order() and cancel_order(): the request, then a save.     *)
\* The entry is posted; it may fill at once.  With no credentials the call ends.
PostEntry(t) ==
    LET c == call[t]
        answered(seen) == Become(t, [c EXCEPT !.at = "posted", !.seen = seen])
    IN  /\ c.at = "post"
        /\ \/ \E s \in {"NEW", "FILLED"} :
                 /\ venue' = [venue EXCEPT !.entry = s, !.exposed = (s = "FILLED")]
                 /\ (answered(s) /\ NoFault) \/ (answered("lost") /\ Fault)
           \/ UNCHANGED venue /\ Fault /\ (answered("lost") \/ Become(t, NoCall))
        /\ UNCHANGED <<row, book, rest, syncs, calls, upset>>

\* The answer is saved under the time of the call's start, then verified.
SaveSubmission(t) ==
    LET c == call[t]
        status == IF c.seen = "lost" THEN "PENDING" ELSE c.seen
    IN  /\ c.at = "posted"
        /\ Save(t, [c.order EXCEPT !.status = status, !.prot = row.prot, !.kids = row.kids],
                [c EXCEPT !.at = "ask"])
        /\ UNCHANGED <<venue, book, rest, syncs, calls, faults, upset>>

DeleteEntry(t) ==
    LET c == call[t]
        open == venue.entry \in OpenStatus
        answered(seen) == Become(t, [c EXCEPT !.at = "deleted", !.seen = seen])
    IN  /\ c.at = "delete"
        /\ IF open
           THEN /\ venue' = [venue EXCEPT !.entry = "CANCELED"]
                /\ (answered("CANCELED") /\ NoFault) \/ (answered("lost") /\ Fault)
           ELSE UNCHANGED venue /\ answered("lost") /\ NoFault
        /\ UNCHANGED <<row, book, rest, syncs, calls, upset>>

SaveCancel(t) ==
    LET c == call[t]
        status == IF c.seen = "lost" THEN c.order.status ELSE c.seen
    IN  /\ c.at = "deleted"
        /\ Save(t, [c.order EXCEPT !.status = status, !.stamp = syncs],
                [c EXCEPT !.at = "ask"])
        /\ UNCHANGED <<venue, book, rest, syncs, calls, faults, upset>>

-----------------------------------------------------------------------------
(* A query of one order.  With the answer come the upsert of the book and  *)
(* what reconcile() reads: is the account flat, and since when?  (Answers  *)
(* that cross on their way to the book could only keep an order open there *)
(* for longer.)  An order the venue does not know is no failed sync.       *)
Asked(t, status, unanswered) ==
    LET c == call[t]
        id == IF c.passes = 0 THEN Entry ELSE c.order.kids[c.kid].id
        open == IF status \in OpenStatus THEN book.open \union {id} ELSE book.open \ {id}
    IN  /\ \/ /\ status # "absent" /\ NoFault
              /\ book' = [book EXCEPT !.open = open]
              /\ Become(t, [c EXCEPT !.at = "settle", !.seen = status,
                               !.flat = IF ~book.exposed /\ open = {} THEN rest ELSE 0])
              /\ UNCHANGED rest
           \/ /\ status = "absent" /\ NoFault
              /\ Become(t, unanswered) /\ UNCHANGED <<book, rest>>
           \/ Fault /\ rest' = 0 /\ Become(t, unanswered) /\ UNCHANGED book
        /\ UNCHANGED <<row, venue, syncs, calls, upset>>

AskEntry(t) ==
    /\ call[t].at = "ask"
    /\ Asked(t, venue.entry, [call[t] EXCEPT !.at = "verified", !.seen = "lost"])

AskKid(t) ==
    LET c == call[t]
    IN  /\ c.at = "confirm"
        /\ Asked(t, venue.algos[c.order.kids[c.kid].id], WithKid(c, KidStatus(c, "lost")))

\* Bug: any synchronisation will do.
ConfirmedFlatByAny(flat) == 0 < flat

\* _can_confirm_venue_flat(): the synchronisation began after the row's stamp.
ConfirmedFlat(flat) == row.stamp < flat

\* _reconcile_local_live_orders(): the row is read and closed in one commit.
SettleFlat(t) ==
    LET c == [call[t] EXCEPT !.flat = 0]
    IN  /\ c.at = "settle"
        /\ \/ /\ row.status = "FILLED" /\ ~row.closed /\ ConfirmedFlat(call[t].flat)
              /\ row' = [row EXCEPT !.status = "CLOSED", !.prot = "CLOSED", !.closed = TRUE,
                                    !.stamp = syncs]
           \/ UNCHANGED row
        /\ Become(t, IF c.op = "sync" THEN NoCall
                     ELSE IF c.passes = 0 THEN [c EXCEPT !.at = "verified"]
                     ELSE WithKid(c, KidStatus(c, c.seen)))
        /\ UNCHANGED <<venue, book, rest, syncs, calls, faults, upset>>

\* _verify_live_order(): without an answer the copy keeps its status.
SaveVerification(t) ==
    LET c == call[t]
        status == IF c.seen = "lost" THEN c.order.status ELSE c.seen
    IN  /\ c.at = "verified"
        /\ row' = Saved([c.order EXCEPT !.status = status, !.stamp = syncs])
        /\ Become(t, IF c.op = "cancel" THEN NoCall
                     ELSE Posture([c EXCEPT !.order = row', !.seen = "none", !.op = "query",
                                            !.passes = IF c.op = "create" THEN 2 ELSE 1]))
        /\ UNCHANGED <<venue, book, rest, syncs, calls, faults, upset>>

-----------------------------------------------------------------------------
(* The requests for the children, and the save of the posture.             *)
PostKid(t) ==
    LET c == call[t]
        id == Len(venue.algos) + 1
        posted(status) == [c EXCEPT !.order.kids[c.kid] = [id |-> id, status |-> status]]
        asks(unsure) ==
            Become(t, [posted("PENDING") EXCEPT !.at = "confirm", !.unsure = unsure])
        arrives(reached) ==
            venue' = [venue EXCEPT !.algos = Append(@, IF reached THEN "NEW" ELSE "absent")]
    IN  /\ c.at = "protect" /\ id <= MaxPosts
        /\ \/ arrives(TRUE) /\ NoFault /\ asks(FALSE)
           \/ \* No answer, or refused, perhaps as the duplicate of a repeated request.
              /\ \E reached \in BOOLEAN : arrives(reached)
              /\ Fault
              /\ asks(TRUE) \/ Become(t, NextKid(posted("FAILED")))
        /\ UNCHANGED <<row, book, rest, syncs, calls, upset>>

\* _cancel_protective_child(): without an answer the child is degraded.
CancelKid(t) ==
    LET k == IF "STOP" \in call[t].left THEN "STOP" ELSE "PROFIT"
        c == [call[t] EXCEPT !.kid = k]
        id == c.order.kids[k].id
        gone == [venue EXCEPT !.algos[id] = "CANCELED"]
        unanswered == Become(t, WithKid(c, "DEGRADED"))
    IN  /\ c.at = "cleanup"
        /\ IF venue.algos[id] = "NEW"
           THEN \/ /\ venue' = gone /\ NoFault
                   /\ Become(t, [c EXCEPT !.at = "confirm", !.unsure = TRUE])
                \/ venue' \in {venue, gone} /\ Fault /\ unanswered
           ELSE UNCHANGED venue /\ NoFault /\ unanswered
        /\ UNCHANGED <<row, book, rest, syncs, calls, upset>>

\* Bug: a stop of which nothing was heard counts as confirmed.
SummaryUnheard(order) ==
    IF EntryAllows(order) /\ order.kids["STOP"].status = "DEGRADED" THEN "CONFIRMED"
    ELSE IF Terminal(order) THEN "CLOSED" ELSE "PENDING"

\* _summarize_protection_status() and _close_protection_lifecycle()
Summary(order) ==
    LET kids == {order.kids[k] : k \in Present(order.kids)}
        done == \A kid \in kids : TerminalKid(kid)
        some(status) == \E kid \in kids : kid.status = status
    IN  IF ~EntryAllows(order) /\ ~Terminal(order) THEN "PENDING"
        ELSE IF Terminal(order) \/ some("TRIGGERED")
             THEN IF done THEN "CLOSED" ELSE "DEGRADED"
        ELSE IF order.kids["STOP"].status = "FAILED" THEN "FAILED"
        ELSE IF \A kid \in kids : kid.status = "CONFIRMED" THEN "CONFIRMED"
        ELSE IF some("DEGRADED") \/ some("FAILED") THEN "DEGRADED" ELSE "PENDING"

SavePosture(t) ==
    LET c == call[t]
    IN  /\ c.at = "keep"
        /\ row' = Saved([c.order EXCEPT !.prot = Summary(c.order)])
        /\ Become(t, IF c.passes > 1
                     THEN Posture([c EXCEPT !.order = row', !.passes = @ - 1])
                     ELSE NoCall)
        /\ UNCHANGED <<venue, book, rest, syncs, calls, faults, upset>>

-----------------------------------------------------------------------------
(* sync_account_state(): positions, then open orders, then one commit that *)
(* replaces the positions but only adds to the open orders.                *)
Sync(t) ==
    /\ syncs < MaxSyncs
    /\ syncs' = syncs + 1
    /\ Start(t, [NoCall EXCEPT !.at = "positions", !.op = "sync", !.flat = syncs'])
    /\ UNCHANGED <<row, venue, book, rest, faults>>

ReadPositions(t) ==
    LET c == call[t]
    IN  /\ c.at = "positions"
        /\ \/ /\ Become(t, [c EXCEPT !.at = "orders", !.unsure = venue.exposed])
              /\ NoFault /\ UNCHANGED rest
           \/ Fault /\ rest' = 0 /\ Become(t, NoCall)
        /\ UNCHANGED <<row, venue, book, syncs, calls, upset>>

OpenOnVenue ==
    {i \in DOMAIN venue.algos : venue.algos[i] = "NEW"}
        \union (IF venue.entry \in OpenStatus THEN {Entry} ELSE {})

SaveSync(t) ==
    LET c == call[t]
    IN  /\ c.at = "orders"
        /\ book' = [exposed |-> c.unsure, open |-> book.open \union OpenOnVenue]
        /\ rest' = c.flat
        /\ Become(t, [c EXCEPT !.at = "settle", !.flat = IF book'.exposed \/ book'.open # {}
                                                         THEN 0 ELSE rest'])
        /\ UNCHANGED <<row, venue, syncs, calls, faults, upset>>

-----------------------------------------------------------------------------
Submits(t) == CreateOrder(t) \/ PostEntry(t) \/ SaveSubmission(t)
Cancels(t) == LoadOrder(t, "cancel") \/ DeleteEntry(t) \/ SaveCancel(t)
Verifies(t) ==
    LoadOrder(t, "query") \/ AskEntry(t) \/ SettleFlat(t) \/ SaveVerification(t)
Protects(t) == PostKid(t) \/ AskKid(t) \/ CancelKid(t) \/ SavePosture(t)
Syncs(t) == Sync(t) \/ ReadPositions(t) \/ SaveSync(t)

LiveNext ==
    \/ Fill \/ EntryEnds \/ Flatten \/ Die
    \/ \E t \in Callers : Submits(t) \/ Cancels(t) \/ Verifies(t) \/ Protects(t) \/ Syncs(t)

LiveSpec == LiveInit /\ [][LiveNext]_live_vars

-----------------------------------------------------------------------------
KidStatuses ==
    {"none", "PENDING", "CONFIRMED", "DEGRADED", "FAILED", "TRIGGERED", "CANCELED"}
Kid == [id : 0 .. MaxPosts, status : KidStatuses]
Order == [status : {"none", "PENDING", "CANCELED", "FILLED", "CLOSED"} \union OpenStatus,
          prot : {"PENDING", "CONFIRMED", "DEGRADED", "FAILED", "CLOSED"},
          kids : [Kinds -> Kid], stamp : 0 .. MaxSyncs, closed : BOOLEAN]

(* Rows, copies, children and the exchange hold what the services can put  *)
(* there, and a row or a copy names only children that were posted.        *)
LiveTypeOK ==
    /\ row \in Order
    /\ venue.entry \in {"absent", "CANCELED", "FILLED"} \union OpenStatus
    /\ venue.exposed \in BOOLEAN /\ Len(venue.algos) <= MaxPosts
    /\ book.open \subseteq 0 .. Len(venue.algos)
    /\ rest \in 0 .. syncs
    /\ \A t \in Callers : call[t].order \in Order
    /\ \A o \in {row} \union {call[t].order : t \in Callers}, k \in Kinds :
          o.kids[k].id <= Len(venue.algos)

(* While calls come one at a time and none is cut off, every protective    *)
(* order ever posted is still named by the row or by the call at work: no  *)
(* lost answer, failure or later query makes the service post it again.    *)
NoChildForgotten ==
    upset = "no" =>
        \A i \in DOMAIN venue.algos :
            \E o \in {row} \union {call[t].order : t \in Callers}, k \in Kinds :
                o.kids[k].id = i

ConfirmedWasAccepted ==
    row.prot = "CONFIRMED" =>
        \A k \in Present(row.kids) : venue.algos[row.kids[k].id] # "absent"

ClosedLeavesNothing ==
    upset = "no" /\ Quiet /\ row.prot = "CLOSED" =>
        \A k \in Present(row.kids) :
            row.kids[k].status # "FAILED" => venue.algos[row.kids[k].id] # "NEW"

(* What a row says of its protection is true at the exchange.  Confirmed:  *)
(* it names children the exchange accepted, even if another call overwrote *)
(* it meanwhile.  Closed, while calls come one at a time: the posture left *)
(* no protective order at work, unless a child had failed, which counts as *)
(* closed without being cancelled.                                         *)
ProtectionIsTrue == ConfirmedWasAccepted /\ ClosedLeavesNothing

Submitted == upset # "crash" /\ \A t \in Callers : call[t].op # "create"

(* The reconciliation closes an order only when its position is gone, even *)
(* if it read book and synchronisation before the row changed; and the     *)
(* closing time stays, whatever stale copy is saved later.  Left out: a    *)
(* submission still at work or cut off, whose row has too old a stamp.     *)
FlatCloseIsFinal ==
    /\ [][~row.closed /\ row'.closed /\ Submitted => ~venue'.exposed]_live_vars
    /\ [][row.closed => row'.closed]_live_vars
=============================================================================
