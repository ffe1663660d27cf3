--------------------------- MODULE PaperExecution ---------------------------
(***************************************************************************)
(* runtime/runtime/paper_execution.py with its repositories: paper orders  *)
(* and the cash of one account.  Every repository call commits on its own, *)
(* the balance is read and written in Python, and an exception inside the  *)
(* try block of an open or a close undoes the cash but not the rows that   *)
(* are already saved.  The scan, the monitor and the API work on the same  *)
(* rows from their own threads.                                            *)
(*                                                                         *)
(* Fees are left out; fills, signal outcomes, snapshots and traces are     *)
(* steps that may raise and keep no state here.  Closing all orders is a   *)
(* close for each.  The reconciliation of orders older than the cash       *)
(* accounting is not modelled.                                             *)
(***************************************************************************)
EXTENDS Integers, Sequences, SequencesExt, FiniteSets, Lists

CONSTANTS
    Threads, Orders,
    Manual,        \* the orders that the operator creates
    Directions,    \* "BUY", "SELL" or both
    Prices, Quantities, Deposits,
    Default,       \* PAPER_DEFAULT_BALANCE
    AllowUnfunded, \* PAPER_ALLOW_UNFUNDED_TRADES
    MaxOps,        \* bound on the calls
    MaxFailures    \* bound on the exceptions

ASSUME PaperAssumption ==
    /\ IsFiniteSet(Orders) /\ Orders # {} /\ Manual \subseteq Orders
    /\ Directions \subseteq {"BUY", "SELL"}
    /\ Prices \subseteq Nat \ {0} /\ Quantities \subseteq Nat /\ Deposits \subseteq Nat \ {0}
    /\ Default \in Nat /\ AllowUnfunded \in BOOLEAN /\ MaxOps \in Nat /\ MaxFailures \in Nat

VARIABLES
    cash,     \* balance of the profile account
    orders,   \* the order rows
    position, \* status of each order's position row, "none" if there is none
    pc, job,  \* where each thread is, and what it has read
    ops, failures,
    base,     \* history: what was paid in, less what resets took away
    credits,  \* history: how often the proceeds of an order were credited
    odd       \* history: orders reopened, or saved by a call that then raised

paper_vars == <<cash, orders, position, pc, job, ops, failures, base, credits, odd>>
hist == <<base, credits, odd>>

Unsaved == [status |-> "none", direction |-> "BUY", entry |-> 0, quantity |-> 0,
            settled |-> TRUE, pnl |-> 0]
NoJob == [op |-> "none", order |-> CHOOSE o \in Orders : TRUE, row |-> Unsaved, delta |-> 0,
          read |-> 0, then |-> "idle"]

PaperInit ==
    /\ cash = Default /\ base = Default
    /\ orders = [o \in Orders |-> Unsaved] /\ position = [o \in Orders |-> "none"]
    /\ pc = [t \in Threads |-> "idle"] /\ job = [t \in Threads |-> NoJob]
    /\ ops = 0 /\ failures = 0 /\ credits = [o \in Orders |-> 0] /\ odd = {}

Goto(t, place) == pc' = [pc EXCEPT ![t] = place]
Begin(t) == pc[t] = "idle" /\ ops < MaxOps /\ ops' = ops + 1
Cost(row) == row.entry * row.quantity

-----------------------------------------------------------------------------
(* PaperAccountRepository.update_balance(): read, then write.              *)
Adjust(t, j) == job' = [job EXCEPT ![t] = j] /\ Goto(t, IF j.delta = 0 THEN j.then ELSE "read")

ReadBalance(t) ==
    /\ pc[t] = "read"
    /\ job' = [job EXCEPT ![t].read = cash]
    /\ Goto(t, "write")
    /\ UNCHANGED <<cash, orders, position, ops, failures, hist>>

WriteBalance(t) ==
    LET j == job[t]
    IN  /\ pc[t] = "write"
        /\ cash' = j.read + j.delta
        /\ credits' = [credits EXCEPT ![j.order] =
                          @ + (CASE j.op = "close" -> 1 [] j.op = "revert" -> -1 [] OTHER -> 0)]
        /\ base' = IF j.op = "deposit" THEN base + j.delta ELSE base
        /\ Goto(t, j.then)
        /\ UNCHANGED <<orders, position, job, ops, failures, odd>>

-----------------------------------------------------------------------------
(* open_order() and create_manual_order()                                  *)
InUse == {job[t].order : t \in {u \in Threads : job[u].op = "open" /\ pc[u] # "idle"}}
New(d, e, q, settled) ==
    [status |-> "OPEN", direction |-> d, entry |-> e, quantity |-> q, settled |-> settled, pnl |-> 0]

Open(t, o, d, e, q) ==
    LET short == e * q > cash
        j == [NoJob EXCEPT !.op = "open", !.order = o, !.row = New(d, e, q, TRUE),
                           !.delta = -(e * q), !.then = "save"]
    IN  /\ Begin(t)
        /\ orders[o].status = "none" /\ o \notin InUse
        /\ IF (short \/ q = 0) /\ cash <= 0 /\ AllowUnfunded
           THEN Adjust(t, [j EXCEPT !.row = New(d, e, 0, FALSE), !.delta = 0])
           ELSE IF short THEN job' = [job EXCEPT ![t] = j] /\ Goto(t, "require")
           ELSE Adjust(t, j)
        /\ UNCHANGED <<cash, orders, position, failures, hist>>

\* _require_paper_balance() reads the account again before it raises.
Require(t) ==
    /\ pc[t] = "require"
    /\ Goto(t, IF Cost(job[t].row) > cash THEN "idle" ELSE "read")
    /\ UNCHANGED <<cash, orders, position, job, ops, failures, hist>>

-----------------------------------------------------------------------------
(* close_order(), by the operator, by the monitor or for all orders.       *)
Multiplier(d) == IF d = "BUY" THEN 1 ELSE -1
Closed(row, price) ==
    [row EXCEPT !.status = "CLOSED",
                !.pnl = (price - row.entry) * row.quantity * Multiplier(row.direction)]

Closing(t, o, price) ==
    LET row == orders[o]
    IN  Adjust(t, [NoJob EXCEPT !.op = "close", !.order = o, !.row = Closed(row, price),
                                !.delta = IF row.settled THEN price * row.quantity ELSE 0,
                                !.then = "save"])

Close(t, o, price) ==
    /\ Begin(t)
    /\ orders[o].status = "OPEN" /\ Closing(t, o, price)
    /\ UNCHANGED <<cash, orders, position, failures, hist>>

-----------------------------------------------------------------------------
(* The rows of an open or a close, each in its own commit.                 *)
SaveOrder(t) ==
    /\ pc[t] = "save"
    /\ orders' = [orders EXCEPT ![job[t].order] = job[t].row]
    /\ Goto(t, "position")
    /\ UNCHANGED <<cash, position, job, ops, failures, hist>>

SavePosition(t) ==
    /\ pc[t] = "position"
    /\ position' = [position EXCEPT ![job[t].order] = job[t].row.status]
    /\ Goto(t, "finish")
    /\ UNCHANGED <<cash, orders, job, ops, failures, hist>>

\* The outcome of the signal and the portfolio snapshot.
Finish(t) ==
    /\ pc[t] = "finish"
    /\ Goto(t, "idle")
    /\ UNCHANGED <<cash, orders, position, job, ops, failures, hist>>

\* Bug: the exception leaves the cash as it is.
FailKeepsCash(t) ==
    /\ pc[t] \in {"save", "position", "finish"} /\ failures < MaxFailures
    /\ failures' = failures + 1
    /\ Goto(t, "idle")
    /\ odd' = IF pc[t] = "save" THEN odd ELSE odd \cup {job[t].order}
    /\ UNCHANGED <<cash, orders, position, job, ops, base, credits>>

\* Whatever raises, the cash of the call is given back.
Fail(t) ==
    LET j == job[t]
    IN  /\ pc[t] \in {"save", "position", "finish"} /\ failures < MaxFailures
        /\ failures' = failures + 1
        /\ Adjust(t, [j EXCEPT !.delta = -j.delta, !.then = "idle",
                               !.op = IF j.op = "close" THEN "revert" ELSE "refund"])
        /\ odd' = IF pc[t] = "save" THEN odd ELSE odd \cup {j.order}
        /\ UNCHANGED <<cash, orders, position, ops, base, credits>>

-----------------------------------------------------------------------------
(* monitor_open_orders(): the rows are listed, then each is marked and     *)
(* closed if its price says so.                                            *)
Monitor(t, o) ==
    /\ Begin(t)
    /\ orders[o].status = "OPEN"
    /\ job' = [job EXCEPT ![t] = [NoJob EXCEPT !.op = "mark", !.order = o]]
    /\ Goto(t, "mark")
    /\ UNCHANGED <<cash, orders, position, failures, hist>>

\* _update_open_order_mark() does not ask whether the order is still open.
Mark(t) ==
    LET row == orders[job[t].order]
    IN  /\ pc[t] = "mark"
        /\ job' = [job EXCEPT ![t].row = row]
        /\ Goto(t, IF row.status = "deleted" THEN "idle" ELSE "rewrite")
        /\ UNCHANGED <<cash, orders, position, ops, failures, hist>>

\* update_manual_order() makes an order OPEN whatever it was.
Update(t, o) ==
    /\ Begin(t)
    /\ o \in Manual /\ orders[o].status \in {"OPEN", "CLOSED"}
    /\ job' = [job EXCEPT ![t] = [NoJob EXCEPT !.op = "update", !.order = o,
                                               !.row = [orders[o] EXCEPT !.status = "OPEN"]]]
    /\ Goto(t, "rewrite")
    /\ UNCHANGED <<cash, orders, position, failures, hist>>

\* Both write the row they have read.
Rewrite(t) ==
    LET j == job[t]
    IN  /\ pc[t] = "rewrite"
        /\ orders' = [orders EXCEPT ![j.order] = j.row]
        /\ odd' = IF orders[j.order].status # "OPEN" /\ j.row.status = "OPEN"
                  THEN odd \cup {j.order} ELSE odd
        /\ Goto(t, "remark")
        /\ UNCHANGED <<cash, position, job, ops, failures, base, credits>>

\* A position that exists is saved as OPEN; the monitor may go on to close.
Remark(t) ==
    LET o == job[t].order
    IN  /\ pc[t] = "remark"
        /\ position' = IF position[o] = "none" THEN position ELSE [position EXCEPT ![o] = "OPEN"]
        /\ \/ Goto(t, "idle")
           \/ job[t].op = "mark" /\ Goto(t, "settle")
        /\ UNCHANGED <<cash, orders, job, ops, failures, hist>>

Settle(t) ==
    LET o == job[t].order
    IN  /\ pc[t] = "settle"
        /\ IF orders[o].status # "OPEN" THEN Goto(t, "idle") /\ UNCHANGED job
           ELSE \E price \in Prices : Closing(t, o, price)
        /\ UNCHANGED <<cash, orders, position, ops, failures, hist>>

-----------------------------------------------------------------------------
\* delete_manual_order(): what it checked is not checked again.
Delete(t, o) ==
    /\ Begin(t)
    /\ o \in Manual /\ orders[o].status = "CLOSED"
    /\ job' = [job EXCEPT ![t] = [NoJob EXCEPT !.op = "delete", !.order = o]]
    /\ Goto(t, "delete")
    /\ UNCHANGED <<cash, orders, position, failures, hist>>

\* Bug: the position is marked instead of removed.
DeletedSoftly(t) ==
    LET o == job[t].order
    IN  /\ pc[t] = "delete"
        /\ orders' = [orders EXCEPT ![o].status = "deleted"]
        /\ position' = [position EXCEPT ![o] = "deleted"]
        /\ Goto(t, "idle")
        /\ UNCHANGED <<cash, job, ops, failures, hist>>

Deleted(t) ==
    LET o == job[t].order
    IN  /\ pc[t] = "delete"
        /\ IF orders[o].status \in {"OPEN", "CLOSED"}
           THEN /\ orders' = [orders EXCEPT ![o].status = "deleted"]
                /\ position' = [position EXCEPT ![o] = "none"]
           ELSE UNCHANGED <<orders, position>>
        /\ Goto(t, "idle")
        /\ UNCHANGED <<cash, job, ops, failures, hist>>

Deposit(t, amount) ==
    /\ Begin(t)
    /\ Adjust(t, [NoJob EXCEPT !.op = "deposit", !.delta = amount])
    /\ UNCHANGED <<cash, orders, position, failures, hist>>

\* reset_paper_balance() is refused while an order is open.
ResetBalance(t) ==
    /\ Begin(t)
    /\ \A o \in Orders : orders[o].status # "OPEN"
    /\ Goto(t, "set")
    /\ UNCHANGED <<cash, orders, position, job, failures, hist>>

OrderList == SetToSeq(Orders)
\* The profit of all orders.
Realized == Total(OrderList, [o \in Orders |-> orders[o].pnl])

SetBalance(t) ==
    /\ pc[t] = "set"
    /\ cash' = Default
    /\ base' = Default - Realized
    /\ Goto(t, "idle")
    /\ UNCHANGED <<orders, position, job, ops, failures, credits, odd>>

Calls(t) ==
    \/ \E o \in Orders :
          \/ \E d \in Directions, e \in Prices, q \in Quantities : Open(t, o, d, e, q)
          \/ \E price \in Prices : Close(t, o, price)
          \/ Monitor(t, o) \/ Update(t, o) \/ Delete(t, o)
    \/ \E amount \in Deposits : Deposit(t, amount)
    \/ ResetBalance(t)

Steps(t) ==
    \/ ReadBalance(t) \/ WriteBalance(t) \/ Require(t) \/ SaveOrder(t) \/ SavePosition(t)
    \/ Finish(t) \/ Fail(t) \/ Mark(t) \/ Rewrite(t) \/ Remark(t) \/ Settle(t) \/ Deleted(t)
    \/ SetBalance(t)

PaperNext == \E t \in Threads : Calls(t) \/ Steps(t)

PaperSpec == PaperInit /\ [][PaperNext]_paper_vars
-----------------------------------------------------------------------------
Rows == [status : {"none", "OPEN", "CLOSED", "deleted"}, direction : {"BUY", "SELL"},
         entry : Prices \cup {0}, quantity : Quantities \cup {0}, settled : BOOLEAN, pnl : Int]
PaperPlaces == {"idle", "read", "write", "require", "save", "position", "finish", "mark",
                "rewrite", "remark", "settle", "delete", "set"}
Jobs == [op : {"none", "open", "close", "refund", "revert", "mark", "update", "delete",
               "deposit"},
         order : Orders, row : Rows, delta : Int, read : Int, then : {"idle", "save"}]

PaperTypeOK ==
    /\ cash \in Int /\ base \in Int
    /\ orders \in [Orders -> Rows] /\ credits \in [Orders -> Int]
    /\ position \in [Orders -> {"none", "OPEN", "CLOSED"}]
    /\ pc \in [Threads -> PaperPlaces] /\ job \in [Threads -> Jobs]
    /\ \A t \in Threads :
          /\ pc[t] \in {"save", "position"} => job[t].then = "save"
          /\ pc[t] = "mark" => job[t].then = "idle"
          /\ job[t].then = "save" => job[t].row.status \in {"OPEN", "CLOSED"}
    /\ ops \in 0..MaxOps /\ failures \in 0..MaxFailures /\ odd \subseteq Orders

Quiet == odd = {} /\ \A t \in Threads : pc[t] = "idle"
Held(row) == IF row.status = "OPEN" THEN Cost(row) ELSE 0
Invested == Total(OrderList, [o \in Orders |-> Held(orders[o])])

(* "the runtime rejects the order if free paper cash is insufficient"      *)
(* (runtime/docs/runtime.md:245): calls that do not overlap never overdraw *)
(* the account.                                                            *)
NeverOverdrawn == odd = {} => cash >= 0

(* Between calls that do not overlap, an order and its position agree.     *)
PositionFollowsOrder ==
    Quiet => \A o \in Orders : orders[o].status \in {"OPEN", "CLOSED"}
                                  => position[o] = orders[o].status

(* Between calls that do not overlap, free cash and invested capital are   *)
(* what was paid in and what closed long orders have earned: a refund or a *)
(* reverted credit leaves nothing behind, and deleting a closed order      *)
(* changes no money.  The positions follow the orders, and not even within *)
(* a call is the account overdrawn.                                        *)
BooksBalance ==
    /\ Quiet /\ Directions = {"BUY"} => cash + Invested = base + Realized
    /\ PositionFollowsOrder
    /\ NeverOverdrawn

(* "Order is not open" (paper_execution.py:459): the proceeds of an order  *)
(* that nobody reopened are credited once.                                 *)
CreditedOnce == \A o \in Orders \ odd : credits[o] <= 1
=============================================================================
