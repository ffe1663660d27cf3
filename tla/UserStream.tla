----------------------------- MODULE UserStream -----------------------------
(***************************************************************************)
(* runtime/runtime/websocket_owner.py over the stream state that           *)
(* runtime/services/binance_usdm_user_data_stream_service.py keeps in the  *)
(* database.  A thread looks at the state and then reconnects, keeps the   *)
(* listen key alive or receives one message; the API starts, keeps alive,  *)
(* refreshes and closes the same stream from its own threads.              *)
(*                                                                         *)
(* Each service call is a request that may fail, then a read and write of  *)
(* the state (one step here).  The reconnect interval and the back-off     *)
(* only delay, so they are left out.  Ages stop growing at Old, the first  *)
(* that is stale.  The database fails only where its error is swallowed.   *)
(***************************************************************************)
EXTENDS Integers

CONSTANTS
    KeepaliveEvery, RotateAfter, StaleAfter, \* ages at which the owner acts
    MaxErrors, MaxAsks                       \* bounds on failures and API calls

ASSUME StreamAssumption ==
    /\ {KeepaliveEvery, RotateAfter, StaleAfter, MaxErrors, MaxAsks} \subseteq Nat
    /\ 0 < KeepaliveEvery /\ KeepaliveEvery < RotateAfter /\ RotateAfter <= StaleAfter

VARIABLES
    stream,  \* the persisted state: status, reconnect_required, listen key, ages
    link,    \* the connection: "down", "up", "broken", or "mute" without its key
    pending, \* has the exchange sent something that nobody received?
    owner,   \* the owner thread: where it is, what it saw, when it kept alive
    asking,  \* the API call at work; a close keeps the state it read at first
    errors, asks

stream_vars == <<stream, link, pending, owner, asking, errors, asks>>

Old == StaleAfter + 1
Never == -1
Older(age) == IF age = Never \/ age = Old THEN age ELSE age + 1

NoStream == [status |-> "INACTIVE", due |-> FALSE, key |-> FALSE,
             event |-> Never, alive |-> Never, started |-> Never]

StreamInit ==
    /\ stream = NoStream
    /\ link = "down" /\ pending = FALSE
    /\ owner = [at |-> "look", restart |-> FALSE, kept |-> KeepaliveEvery, ticked |-> FALSE]
    /\ asking = [op |-> "none", seen |-> NoStream]
    /\ errors = 0 /\ asks = 0

Error == errors < MaxErrors /\ errors' = errors + 1
At(place) == owner' = [owner EXCEPT !.at = place, !.ticked = @ \/ place = "look"]

-----------------------------------------------------------------------------
(* The stream service: what each call writes over the state.               *)
Degraded(s) == [s EXCEPT !.status = "DEGRADED", !.due = TRUE]
\* Bug: a refresh that fails early is not tried again.
RefreshingOnce(s) == [s EXCEPT !.status = "REFRESHING"]

Refreshing(s) == [s EXCEPT !.status = "REFRESHING", !.due = TRUE]
Started(s) == [s EXCEPT !.status = "ACTIVE", !.due = FALSE, !.key = TRUE, !.started = 0]
KeptAlive(s) ==
    IF s.key THEN [s EXCEPT !.status = "ACTIVE", !.due = FALSE, !.alive = 0] ELSE Degraded(s)
ClosedStream(s) == [s EXCEPT !.status = "CLOSED", !.due = FALSE, !.key = FALSE]
Ingested(s) == [s EXCEPT !.status = "ACTIVE", !.event = 0]
Expired(s) == [s EXCEPT !.status = "EXPIRED", !.event = 0, !.due = TRUE]

-----------------------------------------------------------------------------
(* The owner, _tick().  Each step reads the state anew, but acts on what   *)
(* the look decided.                                                       *)
\* Bug: the age of the connection is not looked at.
NoRotation(s) == FALSE

ApproachingExpiry(s) == s.started # Never /\ s.started >= RotateAfter

\* _is_stream_stale(): the last event counts first, then the keepalive.
Reference(s) ==
    IF s.event # Never THEN s.event ELSE IF s.alive # Never THEN s.alive ELSE s.started
Stale(s) == Reference(s) \in {Never, Old}

NeedsReconnect(s) == s.due \/ s.status \in {"INACTIVE", "CLOSED", "EXPIRED", "DEGRADED"}

Look ==
    /\ owner.at = "look"
    /\ IF NeedsReconnect(stream) \/ Stale(stream) \/ ApproachingExpiry(stream)
       THEN owner' = [owner EXCEPT !.at = "close",
                                   !.restart = stream.status \notin {"INACTIVE", "CLOSED"}]
       ELSE At(IF owner.kept >= KeepaliveEvery THEN "keepalive" ELSE "receive")
    /\ UNCHANGED <<stream, link, pending, asking, errors, asks>>

\* _handle_reconnect(): the old connection goes first; a refresh says so.
CloseLink ==
    /\ owner.at = "close"
    /\ link' = "down"
    /\ stream' = IF owner.restart THEN Refreshing(stream) ELSE stream
    /\ At("request")
    /\ UNCHANGED <<pending, asking, errors, asks>>

RequestKey ==
    /\ owner.at = "request"
    /\ \/ stream' = Started(stream) /\ At("connect") /\ UNCHANGED errors
       \/ stream' = Degraded(stream) /\ At("look") /\ Error
    /\ UNCHANGED <<link, pending, asking, asks>>

\* Without a listen key nothing is connected, but the attempt counts.  A failure
\* is recorded, unless the record fails as well.
Connect ==
    /\ owner.at = "connect"
    /\ \/ /\ link' = IF stream.key THEN "up" ELSE "down"
          /\ owner' = [owner EXCEPT !.at = "look", !.kept = 0, !.ticked = TRUE]
          /\ UNCHANGED <<stream, errors>>
       \/ /\ stream' \in {Degraded(stream), stream}
          /\ At("look") /\ Error /\ UNCHANGED link
    /\ UNCHANGED <<pending, asking, asks>>

Keepalive ==
    /\ owner.at = "keepalive"
    /\ \/ /\ stream' = KeptAlive(stream)
          /\ owner' = [owner EXCEPT !.at = "receive", !.kept = IF stream.key THEN 0 ELSE @]
          /\ UNCHANGED errors
       \/ stream' = Degraded(stream) /\ At("receive") /\ Error
    /\ UNCHANGED <<link, pending, asking, asks>>

\* _try_receive_message(): an event, nothing, or an error, which is recorded
\* unless the record fails as well.
Receive ==
    /\ owner.at = "receive"
    /\ At("look")
    /\ \/ /\ link \in {"up", "mute"} /\ pending
          /\ pending' = FALSE
          /\ stream' \in {Ingested(stream), Expired(stream)}
          /\ UNCHANGED <<link, errors>>
       \/ /\ link = "down" \/ (link \in {"up", "mute"} /\ ~pending)
          /\ UNCHANGED <<stream, link, pending, errors>>
       \/ /\ link = "broken" /\ link' = "down" /\ pending' = FALSE
          /\ \/ stream' = Degraded(stream) /\ UNCHANGED errors
             \/ UNCHANGED stream /\ Error
    /\ UNCHANGED <<asking, asks>>

-----------------------------------------------------------------------------
(* API calls: close_stream() alone reads the state before its request.     *)
Ask(op) ==
    /\ asking.op = "none" /\ asks < MaxAsks
    /\ asks' = asks + 1
    /\ asking' = [op |-> op, seen |-> IF op = "close" THEN stream ELSE NoStream]
    /\ stream' = IF op = "refresh" THEN Refreshing(stream) ELSE stream
    /\ UNCHANGED <<link, pending, owner, errors>>

Answer ==
    /\ asking.op # "none"
    /\ \/ /\ stream' = CASE asking.op = "keepalive" -> KeptAlive(stream)
                         [] asking.op = "close"     -> ClosedStream(asking.seen)
                         [] OTHER                   -> Started(stream)
          /\ link' = IF asking.op = "close" /\ link = "up" THEN "mute" ELSE link
          /\ UNCHANGED errors
       \/ /\ stream' = [Degraded(stream) EXCEPT !.due = (asking.op # "close")]
          /\ Error /\ UNCHANGED link
    /\ asking' = [op |-> "none", seen |-> NoStream]
    /\ UNCHANGED <<pending, owner, asks>>

-----------------------------------------------------------------------------
(* The world: an event is sent, the connection breaks, time passes, the    *)
(* process restarts with the persisted state.  A unit of time is many      *)
(* minutes: the owner completes a tick in it.                              *)
Send ==
    /\ link = "up" /\ ~pending
    /\ pending' = TRUE
    /\ UNCHANGED <<stream, link, owner, asking, errors, asks>>

Break ==
    /\ link \in {"up", "mute"} /\ Error
    /\ link' = "broken"
    /\ UNCHANGED <<stream, pending, owner, asking, asks>>

TimePasses ==
    LET aged(s) == [s EXCEPT !.event = Older(@), !.alive = Older(@), !.started = Older(@)]
    IN  /\ owner.ticked
        /\ stream' = aged(stream)
        /\ asking' = [asking EXCEPT !.seen = aged(@)]
        /\ owner' = [owner EXCEPT !.ticked = FALSE,
                                  !.kept = IF @ < KeepaliveEvery THEN @ + 1 ELSE @]
        /\ UNCHANGED <<link, pending, errors, asks>>

Restart ==
    /\ Error
    /\ link' = "down" /\ pending' = FALSE
    /\ owner' = [at |-> "look", restart |-> FALSE, kept |-> KeepaliveEvery, ticked |-> FALSE]
    /\ asking' = [op |-> "none", seen |-> NoStream]
    /\ UNCHANGED <<stream, asks>>

OwnerStep == Look \/ CloseLink \/ RequestKey \/ Connect \/ Keepalive \/ Receive
StreamNext ==
    \/ OwnerStep \/ Answer \/ Send \/ Break \/ TimePasses \/ Restart
    \/ \E op \in {"start", "keepalive", "refresh", "close"} : Ask(op)

\* The thread runs, requests end, and time passes.
StreamFairness ==
    WF_stream_vars(OwnerStep) /\ WF_stream_vars(Answer) /\ WF_stream_vars(TimePasses)
StreamSpec == StreamInit /\ [][StreamNext]_stream_vars /\ StreamFairness

-----------------------------------------------------------------------------
Ages == Never .. Old
Status == {"INACTIVE", "ACTIVE", "REFRESHING", "EXPIRED", "DEGRADED", "CLOSED"}

(* The state, the connection and the owner have their types, and a         *)
(* refreshing stream is due for a reconnect.                               *)
StreamTypeOK ==
    /\ stream.status \in Status /\ stream.due \in BOOLEAN
    /\ {stream.event, stream.alive, stream.started} \subseteq Ages
    /\ link \in {"down", "up", "broken", "mute"} /\ pending \in BOOLEAN
    /\ owner.kept \in 0 .. KeepaliveEvery
    /\ stream.status = "REFRESHING" => stream.due

(* Once the stream was started, a connection that is gone or mute is       *)
(* replaced in the end, although API calls and late events can write       *)
(* ACTIVE over a lost connection.                                          *)
LinkIsRenewed == stream.started # Never /\ link # "up" ~> link = "up"

(* What the exchange sends on a connection is received, unless the         *)
(* connection breaks.                                                      *)
EventsAreReceived == pending ~> ~pending
=============================================================================
