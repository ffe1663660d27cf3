---------------------------- MODULE OutcomeCache ----------------------------
(***************************************************************************)
(* alphaforge/outcome_cache/writer.py: a buffer of trade outcomes that is  *)
(* flushed to one file per symbol when it is full and when the writer is   *)
(* closed.  The buffer is changed under a lock; its size is looked at, the *)
(* files are written and the total is counted outside it.  Threads share   *)
(* the writer ("Thread-safe", line 14), writes may fail, and a process may *)
(* die and be followed by one with a writer of its own on the same files,  *)
(* whose names never collide.                                              *)
(***************************************************************************)
EXTENDS Integers, FiniteSets

CONSTANTS
    Appenders,                         \* threads
    Symbols, PerSymbol,                \* outcomes: PerSymbol of each symbol
    FlushThreshold,
    MaxTroubles                        \* bound: failed writes and deaths

ASSUME OutcomeAssumption ==
    IsFiniteSet(Symbols) /\ {PerSymbol, FlushThreshold, MaxTroubles} \subseteq Nat

VARIABLES
    buffer,   \* _buffer; _buffer_size is its size
    total,    \* _total_written
    metadata, \* total_records in _metadata.json
    flusher,  \* per thread: where it is, what it took and has left to write
    copies,   \* in how many files each outcome is
    given, gone,  \* history: outcomes appended, and lost
    crossed,      \* history: did flushes overlap, or did one end early?
    troubles

outcome_vars == <<buffer, total, metadata, flusher, copies, given, gone, crossed, troubles>>

Outcomes == Symbols \X (1 .. PerSymbol)
Resting == [at |-> "idle", closing |-> FALSE, took |-> {}, hand |-> {}, seen |-> 0]
Inside(t) == flusher[t].at \in {"write", "read", "count"}
InHands == UNION {flusher[t].hand : t \in Appenders}

OutcomeInit ==
    /\ buffer = {} /\ total = 0 /\ metadata = 0
    /\ flusher = [t \in Appenders |-> Resting]
    /\ copies = [o \in Outcomes |-> 0]
    /\ given = {} /\ gone = {} /\ crossed = FALSE /\ troubles = 0

Moves(t, place) == flusher' = [flusher EXCEPT ![t].at = place]
\* flush() returns: close() goes on to the metadata, append() returns.
FlushEnds(t) ==
    flusher' = [flusher EXCEPT ![t] = IF @.closing THEN [Resting EXCEPT !.at = "metadata"]
                                      ELSE Resting]

-----------------------------------------------------------------------------
(* append(), close() and flush().  A closed writer still takes outcomes.   *)
AppendOutcomes(t, new) ==
    /\ flusher[t].at = "idle" /\ new # {} /\ new \intersect given = {}
    /\ buffer' = buffer \union new /\ given' = given \union new
    /\ Moves(t, "size")
    /\ UNCHANGED <<total, metadata, copies, gone, crossed, troubles>>

CheckThreshold(t) ==
    /\ flusher[t].at = "size"
    /\ Moves(t, IF Cardinality(buffer) >= FlushThreshold THEN "flush" ELSE "idle")
    /\ UNCHANGED <<buffer, total, metadata, copies, given, gone, crossed, troubles>>

CloseWriter(t) ==
    /\ flusher[t].at = "idle"
    /\ flusher' = [flusher EXCEPT ![t].at = "flush", ![t].closing = TRUE]
    /\ UNCHANGED <<buffer, total, metadata, copies, given, gone, crossed, troubles>>

\* The first test is made without the lock, so the buffer is tested again.
TestBuffer(t) ==
    /\ flusher[t].at = "flush"
    /\ IF buffer = {} THEN FlushEnds(t) ELSE Moves(t, "take")
    /\ UNCHANGED <<buffer, total, metadata, copies, given, gone, crossed, troubles>>

TakeBuffer(t) ==
    /\ flusher[t].at = "take"
    /\ buffer' = {}
    /\ IF buffer = {} THEN FlushEnds(t)
       ELSE flusher' = [flusher EXCEPT ![t].at = "write", ![t].hand = buffer,
                                       ![t].took = buffer]
    /\ crossed' = (crossed \/ (buffer # {} /\ \E u \in Appenders : Inside(u)))
    /\ UNCHANGED <<total, metadata, copies, given, gone, troubles>>

WriteSymbol(t, s) ==
    LET group == {o \in flusher[t].hand : o[1] = s}
        rest == flusher[t].hand \ group
    IN  /\ flusher[t].at = "write" /\ group # {}
        /\ copies' = [o \in Outcomes |-> IF o \in group THEN copies[o] + 1 ELSE copies[o]]
        /\ flusher' = [flusher EXCEPT ![t].hand = rest,
                                      ![t].at = IF rest = {} THEN "read" ELSE "write"]
        /\ UNCHANGED <<buffer, total, metadata, given, gone, crossed, troubles>>

\* The total is incremented without the lock.
ReadTotal(t) ==
    /\ flusher[t].at = "read"
    /\ flusher' = [flusher EXCEPT ![t].at = "count", ![t].seen = total]
    /\ UNCHANGED <<buffer, total, metadata, copies, given, gone, crossed, troubles>>

CountWritten(t) ==
    /\ flusher[t].at = "count"
    /\ total' = flusher[t].seen + Cardinality(flusher[t].took)
    /\ FlushEnds(t)
    /\ UNCHANGED <<buffer, metadata, copies, given, gone, crossed, troubles>>

WriteMetadata(t) ==
    /\ flusher[t].at = "metadata"
    /\ metadata' = total
    /\ Moves(t, "idle")
    /\ UNCHANGED <<buffer, total, copies, given, gone, crossed, troubles>>

-----------------------------------------------------------------------------
(* Failures.                                                               *)
\* Bug: a flush that fails puts back all that it took.
RequeueAll(t) == flusher[t].took

\* What a failed flush puts back.
Requeued(t) == {}

WriteFails(t) ==
    /\ flusher[t].at = "write" /\ troubles < MaxTroubles
    /\ buffer' = buffer \union Requeued(t)
    /\ gone' = gone \union (flusher[t].hand \ Requeued(t))
    /\ flusher' = [flusher EXCEPT ![t] = Resting]
    /\ crossed' = TRUE /\ troubles' = troubles + 1
    /\ UNCHANGED <<total, metadata, copies, given>>

\* The process dies, and the next one begins with a new writer.
NewProcess ==
    /\ troubles < MaxTroubles
    /\ gone' = gone \union buffer \union InHands
    /\ buffer' = {} /\ total' = 0
    /\ flusher' = [t \in Appenders |-> Resting]
    /\ crossed' = TRUE /\ troubles' = troubles + 1
    /\ UNCHANGED <<metadata, copies, given>>

OutcomeNext ==
    \/ NewProcess
    \/ \E t \in Appenders :
          \/ \E new \in SUBSET Outcomes : AppendOutcomes(t, new)
          \/ \E s \in Symbols : WriteSymbol(t, s)
          \/ CheckThreshold(t) \/ CloseWriter(t) \/ TestBuffer(t) \/ TakeBuffer(t)
          \/ ReadTotal(t) \/ CountWritten(t) \/ WriteMetadata(t) \/ WriteFails(t)

OutcomeSpec == OutcomeInit /\ [][OutcomeNext]_outcome_vars

-----------------------------------------------------------------------------
Flushers ==
    [at : {"idle", "size", "flush", "take", "write", "read", "count", "metadata"},
     closing : BOOLEAN, took : SUBSET Outcomes, hand : SUBSET Outcomes, seen : Nat]

(* Outcomes, places and counts have their types.                           *)
OutcomeTypeOK ==
    /\ buffer \union given \union gone \subseteq Outcomes
    /\ copies \in [Outcomes -> Nat] /\ flusher \in [Appenders -> Flushers]
    /\ \A t \in Appenders : flusher[t].at = "write" <=> flusher[t].hand # {}
    /\ {total, metadata, troubles} \subseteq Nat /\ crossed \in BOOLEAN

InFiles == {o \in Outcomes : copies[o] > 0}
One(b) == IF b THEN 1 ELSE 0

(* "Thread-safe" (writer.py:14): every outcome appended is in one place,   *)
(* the buffer, the hands of one flush or one file, or a failed write or a  *)
(* death has lost it, although sizes are tested without the lock.  The     *)
(* totals, which are counted without it, never exceed what is stored, and  *)
(* say what is stored between flushes that did not overlap, fail or die.   *)
OutcomesStoredOnce ==
    /\ \A o \in given :
          copies[o] + One(o \in buffer) + One(o \in gone)
             + Cardinality({t \in Appenders : o \in flusher[t].hand}) = 1
    /\ total <= Cardinality(InFiles) /\ metadata <= Cardinality(InFiles)
    /\ ~crossed /\ (\A t \in Appenders : ~Inside(t)) => total = Cardinality(InFiles)
=============================================================================
