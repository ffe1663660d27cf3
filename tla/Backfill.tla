------------------------------ MODULE Backfill ------------------------------
(***************************************************************************)
(* lib/market_data: the backfill of candles with its files, its catalog    *)
(* and its checkpoint.  A process is asked for a range of some series (a   *)
(* symbol and an interval); it skips the series whose range the checkpoint *)
(* has, fetches the others page by page, writes two files for each, and    *)
(* saves the checkpoint after each and the catalog at the end.  Requests   *)
(* and writes may fail and the process may die in any of them; the files   *)
(* are written in place.                                                   *)
(*                                                                         *)
(* The candles of a series are numbered from 1, and newest is the last one *)
(* that exists.  Left out: funding rates, whose failure is ignored, the    *)
(* rate limiter, and the cache of a process that is asked twice.           *)
(***************************************************************************)
EXTENDS Integers

CONSTANTS
    Series,
    PageSize,              \* candles in a full page
    LastCandle,            \* bounds
    MaxBackfills, MaxBreaks

ASSUME BackfillAssumption ==
    /\ PageSize \in Nat \ {0}
    /\ {LastCandle, MaxBackfills, MaxBreaks} \subseteq Nat

VARIABLES
    newest,
    files,       \* per series and kind, what files there are under which names
    checkpoint,  \* on disk: the range of each series that is complete
    catalog,     \* on disk: the ranges that were ingested
    filler,      \* the process: where it is, the range, what it has fetched
    backfills, breaks

backfill_vars == <<newest, files, checkpoint, catalog, filler, backfills, breaks>>

FileKinds == {"raw", "normalized"}
Ranges == {range \in [from : 1 .. LastCandle, to : 2 .. LastCandle + 1] : range.from < range.to}
\* What the checkpoint has of a series: the range, and newest when it was fetched.
NoMark == [from |-> 0, to |-> 0, asOf |-> 0]
\* A file is "whole", "torn" by a write that failed, or "spoiled" by one that failed
\* over a whole file.
NoFiles == [name \in {} |-> "whole"]

BackfillInit ==
    /\ newest = 0
    /\ files = [s \in Series |-> [kind \in FileKinds |-> NoFiles]]
    /\ checkpoint = [s \in Series |-> NoMark]
    /\ catalog = {}
    /\ filler = [at |-> "off", range |-> [from |-> 1, to |-> 2], todo |-> {}, entries |-> {},
                 series |-> CHOOSE s \in Series : TRUE, got |-> 0, asOf |-> 0]
    /\ backfills = 0 /\ breaks = 0

\* A candle opens at the exchange.
CandleOpens ==
    /\ newest < LastCandle
    /\ newest' = newest + 1
    /\ UNCHANGED <<files, checkpoint, catalog, filler, backfills, breaks>>

-----------------------------------------------------------------------------
(* backfill() and _backfill_one().                                         *)
\* Every backfill is asked of a process of its own, which loads the catalog.
AskFor(range) ==
    /\ filler.at = "off" /\ backfills < MaxBackfills
    /\ backfills' = backfills + 1
    /\ filler' = [filler EXCEPT !.at = "next", !.range = range, !.todo = Series,
                                !.entries = catalog]
    /\ UNCHANGED <<newest, files, checkpoint, catalog, breaks>>

\* The checkpoint has one range per series, and it covers the one asked for.
Completed(s) ==
    checkpoint[s].from \in 1 .. filler.range.from /\ checkpoint[s].to >= filler.range.to

NextSeries(s) ==
    /\ filler.at = "next" /\ s \in filler.todo
    /\ filler' = [filler EXCEPT !.todo = @ \ {s}, !.series = s,
                                !.got = filler.range.from - 1,
                                !.at = IF Completed(s) THEN "next" ELSE "fetch"]
    /\ UNCHANGED <<newest, files, checkpoint, catalog, backfills, breaks>>

\* The next page, which ends anywhere, and with it the loop if the range is
\* reached or the page is not full.  Nothing fetched, nothing written.
FetchPage ==
    LET full == filler.got + PageSize
        last == IF full <= newest THEN full
                ELSE IF newest > filler.got THEN newest ELSE filler.got
    IN  /\ filler.at = "fetch"
        /\ filler' = [filler EXCEPT
                         !.got = last, !.asOf = newest,
                         !.at = IF last = full /\ last + 1 < filler.range.to THEN "fetch"
                                ELSE IF last < filler.range.from THEN "next" ELSE "raw"]
        /\ UNCHANGED <<newest, files, checkpoint, catalog, backfills, breaks>>

\* A file is named after its first and its last candle.
FileName == <<filler.range.from, filler.got>>
PutFile(kind, how) ==
    files' = [files EXCEPT ![filler.series][kind] =
                 [name \in DOMAIN @ \union {FileName} |-> IF name = FileName THEN how
                                                         ELSE @[name]]]

WriteFile(kind) ==
    /\ filler.at = kind
    /\ PutFile(kind, "whole")
    /\ filler' = [filler EXCEPT !.at = IF kind = "raw" THEN "normalized" ELSE "catalog"]
    /\ UNCHANGED <<newest, checkpoint, catalog, backfills, breaks>>

AddEntry ==
    /\ filler.at = "catalog"
    /\ filler' = [filler EXCEPT !.entries = @ \union {<<filler.series, filler.range>>},
                                !.at = "mark"]
    /\ UNCHANGED <<newest, files, checkpoint, catalog, backfills, breaks>>

\* The entry of a series is replaced: an earlier range is forgotten.
SaveCheckpoint ==
    /\ filler.at = "mark"
    /\ checkpoint' = [checkpoint EXCEPT ![filler.series] =
                         [from |-> filler.range.from, to |-> filler.range.to,
                          asOf |-> filler.asOf]]
    /\ filler' = [filler EXCEPT !.at = "next"]
    /\ UNCHANGED <<newest, files, catalog, backfills, breaks>>

SaveCatalog ==
    /\ filler.at = "next" /\ filler.todo = {}
    /\ catalog' = filler.entries
    /\ filler' = [filler EXCEPT !.at = "off"]
    /\ UNCHANGED <<newest, files, checkpoint, backfills, breaks>>

-----------------------------------------------------------------------------
(* Errors and deaths.                                                      *)
\* What was being written is as it was, or torn: a torn checkpoint or catalog is
\* loaded as an empty one.
Torn ==
    \/ UNCHANGED <<files, checkpoint, catalog>>
    \/ /\ filler.at \in FileKinds
       /\ PutFile(filler.at,
               IF /\ FileName \in DOMAIN files[filler.series][filler.at]
                  /\ files[filler.series][filler.at][FileName] # "torn"
               THEN "spoiled" ELSE "torn")
       /\ UNCHANGED <<checkpoint, catalog>>
    \/ /\ filler.at = "mark"
       /\ checkpoint' = [s \in Series |-> NoMark]
       /\ UNCHANGED <<files, catalog>>
    \/ /\ filler.at = "next" /\ filler.todo = {}
       /\ catalog' = {}
       /\ UNCHANGED <<files, checkpoint>>

\* Bug: an error in a page ends the loop, and what was fetched is kept.
KeepsPages ==
    IF filler.at = "fetch" /\ filler.got >= filler.range.from THEN "raw" ELSE "next"

\* An error in one series leaves it for the next one.
AfterError == "next"

Error ==
    /\ breaks < MaxBreaks
    /\ filler.at \notin {"off", "next"}
    /\ breaks' = breaks + 1
    /\ Torn
    /\ filler' = [filler EXCEPT !.at = AfterError]
    /\ UNCHANGED <<newest, backfills>>

Die ==
    /\ breaks < MaxBreaks
    /\ filler.at # "off"
    /\ breaks' = breaks + 1
    /\ Torn
    /\ filler' = [filler EXCEPT !.at = "off"]
    /\ UNCHANGED <<newest, backfills>>

-----------------------------------------------------------------------------
BackfillNext ==
    \/ CandleOpens \/ (\E range \in Ranges : AskFor(range)) \/ (\E s \in Series : NextSeries(s))
    \/ FetchPage \/ (\E kind \in FileKinds : WriteFile(kind)) \/ AddEntry
    \/ SaveCheckpoint \/ SaveCatalog \/ Error \/ Die

BackfillSpec == BackfillInit /\ [][BackfillNext]_backfill_vars

-----------------------------------------------------------------------------
Names == (1 .. LastCandle) \X (0 .. LastCandle)

(* Ranges, files and candles have their types, and no file is empty.       *)
BackfillTypeOK ==
    /\ newest \in 0 .. LastCandle
    /\ \A s \in Series, kind \in FileKinds : \A name \in DOMAIN files[s][kind] :
          /\ name \in Names /\ name[1] <= name[2] /\ name[2] <= newest
          /\ files[s][kind][name] \in {"whole", "torn", "spoiled"}
    /\ \A s \in Series : checkpoint[s] = NoMark \/ \E range \in Ranges :
          checkpoint[s].from = range.from /\ checkpoint[s].to = range.to
    /\ catalog \union filler.entries \subseteq Series \X Ranges
    /\ filler.at \in FileKinds \union {"off", "next", "fetch", "catalog", "mark"}

Holds(s, kind, candle) ==
    \E name \in DOMAIN files[s][kind] :
        candle \in name[1] .. name[2] /\ files[s][kind][name] # "torn"

(* "which (symbol, interval, time_range) combinations have been completed" *)
(* (checkpoint.py:5): of a range that the checkpoint has, all candles that *)
(* there were when it was fetched are in files of both kinds, whatever     *)
(* failed or died before, and whatever other ranges were asked for.  (A    *)
(* write that fails may spoil a file of a completed range: it is named     *)
(* after its candles, not after the range.)                                *)
CompleteIsStored ==
    \A s \in Series, kind \in FileKinds :
        \A candle \in checkpoint[s].from .. checkpoint[s].to - 1 :
            candle \in 1 .. checkpoint[s].asOf => Holds(s, kind, candle)
=============================================================================
