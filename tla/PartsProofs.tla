---------------------------- MODULE PartsProofs -----------------------------
(***************************************************************************)
(* Theorems about the components that keep files: the reverted work and    *)
(* the STOP files of AgentOrchestrator, the candles of Backfill and the    *)
(* outcomes of OutcomeCache, for any files, series, pages and threads.     *)
(* Together with TradingProofs they give the types of all of MCParts.      *)
(***************************************************************************)
EXTENDS MCParts, TradingProofs

-----------------------------------------------------------------------------
(* AgentOrchestrator.                                                      *)

\* An iteration that has begun is one of MaxIters.
IterationAllowed ==
    ctl.at \in {"ask", "work", "gate", "clean", "checkout"} => ctl.iteration < MaxIters

\* The STOP file of the interface outlives the clean-up, until the run sees it.
StopIsFiled ==
    stopAsked = "interface" /\ ctl.at \notin {"ended", "off"} => "run" \in stopFiles

\* What git clean left for git checkout is in the index.
NothingUntracked ==
    ctl.at = "checkout" /\ ctl.reverted => \A f \in Files : ~Untracked(f)

\* The next iteration begins on the tree of the index, unless the revert failed.
TreeIsIndex ==
    ctl.at \in {"top", "ask"} /\ ctl.iteration > 0 /\ ctl.reverted =>
        \A f \in Files : tree[f].work = tree[f].index

OrchestratorInv ==
    /\ OrchestratorTypeOK
    /\ IterationAllowed /\ StopIsFiled /\ NothingUntracked /\ TreeIsIndex

(* The settings are numbers.                                               *)
LEMMA OrchestratorNumbers == MaxIters \in Nat /\ MaxRetries \in Nat
BY OrchestratorAssumption

Controllers ==
    [at : OrchestratorPlaces, iteration : 0 .. MaxIters, retries : 0 .. MaxRetries,
     exit : {0, 1, -1}, verdict : {"FAIL", "STOPPED", "PASS"}, reverted : BOOLEAN]

(* A run begins before its first iteration, which is a place of a run.     *)
LEMMA FirstIsController == FirstPlace \in Controllers
<1>1. 0 \in 0 .. MaxIters /\ 0 \in 0 .. MaxRetries
  BY OrchestratorNumbers
<1>2. QED
  BY <1>1 DEF FirstPlace, Controllers, OrchestratorPlaces

(* A run begins with nothing asked, and nothing reverted.                  *)
LEMMA OrchestratorStarts == OrchestratorInit => OrchestratorInv
<1> SUFFICES ASSUME OrchestratorInit PROVE OrchestratorInv
    OBVIOUS
<1>1. tree \in [Files -> [head : Contents, index : Contents, work : Contents]]
  BY DEF OrchestratorInit, Same, Contents
<1>2. OrchestratorTypeOK
  <2>1. ctl \in Controllers /\ ctl.verdict = "FAIL"
      BY FirstIsController DEF OrchestratorInit, FirstPlace
  <2>2. QED
      BY <1>1, <2>1 DEF OrchestratorInit, OrchestratorTypeOK, Controllers
<1>3. IterationAllowed /\ StopIsFiled /\ NothingUntracked /\ TreeIsIndex
  BY DEF OrchestratorInit, IterationAllowed, StopIsFiled, NothingUntracked, TreeIsIndex,
         FirstPlace
<1>4. QED
  BY <1>2, <1>3 DEF OrchestratorInv

(* No step of main(), the gate, the worker or the user breaks the types.   *)
LEMMA OrchestratorTypes ==
    OrchestratorInv /\ [OrchestratorNext]_orchestrator_vars => OrchestratorTypeOK'
<1> SUFFICES ASSUME OrchestratorInv, [OrchestratorNext]_orchestrator_vars
             PROVE  OrchestratorTypeOK'
    OBVIOUS
<1> USE OrchestratorNumbers
    DEF OrchestratorInv, OrchestratorTypeOK, IterationAllowed, OrchestratorPlaces, Contents
<1>1. CASE CheckStopFile
  <2>1. CASE ctl.iteration = MaxIters
      BY <1>1, <2>1 DEF CheckStopFile, EndRun
  <2>2. CASE ctl.iteration # MaxIters /\ stopFiles # {}
      BY <1>1, <2>2 DEF CheckStopFile, EndRun
  <2>3. CASE ctl.iteration # MaxIters /\ stopFiles = {}
    <3>1. ctl' = [ctl EXCEPT !.at = "ask", !.retries = 0] /\ UNCHANGED stopFiles
        BY <1>1, <2>3 DEF CheckStopFile
    <3>2. 0 \in 0 .. MaxRetries
        OBVIOUS
    <3>3. ctl' \in Controllers
        BY <3>1, <3>2 DEF Controllers
    <3>4. QED
        BY <1>1, <2>3, <3>1, <3>3 DEF CheckStopFile, Controllers
  <2>4. QED
      BY <2>1, <2>2, <2>3
<1>2. CASE CallStrategist
      BY <1>2 DEF CallStrategist, EndRun, Places
<1>3. CASE EndWorker
  <2>1. PICK exit \in {0, 1, -1} :
           ctl' = IF exit = -1 /\ ctl.retries < MaxRetries
                  THEN [ctl EXCEPT !.retries = @ + 1]
                  ELSE [ctl EXCEPT !.at = "gate", !.exit = exit]
      BY <1>3 DEF EndWorker
  <2>2. CASE exit = -1 /\ ctl.retries < MaxRetries
      BY <1>3, <2>1, <2>2 DEF EndWorker
  <2>3. CASE ~(exit = -1 /\ ctl.retries < MaxRetries)
    <3>1. ctl' = [ctl EXCEPT !.at = "gate", !.exit = exit]
        BY <2>1, <2>3
    <3>2. QED
        BY <1>3, <3>1 DEF EndWorker
  <2>4. QED
      BY <2>2, <2>3
<1>4. CASE Gate
      BY <1>4 DEF Gate, EndRun
<1>5. CASE CleanTree
  <2>1. PICK left \in SUBSET {f \in Files : Untracked(f)} :
           /\ tree' = [f \in Files |-> IF Untracked(f) /\ f \notin left
                                     THEN [tree[f] EXCEPT !.work = "none"] ELSE tree[f]]
           /\ ctl' = [ctl EXCEPT !.at = "checkout", !.reverted = left = {}]
      BY <1>5 DEF CleanTree
  <2>2. tree' \in [Files -> [head : Contents, index : Contents, work : Contents]]
      BY <2>1
  <2>3. QED
      BY <1>5, <2>1, <2>2 DEF CleanTree, Kept
<1>6. CASE CheckOut
  <2>1. PICK done \in BOOLEAN :
           /\ tree' = IF done THEN [f \in Files |-> Restored(f)] ELSE tree
           /\ ctl' = [ctl EXCEPT !.at = "top", !.iteration = @ + 1,
                                 !.reverted = ctl.reverted /\ done]
      BY <1>6 DEF CheckOut
  <2>2. tree' \in [Files -> [head : Contents, index : Contents, work : Contents]]
      BY <2>1 DEF Restored
  <2>3. ctl.iteration + 1 \in 0 .. MaxIters /\ (ctl.reverted /\ done) \in BOOLEAN
      BY <1>6 DEF CheckOut
  <2>4. ctl' \in Controllers
      BY <2>1, <2>3 DEF Controllers
  <2>5. QED
      BY <1>6, <2>1, <2>2, <2>4 DEF CheckOut, Controllers
<1>7. ASSUME NEW f \in Files, Edit(f)
      PROVE  OrchestratorTypeOK'
      BY <1>7 DEF Edit
<1>8. CASE Commit
      BY <1>8 DEF Commit
<1>9. ASSUME NEW how \in {"hand", "interface"}, AskToStop(how)
      PROVE  OrchestratorTypeOK'
      BY <1>9 DEF AskToStop
<1>10. CASE FinishAsking
      BY <1>10 DEF FinishAsking
<1>11. CASE Interrupt
      BY <1>11 DEF Interrupt, Places
<1>12. CASE StartRun
      BY <1>12 DEF StartRun, FirstPlace
<1>13. CASE UNCHANGED orchestrator_vars
      BY <1>13 DEF orchestrator_vars
<1> QED
    BY <1>1, <1>2, <1>3, <1>4, <1>5, <1>6, <1>7, <1>8, <1>9, <1>10, <1>11, <1>12, <1>13
    DEF OrchestratorNext

(* No step of main(), the gate, the worker or the user breaks the rest.    *)
LEMMA OrchestratorSteps ==
    OrchestratorInv /\ [OrchestratorNext]_orchestrator_vars => OrchestratorInv'
<1> SUFFICES ASSUME OrchestratorInv, [OrchestratorNext]_orchestrator_vars
             PROVE  OrchestratorInv'
    OBVIOUS
<1>0. OrchestratorTypeOK'
  BY OrchestratorTypes
<1> DEFINE Rest == IterationAllowed /\ StopIsFiled /\ NothingUntracked /\ TreeIsIndex
<1> SUFFICES Rest'
    BY <1>0 DEF OrchestratorInv
<1> USE OrchestratorNumbers
    DEF OrchestratorInv, OrchestratorTypeOK, IterationAllowed, StopIsFiled, NothingUntracked,
        TreeIsIndex
<1>1. CASE CheckStopFile
  <2>1. \/ ctl' = [ctl EXCEPT !.at = "ended", !.verdict = "FAIL"]
        \/ ctl' = [ctl EXCEPT !.at = "ended", !.verdict = "STOPPED"]
        \/ /\ ctl' = [ctl EXCEPT !.at = "ask", !.retries = 0]
           /\ ctl.iteration # MaxIters /\ UNCHANGED stopFiles
      BY <1>1 DEF CheckStopFile, EndRun
  <2>2. ctl.at = "top" /\ UNCHANGED <<tree, stopAsked>>
      BY <1>1 DEF CheckStopFile
  <2>3. /\ ctl'.at \in {"ended", "ask"} /\ ctl'.iteration = ctl.iteration
        /\ ctl'.reverted = ctl.reverted
        /\ ctl'.at = "ask" => ctl.iteration # MaxIters /\ UNCHANGED stopFiles
      BY <2>1
  <2>4. IterationAllowed' /\ NothingUntracked' /\ StopIsFiled'
      BY <2>2, <2>3
  <2>5. TreeIsIndex'
      BY <2>2, <2>3
  <2>6. QED
      BY <2>4, <2>5
<1>2. CASE CallStrategist
      BY <1>2 DEF CallStrategist, EndRun, Places, Untracked
<1>3. CASE EndWorker
      BY <1>3 DEF EndWorker
<1>4. CASE Gate
  <2>1. \/ ctl' = [ctl EXCEPT !.at = "ended", !.verdict = "PASS"]
        \/ ctl' = [ctl EXCEPT !.at = "clean", !.reverted = TRUE]
      BY <1>4 DEF Gate, EndRun
  <2>2. ctl'.at \in {"ended", "clean"} /\ ctl'.iteration = ctl.iteration
      BY <2>1
  <2>3. ctl.at = "gate" /\ UNCHANGED <<stopFiles, stopAsked>>
      BY <1>4 DEF Gate
  <2>4. QED
      BY <2>2, <2>3
<1>5. CASE CleanTree
  <2>1. PICK left \in SUBSET {f \in Files : Untracked(f)} :
           /\ tree' = [f \in Files |-> IF Untracked(f) /\ f \notin left
                                     THEN [tree[f] EXCEPT !.work = "none"] ELSE tree[f]]
           /\ ctl' = [ctl EXCEPT !.at = "checkout", !.reverted = left = {}]
      BY <1>5 DEF CleanTree
  <2>2. ctl.at = "clean" /\ UNCHANGED stopAsked /\ ctl'.at = "checkout"
        /\ ctl'.iteration = ctl.iteration /\ ctl'.reverted = (left = {})
      BY <1>5, <2>1 DEF CleanTree
  <2>3. "run" \in stopFiles => "run" \in stopFiles'
      BY <1>5 DEF CleanTree, Kept
  <2>4. ASSUME left = {}, NEW f \in Files
        PROVE  tree'[f].index # "none" \/ tree'[f].work = "none"
      BY <2>1, <2>4 DEF Untracked
  <2>5. NothingUntracked'
      BY <2>2, <2>4 DEF Untracked
  <2>6. QED
      BY <2>2, <2>3, <2>5
<1>6. CASE CheckOut
      BY <1>6 DEF CheckOut, Restored, Untracked
<1>7. ASSUME NEW f \in Files, Edit(f)
      PROVE  Rest'
      BY <1>7 DEF Edit
<1>8. CASE Commit
      BY <1>8 DEF Commit
<1>9. ASSUME NEW how \in {"hand", "interface"}, AskToStop(how)
      PROVE  Rest'
      BY <1>9 DEF AskToStop, Untracked
<1>10. CASE FinishAsking
      BY <1>10 DEF FinishAsking, Untracked
<1>11. CASE Interrupt
      BY <1>11 DEF Interrupt, Places
<1>12. CASE StartRun
      BY <1>12 DEF StartRun, FirstPlace
<1>13. CASE UNCHANGED orchestrator_vars
      BY <1>13 DEF orchestrator_vars, Untracked
<1> QED
    BY <1>1, <1>2, <1>3, <1>4, <1>5, <1>6, <1>7, <1>8, <1>9, <1>10, <1>11, <1>12, <1>13
    DEF OrchestratorNext

(* In every state the tree, the STOP files and the place of the run agree. *)
THEOREM OrchestratorCorrect == OrchestratorSpec => []OrchestratorInv
BY OrchestratorStarts, OrchestratorSteps, PTL DEF OrchestratorSpec

(* What a failed worker left loose in the working tree never reaches the   *)
(* next iteration of the run, unless a git command of the revert failed.   *)
THEOREM RevertIsComplete == OrchestratorSpec => []NothingLeaks
<1>1. OrchestratorInv => NothingLeaks
  BY DEF OrchestratorInv, TreeIsIndex, NothingLeaks
<1>2. QED
  BY <1>1, OrchestratorCorrect, PTL

(* A run asked to stop through the interface begins no further iteration:  *)
(* its STOP file lies where git clean does not look, and main() sees it.   *)
THEOREM InterfaceStopsRun == OrchestratorSpec => InterfaceStopHalts
<1>1. OrchestratorInv /\ [OrchestratorNext]_orchestrator_vars
      => [Continues => stopAsked # "interface"]_orchestrator_vars
  <2> SUFFICES ASSUME OrchestratorInv, OrchestratorNext, Continues,
                      stopAsked = "interface"
               PROVE  FALSE
      OBVIOUS
  <2>1. ctl.at = "top" /\ ctl'.at = "ask" /\ ctl.iteration \in Nat
      BY OrchestratorNumbers DEF Continues, OrchestratorInv, OrchestratorTypeOK
  <2>2. CheckStopFile
      BY <2>1
      DEF OrchestratorInv, OrchestratorTypeOK, FirstPlace, EndRun, OrchestratorNext,
          CallStrategist, EndWorker, Gate, CleanTree, CheckOut, Edit, Commit, AskToStop,
          FinishAsking, Interrupt, StartRun, Places
  <2>3. "run" \in stopFiles
      BY <2>1 DEF OrchestratorInv, StopIsFiled
  <2>4. QED
      BY <2>1, <2>2, <2>3 DEF CheckStopFile, EndRun, OrchestratorInv, OrchestratorTypeOK
<1>2. QED
  BY <1>1, OrchestratorCorrect, PTL DEF OrchestratorSpec, InterfaceStopHalts

-----------------------------------------------------------------------------
(* Backfill.                                                               *)

\* The files of one kind of one series, by their names.
Directories == UNION {[D -> {"whole", "torn", "spoiled"}] : D \in SUBSET Names}

AnyRange == [from : Nat, to : Nat]
Fillers ==
    [at : FileKinds \union {"off", "next", "fetch", "catalog", "mark"}, range : AnyRange,
     todo : SUBSET Series, entries : SUBSET (Series \X Ranges),
     series : Series \union {CHOOSE s \in Series : TRUE}, got : Nat, asOf : Nat]

BackfillShape ==
    /\ newest \in 0 .. LastCandle
    /\ files \in [Series -> [FileKinds -> Directories]]
    /\ checkpoint \in [Series -> [from : Nat, to : Nat, asOf : Nat]]
    /\ filler \in Fillers

AtWork == filler.at \in FileKinds \union {"fetch", "catalog", "mark"}
Fetched == filler.at \in FileKinds \union {"catalog", "mark"}

\* What is asked for is a range, what is fetched ends with a candle there is, and
\* at the end of the pages nothing that there was is missing.
PagesAreWhole ==
    /\ filler.at # "off" => filler.range \in Ranges
    /\ AtWork => /\ filler.series \in Series
                 /\ filler.got + 1 >= filler.range.from
                 /\ filler.got >= filler.range.from => filler.got <= newest
    /\ Fetched => /\ filler.got >= filler.range.from
                  /\ \A candle \in filler.range.from .. filler.range.to - 1 :
                        candle <= filler.asOf => candle <= filler.got

\* The file that was just written is there and whole, or was whole once.
HasFile(kind) ==
    /\ FileName \in DOMAIN files[filler.series][kind]
    /\ files[filler.series][kind][FileName] # "torn"

WrittenSoFar ==
    /\ filler.at \in {"normalized", "catalog", "mark"} => HasFile("raw")
    /\ filler.at \in {"catalog", "mark"} => HasFile("normalized")

BackfillInv ==
    BackfillShape /\ BackfillTypeOK /\ PagesAreWhole /\ WrittenSoFar /\ CompleteIsStored

(* The bounds are numbers, and a page holds a candle at least.             *)
LEMMA BackfillNumbers ==
    LastCandle \in Nat /\ PageSize \in Nat /\ PageSize > 0
BY BackfillAssumption

(* A range begins before it ends, at one of the candles.                   *)
LEMMA RangeBounds ==
    ASSUME NEW range \in Ranges
    PROVE  /\ range.from \in 1 .. LastCandle /\ range.to \in Nat /\ range.from < range.to
           /\ range \in AnyRange
BY BackfillNumbers DEF Ranges, AnyRange

(* _write_parquet changes one file, the one it is asked to write.          *)
LEMMA PutFileChanges ==
    ASSUME BackfillShape, NEW kind \in FileKinds, NEW how \in {"whole", "torn", "spoiled"},
           filler.series \in Series, FileName \in Names, PutFile(kind, how)
    PROVE  /\ files' \in [Series -> [FileKinds -> Directories]]
           /\ \A s \in Series, k \in FileKinds :
                 s # filler.series \/ k # kind => files'[s][k] = files[s][k]
           /\ DOMAIN files'[filler.series][kind] =
                 DOMAIN files[filler.series][kind] \union {FileName}
           /\ \A name \in DOMAIN files'[filler.series][kind] :
                 files'[filler.series][kind][name] =
                    IF name = FileName THEN how ELSE files[filler.series][kind][name]
<1> DEFINE old == files[filler.series][kind]
           new == [name \in DOMAIN old \union {FileName} |->
                     IF name = FileName THEN how ELSE old[name]]
<1>1. files' = [files EXCEPT ![filler.series] = [files[filler.series] EXCEPT ![kind] = new]]
  BY DEF PutFile
<1>2. old \in Directories
  BY DEF BackfillShape
<1>3. new \in Directories
  <2>1. PICK D \in SUBSET Names : old \in [D -> {"whole", "torn", "spoiled"}]
      BY <1>2 DEF Directories
  <2>2. new \in [D \union {FileName} -> {"whole", "torn", "spoiled"}]
      BY <2>1
  <2>3. D \union {FileName} \in SUBSET Names
      OBVIOUS
  <2>4. QED
      BY <2>2, <2>3 DEF Directories
<1> HIDE DEF new
<1>4. files' \in [Series -> [FileKinds -> Directories]]
  BY <1>1, <1>3 DEF BackfillShape
<1>5. files'[filler.series][kind] = new
  BY <1>1 DEF BackfillShape
<1>6. \A s \in Series, k \in FileKinds :
         s # filler.series \/ k # kind => files'[s][k] = files[s][k]
  BY <1>1 DEF BackfillShape
<1>7. QED
  BY <1>4, <1>5, <1>6 DEF new

\* Names and contents of the files there are, as BackfillTypeOK states them.
FilesNamed ==
    \A s \in Series, kind \in FileKinds : \A name \in DOMAIN files[s][kind] :
        /\ name \in Names /\ name[1] <= name[2] /\ name[2] <= newest
        /\ files[s][kind][name] \in {"whole", "torn", "spoiled"}

\* The files hold what they held, those just written among them.
FilesKept ==
    /\ \A s \in Series, kind \in FileKinds, candle \in Nat :
          Holds(s, kind, candle) => Holds(s, kind, candle)'
    /\ \A kind \in FileKinds : HasFile(kind) =>
          /\ FileName \in DOMAIN files'[filler.series][kind]
          /\ files'[filler.series][kind][FileName] # "torn"

(* The name of a file that is to be written is one of the names.           *)
LEMMA FileIsNamed ==
    ASSUME BackfillInv, Fetched
    PROVE  /\ FileName \in Names /\ FileName = <<filler.range.from, filler.got>>
           /\ filler.range.from <= filler.got /\ filler.got <= newest
           /\ filler.series \in Series
<1>1. filler.range \in Ranges /\ filler.series \in Series
  BY DEF BackfillInv, PagesAreWhole, Fetched, AtWork, FileKinds
<1>2. filler.got \in Nat /\ newest \in 0 .. LastCandle
  BY DEF BackfillInv, BackfillShape, Fillers
<1>3. filler.range.from <= filler.got /\ filler.got <= newest
  BY DEF BackfillInv, PagesAreWhole, Fetched, AtWork, FileKinds
<1>4. QED
  BY <1>1, <1>2, <1>3, RangeBounds, BackfillNumbers DEF FileName, Names

(* A write, which may fail, keeps the names and loses no candle: it can    *)
(* only tear a file that was not there or was torn.                        *)
LEMMA WriteKeepsFiles ==
    ASSUME BackfillInv, filler.at \in FileKinds, NEW how \in {"whole", "torn", "spoiled"},
           HasFile(filler.at) => how # "torn",
           PutFile(filler.at, how), UNCHANGED newest
    PROVE  /\ files' \in [Series -> [FileKinds -> Directories]]
           /\ FilesNamed' /\ FilesKept
           /\ how # "torn" =>
                 /\ FileName \in DOMAIN files'[filler.series][filler.at]
                 /\ files'[filler.series][filler.at][FileName] # "torn"
<1> DEFINE kind == filler.at
<1>1. /\ FileName \in Names /\ FileName = <<filler.range.from, filler.got>>
      /\ filler.range.from <= filler.got /\ filler.got <= newest
      /\ filler.series \in Series
  BY FileIsNamed DEF Fetched
<1>2. /\ files' \in [Series -> [FileKinds -> Directories]]
      /\ \A s \in Series, k \in FileKinds :
            s # filler.series \/ k # kind => files'[s][k] = files[s][k]
      /\ DOMAIN files'[filler.series][kind] =
            DOMAIN files[filler.series][kind] \union {FileName}
      /\ \A name \in DOMAIN files'[filler.series][kind] :
            files'[filler.series][kind][name] =
               IF name = FileName THEN how ELSE files[filler.series][kind][name]
  BY <1>1, PutFileChanges DEF BackfillInv
<1>3. FilesNamed'
  <2> SUFFICES ASSUME NEW s \in Series, NEW k \in FileKinds, NEW name \in DOMAIN files'[s][k]
               PROVE  /\ name \in Names /\ name[1] <= name[2] /\ name[2] <= newest
                      /\ files'[s][k][name] \in {"whole", "torn", "spoiled"}
      BY DEF FilesNamed, Names
  <2>1. CASE s = filler.series /\ k = kind /\ name = FileName
      BY <1>1, <1>2, <2>1
  <2>2. CASE ~(s = filler.series /\ k = kind /\ name = FileName)
      BY <1>2, <2>2 DEF BackfillInv, BackfillTypeOK
  <2>3. QED
      BY <2>1, <2>2
<1>4. ASSUME NEW s \in Series, NEW k \in FileKinds, NEW name \in DOMAIN files[s][k],
             files[s][k][name] # "torn"
      PROVE  name \in DOMAIN files'[s][k] /\ files'[s][k][name] # "torn"
  <2>1. CASE s = filler.series /\ k = kind /\ name = FileName
      BY <1>2, <1>4, <2>1 DEF HasFile
  <2>2. CASE ~(s = filler.series /\ k = kind /\ name = FileName)
      BY <1>2, <1>4, <2>2
  <2>3. QED
      BY <2>1, <2>2
<1>5. FilesKept
  <2>1. ASSUME NEW s \in Series, NEW k \in FileKinds, NEW candle \in Nat,
               Holds(s, k, candle)
        PROVE  Holds(s, k, candle)'
      BY <1>4, <2>1 DEF Holds
  <2>2. QED
      BY <1>1, <1>4, <2>1 DEF FilesKept, HasFile
<1>6. QED
  BY <1>2, <1>3, <1>5

(* Where no file is written, all are as they were.                         *)
LEMMA SameFilesKept ==
    ASSUME BackfillInv, UNCHANGED files, newest' \in Nat, newest' >= newest
    PROVE  /\ files' \in [Series -> [FileKinds -> Directories]]
           /\ FilesNamed' /\ FilesKept
<1>1. FilesKept
  BY DEF FilesKept, HasFile, Holds
<1>2. FilesNamed'
  BY BackfillNumbers DEF BackfillInv, BackfillShape, BackfillTypeOK, FilesNamed, Names
<1>3. QED
  BY <1>1, <1>2 DEF BackfillInv, BackfillShape

(* The interrupted write of an error or a death leaves the files readable, *)
(* and what the checkpoint still has is as it was.                         *)
LEMMA TornKeepsFiles ==
    ASSUME BackfillInv, Torn, UNCHANGED newest
    PROVE  /\ files' \in [Series -> [FileKinds -> Directories]]
           /\ FilesNamed' /\ FilesKept
           /\ checkpoint' = checkpoint \/ checkpoint' = [s \in Series |-> NoMark]
           /\ catalog' \subseteq catalog
<1>1. newest' \in Nat /\ newest' >= newest
  BY BackfillNumbers DEF BackfillInv, BackfillShape
<1>2. CASE UNCHANGED files
  BY <1>1, <1>2, SameFilesKept DEF Torn
<1>3. CASE ~UNCHANGED files
  <2> DEFINE how == IF /\ FileName \in DOMAIN files[filler.series][filler.at]
                       /\ files[filler.series][filler.at][FileName] # "torn"
                    THEN "spoiled" ELSE "torn"
  <2>1. filler.at \in FileKinds /\ PutFile(filler.at, how) /\ UNCHANGED <<checkpoint, catalog>>
      BY <1>3 DEF Torn
  <2>2. HasFile(filler.at) => how # "torn"
      BY DEF HasFile
  <2> HIDE DEF how
  <2>3. how \in {"whole", "torn", "spoiled"}
      BY DEF how
  <2>4. QED
      BY <2>1, <2>2, <2>3, WriteKeepsFiles
<1>4. QED
  BY <1>2, <1>3

MarksAreRanges ==
    \A s \in Series : checkpoint[s] = NoMark \/ \E range \in Ranges :
        checkpoint[s].from = range.from /\ checkpoint[s].to = range.to

(* A checkpoint that is as it was, or was torn and is empty, has only what *)
(* is stored.                                                              *)
LEMMA MarksKept ==
    ASSUME BackfillInv, FilesKept,
           checkpoint' = checkpoint \/ checkpoint' = [s \in Series |-> NoMark]
    PROVE  /\ checkpoint' \in [Series -> [from : Nat, to : Nat, asOf : Nat]]
           /\ MarksAreRanges' /\ CompleteIsStored'
<1>1. CASE checkpoint' = checkpoint
  <2>1. MarksAreRanges'
      BY <1>1 DEF MarksAreRanges, BackfillInv, BackfillTypeOK
  <2>2. CompleteIsStored'
      BY <1>1 DEF FilesKept, BackfillInv, CompleteIsStored
  <2>3. QED
      BY <1>1, <2>1, <2>2 DEF BackfillInv, BackfillShape
<1>2. CASE checkpoint' = [s \in Series |-> NoMark]
  BY <1>2 DEF MarksAreRanges, CompleteIsStored, NoMark
<1>3. QED
  BY <1>1, <1>2

(* Nothing is asked for, fetched or marked at first.                       *)
LEMMA BackfillStarts == BackfillInit => BackfillInv
<1> SUFFICES ASSUME BackfillInit PROVE BackfillInv
    OBVIOUS
<1>1. NoFiles \in Directories /\ DOMAIN NoFiles = {}
  BY DEF NoFiles, Directories
<1>2. files \in [Series -> [FileKinds -> Directories]]
      /\ \A s \in Series, kind \in FileKinds : files[s][kind] = NoFiles
  BY <1>1 DEF BackfillInit
<1>3. checkpoint \in [Series -> [from : Nat, to : Nat, asOf : Nat]] /\ MarksAreRanges
      /\ CompleteIsStored
  BY DEF BackfillInit, NoMark, MarksAreRanges, CompleteIsStored
<1>4. filler \in Fillers /\ filler.at = "off" /\ filler.entries = {}
  BY DEF BackfillInit, Fillers, AnyRange
<1>5. BackfillShape
  BY <1>2, <1>3, <1>4, BackfillNumbers DEF BackfillInit, BackfillShape
<1>6. BackfillTypeOK
  BY <1>1, <1>2, <1>3, <1>4, <1>5
  DEF BackfillTypeOK, BackfillShape, Fillers, MarksAreRanges, BackfillInit
<1>7. PagesAreWhole /\ WrittenSoFar
  BY <1>4 DEF PagesAreWhole, WrittenSoFar, AtWork, Fetched, FileKinds
<1>8. QED
  BY <1>3, <1>5, <1>6, <1>7 DEF BackfillInv

(* What the files, the checkpoint and the process keep, together.          *)
LEMMA BackfillKept ==
    ASSUME BackfillInv, FilesKept, FilesNamed',
           files' \in [Series -> [FileKinds -> Directories]],
           checkpoint' \in [Series -> [from : Nat, to : Nat, asOf : Nat]],
           MarksAreRanges', CompleteIsStored',
           newest' \in 0 .. LastCandle, filler' \in Fillers,
           catalog' \subseteq catalog \union filler.entries,
           PagesAreWhole', WrittenSoFar'
    PROVE  BackfillInv'
<1>1. BackfillShape'
  BY DEF BackfillShape
<1>2. BackfillTypeOK'
  BY DEF BackfillInv, BackfillTypeOK, FilesNamed, MarksAreRanges, Fillers
<1>3. QED
  BY <1>1, <1>2 DEF BackfillInv

(* A step that writes nothing but the catalog keeps them if the process    *)
(* keeps its own.                                                          *)
LEMMA QuietStep ==
    ASSUME BackfillInv, UNCHANGED <<files, checkpoint>>,
           newest' \in 0 .. LastCandle, newest' >= newest,
           catalog' \subseteq catalog \union filler.entries,
           filler' \in Fillers, PagesAreWhole', WrittenSoFar'
    PROVE  BackfillInv'
<1>1. /\ files' \in [Series -> [FileKinds -> Directories]]
      /\ FilesNamed' /\ FilesKept
  BY BackfillNumbers, SameFilesKept
<1>2. /\ checkpoint' \in [Series -> [from : Nat, to : Nat, asOf : Nat]]
      /\ MarksAreRanges' /\ CompleteIsStored'
  BY <1>1, MarksKept
<1>3. QED
  BY <1>1, <1>2, BackfillKept

(* A process that goes to the next series, or is off, has the range it had *)
(* and no file in hand.                                                    *)
LEMMA FillerRests ==
    ASSUME BackfillInv, filler.at # "off",
           filler' = [filler EXCEPT !.at = "off"] \/ filler' = [filler EXCEPT !.at = "next"]
    PROVE  filler' \in Fillers /\ PagesAreWhole' /\ WrittenSoFar'
<1>1. filler \in Fillers /\ filler.range \in Ranges
  BY DEF BackfillInv, BackfillShape, PagesAreWhole
<1>2. filler' \in Fillers /\ filler'.at \in {"off", "next"} /\ filler'.range = filler.range
  BY <1>1 DEF Fillers
<1>3. QED
  BY <1>1, <1>2 DEF PagesAreWhole, WrittenSoFar, AtWork, Fetched, FileKinds

(* No step of a backfill, nor an error or a death in it, breaks these.     *)
LEMMA BackfillSteps == BackfillInv /\ [BackfillNext]_backfill_vars => BackfillInv'
<1> SUFFICES ASSUME BackfillInv, [BackfillNext]_backfill_vars
             PROVE  BackfillInv'
    OBVIOUS
<1>0. /\ newest \in Nat /\ newest \in 0 .. LastCandle /\ newest >= newest
      /\ filler \in Fillers /\ filler.got \in Nat /\ filler.asOf \in Nat
  BY BackfillNumbers DEF BackfillInv, BackfillShape, Fillers
<1>1. CASE CandleOpens
  <2>1. UNCHANGED filler /\ newest' \in 0 .. LastCandle /\ newest' >= newest
      BY <1>0, <1>1, BackfillNumbers DEF CandleOpens
  <2>2. PagesAreWhole'
      BY <1>0, <2>1, RangeBounds, BackfillNumbers
      DEF BackfillInv, PagesAreWhole, AtWork, Fetched, Fillers
  <2>3. WrittenSoFar'
      BY <1>1, <2>1 DEF CandleOpens, BackfillInv, WrittenSoFar, HasFile, FileName
  <2>4. QED
      BY <1>0, <1>1, <2>1, <2>2, <2>3, QuietStep DEF CandleOpens
<1>2. ASSUME NEW range \in Ranges, AskFor(range)
      PROVE  BackfillInv'
  <2>1. filler' = [filler EXCEPT !.at = "next", !.range = range, !.todo = Series,
                                 !.entries = catalog]
      BY <1>2 DEF AskFor
  <2>2. catalog \subseteq Series \X Ranges
      BY DEF BackfillInv, BackfillTypeOK
  <2>3. filler' \in Fillers
      BY <1>0, <2>1, <2>2, RangeBounds DEF Fillers
  <2>4. filler'.at = "next" /\ filler'.range \in Ranges
      BY <1>0, <2>1 DEF Fillers
  <2>5. PagesAreWhole' /\ WrittenSoFar'
      BY <2>3, <2>4 DEF PagesAreWhole, WrittenSoFar, AtWork, Fetched, FileKinds
  <2>6. QED
      BY <1>0, <1>2, <2>3, <2>5, QuietStep DEF AskFor
<1>3. ASSUME NEW s \in Series, NextSeries(s)
      PROVE  BackfillInv'
  <2>1. filler' = [filler EXCEPT !.todo = @ \ {s}, !.series = s,
                                 !.got = filler.range.from - 1,
                                 !.at = IF Completed(s) THEN "next" ELSE "fetch"]
      BY <1>3 DEF NextSeries
  <2>2. filler.at = "next" /\ filler.range \in Ranges
      BY <1>3 DEF NextSeries, BackfillInv, PagesAreWhole
  <2>3. filler.range.from - 1 \in Nat
      BY <2>2, RangeBounds, BackfillNumbers
  <2>4. filler' \in Fillers
      BY <1>0, <2>1, <2>3 DEF Fillers
  <2>5. /\ filler'.at \in {"next", "fetch"} /\ filler'.range = filler.range
        /\ filler'.series = s /\ filler'.got = filler.range.from - 1
      BY <1>0, <2>1 DEF Fillers
  <2>6. PagesAreWhole'
      BY <2>2, <2>3, <2>5, RangeBounds, BackfillNumbers
      DEF PagesAreWhole, AtWork, Fetched, FileKinds
  <2>7. WrittenSoFar'
      BY <2>5 DEF WrittenSoFar
  <2>8. QED
      BY <1>0, <1>3, <2>4, <2>6, <2>7, QuietStep DEF NextSeries
<1>4. CASE FetchPage
  <2> DEFINE full == filler.got + PageSize
             last == IF full <= newest THEN full
                     ELSE IF newest > filler.got THEN newest ELSE filler.got
  <2>1. /\ filler.at = "fetch" /\ UNCHANGED newest
        /\ filler' = [filler EXCEPT
                       !.got = last, !.asOf = newest,
                       !.at = IF last = full /\ last + 1 < filler.range.to THEN "fetch"
                              ELSE IF last < filler.range.from THEN "next" ELSE "raw"]
      BY <1>4 DEF FetchPage
  <2>2. last \in Nat /\ last >= filler.got /\ (last = filler.got \/ last <= newest)
        /\ (last = full \/ last >= newest)
      BY <1>0, BackfillNumbers
  <2>3. /\ filler.range \in Ranges /\ filler.series \in Series
        /\ filler.got + 1 >= filler.range.from
        /\ filler.got >= filler.range.from => filler.got <= newest
      BY <2>1 DEF BackfillInv, PagesAreWhole, AtWork
  <2> HIDE DEF last
  <2>4. filler' \in Fillers
      BY <1>0, <2>1, <2>2 DEF Fillers, FileKinds
  <2>5. /\ filler'.range = filler.range /\ filler'.series = filler.series
        /\ filler'.got = last /\ filler'.asOf = newest
        /\ \/ filler'.at = "fetch"
           \/ filler'.at = "next"
           \/ /\ filler'.at = "raw" /\ last >= filler.range.from
              /\ last = full => last + 1 >= filler.range.to
      BY <1>0, <2>1, <2>2, <2>3, RangeBounds, BackfillNumbers DEF Fillers
  <2>6. PagesAreWhole'
      BY <1>0, <2>1, <2>2, <2>3, <2>5, RangeBounds, BackfillNumbers
      DEF PagesAreWhole, AtWork, Fetched, FileKinds
  <2>7. WrittenSoFar'
      BY <2>5 DEF WrittenSoFar
  <2>8. QED
      BY <1>0, <1>4, <2>4, <2>6, <2>7, QuietStep DEF FetchPage
<1>5. CASE AddEntry
  <2>1. /\ filler.at = "catalog" /\ UNCHANGED newest
        /\ filler' = [filler EXCEPT !.entries = @ \union {<<filler.series, filler.range>>},
                                    !.at = "mark"]
      BY <1>5 DEF AddEntry
  <2>2. filler.series \in Series /\ filler.range \in Ranges
      BY <2>1 DEF BackfillInv, PagesAreWhole, AtWork
  <2>3. filler' \in Fillers
    <3>1. filler.entries \union {<<filler.series, filler.range>>} \in SUBSET (Series \X Ranges)
        BY <1>0, <2>2 DEF Fillers
    <3>2. QED
        BY <1>0, <2>1, <3>1 DEF Fillers
  <2>4. /\ filler'.at = "mark" /\ filler'.range = filler.range
        /\ filler'.series = filler.series /\ filler'.got = filler.got
        /\ filler'.asOf = filler.asOf
      BY <1>0, <2>1 DEF Fillers
  <2>5. PagesAreWhole'
      BY <2>1, <2>4 DEF BackfillInv, PagesAreWhole, AtWork, Fetched
  <2>6. WrittenSoFar'
      BY <1>5, <2>1, <2>4 DEF AddEntry, BackfillInv, WrittenSoFar, HasFile, FileName
  <2>7. QED
      BY <1>0, <1>5, <2>3, <2>5, <2>6, QuietStep DEF AddEntry
<1>6. CASE SaveCatalog
  <2>1. filler' \in Fillers /\ PagesAreWhole' /\ WrittenSoFar'
      BY <1>6, FillerRests DEF SaveCatalog
  <2>2. QED
      BY <1>0, <1>6, <2>1, QuietStep DEF SaveCatalog
<1>7. CASE Error \/ Die
  <2>1. filler' \in Fillers /\ PagesAreWhole' /\ WrittenSoFar'
      BY <1>7, FillerRests DEF Error, Die, AfterError
  <2>2. /\ files' \in [Series -> [FileKinds -> Directories]]
        /\ FilesNamed' /\ FilesKept
        /\ checkpoint' = checkpoint \/ checkpoint' = [s \in Series |-> NoMark]
        /\ catalog' \subseteq catalog
      BY <1>7, TornKeepsFiles DEF Error, Die
  <2>3. /\ checkpoint' \in [Series -> [from : Nat, to : Nat, asOf : Nat]]
        /\ MarksAreRanges' /\ CompleteIsStored'
      BY <2>2, MarksKept
  <2>4. newest' \in 0 .. LastCandle
      BY <1>0, <1>7 DEF Error, Die
  <2>5. QED
      BY <2>1, <2>2, <2>3, <2>4, BackfillKept
<1>8. ASSUME NEW kind \in FileKinds, WriteFile(kind)
      PROVE  BackfillInv'
  <2>1. /\ filler.at = kind /\ PutFile(filler.at, "whole")
        /\ UNCHANGED <<newest, checkpoint, catalog>>
        /\ filler' = [filler EXCEPT !.at = IF kind = "raw" THEN "normalized" ELSE "catalog"]
      BY <1>8 DEF WriteFile
  <2>2. /\ files' \in [Series -> [FileKinds -> Directories]]
        /\ FilesNamed' /\ FilesKept
        /\ FileName \in DOMAIN files'[filler.series][kind]
        /\ files'[filler.series][kind][FileName] # "torn"
      BY <2>1, WriteKeepsFiles
  <2>3. /\ checkpoint' \in [Series -> [from : Nat, to : Nat, asOf : Nat]]
        /\ MarksAreRanges' /\ CompleteIsStored'
      BY <2>1, <2>2, MarksKept
  <2>4. filler' \in Fillers
      BY <1>0, <2>1 DEF Fillers, FileKinds
  <2>5. /\ filler'.range = filler.range /\ filler'.series = filler.series
        /\ filler'.got = filler.got /\ filler'.asOf = filler.asOf
        /\ filler'.at = IF kind = "raw" THEN "normalized" ELSE "catalog"
      BY <1>0, <2>1 DEF Fillers
  <2>6. PagesAreWhole'
      BY <2>1, <2>5 DEF BackfillInv, PagesAreWhole, AtWork, Fetched, FileKinds
  <2>7. WrittenSoFar'
    <3>1. FileName' = FileName
        BY <2>5 DEF FileName
    <3>2. HasFile(kind)'
        BY <2>2, <2>5, <3>1 DEF HasFile
    <3>3. filler'.at = "catalog" => HasFile("raw")'
        BY <2>1, <2>2, <2>5, <3>1 DEF HasFile, FilesKept, BackfillInv, WrittenSoFar, FileKinds
    <3>4. QED
        BY <2>5, <3>2, <3>3 DEF WrittenSoFar, FileKinds
  <2>8. QED
      BY <1>0, <2>1, <2>2, <2>3, <2>4, <2>6, <2>7, BackfillKept
<1>9. CASE SaveCheckpoint
  <2>1. /\ filler.at = "mark" /\ UNCHANGED <<newest, files, catalog>>
        /\ checkpoint' = [checkpoint EXCEPT ![filler.series] =
                             [from |-> filler.range.from, to |-> filler.range.to,
                              asOf |-> filler.asOf]]
        /\ filler' = [filler EXCEPT !.at = "next"]
      BY <1>9 DEF SaveCheckpoint
  <2>2. /\ filler.series \in Series /\ filler.range \in Ranges
        /\ HasFile("raw") /\ HasFile("normalized")
        /\ FileName = <<filler.range.from, filler.got>>
      BY <2>1, FileIsNamed DEF BackfillInv, PagesAreWhole, AtWork, Fetched, WrittenSoFar
  <2>3. filler' \in Fillers /\ PagesAreWhole' /\ WrittenSoFar'
      BY <2>1, FillerRests
  <2>4. /\ files' \in [Series -> [FileKinds -> Directories]]
        /\ FilesNamed' /\ FilesKept
      BY <1>0, <2>1, SameFilesKept
  <2>5. checkpoint' \in [Series -> [from : Nat, to : Nat, asOf : Nat]] /\ MarksAreRanges'
    <3> DEFINE mark == [from |-> filler.range.from, to |-> filler.range.to,
                        asOf |-> filler.asOf]
    <3>1. mark \in [from : Nat, to : Nat, asOf : Nat]
        BY <1>0, <2>2, RangeBounds
    <3>2. mark.from = filler.range.from /\ mark.to = filler.range.to
        OBVIOUS
    <3>3. checkpoint' = [checkpoint EXCEPT ![filler.series] = mark]
        BY <2>1
    <3> HIDE DEF mark
    <3>4. checkpoint' \in [Series -> [from : Nat, to : Nat, asOf : Nat]]
        BY <3>1, <3>3 DEF BackfillInv, BackfillShape
    <3>5. MarksAreRanges'
        BY <2>2, <3>2, <3>3 DEF BackfillInv, BackfillShape, BackfillTypeOK, MarksAreRanges
    <3>6. QED
        BY <3>4, <3>5
  <2>6. ASSUME NEW s \in Series, NEW kind \in FileKinds,
               NEW candle \in checkpoint'[s].from .. checkpoint'[s].to - 1,
               candle \in 1 .. checkpoint'[s].asOf
        PROVE  Holds(s, kind, candle)'
    <3>1. CASE s # filler.series
        BY <2>1, <2>6, <3>1 DEF Holds, BackfillInv, BackfillShape, CompleteIsStored
    <3>2. CASE s = filler.series
      <4>1. checkpoint'[s] = [from |-> filler.range.from, to |-> filler.range.to,
                              asOf |-> filler.asOf]
          BY <2>1, <3>2 DEF BackfillInv, BackfillShape
      <4>2. candle \in filler.range.from .. filler.got
          BY <1>0, <2>1, <2>2, <2>6, <4>1, RangeBounds
          DEF BackfillInv, PagesAreWhole, Fetched
      <4>3. HasFile(kind)
          BY <2>2 DEF FileKinds
      <4>4. QED
          BY <2>1, <2>2, <3>2, <4>2, <4>3 DEF Holds, HasFile
    <3>3. QED
        BY <3>1, <3>2
  <2>7. CompleteIsStored'
      BY <2>6 DEF CompleteIsStored
  <2>8. QED
      BY <1>0, <2>1, <2>3, <2>4, <2>5, <2>7, BackfillKept
<1>10. CASE UNCHANGED backfill_vars
  <2>1. PagesAreWhole' /\ WrittenSoFar' /\ UNCHANGED <<newest, files, checkpoint, catalog, filler>>
      BY <1>10 DEF backfill_vars, BackfillInv, PagesAreWhole, WrittenSoFar, AtWork, Fetched,
                   HasFile, FileName
  <2>2. QED
      BY <1>0, <2>1, QuietStep
<1>11. QED
  BY <1>1, <1>2, <1>3, <1>4, <1>5, <1>6, <1>7, <1>8, <1>9, <1>10 DEF BackfillNext

(* The files, the checkpoint and the process agree in every state.         *)
THEOREM BackfillCorrect == BackfillSpec => []BackfillInv
BY BackfillStarts, BackfillSteps, PTL DEF BackfillSpec

(* Of a range that the checkpoint has, every candle that there was when it *)
(* was fetched is in files of both kinds, whatever failed or died, and     *)
(* whatever other ranges were asked for.                                   *)
THEOREM MarkedIsStored == BackfillSpec => []CompleteIsStored
<1>1. BackfillInv => CompleteIsStored
  BY DEF BackfillInv
<1>2. QED
  BY <1>1, BackfillCorrect, PTL

-----------------------------------------------------------------------------
(* OutcomeCache.                                                           *)

\* A flush has in hand what it took and has yet to write, the rest is in the files;
\* elsewhere a thread holds nothing.
HandsHeld ==
    \A t \in Appenders :
        /\ flusher[t].hand \subseteq flusher[t].took
        /\ \A o \in flusher[t].took \ flusher[t].hand : copies[o] > 0
        /\ ~Inside(t) => flusher[t].took = {}
        /\ flusher[t].took \subseteq given \ buffer
        /\ \A u \in Appenders : u # t => flusher[t].took \cap flusher[u].took = {}

\* An outcome is given and in one place, or not given and in none.
OnePlace ==
    /\ buffer \subseteq given /\ gone \subseteq given /\ buffer \cap gone = {}
    /\ \A t \in Appenders : flusher[t].hand \cap gone = {}
    /\ \A o \in Outcomes :
          \/ copies[o] = 0
          \/ /\ copies[o] = 1 /\ o \in given \ (buffer \union gone)
             /\ \A t \in Appenders : o \notin flusher[t].hand
    /\ \A o \in given : copies[o] = 0 =>
          o \in buffer \union gone \/ \E t \in Appenders : o \in flusher[t].hand

\* In the files, and not of a flush that has yet to count them.
Counted == {o \in Outcomes : copies[o] > 0 /\ \A t \in Appenders : o \notin flusher[t].took}

\* The counts are never ahead of the files, nor behind while flushes do not meet.
TotalsAgree ==
    /\ total <= Cardinality(Counted) /\ metadata <= Cardinality(InFiles)
    /\ \A t \in Appenders : flusher[t].at = "count" => flusher[t].seen <= Cardinality(Counted)
    /\ ~crossed =>
          /\ total = Cardinality(Counted)
          /\ \A t \in Appenders : flusher[t].at = "count" => flusher[t].seen = total
          /\ \A t, u \in Appenders : Inside(t) /\ Inside(u) => t = u

OutcomeInv == OutcomeTypeOK /\ HandsHeld /\ OnePlace /\ TotalsAgree

(* There are finitely many outcomes, so the counts are numbers.            *)
LEMMA OutcomesFinite ==
    /\ IsFiniteSet(Outcomes)
    /\ \A S \in SUBSET Outcomes : IsFiniteSet(S) /\ Cardinality(S) \in Nat
    /\ \A S \in SUBSET Outcomes : \A T \in SUBSET S : Cardinality(T) <= Cardinality(S)
<1>1. IsFiniteSet(Symbols) /\ PerSymbol \in Nat
  BY OutcomeAssumption
<1>2. IsFiniteSet(1 .. PerSymbol)
  BY <1>1, FS_Interval
<1>3. IsFiniteSet(Outcomes)
  BY <1>1, <1>2, FS_Product DEF Outcomes
<1>4. \A S \in SUBSET Outcomes : IsFiniteSet(S) /\ Cardinality(S) \in Nat
  BY <1>3, FS_Subset, FS_CardinalityType
<1>5. \A S \in SUBSET Outcomes : \A T \in SUBSET S : Cardinality(T) <= Cardinality(S)
  BY <1>4, FS_Subset
<1>6. QED
  BY <1>3, <1>4, <1>5

(* What is counted is in the files.                                        *)
LEMMA CountsOrdered ==
    /\ Counted \in SUBSET InFiles /\ InFiles \in SUBSET Outcomes
    /\ Cardinality(Counted) \in Nat /\ Cardinality(InFiles) \in Nat
    /\ Cardinality(Counted) <= Cardinality(InFiles)
<1>1. Counted \in SUBSET InFiles /\ InFiles \in SUBSET Outcomes
  BY DEF Counted, InFiles
<1>2. QED
  BY <1>1, OutcomesFinite

(* One thread goes on as u, and the others stay.                           *)
LEMMA FlusherGoes ==
    ASSUME OutcomeTypeOK, NEW t \in Appenders, NEW u \in Flushers,
           flusher' = [flusher EXCEPT ![t] = u]
    PROVE  /\ flusher' \in [Appenders -> Flushers] /\ flusher'[t] = u
           /\ \A x \in Appenders : x # t => flusher'[x] = flusher[x]
BY DEF OutcomeTypeOK

(* Nothing is appended at first.                                           *)
LEMMA OutcomeStarts == OutcomeInit => OutcomeInv
<1> SUFFICES ASSUME OutcomeInit PROVE OutcomeInv
    OBVIOUS
<1>1. Resting \in Flushers
  BY DEF Resting, Flushers
<1>2. OutcomeTypeOK
  <2>1. \A t \in Appenders : flusher[t].at = "idle" /\ flusher[t].hand = {}
      BY DEF OutcomeInit, Resting
  <2>2. troubles = 0 /\ copies \in [Outcomes -> Nat]
      BY DEF OutcomeInit
  <2>3. flusher \in [Appenders -> Flushers] /\ {total, metadata, troubles} \subseteq Nat
      BY <1>1 DEF OutcomeInit
  <2>4. QED
      BY <2>1, <2>2, <2>3 DEF OutcomeInit, OutcomeTypeOK
<1>3. HandsHeld /\ OnePlace
  BY DEF OutcomeInit, HandsHeld, OnePlace, Resting
<1>4. Counted = {} /\ InFiles = {}
  BY DEF OutcomeInit, Counted, InFiles
<1>5. TotalsAgree
  BY <1>4, FS_EmptySet DEF OutcomeInit, TotalsAgree, Resting, Inside
<1>6. QED
  BY <1>2, <1>3, <1>5 DEF OutcomeInv

(* Outside the flush itself a thread moves between append(), close() and   *)
(* the tests of the buffer without disturbing what is where.               *)
LEMMA OutsideMoves ==
    ASSUME OutcomeInv, NEW t \in Appenders, ~Inside(t), NEW u \in Flushers,
           u.at \notin {"write", "read", "count"}, u.took = {}, u.hand = {},
           flusher' = [flusher EXCEPT ![t] = u],
           UNCHANGED <<buffer, total, copies, given, gone, crossed>>,
           metadata' \in {metadata, total}, troubles' \in Nat
    PROVE  OutcomeInv'
<1>1. /\ flusher' \in [Appenders -> Flushers] /\ flusher'[t] = u
      /\ \A x \in Appenders : x # t => flusher'[x] = flusher[x]
  BY FlusherGoes DEF OutcomeInv
<1>2. flusher[t].took = {} /\ flusher[t].hand = {}
  BY DEF OutcomeInv, OutcomeTypeOK, HandsHeld, Inside
<1>3. \A x \in Appenders :
         flusher'[x].took = flusher[x].took /\ flusher'[x].hand = flusher[x].hand
  BY <1>1, <1>2
<1>4. OutcomeTypeOK'
  BY <1>1, <1>3 DEF OutcomeInv, OutcomeTypeOK
<1>5. HandsHeld'
  BY <1>1, <1>3 DEF OutcomeInv, HandsHeld, Inside
<1>6. OnePlace'
  BY <1>3 DEF OutcomeInv, OnePlace
<1>7. Counted' = Counted /\ InFiles' = InFiles
  BY <1>3 DEF Counted, InFiles
<1>8. TotalsAgree'
  BY <1>1, <1>7, CountsOrdered DEF OutcomeInv, OutcomeTypeOK, TotalsAgree, Inside
<1>9. QED
  BY <1>4, <1>5, <1>6, <1>8 DEF OutcomeInv

(* append(): what is appended is new, and is in the buffer alone.          *)
LEMMA AppendStep ==
    ASSUME OutcomeInv, NEW t \in Appenders, NEW new \in SUBSET Outcomes,
           AppendOutcomes(t, new)
    PROVE  OutcomeInv'
<1> DEFINE u == [flusher[t] EXCEPT !.at = "size"]
<1>1. /\ flusher[t].at = "idle" /\ new \cap given = {}
      /\ buffer' = buffer \union new /\ given' = given \union new
      /\ flusher' = [flusher EXCEPT ![t] = u]
      /\ UNCHANGED <<total, metadata, copies, gone, crossed, troubles>>
  BY DEF AppendOutcomes, Moves
<1>2. u \in Flushers /\ u.at = "size" /\ u.took = flusher[t].took /\ u.hand = flusher[t].hand
  BY DEF OutcomeInv, OutcomeTypeOK, Flushers
<1> HIDE DEF u
<1>3. /\ flusher' \in [Appenders -> Flushers] /\ flusher'[t] = u
      /\ \A x \in Appenders : x # t => flusher'[x] = flusher[x]
  BY <1>1, <1>2, FlusherGoes DEF OutcomeInv
<1>4. \A x \in Appenders :
         flusher'[x].took = flusher[x].took /\ flusher'[x].hand = flusher[x].hand
  BY <1>2, <1>3
<1>5. OutcomeTypeOK'
  BY <1>1, <1>2, <1>3, <1>4 DEF OutcomeInv, OutcomeTypeOK
<1>6. HandsHeld'
  BY <1>1, <1>2, <1>3, <1>4 DEF OutcomeInv, HandsHeld, Inside
<1>7. OnePlace'
  BY <1>1, <1>4 DEF OutcomeInv, OutcomeTypeOK, OnePlace
<1>8. Counted' = Counted /\ InFiles' = InFiles
  BY <1>1, <1>4 DEF Counted, InFiles
<1>9. TotalsAgree'
  BY <1>1, <1>2, <1>3, <1>8 DEF OutcomeInv, TotalsAgree, Inside
<1>10. QED
  BY <1>5, <1>6, <1>7, <1>9 DEF OutcomeInv

(* flush(): what is in the buffer goes to the hands of one thread.         *)
LEMMA TakeStep ==
    ASSUME OutcomeInv, NEW t \in Appenders, TakeBuffer(t), buffer # {}
    PROVE  OutcomeInv'
<1> DEFINE u == [flusher[t] EXCEPT !.at = "write", !.hand = buffer, !.took = buffer]
<1>1. /\ flusher[t].at = "take" /\ buffer' = {}
      /\ flusher' = [flusher EXCEPT ![t] = u]
      /\ crossed' = (crossed \/ \E x \in Appenders : Inside(x))
      /\ UNCHANGED <<total, metadata, copies, given, gone, troubles>>
  BY DEF TakeBuffer
<1>2. u \in Flushers /\ u.at = "write" /\ u.took = buffer /\ u.hand = buffer
  BY DEF OutcomeInv, OutcomeTypeOK, Flushers
<1> HIDE DEF u
<1>3. /\ flusher' \in [Appenders -> Flushers] /\ flusher'[t] = u
      /\ \A x \in Appenders : x # t => flusher'[x] = flusher[x]
  BY <1>1, <1>2, FlusherGoes DEF OutcomeInv
<1>4. flusher[t].took = {} /\ flusher[t].hand = {} /\ ~Inside(t)
  BY <1>1 DEF OutcomeInv, OutcomeTypeOK, HandsHeld, Inside
<1>5. OutcomeTypeOK'
  BY <1>1, <1>2, <1>3 DEF OutcomeInv, OutcomeTypeOK
<1>6. HandsHeld'
  BY <1>1, <1>2, <1>3 DEF OutcomeInv, OnePlace, HandsHeld, Inside
<1>7. OnePlace'
  BY <1>1, <1>2, <1>3, <1>4 DEF OutcomeInv, OutcomeTypeOK, OnePlace
<1>8. Counted' = Counted /\ InFiles' = InFiles
  BY <1>1, <1>2, <1>3, <1>4 DEF OutcomeInv, OutcomeTypeOK, OnePlace, Counted, InFiles
<1>9. TotalsAgree'
  BY <1>1, <1>2, <1>3, <1>8 DEF OutcomeInv, OutcomeTypeOK, TotalsAgree, Inside
<1>10. QED
  BY <1>5, <1>6, <1>7, <1>9 DEF OutcomeInv

(* _write_partition: the outcomes of a symbol go from the hands to a file. *)
LEMMA WriteStep ==
    ASSUME OutcomeInv, NEW t \in Appenders, NEW s \in Symbols, WriteSymbol(t, s)
    PROVE  OutcomeInv'
<1> DEFINE group == {o \in flusher[t].hand : o[1] = s}
           rest == flusher[t].hand \ group
           u == [flusher[t] EXCEPT !.hand = rest,
                                   !.at = IF rest = {} THEN "read" ELSE "write"]
<1>1. /\ flusher[t].at = "write"
      /\ copies' = [o \in Outcomes |-> IF o \in group THEN copies[o] + 1 ELSE copies[o]]
      /\ flusher' = [flusher EXCEPT ![t] = u]
      /\ UNCHANGED <<buffer, total, metadata, given, gone, crossed, troubles>>
  BY DEF WriteSymbol
<1>2. group \subseteq flusher[t].hand /\ rest = flusher[t].hand \ group
  OBVIOUS
<1> HIDE DEF group, rest
<1>3. /\ u \in Flushers /\ u.at = (IF rest = {} THEN "read" ELSE "write")
      /\ u.took = flusher[t].took /\ u.hand = rest
  BY <1>2 DEF OutcomeInv, OutcomeTypeOK, Flushers
<1> HIDE DEF u
<1>4. /\ flusher' \in [Appenders -> Flushers] /\ flusher'[t] = u
      /\ \A x \in Appenders : x # t => flusher'[x] = flusher[x]
  BY <1>1, <1>3, FlusherGoes DEF OutcomeInv
<1>5. \A x \in Appenders : flusher'[x].took = flusher[x].took
  BY <1>3, <1>4
<1>6. OutcomeTypeOK'
  BY <1>1, <1>3, <1>4 DEF OutcomeInv, OutcomeTypeOK
<1>7. HandsHeld'
  <2>1. \A o \in Outcomes : copies[o] \in Nat /\ copies'[o] \in Nat
      BY <1>1 DEF OutcomeInv, OutcomeTypeOK
  <2>2. \A x \in Appenders : flusher[x].took \subseteq Outcomes
      BY DEF OutcomeInv, OutcomeTypeOK, Flushers
  <2>3. \A o \in Outcomes : copies[o] > 0 \/ o \in group => copies'[o] > 0
      BY <1>1, <2>1
  <2>4. \A x \in Appenders :
           /\ flusher'[x].hand \subseteq flusher[x].hand
           /\ flusher[x].hand \ flusher'[x].hand \subseteq group
           /\ Inside(x)' = Inside(x)
      BY <1>1, <1>2, <1>3, <1>4 DEF Inside
  <2>5. QED
      BY <1>1, <1>5, <2>2, <2>3, <2>4 DEF OutcomeInv, HandsHeld
<1>8. \A o \in group : /\ copies[o] = 0 /\ o \in given \ (buffer \union gone)
                       /\ \A x \in Appenders : x # t => o \notin flusher[x].hand
  BY <1>2 DEF OutcomeInv, OnePlace, HandsHeld, OutcomeTypeOK, Flushers
<1>9. OnePlace'
  BY <1>1, <1>2, <1>3, <1>4, <1>8 DEF OutcomeInv, OutcomeTypeOK, OnePlace
<1>10. Counted' = Counted
  BY <1>1, <1>2, <1>5 DEF OutcomeInv, HandsHeld, OutcomeTypeOK, Counted
<1>11. Cardinality(InFiles) <= Cardinality(InFiles')
  <2>1. InFiles' \in SUBSET Outcomes /\ InFiles \in SUBSET InFiles'
      BY <1>1 DEF InFiles, OutcomeInv, OutcomeTypeOK
  <2>2. QED
      BY <2>1, OutcomesFinite
<1>12. Cardinality(InFiles') \in Nat
  BY OutcomesFinite DEF InFiles
<1>13. TotalsAgree'
  BY <1>1, <1>3, <1>4, <1>10, <1>11, <1>12, CountsOrdered
  DEF OutcomeInv, OutcomeTypeOK, TotalsAgree, Inside
<1>14. QED
  BY <1>6, <1>7, <1>9, <1>13 DEF OutcomeInv

(* The total is read: it may be old when it is written back.               *)
LEMMA ReadStep ==
    ASSUME OutcomeInv, NEW t \in Appenders, ReadTotal(t)
    PROVE  OutcomeInv'
<1> DEFINE u == [flusher[t] EXCEPT !.at = "count", !.seen = total]
<1>1. /\ flusher[t].at = "read" /\ flusher' = [flusher EXCEPT ![t] = u]
      /\ UNCHANGED <<buffer, total, metadata, copies, given, gone, crossed, troubles>>
  BY DEF ReadTotal
<1>2. /\ u \in Flushers /\ u.at = "count" /\ u.seen = total
      /\ u.took = flusher[t].took /\ u.hand = flusher[t].hand
  BY DEF OutcomeInv, OutcomeTypeOK, Flushers
<1> HIDE DEF u
<1>3. /\ flusher' \in [Appenders -> Flushers] /\ flusher'[t] = u
      /\ \A x \in Appenders : x # t => flusher'[x] = flusher[x]
  BY <1>1, <1>2, FlusherGoes DEF OutcomeInv
<1>4. \A x \in Appenders :
         flusher'[x].took = flusher[x].took /\ flusher'[x].hand = flusher[x].hand
  BY <1>2, <1>3
<1>5. OutcomeTypeOK'
  BY <1>1, <1>2, <1>3, <1>4 DEF OutcomeInv, OutcomeTypeOK
<1>6. HandsHeld'
  BY <1>1, <1>2, <1>3, <1>4 DEF OutcomeInv, HandsHeld, Inside
<1>7. OnePlace'
  BY <1>1, <1>4 DEF OutcomeInv, OnePlace
<1>8. Counted' = Counted /\ InFiles' = InFiles
  BY <1>1, <1>4 DEF Counted, InFiles
<1>9. TotalsAgree'
  BY <1>1, <1>2, <1>3, <1>8 DEF OutcomeInv, TotalsAgree, Inside
<1>10. QED
  BY <1>5, <1>6, <1>7, <1>9 DEF OutcomeInv

(* flush() returns from the write or the count: the thread takes nothing   *)
(* along, and stays inside append() or goes on in close().                 *)
LEMMA ReturnsEmpty ==
    ASSUME OutcomeInv, NEW t \in Appenders, FlushEnds(t)
    PROVE  \E u \in Flushers :
              /\ u.at \in {"idle", "metadata"} /\ u.took = {} /\ u.hand = {}
              /\ flusher' = [flusher EXCEPT ![t] = u]
<1> DEFINE u == IF flusher[t].closing THEN [Resting EXCEPT !.at = "metadata"] ELSE Resting
<1>1. u \in Flushers /\ u.at \in {"idle", "metadata"} /\ u.took = {} /\ u.hand = {}
  BY DEF Resting, Flushers
<1>2. flusher' = [flusher EXCEPT ![t] = u]
  BY DEF FlushEnds, OutcomeInv, OutcomeTypeOK
<1>3. QED
  BY <1>1, <1>2

(* A flush that ends, counted or failed, leaves what it wrote to be        *)
(* counted and loses what was left in its hands.                           *)
LEMMA FlushLeaves ==
    ASSUME OutcomeInv, NEW t \in Appenders, Inside(t), NEW u \in Flushers,
           u.at \in {"idle", "metadata"}, u.took = {}, u.hand = {},
           flusher' = [flusher EXCEPT ![t] = u],
           UNCHANGED <<buffer, metadata, copies, given>>,
           gone' = gone \union flusher[t].hand, total' \in Nat, troubles' \in Nat,
           crossed' \in BOOLEAN
    PROVE  /\ OutcomeTypeOK' /\ HandsHeld' /\ OnePlace'
           /\ InFiles' = InFiles
           /\ Counted' = Counted \union {o \in flusher[t].took : copies[o] > 0}
           /\ Counted \cap {o \in flusher[t].took : copies[o] > 0} = {}
           /\ flusher'[t] = u /\ \A x \in Appenders : x # t => flusher'[x] = flusher[x]
<1>1. /\ flusher' \in [Appenders -> Flushers] /\ flusher'[t] = u
      /\ \A x \in Appenders : x # t => flusher'[x] = flusher[x]
  BY FlusherGoes DEF OutcomeInv
<1>2. OutcomeTypeOK'
  BY <1>1 DEF OutcomeInv, OutcomeTypeOK, Flushers
<1>3. HandsHeld'
  BY <1>1 DEF OutcomeInv, HandsHeld, Inside
<1>4. \A x \in Appenders : x # t => flusher[x].hand \cap flusher[t].hand = {}
  BY DEF OutcomeInv, HandsHeld
<1>5. flusher[t].hand \subseteq given \ buffer
  BY DEF OutcomeInv, HandsHeld
<1>6. OnePlace'
  BY <1>1, <1>4, <1>5 DEF OutcomeInv, OutcomeTypeOK, OnePlace
<1>7. /\ Counted' = Counted \union {o \in flusher[t].took : copies[o] > 0}
      /\ Counted \cap {o \in flusher[t].took : copies[o] > 0} = {}
  <2>1. flusher[t].took \subseteq Outcomes
      BY DEF OutcomeInv, OutcomeTypeOK, Flushers
  <2>2. \A o \in Outcomes : o \in Counted' <=>
           o \in Counted \/ (o \in flusher[t].took /\ copies[o] > 0)
      BY <1>1 DEF OutcomeInv, HandsHeld, Counted
  <2>3. QED
      BY <2>1, <2>2 DEF Counted
<1>8. QED
  BY <1>1, <1>2, <1>3, <1>6, <1>7 DEF InFiles

(* The count: what the flush wrote is added to the total it read.          *)
LEMMA CountStep ==
    ASSUME OutcomeInv, NEW t \in Appenders, CountWritten(t)
    PROVE  OutcomeInv'
<1> DEFINE took == flusher[t].took
<1>1. /\ flusher[t].at = "count" /\ total' = flusher[t].seen + Cardinality(took)
      /\ FlushEnds(t) /\ UNCHANGED <<buffer, metadata, copies, given, gone, crossed, troubles>>
  BY DEF CountWritten
<1>2. PICK u \in Flushers :
         /\ u.at \in {"idle", "metadata"} /\ u.took = {} /\ u.hand = {}
         /\ flusher' = [flusher EXCEPT ![t] = u]
  BY <1>1, ReturnsEmpty
<1>3. flusher[t].hand = {} /\ Inside(t) /\ flusher[t].seen \in Nat /\ took \in SUBSET Outcomes
  BY <1>1 DEF OutcomeInv, OutcomeTypeOK, Flushers, Inside
<1>4. Cardinality(took) \in Nat /\ IsFiniteSet(took)
  BY <1>3, OutcomesFinite
<1>5. total' \in Nat /\ troubles' \in Nat /\ crossed' \in BOOLEAN
  BY <1>1, <1>3, <1>4 DEF OutcomeInv, OutcomeTypeOK
<1>6. /\ OutcomeTypeOK' /\ HandsHeld' /\ OnePlace'
      /\ InFiles' = InFiles
      /\ Counted' = Counted \union {o \in took : copies[o] > 0}
      /\ Counted \cap {o \in took : copies[o] > 0} = {}
      /\ flusher'[t] = u /\ \A x \in Appenders : x # t => flusher'[x] = flusher[x]
  BY <1>1, <1>2, <1>3, <1>5, FlushLeaves
<1>7. {o \in took : copies[o] > 0} = took
  <2> SUFFICES ASSUME NEW o \in took PROVE copies[o] > 0
      OBVIOUS
  <2>1. o \in given \ buffer /\ o \in Outcomes
      BY <1>3 DEF OutcomeInv, HandsHeld
  <2>2. QED
      BY <1>3 DEF OutcomeInv, HandsHeld
<1>8. Cardinality(Counted') = Cardinality(Counted) + Cardinality(took)
  <2>1. Counted' = Counted \union took /\ Counted \cap took = {}
      BY <1>6, <1>7
  <2>2. IsFiniteSet(Counted)
      BY OutcomesFinite, CountsOrdered
  <2>3. Cardinality(Counted \union took) =
           Cardinality(Counted) + Cardinality(took) - Cardinality(Counted \cap took)
      BY <1>4, <2>2, FS_Union
  <2>4. Cardinality(Counted) \in Nat /\ Cardinality(Counted \cap took) = 0
      BY <2>1, CountsOrdered, FS_EmptySet
  <2>5. QED
      BY <1>4, <2>1, <2>3, <2>4
<1>9. TotalsAgree'
  <2>1. \A x \in Appenders : flusher'[x].at = "count" => x # t /\ flusher[x].at = "count"
      BY <1>2, <1>6
  <2>2. Cardinality(Counted) \in Nat /\ total \in Nat /\ metadata \in Nat
      BY CountsOrdered DEF OutcomeInv, OutcomeTypeOK
  <2>3. \A x \in Appenders : flusher[x].seen \in Nat
      BY DEF OutcomeInv, OutcomeTypeOK, Flushers
  <2>4. flusher[t].seen <= Cardinality(Counted) /\ (~crossed => flusher[t].seen = total)
      BY <1>1 DEF OutcomeInv, TotalsAgree
  <2>5. total' <= Cardinality(Counted') /\ metadata' <= Cardinality(InFiles')
      BY <1>1, <1>3, <1>4, <1>6, <1>8, <2>2, <2>4 DEF OutcomeInv, TotalsAgree
  <2>6. \A x \in Appenders :
           flusher'[x].at = "count" => flusher'[x].seen <= Cardinality(Counted')
    <3> SUFFICES ASSUME NEW x \in Appenders, flusher'[x].at = "count"
                 PROVE  flusher'[x].seen <= Cardinality(Counted')
        OBVIOUS
    <3>1. x # t /\ flusher'[x].seen = flusher[x].seen
        BY <1>6, <2>1
    <3>2. flusher[x].seen <= Cardinality(Counted)
        BY <2>1 DEF OutcomeInv, TotalsAgree
    <3>3. QED
        BY <1>4, <1>8, <2>2, <2>3, <3>1, <3>2
  <2>7. ASSUME ~crossed'
        PROVE  /\ total' = Cardinality(Counted')
               /\ \A x \in Appenders : flusher'[x].at # "count"
               /\ \A x, y \in Appenders : Inside(x)' /\ Inside(y)' => x = y
    <3>1. ~crossed /\ total = Cardinality(Counted)
          /\ \A x, y \in Appenders : Inside(x) /\ Inside(y) => x = y
        BY <1>1, <2>7 DEF OutcomeInv, TotalsAgree
    <3>2. \A x \in Appenders : Inside(x)' => x # t /\ Inside(x)
        BY <1>2, <1>6 DEF Inside
    <3>3. QED
        BY <1>1, <1>3, <1>8, <2>1, <2>4, <3>1, <3>2 DEF Inside
  <2>8. QED
      BY <2>5, <2>6, <2>7 DEF TotalsAgree
<1>10. QED
  BY <1>6, <1>9 DEF OutcomeInv

(* A write that fails loses what was still in the hands of its flush, and  *)
(* nothing that other flushes took.                                        *)
LEMMA FailStep ==
    ASSUME OutcomeInv, NEW t \in Appenders, WriteFails(t)
    PROVE  OutcomeInv'
<1>1. /\ Resting \in Flushers /\ Resting.at = "idle" /\ Resting.took = {}
      /\ Resting.hand = {}
  BY DEF Resting, Flushers
<1>2. /\ Inside(t) /\ flusher' = [flusher EXCEPT ![t] = Resting]
      /\ UNCHANGED <<buffer, total, metadata, copies, given>>
      /\ gone' = gone \union flusher[t].hand /\ crossed' = TRUE
      /\ troubles' = troubles + 1
  BY DEF WriteFails, Requeued, Inside
<1>3. total' \in Nat /\ troubles' \in Nat /\ crossed' \in BOOLEAN
  BY <1>2 DEF OutcomeInv, OutcomeTypeOK
<1>4. /\ OutcomeTypeOK' /\ HandsHeld' /\ OnePlace'
      /\ InFiles' = InFiles /\ Counted \subseteq Counted'
      /\ flusher'[t] = Resting /\ \A x \in Appenders : x # t => flusher'[x] = flusher[x]
  BY <1>1, <1>2, <1>3, FlushLeaves
<1>5. Cardinality(Counted') \in Nat /\ Cardinality(Counted) <= Cardinality(Counted')
  <2>1. Counted' \in SUBSET Outcomes
      BY DEF Counted
  <2>2. QED
      BY <1>4, <2>1, OutcomesFinite
<1>6. TotalsAgree'
  <2>1. Cardinality(Counted) \in Nat /\ total \in Nat
      BY CountsOrdered DEF OutcomeInv, OutcomeTypeOK
  <2>2. \A x \in Appenders : flusher[x].seen \in Nat
      BY DEF OutcomeInv, OutcomeTypeOK, Flushers
  <2>3. \A x \in Appenders : flusher'[x].at = "count" =>
           flusher[x].at = "count" /\ flusher'[x].seen = flusher[x].seen
      BY <1>1, <1>4
  <2>4. QED
      BY <1>2, <1>4, <1>5, <2>1, <2>2, <2>3 DEF OutcomeInv, TotalsAgree
<1>7. QED
  BY <1>4, <1>6 DEF OutcomeInv

(* A new process begins with a total of nothing, on the files of the last. *)
LEMMA ProcessStep ==
    ASSUME OutcomeInv, NewProcess
    PROVE  OutcomeInv'
<1>1. /\ Resting \in Flushers /\ Resting.at = "idle" /\ Resting.took = {}
      /\ Resting.hand = {}
  BY DEF Resting, Flushers
<1>2. /\ gone' = gone \union buffer \union InHands
      /\ buffer' = {} /\ total' = 0 /\ flusher' = [x \in Appenders |-> Resting]
      /\ crossed' = TRUE /\ troubles' = troubles + 1
      /\ UNCHANGED <<metadata, copies, given>>
  BY DEF NewProcess
<1>3. \A o \in Outcomes : o \in InHands <=> \E x \in Appenders : o \in flusher[x].hand
  BY DEF InHands
<1>4. InHands \subseteq given /\ InHands \subseteq Outcomes
  BY DEF InHands, OutcomeInv, HandsHeld, OutcomeTypeOK, Flushers
<1>5. OutcomeTypeOK'
  BY <1>1, <1>2, <1>4 DEF OutcomeInv, OutcomeTypeOK
<1>6. HandsHeld'
  BY <1>1, <1>2 DEF HandsHeld
<1>7. OnePlace'
  BY <1>1, <1>2, <1>3, <1>4 DEF OutcomeInv, OutcomeTypeOK, OnePlace
<1>8. InFiles' = InFiles /\ Cardinality(Counted') \in Nat
  BY <1>2, OutcomesFinite DEF InFiles, Counted
<1>9. TotalsAgree'
  BY <1>1, <1>2, <1>8 DEF OutcomeInv, TotalsAgree
<1>10. QED
  BY <1>5, <1>6, <1>7, <1>9 DEF OutcomeInv

(* No step of append(), flush() or close(), no failure and no death breaks *)
(* these.                                                                  *)
LEMMA OutcomeSteps == OutcomeInv /\ [OutcomeNext]_outcome_vars => OutcomeInv'
<1> SUFFICES ASSUME OutcomeInv, [OutcomeNext]_outcome_vars PROVE OutcomeInv'
    OBVIOUS
<1>1. ASSUME NEW t \in Appenders, CheckThreshold(t)
      PROVE  OutcomeInv'
  <2> DEFINE place == IF Cardinality(buffer) >= FlushThreshold THEN "flush" ELSE "idle"
             u == [flusher[t] EXCEPT !.at = place]
  <2>1. /\ flusher[t].at = "size" /\ flusher' = [flusher EXCEPT ![t] = u]
        /\ UNCHANGED <<buffer, total, metadata, copies, given, gone, crossed, troubles>>
      BY <1>1 DEF CheckThreshold, Moves
  <2>2. /\ u \in Flushers /\ u.at \in {"flush", "idle"}
        /\ u.took = flusher[t].took /\ u.hand = flusher[t].hand
      BY DEF OutcomeInv, OutcomeTypeOK, Flushers
  <2> HIDE DEF u
  <2>3. ~Inside(t) /\ flusher[t].took = {} /\ flusher[t].hand = {} /\ troubles \in Nat
      BY <2>1 DEF OutcomeInv, OutcomeTypeOK, HandsHeld, Inside
  <2>4. QED
      BY <2>1, <2>2, <2>3, OutsideMoves
<1>2. ASSUME NEW t \in Appenders, CloseWriter(t)
      PROVE  OutcomeInv'
  <2> DEFINE u == [flusher[t] EXCEPT !.at = "flush", !.closing = TRUE]
  <2>1. /\ flusher[t].at = "idle" /\ flusher' = [flusher EXCEPT ![t] = u]
        /\ UNCHANGED <<buffer, total, metadata, copies, given, gone, crossed, troubles>>
      BY <1>2 DEF CloseWriter
  <2>2. /\ u \in Flushers /\ u.at = "flush"
        /\ u.took = flusher[t].took /\ u.hand = flusher[t].hand
      BY DEF OutcomeInv, OutcomeTypeOK, Flushers
  <2> HIDE DEF u
  <2>3. ~Inside(t) /\ flusher[t].took = {} /\ flusher[t].hand = {} /\ troubles \in Nat
      BY <2>1 DEF OutcomeInv, OutcomeTypeOK, HandsHeld, Inside
  <2>4. QED
      BY <2>1, <2>2, <2>3, OutsideMoves
<1>3. ASSUME NEW t \in Appenders, TestBuffer(t) \/ (TakeBuffer(t) /\ buffer = {})
      PROVE  OutcomeInv'
  <2> DEFINE u == [flusher[t] EXCEPT !.at = "take"]
  <2>1. /\ flusher[t].at \in {"flush", "take"}
        /\ FlushEnds(t) \/ flusher' = [flusher EXCEPT ![t] = u]
        /\ UNCHANGED <<total, metadata, copies, given, gone, troubles>>
        /\ UNCHANGED buffer /\ crossed' = crossed
      BY <1>3 DEF TestBuffer, TakeBuffer, Moves, OutcomeInv, OutcomeTypeOK
  <2>2. /\ u \in Flushers /\ u.at = "take"
        /\ u.took = flusher[t].took /\ u.hand = flusher[t].hand
      BY DEF OutcomeInv, OutcomeTypeOK, Flushers
  <2> HIDE DEF u
  <2>3. ~Inside(t) /\ flusher[t].took = {} /\ flusher[t].hand = {} /\ troubles \in Nat
      BY <2>1 DEF OutcomeInv, OutcomeTypeOK, HandsHeld, Inside
  <2>4. CASE FlushEnds(t)
      BY <2>1, <2>3, <2>4, ReturnsEmpty, OutsideMoves
  <2>5. CASE flusher' = [flusher EXCEPT ![t] = u]
      BY <2>1, <2>2, <2>3, <2>5, OutsideMoves
  <2>6. QED
      BY <2>1, <2>4, <2>5
<1>4. ASSUME NEW t \in Appenders, WriteMetadata(t)
      PROVE  OutcomeInv'
  <2> DEFINE u == [flusher[t] EXCEPT !.at = "idle"]
  <2>1. /\ flusher[t].at = "metadata" /\ flusher' = [flusher EXCEPT ![t] = u]
        /\ metadata' = total
        /\ UNCHANGED <<buffer, total, copies, given, gone, crossed, troubles>>
      BY <1>4 DEF WriteMetadata, Moves
  <2>2. /\ u \in Flushers /\ u.at = "idle"
        /\ u.took = flusher[t].took /\ u.hand = flusher[t].hand
      BY DEF OutcomeInv, OutcomeTypeOK, Flushers
  <2> HIDE DEF u
  <2>3. ~Inside(t) /\ flusher[t].took = {} /\ flusher[t].hand = {} /\ troubles \in Nat
      BY <2>1 DEF OutcomeInv, OutcomeTypeOK, HandsHeld, Inside
  <2>4. QED
      BY <2>1, <2>2, <2>3, OutsideMoves
<1>5. CASE UNCHANGED outcome_vars
  <2>1. UNCHANGED <<buffer, total, metadata, flusher, copies, given, gone, crossed, troubles>>
      BY <1>5 DEF outcome_vars
  <2>2. Counted' = Counted /\ InFiles' = InFiles
      BY <2>1 DEF Counted, InFiles
  <2>3. OutcomeTypeOK' /\ HandsHeld' /\ OnePlace'
      BY <2>1 DEF OutcomeInv, OutcomeTypeOK, HandsHeld, OnePlace, Inside
  <2>4. TotalsAgree'
      BY <2>1, <2>2 DEF OutcomeInv, TotalsAgree, Inside
  <2>5. QED
      BY <2>3, <2>4 DEF OutcomeInv
<1>6. QED
  BY <1>1, <1>2, <1>3, <1>4, <1>5, AppendStep, TakeStep, WriteStep, ReadStep, CountStep,
     FailStep, ProcessStep
  DEF OutcomeNext

(* In every state each outcome is in its place and the counts are not      *)
(* ahead of the files.                                                     *)
THEOREM OutcomeCorrect == OutcomeSpec => []OutcomeInv
BY OutcomeStarts, OutcomeSteps, PTL DEF OutcomeSpec

(* An outcome that was appended is stored once, waits in one place or was  *)
(* lost to a failure, whoever shares the writer; and the totals are what   *)
(* is stored between flushes that did not meet.                            *)
THEOREM StoredOnce == OutcomeSpec => []OutcomesStoredOnce
<1>1. OutcomeInv => OutcomesStoredOnce
  <2> SUFFICES ASSUME OutcomeInv PROVE OutcomesStoredOnce
      OBVIOUS
  <2>1. ASSUME NEW o \in given
        PROVE  copies[o] + One(o \in buffer) + One(o \in gone)
                  + Cardinality({t \in Appenders : o \in flusher[t].hand}) = 1
    <3> DEFINE holders == {t \in Appenders : o \in flusher[t].hand}
    <3>1. o \in Outcomes /\ copies[o] \in {0, 1}
        BY DEF OutcomeInv, OutcomeTypeOK, OnePlace
    <3>2. CASE holders = {}
      <4>1. Cardinality(holders) = 0
          BY <3>2, FS_EmptySet
      <4>2. copies[o] + One(o \in buffer) + One(o \in gone) = 1
          BY <3>1, <3>2 DEF OutcomeInv, OnePlace, One
      <4>3. QED
          BY <3>1, <4>1, <4>2 DEF One
    <3>3. CASE holders # {}
      <4>1. PICK t \in Appenders : o \in flusher[t].hand
          BY <3>3
      <4>2. holders = {t}
          BY <4>1 DEF OutcomeInv, HandsHeld
      <4>3. Cardinality(holders) = 1
          BY <4>2, FS_Singleton
      <4>4. copies[o] = 0 /\ o \notin buffer /\ o \notin gone
          BY <3>1, <4>1 DEF OutcomeInv, HandsHeld, OnePlace
      <4>5. QED
          BY <4>3, <4>4 DEF One
    <3>4. QED
        BY <3>2, <3>3
  <2>2. total <= Cardinality(InFiles) /\ metadata <= Cardinality(InFiles)
      BY CountsOrdered DEF OutcomeInv, OutcomeTypeOK, TotalsAgree
  <2>3. ASSUME ~crossed, \A t \in Appenders : ~Inside(t)
        PROVE  total = Cardinality(InFiles)
    <3>1. Counted = InFiles
        BY <2>3 DEF OutcomeInv, HandsHeld, Counted, InFiles
    <3>2. QED
        BY <2>3, <3>1 DEF OutcomeInv, TotalsAgree
  <2>4. QED
      BY <2>1, <2>2, <2>3 DEF OutcomesStoredOnce
<1>2. QED
  BY <1>1, OutcomeCorrect, PTL

-----------------------------------------------------------------------------
(* The six parts together, as one run checks them, for any threads,        *)
(* evaluators and traders.                                                 *)
THEOREM PartsTypeCorrect == PartsSpec => []TypeOK
<1> DEFINE Inv == /\ BreakerTypeOK /\ GatesTypeOK /\ PaperTypeOK
                  /\ OrchestratorInv /\ BackfillInv /\ OutcomeInv
<1>1. PartsInit => Inv
  BY BreakerTypeStarts, GatesTypeStarts, PaperTypeStarts, OrchestratorStarts,
     BackfillStarts, OutcomeStarts DEF PartsInit
<1>2. Inv /\ [PartsNext]_<<breaker_vars, gates_vars, paper_vars, orchestrator_vars,
                           backfill_vars, outcome_vars, part>> => Inv'
  BY BreakerTypeStep, GatesTypeStep, PaperTypeStep, OrchestratorSteps,
     BackfillSteps, OutcomeSteps DEF PartsNext
<1>3. Inv => TypeOK
  BY DEF TypeOK, OrchestratorInv, BackfillInv, OutcomeInv
<1>4. QED
  BY <1>1, <1>2, <1>3, PTL DEF PartsSpec
=============================================================================
