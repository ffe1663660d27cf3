-------------------------- MODULE AgentOrchestrator --------------------------
(***************************************************************************)
(* tools/agent_orchestrator: a strategist names a task, a worker edits the *)
(* repository, a gate judges the result, and a failed result is reverted.  *)
(* A run ends with a PASS, after MaxIters failures, or when it finds a     *)
(* STOP file, which the user or the web interface may write at any time.   *)
(*                                                                         *)
(* A file has a content in HEAD, in the index and in the working tree;     *)
(* "none" means that it is not there.  What the strategist asks for and    *)
(* what the checks of the gate find are free choices.  Runs follow each    *)
(* other; only the worker edits the repository, and it adds no STOP file.  *)
(***************************************************************************)
EXTENDS Integers

CONSTANTS
    Files,                         \* outside this directory, not ignored by git
    MaxIters, MaxRetries,          \* settings
    MaxRuns, MaxStops              \* bounds

ASSUME OrchestratorAssumption ==
    {MaxIters, MaxRetries, MaxRuns, MaxStops} \subseteq Nat

VARIABLES
    tree,       \* per file: its content in HEAD, in the index, in the working tree
    stopFiles,  \* where STOP files lie: "repo", "tools", "run"
    ctl,        \* the controller: where it is, iteration, retries, exit code, verdict
    stopAsked,  \* history: how this run was asked to stop while it was at work
    asking,     \* a stop request of the interface has written its first file
    starts, asks

orchestrator_vars == <<tree, stopFiles, ctl, stopAsked, starts, asking, asks>>

Contents == {"none", "base", "edit"}
Same(content) == [head |-> content, index |-> content, work |-> content]
FirstPlace == [at |-> "top", iteration |-> 0, retries |-> 0, exit |-> 0, verdict |-> "FAIL",
               reverted |-> TRUE]

OrchestratorInit ==
    /\ tree \in [Files -> {Same("base"), Same("none")}]
    /\ stopFiles = {} /\ stopAsked = "no"
    /\ ctl = FirstPlace
    /\ starts = 1 /\ asking = FALSE /\ asks = 0

Places(place) == ctl' = [ctl EXCEPT !.at = place]
EndRun(verdict) == ctl' = [ctl EXCEPT !.at = "ended", !.verdict = verdict]

-----------------------------------------------------------------------------
(* main(): the iterations.                                                 *)
\* _check_stop_file(): the first STOP file found is deleted and ends the run.
FirstStop ==
    CHOOSE place \in stopFiles :
        /\ "repo" \in stopFiles => place = "repo"
        /\ {"repo", "tools"} \cap stopFiles = {"tools"} => place = "tools"

CheckStopFile ==
    /\ ctl.at = "top"
    /\ IF ctl.iteration = MaxIters THEN EndRun("FAIL") /\ UNCHANGED stopFiles
       ELSE IF stopFiles # {}
       THEN EndRun("STOPPED") /\ stopFiles' = stopFiles \ {FirstStop}
       ELSE ctl' = [ctl EXCEPT !.at = "ask", !.retries = 0] /\ UNCHANGED stopFiles
    /\ UNCHANGED <<tree, stopAsked, starts, asking, asks>>

\* A strategist that cannot be reached ends the run.
CallStrategist ==
    /\ ctl.at = "ask"
    /\ Places("work") \/ EndRun("FAIL")
    /\ UNCHANGED <<tree, stopFiles, stopAsked, starts, asking, asks>>

\* The worker ends, or is killed, and may be run again on what it left.
EndWorker ==
    /\ ctl.at = "work"
    /\ \E exit \in {0, 1, -1} :
          ctl' = IF exit = -1 /\ ctl.retries < MaxRetries
                 THEN [ctl EXCEPT !.retries = @ + 1]
                 ELSE [ctl EXCEPT !.at = "gate", !.exit = exit]
    /\ UNCHANGED <<tree, stopFiles, stopAsked, starts, asking, asks>>

-----------------------------------------------------------------------------
(* The gate and the revert.                                                *)
\* run_gate() passes no worker that failed.  A PASS ends the run; a FAIL is
\* reverted.
Gate ==
    /\ ctl.at = "gate"
    /\ \/ ctl.exit = 0 /\ EndRun("PASS")
       \/ ctl' = [ctl EXCEPT !.at = "clean", !.reverted = TRUE]
    /\ UNCHANGED <<tree, stopFiles, stopAsked, starts, asking, asks>>

\* Bug: the directory of the orchestrator is cleaned as well.
KeptNowhere == {}

\* git clean -fd keeps the directory of the orchestrator, with its runs.
Kept == {"tools", "run"}

\* In the working tree, but not in the index.
Untracked(f) == tree[f].index = "none" /\ tree[f].work # "none"

\* It may fail and leave some of the files; the revert goes on all the same.
CleanTree ==
    /\ ctl.at = "clean"
    /\ \E left \in SUBSET {f \in Files : Untracked(f)} :
          /\ tree' = [f \in Files |-> IF Untracked(f) /\ f \notin left
                                    THEN [tree[f] EXCEPT !.work = "none"] ELSE tree[f]]
          /\ ctl' = [ctl EXCEPT !.at = "checkout", !.reverted = left = {}]
    /\ stopFiles' \in {stopFiles \intersect Kept, stopFiles}
    /\ UNCHANGED <<stopAsked, starts, asking, asks>>

\* Bug: a worker that ended well is not reverted.
RestoredIfFailed(f) ==
    IF ctl.exit # 0 /\ tree[f].index # "none" THEN [tree[f] EXCEPT !.work = tree[f].index]
    ELSE tree[f]

\* git checkout -- . writes what the index has over the working tree.
Restored(f) ==
    IF tree[f].index # "none" THEN [tree[f] EXCEPT !.work = tree[f].index] ELSE tree[f]

\* If it fails, git restore does the same or fails as well.
CheckOut ==
    /\ ctl.at = "checkout"
    /\ \E done \in BOOLEAN :
          /\ tree' = IF done THEN [f \in Files |-> Restored(f)] ELSE tree
          /\ ctl' = [ctl EXCEPT !.at = "top", !.iteration = @ + 1,
                                !.reverted = ctl.reverted /\ done]
    /\ UNCHANGED <<stopFiles, stopAsked, starts, asking, asks>>

-----------------------------------------------------------------------------
(* The worker, the user and the process.                                   *)
Edit(f) ==
    /\ ctl.at = "work"
    /\ \/ \E content \in {"edit", "none"} : tree' = [tree EXCEPT ![f].work = content]
       \/ tree' = [tree EXCEPT ![f].index = tree[f].work]
    /\ UNCHANGED <<stopFiles, ctl, stopAsked, starts, asking, asks>>

Commit ==
    /\ ctl.at = "work"
    /\ tree' = [f \in Files |-> [tree[f] EXCEPT !.head = tree[f].index]]
    /\ UNCHANGED <<stopFiles, ctl, stopAsked, starts, asking, asks>>

\* By hand, or with the stop request of the interface, which writes a file for
\* the run that it names and then one for any run.
AskToStop(how) ==
    /\ asks < MaxStops /\ ~asking
    /\ asks' = asks + 1
    /\ asking' = (how = "interface")
    /\ stopFiles' = stopFiles \union (IF how = "hand" THEN {"repo"} ELSE {"run"})
    /\ stopAsked' = IF ctl.at \in {"ended", "off"} \/ stopAsked = "interface"
                    THEN stopAsked ELSE how
    /\ UNCHANGED <<tree, ctl, starts>>

FinishAsking ==
    /\ asking
    /\ asking' = FALSE
    /\ stopFiles' = stopFiles \union {"tools"}
    /\ UNCHANGED <<tree, ctl, stopAsked, starts, asks>>

\* Interrupted, or ended by an exception, such as a git command that took too long.
Interrupt ==
    /\ ctl.at \notin {"ended", "off"}
    /\ Places("off")
    /\ UNCHANGED <<tree, stopFiles, stopAsked, starts, asking, asks>>

\* The next run finds the tree as it is, and has a directory of its own.
StartRun ==
    /\ ctl.at \in {"ended", "off"} /\ starts < MaxRuns
    /\ starts' = starts + 1
    /\ ctl' = FirstPlace
    /\ stopFiles' = stopFiles \ {"run"}
    /\ stopAsked' = "no"
    /\ UNCHANGED <<tree, asking, asks>>

-----------------------------------------------------------------------------
OrchestratorNext ==
    \/ CheckStopFile \/ CallStrategist \/ EndWorker \/ Gate \/ CleanTree \/ CheckOut
    \/ (\E f \in Files : Edit(f)) \/ Commit
    \/ (\E how \in {"hand", "interface"} : AskToStop(how)) \/ FinishAsking
    \/ Interrupt \/ StartRun

OrchestratorSpec == OrchestratorInit /\ [][OrchestratorNext]_orchestrator_vars

-----------------------------------------------------------------------------
OrchestratorPlaces == {"top", "ask", "work", "gate", "clean", "checkout", "ended", "off"}

(* Files, places and counters have their types, and only a run that ended  *)
(* by itself has passed or was stopped.                                    *)
OrchestratorTypeOK ==
    /\ tree \in [Files -> [head : Contents, index : Contents, work : Contents]]
    /\ asking \in BOOLEAN /\ stopFiles \subseteq {"repo", "tools", "run"}
    /\ stopAsked \in {"no", "hand", "interface"}
    /\ ctl \in [at : OrchestratorPlaces, iteration : 0 .. MaxIters, retries : 0 .. MaxRetries,
               exit : {0, 1, -1}, verdict : {"FAIL", "STOPPED", "PASS"}, reverted : BOOLEAN]
    /\ ctl.verdict # "FAIL" => ctl.at = "ended"

(* Unless a git command of the revert failed, what a worker left loose in  *)
(* the working tree does not reach the next iteration of the run, even if  *)
(* the worker was run again meanwhile or was killed.                       *)
NothingLeaks ==
    ctl.at = "ask" /\ ctl.iteration > 0 /\ ctl.reverted =>
        \A f \in Files : tree[f].work = tree[f].index

Continues == ctl.at = "top" /\ ctl'.at = "ask"

(* A run asked to stop through the interface begins no further iteration,  *)
(* although failed work is cleaned away and runs leave STOP files behind.  *)
(* (A STOP file in the root of the repository, README.md:22, is cleaned    *)
(* away with the rest, and the run goes on.)                               *)
InterfaceStopHalts ==
    [][Continues => stopAsked # "interface"]_orchestrator_vars
=============================================================================
