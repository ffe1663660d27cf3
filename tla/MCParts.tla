------------------------------ MODULE MCParts ------------------------------
(* The circuit breaker, the safety gates, the paper account, the agent      *)
(* orchestrator, the backfill and the outcome cache share no state, so one  *)
(* run checks all of them, one at a time: part says which.                  *)
EXTENDS MCCircuitBreaker, MCSafetyGates, PaperExecution, AgentOrchestrator, Backfill,
        OutcomeCache

VARIABLE part

PartsInit ==
    /\ BreakerInit /\ GatesInit /\ PaperInit /\ OrchestratorInit /\ BackfillInit
    /\ OutcomeInit
    /\ part \in {"breaker", "gates", "paper", "orchestrator", "backfill", "outcomes"}
    /\ part = "orchestrator" \/ tree = [f \in Files |-> Same("base")]

PartsNext ==
    /\ UNCHANGED part
    /\ \/ /\ part = "breaker" /\ BreakerNext
          /\ UNCHANGED <<gates_vars, paper_vars, orchestrator_vars, backfill_vars,
                         outcome_vars>>
       \/ /\ part = "gates" /\ GatesNext
          /\ UNCHANGED <<breaker_vars, paper_vars, orchestrator_vars, backfill_vars,
                         outcome_vars>>
       \/ /\ part = "paper" /\ PaperNext
          /\ UNCHANGED <<breaker_vars, gates_vars, orchestrator_vars, backfill_vars,
                         outcome_vars>>
       \/ /\ part = "orchestrator" /\ OrchestratorNext
          /\ UNCHANGED <<breaker_vars, gates_vars, paper_vars, backfill_vars,
                         outcome_vars>>
       \/ /\ part = "backfill" /\ BackfillNext
          /\ UNCHANGED <<breaker_vars, gates_vars, paper_vars, orchestrator_vars,
                         outcome_vars>>
       \/ /\ part = "outcomes" /\ OutcomeNext
          /\ UNCHANGED <<breaker_vars, gates_vars, paper_vars, orchestrator_vars,
                         backfill_vars>>

PartsSpec ==
    /\ PartsInit
    /\ [][PartsNext]_<<breaker_vars, gates_vars, paper_vars, orchestrator_vars,
                      backfill_vars, outcome_vars, part>>

(* Every variable of the six parts has its type.                            *)
TypeOK ==
    /\ BreakerTypeOK /\ GatesTypeOK /\ PaperTypeOK
    /\ OrchestratorTypeOK /\ BackfillTypeOK /\ OutcomeTypeOK
=============================================================================
