-------------------------- MODULE MCPaperExecution --------------------------
(* Small accounts: one caller with two orders, and two callers with one.      *)
EXTENDS PaperExecution
=============================================================================
