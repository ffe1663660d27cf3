--------------------------- MODULE MCInferenceBus ---------------------------
(* A small bus for TLC: the jobs are interchangeable.                      *)
EXTENDS InferenceBus, TLC

Symmetry == Permutations(Jobs)
=============================================================================
