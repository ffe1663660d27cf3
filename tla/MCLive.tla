------------------------------- MODULE MCLive -------------------------------
EXTENDS LiveOrder, TLC
CallerSymmetry == Permutations(Callers)
=============================================================================
