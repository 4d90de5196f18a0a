-------------------------- MODULE MCAcceptanceRun --------------------------
EXTENDS AcceptanceRun, TLC

CONSTANTS n1, n2

Symmetry == Permutations(Nodes)
=============================================================================
