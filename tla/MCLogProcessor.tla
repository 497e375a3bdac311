--------------------------- MODULE MCLogProcessor ---------------------------
EXTENDS LogProcessor, TLC

CONSTANTS o1, o2, e1, e2, e3

Symmetric == Permutations(Objects) \cup Permutations(Executions)
=============================================================================
