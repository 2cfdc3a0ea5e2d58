--------------------------- MODULE MCRunControl ---------------------------
EXTENDS RunControl, TLC
Symm == Permutations(Execs) \cup Permutations(Managers)
===========================================================================
