--------------------------- MODULE MCEventWaits ---------------------------
EXTENDS EventWaits
Symm == Permutations(Procs) \cup Permutations(Keepers) \cup
        Permutations(Publishers) \cup Permutations(Nodes \ Timed)
===========================================================================
