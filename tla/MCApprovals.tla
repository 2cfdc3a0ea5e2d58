---------------------------- MODULE MCApprovals ----------------------------
EXTENDS Approvals, TLC
CONSTANTS m1, m2
Symmetric == Permutations(Managers)
===========================================================================
