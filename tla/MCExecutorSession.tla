------------------------- MODULE MCExecutorSession -------------------------
EXTENDS ExecutorSession
===========================================================================
