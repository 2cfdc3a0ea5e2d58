-------------------------- MODULE MCNodeOutcomes --------------------------
EXTENDS NodeOutcomes
CONSTANTS w1, w2, w3, s1, s2
\* two waits side by side and a third behind the first
Relay == [n \in Nodes |-> IF n = w3 THEN {w1} ELSE {}]
\* a step, and behind it two waits and a step behind the first of them
Behind == [n \in Nodes |-> IF n \in Waits THEN {s2}
                           ELSE IF n = s1 THEN {w1} ELSE {}]
===========================================================================
