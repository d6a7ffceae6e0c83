----------------------------- MODULE MCControl -----------------------------
EXTENDS Control, TLC
CONSTANTS a1, a2, t1, t2, c1, c2, o1, o2
SamePrio == [t \in Tasks |-> 1]
=============================================================================
