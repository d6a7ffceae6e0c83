------------------------------ MODULE MCWorkers -----------------------------
EXTENDS Workers, TLC
CONSTANTS a1, a2, t1, t2, c1, c2
SamePrio == [t \in Tasks |-> 1]
OneHost == c1 :> a1
TwoHosts == c1 :> a1 @@ c2 :> a2
=============================================================================
