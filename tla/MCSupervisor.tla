---------------------------- MODULE MCSupervisor ----------------------------
EXTENDS Supervisor, TLC
CONSTANTS a1, a2, t1, t2, c1, c2
SamePrio == [t \in Tasks |-> 1]
MixPrio == (t1 :> 1) @@ (t2 :> 2)
Sym == Permutations(Agents) \cup Permutations(Callers)
=============================================================================
