------------------------------- MODULE Graph --------------------------------
(***************************************************************************)
(* DAG specifications: NewGraph and TopologicalSort of internal/dag.       *)
(*                                                                         *)
(* A specification is a record with the sequence of its nodes' IDs, the    *)
(* depends_on list of each, the nodes that carry no task, and the edges.   *)
(* Levels are sets: the code sorts each by name, and starts its nodes      *)
(* concurrently.                                                           *)
(***************************************************************************)
EXTENDS Naturals, Sequences, FiniteSets

NodesOf(spec) == {spec.nodes[i] : i \in DOMAIN spec.nodes}

\* n's predecessors.
Deps(spec, n) == {spec.dependsOn[n][i] : i \in DOMAIN spec.dependsOn[n]}

inDegrees(spec) == [n \in NodesOf(spec) |-> Len(spec.dependsOn[n])]

\* The loop of TopologicalSort starts with the nodes without dependencies.
Seed(spec) ==
    [deg   |-> inDegrees(spec),
     queue |-> {n \in NodesOf(spec) : inDegrees(spec)[n] = 0}]

\* How often n is among the successors of the nodes of a level: once for each
\* entry of its depends_on list that names one of them.
Releases(spec, n, level) ==
    Cardinality({i \in DOMAIN spec.dependsOn[n] :
                    spec.dependsOn[n][i] \in level})

\* Mutant: a node joins the queue with the first of its dependencies.
ReleaseEager(spec, prev) ==
    LET deg == [n \in NodesOf(spec) |->
                   prev.deg[n] - Releases(spec, n, prev.queue)]
    IN [deg   |-> deg,
        queue |-> {n \in NodesOf(spec) : deg[n] < prev.deg[n]}]

\* One round: a level's nodes release their successors, and those whose last
\* dependency it was are the next level.
Release(spec, prev) ==
    LET deg == [n \in NodesOf(spec) |->
                   prev.deg[n] - Releases(spec, n, prev.queue)]
    IN [deg   |-> deg,
        queue |-> {n \in NodesOf(spec) : prev.deg[n] > 0 /\ deg[n] = 0}]

\* The in-degrees and the queue after i rounds.
Kahn(spec) ==
    LET kahn[i \in 0 .. Cardinality(NodesOf(spec))] ==
            IF i = 0 THEN Seed(spec) ELSE Release(spec, kahn[i - 1])
    IN kahn

\* The levels, numbered from 1; too few nodes in them means a cycle.
TopologicalSort(spec) ==
    LET kahn  == Kahn(spec)
        depth == Cardinality({i \in DOMAIN kahn : kahn[i].queue # {}})
    IN [i \in 1 .. depth |-> kahn[i - 1].queue]

Sorted(spec) == UNION {TopologicalSort(spec)[i] :
                          i \in DOMAIN TopologicalSort(spec)}

\* The checks that come before the sort.
WellFormed(spec) ==
    /\ spec.nodes # <<>>
    /\ Cardinality(NodesOf(spec)) = Len(spec.nodes)
    /\ spec.noTask = {}
    /\ \A n \in NodesOf(spec) : Deps(spec, n) \subseteq NodesOf(spec)

\* NewGraph returns no error.
NewGraph(spec) == WellFormed(spec) /\ Sorted(spec) = NodesOf(spec)

\* handleSubmitDAG: the request's edges become edges of the specification,
\* and depends_on stays empty.
handleSubmitDAG(req) ==
    [nodes |-> req.nodes, edges |-> req.edges, noTask |-> {},
     dependsOn |-> [n \in {req.nodes[i] : i \in DOMAIN req.nodes} |-> <<>>]]

-----------------------------------------------------------------------------
(* Reference definitions *)

\* Some node of every set of nodes depends on none of the set.
Acyclic(N, dep(_)) ==
    \A S \in SUBSET N : S # {} => \E n \in S : dep(n) \cap S = {}

\* Level i is made of the nodes that could not go into an earlier one.
SortedByDepth(spec, L) ==
    LET before(i) == UNION {L[j] : j \in 1 .. i - 1}
    IN \A i \in DOMAIN L :
          L[i] = {n \in NodesOf(spec) \ before(i) :
                     Deps(spec, n) \subseteq before(i)}
=============================================================================
