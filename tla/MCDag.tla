-------------------------------- MODULE MCDag -------------------------------
EXTENDS Dag, TLC

CONSTANTS n1, n2, n3, t1, t2, t3, e1, e2

MCSubmitters == Execs \X Nodes

\* Each node its own task; or one task ID for everything.
OwnTask  == [s \in MCSubmitters |-> CASE s[2] = n1 -> t1
                                      [] s[2] = n2 -> t2
                                      [] OTHER     -> t3]
SameTask == [s \in MCSubmitters |-> t1]

Plain(nodes, dep) == [nodes |-> nodes, dependsOn |-> dep, noTask |-> {},
                      edges |-> {}]

\* Every pair of depends_on lists of two nodes, self-loops, cycles and
\* repetitions included.
Lists    == {<<>>, <<n1>>, <<n2>>, <<n1, n1>>, <<n1, n2>>, <<n2, n2>>}
TwoNodes == {Plain(<<n1, n2>>, d) : d \in [{n1, n2} -> Lists]}

\* Three nodes: the chain, the join, the fork, the shortcut, parallel nodes
\* beside a chain, and graphs with cycles through two and three nodes.
ThreeNodes ==
    {Plain(<<n1, n2, n3>>, (n1 :> a) @@ (n2 :> b) @@ (n3 :> c)) :
        a \in {<<>>, <<n3>>}, b \in {<<n1>>, <<n3>>, <<n1, n3>>},
        c \in {<<>>, <<n1>>, <<n2>>, <<n2, n1>>}}

\* What NewGraph refuses before the sort.
Malformed ==
    {Plain(<<>>, <<>>),
     Plain(<<n1, n1>>, n1 :> <<>>),
     Plain(<<n1>>, n1 :> <<n2>>),
     [Plain(<<n1>>, n1 :> <<>>) EXCEPT !.noTask = {n1}]}

OneNode  == {Plain(<<n1>>, n1 :> <<>>)}
GrpcSpecs == TwoNodes \cup ThreeNodes \cup Malformed
HttpSpecs == {handleSubmitDAG([nodes |-> <<n1, n2>>, edges |-> {<<n1, n2>>}])}
MCSpecs   == GrpcSpecs \cup HttpSpecs
=============================================================================
