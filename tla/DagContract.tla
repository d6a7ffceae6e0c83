----------------------------- MODULE DagContract ----------------------------
(***************************************************************************)
(* What the status of a DAG execution promises to whoever reads it: nodes  *)
(* run in dependency order, each at most once; the execution is COMPLETED  *)
(* exactly when all its nodes are, and FAILED for good as soon as one is;  *)
(* a node is skipped only because of a failure or a shutdown.              *)
(***************************************************************************)
EXTENDS FiniteSets, Graph

CONSTANTS Execs

VARIABLES
    spec,       \* the specification each execution was submitted with
    nstate,     \* the state of its nodes
    estate,     \* the state of the execution
    stopped     \* the executor is shutting down

contractVars == <<spec, nstate, estate, stopped>>

Depends(e) == [n \in DOMAIN nstate[e] |-> Deps(spec[e], n)]

Init ==
    /\ estate = [e \in Execs |-> "none"]
    /\ nstate = [e \in Execs |-> <<>>]
    /\ stopped = FALSE
    /\ spec = [e \in Execs |-> <<>>]

\* Only a well-formed specification without a cycle gets a record.
Create(e) ==
    /\ estate[e] = "none" /\ estate' = [estate EXCEPT ![e] = "running"]
    /\ WellFormed(spec'[e])
    /\ Acyclic(NodesOf(spec'[e]), LAMBDA n : Deps(spec'[e], n))
    /\ nstate' = [nstate EXCEPT ![e] =
                    [n \in NodesOf(spec'[e]) |-> "pending"]]
    /\ \A x \in Execs \ {e} : spec'[x] = spec[x]
    /\ UNCHANGED stopped

\* ... and only the others are refused.
Refuse(e) ==
    /\ estate[e] = "none" /\ estate' = [estate EXCEPT ![e] = "refused"]
    /\ ~ /\ WellFormed(spec'[e])
         /\ Acyclic(NodesOf(spec'[e]), LAMBDA n : Deps(spec'[e], n))
    /\ \A x \in Execs \ {e} : spec'[x] = spec[x]
    /\ UNCHANGED <<nstate, stopped>>

Start(e, n) ==
    /\ nstate[e][n] = "pending"
    /\ \A m \in Depends(e)[n] : nstate[e][m] = "completed"
    /\ nstate' = [nstate EXCEPT ![e][n] = "running"]
    /\ UNCHANGED <<spec, estate, stopped>>

Finish(e, n) ==
    /\ nstate[e][n] = "running"
    /\ nstate' = [nstate EXCEPT ![e][n] = "completed"]
    /\ estate' = [estate EXCEPT ![e] =
                    IF \A m \in DOMAIN nstate[e] : nstate'[e][m] = "completed"
                    THEN "completed" ELSE @]
    /\ UNCHANGED <<spec, stopped>>

Fail(e, n) ==
    /\ \/ nstate[e][n] = "running"
       \/ nstate[e][n] = "pending" /\ (estate[e] = "failed" \/ stopped)
    /\ nstate' = [nstate EXCEPT ![e][n] = "failed"]
    /\ estate' = [estate EXCEPT ![e] = "failed"]
    /\ UNCHANGED <<spec, stopped>>

Stop == stopped' = TRUE /\ UNCHANGED <<spec, nstate, estate>>

Next ==
    \/ \E e \in Execs :
          \/ Create(e) \/ Refuse(e)
          \/ \E n \in DOMAIN nstate[e] : Start(e, n) \/ Finish(e, n) \/ Fail(e, n)
    \/ Stop

Spec == Init /\ [][Next]_contractVars
=============================================================================
