--------------------------------- MODULE Dag --------------------------------
(***************************************************************************)
(* The DAG executor and its status tracker, on top of BlockingSubmitter    *)
(* and the completion registry.                                            *)
(*                                                                         *)
(* Execute validates a specification, records the execution and starts a   *)
(* goroutine that runs it level by level, one goroutine per node of the    *)
(* level; the first failure cancels the context they share.  A submitter   *)
(* of module Completion is a pair of an execution and a node.  Every step  *)
(* is one critical section of the tracker or a step of SubmitTask.         *)
(***************************************************************************)
EXTENDS Completion, Graph, FiniteSetsExt

CONSTANTS
    Execs,          \* SubmitDAG requests
    Nodes,          \* node IDs
    Specs,          \* the specifications clients submit
    MayShutdown     \* the process may be told to stop

ASSUME DagAssumption ==
    /\ Submitters = Execs \X Nodes
    /\ MayShutdown \in BOOLEAN

\* What the messages of the API can carry: lists of node IDs.
ASSUME SpecsAssumption ==
    \A sp \in Specs :
        /\ sp.nodes \in Seq(Nodes)
        /\ sp.dependsOn \in [NodesOf(sp) -> Seq(Nodes)]

VARIABLES
    spec,           \* the specification of each execution
    nstate,         \* mutableRecord.nodes: the state of each node
    estate,         \* mutableRecord.state; "refused" if there is no record
    levels,         \* the levels TopologicalSort gave run
    run,            \* run's locals: where it is, and the level it is at
    gor,            \* where the goroutine of each node is
    stopped         \* the executor's context is cancelled

dagVars == <<spec, levels, nstate, estate, run, gor, stopped>>
vars    == <<cvars, dagVars>>

NodeState == {"pending", "running", "completed", "failed"}
ExecState == {"none", "refused", "running", "completed", "failed"}

DagTypeOK ==
    /\ CompletionTypeOK
    /\ estate \in [Execs -> ExecState]
    /\ \A e \in Execs :
          \/ estate[e] \in {"none", "refused"} /\ nstate[e] = <<>>
          \/ nstate[e] \in [NodesOf(spec[e]) -> NodeState]
    /\ levels \in [Execs -> Seq(SUBSET Nodes)]
    /\ run \in [Execs -> [pc: {"none", "launch", "wait", "skip", "over"},
                          level: 0 .. Cardinality(Nodes)]]
    /\ gor \in [Submitters -> {"none", "start", "submit", "cancel", "done"}]
    /\ stopped \in BOOLEAN

DagInit ==
    /\ CompletionInit
    /\ spec = [e \in Execs |-> <<>>]
    /\ nstate = [e \in Execs |-> <<>>]
    /\ estate = [e \in Execs |-> "none"]
    /\ levels = [e \in Execs |-> <<>>]
    /\ run = [e \in Execs |-> [pc |-> "none", level |-> 0]]
    /\ gor = [s \in Submitters |-> "none"]
    /\ stopped = FALSE

-----------------------------------------------------------------------------
(* StatusTracker *)

MarkNodeRunning(e, n) ==
    /\ nstate' = [nstate EXCEPT ![e][n] = "running"]
    /\ UNCHANGED estate

MarkNodeCompleted(e, n) ==
    /\ nstate' = [nstate EXCEPT ![e][n] = "completed"]
    /\ estate' = [estate EXCEPT ![e] =
                    IF \A m \in DOMAIN nstate[e] : nstate'[e][m] = "completed"
                    THEN "completed" ELSE @]

MarkNodeFailed(e, n) ==
    /\ nstate' = [nstate EXCEPT ![e][n] = "failed"]
    /\ estate' = [estate EXCEPT ![e] = "failed"]

-----------------------------------------------------------------------------
(* Executor *)

Level(e)  == levels[e][run[e].level]
CtxErr(e) == {e} \X Nodes \subseteq cancelled

\* Execute, up to the start of the goroutine.  A context that was cancelled
\* before is still cancelled.
Execute(e, sp) ==
    /\ estate[e] = "none"
    /\ spec' = [spec EXCEPT ![e] = sp]
    /\ \/ /\ NewGraph(sp)
          /\ estate' = [estate EXCEPT ![e] = "running"]
          /\ nstate' = [nstate EXCEPT ![e] = [n \in NodesOf(sp) |-> "pending"]]
          /\ levels' = [levels EXCEPT ![e] = TopologicalSort(sp)]
          /\ run' = [run EXCEPT ![e] = [pc |-> "launch", level |-> 1]]
       \/ /\ ~NewGraph(sp)
          /\ estate' = [estate EXCEPT ![e] = "refused"]
          /\ UNCHANGED <<levels, nstate, run>>
    /\ UNCHANGED <<cvars, gor, stopped>>

\* The go statements of one level.
Launch(e) ==
    /\ run[e].pc = "launch"
    /\ gor' = [s \in Submitters |->
                 IF s[1] = e /\ s[2] \in Level(e) THEN "start" ELSE gor[s]]
    /\ run' = [run EXCEPT ![e].pc = "wait"]
    /\ UNCHANGED <<cvars, spec, levels, nstate, estate, stopped>>

\* Mutant: the next level is started whatever happened in this one.
LevelDoneUnchecked(e) ==
    /\ run[e].pc = "wait"
    /\ \A n \in Level(e) : gor[<<e, n>>] = "done"
    /\ run' = [run EXCEPT ![e] =
                 IF run[e].level = Len(levels[e])
                 THEN [@ EXCEPT !.pc = "over"]
                 ELSE [pc |-> "launch", level |-> run[e].level + 1]]
    /\ UNCHANGED <<cvars, spec, levels, nstate, estate, gor, stopped>>

\* Mutant: no wg.Wait between levels.
LevelDoneAtOnce(e) ==
    /\ run[e].pc = "wait"
    /\ run' = [run EXCEPT ![e] =
                 IF run[e].level = Len(levels[e])
                 THEN [@ EXCEPT !.pc = "over"]
                 ELSE [pc |-> "launch", level |-> run[e].level + 1]]
    /\ UNCHANGED <<cvars, spec, levels, nstate, estate, gor, stopped>>

\* wg.Wait returns; a cancelled context ends the run after this level.
LevelDone(e) ==
    /\ run[e].pc = "wait"
    /\ \A n \in Level(e) : gor[<<e, n>>] = "done"
    /\ run' = [run EXCEPT ![e] =
                 CASE CtxErr(e) -> [@ EXCEPT !.pc = "skip"]
                   [] ~CtxErr(e) /\ run[e].level = Len(levels[e]) ->
                         [@ EXCEPT !.pc = "over"]
                   [] OTHER -> [pc |-> "launch", level |-> run[e].level + 1]]
    /\ UNCHANGED <<cvars, spec, levels, nstate, estate, gor, stopped>>

\* The nodes of the remaining levels are marked failed, one by one.
Skip(e) ==
    /\ run[e].pc = "skip"
    /\ LET rest == {i \in run[e].level + 1 .. Len(levels[e]) :
                       \E n \in levels[e][i] : nstate[e][n] = "pending"}
       IN \/ /\ rest # {}
             /\ \E n \in levels[e][Min(rest)] :
                   nstate[e][n] = "pending" /\ MarkNodeFailed(e, n)
             /\ UNCHANGED run
          \/ /\ rest = {}
             /\ run' = [run EXCEPT ![e].pc = "over"]
             /\ UNCHANGED <<nstate, estate>>
    /\ UNCHANGED <<cvars, spec, levels, gor, stopped>>

-----------------------------------------------------------------------------
(* executeNode *)

NodeBegin(e, n) ==
    /\ gor[<<e, n>>] = "start"
    /\ MarkNodeRunning(e, n)
    /\ gor' = [gor EXCEPT ![<<e, n>>] = "submit"]
    /\ UNCHANGED <<cvars, spec, levels, run, stopped>>

NodeSubmit(e, n) ==
    /\ gor[<<e, n>>] = "submit"
    /\ SubmitTask(<<e, n>>)
    /\ UNCHANGED dagVars

NodeEnd(e, n) ==
    /\ gor[<<e, n>>] = "submit" /\ sub[<<e, n>>].pc = "done"
    /\ \/ /\ sub[<<e, n>>].res = "nil"
          /\ MarkNodeCompleted(e, n)
          /\ gor' = [gor EXCEPT ![<<e, n>>] = "done"]
       \/ /\ sub[<<e, n>>].res = "err"
          /\ MarkNodeFailed(e, n)
          /\ gor' = [gor EXCEPT ![<<e, n>>] = "cancel"]
    /\ UNCHANGED <<cvars, spec, levels, run, stopped>>

\* cancel(): the run's context, shared by the nodes of the execution.
NodeCancel(e, n) ==
    /\ gor[<<e, n>>] = "cancel"
    /\ CtxDone({e} \X Nodes)
    /\ gor' = [gor EXCEPT ![<<e, n>>] = "done"]
    /\ UNCHANGED <<spec, levels, nstate, estate, run, stopped>>

\* The process's context, of which every execution's context is a child, is
\* cancelled; handlers may still be running.  Executor.Shutdown then waits
\* for the runs.
Shutdown ==
    /\ MayShutdown /\ ~stopped
    /\ stopped' = TRUE
    /\ CtxDone(Submitters)
    /\ UNCHANGED <<spec, levels, nstate, estate, run, gor>>

\* The registry's reaper lives as long as the process's context.
Reap == ~stopped /\ SweepOnce /\ UNCHANGED dagVars

\* Executor.Shutdown has returned and the process exits.
Exit ==
    /\ stopped /\ \A e \in Execs : run[e].pc \in {"none", "over"}
    /\ UNCHANGED vars

-----------------------------------------------------------------------------
RunStep(e) == Launch(e) \/ LevelDone(e) \/ Skip(e)

NodeStep(e, n) ==
    NodeBegin(e, n) \/ NodeSubmit(e, n) \/ NodeEnd(e, n) \/ NodeCancel(e, n)

DagNext ==
    \/ \E e \in Execs :
          \/ \E sp \in Specs : Execute(e, sp)
          \/ RunStep(e)
          \/ \E n \in Nodes : NodeStep(e, n)
    \/ \E t \in Tasks : (Complete(t) \/ Age(t)) /\ UNCHANGED dagVars
    \/ Reap \/ Shutdown \/ Exit

DagSpec == DagInit /\ [][DagNext]_vars

\* Goroutines that can move are scheduled; time passes and the reaper's
\* ticker fires.  Nothing is assumed of the agents.
DagFairness ==
    /\ \A e \in Execs :
          /\ WF_vars(RunStep(e))
          /\ \A n \in Nodes : WF_vars(NodeStep(e, n))
    /\ \A t \in Tasks : WF_vars(Age(t) /\ UNCHANGED dagVars)
    /\ WF_vars(Reap)

DagFairSpec == DagSpec /\ DagFairness

-----------------------------------------------------------------------------
(* Properties *)

Contract == INSTANCE DagContract
                WITH spec <- spec, nstate <- nstate, estate <- estate,
                     stopped <- stopped

\* The tracker's record of every execution is one the contract allows: the
\* barrier between levels, Kahn's levels, the cancellation and the skipping
\* together give dependency order, and the execution's state agrees with its
\* nodes', whatever the order in which goroutines finish, fail or are stopped.
KeepsContract == Contract!Spec

\* TopologicalSort puts every node of an accepted specification into the
\* earliest level its dependencies allow, and no node into two.
SortIsTight ==
    \A e \in Execs : estate[e] \notin {"none", "refused"} =>
        SortedByDepth(spec[e], levels[e])

\* A task is only handed out when the tasks it depends on have really been
\* executed: their executions are over, not just their nodes marked.
WorkInOrder ==
    \A e \in Execs : \A n \in DOMAIN nstate[e] :
        work[TaskOf[<<e, n>>]] > 0 =>
            \A m \in Deps(spec[e], n) : work[TaskOf[<<e, m>>]] = 0

NoWork == \A t \in Tasks : work[t] = 0

\* If the agents finish what they are given, every execution comes to an end.
ExecutionEnds ==
    []<>NoWork =>
        \A e \in Execs : estate[e] = "running" ~>
                             estate[e] \in {"completed", "failed"}

\* Executor.Shutdown returns, whatever the agents do: wg.Wait is not left
\* waiting for a goroutine that waits for a completion.
ShutdownReturns ==
    stopped ~> \A e \in Execs : run[e].pc \in {"none", "over"}

\* The registry does not grow without bound: after the last late completion
\* nothing is left in its maps, as long as the reaper runs.
RegistryDrains ==
    []<>NoWork =>
        []<>(\/ stopped
             \/ \A t \in Tasks : /\ waiters[t] = NoChan
                                 /\ cleaned[t] = "none"
                                 /\ completed[t] = "none")

\* Wait "blocks until Complete(taskID) is called"; "if the task was already
\* completed before Wait is called, returns immediately"; "all waiters are
\* unblocked": the doc comments of Wait and Complete, for a task ID that is
\* submitted again, as in a retry of a whole DAG.
CompletedMeansUnblocked == NoStrandedWaiter
=============================================================================
