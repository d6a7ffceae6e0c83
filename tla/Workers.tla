------------------------------ MODULE Workers -------------------------------
(***************************************************************************)
(* The worker loops composed with the supervisor they call: simagent.Run   *)
(* and cliagent.run.  A worker is one goroutine: it heartbeats or polls    *)
(* its agent's state, and when the agent is assigned it looks the task up  *)
(* (CLI workers, through main's promptFn), calls StartWork, runs the task, *)
(* and calls ReportOutput and CompleteAgent, sending no heartbeat          *)
(* meanwhile.  Its calls are those of module Supervisor, one at a time;    *)
(* they take the place of the arbitrary clients of that module.            *)
(***************************************************************************)
EXTENDS Supervisor

CONSTANTS
    Host,           \* the agent each worker (a caller) registered
    Cli,            \* the workers that are cliagents, the others simagents
    MayExit         \* bound: whether a worker may fail to start or give up

ASSUME WorkersAssumption ==
    /\ Host \in [Callers -> Agents]
    /\ \A c, d \in Callers : Host[c] = Host[d] => c = d
    /\ Cli \subseteq Callers
    /\ MayExit \in BOOLEAN
    \* The store does not fail here, so the assignment loop never backs off.
    /\ MaxFaults = 0

VARIABLE
    worker      \* where each worker loop is, the task it looked up, and the
                \* task its agent was assigned when its StartWork succeeded

allVars == <<vars, worker>>

Phase == {"none", "loop", "beat", "start", "run", "report", "complete", "exit"}

WorkersTypeOK ==
    /\ TypeOK
    /\ worker \in [Callers -> [pc : Phase, task : TaskID, began : TaskID]]

WorkersInit ==
    /\ Init
    /\ worker = [c \in Callers |-> [pc |-> "none", task |-> NoTask,
                                    began |-> NoTask]]

To(c, phase) == [worker EXCEPT ![c].pc = phase]

-----------------------------------------------------------------------------
\* Spawn: the goroutine starts when RegisterAgent has returned.  A cliagent
\* without a working directory leaves the registered agent without a worker.
Spawn(c) ==
    /\ worker[c].pc = "none" /\ reg[Host[c]] = "done"
    /\ \/ worker' = To(c, "loop")
       \/ MayExit /\ c \in Cli /\ worker' = To(c, "exit")
    /\ UNCHANGED vars

Beat(c) ==
    /\ worker[c].pc = "loop" /\ CallBegin(c, "Heartbeat", Host[c], NoTask)
    /\ worker' = To(c, "beat")

\* GetAgentState says ASSIGNED.  The CLI worker then reads the task from the
\* agent's record, or falls back to a default prompt; a simagent never asks.
LookUp(c) ==
    /\ worker[c].pc = "loop"
    /\ Host[c] \in agents /\ agState[Host[c]] = StateAssigned
    /\ worker' = [worker EXCEPT ![c].pc = "start",
                    ![c].task = IF c \in Cli THEN curTask[Host[c]] ELSE NoTask]
    /\ CallBegin(c, "StartWork", Host[c], NoTask)

\* GetAgentState fails.  The handler turns every store error into NotFound,
\* which a cliagent takes for its removal.
PollFails(c) ==
    /\ worker[c].pc = "loop" /\ c \in Cli
    /\ MayExit /\ worker' = To(c, "exit") /\ UNCHANGED vars

\* The run ends by itself or by taskTimeout; ReportOutput is called.
RunEnds(c) ==
    /\ worker[c].pc = "run"
    /\ CallBegin(c, "ReportOutput", Host[c], NoTask)
    /\ worker' = To(c, "report")

\* CompleteAgent follows whatever became of ReportOutput.
Reported(c) ==
    /\ worker[c].pc = "report" /\ call[c].pc = "idle"
    /\ CallBegin(c, "CompleteAgent", Host[c], worker[c].task)
    /\ worker' = To(c, "complete")

\* Mutant: the loop goes on after StartWork as if it had failed.
ReturnsIdle(c) ==
    worker' = IF call'[c].pc # "idle" THEN worker
              ELSE [worker EXCEPT ![c] =
                IF @.pc = "report" THEN @
                ELSE [@ EXCEPT !.pc = "loop", !.task = NoTask, !.began = NoTask]]

\* The call of a worker returns: StartWork has succeeded if it changed the
\* state, and only then is the task run.
Returns(c) ==
    LET begun == agState' # agState
    IN worker' = IF call'[c].pc # "idle" THEN worker
                 ELSE [worker EXCEPT ![c] =
                   CASE @.pc = "start" ->
                           [@ EXCEPT !.pc = IF begun THEN "run" ELSE "loop",
                                     !.began = IF begun THEN curTask[Host[c]]
                                               ELSE NoTask]
                     [] @.pc = "report" -> @
                     [] OTHER -> [@ EXCEPT !.pc = "loop", !.task = NoTask,
                                           !.began = NoTask]]

Handle(c) ==
    \/ CallLock(c) /\ Returns(c)
    \/ HeartbeatGet(c) /\ Returns(c)
    \/ HeartbeatSet(c) /\ Returns(c)
    \/ CallReadState(c) /\ Returns(c)
    \/ CallCAS(c) /\ Returns(c)
    \/ CompleteSignal(c) /\ Returns(c)
    \/ CompleteClear(c) /\ Returns(c)
    \/ CompleteUncool(c) /\ Returns(c)

\* Heartbeats are ten times as frequent as the monitor's threshold asks, so
\* only an agent whose worker is busy with a task, or is not there, goes stale.
Silence(a) ==
    /\ \A c \in Callers : Host[c] = a => worker[c].pc \in {"none", "run", "exit"}
    /\ HeartbeatStales(a) /\ UNCHANGED worker

WorkersNext ==
    \/ \E c \in Callers :
          \/ Spawn(c) \/ Beat(c) \/ LookUp(c) \/ PollFails(c) \/ RunEnds(c)
          \/ Reported(c) \/ Handle(c)
    \/ \E a \in Agents :
          \/ Silence(a)
          \/ RegisterStore(a) /\ UNCHANGED worker
          \/ RegisterMutex(a) /\ UNCHANGED worker
          \/ RegisterSession(a) /\ UNCHANGED worker
          \/ CooldownExpires(a) /\ UNCHANGED worker
          \/ CrashLeavesWindow(a) /\ UNCHANGED worker
    \/ \E t \in Tasks : SubmitTask(t) /\ UNCHANGED worker
    \/ MonNext /\ UNCHANGED worker
    \/ AsgNext /\ UNCHANGED worker

WorkersSpec == WorkersInit /\ [][WorkersNext]_allVars

\* The loops' and the handlers' fairness is that of module Supervisor.  The
\* select of a worker picks at random among the tickers that are due, so
\* neither is passed over forever; a run ends, by taskTimeout at the latest.
WorkersFairSpec ==
    /\ WorkersSpec
    /\ WF_allVars(MonNext /\ UNCHANGED worker)
    /\ SF_allVars(MonLock /\ UNCHANGED worker)
    /\ WF_allVars(AsgNext /\ UNCHANGED worker)
    /\ SF_allVars(AsgLock /\ UNCHANGED worker)
    /\ \A a \in Agents : WF_allVars(CooldownExpires(a) /\ UNCHANGED worker)
    /\ \A c \in Callers :
          /\ SF_allVars(Handle(c)) /\ SF_allVars(Beat(c)) /\ SF_allVars(LookUp(c))
          /\ WF_allVars(RunEnds(c)) /\ WF_allVars(Reported(c))

-----------------------------------------------------------------------------
(* Properties *)

\* A task is signalled complete only by the worker that began it when its
\* agent was assigned to it and ran it to the end: a run that was crashed and
\* re-assigned under a silent worker never completes the agent's next task.
HonestCompletion ==
    [][\A t \in Tasks : t \in done' \ done =>
          \E c \in Callers : worker[c].pc = "complete" /\ worker[c].began = t]_allVars

\* An agent that the store calls busy with work has a worker that is busy
\* with it: no agent is left WORKING or REPORTING by a loop that has gone back
\* to heartbeating for it, where no monitor would ever find it.
BusyMeansWorked ==
    \A c \in Callers :
        agState[Host[c]] \in {StateWorking, StateReporting} =>
            worker[c].pc \in {"run", "report", "complete"}

\* Once runs no longer outlast the monitor's threshold, every submitted task
\* is completed in the end, whatever crashes came before: the retries of a
\* crashed task, the deferrals and benches lose none.  Only a worker that gave
\* up, or an open circuit, which nothing closes, can keep a task from its
\* completion.
RunsGetShort ==
    <>[](\A c \in Callers : worker[c].pc = "run" => fresh[Host[c]])

TasksGetDone ==
    RunsGetShort => \A t \in Tasks :
        t \in submitted /\ (\E c \in Callers : worker[c].pc = "loop") ~>
            \/ t \in done \/ circuitOpen # {}
            \/ \E c \in Callers : worker[c].pc = "exit"
=============================================================================
