---------------------------- MODULE WorkersProofs ---------------------------
(***************************************************************************)
(* Proofs about the worker loops, for any agents, tasks and workers: they  *)
(* use the supervisor as its specification allows, so that all that is     *)
(* proved of it holds under them; no agent is left busy without a worker,  *)
(* and no task is signalled complete but by the worker that began it.      *)
(*                                                                         *)
(* A worker's agent has a mutex entry before the worker starts, so every   *)
(* one of its calls is made under the mutex, and what the calls and        *)
(* tryAssignTask read of the agent's state stays true until they have      *)
(* used it (ReadsAgree).  A call therefore fails only for the state it     *)
(* finds, and the phase of the loop after it says what that was (Faithful).*)
(***************************************************************************)
EXTENDS Workers, TaskProofs

WorkerType ==
    worker \in [Callers -> [pc : Phase, task : TaskID, began : TaskID]]

\* The worker loops start when their agent is registered, mutex and all.
Enlisted ==
    /\ \A a \in Agents : reg[a] \in {"mutexed", "done"} => a \in agentMu
    /\ \A c \in Callers : worker[c].pc # "none" => Host[c] \in agentMu

\* The phase of the loop in which it makes each call.
PhaseOf(op) ==
    CASE op = "Heartbeat"    -> "beat"
      [] op = "StartWork"    -> "start"
      [] op = "ReportOutput" -> "report"
      [] OTHER               -> "complete"

\* A worker calls for its own agent, in the phase the call belongs to, and
\* has the mutex once it has passed it.
OwnCalls(c) ==
    /\ call[c].pc # "idle" =>
          /\ call[c].agent = Host[c]
          /\ call[c].pc = "lock" \/ call[c].locked
          /\ worker[c].pc = PhaseOf(call[c].op)
    /\ worker[c].pc \in {"beat", "start", "complete"} => call[c].pc # "idle"

\* What was read of an agent's state under its mutex is still so.
ReadsAgree ==
    /\ asg.pc \in {"get", "set"} => agState[asg.agent] = StateAssigned
    /\ asg.pc = "set" => asg.st = StateAssigned
    /\ \A c \in Callers : call[c].pc \in {"set", "cas"} =>
          call[c].st = agState[call[c].agent]

AtWork == {StateWorking, StateReporting}

\* An agent at work is at the task its worker began, and its worker is at it
\* too; the loop does not get to CompleteAgent while the agent is working.
Faithful(c) ==
    /\ agState[Host[c]] \in AtWork =>
          /\ worker[c].pc \in {"run", "report", "complete"}
          /\ worker[c].began = curTask[Host[c]]
    /\ call[c].pc = "signal" => worker[c].began = curTask[Host[c]]
    /\ \/ worker[c].pc = "complete"
       \/ worker[c].pc = "report" /\ call[c].pc = "idle"
       => agState[Host[c]] # StateWorking

WorkersInv ==
    /\ Enlisted
    /\ \A c \in Callers : OwnCalls(c) /\ Faithful(c)
    /\ ReadsAgree

-----------------------------------------------------------------------------
(* Steps of the workers are steps of the supervisor *)

\* The steps of one worker.
Own(c) ==
    \/ Spawn(c) \/ Beat(c) \/ LookUp(c) \/ PollFails(c) \/ RunEnds(c)
    \/ Reported(c) \/ Handle(c)

\* Each host is one worker's.
LEMMA OneHost ==
    ASSUME NEW c \in Callers
    PROVE  /\ Host[c] \in Agents
           /\ \A d \in Callers : d # c => Host[d] # Host[c]
  BY WorkersAssumption

\* A worker's step is a call of the supervisor, or leaves it alone.
LEMMA OwnRefines ==
    ASSUME TypeOK, WorkerType, NEW c \in Callers, Own(c)
    PROVE  CallNext(c) \/ UNCHANGED vars
<1>0. Host[c] \in Agents /\ NoTask \in TaskID /\ worker[c].task \in TaskID
  BY OneHost DEF TaskID, WorkerType
<1>1. CASE Spawn(c) \/ PollFails(c)
  BY <1>1 DEF Spawn, PollFails
<1>2. CASE Beat(c) \/ LookUp(c) \/ RunEnds(c) \/ Reported(c)
  <2>1. PICK op \in Op, t \in TaskID : CallBegin(c, op, Host[c], t)
    BY <1>0, <1>2, Zenon DEF Beat, LookUp, RunEnds, Reported, Op
  <2> QED
    BY <1>0, <2>1, Zenon DEF CallNext
<1>3. CASE Handle(c)
  BY <1>3, Zenon DEF Handle, CallNext
<1> QED
  BY <1>1, <1>2, <1>3, Zenon DEF Own

\* The other goroutines and the clients go their way: the workers do not move.
LEMMA OthersRefine ==
    ASSUME [WorkersNext]_allVars, \A c \in Callers : ~Own(c)
    PROVE  /\ UNCHANGED worker
           /\ \/ UNCHANGED vars \/ MonNext \/ AsgNext
              \/ \E t \in Tasks : SubmitTask(t)
              \/ \E a \in Agents :
                    \/ RegisterStore(a) \/ RegisterMutex(a)
                    \/ RegisterSession(a) \/ HeartbeatStales(a)
                    \/ CooldownExpires(a) \/ CrashLeavesWindow(a)
  BY Zenon DEF WorkersNext, Own, Silence, allVars

LEMMA StepRefines ==
    TypeOK /\ WorkerType /\ [WorkersNext]_allVars => [Next]_vars
  BY OwnRefines, OthersRefine, Zenon DEF Next

\* What the return of a call means to the loop.
LEMMA ReturnMeans ==
    ASSUME WorkerType, NEW c \in Callers, Returns(c)
    PROVE  /\ \A d \in Callers : d # c => worker'[d] = worker[d]
           /\ call'[c].pc # "idle" => worker'[c] = worker[c]
           /\ call'[c].pc = "idle" =>
                 /\ worker[c].pc = "start" /\ agState' # agState =>
                       /\ worker'[c].pc = "run"
                       /\ worker'[c].began = curTask[Host[c]]
                 /\ worker[c].pc = "start" /\ agState' = agState =>
                       worker'[c].pc = "loop"
                 /\ worker[c].pc = "report" => worker'[c] = worker[c]
                 /\ worker[c].pc \notin {"start", "report"} =>
                       worker'[c].pc = "loop"
<1>1. CASE call'[c].pc # "idle"
  BY <1>1 DEF Returns
<1>2. CASE call'[c].pc = "idle"
  <2>1. CASE worker[c].pc = "start"
    BY <1>2, <2>1 DEF Returns, WorkerType
  <2>2. CASE worker[c].pc = "report"
    BY <1>2, <2>2 DEF Returns, WorkerType
  <2>3. CASE worker[c].pc \notin {"start", "report"}
    BY <1>2, <2>3 DEF Returns, WorkerType
  <2> QED
    BY <2>1, <2>2, <2>3
<1> QED
  BY <1>1, <1>2

\* A worker's step is its own.
LEMMA OwnAlone ==
    ASSUME TypeOK, WorkerType, NEW c \in Callers, Own(c)
    PROVE  /\ \A d \in Callers : d # c =>
                 worker'[d] = worker[d] /\ call'[d] = call[d]
           /\ UNCHANGED <<asg, mon, reg>>
<1>1. /\ \A d \in Callers : d # c => call'[d] = call[d]
      /\ UNCHANGED <<asg, mon, reg>>
  BY OwnRefines, CallAlone, CallFrame DEF vars
<1>2. \A d \in Callers : d # c => worker'[d] = worker[d]
  <2>1. CASE Handle(c)
    BY <2>1, ReturnMeans, Zenon DEF Handle
  <2>2. CASE ~Handle(c)
    BY <2>2 DEF Own, Spawn, Beat, LookUp, PollFails, RunEnds, Reported, To,
                WorkerType
  <2> QED
    BY <2>1, <2>2
<1> QED
  BY <1>1, <1>2

\* The loops' locals stay in their types.
LEMMA WorkerTypeStep ==
    TypeOK /\ WorkerType /\ [WorkersNext]_allVars => WorkerType'
<1> SUFFICES ASSUME TypeOK, WorkerType, [WorkersNext]_allVars
             PROVE  WorkerType'
  OBVIOUS
<1>0. \A c \in Callers : Host[c] \in Agents /\ curTask[Host[c]] \in TaskID
  BY OneHost DEF TypeOK
<1>1. ASSUME NEW c \in Callers, Spawn(c) \/ Beat(c) \/ PollFails(c)
                                \/ RunEnds(c) \/ Reported(c)
      PROVE  WorkerType'
  BY <1>1 DEF Spawn, Beat, PollFails, RunEnds, Reported, To, WorkerType, Phase
<1>2. ASSUME NEW c \in Callers, LookUp(c)
      PROVE  WorkerType'
  <2>1. PICK t \in TaskID : worker' = [worker EXCEPT ![c].pc = "start",
                                                    ![c].task = t]
    BY <1>0, <1>2 DEF LookUp, TaskID
  <2> QED
    BY <2>1 DEF WorkerType, Phase
<1>3. ASSUME NEW c \in Callers, Handle(c)
      PROVE  WorkerType'
  <2>1. Returns(c)
    BY <1>3, Zenon DEF Handle
  <2>2. CASE call'[c].pc # "idle"
    BY <2>1, <2>2 DEF Returns, WorkerType
  <2>3. CASE call'[c].pc = "idle" /\ worker[c].pc = "start"
    <3>1. PICK pc \in Phase, t \in TaskID :
             worker' = [worker EXCEPT ![c] = [@ EXCEPT !.pc = pc, !.began = t]]
      BY <1>0, <2>1, <2>3 DEF Returns, Phase, TaskID
    <3> QED
      BY <3>1 DEF WorkerType
  <2>4. CASE call'[c].pc = "idle" /\ worker[c].pc # "start"
    BY <2>1, <2>4 DEF Returns, WorkerType, Phase, TaskID
  <2> QED
    BY <2>2, <2>3, <2>4
<1>4. CASE UNCHANGED worker
  BY <1>4 DEF WorkerType
<1> QED
  BY <1>1, <1>2, <1>3, <1>4, OthersRefine DEF Own

LEMMA WorkersTypeInv == WorkersSpec => [](TypeOK /\ LocalsBound /\ WorkerType)
<1>1. WorkersInit => TypeOK /\ LocalsBound /\ WorkerType
  <2>1. WorkersInit => WorkerType
    BY DEF WorkersInit, WorkerType, Phase, TaskID
  <2>2. Init => LocalsBound
    BY DEF Init, LocalsBound, asgIdle, monIdle, callIdle
  <2> QED
    BY <2>1, <2>2, TypeInit DEF WorkersInit
<1>2. /\ TypeOK /\ LocalsBound /\ WorkerType /\ [WorkersNext]_allVars
      => (TypeOK /\ LocalsBound /\ WorkerType)'
  BY StepRefines, TypeStep, LocalsStep, WorkerTypeStep
<1> QED
  BY <1>1, <1>2, PTL DEF WorkersSpec

\* The worker loops implement the supervisor's specification: their calls are
\* among those it allows its clients.
THEOREM WorkersUseSupervisor == WorkersSpec => Spec
<1>1. WorkersInit => Init
  BY DEF WorkersInit
<1>2. TypeOK /\ WorkerType /\ [WorkersNext]_allVars => [Next]_vars
  BY StepRefines
<1> QED
  BY <1>1, <1>2, WorkersTypeInv, PTL DEF WorkersSpec, Spec

-----------------------------------------------------------------------------
(* What a worker's call does to its agent *)

\* What the supervisor's proofs establish, and the workers' own invariant.
Ready ==
    /\ TypeOK /\ LocalsBound /\ Guarded /\ BindingsAgree
    /\ WorkerType /\ WorkersInv

\* The events of a worker's calls, each valid in one state.
LEMMA WorkEvents ==
    ASSUME NEW from \in AgentState, NEW op \in Op \ {"Heartbeat"},
           NEW to \in ValidTransition(from, EventOf(op))
    PROVE  /\ op = "StartWork" => from = StateAssigned /\ to = StateWorking
           /\ op = "ReportOutput" => from = StateWorking /\ to = StateReporting
           /\ op = "CompleteAgent" => from = StateReporting /\ to = StateIdle
  BY DEF EventOf, Op, ValidTransition, transitionTable, AgentState, StateIdle,
         StateAssigned, StateWorking, StateReporting, EventTaskAssigned,
         EventWorkStarted, EventOutputReady, EventOutputDelivered,
         EventAgentFailed

\* The state each call of a worker needs.
LEMMA WorkEnabled ==
    /\ ValidTransition(StateWorking, EventOf("ReportOutput")) # {}
    /\ ValidTransition(StateReporting, EventOf("CompleteAgent")) # {}
  BY DEF EventOf, ValidTransition, transitionTable, AgentState, StateIdle,
         StateAssigned, StateWorking, StateReporting, EventTaskAssigned,
         EventWorkStarted, EventOutputReady, EventOutputDelivered,
         EventAgentFailed

LEMMA StatesDiffer ==
    /\ StateIdle \notin AtWork /\ StateAssigned \notin AtWork
    /\ StateAssigned # StateIdle /\ StateWorking # StateReporting
    /\ StateAssigned # StateWorking
  BY DEF AtWork, StateIdle, StateAssigned, StateWorking, StateReporting

\* A call under way has its own agent's mutex once past it; a call that
\* completes an agent has found it idle.
LEMMA CallFacts ==
    ASSUME Ready, NEW c \in Callers, call[c].pc # "idle"
    PROVE  /\ call[c].agent = Host[c] /\ Host[c] \in agents
           /\ worker[c].pc = PhaseOf(call[c].op)
           /\ call[c].pc # "lock" =>
                 CallHolds(c, Host[c]) /\ ~MonHolds(Host[c]) /\ ~AsgHolds(Host[c])
           /\ call[c].pc \in {"get", "set"} => call[c].op = "Heartbeat"
           /\ call[c].pc \in {"read", "cas"} => call[c].op # "Heartbeat"
           /\ call[c].pc \in {"signal", "clear", "uncool"} =>
                 call[c].op = "CompleteAgent" /\ agState[Host[c]] = StateIdle
<1>1. call[c].agent = Host[c] /\ Host[c] \in Agents
  BY OneHost DEF Ready, WorkersInv, OwnCalls
<1>2. call[c].pc # "lock" => CallHolds(c, Host[c])
  BY <1>1 DEF Ready, WorkersInv, OwnCalls, CallHolds
<1> QED
  BY <1>1, <1>2, Exclusion
  DEF Ready, Guarded, WorkersInv, OwnCalls, Known, LockDiscipline, CallShape,
      IdleUnderLock, CallReads, Idle

\* A call that goes on is the same call, and has the mutex from then on.
LEMMA GoesOn ==
    ASSUME Ready, NEW c \in Callers, CallStep(c), ~CallReturn(c)
    PROVE  /\ call[c].pc # "idle" /\ call'[c].agent = call[c].agent
           /\ call'[c].op = call[c].op /\ call'[c].locked
           /\ call'[c].pc = CASE call[c].pc = "lock" /\ call[c].op = "Heartbeat" -> "get"
                              [] call[c].pc = "lock" /\ call[c].op # "Heartbeat" -> "read"
                              [] call[c].pc = "get" -> "set"
                              [] call[c].pc = "read" -> "cas"
                              [] call[c].pc = "cas" -> "signal"
                              [] call[c].pc = "signal" -> "clear"
                              [] call[c].pc = "clear" -> "uncool"
<1>0. call[c] \in CallRec /\ call \in [Callers -> CallRec]
  BY DEF Ready, TypeOK
<1>l. call[c].pc \notin {"idle", "lock"} => call[c].locked
  BY DEF Ready, WorkersInv, OwnCalls
<1>1. CASE CallLock(c)
  BY <1>1, <1>0 DEF CallLock, CallRec
<1>2. CASE HeartbeatGet(c)
  <2>1. call' = [call EXCEPT ![c] =
                   [@ EXCEPT !.pc = "set", !.st = agState[call[c].agent],
                             !.task = curTask[call[c].agent],
                             !.prio = curPrio[call[c].agent]]]
        /\ call[c].pc = "get"
    BY <1>2, Zenon DEF HeartbeatGet
  <2> QED
    BY <2>1, <1>0, <1>l DEF CallRec
<1>3. CASE CallReadState(c)
  <2>1. call' = [call EXCEPT ![c] = [@ EXCEPT !.pc = "cas",
                                              !.st = agState[call[c].agent]]]
        /\ call[c].pc = "read"
    BY <1>3, Zenon DEF CallReadState
  <2> QED
    BY <2>1, <1>0, <1>l DEF CallRec
<1>4. CASE CallCAS(c)
  <2>1. call' = [call EXCEPT ![c].pc = "signal"] /\ call[c].pc = "cas"
    BY <1>4, Zenon DEF CallCAS
  <2> QED
    BY <2>1, <1>0, <1>l DEF CallRec
<1>5. CASE CompleteSignal(c) \/ CompleteClear(c)
  BY <1>5, <1>0, <1>l DEF CompleteSignal, CompleteClear, CallRec
<1> QED
  BY <1>1, <1>2, <1>3, <1>4, <1>5
  DEF CallStep, HeartbeatSet, CompleteUncool

\* A call changes its own agent's record at most: the state in a compare-and-
\* set that finds it as read, the task in ClearCurrentTask.  Heartbeat writes
\* back what it has read.
LEMMA Touches ==
    ASSUME MaxFaults = 0, Ready, NEW c \in Callers, CallStep(c)
    PROVE  /\ \A a \in Agents : a # Host[c] =>
                 agState'[a] = agState[a] /\ curTask'[a] = curTask[a]
           /\ ~CallCAS(c) => agState' = agState
           /\ ~CompleteClear(c) => curTask' = curTask
           /\ agents' = agents
<1>0. /\ call[c].pc # "idle" /\ call[c].agent = Host[c]
      /\ Host[c] \in Agents /\ Host[c] \in agents
      /\ agState \in [Agents -> AgentState] /\ curTask \in [Agents -> TaskID]
  <2>1. call[c].pc # "idle"
    BY DEF CallStep, CallLock, HeartbeatGet, HeartbeatSet, CallReadState,
           CallCAS, CompleteSignal, CompleteClear, CompleteUncool
  <2> QED
    BY <2>1, CallFacts, OneHost DEF Ready, TypeOK
<1>1. CASE HeartbeatSet(c)
  <2>1. call[c].st = agState[Host[c]] /\ call[c].task = curTask[Host[c]]
    BY <1>0, <1>1 DEF HeartbeatSet, Ready, WorkersInv, ReadsAgree,
                      BindingsAgree, CallBinds
  <2>2. /\ agState' = [agState EXCEPT ![Host[c]] = call[c].st]
        /\ curTask' = [curTask EXCEPT ![Host[c]] = call[c].task]
        /\ agents' = agents \cup {Host[c]}
    BY <1>0, <1>1, NoFail, Zenon DEF HeartbeatSet, Ready
  <2> QED
    BY <1>0, <2>1, <2>2
<1>2. CASE CallCAS(c)
  <2>1. /\ agents' = agents /\ curTask' = curTask
        /\ agState' = agState \/ CASAgentState(Host[c], call[c].st, EventOf(call[c].op))
    BY <1>0, <1>2, Zenon DEF CallCAS
  <2> QED
    BY <1>0, <1>2, <2>1 DEF CASAgentState
<1>3. CASE CompleteClear(c)
  BY <1>0, <1>3 DEF CompleteClear, CallCAS
<1>4. CASE ~HeartbeatSet(c) /\ ~CallCAS(c) /\ ~CompleteClear(c)
  BY <1>4 DEF CallStep, CallLock, HeartbeatGet, CallReadState, CompleteSignal,
              CompleteUncool, storeVars
<1> QED
  BY <1>1, <1>2, <1>3, <1>4

\* The compare-and-set of a worker's call succeeds: nobody else could change
\* the state meanwhile.
LEMMA CASSucceeds ==
    ASSUME MaxFaults = 0, Ready, NEW c \in Callers, CallCAS(c)
    PROVE  /\ call[c].pc = "cas"
           /\ \/ /\ call[c].op = "StartWork" /\ CallReturn(c)
                 /\ agState'[Host[c]] = StateWorking /\ agState' # agState
              \/ /\ call[c].op = "ReportOutput" /\ CallReturn(c)
                 /\ agState[Host[c]] = StateWorking
                 /\ agState'[Host[c]] = StateReporting
              \/ /\ call[c].op = "CompleteAgent" /\ ~CallReturn(c)
                 /\ agState[Host[c]] = StateReporting
                 /\ agState'[Host[c]] = StateIdle
<1>0. call[c].pc = "cas"
  BY DEF CallCAS
<1>1. /\ call[c].agent = Host[c] /\ Host[c] \in agents /\ Host[c] \in Agents
      /\ call[c].op # "Heartbeat" /\ call[c].op \in Op
      /\ agState \in [Agents -> AgentState]
  BY <1>0, CallFacts, OneHost DEF Ready, TypeOK, CallRec
<1>2. call[c].st = agState[Host[c]]
  BY <1>0, <1>1 DEF Ready, WorkersInv, ReadsAgree
<1>3. /\ CASAgentState(Host[c], call[c].st, EventOf(call[c].op))
      /\ IF call[c].op = "CompleteAgent"
         THEN call' = [call EXCEPT ![c].pc = "signal"] ELSE CallReturn(c)
  BY <1>1, <1>2, NoFail, Zenon DEF CallCAS, Ready
<1>4. PICK to \in ValidTransition(agState[Host[c]], EventOf(call[c].op)) :
         agState' = [agState EXCEPT ![Host[c]] = to]
  BY <1>2, <1>3, Zenon DEF CASAgentState
<1>5. agState'[Host[c]] = to
  BY <1>1, <1>4
<1>6. call[c].op = "CompleteAgent" => ~CallReturn(c)
  <2>1. call \in [Callers -> CallRec]
    BY DEF Ready, TypeOK
  <2> QED
    BY <1>3, <2>1 DEF CallReturn, callIdle, CallRec
<1> QED
  BY <1>0, <1>1, <1>3, <1>4, <1>5, <1>6, WorkEvents, StatesDiffer DEF Op

\* How a call of a worker can return: what its loop finds afterwards.
LEMMA CallOutcome ==
    ASSUME MaxFaults = 0, Ready, NEW c \in Callers, CallStep(c), CallReturn(c)
    PROVE  \/ /\ worker[c].pc = "start" /\ agState' # agState
              /\ agState'[Host[c]] = StateWorking /\ curTask' = curTask
           \/ /\ worker[c].pc = "report" /\ curTask' = curTask
              /\ agState'[Host[c]] # StateWorking
              /\ agState'[Host[c]] \in AtWork => agState[Host[c]] \in AtWork
           \/ /\ worker[c].pc \in {"beat", "start", "complete"}
              /\ agState' = agState /\ agState[Host[c]] \notin AtWork
<1>r. call'[c].pc = "idle" /\ call \in [Callers -> CallRec]
  <2>1. call \in [Callers -> CallRec]
    BY DEF Ready, TypeOK
  <2>2. call' = [call EXCEPT ![c] = callIdle]
    BY DEF CallReturn
  <2> QED
    BY <2>1, <2>2 DEF callIdle
<1>1. CASE CallCAS(c)
  <2>1. \/ call[c].op = "StartWork" /\ worker[c].pc = "start"
        \/ call[c].op = "ReportOutput" /\ worker[c].pc = "report"
    BY <1>1, CASSucceeds, CallFacts DEF PhaseOf
  <2>2. curTask' = curTask
    BY <1>1 DEF CallCAS
  <2> QED
    BY <1>1, <2>1, <2>2, CASSucceeds, StatesDiffer DEF AtWork
<1>2. CASE HeartbeatGet(c) \/ HeartbeatSet(c)
  <2>1. call[c].pc \in {"get", "set"} /\ ~CallCAS(c)
    BY <1>2 DEF HeartbeatGet, HeartbeatSet, CallCAS
  <2>2. worker[c].pc = "beat"
    BY <2>1, CallFacts DEF PhaseOf
  <2> QED
    BY <2>1, <2>2, Touches DEF Ready, WorkersInv, Faithful
<1>3. CASE CompleteUncool(c)
  <2>1. call[c].pc = "uncool" /\ ~CallCAS(c)
    BY <1>3 DEF CompleteUncool, CallCAS
  <2>2. worker[c].pc = "complete" /\ agState[Host[c]] \notin AtWork
    BY <2>1, CallFacts, StatesDiffer DEF PhaseOf
  <2> QED
    BY <2>1, <2>2, Touches
<1>4. CASE CallReadState(c)
  <2>0. call[c].pc = "read" /\ agState' = agState /\ curTask' = curTask
    BY <1>4 DEF CallReadState, storeVars
  <2>1. /\ call[c].agent = Host[c] /\ Host[c] \in agents
        /\ call[c].op \in Op \ {"Heartbeat"}
        /\ worker[c].pc = PhaseOf(call[c].op)
    BY <2>0, CallFacts DEF Ready, TypeOK, CallRec
  <2>2. ValidTransition(agState[Host[c]], EventOf(call[c].op)) = {}
    <3>1. CASE call' = [call EXCEPT ![c] = [@ EXCEPT !.pc = "cas",
                                                  !.st = agState[Host[c]]]]
      BY <3>1, <1>r DEF CallRec
    <3> QED
      BY <1>4, <2>1, <3>1, NoFail, Zenon DEF CallReadState, Ready
  <2>3. CASE call[c].op = "StartWork"
    BY <2>0, <2>1, <2>3 DEF PhaseOf, Ready, WorkersInv, Faithful
  <2>4. CASE call[c].op = "ReportOutput"
    BY <2>0, <2>1, <2>2, <2>4, WorkEnabled DEF PhaseOf
  <2>5. CASE call[c].op = "CompleteAgent"
    <3>1. worker[c].pc = "complete" /\ agState[Host[c]] # StateWorking
      BY <2>1, <2>5 DEF PhaseOf, Ready, WorkersInv, Faithful
    <3> QED
      BY <2>0, <2>2, <2>5, <3>1, WorkEnabled DEF AtWork
  <2> QED
    BY <2>1, <2>3, <2>4, <2>5 DEF Op
<1>5. ~CallLock(c) /\ ~CompleteSignal(c) /\ ~CompleteClear(c)
  BY <1>r DEF CallLock, CompleteSignal, CompleteClear, CallRec
<1> QED
  BY <1>1, <1>2, <1>3, <1>4, <1>5 DEF CallStep

-----------------------------------------------------------------------------
(* The invariant is kept *)

\* A call ends with the worker faithful, and so does each of its steps.
LEMMA HandleStep ==
    ASSUME MaxFaults = 0, Ready, NEW c \in Callers, Handle(c)
    PROVE  OwnCalls(c)' /\ Faithful(c)'
<1>0. CallStep(c) /\ Returns(c) /\ WorkerType /\ Host[c] \in Agents
  BY OneHost, Zenon DEF Handle, CallStep, Ready
<1>w. /\ agState[Host[c]] \in AtWork =>
            /\ worker[c].pc \in {"run", "report", "complete"}
            /\ worker[c].began = curTask[Host[c]]
      /\ call[c].pc = "signal" => worker[c].began = curTask[Host[c]]
      /\ worker[c].pc = "complete" => agState[Host[c]] # StateWorking
  BY DEF Ready, WorkersInv, Faithful
<1>1. CASE CallReturn(c)
  <2>1. call'[c].pc = "idle"
    BY <1>1 DEF CallReturn, callIdle, Ready, TypeOK
  <2>2. \/ /\ worker'[c].pc = "run" /\ worker'[c].began = curTask'[Host[c]]
           /\ agState'[Host[c]] = StateWorking
        \/ /\ worker'[c] = worker[c] /\ worker[c].pc = "report"
           /\ curTask' = curTask /\ agState'[Host[c]] # StateWorking
           /\ agState'[Host[c]] \in AtWork => agState[Host[c]] \in AtWork
        \/ worker'[c].pc = "loop" /\ agState'[Host[c]] \notin AtWork
    BY <1>0, <1>1, <2>1, CallOutcome, ReturnMeans
  <2> QED
    BY <1>w, <2>1, <2>2 DEF OwnCalls, Faithful
<1>2. CASE ~CallReturn(c)
  <2>1. /\ call[c].pc # "idle" /\ call'[c].agent = call[c].agent
        /\ call'[c].op = call[c].op /\ call'[c].locked
        /\ call'[c].pc \in {"get", "read", "set", "cas", "signal", "clear",
                             "uncool"}
        /\ call'[c].pc = "signal" => call[c].pc = "cas"
    BY <1>0, <1>2, GoesOn DEF CallStep, CallLock, HeartbeatGet, HeartbeatSet,
       CallReadState, CallCAS, CompleteSignal, CompleteClear, CompleteUncool
  <2>2. worker'[c] = worker[c]
    BY <1>0, <2>1, ReturnMeans
  <2>3. OwnCalls(c)'
    BY <2>1, <2>2 DEF OwnCalls, Ready, WorkersInv
  <2>4. CASE CallCAS(c)
    <3>1. /\ agState[Host[c]] = StateReporting /\ agState'[Host[c]] = StateIdle
          /\ curTask' = curTask
      BY <1>2, <2>4, CASSucceeds DEF CallCAS
    <3> QED
      BY <1>w, <2>1, <2>2, <2>3, <3>1, StatesDiffer DEF Faithful, AtWork
  <2>5. CASE CompleteClear(c)
    <3>1. agState' = agState /\ agState[Host[c]] = StateIdle /\ call[c].pc = "clear"
      BY <2>5, CallFacts DEF CompleteClear
    <3> QED
      BY <1>w, <2>1, <2>2, <2>3, <3>1, StatesDiffer DEF Faithful, AtWork
  <2>6. CASE ~CallCAS(c) /\ ~CompleteClear(c)
    <3>1. agState' = agState /\ curTask' = curTask
      BY <1>0, <2>6, Touches
    <3>2. call'[c].pc # "signal"
      BY <1>0, <1>2, <2>1, <2>6 DEF CallStep, CallLock, HeartbeatGet,
         HeartbeatSet, CallReadState, CompleteSignal, CompleteUncool
    <3> QED
      BY <1>w, <2>1, <2>2, <2>3, <3>1, <3>2 DEF Faithful
  <2> QED
    BY <2>3, <2>4, <2>5, <2>6
<1> QED
  BY <1>1, <1>2

\* A call begins at the mutex, in its phase.
LEMMA BeginStep ==
    ASSUME Ready, NEW c \in Callers,
           Beat(c) \/ LookUp(c) \/ RunEnds(c) \/ Reported(c)
    PROVE  /\ OwnCalls(c)' /\ Faithful(c)'
           /\ call'[c].pc = "lock"
           /\ UNCHANGED <<agState, curTask, asg, agentMu>>
<1>0. /\ call \in [Callers -> CallRec] /\ WorkerType /\ Faithful(c)
      /\ worker[c].pc # "none" => Host[c] \in agentMu
  BY DEF Ready, TypeOK, WorkersInv, Enlisted
<1>1. PICK op \in Op, t \in TaskID :
            /\ CallBegin(c, op, Host[c], t)
            /\ worker'[c].pc = PhaseOf(op)
            /\ worker'[c].began = worker[c].began
            /\ worker[c].pc \in {"loop", "run", "report"}
            /\ op = "ReportOutput" <=> worker[c].pc = "run"
            /\ op = "CompleteAgent" <=> worker[c].pc = "report"
  <2>1. CASE Beat(c)
    BY <1>0, <2>1 DEF Beat, To, WorkerType, PhaseOf, Op, TaskID
  <2>2. CASE LookUp(c)
    BY <1>0, <2>2 DEF LookUp, WorkerType, PhaseOf, Op, TaskID
  <2>3. CASE RunEnds(c)
    BY <1>0, <2>3 DEF RunEnds, To, WorkerType, PhaseOf, Op, TaskID
  <2>4. CASE Reported(c)
    BY <1>0, <2>4 DEF Reported, To, WorkerType, PhaseOf, Op, TaskID
  <2> QED
    BY <2>1, <2>2, <2>3, <2>4
<1>2. /\ call[c].pc = "idle" /\ call'[c].pc = "lock" /\ call'[c].op = op
      /\ call'[c].agent = Host[c]
      /\ UNCHANGED <<agState, curTask, asg, agentMu>>
  BY <1>0, <1>1 DEF CallBegin, callIdle, storeVars, svVars, CallUnchanged
<1> QED
  BY <1>0, <1>1, <1>2 DEF OwnCalls, Faithful, PhaseOf, Op

\* A step of one worker disturbs neither the others nor tryAssignTask.
LEMMA OwnStep ==
    ASSUME MaxFaults = 0, Ready, NEW c \in Callers, Own(c)
    PROVE  WorkersInv'
<1>0. /\ TypeOK /\ WorkerType /\ WorkersInv
      /\ UNCHANGED <<asg, mon, reg>> /\ agentMu' = agentMu
      /\ \A d \in Callers : d # c =>
            worker'[d] = worker[d] /\ call'[d] = call[d]
  <2>1. agentMu' = agentMu
    BY OwnRefines
    DEF Ready, vars, CallNext, CallBegin, CallLock, HeartbeatGet,
        HeartbeatSet, CallReadState, CallCAS, CompleteSignal, CompleteClear,
        CompleteUncool, svVars
  <2> QED
    BY <2>1, OwnAlone DEF Ready
<1>1. /\ OwnCalls(c)' /\ Faithful(c)'
      /\ \A a \in Agents : a # Host[c] =>
            agState'[a] = agState[a] /\ curTask'[a] = curTask[a]
      /\ \/ agState' = agState
         \/ CallCAS(c) /\ CallStep(c)
      /\ \/ call'[c] = call[c]
         \/ CallStep(c)
         \/ call'[c].pc = "lock"
      /\ worker[c].pc = "none" =>
            worker'[c].pc = "none" \/ reg[Host[c]] = "done"
  <2>1. CASE Spawn(c) \/ PollFails(c)
    <3>1. /\ UNCHANGED <<agState, curTask, call>>
          /\ worker[c].pc \in {"none", "loop"} /\ worker'[c].pc \in {"loop", "exit"}
          /\ worker'[c].began = worker[c].began
          /\ worker[c].pc = "none" => reg[Host[c]] = "done"
      BY <1>0, <2>1 DEF Spawn, PollFails, To, vars, WorkerType
    <3>2. call[c].pc = "idle"
      BY <3>1, CallFacts DEF PhaseOf
    <3> QED
      BY <1>0, <3>1, <3>2 DEF WorkersInv, OwnCalls, Faithful
  <2>2. CASE Beat(c) \/ LookUp(c) \/ RunEnds(c) \/ Reported(c)
    BY <2>2, BeginStep DEF Beat, LookUp, RunEnds, Reported
  <2>3. CASE Handle(c)
    <3>1. CallStep(c)
      BY <2>3, Zenon DEF Handle, CallStep
    <3>2. worker[c].pc # "none"
      <4>1. call[c].pc # "idle"
        BY <3>1 DEF CallStep, CallLock, HeartbeatGet, HeartbeatSet,
           CallReadState, CallCAS, CompleteSignal, CompleteClear,
           CompleteUncool
      <4> QED
        BY <4>1, CallFacts DEF PhaseOf
    <3> QED
      BY <2>3, <3>1, <3>2, HandleStep, Touches
  <2> QED
    BY <2>1, <2>2, <2>3 DEF Own
<1>2. Enlisted'
  BY <1>0, <1>1, OneHost DEF WorkersInv, Enlisted
<1>3. \A d \in Callers : OwnCalls(d)' /\ Faithful(d)'
  <2> SUFFICES ASSUME NEW d \in Callers, d # c PROVE OwnCalls(d)' /\ Faithful(d)'
    BY <1>1
  <2>1. Host[d] \in Agents /\ Host[d] # Host[c]
    BY OneHost
  <2> QED
    BY <1>0, <1>1, <2>1 DEF WorkersInv, OwnCalls, Faithful
<1>4. ReadsAgree'
  <2>1. asg.pc \in {"get", "set"} => agState'[asg.agent] = agState[asg.agent]
    <3>1. SUFFICES ASSUME asg.pc \in {"get", "set"}, agState' # agState
                   PROVE  asg.agent # Host[c] /\ asg.agent \in Agents
      BY <1>1
    <3>2. CallCAS(c) /\ call[c].pc = "cas"
      BY <1>1, <3>1 DEF CallCAS
    <3>3. AsgHolds(asg.agent) /\ asg.agent \in Agents
      BY <3>1 DEF AsgHolds, AsgLocked, Ready, LocalsBound
    <3>4. ~AsgHolds(Host[c])
      BY <3>2, CallFacts
    <3> QED
      BY <3>3, <3>4
  <2>2. ASSUME NEW d \in Callers, call'[d].pc \in {"set", "cas"}
        PROVE  call'[d].st = agState'[call'[d].agent]
    <3>1. CASE d # c
      <4>1. call[d].agent = Host[d] /\ Host[d] \in Agents /\ Host[d] # Host[c]
        BY <1>0, <2>2, <3>1, CallFacts, OneHost
      <4> QED
        BY <1>0, <1>1, <2>2, <3>1, <4>1 DEF WorkersInv, ReadsAgree
    <3>2. CASE d = c /\ call'[c] = call[c]
      <4>1. ~CallCAS(c)
        BY <2>2, <3>2, CASSucceeds DEF CallCAS, CallReturn, callIdle, Ready,
           TypeOK, CallRec
      <4> QED
        BY <1>0, <1>1, <2>2, <3>2, <4>1 DEF WorkersInv, ReadsAgree
    <3>3. CASE d = c /\ CallStep(c)
      <4>1. call \in [Callers -> CallRec]
        BY DEF Ready, TypeOK
      <4>2. ~CallReturn(c)
        BY <2>2, <3>3, <4>1 DEF CallReturn, callIdle
      <4>3. call[c].pc \in {"get", "read"} /\ call'[c].agent = call[c].agent
        BY <2>2, <3>3, <4>2, GoesOn DEF CallStep, CallLock, HeartbeatGet,
           HeartbeatSet, CallReadState, CallCAS, CompleteSignal,
           CompleteClear, CompleteUncool
      <4>4. /\ \/ call' = [call EXCEPT ![c] =
                      [@ EXCEPT !.pc = "set", !.st = agState[call[c].agent],
                                !.task = curTask[call[c].agent],
                                !.prio = curPrio[call[c].agent]]]
               \/ call' = [call EXCEPT ![c] =
                      [@ EXCEPT !.pc = "cas", !.st = agState[call[c].agent]]]
            /\ agState' = agState
        <5>1. CASE HeartbeatGet(c)
          BY <4>2, <5>1, Zenon DEF HeartbeatGet, storeVars
        <5>2. CASE CallReadState(c)
          BY <4>2, <5>2, Zenon DEF CallReadState, storeVars
        <5> QED
          BY <3>3, <4>3, <5>1, <5>2 DEF CallStep, CallLock, HeartbeatSet,
             CallCAS, CompleteSignal, CompleteClear, CompleteUncool
      <4>5. call'[c].st = agState[call[c].agent]
        BY <4>1, <4>4 DEF CallRec
      <4> QED
        BY <3>3, <4>3, <4>4, <4>5, Zenon
    <3> QED
      BY <1>1, <2>2, <3>1, <3>2, <3>3
  <2> QED
    BY <1>0, <2>1, <2>2 DEF WorkersInv, ReadsAgree
<1> QED
  BY <1>2, <1>3, <1>4 DEF WorkersInv

\* crashAgent only takes agents back to idle, under their mutex.
LEMMA MonChanges ==
    ASSUME TypeOK, LocalsBound, MonNext
    PROVE  /\ \A a \in Agents :
                 \/ agState'[a] = agState[a]
                 \/ agState'[a] = StateIdle /\ MonHolds(a)
           /\ UNCHANGED <<curTask, agentMu>>
<1>1. CASE MonCAS
  <2>1. PICK m \in Agents : m = mon.agent
    BY <1>1 DEF MonCAS, LocalsBound
  <2>2. \/ CASAgentState(m, mon.st, EventAgentFailed)
        \/ agState' = agState
    BY <1>1, <2>1, Zenon DEF MonCAS
  <2>3. MonHolds(m)
    BY <1>1, <2>1 DEF MonCAS, MonHolds, MonLocked
  <2>4. UNCHANGED <<curTask, agentMu>>
    BY <1>1 DEF MonCAS, svVars
  <2>5. CASE CASAgentState(m, mon.st, EventAgentFailed)
    <3>1. /\ \A a \in Agents : a # m => agState'[a] = agState[a]
          /\ agState'[m] = StateIdle
      BY <2>5, CASEffect DEF Idle
    <3> QED
      BY <2>3, <2>4, <3>1
  <2> QED
    BY <2>2, <2>4, <2>5
<1>2. CASE ~MonCAS
  <2>1. UNCHANGED <<agState, curTask, agentMu>>
    <3>1. CASE MonList \/ MonEnd \/ MonMutex \/ MonLock \/ MonPreRead
               \/ \E a \in Agents : MonRead(a)
      BY <3>1 DEF MonList, MonEnd, MonRead, MonMutex, MonLock, MonPreRead,
         storeVars, svVars
    <3>2. CASE MonSentinel \/ MonReadState \/ MonDefer \/ MonRequeue
               \/ MonPolicy \/ MonDestroy
      BY <3>2 DEF MonSentinel, MonReadState, MonDefer, MonRequeue, MonPolicy,
         MonDestroy, storeVars, svVars
    <3> QED
      BY <1>2, <3>1, <3>2, Zenon DEF MonNext
  <2> QED
    BY <2>1
<1> QED
  BY <1>1, <1>2

\* tryAssignTask makes an idle agent assigned, and gives it its task while it
\* is still assigned; both under the mutex.
LEMMA AsgChanges ==
    ASSUME MaxFaults = 0, TypeOK, LocalsBound, ReadsAgree, AsgNext
    PROVE  /\ \A a \in Agents :
                 /\ \/ agState'[a] = agState[a]
                    \/ agState'[a] = StateAssigned /\ AsgHolds(a)
                 /\ \/ curTask'[a] = curTask[a]
                    \/ /\ agState[a] = StateAssigned /\ AsgHolds(a)
                       /\ agState'[a] = StateAssigned
           /\ asg'.pc \in {"get", "set"} =>
                 agState'[asg'.agent] = StateAssigned
           /\ asg'.pc = "set" => asg'.st = StateAssigned
           /\ UNCHANGED agentMu
<1>0. /\ ~Fail /\ asg \in AsgRec /\ agState \in [Agents -> AgentState]
      /\ curTask \in [Agents -> TaskID]
  BY NoFail DEF TypeOK
<1>1. CASE AsgCAS
  <2>1. PICK m \in Agents : m = asg.agent
    BY <1>1 DEF AsgCAS, LocalsBound
  <2>2. AsgHolds(m) /\ UNCHANGED <<curTask, agentMu>>
    BY <1>1, <2>1 DEF AsgCAS, AsgHolds, AsgLocked
  <2>3. CASE asg' = [asg EXCEPT !.pc = "get"]
             /\ CASAgentState(m, asg.st, EventTaskAssigned)
    <3>1. PICK to \in ValidTransition(asg.st, EventTaskAssigned) :
             agState' = [agState EXCEPT ![m] = to]
      BY <2>3 DEF CASAgentState
    <3>2. to = StateAssigned
      BY <3>1 DEF ValidTransition, transitionTable, StateIdle, StateAssigned,
         StateWorking, StateReporting, EventTaskAssigned, EventWorkStarted,
         EventOutputReady, EventOutputDelivered, EventAgentFailed
    <3>3. asg'.pc = "get" /\ asg'.agent = m
      BY <1>0, <2>1, <2>3 DEF AsgRec
    <3> QED
      BY <1>0, <2>2, <3>1, <3>2, <3>3
  <2>4. CASE agState' = agState /\ asg'.pc = "requeue"
    BY <2>2, <2>4
  <2> QED
    BY <1>0, <1>1, <2>1, <2>3, <2>4 DEF AsgCAS, AsgRec
<1>2. CASE AsgGetFields
  BY <1>0, <1>2 DEF AsgGetFields, AsgRec, ReadsAgree, storeVars, svVars
<1>3. CASE AsgSetFields
  <2>1. PICK m \in Agents : m = asg.agent
    BY <1>3 DEF AsgSetFields, LocalsBound
  <2>2. /\ agState' = [agState EXCEPT ![m] = asg.st] /\ asg' = asgIdle
        /\ curTask' = [curTask EXCEPT ![m] = asg.task]
        /\ agentMu' = agentMu
    BY <1>0, <1>3, <2>1, Zenon DEF AsgSetFields
  <2>3. /\ AsgHolds(m) /\ asg.st = StateAssigned
        /\ agState[m] = StateAssigned
    BY <1>3, <2>1 DEF AsgSetFields, AsgHolds, AsgLocked, ReadsAgree
  <2> QED
    BY <1>0, <2>2, <2>3 DEF asgIdle
<1>4. CASE ~AsgCAS /\ ~AsgGetFields /\ ~AsgSetFields
  <2>1. UNCHANGED <<agState, curTask, agentMu>>
    BY <1>4 DEF AsgNext, AsgDequeue, AsgList, AsgSnapshot, AsgScan,
       AsgScanEnd, AsgRecheck, AsgMutex, AsgLock, AsgReadState,
       AsgRequeueLocked, AsgRequeue, storeVars, svVars
  <2>2. asg'.pc \notin {"get", "set"} \/ asg' = asg
    <3>1. CASE AsgDequeue \/ AsgList \/ AsgSnapshot \/ AsgScanEnd
               \/ \E a \in Agents : AsgScan(a)
      BY <1>0, <3>1 DEF AsgDequeue, AsgList, AsgSnapshot, AsgScan, AsgScanEnd,
         AsgRec
    <3>2. CASE AsgRecheck \/ AsgMutex \/ AsgLock
      BY <1>0, <3>2 DEF AsgRecheck, AsgMutex, AsgLock, AsgRec
    <3>3. CASE AsgReadState
      BY <1>0, <3>3 DEF AsgReadState, AsgRec
    <3>4. CASE AsgRequeueLocked \/ AsgRequeue
      BY <3>4 DEF AsgRequeueLocked, AsgRequeue, asgIdle
    <3> QED
      BY <1>4, <3>1, <3>2, <3>3, <3>4, Zenon DEF AsgNext
  <2> QED
    BY <2>1, <2>2 DEF ReadsAgree
<1> QED
  BY <1>1, <1>2, <1>3, <1>4

\* What a step of the other goroutines does to the agents' records.
Drift ==
    /\ \A a \in Agents :
          /\ \/ agState'[a] = agState[a]
             \/ /\ agState'[a] \in {StateIdle, StateAssigned}
                /\ MonHolds(a) \/ AsgHolds(a) \/ a \notin agents
          /\ \/ curTask'[a] = curTask[a]
             \/ agState'[a] = StateAssigned /\ AsgHolds(a)
    /\ asg'.pc \in {"get", "set"} => agState'[asg'.agent] = StateAssigned
    /\ asg'.pc = "set" => asg'.st = StateAssigned

\* A step that is no worker's leaves every worker faithful.
LEMMA OthersStep ==
    ASSUME MaxFaults = 0, Ready, [WorkersNext]_allVars,
           \A c \in Callers : ~Own(c)
    PROVE  WorkersInv'
<1>0. /\ TypeOK /\ LocalsBound /\ LockDiscipline /\ Known /\ ReadsAgree
      /\ UNCHANGED worker
  BY OthersRefine DEF Ready, Guarded, WorkersInv
<1>1. UNCHANGED call
  BY OthersRefine, MonFrame, AsgFrame
  DEF SubmitTask, RegisterStore, RegisterMutex, RegisterSession,
      HeartbeatStales, CooldownExpires, CrashLeavesWindow, vars
<1>2. Enlisted'
  <2>1. agentMu \subseteq agentMu'
    BY <1>0, OthersRefine, MonChanges, AsgChanges
    DEF SubmitTask, RegisterStore, RegisterMutex, RegisterSession,
        HeartbeatStales, CooldownExpires, CrashLeavesWindow, vars, svVars
  <2>2. \A a \in Agents : reg'[a] \in {"mutexed", "done"} => a \in agentMu'
    BY <1>0, <2>1, OthersRefine, MonFrame, AsgFrame
    DEF SubmitTask, RegisterStore, RegisterMutex, RegisterSession,
        HeartbeatStales, CooldownExpires, CrashLeavesWindow, vars, Ready,
        WorkersInv, Enlisted, TypeOK
  <2> QED
    BY <1>0, <2>1, <2>2 DEF Ready, WorkersInv, Enlisted
<1>3. Drift
  <2>1. CASE MonNext
    <3>1. asg.pc \in {"get", "set"} =>
            asg.agent \in Agents /\ ~MonHolds(asg.agent)
      BY <1>0, Exclusion DEF LocalsBound, AsgHolds, AsgLocked
    <3> QED
      BY <1>0, <2>1, <3>1, MonChanges, MonFrame DEF ReadsAgree, Drift
  <2>2. CASE AsgNext
    BY <1>0, <2>2, AsgChanges DEF Drift
  <2>3. ASSUME NEW a \in Agents, RegisterStore(a)
        PROVE  Drift
    <3>1. /\ a \notin agents /\ agState' = [agState EXCEPT ![a] = StateIdle]
          /\ curTask' = [curTask EXCEPT ![a] = NoTask] /\ asg' = asg
          /\ curTask[a] = NoTask
      BY <1>0, <2>3 DEF RegisterStore, Known
    <3>2. asg.pc \in {"get", "set"} => asg.agent \in agents
      BY <1>0 DEF Known, AsgLocked
    <3> QED
      BY <1>0, <3>1, <3>2 DEF ReadsAgree, TypeOK, Drift
  <2>4. CASE UNCHANGED <<agState, curTask, asg>>
    BY <1>0, <2>4 DEF ReadsAgree, Drift
  <2>5. \/ MonNext \/ AsgNext \/ \E a \in Agents : RegisterStore(a)
        \/ UNCHANGED <<agState, curTask, asg>>
    BY OthersRefine
    DEF SubmitTask, RegisterMutex, RegisterSession, HeartbeatStales,
        CooldownExpires, CrashLeavesWindow, vars, storeVars
  <2> QED
    BY <2>1, <2>2, <2>3, <2>4, <2>5
<1>4. ASSUME NEW c \in Callers
      PROVE  /\ OwnCalls(c)' /\ Faithful(c)'
             /\ call[c].pc \in {"set", "cas"} =>
                   call[c].st = agState'[call[c].agent]
  <2>1. /\ Host[c] \in Agents /\ OwnCalls(c) /\ Faithful(c)
        /\ call[c].pc \notin {"idle", "lock"} =>
              /\ call[c].agent = Host[c] /\ Host[c] \in agents
              /\ ~MonHolds(Host[c]) /\ ~AsgHolds(Host[c])
    BY OneHost, CallFacts DEF Ready, WorkersInv
  <2>2. OwnCalls(c)'
    BY <1>0, <1>1, <2>1 DEF OwnCalls
  <2>3. Faithful(c)'
    BY <1>0, <1>1, <1>3, <2>1, StatesDiffer DEF Faithful, AtWork, Drift
  <2> QED
    BY <1>0, <1>3, <2>1, <2>2, <2>3 DEF ReadsAgree, Drift
<1> QED
  BY <1>1, <1>2, <1>3, <1>4 DEF WorkersInv, ReadsAgree, Drift

LEMMA WorkersInvariant ==
    WorkersSpec => [](Ready /\ OnePlaceEach)
<1>0. MaxFaults = 0
  BY WorkersAssumption
<1>1. WorkersInit => WorkersInv
  <2> SUFFICES ASSUME WorkersInit PROVE WorkersInv
    OBVIOUS
  <2>1. /\ \A c \in Callers :
              /\ worker[c].pc = "none" /\ call[c].pc = "idle"
              /\ Host[c] \in Agents /\ agState[Host[c]] = StateIdle
        /\ \A a \in Agents : reg[a] = "new"
        /\ asg.pc = "idle"
    BY OneHost DEF WorkersInit, Init, asgIdle, callIdle
  <2> QED
    BY <2>1, StatesDiffer
    DEF WorkersInv, Enlisted, OwnCalls, Faithful, ReadsAgree
<1>2. Ready /\ [WorkersNext]_allVars => WorkersInv'
  BY <1>0, OwnStep, OthersStep
<1>3. WorkersSpec => [](BindingsAgree /\ OnePlaceEach)
  <2>1. Spec => [](BindingsAgree /\ OnePlaceEach)
    BY <1>0, PlacesInv
  <2> QED
    BY <2>1, WorkersUseSupervisor, PTL
<1> QED
  BY <1>1, <1>2, <1>3, WorkersUseSupervisor, WorkersTypeInv, GuardedInv, PTL
  DEF WorkersSpec, Ready

\* An agent the store calls WORKING or REPORTING has its worker at it, so that
\* it is either brought to its completion or found silent by the monitor.
THEOREM BusyIsWorked == WorkersSpec => []BusyMeansWorked
<1>1. Ready => BusyMeansWorked
  BY DEF Ready, WorkersInv, Faithful, BusyMeansWorked, AtWork
<1> QED
  BY <1>1, WorkersInvariant, PTL

\* Under the worker loops too, a submitted task is in exactly one place.
THEOREM WorkersKeepOnePlace == WorkersSpec => []TaskHasOnePlace
<1>1. Spec => []TaskHasOnePlace
  BY TasksHaveOnePlace, WorkersAssumption
<1> QED
  BY <1>1, WorkersUseSupervisor, PTL

\* CompleteAgent signals the task the worker began, and nobody else signals:
\* a run that a crash has overtaken never completes the agent's next task.
THEOREM CompletionIsHonest == WorkersSpec => HonestCompletion
<1>1. Ready /\ [WorkersNext]_allVars =>
         [\A t \in Tasks : t \in done' \ done =>
            \E c \in Callers :
               worker[c].pc = "complete" /\ worker[c].began = t]_allVars
  <2> SUFFICES ASSUME Ready, [WorkersNext]_allVars,
                      NEW t \in Tasks, t \in done', t \notin done
               PROVE  \E c \in Callers :
                         worker[c].pc = "complete" /\ worker[c].began = t
    OBVIOUS
  <2>1. PICK c \in Callers : CompleteSignal(c)
    <3>1. MonNext \/ AsgNext => done' = done
      BY MonFrame, AsgFrame
    <3> QED
      BY <3>1, OwnRefines, OthersRefine
      DEF Ready, SubmitTask, RegisterStore, RegisterMutex, RegisterSession,
          HeartbeatStales, CooldownExpires, CrashLeavesWindow, vars,
          clientVars, CallNext, CallBegin, CallLock, HeartbeatGet,
          HeartbeatSet, CallReadState, CallCAS, CompleteClear, CompleteUncool
  <2>2. /\ call[c].pc = "signal" /\ call[c].agent = Host[c]
        /\ Host[c] \in agents /\ worker[c].pc = "complete"
        /\ worker[c].began = curTask[Host[c]]
    BY <2>1, CallFacts DEF CompleteSignal, PhaseOf, Ready, WorkersInv, Faithful
  <2>3. curTask[Host[c]] # NoTask
    BY <2>2, OneHost DEF Ready, BindingsAgree, Answers
  <2>4. done' = done \cup {curTask[Host[c]]}
    BY <2>1, <2>2, <2>3, NoFail, WorkersAssumption, Zenon
    DEF CompleteSignal, Ready
  <2> QED
    BY <2>2, <2>4
<1> QED
  BY <1>1, WorkersInvariant, PTL DEF WorkersSpec, HonestCompletion
=============================================================================
