-------------------------- MODULE SupervisorProofs --------------------------
(***************************************************************************)
(* Machine-checked proofs about module Supervisor, for any number of       *)
(* agents, tasks, priorities and handler goroutines.                       *)
(***************************************************************************)
EXTENDS SupervisorInvariant, TLAPS

-----------------------------------------------------------------------------
(* Facts about the operators the actions are built from. *)

\* The transition table moves between agent states only.
LEMMA TransitionType ==
    ASSUME NEW from, NEW event
    PROVE  ValidTransition(from, event) \subseteq AgentState
  BY DEF ValidTransition, AgentState, StateIdle

\* A compare-and-set writes an agent state.
LEMMA CASType ==
    ASSUME NEW a \in Agents, NEW expected, NEW event,
           agState \in [Agents -> AgentState],
           CASAgentState(a, expected, event)
    PROVE  agState' \in [Agents -> AgentState]
  BY TransitionType DEF CASAgentState

\* A failed call leaves a legal number of faults.
LEMMA FailType ==
    ASSUME faults \in 0 .. MaxFaults, Fail \/ UNCHANGED faults
    PROVE  faults' \in 0 .. MaxFaults
  BY ConstantsAssumption DEF Fail

\* Locking and unlocking keep the owners in their type.
LEMMA OwnerType ==
    ASSUME owner \in [Agents -> Procs \cup {None}], NEW a, NEW p \in Procs,
           Lock(a, p) \/ Unlock(a)
    PROVE  owner' \in [Agents -> Procs \cup {None}]
  BY DEF Lock, Unlock

\* A queue with one more entry, or one fewer where there is one.
LEMMA RequeueType ==
    ASSUME queue \in [Tasks \X Score -> Nat], faults \in 0 .. MaxFaults,
           NEW t, NEW p, Requeue(t, p)
    PROVE  /\ queue' \in [Tasks \X Score -> Nat]
           /\ faults' \in 0 .. MaxFaults
<1>1. queue' \in [Tasks \X Score -> Nat]
  <2>1. CASE EnqueueTask(t, p)
    <3> DEFINE e == <<t, p>>
    <3>1. CASE e \in Tasks \X Score
      <4>1. queue[e] + 1 \in Nat
        BY <3>1
      <4>2. queue' = [queue EXCEPT ![e] = queue[e] + 1]
        BY <2>1 DEF EnqueueTask
      <4> HIDE DEF e
      <4> QED
        BY <3>1, <4>1, <4>2
    <3>2. CASE e \notin Tasks \X Score
      <4>1. queue' = [queue EXCEPT ![e] = queue[e] + 1]
        BY <2>1 DEF EnqueueTask
      <4> HIDE DEF e
      <4> QED
        BY <3>2, <4>1
    <3> QED
      BY <3>1, <3>2
  <2>2. CASE UNCHANGED queue
    BY <2>2
  <2> QED
    BY <2>1, <2>2 DEF Requeue
<1>2. Fail \/ UNCHANGED faults
  BY Zenon DEF Requeue
<1> QED
  BY <1>1, <1>2, FailType

\* The locals of the loops and handlers at rest.
LEMMA IdleTypes ==
    asgIdle \in AsgRec /\ monIdle \in MonRec /\ callIdle \in CallRec
  BY DEF asgIdle, monIdle, callIdle, AsgRec, MonRec, CallRec, AsgPC, MonPC,
         CallPC, TaskID, Score, AgentID, AgentState, StateIdle, Op

-----------------------------------------------------------------------------
(* Type correctness *)

LEMMA TypeInit == Init => TypeOK
<1> SUFFICES ASSUME Init PROVE TypeOK
  OBVIOUS
<1>1. faults \in 0 .. MaxFaults /\ queue \in [Tasks \X Score -> Nat]
  BY ConstantsAssumption DEF Init
<1>2. call \in [Callers -> CallRec]
  BY IdleTypes DEF Init
<1> QED
  BY <1>1, <1>2, IdleTypes
  DEF Init, TypeOK, TaskID, Score, Cooldown, RegPC, AgentState, StateIdle

\* Every step of the heartbeat monitor keeps the types.
LEMMA MonType ==
    ASSUME TypeOK, LocalsBound, MonNext
    PROVE  TypeOK'
<1>t. mon \in MonRec /\ agents \subseteq Agents
  BY DEF TypeOK
<1>1. ASSUME MonList PROVE TypeOK'
  <2>1. mon' \in MonRec
    BY <1>1, <1>t, Zenon
    DEF MonList, MonRec, MonPC
  <2> QED
    BY <1>1, <2>1, FailType
    DEF MonList, MonUnchanged, TypeOK, storeVars,
        svVars, benchVars, clientVars
<1>2. ASSUME MonEnd PROVE TypeOK'
  <2>1. mon' \in MonRec
    BY <1>2, <1>t, IdleTypes, Zenon
    DEF MonEnd, MonRec
  <2> QED
    BY <1>2, <2>1
    DEF MonEnd, MonUnchanged, TypeOK, storeVars,
        svVars, benchVars, clientVars
<1>3. ASSUME NEW a \in Agents, MonRead(a) PROVE TypeOK'
  <2>1. mon' \in MonRec
    BY <1>3, <1>t, Zenon
    DEF MonRead, MonRec, MonPC, AgentID
  <2> QED
    BY <1>3, <2>1, FailType
    DEF MonRead, MonUnchanged, TypeOK, storeVars,
        svVars, benchVars, clientVars
<1>4. ASSUME MonMutex PROVE TypeOK'
  <2>1. mon' \in MonRec
    BY <1>4, <1>t, IdleTypes, Zenon
    DEF MonMutex, MonRec, MonPC, MonReturn
  <2> QED
    BY <1>4, <2>1
    DEF MonMutex, MonUnchanged, TypeOK, storeVars,
        svVars, benchVars, clientVars
<1>5. ASSUME MonLock PROVE TypeOK'
  <2>1. mon' \in MonRec
    BY <1>5, <1>t, Zenon
    DEF MonLock, MonRec, MonPC
  <2> QED
    BY <1>5, <2>1, OwnerType
    DEF MonLock, MonUnchanged, TypeOK, Procs, storeVars,
        svVars, benchVars, clientVars
<1>6. ASSUME MonPreRead PROVE TypeOK'
  <2>1. mon' \in MonRec
    <3>1. CASE MonReturn
      BY <1>t, <3>1, IdleTypes, Zenon DEF MonReturn, MonRec, MonPC
    <3>2. CASE mon' = [mon EXCEPT !.pc = "sentinel",
                                  !.task = curTask[mon.agent],
                                  !.prio = curPrio[mon.agent]]
      <4>1. curTask[mon.agent] \in TaskID /\ curPrio[mon.agent] \in Score
        BY <1>6 DEF MonPreRead, LocalsBound, TypeOK
      <4> QED
        BY <1>t, <3>2, <4>1, Zenon DEF MonRec, MonPC
    <3> QED
      BY <1>6, <3>1, <3>2 DEF MonPreRead
  <2> QED
    BY <1>6, <2>1, FailType
    DEF MonPreRead, MonUnchanged, TypeOK, Unlock, storeVars,
        svVars, benchVars, clientVars
<1>7. ASSUME MonSentinel PROVE TypeOK'
  <2>1. mon' \in MonRec
    BY <1>7, <1>t, Zenon
    DEF MonSentinel, MonRec, MonPC
  <2> QED
    BY <1>7, <2>1
    DEF MonSentinel, MonUnchanged, TypeOK, Cooldown, storeVars,
        svVars, benchVars, clientVars
<1>8. ASSUME MonReadState PROVE TypeOK'
  <2>0. agState[mon.agent] \in AgentState
    BY <1>8 DEF MonReadState, LocalsBound, TypeOK
  <2>1. mon' \in MonRec
    BY <1>8, <1>t, <2>0, Zenon DEF MonReadState, MonRec, MonPC
  <2> QED
    BY <1>8, <2>1, FailType
    DEF MonReadState, MonUnchanged, TypeOK, storeVars,
        svVars, benchVars, clientVars
<1>9. ASSUME MonCAS PROVE TypeOK'
  <2>1. mon' \in MonRec
    BY <1>9, <1>t, Zenon
    DEF MonCAS, MonRec, MonPC
  <2>2. mon.agent \in Agents /\ mon.task \in TaskID /\ mon.prio \in Score
        /\ mon.st \in AgentState
    BY <1>9 DEF MonCAS, TypeOK, LocalsBound, MonRec
  <2> QED
    BY <1>9, <2>1, <2>2, FailType, CASType
    DEF MonCAS, MonUnchanged, TypeOK, storeVars,
        svVars, benchVars, clientVars
<1>10. ASSUME MonDefer PROVE TypeOK'
  <2>1. mon' \in MonRec
    BY <1>10, <1>t, IdleTypes, Zenon
    DEF MonDefer, MonRec, MonPC, MonReturn
  <2> QED
    BY <1>10, <2>1
    DEF MonDefer, MonUnchanged, TypeOK, Cooldown, Unlock, storeVars,
        svVars, benchVars, clientVars
<1>11. ASSUME MonRequeue PROVE TypeOK'
  <2>1. mon' \in MonRec
    BY <1>11, <1>t, Zenon
    DEF MonRequeue, MonRec, MonPC
  <2> QED
    BY <1>11, <2>1, RequeueType
    DEF MonRequeue, MonUnchanged, TypeOK, storeVars,
        svVars, benchVars, clientVars
<1>12. ASSUME MonPolicy PROVE TypeOK'
  <2>1. mon' \in MonRec
    BY <1>12, <1>t, Zenon
    DEF MonPolicy, MonRec, MonPC
  <2>2. mon.agent \in Agents /\ mon.task \in TaskID /\ mon.prio \in Score
        /\ mon.st \in AgentState
    BY <1>12 DEF MonPolicy, TypeOK, LocalsBound, MonRec
  <2> QED
    BY <1>12, <2>1, <2>2
    DEF MonPolicy, MonUnchanged, TypeOK, Cooldown, storeVars,
        svVars, benchVars, clientVars
<1>13. ASSUME MonDestroy PROVE TypeOK'
  <2>1. mon' \in MonRec
    BY <1>13, <1>t, IdleTypes, Zenon
    DEF MonDestroy, MonRec, MonPC, MonReturn
  <2> QED
    BY <1>13, <2>1, FailType
    DEF MonDestroy, MonUnchanged, TypeOK, Unlock, storeVars,
        svVars, benchVars, clientVars
<1> QED
  BY <1>1, <1>2, <1>3, <1>4, <1>5, <1>6, <1>7, <1>8, <1>9, <1>10, <1>11, <1>12, <1>13 DEF MonNext

\* Every step of the assignment loop keeps the types.
LEMMA AsgType ==
    ASSUME TypeOK, LocalsBound, AsgNext
    PROVE  TypeOK'
<1>t. /\ asg \in AsgRec /\ agents \subseteq Agents
      /\ agState \in [Agents -> AgentState]
  BY DEF TypeOK
<1>1. ASSUME AsgDequeue PROVE TypeOK'
  <2>1. CASE Fail /\ UNCHANGED <<queue, asg>> /\ backingOff' = TRUE
    BY <1>1, <2>1, FailType
    DEF AsgDequeue, AsgUnchanged, TypeOK, storeVars, benchVars, clientVars
  <2>2. ASSUME NEW e \in Front,
               queue' = [queue EXCEPT ![e] = @ - 1],
               asg' = [asg EXCEPT !.pc = "list", !.task = e[1], !.prio = e[2]],
               UNCHANGED <<backingOff, faults>>
        PROVE  TypeOK'
    <3>1. PICK t \in Tasks, p \in Score : e = <<t, p>>
      BY DEF Front
    <3>2. asg' = [asg EXCEPT !.pc = "list", !.task = t, !.prio = p]
      BY <2>2, <3>1
    <3>3. asg' \in AsgRec
      BY <3>2, Zenon DEF TypeOK, AsgRec, AsgPC, TaskID
    <3>4. queue' \in [Tasks \X Score -> Nat]
      BY <2>2 DEF TypeOK, Front
    <3> QED
      BY <1>1, <2>2, <3>3, <3>4
      DEF AsgDequeue, AsgUnchanged, TypeOK, storeVars, benchVars, clientVars
  <2> QED
    BY <1>1, <2>1, <2>2 DEF AsgDequeue
<1>2. ASSUME AsgList PROVE TypeOK'
  <2>1. asg' \in AsgRec
    BY <1>2, <1>t, Zenon
    DEF AsgList, AsgRec, AsgPC
  <2> QED
    BY <1>2, <2>1, FailType
    DEF AsgList, AsgUnchanged, TypeOK, storeVars,
        svVars, benchVars, clientVars
<1>3. ASSUME AsgSnapshot PROVE TypeOK'
  <2>0. circuitOpen \cup {a \in Agents : agentCooldown[a] # "none"}
           \in SUBSET Agents
    BY DEF TypeOK
  <2>1. asg' \in AsgRec
    BY <1>3, <1>t, <2>0, Zenon DEF AsgSnapshot, AsgRec, AsgPC
  <2> QED
    BY <1>3, <2>1
    DEF AsgSnapshot, AsgUnchanged, TypeOK, storeVars,
        svVars, benchVars, clientVars
<1>4. ASSUME NEW a \in Agents, AsgScan(a) PROVE TypeOK'
  <2>0. asg.list \ {a} \in SUBSET Agents
    BY <1>t, Zenon DEF AsgRec
  <2>1. asg' \in AsgRec
    BY <1>4, <1>t, <2>0, Zenon DEF AsgScan, AsgRec, AsgPC, AgentID
  <2> QED
    BY <1>4, <2>1, FailType
    DEF AsgScan, AsgUnchanged, TypeOK, storeVars,
        svVars, benchVars, clientVars
<1>5. ASSUME AsgScanEnd PROVE TypeOK'
  <2>1. asg' \in AsgRec
    BY <1>5, <1>t, Zenon
    DEF AsgScanEnd, AsgRec, AsgPC
  <2> QED
    BY <1>5, <2>1
    DEF AsgScanEnd, AsgUnchanged, TypeOK, storeVars,
        svVars, benchVars, clientVars
<1>6. ASSUME AsgRecheck PROVE TypeOK'
  <2>1. asg' \in AsgRec
    BY <1>6, <1>t, Zenon
    DEF AsgRecheck, AsgRec, AsgPC
  <2> QED
    BY <1>6, <2>1
    DEF AsgRecheck, AsgUnchanged, TypeOK, storeVars,
        svVars, benchVars, clientVars
<1>7. ASSUME AsgMutex PROVE TypeOK'
  <2>1. asg' \in AsgRec
    BY <1>7, <1>t, Zenon
    DEF AsgMutex, AsgRec, AsgPC
  <2> QED
    BY <1>7, <2>1
    DEF AsgMutex, AsgUnchanged, TypeOK, storeVars,
        svVars, benchVars, clientVars
<1>8. ASSUME AsgLock PROVE TypeOK'
  <2>1. asg' \in AsgRec
    BY <1>8, <1>t, Zenon
    DEF AsgLock, AsgRec, AsgPC
  <2> QED
    BY <1>8, <2>1, OwnerType
    DEF AsgLock, AsgUnchanged, TypeOK, Procs, storeVars,
        svVars, benchVars, clientVars
<1>9. ASSUME AsgReadState PROVE TypeOK'
  <2>1. asg' \in AsgRec
    BY <1>9, <1>t, Zenon
    DEF AsgReadState, AsgRec, AsgPC, LocalsBound
  <2> QED
    BY <1>9, <2>1, FailType
    DEF AsgReadState, AsgUnchanged, TypeOK, Unlock, storeVars,
        svVars, benchVars, clientVars
<1>10. ASSUME AsgCAS PROVE TypeOK'
  <2>1. asg' \in AsgRec
    BY <1>10, <1>t, Zenon
    DEF AsgCAS, AsgRec, AsgPC
  <2>2. asg.agent \in Agents /\ asg.task \in TaskID /\ asg.prio \in Score
        /\ asg.st \in AgentState
    BY <1>10 DEF AsgCAS, TypeOK, LocalsBound, AsgRec
  <2> QED
    BY <1>10, <2>1, <2>2, FailType, CASType
    DEF AsgCAS, AsgUnchanged, TypeOK, Unlock, storeVars,
        svVars, benchVars, clientVars
<1>11. ASSUME AsgGetFields PROVE TypeOK'
  <2>1. asg' \in AsgRec
    BY <1>11, <1>t, Zenon
    DEF AsgGetFields, AsgRec, AsgPC, LocalsBound
  <2> QED
    BY <1>11, <2>1, FailType
    DEF AsgGetFields, AsgUnchanged, TypeOK, storeVars,
        svVars, benchVars, clientVars
<1>12. ASSUME AsgSetFields PROVE TypeOK'
  <2>1. asg' \in AsgRec
    BY <1>12, <1>t, IdleTypes, Zenon
    DEF AsgSetFields, AsgRec, AsgPC
  <2>2. asg.agent \in Agents /\ asg.task \in TaskID /\ asg.prio \in Score
        /\ asg.st \in AgentState
    BY <1>12 DEF AsgSetFields, TypeOK, LocalsBound, AsgRec
  <2> QED
    BY <1>12, <2>1, <2>2, FailType
    DEF AsgSetFields, AsgUnchanged, TypeOK, Unlock, storeVars,
        svVars, benchVars, clientVars
<1>13. ASSUME AsgRequeueLocked PROVE TypeOK'
  <2>1. asg' \in AsgRec
    BY <1>13, <1>t, IdleTypes, Zenon
    DEF AsgRequeueLocked, AsgRec
  <2> QED
    BY <1>13, <2>1, RequeueType
    DEF AsgRequeueLocked, AsgUnchanged, TypeOK, Unlock, storeVars,
        svVars, benchVars, clientVars
<1>14. ASSUME AsgRequeue PROVE TypeOK'
  <2>1. asg' \in AsgRec
    BY <1>14, <1>t, IdleTypes, Zenon
    DEF AsgRequeue, AsgRec
  <2>2. backingOff' \in BOOLEAN
    BY <1>14, Zenon DEF AsgRequeue
  <2> QED
    BY <1>14, <2>1, <2>2, RequeueType
    DEF AsgRequeue, AsgUnchanged, TypeOK, storeVars,
        svVars, benchVars, clientVars
<1> QED
  BY <1>1, <1>2, <1>3, <1>4, <1>5, <1>6, <1>7, <1>8, <1>9, <1>10, <1>11, <1>12, <1>13, <1>14 DEF AsgNext
\* Returning from a handler keeps the types.
LEMMA ReturnType ==
    ASSUME TypeOK, NEW c \in Callers, CallReturn(c)
    PROVE  /\ call' \in [Callers -> CallRec]
           /\ owner' \in [Agents -> Procs \cup {None}]
<1>1. call' \in [Callers -> CallRec]
  BY IdleTypes, Zenon DEF CallReturn, TypeOK
<1>2. owner' \in [Agents -> Procs \cup {None}]
  BY DEF CallReturn, TypeOK
<1> QED
  BY <1>1, <1>2

\* ... and leaves the handler idle and the others alone.
LEMMA ReturnEffect ==
    ASSUME TypeOK, NEW c \in Callers, CallReturn(c)
    PROVE  /\ call'[c] = callIdle
           /\ call'[c].pc = "idle"
           /\ \A d \in Callers : d # c => call'[d] = call[d]
  BY DEF CallReturn, TypeOK, callIdle

\* A handler that reads the store goes on with what it read, or returns.
LEMMA ReadEffect ==
    ASSUME TypeOK, NEW c \in Callers, HeartbeatGet(c) \/ CallReadState(c)
    PROVE  /\ call[c].pc \in {"get", "read"}
           /\ \/ call'[c] = callIdle /\ call'[c].pc = "idle"
              \/ /\ call'[c].pc \in {"set", "cas"}
                 /\ call'[c].agent = call[c].agent
           /\ \A d \in Callers : d # c => call'[d] = call[d]
<1>1. call \in [Callers -> CallRec]
  BY DEF TypeOK
<1>2. CASE CallReturn(c)
  BY <1>2, ReturnEffect DEF HeartbeatGet, CallReadState
<1>3. CASE HeartbeatGet(c) /\ ~CallReturn(c)
  <2>1. /\ call[c].pc = "get"
        /\ call' = [call EXCEPT ![c] =
                      [call[c] EXCEPT !.pc = "set",
                                      !.st = agState[call[c].agent],
                                      !.task = curTask[call[c].agent],
                                      !.prio = curPrio[call[c].agent]]]
    BY <1>3, Zenon DEF HeartbeatGet
  <2> QED
    BY <1>1, <2>1 DEF CallRec
<1>4. CASE CallReadState(c) /\ ~CallReturn(c)
  <2>1. /\ call[c].pc = "read"
        /\ call' = [call EXCEPT ![c] =
                      [call[c] EXCEPT !.pc = "cas",
                                      !.st = agState[call[c].agent]]]
    BY <1>4, Zenon DEF CallReadState
  <2> QED
    BY <1>1, <2>1 DEF CallRec
<1> QED
  BY <1>2, <1>3, <1>4

\* Every step of an RPC handler keeps the types.
LEMMA CallType ==
    ASSUME TypeOK, LocalsBound, NEW c \in Callers, CallNext(c)
    PROVE  TypeOK'
<1>1. ASSUME NEW op \in Op, NEW a \in Agents, NEW t \in TaskID,
             CallBegin(c, op, a, t)
      PROVE  TypeOK'
  <2>1. [callIdle EXCEPT !.pc = IF a \in agentMu THEN "lock" ELSE "read",
                         !.op = op, !.agent = a, !.task = t] \in CallRec
    BY IdleTypes, Zenon DEF CallRec, CallPC, AgentID
  <2>2. call' \in [Callers -> CallRec]
    BY <1>1, <2>1, Zenon DEF CallBegin, TypeOK
  <2> QED
    BY <1>1, <2>2 DEF CallBegin, CallUnchanged, TypeOK, storeVars, svVars
<1>2. ASSUME CallLock(c) PROVE TypeOK'
  <2>0. call[c].agent \in Agents /\ call[c].task \in TaskID
        /\ call[c].prio \in Score /\ call[c].st \in AgentState
    BY <1>2 DEF CallLock, TypeOK, LocalsBound, CallRec
  <2>1. call' = [call EXCEPT ![c] =
               [@ EXCEPT !.pc = IF call[c].op = "Heartbeat" THEN "get"
                                                            ELSE "read",
                          !.locked = TRUE]]
    BY <1>2, Zenon DEF CallLock
  <2>2. PICK pc \in CallPC : call' = [call EXCEPT ![c] =
                                       [@ EXCEPT !.pc = pc, !.locked = TRUE]]
    BY <2>1 DEF CallPC
  <2>3. call' \in [Callers -> CallRec]
    BY <2>2, Zenon DEF TypeOK, CallRec
  <2> QED
    BY <1>2, <2>0, <2>3, OwnerType
    DEF CallLock, CallUnchanged, TypeOK, Procs, storeVars, svVars, benchVars
<1>3. ASSUME HeartbeatGet(c) PROVE TypeOK'
  <2>0. call[c].agent \in Agents /\ call[c].task \in TaskID
        /\ call[c].prio \in Score /\ call[c].st \in AgentState
    BY <1>3 DEF HeartbeatGet, TypeOK, LocalsBound, CallRec
  <2>1. CASE CallReturn(c)
    <3>1. /\ call' \in [Callers -> CallRec]
          /\ owner' \in [Agents -> Procs \cup {None}]
      BY <2>1, ReturnType
    <3> QED
      BY <1>3, <2>0, <2>1, <3>1, FailType
      DEF HeartbeatGet, CallUnchanged, TypeOK, storeVars, svVars, benchVars
  <2>2. CASE ~CallReturn(c)
    <3>1. call' = [call EXCEPT ![c] =
                 [@ EXCEPT !.pc = "set",
                             !.st = agState[call[c].agent],
                             !.task = curTask[call[c].agent],
                             !.prio = curPrio[call[c].agent]]]
      BY <1>3, <2>2, Zenon DEF HeartbeatGet
    <3>2. /\ "set" \in CallPC
          /\ agState[call[c].agent] \in AgentState
          /\ curTask[call[c].agent] \in TaskID
          /\ curPrio[call[c].agent] \in Score
      BY <2>0 DEF TypeOK, CallPC
    <3>3. call' \in [Callers -> CallRec]
      BY <3>1, <3>2, Zenon DEF TypeOK, CallRec
    <3> QED
      BY <1>3, <2>0, <2>2, <3>3, FailType
      DEF HeartbeatGet, CallUnchanged, TypeOK, storeVars, svVars, benchVars
  <2> QED
    BY <2>1, <2>2
<1>4. ASSUME HeartbeatSet(c) PROVE TypeOK'
  <2>0. call[c].agent \in Agents /\ call[c].task \in TaskID
        /\ call[c].prio \in Score /\ call[c].st \in AgentState
    BY <1>4 DEF HeartbeatSet, TypeOK, LocalsBound, CallRec
  <2>1. /\ call' \in [Callers -> CallRec]
        /\ owner' \in [Agents -> Procs \cup {None}]
    BY <1>4, ReturnType DEF HeartbeatSet
  <2> QED
    BY <1>4, <2>0, <2>1, FailType
    DEF HeartbeatSet, CallUnchanged, TypeOK, storeVars, svVars, benchVars
<1>5. ASSUME CallReadState(c) PROVE TypeOK'
  <2>0. call[c].agent \in Agents /\ call[c].task \in TaskID
        /\ call[c].prio \in Score /\ call[c].st \in AgentState
    BY <1>5 DEF CallReadState, TypeOK, LocalsBound, CallRec
  <2>1. CASE CallReturn(c)
    <3>1. /\ call' \in [Callers -> CallRec]
          /\ owner' \in [Agents -> Procs \cup {None}]
      BY <2>1, ReturnType
    <3> QED
      BY <1>5, <2>0, <2>1, <3>1, FailType
      DEF CallReadState, CallUnchanged, TypeOK, storeVars, svVars, benchVars
  <2>2. CASE ~CallReturn(c)
    <3>1. call' = [call EXCEPT ![c] =
                 [@ EXCEPT !.pc = "cas",
                             !.st = agState[call[c].agent]]]
      BY <1>5, <2>2, Zenon DEF CallReadState
    <3>2. /\ "cas" \in CallPC
          /\ agState[call[c].agent] \in AgentState
          /\ curTask[call[c].agent] \in TaskID
          /\ curPrio[call[c].agent] \in Score
      BY <2>0 DEF TypeOK, CallPC
    <3>3. call' \in [Callers -> CallRec]
      BY <3>1, <3>2, Zenon DEF TypeOK, CallRec
    <3> QED
      BY <1>5, <2>0, <2>2, <3>3, FailType
      DEF CallReadState, CallUnchanged, TypeOK, storeVars, svVars, benchVars
  <2> QED
    BY <2>1, <2>2
<1>6. ASSUME CallCAS(c) PROVE TypeOK'
  <2>0. call[c].agent \in Agents /\ call[c].task \in TaskID
        /\ call[c].prio \in Score /\ call[c].st \in AgentState
    BY <1>6 DEF CallCAS, TypeOK, LocalsBound, CallRec
  <2>1. CASE CallReturn(c)
    <3>1. /\ call' \in [Callers -> CallRec]
          /\ owner' \in [Agents -> Procs \cup {None}]
      BY <2>1, ReturnType
    <3> QED
      BY <1>6, <2>0, <2>1, <3>1, FailType, CASType
      DEF CallCAS, CallUnchanged, TypeOK, storeVars, svVars, benchVars
  <2>2. CASE ~CallReturn(c)
    <3>1. call' = [call EXCEPT ![c] =
                 [@ EXCEPT !.pc = "signal"]]
      BY <1>6, <2>2, Zenon DEF CallCAS
    <3>2. "signal" \in CallPC
      BY DEF CallPC
    <3>3. call' \in [Callers -> CallRec]
      BY <3>1, <3>2, Zenon DEF TypeOK, CallRec
    <3> QED
      BY <1>6, <2>0, <2>2, <3>3, FailType, CASType
      DEF CallCAS, CallUnchanged, TypeOK, storeVars, svVars, benchVars
  <2> QED
    BY <2>1, <2>2
<1>7. ASSUME CompleteSignal(c) PROVE TypeOK'
  <2>0. call[c].agent \in Agents /\ call[c].task \in TaskID
        /\ call[c].prio \in Score /\ call[c].st \in AgentState
    BY <1>7 DEF CompleteSignal, TypeOK, LocalsBound, CallRec
  <2>1. call' = [call EXCEPT ![c] =
               [@ EXCEPT !.pc = "clear"]]
    BY <1>7, Zenon DEF CompleteSignal
  <2>2. "clear" \in CallPC
    BY DEF CallPC
  <2>3. call' \in [Callers -> CallRec]
    BY <2>1, <2>2, Zenon DEF TypeOK, CallRec
  <2> QED
    BY <1>7, <2>0, <2>3, FailType
    DEF CompleteSignal, CallUnchanged, TypeOK, TaskID, storeVars, svVars, benchVars
<1>8. ASSUME CompleteClear(c) PROVE TypeOK'
  <2>0. call[c].agent \in Agents /\ call[c].task \in TaskID
        /\ call[c].prio \in Score /\ call[c].st \in AgentState
    BY <1>8 DEF CompleteClear, TypeOK, LocalsBound, CallRec
  <2>1. call' = [call EXCEPT ![c] =
               [@ EXCEPT !.pc = "uncool"]]
    BY <1>8, Zenon DEF CompleteClear
  <2>2. "uncool" \in CallPC
    BY DEF CallPC
  <2>3. call' \in [Callers -> CallRec]
    BY <2>1, <2>2, Zenon DEF TypeOK, CallRec
  <2> QED
    BY <1>8, <2>0, <2>3, FailType
    DEF CompleteClear, CallUnchanged, TypeOK, TaskID, Score, storeVars, svVars, benchVars
<1>9. ASSUME CompleteUncool(c) PROVE TypeOK'
  <2>0. call[c].agent \in Agents /\ call[c].task \in TaskID
        /\ call[c].prio \in Score /\ call[c].st \in AgentState
    BY <1>9 DEF CompleteUncool, TypeOK, LocalsBound, CallRec
  <2>1. /\ call' \in [Callers -> CallRec]
        /\ owner' \in [Agents -> Procs \cup {None}]
    BY <1>9, ReturnType DEF CompleteUncool
  <2> QED
    BY <1>9, <2>0, <2>1
    DEF CompleteUncool, CallUnchanged, TypeOK, Cooldown, storeVars, svVars, benchVars
<1> QED
  BY <1>1, <1>2, <1>3, <1>4, <1>5, <1>6, <1>7, <1>8, <1>9 DEF CallNext

\* Registration, Stop, clients and the passage of time keep the types.
LEMMA EnvType ==
    ASSUME TypeOK, NEW a \in Agents,
           \/ RegisterStore(a) \/ RegisterMutex(a) \/ RegisterSession(a)
           \/ StopDestroy(a) \/ Stop
           \/ HeartbeatStales(a) \/ CooldownExpires(a) \/ CrashLeavesWindow(a)
    PROVE  TypeOK'
<1>1. CASE RegisterStore(a)
  BY <1>1 DEF RegisterStore, TypeOK, RegPC, TaskID, Score, AgentState,
              StateIdle, svVars, clientVars
<1>2. CASE RegisterMutex(a)
  BY <1>2 DEF RegisterMutex, TypeOK, RegPC, storeVars, benchVars, clientVars
<1>3. CASE RegisterSession(a)
  BY <1>3, FailType
  DEF RegisterSession, TypeOK, RegPC, storeVars, benchVars, clientVars
<1>4. CASE StopDestroy(a)
  BY <1>4, FailType
  DEF StopDestroy, TypeOK, storeVars, benchVars, clientVars
<1>5. CASE Stop
  BY <1>5 DEF Stop, TypeOK, storeVars, benchVars, clientVars
<1>6. CASE HeartbeatStales(a)
  BY <1>6 DEF HeartbeatStales, TypeOK, svVars, clientVars
<1>7. CASE CooldownExpires(a)
  BY <1>7 DEF CooldownExpires, TypeOK, Cooldown, storeVars, clientVars
<1>8. CASE CrashLeavesWindow(a)
  BY <1>8 DEF CrashLeavesWindow, TypeOK, storeVars, clientVars
<1> QED
  BY <1>1, <1>2, <1>3, <1>4, <1>5, <1>6, <1>7, <1>8

LEMMA TypeStep == TypeOK /\ LocalsBound /\ [Next]_vars => TypeOK'
<1> SUFFICES ASSUME TypeOK, LocalsBound, [Next]_vars PROVE TypeOK'
  OBVIOUS
<1>1. ASSUME NEW t \in Tasks, SubmitTask(t) PROVE TypeOK'
  BY <1>1, ConstantsAssumption
  DEF SubmitTask, EnqueueTask, TypeOK, Score, storeVars, svVars
<1>2. CASE AssignBackoffExpires
  BY <1>2 DEF AssignBackoffExpires, TypeOK, storeVars, benchVars, clientVars
<1>3. CASE Stop
  BY <1>3 DEF Stop, TypeOK, storeVars, benchVars, clientVars
<1>4. CASE UNCHANGED vars
  BY <1>4 DEF vars, TypeOK
<1> QED
  BY <1>1, <1>2, <1>3, <1>4, EnvType, MonType, AsgType, CallType DEF Next

-----------------------------------------------------------------------------
(* The locals name agents and tasks *)

LEMMA LocalsStep == TypeOK /\ LocalsBound /\ [Next]_vars => LocalsBound'
<1> SUFFICES ASSUME TypeOK, LocalsBound, [Next]_vars PROVE LocalsBound'
  OBVIOUS
<1>1. ASSUME MonNext PROVE LocalsBound'
  <2>1. asg' = asg /\ call' = call
    BY <1>1 DEF MonNext, MonUnchanged, MonList, MonEnd, MonRead, MonMutex,
                MonLock, MonPreRead, MonSentinel, MonReadState, MonCAS,
                MonDefer, MonRequeue, MonPolicy, MonDestroy
  <2>2. mon'.pc \notin {"idle", "scan"} => mon'.agent \in Agents
    <3>1. CASE MonList
      BY <3>1 DEF MonList, TypeOK, MonRec, LocalsBound
    <3>2. CASE MonEnd
      BY <3>2 DEF MonEnd, monIdle, TypeOK, MonRec, LocalsBound
    <3>3. ASSUME NEW a \in Agents, MonRead(a) PROVE <2>2!:
      BY <3>3 DEF MonRead, TypeOK, MonRec, LocalsBound
    <3>4. CASE MonMutex
      BY <3>4 DEF MonMutex, MonReturn, monIdle, TypeOK, MonRec, LocalsBound
    <3>5. CASE MonLock
      BY <3>5 DEF MonLock, TypeOK, MonRec, LocalsBound
    <3>6. CASE MonPreRead
      BY <3>6 DEF MonPreRead, MonReturn, monIdle, TypeOK, MonRec, LocalsBound
    <3>7. CASE MonSentinel
      BY <3>7 DEF MonSentinel, TypeOK, MonRec, LocalsBound
    <3>8. CASE MonReadState
      BY <3>8 DEF MonReadState, TypeOK, MonRec, LocalsBound
    <3>9. CASE MonCAS
      BY <3>9 DEF MonCAS, TypeOK, MonRec, LocalsBound
    <3>10. CASE MonDefer
      BY <3>10 DEF MonDefer, MonReturn, monIdle, TypeOK, MonRec, LocalsBound
    <3>11. CASE MonRequeue
      BY <3>11 DEF MonRequeue, TypeOK, MonRec, LocalsBound
    <3>12. CASE MonPolicy
      BY <3>12 DEF MonPolicy, TypeOK, MonRec, LocalsBound
    <3>13. CASE MonDestroy
      BY <3>13 DEF MonDestroy, MonReturn, monIdle, TypeOK, MonRec, LocalsBound
    <3> QED
      BY <1>1, <3>1, <3>2, <3>3, <3>4, <3>5, <3>6, <3>7, <3>8, <3>9, <3>10, <3>11, <3>12, <3>13 DEF MonNext
  <2> QED
    BY <2>1, <2>2 DEF LocalsBound
<1>2. ASSUME AsgNext PROVE LocalsBound'
  <2>1. mon' = mon /\ call' = call
    BY <1>2 DEF AsgNext, AsgUnchanged, AsgDequeue, AsgList, AsgSnapshot,
                AsgScan, AsgScanEnd, AsgRecheck, AsgMutex, AsgLock,
                AsgReadState, AsgCAS, AsgGetFields, AsgSetFields,
                AsgRequeueLocked, AsgRequeue
  <2>0. asg \in AsgRec
    BY DEF TypeOK
  <2>2. /\ asg'.pc \in {"recheck", "mutex", "lock", "read", "cas", "get",
                        "set", "requeueLocked"} => asg'.agent \in Agents
        /\ asg'.pc # "idle" => asg'.task \in Tasks
    <3>1. CASE AsgDequeue
      BY <3>1 DEF AsgDequeue, Front, TypeOK, AsgRec, LocalsBound
    <3>2. CASE AsgList
      BY <3>2 DEF AsgList, TypeOK, AsgRec, LocalsBound
    <3>3. CASE AsgSnapshot
      BY <3>3 DEF AsgSnapshot, TypeOK, AsgRec, LocalsBound
    <3>4. ASSUME NEW a \in Agents, AsgScan(a) PROVE <2>2!:
      <4>1. /\ \/ asg'.pc = "recheck" /\ asg'.agent = a
               \/ asg'.pc = "scan"
            /\ asg'.task = asg.task /\ asg.pc = "scan"
        BY <3>4, <2>0 DEF AsgScan, AsgRec
      <4> QED
        BY <4>1 DEF LocalsBound
    <3>5. CASE AsgScanEnd
      BY <3>5 DEF AsgScanEnd, TypeOK, AsgRec, LocalsBound
    <3>6. CASE AsgRecheck
      BY <3>6 DEF AsgRecheck, TypeOK, AsgRec, LocalsBound
    <3>7. CASE AsgMutex
      BY <3>7 DEF AsgMutex, TypeOK, AsgRec, LocalsBound
    <3>8. CASE AsgLock
      BY <3>8 DEF AsgLock, TypeOK, AsgRec, LocalsBound
    <3>9. CASE AsgReadState
      BY <3>9 DEF AsgReadState, TypeOK, AsgRec, LocalsBound
    <3>10. CASE AsgCAS
      BY <3>10 DEF AsgCAS, TypeOK, AsgRec, LocalsBound
    <3>11. CASE AsgGetFields
      BY <3>11 DEF AsgGetFields, TypeOK, AsgRec, LocalsBound
    <3>12. CASE AsgSetFields
      BY <3>12 DEF AsgSetFields, asgIdle, TypeOK, AsgRec, LocalsBound
    <3>13. CASE AsgRequeueLocked
      BY <3>13 DEF AsgRequeueLocked, asgIdle, TypeOK, AsgRec, LocalsBound
    <3>14. CASE AsgRequeue
      BY <3>14 DEF AsgRequeue, asgIdle, TypeOK, AsgRec, LocalsBound
    <3> QED
      BY <1>2, <3>1, <3>2, <3>3, <3>4, <3>5, <3>6, <3>7, <3>8, <3>9, <3>10, <3>11, <3>12, <3>13, <3>14 DEF AsgNext
  <2> QED
    BY <2>1, <2>2 DEF LocalsBound
<1>3. ASSUME NEW c \in Callers, CallNext(c) PROVE LocalsBound'
  <2>1. mon' = mon /\ asg' = asg
    BY <1>3 DEF CallNext, CallUnchanged, CallBegin, CallLock, HeartbeatGet,
                HeartbeatSet, CallReadState, CallCAS, CompleteSignal,
                CompleteClear, CompleteUncool
  <2>2. /\ \A d \in Callers : d # c => call'[d] = call[d]
        /\ call'[c].pc # "idle" => call'[c].agent \in Agents
    <3>1. ASSUME NEW op \in Op, NEW a \in Agents, NEW t \in TaskID,
                 CallBegin(c, op, a, t)
          PROVE  <2>2!:
      BY <3>1 DEF CallBegin, callIdle, TypeOK, CallRec, LocalsBound
    <3>2. CASE CallLock(c)
      BY <3>2 DEF CallLock, TypeOK, CallRec, LocalsBound
    <3>3. CASE HeartbeatGet(c)
      BY <3>3, ReadEffect DEF LocalsBound
    <3>4. CASE HeartbeatSet(c)
      BY <3>4, ReturnEffect DEF HeartbeatSet, TypeOK, CallRec, LocalsBound
    <3>5. CASE CallReadState(c)
      BY <3>5, ReadEffect DEF LocalsBound
    <3>6. CASE CallCAS(c)
      BY <3>6, ReturnEffect DEF CallCAS, TypeOK, CallRec, LocalsBound
    <3>7. CASE CompleteSignal(c)
      BY <3>7 DEF CompleteSignal, TypeOK, CallRec, LocalsBound
    <3>8. CASE CompleteClear(c)
      BY <3>8 DEF CompleteClear, TypeOK, CallRec, LocalsBound
    <3>9. CASE CompleteUncool(c)
      BY <3>9, ReturnEffect DEF CompleteUncool, TypeOK, CallRec, LocalsBound
    <3> QED
      BY <1>3, <3>1, <3>2, <3>3, <3>4, <3>5, <3>6, <3>7, <3>8, <3>9 DEF CallNext
  <2> QED
    BY <2>1, <2>2 DEF LocalsBound
<1>4. CASE UNCHANGED <<asg, mon, call>>
  BY <1>4 DEF LocalsBound
<1> QED
  BY <1>1, <1>2, <1>3, <1>4
  DEF Next, vars, SubmitTask, RegisterStore, RegisterMutex, RegisterSession,
      Stop, StopDestroy, HeartbeatStales, CooldownExpires, CrashLeavesWindow,
      AssignBackoffExpires

\* TypeOK is not inductive by itself: a goroutine indexes the records with
\* its locals, which LocalsBound keeps among the agents.
LEMMA TypeInv == Spec => [](TypeOK /\ LocalsBound)
<1>1. Init => TypeOK /\ LocalsBound
  BY TypeInit DEF Init, LocalsBound, asgIdle, monIdle, callIdle
<1>2. TypeOK /\ LocalsBound /\ [Next]_vars => (TypeOK /\ LocalsBound)'
  BY TypeStep, LocalsStep
<1> QED
  BY <1>1, <1>2, PTL DEF Spec
\* Type correctness of the supervisor: every store record, map, lock and
\* goroutine local stays in its type.
THEOREM TypeCorrect == Spec => []TypeOK
  BY TypeInv, PTL

-----------------------------------------------------------------------------
(* Priorities *)

\* Putting a task back with its own priority keeps PriorityKept.
LEMMA RequeueKeeps ==
    ASSUME TypeOK, PriorityKept, NEW t \in Tasks, Requeue(t, Prio[t])
    PROVE  PriorityKept'
<1>1. Prio[t] \in Score
  BY ConstantsAssumption DEF Score
<1>2. CASE UNCHANGED queue
  BY <1>2 DEF PriorityKept
<1>3. CASE EnqueueTask(t, Prio[t])
  BY <1>1, <1>3 DEF EnqueueTask, PriorityKept, TypeOK
<1> QED
  BY <1>2, <1>3 DEF Requeue

LEMMA PriorityMon ==
    ASSUME TypeOK, LocalsBound, PriorityTravels, MonNext
    PROVE  PriorityTravels'
<1>0. UNCHANGED <<asg, call, curTask, curPrio>>
  BY DEF MonNext, MonUnchanged, storeVars, MonList, MonEnd, MonRead, MonMutex,
      MonLock, MonPreRead, MonSentinel, MonReadState, MonCAS, MonDefer,
      MonRequeue, MonPolicy, MonDestroy
<1>1. ASSUME MonList PROVE PriorityTravels'
  BY <1>0, <1>1
  DEF MonList, PriorityTravels, PriorityKept, Bound, TypeOK, MonRec,
      LocalsBound, svVars
<1>2. ASSUME MonEnd PROVE PriorityTravels'
  BY <1>0, <1>2
  DEF MonEnd, monIdle, PriorityTravels, PriorityKept, Bound, TypeOK, MonRec,
      LocalsBound, svVars
<1>3. ASSUME NEW a \in Agents, MonRead(a) PROVE PriorityTravels'
  BY <1>0, <1>3
  DEF MonRead, PriorityTravels, PriorityKept, Bound, TypeOK, MonRec,
      LocalsBound, svVars
<1>4. ASSUME MonMutex PROVE PriorityTravels'
  BY <1>0, <1>4
  DEF MonMutex, MonReturn, monIdle, PriorityTravels, PriorityKept, Bound,
      TypeOK, MonRec, LocalsBound, svVars
<1>5. ASSUME MonLock PROVE PriorityTravels'
  BY <1>0, <1>5
  DEF MonLock, PriorityTravels, PriorityKept, Bound, TypeOK, MonRec,
      LocalsBound, svVars
<1>6. ASSUME MonPreRead PROVE PriorityTravels'
  <2>1. mon \in MonRec /\ mon.agent \in Agents
    BY <1>6 DEF MonPreRead, TypeOK, LocalsBound
  <2>2. \/ /\ mon'.pc = "sentinel"
           /\ mon'.task = curTask[mon.agent] /\ mon'.prio = curPrio[mon.agent]
        \/ mon'.pc = "scan"
    BY <1>6, <2>1 DEF MonPreRead, MonReturn, monIdle, MonRec
  <2>3. queue' = queue
    BY <1>6 DEF MonPreRead
  <2> QED
    BY <1>0, <2>1, <2>2, <2>3 DEF PriorityTravels, PriorityKept, Bound
<1>7. ASSUME MonSentinel PROVE PriorityTravels'
  BY <1>0, <1>7
  DEF MonSentinel, PriorityTravels, PriorityKept, Bound, TypeOK, MonRec,
      LocalsBound, svVars
<1>8. ASSUME MonReadState PROVE PriorityTravels'
  BY <1>0, <1>8
  DEF MonReadState, PriorityTravels, PriorityKept, Bound, TypeOK, MonRec,
      LocalsBound, svVars
<1>9. ASSUME MonCAS PROVE PriorityTravels'
  BY <1>0, <1>9
  DEF MonCAS, PriorityTravels, PriorityKept, Bound, TypeOK, MonRec,
      LocalsBound, svVars
<1>10. ASSUME MonDefer PROVE PriorityTravels'
  BY <1>0, <1>10
  DEF MonDefer, MonReturn, monIdle, PriorityTravels, PriorityKept, Bound,
      TypeOK, MonRec, LocalsBound, svVars
<1>11. ASSUME MonRequeue PROVE PriorityTravels'
  <2>1. PriorityKept'
    <3>1. CASE mon.task = NoTask
      BY <1>11, <3>1 DEF MonRequeue, PriorityTravels, PriorityKept
    <3>2. CASE mon.task # NoTask
      <4>1. mon.task \in Tasks /\ mon.prio = Prio[mon.task]
        BY <1>11, <3>2
        DEF MonRequeue, PriorityTravels, Bound, TypeOK, MonRec, TaskID
      <4> QED
        BY <1>11, <3>2, <4>1, RequeueKeeps DEF MonRequeue, PriorityTravels
    <3> QED
      BY <3>1, <3>2
  <2> QED
    BY <1>0, <1>11, <2>1
    DEF MonRequeue, PriorityTravels, Bound, TypeOK, MonRec
<1>12. ASSUME MonPolicy PROVE PriorityTravels'
  BY <1>0, <1>12
  DEF MonPolicy, PriorityTravels, PriorityKept, Bound, TypeOK, MonRec,
      LocalsBound, svVars
<1>13. ASSUME MonDestroy PROVE PriorityTravels'
  BY <1>0, <1>13
  DEF MonDestroy, MonReturn, monIdle, PriorityTravels, PriorityKept, Bound,
      TypeOK, MonRec, LocalsBound, svVars
<1> QED
  BY <1>1, <1>2, <1>3, <1>4, <1>5, <1>6, <1>7, <1>8, <1>9, <1>10, <1>11,
     <1>12, <1>13 DEF MonNext

LEMMA PriorityAsg ==
    ASSUME TypeOK, LocalsBound, PriorityTravels, AsgNext
    PROVE  PriorityTravels'
<1>0. UNCHANGED <<mon, call>>
  BY DEF AsgNext, AsgUnchanged, AsgDequeue, AsgList, AsgSnapshot, AsgScan,
      AsgScanEnd, AsgRecheck, AsgMutex, AsgLock, AsgReadState, AsgCAS,
      AsgGetFields, AsgSetFields, AsgRequeueLocked, AsgRequeue
<1>1. ASSUME AsgDequeue PROVE PriorityTravels'
  <2>1. CASE UNCHANGED <<queue, asg>>
    BY <1>0, <1>1, <2>1
    DEF AsgDequeue, PriorityTravels, PriorityKept, Bound, storeVars
  <2>2. ASSUME NEW e \in Front,
               queue' = [queue EXCEPT ![e] = @ - 1],
               asg' = [asg EXCEPT !.pc = "list", !.task = e[1], !.prio = e[2]]
        PROVE  PriorityTravels'
    <3>1. PICK t \in Tasks, p \in Score : e = <<t, p>> /\ queue[<<t, p>>] > 0
      BY DEF Front
    <3>2. p = Prio[t]
      BY <3>1 DEF PriorityTravels, PriorityKept
    <3>3. PriorityKept'
      BY <2>2, <3>1 DEF PriorityTravels, PriorityKept, TypeOK
    <3>4. Bound(asg'.task, asg'.prio)
      BY <2>2, <3>1, <3>2 DEF Bound, TypeOK, AsgRec
    <3> QED
      BY <1>0, <1>1, <3>3, <3>4
      DEF AsgDequeue, PriorityTravels, Bound, storeVars
  <2> QED
    BY <1>1, <2>1, <2>2 DEF AsgDequeue
<1>2. ASSUME AsgList PROVE PriorityTravels'
  BY <1>0, <1>2
  DEF AsgList, PriorityTravels, PriorityKept, Bound, TypeOK, AsgRec,
      storeVars
<1>3. ASSUME AsgSnapshot PROVE PriorityTravels'
  BY <1>0, <1>3
  DEF AsgSnapshot, PriorityTravels, PriorityKept, Bound, TypeOK, AsgRec,
      storeVars
<1>4. ASSUME NEW a \in Agents, AsgScan(a) PROVE PriorityTravels'
  BY <1>0, <1>4
  DEF AsgScan, PriorityTravels, PriorityKept, Bound, TypeOK, AsgRec,
      storeVars
<1>5. ASSUME AsgScanEnd PROVE PriorityTravels'
  BY <1>0, <1>5
  DEF AsgScanEnd, PriorityTravels, PriorityKept, Bound, TypeOK, AsgRec,
      storeVars
<1>6. ASSUME AsgRecheck PROVE PriorityTravels'
  BY <1>0, <1>6
  DEF AsgRecheck, PriorityTravels, PriorityKept, Bound, TypeOK, AsgRec,
      storeVars
<1>7. ASSUME AsgMutex PROVE PriorityTravels'
  BY <1>0, <1>7
  DEF AsgMutex, PriorityTravels, PriorityKept, Bound, TypeOK, AsgRec,
      storeVars
<1>8. ASSUME AsgLock PROVE PriorityTravels'
  BY <1>0, <1>8
  DEF AsgLock, PriorityTravels, PriorityKept, Bound, TypeOK, AsgRec,
      storeVars
<1>9. ASSUME AsgReadState PROVE PriorityTravels'
  BY <1>0, <1>9
  DEF AsgReadState, PriorityTravels, PriorityKept, Bound, TypeOK, AsgRec,
      storeVars
<1>10. ASSUME AsgCAS PROVE PriorityTravels'
  BY <1>0, <1>10
  DEF AsgCAS, PriorityTravels, PriorityKept, Bound, TypeOK, AsgRec, storeVars
<1>11. ASSUME AsgGetFields PROVE PriorityTravels'
  BY <1>0, <1>11
  DEF AsgGetFields, PriorityTravels, PriorityKept, Bound, TypeOK, AsgRec,
      storeVars
<1>12. ASSUME AsgSetFields PROVE PriorityTravels'
  <2>1. asg.agent \in Agents /\ Bound(asg.task, asg.prio)
    BY <1>12 DEF AsgSetFields, PriorityTravels, LocalsBound
  <2>2. \A b \in Agents : Bound(curTask'[b], curPrio'[b])
    BY <1>12, <2>1 DEF AsgSetFields, PriorityTravels, TypeOK
  <2> QED
    BY <1>0, <1>12, <2>1, <2>2
    DEF AsgSetFields, PriorityTravels, PriorityKept, Bound, asgIdle, TypeOK,
        AsgRec
<1>13. ASSUME AsgRequeueLocked PROVE PriorityTravels'
  <2>1. asg.task \in Tasks /\ asg.prio = Prio[asg.task]
    BY <1>13, ConstantsAssumption
    DEF AsgRequeueLocked, PriorityTravels, Bound, LocalsBound
  <2>2. PriorityKept'
    BY <1>13, <2>1, RequeueKeeps DEF AsgRequeueLocked, PriorityTravels
  <2> QED
    BY <1>0, <1>13, <2>2
    DEF AsgRequeueLocked, PriorityTravels, Bound, asgIdle, storeVars
<1>14. ASSUME AsgRequeue PROVE PriorityTravels'
  <2>1. asg.task \in Tasks /\ asg.prio = Prio[asg.task]
    BY <1>14, ConstantsAssumption
    DEF AsgRequeue, PriorityTravels, Bound, LocalsBound
  <2>2. PriorityKept'
    BY <1>14, <2>1, RequeueKeeps DEF AsgRequeue, PriorityTravels
  <2> QED
    BY <1>0, <1>14, <2>2
    DEF AsgRequeue, PriorityTravels, Bound, asgIdle, storeVars
<1> QED
  BY <1>1, <1>2, <1>3, <1>4, <1>5, <1>6, <1>7, <1>8, <1>9, <1>10, <1>11,
     <1>12, <1>13, <1>14 DEF AsgNext

LEMMA PriorityCall ==
    ASSUME TypeOK, LocalsBound, PriorityTravels,
           NEW c \in Callers, CallNext(c)
    PROVE  PriorityTravels'
<1>0. UNCHANGED <<queue, mon, asg>>
  BY DEF CallNext, CallUnchanged, CallBegin, CallLock, HeartbeatGet,
      HeartbeatSet, CallReadState, CallCAS, CompleteSignal, CompleteClear,
      CompleteUncool
<1>00. PriorityKept'
  BY <1>0 DEF PriorityTravels, PriorityKept
<1>1. ASSUME NEW op \in Op, NEW a \in Agents, NEW t \in TaskID,
             CallBegin(c, op, a, t)
      PROVE  PriorityTravels'
  BY <1>0, <1>00, <1>1
  DEF CallBegin, callIdle, PriorityTravels, Bound, TypeOK, CallRec, storeVars
<1>2. ASSUME CallLock(c) PROVE PriorityTravels'
  BY <1>0, <1>00, <1>2
  DEF CallLock, PriorityTravels, Bound, TypeOK, CallRec, storeVars
<1>3. ASSUME HeartbeatGet(c) PROVE PriorityTravels'
  <2>1. CASE CallReturn(c)
    BY <1>0, <1>00, <1>3, <2>1, ReturnEffect
    DEF HeartbeatGet, PriorityTravels, Bound, storeVars
  <2>2. CASE ~CallReturn(c)
    <3>1. call[c].agent \in Agents
      BY <1>3 DEF HeartbeatGet, LocalsBound
    <3>2. Bound(call'[c].task, call'[c].prio)
      <4>1. call' = [call EXCEPT ![c] =
                       [@ EXCEPT !.pc = "set",
                                 !.st = agState[call[c].agent],
                                 !.task = curTask[call[c].agent],
                                 !.prio = curPrio[call[c].agent]]]
        BY <1>3, <2>2, Zenon DEF HeartbeatGet
      <4>2. /\ call'[c].task = curTask[call[c].agent]
            /\ call'[c].prio = curPrio[call[c].agent]
        BY <4>1 DEF TypeOK, CallRec
      <4> QED
        BY <3>1, <4>2 DEF PriorityTravels, Bound
    <3>3. \A d \in Callers : d # c => call'[d] = call[d]
      BY <1>3, <2>2 DEF HeartbeatGet, TypeOK
    <3> QED
      BY <1>0, <1>00, <1>3, <3>2, <3>3
      DEF HeartbeatGet, PriorityTravels, Bound, storeVars
  <2> QED
    BY <2>1, <2>2
<1>4. ASSUME HeartbeatSet(c) PROVE PriorityTravels'
  <2>1. call[c].agent \in Agents /\ Bound(call[c].task, call[c].prio)
    BY <1>4 DEF HeartbeatSet, LocalsBound, PriorityTravels
  <2>2. \A b \in Agents : Bound(curTask'[b], curPrio'[b])
    BY <1>4, <2>1 DEF HeartbeatSet, PriorityTravels, TypeOK, storeVars
  <2> QED
    BY <1>0, <1>00, <1>4, <2>2, ReturnEffect
    DEF HeartbeatSet, PriorityTravels, Bound
<1>5. ASSUME CallReadState(c) PROVE PriorityTravels'
  <2>1. /\ call'[c].pc # "set"
        /\ \A d \in Callers : d # c => call'[d] = call[d]
    <3>1. CASE CallReturn(c)
      BY <3>1, ReturnEffect
    <3>2. CASE ~CallReturn(c)
      <4>1. call' = [call EXCEPT ![c] =
                       [@ EXCEPT !.pc = "cas",
                                 !.st = agState[call[c].agent]]]
        BY <1>5, <3>2, Zenon DEF CallReadState
      <4> QED
        BY <4>1 DEF TypeOK, CallRec
    <3> QED
      BY <3>1, <3>2
  <2> QED
    BY <1>0, <1>00, <1>5, <2>1
    DEF CallReadState, PriorityTravels, Bound, storeVars
<1>6. ASSUME CallCAS(c) PROVE PriorityTravels'
  BY <1>0, <1>00, <1>6, ReturnEffect
  DEF CallCAS, PriorityTravels, Bound, TypeOK, CallRec, storeVars
<1>7. ASSUME CompleteSignal(c) PROVE PriorityTravels'
  BY <1>0, <1>00, <1>7
  DEF CompleteSignal, PriorityTravels, Bound, TypeOK, CallRec, storeVars
<1>8. ASSUME CompleteClear(c) PROVE PriorityTravels'
  <2>1. \A b \in Agents : Bound(curTask'[b], curPrio'[b])
    BY <1>8 DEF CompleteClear, PriorityTravels, Bound, TypeOK
  <2> QED
    BY <1>0, <1>00, <1>8, <2>1
    DEF CompleteClear, PriorityTravels, Bound, TypeOK, CallRec
<1>9. ASSUME CompleteUncool(c) PROVE PriorityTravels'
  BY <1>0, <1>00, <1>9, ReturnEffect
  DEF CompleteUncool, PriorityTravels, Bound, TypeOK, CallRec, storeVars
<1> QED
  BY <1>1, <1>2, <1>3, <1>4, <1>5, <1>6, <1>7, <1>8, <1>9 DEF CallNext

\* Every step of the supervisor keeps every copy of a task at its priority.
LEMMA PriorityStep ==
    TypeOK /\ LocalsBound /\ PriorityTravels /\ [Next]_vars
    => PriorityTravels'
<1> SUFFICES ASSUME TypeOK, LocalsBound, PriorityTravels, [Next]_vars
             PROVE  PriorityTravels'
  OBVIOUS
<1>1. ASSUME NEW t \in Tasks, SubmitTask(t) PROVE PriorityTravels'
  <2>1. Requeue(t, Prio[t])
    BY <1>1 DEF SubmitTask, Requeue
  <2>2. PriorityKept'
    BY <2>1, RequeueKeeps DEF PriorityTravels
  <2> QED
    BY <1>1, <2>2 DEF SubmitTask, PriorityTravels, Bound, storeVars
<1>2. ASSUME NEW a \in Agents, RegisterStore(a) PROVE PriorityTravels'
  BY <1>2 DEF RegisterStore, PriorityTravels, PriorityKept, Bound, TypeOK
<1>3. CASE UNCHANGED <<queue, curTask, curPrio, asg, mon, call>>
  BY <1>3 DEF PriorityTravels, PriorityKept, Bound
<1> QED
  BY <1>1, <1>2, <1>3, PriorityMon, PriorityAsg, PriorityCall
  DEF Next, vars, RegisterMutex, RegisterSession, Stop, StopDestroy,
      HeartbeatStales, CooldownExpires, CrashLeavesWindow,
      AssignBackoffExpires, storeVars

\* The inductive invariant behind PriorityKept.
LEMMA PriorityInv == Spec => []PriorityTravels
<1>1. Init => PriorityTravels
  BY DEF Init, PriorityTravels, PriorityKept, Bound, asgIdle, monIdle,
         callIdle
<1> QED
  BY <1>1, PriorityStep, TypeInv, PTL DEF Spec

\* A task that no agent holds is queued at the priority it was submitted
\* with, whatever tryAssignTask, crashAgent and the heartbeats do and
\* whichever of their store calls fail.
THEOREM PriorityCorrect == Spec => []PriorityKept
<1>1. PriorityTravels => PriorityKept
  BY DEF PriorityTravels
<1> QED
  BY <1>1, PriorityInv, PTL

-----------------------------------------------------------------------------
(* The crash sentinel *)

\* Every step of the supervisor keeps the sentinel inside crashAgent.
LEMMA SentinelStep ==
    TypeOK /\ LocalsBound /\ SentinelIsTransient /\ [Next]_vars
    => SentinelIsTransient'
<1> SUFFICES ASSUME TypeOK, LocalsBound, SentinelIsTransient, [Next]_vars
             PROVE  SentinelIsTransient'
  OBVIOUS
<1>1. ASSUME MonList PROVE SentinelIsTransient'
  BY <1>1
  DEF MonList, SentinelIsTransient, TypeOK, MonRec, svVars, benchVars
<1>2. ASSUME MonEnd PROVE SentinelIsTransient'
  BY <1>2
  DEF MonEnd, monIdle, SentinelIsTransient, TypeOK, MonRec, svVars,
      benchVars
<1>3. ASSUME NEW a \in Agents, MonRead(a) PROVE SentinelIsTransient'
  BY <1>3
  DEF MonRead, SentinelIsTransient, TypeOK, MonRec, svVars, benchVars
<1>4. ASSUME MonMutex PROVE SentinelIsTransient'
  BY <1>4
  DEF MonMutex, MonReturn, monIdle, SentinelIsTransient, TypeOK, MonRec,
      svVars, benchVars
<1>5. ASSUME MonLock PROVE SentinelIsTransient'
  BY <1>5
  DEF MonLock, SentinelIsTransient, TypeOK, MonRec, svVars, benchVars
<1>6. ASSUME MonPreRead PROVE SentinelIsTransient'
  BY <1>6
  DEF MonPreRead, MonReturn, monIdle, SentinelIsTransient, TypeOK, MonRec,
      svVars, benchVars
<1>7. ASSUME MonSentinel PROVE SentinelIsTransient'
  BY <1>7
  DEF MonSentinel, SentinelIsTransient, TypeOK, MonRec, svVars, benchVars
<1>8. ASSUME MonReadState PROVE SentinelIsTransient'
  BY <1>8
  DEF MonReadState, SentinelIsTransient, TypeOK, MonRec, svVars, benchVars
<1>9. ASSUME MonCAS PROVE SentinelIsTransient'
  BY <1>9
  DEF MonCAS, SentinelIsTransient, TypeOK, MonRec, svVars, benchVars
<1>10. ASSUME MonDefer PROVE SentinelIsTransient'
  BY <1>10
  DEF MonDefer, MonReturn, monIdle, SentinelIsTransient, TypeOK, MonRec,
      svVars, benchVars
<1>11. ASSUME MonRequeue PROVE SentinelIsTransient'
  BY <1>11
  DEF MonRequeue, SentinelIsTransient, TypeOK, MonRec, svVars, benchVars
<1>12. ASSUME MonPolicy PROVE SentinelIsTransient'
  BY <1>12
  DEF MonPolicy, SentinelIsTransient, TypeOK, MonRec, svVars, benchVars
<1>13. ASSUME MonDestroy PROVE SentinelIsTransient'
  BY <1>13
  DEF MonDestroy, MonReturn, monIdle, SentinelIsTransient, TypeOK, MonRec,
      svVars, benchVars
<1>14. CASE UNCHANGED <<mon, agentCooldown>>
  BY <1>14 DEF SentinelIsTransient
<1>15. ASSUME AsgNext PROVE UNCHANGED <<mon, agentCooldown>>
  BY <1>15 DEF AsgNext, AsgUnchanged, AsgDequeue, AsgList, AsgSnapshot, AsgScan,
      AsgScanEnd, AsgRecheck, AsgMutex, AsgLock, AsgReadState, AsgCAS,
      AsgGetFields, AsgSetFields, AsgRequeueLocked, AsgRequeue, svVars,
      benchVars
<1>16. ASSUME NEW c \in Callers, CallNext(c), ~CompleteUncool(c)
      PROVE  UNCHANGED <<mon, agentCooldown>>
  BY <1>16 DEF CallNext, CallUnchanged, CallBegin, CallLock, HeartbeatGet,
      HeartbeatSet, CallReadState, CallCAS, CompleteSignal, CompleteClear,
      svVars, benchVars
<1>17. ASSUME NEW c \in Callers, CompleteUncool(c) PROVE SentinelIsTransient'
  BY <1>17 DEF CompleteUncool, CallUnchanged, SentinelIsTransient, TypeOK
<1>18. ASSUME NEW a \in Agents, CooldownExpires(a)
      PROVE  SentinelIsTransient'
  BY <1>18 DEF CooldownExpires, SentinelIsTransient, TypeOK
<1> QED
  BY <1>1, <1>2, <1>3, <1>4, <1>5, <1>6, <1>7, <1>8, <1>9, <1>10, <1>11,
     <1>12, <1>13, <1>14, <1>15, <1>16, <1>17, <1>18
  DEF Next, MonNext, vars, SubmitTask, RegisterStore, RegisterMutex,
      RegisterSession, Stop, StopDestroy, HeartbeatStales,
      CrashLeavesWindow, AssignBackoffExpires, svVars, benchVars

\* The 24h sentinel never outlives the crashAgent call that planted it: every
\* way out of crashAgent after MonSentinel goes through MonDefer or MonPolicy,
\* which replace it, and nobody else writes one.
THEOREM SentinelCorrect == Spec => []SentinelIsTransient
<1>1. Init => SentinelIsTransient
  BY DEF Init, SentinelIsTransient
<1> QED
  BY <1>1, SentinelStep, TypeInv, PTL DEF Spec
=============================================================================
