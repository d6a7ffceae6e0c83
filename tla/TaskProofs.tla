----------------------------- MODULE TaskProofs -----------------------------
(***************************************************************************)
(* The mutex, the bench and the tasks of module Supervisor, proved for any *)
(* number of agents, tasks, priorities and handler goroutines.             *)
(***************************************************************************)
EXTENDS SupervisorProofs

-----------------------------------------------------------------------------
(* The per-agent mutex *)

\* The goroutines are different processes, and None is none of them.
LEMMA ProcsDiffer ==
    /\ Assigner # Monitor /\ None # Monitor /\ None # Assigner
    /\ \A c \in Callers : c # Monitor /\ c # Assigner /\ c # None
    /\ None \notin Agents
  BY ConstantsAssumption

\* Only the monitor loop's own steps move it, and so on for the others.
LEMMA MonFrame == MonNext => UNCHANGED <<reg, asg, call, stopping, submitted, done>>
  BY DEF MonNext, MonUnchanged, MonList, MonEnd, MonRead, MonMutex, MonLock,
         MonPreRead, MonSentinel, MonReadState, MonCAS, MonDefer, MonRequeue,
         MonPolicy, MonDestroy, clientVars

LEMMA AsgFrame == AsgNext => UNCHANGED <<reg, mon, call, stopping, submitted, done>>
  BY DEF AsgNext, AsgUnchanged, AsgDequeue, AsgList, AsgSnapshot, AsgScan,
         AsgScanEnd, AsgRecheck, AsgMutex, AsgLock, AsgReadState, AsgCAS,
         AsgGetFields, AsgSetFields, AsgRequeueLocked, AsgRequeue, clientVars

LEMMA CallFrame ==
    ASSUME NEW c \in Callers, CallNext(c)
    PROVE  UNCHANGED <<reg, asg, mon, stopping, submitted, queue>>
  BY DEF CallNext, CallUnchanged, CallBegin, CallLock, HeartbeatGet,
         HeartbeatSet, CallReadState, CallCAS, CompleteSignal, CompleteClear,
         CompleteUncool

LEMMA LockMon ==
    ASSUME TypeOK, LocalsBound, LockDiscipline, MonNext
    PROVE  LockDiscipline'
<1>0. UNCHANGED <<asg, call>>
  BY MonFrame
<1>1. ASSUME UNCHANGED owner, \A a \in Agents : MonHolds(a)' <=> MonHolds(a)
      PROVE  LockDiscipline'
  BY <1>0, <1>1 DEF LockDiscipline, AsgHolds, CallHolds, CallShape
<1>2. ASSUME Unlock(mon.agent), mon.pc \in MonLocked, mon'.pc = "scan"
      PROVE  LockDiscipline'
  <2>1. mon.agent \in Agents /\ owner[mon.agent] = Monitor
    BY <1>2 DEF LocalsBound, LockDiscipline, MonHolds, MonLocked
  <2>2. \A a \in Agents : owner'[a] = IF a = mon.agent THEN None ELSE owner[a]
    BY <1>2, <2>1 DEF Unlock, TypeOK
  <2> QED
    BY <1>0, <1>2, <2>1, <2>2, ProcsDiffer
    DEF LockDiscipline, MonHolds, AsgHolds, CallHolds, CallShape, MonLocked
<1>3. CASE MonList
  BY <1>1, <1>3
  DEF MonList, MonHolds, MonLocked, TypeOK, MonRec, svVars
<1>4. CASE MonEnd
  BY <1>1, <1>4
  DEF MonEnd, MonHolds, MonLocked, TypeOK, MonRec, svVars, monIdle
<1>5. ASSUME NEW a \in Agents, MonRead(a) PROVE LockDiscipline'
  BY <1>1, <1>5
  DEF MonRead, MonHolds, MonLocked, TypeOK, MonRec, svVars
<1>6. CASE MonMutex
  BY <1>1, <1>6
  DEF MonMutex, MonHolds, MonLocked, TypeOK, MonRec, svVars, MonReturn,
      monIdle
<1>7. CASE MonLock
  <2>1. mon.agent \in Agents /\ owner[mon.agent] = None
        /\ mon'.agent = mon.agent /\ mon'.pc = "preread"
    BY <1>7 DEF MonLock, Lock, LocalsBound, TypeOK, MonRec
  <2>2. \A a \in Agents :
           owner'[a] = IF a = mon.agent THEN Monitor ELSE owner[a]
    BY <1>7, <2>1 DEF MonLock, Lock, TypeOK
  <2> QED
    BY <1>0, <1>7, <2>1, <2>2, ProcsDiffer
    DEF MonLock, LockDiscipline, MonHolds, AsgHolds, CallHolds, CallShape,
        MonLocked
<1>8. CASE MonPreRead
  BY <1>1, <1>2, <1>8
  DEF MonPreRead, MonHolds, MonLocked, TypeOK, MonRec, MonReturn, monIdle
<1>9. CASE MonSentinel
  BY <1>1, <1>9 DEF MonSentinel, MonHolds, MonLocked, TypeOK, MonRec
<1>10. CASE MonReadState
  BY <1>1, <1>10 DEF MonReadState, MonHolds, MonLocked, TypeOK, MonRec, svVars
<1>11. CASE MonCAS
  BY <1>1, <1>11 DEF MonCAS, MonHolds, MonLocked, TypeOK, MonRec, svVars
<1>12. CASE MonDefer
  BY <1>2, <1>12 DEF MonDefer, MonLocked, MonReturn, monIdle
<1>13. CASE MonRequeue
  BY <1>1, <1>13 DEF MonRequeue, MonHolds, MonLocked, TypeOK, MonRec, svVars
<1>14. CASE MonPolicy
  BY <1>1, <1>14 DEF MonPolicy, MonHolds, MonLocked, TypeOK, MonRec
<1>15. CASE MonDestroy
  BY <1>2, <1>15 DEF MonDestroy, MonLocked, MonReturn, monIdle
<1> QED
  BY <1>3, <1>4, <1>5, <1>6, <1>7, <1>8, <1>9, <1>10, <1>11, <1>12, <1>13,
     <1>14, <1>15 DEF MonNext

LEMMA LockAsg ==
    ASSUME TypeOK, LocalsBound, LockDiscipline, AsgNext
    PROVE  LockDiscipline'
<1>0. UNCHANGED <<mon, call>>
  BY AsgFrame
<1>1. ASSUME UNCHANGED owner, \A a \in Agents : AsgHolds(a)' <=> AsgHolds(a)
      PROVE  LockDiscipline'
  BY <1>0, <1>1 DEF LockDiscipline, MonHolds, CallHolds, CallShape
<1>2. ASSUME Unlock(asg.agent), asg.pc \in AsgLocked, asg'.pc \notin AsgLocked
      PROVE  LockDiscipline'
  <2>1. asg.agent \in Agents /\ owner[asg.agent] = Assigner
    BY <1>2 DEF LocalsBound, LockDiscipline, AsgHolds, AsgLocked
  <2>2. \A a \in Agents : owner'[a] = IF a = asg.agent THEN None ELSE owner[a]
    BY <1>2, <2>1 DEF Unlock, TypeOK
  <2> QED
    BY <1>0, <1>2, <2>1, <2>2, ProcsDiffer
    DEF LockDiscipline, MonHolds, AsgHolds, CallHolds, CallShape
<1>3. CASE AsgDequeue
  BY <1>1, <1>3
  DEF AsgDequeue, AsgHolds, AsgLocked, TypeOK, AsgRec
<1>4. CASE AsgList
  BY <1>1, <1>4 DEF AsgList, AsgHolds, AsgLocked, TypeOK, AsgRec, svVars
<1>5. CASE AsgSnapshot
  BY <1>1, <1>5 DEF AsgSnapshot, AsgHolds, AsgLocked, TypeOK, AsgRec, svVars
<1>6. ASSUME NEW a \in Agents, AsgScan(a) PROVE LockDiscipline'
  BY <1>1, <1>6 DEF AsgScan, AsgHolds, AsgLocked, TypeOK, AsgRec, svVars
<1>7. CASE AsgScanEnd
  BY <1>1, <1>7 DEF AsgScanEnd, AsgHolds, AsgLocked, TypeOK, AsgRec, svVars
<1>8. CASE AsgRecheck
  BY <1>1, <1>8 DEF AsgRecheck, AsgHolds, AsgLocked, TypeOK, AsgRec, svVars
<1>9. CASE AsgMutex
  BY <1>1, <1>9 DEF AsgMutex, AsgHolds, AsgLocked, TypeOK, AsgRec, svVars
<1>10. CASE AsgLock
  <2>1. asg.agent \in Agents /\ owner[asg.agent] = None
        /\ asg'.agent = asg.agent /\ asg'.pc = "read"
    BY <1>10 DEF AsgLock, Lock, LocalsBound, TypeOK, AsgRec
  <2>2. \A a \in Agents :
           owner'[a] = IF a = asg.agent THEN Assigner ELSE owner[a]
    BY <1>10, <2>1 DEF AsgLock, Lock, TypeOK
  <2> QED
    BY <1>0, <1>10, <2>1, <2>2, ProcsDiffer
    DEF AsgLock, LockDiscipline, MonHolds, AsgHolds, CallHolds, CallShape,
        AsgLocked
<1>11. CASE AsgReadState
  BY <1>1, <1>2, <1>11 DEF AsgReadState, AsgHolds, AsgLocked, TypeOK, AsgRec
<1>12. CASE AsgCAS
  BY <1>1, <1>2, <1>12 DEF AsgCAS, AsgHolds, AsgLocked, TypeOK, AsgRec
<1>13. CASE AsgGetFields
  BY <1>1, <1>13 DEF AsgGetFields, AsgHolds, AsgLocked, TypeOK, AsgRec, svVars
<1>14. CASE AsgSetFields
  BY <1>1, <1>2, <1>14
  DEF AsgSetFields, AsgHolds, AsgLocked, TypeOK, AsgRec, asgIdle
<1>15. CASE AsgRequeueLocked
  BY <1>2, <1>15 DEF AsgRequeueLocked, AsgLocked, asgIdle
<1>16. CASE AsgRequeue
  BY <1>1, <1>16 DEF AsgRequeue, AsgHolds, AsgLocked, TypeOK, AsgRec, asgIdle
<1> QED
  BY <1>3, <1>4, <1>5, <1>6, <1>7, <1>8, <1>9, <1>10, <1>11, <1>12, <1>13,
     <1>14, <1>15, <1>16 DEF AsgNext

\* A handler that returns lets go of the mutex if it has it, and of no other.
LEMMA LockReturn ==
    ASSUME TypeOK, LocalsBound, LockDiscipline, NEW c \in Callers,
           CallReturn(c), UNCHANGED <<mon, asg>>
    PROVE  LockDiscipline'
<1>1. /\ call'[c] = callIdle
      /\ \A d \in Callers : d # c => call'[d] = call[d]
  BY ReturnEffect
<1>2. CallShape(c)'
  BY <1>1 DEF CallShape, callIdle
<1>3. \A d \in Callers : d # c => CallShape(d)'
  BY <1>1 DEF CallShape, LockDiscipline
<1>4. \A a \in Agents : ~CallHolds(c, a)'
  BY <1>1 DEF CallHolds, callIdle
<1>5. \A a \in Agents, d \in Callers :
         d # c => (CallHolds(d, a)' <=> CallHolds(d, a))
  BY <1>1 DEF CallHolds
<1>6. \A a \in Agents : /\ MonHolds(a)' <=> MonHolds(a)
                        /\ AsgHolds(a)' <=> AsgHolds(a)
  BY DEF MonHolds, AsgHolds
<1>7. \A a \in Agents :
         owner'[a] = IF CallHolds(c, a) THEN None ELSE owner[a]
  BY DEF CallReturn, CallHolds, TypeOK
<1> QED
  BY <1>2, <1>3, <1>4, <1>5, <1>6, <1>7, ProcsDiffer DEF LockDiscipline

\* A handler that keeps the mutex, or goes on without it.
LEMMA LockKept ==
    ASSUME TypeOK, LockDiscipline, NEW c \in Callers,
           UNCHANGED <<mon, asg, owner>>,
           \A d \in Callers : d # c => call'[d] = call[d],
           \/ call'[c].agent = call[c].agent /\ call'[c].locked = call[c].locked
           \/ ~call'[c].locked /\ ~call[c].locked,
           CallShape(c)'
    PROVE  LockDiscipline'
  BY DEF LockDiscipline, MonHolds, AsgHolds, CallHolds, CallShape

LEMMA LockCall ==
    ASSUME TypeOK, LocalsBound, LockDiscipline, NEW c \in Callers, CallNext(c)
    PROVE  LockDiscipline'
<1>0. UNCHANGED <<mon, asg>>
  BY CallFrame
<1>00. CallShape(c)
  BY DEF LockDiscipline
<1>1. ASSUME NEW op \in Op, NEW a \in Agents, NEW t \in TaskID,
             CallBegin(c, op, a, t)
      PROVE  LockDiscipline'
  <2>1. /\ \A d \in Callers : d # c => call'[d] = call[d]
        /\ call'[c].pc \in {"lock", "read"} /\ ~call'[c].locked
        /\ call'[c].op = op
        /\ call'[c].pc = "read" => op \in {"StartWork", "ReportOutput"}
    BY <1>1 DEF CallBegin, TypeOK, callIdle
  <2>2. ~call[c].locked /\ UNCHANGED owner
    BY <1>00, <1>1 DEF CallBegin, CallShape, svVars
  <2> QED
    BY <1>0, <2>1, <2>2, LockKept DEF CallShape
<1>2. CASE CallLock(c)
  <2> DEFINE b == call[c].agent
  <2>1. b \in Agents /\ owner[b] = None
    BY <1>2 DEF CallLock, Lock, LocalsBound
  <2>2. /\ \A d \in Callers : d # c => call'[d] = call[d]
        /\ call'[c].agent = b /\ call'[c].locked /\ call'[c].op = call[c].op
        /\ call'[c].pc = IF call[c].op = "Heartbeat" THEN "get" ELSE "read"
    BY <1>2 DEF CallLock, TypeOK, CallRec
  <2>3. \A x \in Agents : owner'[x] = IF x = b THEN c ELSE owner[x]
    BY <1>2, <2>1 DEF CallLock, Lock, TypeOK
  <2>4. ~call[c].locked
    BY <1>00, <1>2 DEF CallLock, CallShape
  <2>5. \A d \in Callers : CallShape(d)'
    BY <2>2 DEF CallShape, LockDiscipline
  <2> QED
    BY <1>0, <2>1, <2>2, <2>3, <2>4, <2>5, ProcsDiffer
    DEF LockDiscipline, MonHolds, AsgHolds, CallHolds
<1>3. CASE CallReturn(c)
  BY <1>0, <1>3, LockReturn
<1>4. CASE HeartbeatGet(c) /\ ~CallReturn(c)
  <2>1. call' = [call EXCEPT ![c] =
                   [@ EXCEPT !.pc = "set", !.st = agState[call[c].agent],
                             !.task = curTask[call[c].agent],
                             !.prio = curPrio[call[c].agent]]]
        /\ UNCHANGED owner /\ call[c].pc = "get"
    BY <1>4, Zenon DEF HeartbeatGet
  <2> QED
    BY <1>0, <1>00, <2>1, LockKept DEF CallShape, TypeOK, CallRec
<1>5. CASE CallReadState(c) /\ ~CallReturn(c)
  <2>1. call' = [call EXCEPT ![c] = [@ EXCEPT !.pc = "cas",
                                              !.st = agState[call[c].agent]]]
        /\ UNCHANGED owner /\ call[c].pc = "read"
    BY <1>5, Zenon DEF CallReadState
  <2> QED
    BY <1>0, <1>00, <2>1, LockKept DEF CallShape, TypeOK, CallRec
<1>6. CASE CallCAS(c) /\ ~CallReturn(c)
  <2>1. call' = [call EXCEPT ![c].pc = "signal"]
        /\ UNCHANGED owner /\ call[c].pc = "cas"
        /\ call[c].op = "CompleteAgent"
    BY <1>6, Zenon DEF CallCAS
  <2> QED
    BY <1>0, <1>00, <2>1, LockKept DEF CallShape, TypeOK, CallRec
<1>7. CASE CompleteSignal(c)
  <2>1. call' = [call EXCEPT ![c].pc = "clear"]
        /\ UNCHANGED owner /\ call[c].pc = "signal"
    BY <1>7, Zenon DEF CompleteSignal
  <2> QED
    BY <1>0, <1>00, <2>1, LockKept DEF CallShape, TypeOK, CallRec
<1>8. CASE CompleteClear(c)
  <2>1. call' = [call EXCEPT ![c].pc = "uncool"]
        /\ UNCHANGED owner /\ call[c].pc = "clear"
    BY <1>8 DEF CompleteClear, svVars
  <2> QED
    BY <1>0, <1>00, <2>1, LockKept DEF CallShape, TypeOK, CallRec
<1> QED
  BY <1>1, <1>2, <1>3, <1>4, <1>5, <1>6, <1>7, <1>8
  DEF CallNext, HeartbeatSet, CompleteUncool

LEMMA LockStep ==
    TypeOK /\ LocalsBound /\ LockDiscipline /\ [Next]_vars => LockDiscipline'
<1> SUFFICES ASSUME TypeOK, LocalsBound, LockDiscipline, [Next]_vars
             PROVE  LockDiscipline'
  OBVIOUS
<1>1. CASE UNCHANGED <<owner, mon, asg, call>>
  BY <1>1
  DEF LockDiscipline, MonHolds, AsgHolds, CallHolds, CallShape
<1> QED
  BY <1>1, LockMon, LockAsg, LockCall
  DEF Next, vars, SubmitTask, RegisterStore, RegisterMutex, RegisterSession,
      Stop, StopDestroy, HeartbeatStales, CooldownExpires, CrashLeavesWindow,
      AssignBackoffExpires, svVars

LEMMA LockInit == Init => LockDiscipline
  BY ProcsDiffer
  DEF Init, LockDiscipline, MonHolds, AsgHolds, CallHolds, CallShape, asgIdle,
      monIdle, callIdle, MonLocked, AsgLocked

\* Two goroutines never hold the mutex of one agent.
LEMMA Exclusion ==
    ASSUME LockDiscipline, NEW a \in Agents
    PROVE  /\ ~(MonHolds(a) /\ AsgHolds(a))
           /\ \A c \in Callers : CallHolds(c, a) =>
                 /\ ~MonHolds(a) /\ ~AsgHolds(a)
                 /\ \A d \in Callers : CallHolds(d, a) => c = d
  BY ProcsDiffer DEF LockDiscipline

-----------------------------------------------------------------------------
(* Agents the store knows *)

LEMMA KnownMon ==
    ASSUME TypeOK, LocalsBound, Known, MonNext
    PROVE  Known'
<1>0. UNCHANGED <<reg, asg, call>>
  BY MonFrame
<1>1. UNCHANGED <<agents, agentMu, curTask>>
  BY DEF MonNext, MonList, MonEnd, MonRead, MonMutex, MonLock, MonPreRead,
         MonSentinel, MonReadState, MonCAS, MonDefer, MonRequeue, MonPolicy,
         MonDestroy, storeVars, svVars
<1>2. \A a \in Agents : a \notin agents => agState'[a] = agState[a]
  <2>1. CASE UNCHANGED agState
    BY <2>1
  <2>2. CASE MonCAS
    BY <2>2 DEF MonCAS, CASAgentState, TypeOK
  <2> QED
    BY <2>1, <2>2
    DEF MonNext, MonList, MonEnd, MonRead, MonMutex, MonLock, MonPreRead,
        MonSentinel, MonReadState, MonDefer, MonRequeue, MonPolicy,
        MonDestroy, storeVars, svVars
<1>3. /\ mon'.list \subseteq agents
      /\ mon'.pc \notin {"idle", "scan"} => mon'.agent \in agents
  <2>1. CASE MonList
    BY <2>1 DEF MonList, Known, TypeOK, MonRec
  <2>2. CASE MonEnd
    BY <2>2 DEF MonEnd, monIdle
  <2>3. ASSUME NEW a \in Agents, MonRead(a) PROVE <1>3!:
    <3>1. mon'.list = mon.list \ {a} /\ mon.pc = "scan" /\ a \in mon.list
      BY <2>3 DEF MonRead, TypeOK, MonRec
    <3>2. \/ mon'.pc = "scan"
          \/ mon'.agent = a
      BY <2>3 DEF MonRead, TypeOK, MonRec
    <3> QED
      BY <3>1, <3>2 DEF Known
  <2>4. CASE MonMutex
    <3>1. /\ mon'.list = mon.list /\ mon.pc = "mutex"
          /\ mon'.pc = "scan" \/ mon'.agent = mon.agent
      BY <2>4 DEF MonMutex, MonReturn, monIdle, TypeOK, MonRec
    <3> QED
      BY <3>1 DEF Known
  <2>5. CASE MonPreRead
    BY <2>5 DEF MonPreRead, MonReturn, monIdle, Known, TypeOK, MonRec
  <2>6. CASE MonDefer \/ MonDestroy
    BY <2>6 DEF MonDefer, MonDestroy, MonReturn, monIdle, Known
  <2>7. CASE \/ MonLock \/ MonSentinel \/ MonReadState \/ MonCAS
             \/ MonRequeue \/ MonPolicy
    <3>1. mon.pc \notin {"idle", "scan"} /\ mon'.list = mon.list
          /\ mon'.agent = mon.agent
      BY <2>7 DEF MonLock, MonSentinel, MonReadState, MonCAS, MonRequeue,
                  MonPolicy, TypeOK, MonRec
    <3> QED
      BY <3>1 DEF Known
  <2> QED
    BY <2>1, <2>2, <2>3, <2>4, <2>5, <2>6, <2>7 DEF MonNext
<1> QED
  BY <1>0, <1>1, <1>2, <1>3 DEF Known

LEMMA KnownAsg ==
    ASSUME TypeOK, LocalsBound, Known, AsgNext
    PROVE  Known'
<1> DEFINE Names == {"recheck", "mutex", "lock"} \cup AsgLocked
<1>0. UNCHANGED <<reg, mon, call>>
  BY AsgFrame
<1>1. UNCHANGED agentMu
  BY DEF AsgNext, AsgDequeue, AsgList, AsgSnapshot, AsgScan, AsgScanEnd,
         AsgRecheck, AsgMutex, AsgLock, AsgReadState, AsgCAS, AsgGetFields,
         AsgSetFields, AsgRequeueLocked, AsgRequeue, svVars
<1>2. /\ UNCHANGED agents
      /\ \A a \in Agents : a \notin agents =>
            agState'[a] = agState[a] /\ curTask'[a] = curTask[a]
  <2>1. CASE AsgCAS
    BY <2>1 DEF AsgCAS, CASAgentState, TypeOK
  <2>2. CASE AsgSetFields
    <3>1. asg.agent \in agents
      BY <2>2 DEF AsgSetFields, Known, AsgLocked
    <3>2. UNCHANGED agents
      BY <2>2, <3>1 DEF AsgSetFields
    <3> QED
      BY <2>2, <3>1, <3>2 DEF AsgSetFields, TypeOK
  <2>3. CASE UNCHANGED storeVars
    BY <2>3 DEF storeVars
  <2> QED
    BY <2>1, <2>2, <2>3
    DEF AsgNext, AsgDequeue, AsgList, AsgSnapshot, AsgScan, AsgScanEnd,
        AsgRecheck, AsgMutex, AsgLock, AsgReadState, AsgGetFields,
        AsgRequeueLocked, AsgRequeue, storeVars
<1>3. asg'.list \subseteq agents /\ (asg'.pc \in Names => asg'.agent \in agents)
  <2>0. asg \in AsgRec
    BY DEF TypeOK
  <2>1. CASE AsgDequeue
    <3>1. asg'.list = asg.list /\ asg'.pc \in {"idle", "list"}
      BY <2>0, <2>1 DEF AsgDequeue, AsgRec
    <3> QED
      BY <3>1 DEF Known, AsgLocked
  <2>2. CASE AsgList
    <3>1. asg'.list \in {agents, asg.list} /\ asg'.pc \in {"snapshot", "requeue"}
      BY <2>0, <2>2 DEF AsgList, AsgRec
    <3> QED
      BY <3>1 DEF Known, AsgLocked
  <2>3. ASSUME NEW a \in Agents, AsgScan(a) PROVE <1>3!:
    <3>1. asg'.list = asg.list \ {a} /\ a \in asg.list
      BY <2>3 DEF AsgScan, TypeOK, AsgRec
    <3>2. asg'.pc = "scan" \/ asg'.agent = a
      BY <2>3 DEF AsgScan, TypeOK, AsgRec
    <3> QED
      BY <3>1, <3>2 DEF Known, AsgLocked
  <2>4. CASE AsgSnapshot \/ AsgScanEnd
    <3>1. asg'.list = asg.list /\ asg'.pc \in {"scan", "requeue"}
      BY <2>4 DEF AsgSnapshot, AsgScanEnd, TypeOK, AsgRec
    <3> QED
      BY <3>1 DEF Known, AsgLocked
  <2>5. CASE AsgSetFields \/ AsgRequeueLocked \/ AsgRequeue
    BY <2>5
    DEF AsgSetFields, AsgRequeueLocked, AsgRequeue, asgIdle, Known, TypeOK,
        AsgRec, AsgLocked
  <2>6. CASE \/ AsgRecheck \/ AsgMutex \/ AsgLock \/ AsgReadState \/ AsgCAS
             \/ AsgGetFields
    <3>1. asg.pc \in Names /\ asg'.list = asg.list /\ asg'.agent = asg.agent
      BY <2>6
      DEF AsgRecheck, AsgMutex, AsgLock, AsgReadState, AsgCAS, AsgGetFields,
          TypeOK, AsgRec, AsgLocked
    <3> QED
      BY <3>1 DEF Known
  <2> QED
    BY <2>1, <2>2, <2>3, <2>4, <2>5, <2>6 DEF AsgNext
<1> QED
  BY <1>0, <1>1, <1>2, <1>3 DEF Known

\* Each step of a handler, by what it does to the handler's locals.
LEMMA BeginEffect ==
    ASSUME TypeOK, NEW c \in Callers, NEW op, NEW a, NEW t,
           CallBegin(c, op, a, t)
    PROVE  /\ call[c].pc = "idle" /\ a \in agentMu \cup agents
           /\ \A d \in Callers : d # c => call'[d] = call[d]
           /\ call'[c].pc \in {"lock", "read"} /\ ~call'[c].locked
           /\ call'[c].op = op /\ call'[c].agent = a
  BY DEF CallBegin, TypeOK, callIdle

LEMMA StepEffect ==
    ASSUME TypeOK, NEW c \in Callers, CallStep(c), ~CallReturn(c)
    PROVE  /\ call[c].pc # "idle"
           /\ \A d \in Callers : d # c => call'[d] = call[d]
           /\ call'[c].agent = call[c].agent
<1>1. CASE CallLock(c)
  BY <1>1 DEF CallLock, TypeOK, CallRec
<1>2. CASE HeartbeatGet(c)
  <2>1. call' = [call EXCEPT ![c] =
                   [@ EXCEPT !.pc = "set", !.st = agState[call[c].agent],
                             !.task = curTask[call[c].agent],
                             !.prio = curPrio[call[c].agent]]]
        /\ call[c].pc = "get"
    BY <1>2, Zenon DEF HeartbeatGet
  <2> QED
    BY <2>1 DEF TypeOK, CallRec
<1>3. CASE CallReadState(c)
  <2>1. call' = [call EXCEPT ![c] = [@ EXCEPT !.pc = "cas",
                                              !.st = agState[call[c].agent]]]
        /\ call[c].pc = "read"
    BY <1>3, Zenon DEF CallReadState
  <2> QED
    BY <2>1 DEF TypeOK, CallRec
<1>4. CASE CallCAS(c)
  <2>1. call' = [call EXCEPT ![c].pc = "signal"] /\ call[c].pc = "cas"
    BY <1>4, Zenon DEF CallCAS
  <2> QED
    BY <2>1 DEF TypeOK, CallRec
<1>5. CASE CompleteSignal(c) \/ CompleteClear(c)
  BY <1>5 DEF CompleteSignal, CompleteClear, TypeOK, CallRec
<1> QED
  BY <1>1, <1>2, <1>3, <1>4, <1>5
  DEF CallStep, HeartbeatSet, CompleteUncool

\* A step of a handler leaves the others alone and works on its own agent.
LEMMA CallAlone ==
    ASSUME TypeOK, NEW c \in Callers, CallNext(c)
    PROVE  /\ \A d \in Callers : d # c => call'[d] = call[d]
           /\ \/ call'[c].pc = "idle"
              \/ call[c].pc # "idle" /\ call'[c].agent = call[c].agent
              \/ call[c].pc = "idle" /\ call'[c].agent \in agentMu \cup agents
  BY BeginEffect, StepEffect, ReturnEffect DEF CallNext, CallStep

LEMMA KnownCall ==
    ASSUME TypeOK, LocalsBound, Known, NEW c \in Callers, CallNext(c)
    PROVE  Known'
<1>0. UNCHANGED <<reg, mon, asg>>
  BY CallFrame
<1>1. UNCHANGED agentMu
  BY DEF CallNext, CallBegin, CallLock, HeartbeatGet, HeartbeatSet,
         CallReadState, CallCAS, CompleteSignal, CompleteClear,
         CompleteUncool, svVars
<1>2. /\ UNCHANGED agents
      /\ \A a \in Agents : a \notin agents =>
            agState'[a] = agState[a] /\ curTask'[a] = curTask[a]
  <2>1. CASE CallCAS(c)
    BY <2>1 DEF CallCAS, CASAgentState, TypeOK
  <2>2. CASE HeartbeatSet(c)
    <3>1. call[c].agent \in agents
      BY <2>2 DEF HeartbeatSet, Known
    <3>2. UNCHANGED agents
      BY <2>2, <3>1 DEF HeartbeatSet, storeVars
    <3> QED
      BY <2>2, <3>1, <3>2 DEF HeartbeatSet, TypeOK, storeVars
  <2>3. CASE CompleteClear(c)
    BY <2>3 DEF CompleteClear, TypeOK
  <2>4. CASE UNCHANGED storeVars
    BY <2>4 DEF storeVars
  <2> QED
    BY <2>1, <2>2, <2>3, <2>4
    DEF CallNext, CallBegin, CallLock, HeartbeatGet, CallReadState,
        CompleteSignal, CompleteUncool, storeVars
<1>3. call'[c].pc # "idle" => call'[c].agent \in agents
  BY CallAlone DEF Known
<1>4. \A d \in Callers : d # c => call'[d] = call[d]
  BY CallAlone
<1> QED
  BY <1>0, <1>1, <1>2, <1>3, <1>4 DEF Known

LEMMA KnownStep == TypeOK /\ LocalsBound /\ Known /\ [Next]_vars => Known'
<1> SUFFICES ASSUME TypeOK, LocalsBound, Known, [Next]_vars PROVE Known'
  OBVIOUS
<1>1. ASSUME NEW a \in Agents, RegisterStore(a) PROVE Known'
  BY <1>1 DEF RegisterStore, Known, TypeOK, svVars
<1>2. ASSUME NEW a \in Agents, RegisterMutex(a) PROVE Known'
  BY <1>2 DEF RegisterMutex, Known, TypeOK, storeVars
<1>3. ASSUME NEW a \in Agents, RegisterSession(a) PROVE Known'
  BY <1>3 DEF RegisterSession, Known, TypeOK, storeVars
<1>4. CASE UNCHANGED <<agents, agState, curTask, agentMu, reg, mon, asg, call>>
  BY <1>4 DEF Known
<1> QED
  BY <1>1, <1>2, <1>3, <1>4, KnownMon, KnownAsg, KnownCall
  DEF Next, vars, SubmitTask, Stop, StopDestroy, HeartbeatStales,
      CooldownExpires, CrashLeavesWindow, AssignBackoffExpires, storeVars,
      svVars

-----------------------------------------------------------------------------
(* Idle and busy *)

\* The table: an idle agent only accepts an assignment (or a spurious crash),
\* an assignment starts from idle, and only a completion or a crash ends in
\* idle.
LEMMA Transitions ==
    ASSUME NEW from \in AgentState, NEW event,
           NEW to \in ValidTransition(from, event)
    PROVE  /\ event = EventAgentFailed => to = StateIdle
           /\ event = EventTaskAssigned => from = StateIdle /\ to # StateIdle
           /\ event \in {EventWorkStarted, EventOutputReady} =>
                 from # StateIdle /\ to # StateIdle
           /\ event = EventOutputDelivered => from # StateIdle /\ to = StateIdle
  BY DEF ValidTransition, transitionTable, AgentState, StateIdle,
         StateAssigned, StateWorking, StateReporting, EventTaskAssigned,
         EventWorkStarted, EventOutputReady, EventOutputDelivered,
         EventAgentFailed

\* What a successful compare-and-set of agent a does to idleness.
LEMMA CASEffect ==
    ASSUME TypeOK, NEW a \in Agents, NEW st, NEW event,
           CASAgentState(a, st, event)
    PROVE  /\ agState[a] = st
           /\ \A b \in Agents : b # a => agState'[b] = agState[b]
           /\ event = EventAgentFailed => Idle(a)'
           /\ event = EventTaskAssigned => Idle(a) /\ ~Idle(a)'
           /\ event \in {EventWorkStarted, EventOutputReady} =>
                 ~Idle(a) /\ ~Idle(a)'
           /\ event = EventOutputDelivered => ~Idle(a) /\ Idle(a)'
<1>1. agState[a] = st /\ st \in AgentState
  BY DEF CASAgentState, TypeOK
<1>2. PICK next \in ValidTransition(st, event) :
         agState' = [agState EXCEPT ![a] = next]
  BY DEF CASAgentState
<1>3. agState'[a] = next /\ \A b \in Agents : b # a => agState'[b] = agState[b]
  BY <1>2 DEF TypeOK
<1> QED
  BY <1>1, <1>2, <1>3, Transitions DEF Idle

\* Nobody's reading goes stale when no agent moves between idle and busy, or
\* when one does under a mutex that the reader does not have.
LEMMA MonReadsKept ==
    ASSUME LocalsBound, MonReads, UNCHANGED mon,
           \A a \in Agents : MonHolds(a) => (Idle(a)' <=> Idle(a))
    PROVE  MonReads'
  BY DEF MonReads, MonHolds, MonLocked, LocalsBound

LEMMA AsgReadsKept ==
    ASSUME LocalsBound, AsgReads, UNCHANGED asg,
           \A a \in Agents : AsgHolds(a) => (Idle(a)' <=> Idle(a)),
           \A a \in Agents : Idle(a) => Idle(a)'
    PROVE  AsgReads'
  BY DEF AsgReads, AsgHolds, AsgLocked, LocalsBound

LEMMA CallReadsKept ==
    ASSUME LocalsBound, LockDiscipline, NEW c \in Callers, CallReads(c),
           call'[c] = call[c],
           \A a \in Agents : CallHolds(c, a) => (Idle(a)' <=> Idle(a))
    PROVE  CallReads(c)'
  BY DEF CallReads, CallHolds, CallShape, LockDiscipline, LocalsBound

LEMMA IdleMon ==
    ASSUME TypeOK, LocalsBound, LockDiscipline, IdleUnderLock, MonNext
    PROVE  IdleUnderLock'
<1>0. UNCHANGED <<asg, call>>
  BY MonFrame
<1>1. CASE MonCAS
  <2>1. mon.agent \in Agents /\ MonHolds(mon.agent)
    BY <1>1 DEF MonCAS, LocalsBound, MonHolds, MonLocked
  <2>2. ~AsgHolds(mon.agent) /\ \A c \in Callers : ~CallHolds(c, mon.agent)
    BY <2>1, Exclusion
  <2>3. /\ \A b \in Agents : b # mon.agent => (Idle(b)' <=> Idle(b))
        /\ Idle(mon.agent) => Idle(mon.agent)'
        /\ mon'.pc = "requeue" => Idle(mon.agent)'
        /\ mon'.pc \in {"requeue", "defer"} /\ mon'.agent = mon.agent
    <3>1. CASE CASAgentState(mon.agent, mon.st, EventAgentFailed)
      BY <1>1, <2>1, <3>1, CASEffect DEF MonCAS, Idle, TypeOK, MonRec
    <3>2. CASE UNCHANGED agState /\ mon' = [mon EXCEPT !.pc = "defer"]
      BY <3>2 DEF Idle, TypeOK, MonRec
    <3> QED
      BY <1>1, <3>1, <3>2 DEF MonCAS
  <2>4. MonReads'
    BY <2>3 DEF MonReads
  <2>5. AsgReads'
    BY <1>0, <2>2, <2>3, AsgReadsKept DEF IdleUnderLock
  <2>6. \A c \in Callers : CallReads(c)'
    BY <1>0, <2>2, <2>3, CallReadsKept DEF IdleUnderLock
  <2> QED
    BY <2>4, <2>5, <2>6 DEF IdleUnderLock
<1>2. CASE ~MonCAS
  <2>1. UNCHANGED agState
    BY <1>2 DEF MonNext, MonList, MonEnd, MonRead, MonMutex, MonLock,
         MonPreRead, MonSentinel, MonReadState, MonDefer, MonRequeue,
         MonPolicy, MonDestroy, storeVars
  <2>2. AsgReads' /\ \A c \in Callers : CallReads(c)'
    BY <1>0, <2>1 DEF IdleUnderLock, AsgReads, CallReads, Idle
  <2>3. MonReads'
    <3>1. CASE MonReadState
      BY <2>1, <3>1 DEF MonReadState, MonReads, Idle, TypeOK, MonRec
    <3>2. CASE MonRequeue \/ MonPolicy
      BY <2>1, <3>2
      DEF MonRequeue, MonPolicy, IdleUnderLock, MonReads, Idle, TypeOK, MonRec
    <3>3. CASE ~MonReadState /\ ~MonRequeue /\ ~MonPolicy
      <4>1. mon'.pc \notin {"cas", "requeue", "policy", "destroy"}
        <5>1. CASE MonList \/ MonLock \/ MonSentinel
          BY <5>1 DEF MonList, MonLock, MonSentinel, TypeOK, MonRec
        <5>2. CASE MonMutex \/ MonPreRead
          BY <5>2 DEF MonMutex, MonPreRead, MonReturn, monIdle, TypeOK, MonRec
        <5>3. CASE MonEnd
          BY <5>3 DEF MonEnd, monIdle
        <5>5. CASE MonDefer \/ MonDestroy
          BY <5>5 DEF MonDefer, MonDestroy, MonReturn, monIdle
        <5>4. ASSUME NEW a \in Agents, MonRead(a) PROVE <4>1!:
          BY <5>4 DEF MonRead, TypeOK, MonRec
        <5> QED
          BY <1>2, <3>3, <5>1, <5>2, <5>3, <5>4, <5>5 DEF MonNext
      <4> QED
        BY <4>1 DEF MonReads
    <3> QED
      BY <3>1, <3>2, <3>3
  <2> QED
    BY <2>2, <2>3 DEF IdleUnderLock
<1> QED
  BY <1>1, <1>2

LEMMA IdleAsg ==
    ASSUME TypeOK, LocalsBound, LockDiscipline, Known, IdleUnderLock, AsgNext
    PROVE  IdleUnderLock'
<1>0. UNCHANGED <<mon, call>>
  BY AsgFrame
<1>1. ASSUME \A a \in Agents : AsgHolds(a) \/ (Idle(a)' <=> Idle(a))
      PROVE  MonReads' /\ \A c \in Callers : CallReads(c)'
  <2>1. MonReads'
    BY <1>0, <1>1, Exclusion, MonReadsKept DEF IdleUnderLock
  <2>2. \A c \in Callers : CallReads(c)'
    BY <1>0, <1>1, Exclusion, CallReadsKept DEF IdleUnderLock
  <2> QED
    BY <2>1, <2>2
<1>2. CASE AsgCAS
  <2>1. asg.agent \in Agents /\ AsgHolds(asg.agent)
    BY <1>2 DEF AsgCAS, LocalsBound, AsgHolds, AsgLocked
  <2>2. /\ \A b \in Agents : b # asg.agent => (Idle(b)' <=> Idle(b))
        /\ AsgReads'
    <3>1. CASE CASAgentState(asg.agent, asg.st, EventTaskAssigned)
               /\ asg' = [asg EXCEPT !.pc = "get"]
      BY <2>1, <3>1, CASEffect DEF AsgReads, Idle, TypeOK, AsgRec
    <3>2. CASE UNCHANGED agState /\ asg'.pc = "requeue"
      BY <3>2 DEF AsgReads, Idle
    <3> QED
      BY <1>2, <3>1, <3>2 DEF AsgCAS, TypeOK, AsgRec
  <2> QED
    BY <1>1, <2>1, <2>2 DEF IdleUnderLock, AsgHolds
<1>3. CASE AsgSetFields
  <2>1. asg.agent \in Agents /\ AsgHolds(asg.agent)
    BY <1>3 DEF AsgSetFields, LocalsBound, AsgHolds, AsgLocked
  <2>2. \A b \in Agents : b # asg.agent => (Idle(b)' <=> Idle(b))
    BY <1>3, <2>1 DEF AsgSetFields, Idle, TypeOK
  <2>3. AsgReads'
    BY <1>3 DEF AsgSetFields, asgIdle, AsgReads, IdleUnderLock, Idle, TypeOK,
                AsgRec
  <2> QED
    BY <1>1, <2>1, <2>2, <2>3 DEF IdleUnderLock, AsgHolds
<1>4. CASE ~AsgCAS /\ ~AsgSetFields
  <2>1. UNCHANGED agState
    BY <1>4 DEF AsgNext, AsgDequeue, AsgList, AsgSnapshot, AsgScan,
         AsgScanEnd, AsgRecheck, AsgMutex, AsgLock, AsgReadState,
         AsgGetFields, AsgRequeueLocked, AsgRequeue, storeVars
  <2>2. AsgReads'
    <3>1. ASSUME NEW a \in Agents, AsgScan(a) PROVE AsgReads'
      BY <2>1, <3>1 DEF AsgScan, AsgReads, Idle, TypeOK, AsgRec
    <3>2. CASE AsgReadState
      <4>1. asg.agent \in Agents /\ Idle(asg.agent)
        BY <3>2 DEF AsgReadState, LocalsBound, IdleUnderLock, AsgReads
      <4> QED
        BY <2>1, <3>2, <4>1 DEF AsgReadState, AsgReads, Idle, TypeOK, AsgRec
    <3>3. CASE AsgGetFields
      BY <2>1, <3>3
      DEF AsgGetFields, IdleUnderLock, AsgReads, Idle, TypeOK, AsgRec
    <3>4. CASE AsgRecheck \/ AsgMutex \/ AsgLock
      BY <2>1, <3>4
      DEF AsgRecheck, AsgMutex, AsgLock, IdleUnderLock, AsgReads, Idle,
          TypeOK, AsgRec
    <3>5. CASE \/ AsgDequeue \/ AsgList \/ AsgSnapshot \/ AsgScanEnd
               \/ AsgRequeueLocked \/ AsgRequeue
      <4>1. asg'.pc \in {"idle", "list", "snapshot", "scan", "requeue"}
        <5>1. CASE AsgDequeue
          BY <5>1 DEF AsgDequeue, TypeOK, AsgRec
        <5>2. CASE AsgList \/ AsgSnapshot \/ AsgScanEnd
          BY <5>2 DEF AsgList, AsgSnapshot, AsgScanEnd, TypeOK, AsgRec
        <5>3. CASE AsgRequeueLocked \/ AsgRequeue
          BY <5>3 DEF AsgRequeueLocked, AsgRequeue, asgIdle
        <5> QED
          BY <3>5, <5>1, <5>2, <5>3
      <4> QED
        BY <4>1 DEF AsgReads
    <3> QED
      BY <1>4, <3>1, <3>2, <3>3, <3>4, <3>5 DEF AsgNext
  <2> QED
    BY <1>1, <2>1, <2>2 DEF IdleUnderLock, Idle
<1> QED
  BY <1>2, <1>3, <1>4

LEMMA IdleCall ==
    ASSUME TypeOK, LocalsBound, LockDiscipline, IdleUnderLock,
           NEW c \in Callers, CallNext(c)
    PROVE  IdleUnderLock'
<1>0. UNCHANGED <<mon, asg>> /\ \A d \in Callers : d # c => call'[d] = call[d]
  BY CallFrame, CallAlone
<1>1. ASSUME CallReads(c)',
             \A a \in Agents : \/ Idle(a)' <=> Idle(a)
                               \/ CallHolds(c, a) /\ Idle(a)'
      PROVE  IdleUnderLock'
  <2>1. MonReads'
    BY <1>0, <1>1, Exclusion, MonReadsKept DEF IdleUnderLock
  <2>2. AsgReads'
    BY <1>0, <1>1, Exclusion, AsgReadsKept DEF IdleUnderLock
  <2>3. \A d \in Callers : d # c => CallReads(d)'
    BY <1>0, <1>1, Exclusion, CallReadsKept DEF IdleUnderLock
  <2> QED
    BY <1>1, <2>1, <2>2, <2>3 DEF IdleUnderLock
<1>2. CASE CallCAS(c)
  <2> PICK b \in Agents : b = call[c].agent
    BY <1>2 DEF CallCAS, LocalsBound
  <2>1. call[c].op # "Heartbeat" /\ call[c].op \in Op
        /\ (call[c].op = "CompleteAgent" => CallHolds(c, b))
    BY <1>2
    DEF CallCAS, LockDiscipline, CallShape, CallHolds, TypeOK, CallRec
  <2>2. CASE UNCHANGED agState /\ CallReturn(c)
    BY <1>1, <2>2, ReturnEffect DEF CallReads, Idle
  <2>3. CASE /\ CASAgentState(b, call[c].st, EventOf(call[c].op))
             /\ IF call[c].op = "CompleteAgent"
                THEN call' = [call EXCEPT ![c].pc = "signal"]
                ELSE CallReturn(c)
    <3>1. CASE call[c].op = "CompleteAgent"
      <4>1. CASAgentState(b, call[c].st, EventOutputDelivered)
        BY <2>3, <3>1 DEF EventOf
      <4>2. Idle(b)' /\ \A x \in Agents : x # b => agState'[x] = agState[x]
        BY <4>1, CASEffect
      <4>3. call'[c].pc = "signal" /\ call'[c].agent = b
        BY <2>3, <3>1 DEF TypeOK, CallRec
      <4> QED
        BY <1>1, <2>1, <3>1, <4>2, <4>3 DEF CallReads, Idle
    <3>2. CASE call[c].op # "CompleteAgent"
      <4>1. EventOf(call[c].op) \in {EventWorkStarted, EventOutputReady}
        BY <2>1, <3>2 DEF EventOf, Op
      <4>2. /\ \A x \in Agents : x # b => agState'[x] = agState[x]
            /\ ~Idle(b) /\ ~Idle(b)'
        BY <2>3, <4>1, CASEffect
      <4>3. CallReads(c)'
        BY <2>3, <3>2, ReturnEffect DEF CallReads
      <4> QED
        BY <1>1, <4>2, <4>3 DEF Idle
    <3> QED
      BY <3>1, <3>2
  <2> QED
    BY <1>2, <2>2, <2>3 DEF CallCAS
<1>3. CASE HeartbeatSet(c)
  <2> DEFINE b == call[c].agent
  <2>1. b \in Agents /\ (call[c].st = StateIdle <=> Idle(b))
    BY <1>3 DEF HeartbeatSet, LocalsBound, IdleUnderLock, CallReads
  <2>2. \A x \in Agents : Idle(x)' <=> Idle(x)
    BY <1>3, <2>1 DEF HeartbeatSet, Idle, TypeOK, storeVars
  <2> QED
    BY <1>1, <1>3, <2>2, ReturnEffect DEF HeartbeatSet, CallReads
<1>4. CASE ~CallCAS(c) /\ ~HeartbeatSet(c)
  <2>1. UNCHANGED agState
    BY <1>4 DEF CallNext, CallBegin, CallLock, HeartbeatGet, CallReadState,
         CompleteSignal, CompleteClear, CompleteUncool, storeVars
  <2>2. CallReads(c)'
    <3>1. CASE CallReturn(c)
      BY <3>1, ReturnEffect DEF CallReads
    <3>2. ASSUME NEW op \in Op, NEW a \in Agents, NEW t \in TaskID,
                 CallBegin(c, op, a, t)
          PROVE  CallReads(c)'
      BY <3>2, BeginEffect DEF CallReads
    <3>3. CASE CallLock(c)
      BY <3>3 DEF CallLock, CallReads, TypeOK, CallRec
    <3>4. CASE HeartbeatGet(c) /\ ~CallReturn(c)
      <4>1. call' = [call EXCEPT ![c] =
                       [@ EXCEPT !.pc = "set",
                                 !.st = agState[call[c].agent],
                                 !.task = curTask[call[c].agent],
                                 !.prio = curPrio[call[c].agent]]]
        BY <3>4, Zenon DEF HeartbeatGet
      <4> QED
        BY <2>1, <4>1 DEF CallReads, Idle, TypeOK, CallRec
    <3>5. CASE CallReadState(c) /\ ~CallReturn(c)
      <4>1. call' = [call EXCEPT ![c] = [@ EXCEPT !.pc = "cas",
                                                  !.st = agState[call[c].agent]]]
        BY <3>5, Zenon DEF CallReadState
      <4> QED
        BY <4>1 DEF CallReads, TypeOK, CallRec
    <3>6. CASE CompleteSignal(c) \/ CompleteClear(c)
      BY <2>1, <3>6
      DEF CompleteSignal, CompleteClear, IdleUnderLock, CallReads, Idle,
          TypeOK, CallRec
    <3> QED
      BY <1>4, <3>1, <3>2, <3>3, <3>4, <3>5, <3>6 DEF CallNext, CompleteUncool
  <2> QED
    BY <1>1, <2>1, <2>2 DEF Idle
<1> QED
  BY <1>2, <1>3, <1>4

LEMMA IdleStep ==
    TypeOK /\ LocalsBound /\ LockDiscipline /\ Known /\ IdleUnderLock
    /\ [Next]_vars => IdleUnderLock'
<1> SUFFICES ASSUME TypeOK, LocalsBound, LockDiscipline, Known, IdleUnderLock,
                    [Next]_vars
             PROVE  IdleUnderLock'
  OBVIOUS
<1>1. ASSUME NEW a \in Agents, RegisterStore(a)
      PROVE  UNCHANGED <<agState, mon, asg, call>>
  <2>1. agState[a] = StateIdle
    BY <1>1 DEF RegisterStore, Known
  <2> QED
    BY <1>1, <2>1 DEF RegisterStore, TypeOK
<1>2. CASE UNCHANGED <<agState, mon, asg, call>>
  BY <1>2 DEF IdleUnderLock, MonReads, AsgReads, CallReads, Idle
<1> QED
  BY <1>1, <1>2, IdleMon, IdleAsg, IdleCall
  DEF Next, vars, SubmitTask, RegisterMutex, RegisterSession, Stop,
      StopDestroy, HeartbeatStales, CooldownExpires, CrashLeavesWindow,
      AssignBackoffExpires, storeVars

\* An idle agent becomes busy in one way only: the compare-and-set of
\* tryAssignTask, with the agent's mutex held.
LEMMA OnlyAssignerWakes ==
    ASSUME TypeOK, LocalsBound, Known, IdleUnderLock, [Next]_vars,
           NEW a \in Agents, Idle(a), ~Idle(a)'
    PROVE  AsgCAS /\ asg.agent = a /\ AsgHolds(a)
<1>1. ~MonNext
  <2>1. CASE MonCAS
    <3> PICK b \in Agents : b = mon.agent
      BY <2>1 DEF MonCAS, LocalsBound
    <3>1. ~CASAgentState(b, mon.st, EventAgentFailed)
      BY CASEffect DEF Idle
    <3> QED
      BY <2>1, <3>1 DEF MonCAS, Idle
  <2> QED
    BY <2>1
    DEF Idle, MonNext, MonList, MonEnd, MonRead, MonMutex, MonLock,
        MonPreRead, MonSentinel, MonReadState, MonDefer, MonRequeue,
        MonPolicy, MonDestroy, storeVars
<1>2. ASSUME NEW c \in Callers, CallNext(c) PROVE FALSE
  <2>1. CASE CallCAS(c)
    <3> PICK b \in Agents : b = call[c].agent
      BY <2>1 DEF CallCAS, LocalsBound
    <3>1. EventOf(call[c].op) \in {EventWorkStarted, EventOutputReady,
                                   EventOutputDelivered}
      BY DEF EventOf
    <3>2. ~CASAgentState(b, call[c].st, EventOf(call[c].op))
      BY <3>1, CASEffect DEF Idle
    <3> QED
      BY <2>1, <3>2 DEF CallCAS, Idle
  <2>2. CASE HeartbeatSet(c)
    BY <2>2 DEF HeartbeatSet, IdleUnderLock, CallReads, LocalsBound, Idle,
                TypeOK, storeVars
  <2> QED
    BY <1>2, <2>1, <2>2
    DEF Idle, CallNext, CallBegin, CallLock, HeartbeatGet, CallReadState,
        CompleteSignal, CompleteClear, CompleteUncool, storeVars
<1>3. ASSUME AsgNext PROVE AsgCAS /\ asg.agent = a
  <2>1. ~AsgSetFields
    BY DEF AsgSetFields, IdleUnderLock, AsgReads, LocalsBound, Idle, TypeOK
  <2>2. AsgCAS
    BY <1>3, <2>1
    DEF Idle, AsgNext, AsgDequeue, AsgList, AsgSnapshot, AsgScan, AsgScanEnd,
        AsgRecheck, AsgMutex, AsgLock, AsgReadState, AsgGetFields,
        AsgRequeueLocked, AsgRequeue, storeVars
  <2>3. PICK b \in Agents : b = asg.agent
    BY <2>2 DEF AsgCAS, LocalsBound
  <2>4. CASAgentState(b, asg.st, EventTaskAssigned)
    BY <2>2, <2>3 DEF AsgCAS, Idle
  <2> QED
    BY <2>2, <2>3, <2>4, CASEffect DEF Idle
<1>4. AsgCAS => asg.pc = "cas"
  BY DEF AsgCAS
<1>5. ASSUME NEW b \in Agents, RegisterStore(b) PROVE FALSE
  BY <1>5 DEF RegisterStore, Idle, TypeOK
<1> QED
  BY <1>1, <1>2, <1>3, <1>4, <1>5
  DEF Next, vars, Idle, SubmitTask, RegisterMutex, RegisterSession, Stop,
      StopDestroy, HeartbeatStales, CooldownExpires, CrashLeavesWindow,
      AssignBackoffExpires, storeVars, AsgHolds, AsgLocked

-----------------------------------------------------------------------------
(* The bench *)

LEMMA BenchMon ==
    ASSUME TypeOK, LocalsBound, IdleUnderLock, BenchHeld, MonNext
    PROVE  BenchHeld'
<1>0. UNCHANGED asg
  BY MonFrame
<1>1. asg.pc \in {"mutex", "lock", "read", "cas"} => asg.agent \in Agents
  BY DEF LocalsBound
<1>2. mon.pc \notin {"idle", "scan"} => mon.agent \in Agents
  BY DEF LocalsBound
<1>3. CASE MonSentinel
  BY <1>0, <1>1, <1>2, <1>3
  DEF MonSentinel, BenchHeld, MonBench, AsgBench, TypeOK, MonRec
<1>4. CASE MonReadState
  BY <1>0, <1>4
  DEF MonReadState, BenchHeld, MonBench, AsgBench, TypeOK, MonRec, svVars,
      benchVars
<1>5. CASE MonCAS
  <2>1. /\ UNCHANGED <<agentCooldown, circuitOpen>>
        /\ mon.pc = "cas" /\ mon'.agent = mon.agent
        /\ mon'.pc \in {"defer", "requeue"}
    BY <1>5 DEF MonCAS, svVars, benchVars, TypeOK, MonRec
  <2>2. /\ mon'.pc = "requeue"
        /\ asg.pc \in {"mutex", "lock", "read", "cas"}
        => mon.agent # asg.agent
    <3>1. mon'.pc = "requeue" => mon.st # StateIdle
      BY <1>5 DEF MonCAS, TypeOK, MonRec
    <3> QED
      BY <2>1, <3>1 DEF IdleUnderLock, MonReads, AsgReads, Idle
  <2> QED
    BY <1>0, <2>1, <2>2 DEF BenchHeld, MonBench, AsgBench
<1>6. CASE MonDefer
  BY <1>0, <1>1, <1>2, <1>6
  DEF MonDefer, MonReturn, monIdle, BenchHeld, MonBench, AsgBench, TypeOK
<1>7. CASE MonRequeue
  BY <1>0, <1>7
  DEF MonRequeue, BenchHeld, MonBench, AsgBench, TypeOK, MonRec, svVars,
      benchVars
<1>8. CASE MonPolicy
  <2>1. asg.pc \in {"mutex", "lock", "read", "cas"} => mon.agent # asg.agent
    BY <1>8 DEF MonPolicy, BenchHeld, AsgBench
  <2>2. /\ mon'.pc = "destroy"
        /\ \A a \in Agents : a # mon.agent =>
              /\ agentCooldown'[a] = agentCooldown[a]
              /\ a \in circuitOpen' <=> a \in circuitOpen
    BY <1>2, <1>8 DEF MonPolicy, TypeOK, MonRec
  <2> QED
    BY <1>0, <1>1, <2>1, <2>2, <1>8
    DEF MonPolicy, BenchHeld, MonBench, AsgBench
<1>9. CASE ~(\/ MonSentinel \/ MonReadState \/ MonCAS \/ MonDefer
             \/ MonRequeue \/ MonPolicy)
  <2>1. UNCHANGED <<agentCooldown, circuitOpen>>
    BY <1>9 DEF MonNext, MonList, MonEnd, MonRead, MonMutex, MonLock,
                MonPreRead, MonDestroy, svVars, benchVars
  <2>2. /\ mon.pc \in {"idle", "scan", "mutex", "lock", "preread", "destroy"}
        /\ mon'.pc \in {"idle", "scan", "mutex", "lock", "preread",
                        "sentinel"}
    <3>1. CASE MonList \/ MonLock
      BY <3>1 DEF MonList, MonLock, TypeOK, MonRec
    <3>2. CASE MonEnd
      BY <3>2 DEF MonEnd, monIdle
    <3>3. CASE MonMutex \/ MonPreRead
      BY <3>3 DEF MonMutex, MonPreRead, MonReturn, monIdle, TypeOK, MonRec
    <3>4. CASE MonDestroy
      BY <3>4 DEF MonDestroy, MonReturn, monIdle
    <3>5. ASSUME NEW a \in Agents, MonRead(a) PROVE <2>2!:
      BY <3>5 DEF MonRead, TypeOK, MonRec
    <3> QED
      BY <1>9, <3>1, <3>2, <3>3, <3>4, <3>5 DEF MonNext
  <2> QED
    BY <1>0, <2>1, <2>2 DEF BenchHeld, MonBench, AsgBench
<1> QED
  BY <1>3, <1>4, <1>5, <1>6, <1>7, <1>8, <1>9

LEMMA BenchAsg ==
    ASSUME TypeOK, LocalsBound, BenchHeld, AsgNext
    PROVE  BenchHeld'
<1>0. UNCHANGED <<mon, agentCooldown, circuitOpen>>
  BY AsgFrame
  DEF AsgNext, AsgDequeue, AsgList, AsgSnapshot, AsgScan, AsgScanEnd,
      AsgRecheck, AsgMutex, AsgLock, AsgReadState, AsgCAS, AsgGetFields,
      AsgSetFields, AsgRequeueLocked, AsgRequeue, svVars, benchVars
<1>1. MonBench'
  BY <1>0 DEF BenchHeld, MonBench
<1>2. AsgBench'
  <2>1. CASE AsgRecheck
    BY <1>0, <2>1 DEF AsgRecheck, BenchHeld, MonBench, AsgBench, TypeOK, AsgRec
  <2>2. CASE AsgMutex \/ AsgLock \/ AsgReadState
    BY <1>0, <2>2
    DEF AsgMutex, AsgLock, AsgReadState, BenchHeld, AsgBench, TypeOK, AsgRec
  <2>3. CASE ~AsgRecheck /\ ~AsgMutex /\ ~AsgLock /\ ~AsgReadState
    <3>1. asg'.pc \notin {"mutex", "lock", "read", "cas"}
      <4>1. CASE AsgDequeue
        BY <4>1 DEF AsgDequeue, BenchHeld, AsgBench, TypeOK, AsgRec
      <4>2. CASE AsgList \/ AsgSnapshot \/ AsgScanEnd
        BY <4>2 DEF AsgList, AsgSnapshot, AsgScanEnd, TypeOK, AsgRec
      <4>3. ASSUME NEW a \in Agents, AsgScan(a) PROVE <3>1!:
        BY <4>3 DEF AsgScan, TypeOK, AsgRec
      <4>4. CASE AsgCAS \/ AsgGetFields
        BY <4>4 DEF AsgCAS, AsgGetFields, TypeOK, AsgRec
      <4>5. CASE AsgSetFields
        BY <4>5 DEF AsgSetFields, asgIdle, TypeOK, AsgRec
      <4>6. CASE AsgRequeueLocked \/ AsgRequeue
        BY <4>6 DEF AsgRequeueLocked, AsgRequeue, asgIdle
      <4> QED
        BY <2>3, <4>1, <4>2, <4>3, <4>4, <4>5, <4>6 DEF AsgNext
    <3> QED
      BY <3>1 DEF AsgBench
  <2> QED
    BY <2>1, <2>2, <2>3
<1> QED
  BY <1>1, <1>2 DEF BenchHeld

LEMMA BenchStep ==
    TypeOK /\ LocalsBound /\ LockDiscipline /\ IdleUnderLock /\ BenchHeld
    /\ [Next]_vars => BenchHeld'
<1> SUFFICES ASSUME TypeOK, LocalsBound, LockDiscipline, IdleUnderLock,
                    BenchHeld, [Next]_vars
             PROVE  BenchHeld'
  OBVIOUS
<1>1. CASE UNCHANGED <<mon, asg, agentCooldown, circuitOpen>>
  BY <1>1 DEF BenchHeld, MonBench, AsgBench
<1>2. ASSUME NEW c \in Callers, CallNext(c) PROVE BenchHeld'
  <2>1. CASE CompleteUncool(c)
    <3>1. PICK b \in Agents : b = call[c].agent
      BY <2>1 DEF CompleteUncool, LocalsBound
    <3>2. CallHolds(c, b)
      BY <2>1, <3>1 DEF CompleteUncool, LockDiscipline, CallShape, CallHolds
    <3>3. ~MonHolds(b)
      BY <3>2, Exclusion
    <3>4. mon.pc \in {"read", "cas", "defer", "requeue", "policy"} =>
             mon.agent # b
      BY <3>3 DEF MonHolds, MonLocked
    <3>5. MonBench'
      BY <1>2, <2>1, <3>1, <3>4, CallFrame
      DEF CompleteUncool, BenchHeld, MonBench, TypeOK
    <3>6. AsgBench'
      BY <1>2, <2>1, <3>1, CallFrame
      DEF CompleteUncool, BenchHeld, AsgBench, LocalsBound, TypeOK
    <3> QED
      BY <3>5, <3>6 DEF BenchHeld
  <2>2. CASE ~CompleteUncool(c)
    BY <1>1, <1>2, <2>2, CallFrame
    DEF CallNext, CallBegin, CallLock, HeartbeatGet, HeartbeatSet,
        CallReadState, CallCAS, CompleteSignal, CompleteClear, svVars,
        benchVars
  <2> QED
    BY <2>1, <2>2
<1>3. ASSUME NEW a \in Agents, CooldownExpires(a) PROVE BenchHeld'
  BY <1>3 DEF CooldownExpires, BenchHeld, MonBench, AsgBench, LocalsBound,
              TypeOK
<1> QED
  BY <1>1, <1>2, <1>3, BenchMon, BenchAsg
  DEF Next, vars, SubmitTask, RegisterStore, RegisterMutex, RegisterSession,
      Stop, StopDestroy, HeartbeatStales, CrashLeavesWindow,
      AssignBackoffExpires, svVars, benchVars

-----------------------------------------------------------------------------
(* The circuit breaker *)

LEMMA CircuitStep ==
    TypeOK /\ LocalsBound /\ LockDiscipline /\ Known /\ IdleUnderLock
    /\ BenchHeld /\ CircuitHolds /\ [Next]_vars => CircuitHolds'
<1> SUFFICES ASSUME TypeOK, LocalsBound, LockDiscipline, Known, IdleUnderLock,
                    BenchHeld, CircuitHolds, [Next]_vars
             PROVE  CircuitHolds'
  OBVIOUS
\* An agent with an open circuit stays idle: it was re-checked.
<1>1. \A a \in Agents : a \in circuitOpen => Idle(a)'
  BY OnlyAssignerWakes DEF CircuitHolds, CrashesBounded, AsgCAS, BenchHeld, AsgBench
<1>2. CASE MonPolicy
  <2>1. PICK m \in Agents : m = mon.agent
    BY <1>2 DEF MonPolicy, LocalsBound
  <2>2. MonHolds(m) /\ Idle(m)' /\ mon'.pc = "destroy" /\ UNCHANGED call
    BY <1>2, <2>1
    DEF MonPolicy, MonUnchanged, MonHolds, MonLocked, IdleUnderLock, MonReads,
        Idle, storeVars, TypeOK, MonRec
  <2>3. /\ \A a \in Agents :
              a # m => /\ crashes'[a] = crashes[a]
                       /\ a \in circuitOpen' <=> a \in circuitOpen
        /\ crashes'[m] = crashes[m] + 1 /\ crashes[m] \in Nat
        /\ m \notin circuitOpen' => crashes[m] + 1 <= CrashThreshold
    BY <1>2, <2>1, ConstantsAssumption DEF MonPolicy, Opens, TypeOK
  <2>5. crashes[m] <= CrashThreshold
    BY <1>2, <2>1 DEF MonPolicy, CircuitHolds
  <2>4. \A c \in Callers :
           call[c].pc \in {"clear", "uncool"} =>
              call[c].agent \in Agents /\ call[c].agent # m
    BY <2>1, <2>2, Exclusion
    DEF LockDiscipline, CallShape, CallHolds, LocalsBound
  <2> QED
    BY <1>1, <2>2, <2>3, <2>4, <2>5, ConstantsAssumption DEF CircuitHolds, CrashesBounded
<1>3. CASE MonCAS
  <2>1. UNCHANGED <<circuitOpen, crashes, call>>
    BY <1>3 DEF MonCAS, MonUnchanged, svVars, benchVars
  <2>2. mon'.pc = "requeue" => mon.st # StateIdle
    BY <1>3 DEF MonCAS, TypeOK, MonRec
  <2>3. mon'.agent = mon.agent /\ mon.pc = "cas" /\ mon'.pc # "policy"
    BY <1>3 DEF MonCAS, TypeOK, MonRec
  <2>4. mon'.pc = "requeue" => mon.agent \notin circuitOpen
    BY <2>2, <2>3 DEF IdleUnderLock, MonReads, CircuitHolds, LocalsBound
  <2> QED
    BY <1>1, <2>1, <2>3, <2>4 DEF CircuitHolds, CrashesBounded
<1>4. ASSUME MonNext, ~MonPolicy, ~MonCAS PROVE CircuitHolds'
  <2>1. UNCHANGED <<circuitOpen, crashes, call>>
    BY <1>4, MonFrame
    DEF MonNext, MonList, MonEnd, MonRead, MonMutex, MonLock, MonPreRead,
        MonSentinel, MonReadState, MonDefer, MonRequeue, MonDestroy, svVars,
        benchVars
  <2>2. mon'.pc \in {"requeue", "policy"} =>
           mon.pc \in {"requeue", "policy"} /\ mon'.agent = mon.agent
    <3>1. CASE MonList \/ MonLock \/ MonSentinel \/ MonReadState
      BY <3>1 DEF MonList, MonLock, MonSentinel, MonReadState, TypeOK, MonRec
    <3>2. CASE MonEnd
      BY <3>2 DEF MonEnd, monIdle
    <3>3. CASE MonMutex \/ MonPreRead
      BY <3>3 DEF MonMutex, MonPreRead, MonReturn, monIdle, TypeOK, MonRec
    <3>4. CASE MonDestroy \/ MonDefer
      BY <3>4 DEF MonDestroy, MonDefer, MonReturn, monIdle
    <3>5. CASE MonRequeue
      BY <3>5 DEF MonRequeue, TypeOK, MonRec
    <3>6. ASSUME NEW a \in Agents, MonRead(a) PROVE <2>2!:
      BY <3>6 DEF MonRead, TypeOK, MonRec
    <3> QED
      BY <1>4, <3>1, <3>2, <3>3, <3>4, <3>5, <3>6 DEF MonNext
  <2> QED
    BY <1>1, <2>1, <2>2 DEF CircuitHolds, CrashesBounded
<1>5. ASSUME NEW c \in Callers, CallNext(c) PROVE CircuitHolds'
  <2>0. UNCHANGED mon /\ \A d \in Callers : d # c => call'[d] = call[d]
    BY <1>5, CallFrame, CallAlone
  <2>1. CASE CompleteSignal(c)
    <3>1. PICK b \in Agents : b = call[c].agent
      BY <2>1 DEF CompleteSignal, LocalsBound
    <3>2. /\ call'[c].agent = b
          /\ crashes' = [crashes EXCEPT ![b] = 0] /\ UNCHANGED circuitOpen
      BY <2>1, <3>1 DEF CompleteSignal, TypeOK, CallRec
    <3> QED
      BY <1>1, <2>0, <3>1, <3>2, ConstantsAssumption
      DEF CircuitHolds, CrashesBounded, LocalsBound, TypeOK
  <2>2. CASE CompleteUncool(c)
    <3>1. /\ call[c].agent \in Agents /\ crashes[call[c].agent] = 0
          /\ call'[c].pc = "idle"
      BY <2>2, ReturnEffect DEF CompleteUncool, LocalsBound, CircuitHolds
    <3> QED
      BY <1>1, <2>0, <2>2, <3>1, ConstantsAssumption
      DEF CompleteUncool, CircuitHolds, CrashesBounded
  <2>3. CASE CompleteClear(c)
    <3>1. /\ call'[c].agent = call[c].agent /\ call[c].pc = "clear"
          /\ UNCHANGED <<crashes, circuitOpen>>
      BY <2>3 DEF CompleteClear, svVars, benchVars, TypeOK, CallRec
    <3> QED
      BY <1>1, <2>0, <3>1 DEF CircuitHolds, CrashesBounded
  <2>4. CASE ~CompleteSignal(c) /\ ~CompleteUncool(c) /\ ~CompleteClear(c)
    <3>1. UNCHANGED <<crashes, circuitOpen>>
      BY <1>5, <2>4
      DEF CallNext, CallBegin, CallLock, HeartbeatGet, HeartbeatSet,
          CallReadState, CallCAS, svVars, benchVars
    <3>2. call'[c].pc \notin {"clear", "uncool"}
      <4>1. CASE CallReturn(c)
        BY <4>1, ReturnEffect
      <4>2. ASSUME NEW op \in Op, NEW a \in Agents, NEW t \in TaskID,
                   CallBegin(c, op, a, t)
            PROVE  <3>2!:
        BY <4>2, BeginEffect
      <4>3. CASE CallLock(c)
        BY <4>3 DEF CallLock, TypeOK, CallRec
      <4>4. CASE HeartbeatGet(c) \/ CallReadState(c)
        BY <4>4, ReadEffect
      <4>6. CASE CallCAS(c) /\ ~CallReturn(c)
        BY <4>6 DEF CallCAS, TypeOK, CallRec
      <4> QED
        BY <1>5, <2>4, <4>1, <4>2, <4>3, <4>4, <4>6
        DEF CallNext, HeartbeatSet
    <3> QED
      BY <1>1, <2>0, <3>1, <3>2 DEF CircuitHolds, CrashesBounded
  <2> QED
    BY <2>1, <2>2, <2>3, <2>4
<1>6. ASSUME NEW a \in Agents, CrashLeavesWindow(a) PROVE CircuitHolds'
  BY <1>1, <1>6, ConstantsAssumption
  DEF CrashLeavesWindow, CircuitHolds, CrashesBounded, LocalsBound, TypeOK
<1>7. CASE UNCHANGED <<circuitOpen, crashes, mon, call>>
  BY <1>1, <1>7 DEF CircuitHolds, CrashesBounded
<1>8. AsgNext => UNCHANGED <<circuitOpen, crashes, mon, call>>
  BY AsgFrame
  DEF AsgNext, AsgDequeue, AsgList, AsgSnapshot, AsgScan, AsgScanEnd,
      AsgRecheck, AsgMutex, AsgLock, AsgReadState, AsgCAS, AsgGetFields,
      AsgSetFields, AsgRequeueLocked, AsgRequeue, svVars, benchVars
<1> QED
  BY <1>2, <1>3, <1>4, <1>5, <1>6, <1>7, <1>8
  DEF Next, vars, SubmitTask, RegisterStore, RegisterMutex, RegisterSession,
      Stop, StopDestroy, HeartbeatStales, CooldownExpires,
      AssignBackoffExpires, svVars, benchVars

-----------------------------------------------------------------------------
(* Who answers for a task, when no store call fails *)

LEMMA NoFail == MaxFaults = 0 /\ TypeOK => ~Fail
  BY DEF TypeOK, Fail

\* No step but these three changes which agents answer for a task: crashAgent
\* takes the agent back before it re-enqueues, a completion before it signals,
\* and an assignment is not one before it is recorded.
LEMMA AnswersKept ==
    ASSUME MaxFaults = 0, TypeOK, LocalsBound, LockDiscipline, Known,
           IdleUnderLock, BindingsAgree, [Next]_vars,
           ~MonRequeue, ~AsgSetFields, \A c \in Callers : ~CompleteSignal(c)
    PROVE  \A a \in Agents : Answers(a)' <=> Answers(a)
<1>0. ~Fail
  BY NoFail
<1>1. ASSUME MonNext PROVE \A a \in Agents : Answers(a)' <=> Answers(a)
  <2>0. UNCHANGED <<asg, call>>
    BY <1>1, MonFrame
  <2>1. CASE MonCAS
    <3> PICK m \in Agents : m = mon.agent
      BY <2>1 DEF MonCAS, LocalsBound
    <3>1. MonHolds(m) /\ ~AsgHolds(m) /\ \A c \in Callers : ~CallHolds(c, m)
      BY <2>1, Exclusion DEF MonCAS, MonHolds, MonLocked
    <3>2. ~Assigning(m)
      BY <3>1 DEF Assigning, AsgHolds, AsgLocked
    <3>3. CASE CASAgentState(m, mon.st, EventAgentFailed)
      <4>1. Idle(m)' /\ \A a \in Agents : a # m => agState'[a] = agState[a]
        BY <3>3, CASEffect
      <4>2. agState[m] = mon.st
        BY <3>3 DEF CASAgentState
      <4>3. mon.pc = "cas" /\ mon'.agent = m /\ mon'.pc \in {"requeue", "defer"}
            /\ (mon'.pc = "requeue" <=> ~Idle(m))
        BY <1>0, <2>1, <3>3, <4>2 DEF MonCAS, CASAgentState, Idle, TypeOK, MonRec
      <4>4. \A c \in Callers :
               call[c].pc = "signal" => call[c].agent # m
        BY <3>1 DEF LockDiscipline, CallShape, CallHolds
      <4> QED
        BY <2>0, <3>2, <4>1, <4>3, <4>4 DEF Answers, Assigning, Idle
    <3>4. CASE UNCHANGED agState /\ mon' = [mon EXCEPT !.pc = "defer"]
      BY <2>0, <2>1, <3>4 DEF MonCAS, Answers, Assigning, Idle, TypeOK, MonRec
    <3> QED
      BY <2>1, <3>3, <3>4 DEF MonCAS
  <2>2. CASE ~MonCAS
    <3>1. UNCHANGED agState
      BY <1>1, <2>2
      DEF MonNext, MonList, MonEnd, MonRead, MonMutex, MonLock, MonPreRead,
          MonSentinel, MonReadState, MonDefer, MonRequeue, MonPolicy,
          MonDestroy, storeVars
    <3>2. mon.pc # "requeue" /\ mon'.pc # "requeue"
      <4>1. CASE MonList \/ MonLock \/ MonSentinel \/ MonReadState
        BY <4>1 DEF MonList, MonLock, MonSentinel, MonReadState, TypeOK, MonRec
      <4>2. CASE MonEnd
        BY <4>2 DEF MonEnd, monIdle
      <4>3. CASE MonMutex \/ MonPreRead
        BY <4>3 DEF MonMutex, MonPreRead, MonReturn, monIdle, TypeOK, MonRec
      <4>4. CASE MonDestroy \/ MonDefer
        BY <4>4 DEF MonDestroy, MonDefer, MonReturn, monIdle
      <4>5. CASE MonPolicy
        BY <4>5 DEF MonPolicy, TypeOK, MonRec
      <4>6. ASSUME NEW a \in Agents, MonRead(a) PROVE <3>2!:
        BY <4>6 DEF MonRead, TypeOK, MonRec
      <4> QED
        BY <1>1, <2>2, <4>1, <4>2, <4>3, <4>4, <4>5, <4>6 DEF MonNext
    <3> QED
      BY <2>0, <3>1, <3>2 DEF Answers, Assigning, Idle
  <2> QED
    BY <2>1, <2>2
<1>2. ASSUME AsgNext PROVE \A a \in Agents : Answers(a)' <=> Answers(a)
  <2>0. UNCHANGED <<mon, call>>
    BY <1>2, AsgFrame
  <2>1. CASE AsgCAS
    <3> PICK m \in Agents : m = asg.agent
      BY <2>1 DEF AsgCAS, LocalsBound
    <3>1. CASE CASAgentState(m, asg.st, EventTaskAssigned)
               /\ asg' = [asg EXCEPT !.pc = "get"]
      <4>1. Idle(m) /\ \A a \in Agents : a # m => agState'[a] = agState[a]
        BY <3>1, CASEffect
      <4>2. /\ \A a \in Agents : ~Assigning(a)
            /\ \A a \in Agents : Assigning(a)' <=> a = m
        BY <2>1, <3>1 DEF AsgCAS, Assigning, TypeOK, AsgRec
      <4> QED
        BY <2>0, <4>1, <4>2 DEF Answers, Idle
    <3>2. CASE UNCHANGED agState /\ asg'.pc = "requeue"
      BY <2>0, <2>1, <3>2 DEF AsgCAS, Answers, Assigning, Idle
    <3> QED
      BY <2>1, <3>1, <3>2 DEF AsgCAS, TypeOK, AsgRec
  <2>2. CASE ~AsgCAS
    <3>1. UNCHANGED agState
      BY <1>2, <2>2
      DEF AsgNext, AsgDequeue, AsgList, AsgSnapshot, AsgScan, AsgScanEnd,
          AsgRecheck, AsgMutex, AsgLock, AsgReadState, AsgGetFields,
          AsgRequeueLocked, AsgRequeue, storeVars
    <3>2. \A a \in Agents : Assigning(a)' <=> Assigning(a)
      <4>1. CASE AsgGetFields
        <5>1. asg.agent \in agents
          BY <4>1 DEF AsgGetFields, Known, AsgLocked
        <5> QED
          BY <1>0, <4>1, <5>1 DEF AsgGetFields, Assigning, TypeOK, AsgRec
      <4>2. CASE ~AsgGetFields
        <5>1. asg.pc \notin {"get", "set", "requeueLocked"}
              /\ asg'.pc \notin {"get", "set", "requeueLocked"}
          <6>1. CASE AsgDequeue
            BY <1>0, <6>1 DEF AsgDequeue, TypeOK, AsgRec
          <6>2. CASE AsgList \/ AsgSnapshot \/ AsgScanEnd \/ AsgRecheck
            BY <6>2 DEF AsgList, AsgSnapshot, AsgScanEnd, AsgRecheck, TypeOK,
                        AsgRec
          <6>3. ASSUME NEW a \in Agents, AsgScan(a) PROVE <5>1!:
            BY <6>3 DEF AsgScan, TypeOK, AsgRec
          <6>4. CASE AsgMutex \/ AsgLock \/ AsgReadState
            BY <6>4 DEF AsgMutex, AsgLock, AsgReadState, TypeOK, AsgRec
          <6>5. ~AsgRequeueLocked
            BY DEF AsgRequeueLocked, BindingsAgree
          <6>6. CASE AsgRequeue
            BY <6>6 DEF AsgRequeue, asgIdle
          <6> QED
            BY <1>2, <2>2, <4>2, <6>1, <6>2, <6>3, <6>4, <6>5, <6>6 DEF AsgNext
        <5> QED
          BY <5>1 DEF Assigning
      <4> QED
        BY <4>1, <4>2
    <3> QED
      BY <2>0, <3>1, <3>2 DEF Answers, Idle
  <2> QED
    BY <2>1, <2>2
<1>3. ASSUME NEW c \in Callers, CallNext(c)
      PROVE  \A a \in Agents : Answers(a)' <=> Answers(a)
  <2>0. /\ UNCHANGED <<mon, asg>>
        /\ \A d \in Callers : d # c => call'[d] = call[d]
    BY <1>3, CallFrame, CallAlone
  <2>1. ASSUME \A a \in Agents : Idle(a)' <=> Idle(a),
               call[c].pc # "signal" /\ call'[c].pc # "signal"
        PROVE  \A a \in Agents : Answers(a)' <=> Answers(a)
    BY <2>0, <2>1 DEF Answers, Assigning
  <2>2. CASE CallCAS(c)
    <3> PICK b \in Agents : b = call[c].agent
      BY <2>2 DEF CallCAS, LocalsBound
    <3>1. call[c].pc = "cas" /\ call[c].op # "Heartbeat" /\ call[c].op \in Op
          /\ (call[c].op = "CompleteAgent" => CallHolds(c, b))
      BY <2>2
      DEF CallCAS, LockDiscipline, CallShape, CallHolds, TypeOK, CallRec
    <3>2. CASE UNCHANGED agState /\ CallReturn(c)
      BY <2>1, <3>1, <3>2, ReturnEffect DEF Idle
    <3>3. CASE /\ CASAgentState(b, call[c].st, EventOf(call[c].op))
               /\ IF call[c].op = "CompleteAgent"
                  THEN call' = [call EXCEPT ![c].pc = "signal"]
                  ELSE CallReturn(c)
      <4>1. CASE call[c].op = "CompleteAgent"
        <5>1. CASAgentState(b, call[c].st, EventOutputDelivered)
          BY <3>3, <4>1 DEF EventOf
        <5>2. /\ ~Idle(b) /\ Idle(b)'
              /\ \A x \in Agents : x # b => agState'[x] = agState[x]
          BY <5>1, CASEffect
        <5>3. call'[c].pc = "signal" /\ call'[c].agent = b
          BY <3>3, <4>1 DEF TypeOK, CallRec
        <5>4. ~Assigning(b)
          BY <3>1, <4>1, Exclusion DEF Assigning, AsgHolds, AsgLocked
        <5> QED
          BY <2>0, <3>1, <5>2, <5>3, <5>4 DEF Answers, Assigning, Idle
      <4>2. CASE call[c].op # "CompleteAgent"
        <5>1. EventOf(call[c].op) \in {EventWorkStarted, EventOutputReady}
          BY <3>1, <4>2 DEF EventOf, Op
        <5>2. /\ \A x \in Agents : x # b => agState'[x] = agState[x]
              /\ ~Idle(b) /\ ~Idle(b)'
          BY <3>3, <5>1, CASEffect
        <5>3. call'[c].pc = "idle"
          BY <3>3, <4>2, ReturnEffect
        <5>4. \A a \in Agents : Idle(a)' <=> Idle(a)
          BY <5>2 DEF Idle
        <5> QED
          BY <2>1, <3>1, <5>3, <5>4
      <4> QED
        BY <4>1, <4>2
    <3> QED
      BY <2>2, <3>2, <3>3 DEF CallCAS
  <2>3. CASE HeartbeatSet(c)
    <3>1. call[c].agent \in Agents
          /\ (call[c].st = StateIdle <=> Idle(call[c].agent))
      BY <2>3 DEF HeartbeatSet, LocalsBound, IdleUnderLock, CallReads
    <3>2. \A x \in Agents : Idle(x)' <=> Idle(x)
      BY <2>3, <3>1 DEF HeartbeatSet, Idle, TypeOK, storeVars
    <3>3. call[c].pc = "set" /\ call'[c].pc = "idle"
      BY <2>3, ReturnEffect DEF HeartbeatSet
    <3> QED
      BY <2>1, <3>2, <3>3
  <2>4. CASE ~CallCAS(c) /\ ~HeartbeatSet(c)
    <3>1. UNCHANGED agState
      BY <1>3, <2>4 DEF CallNext, CallBegin, CallLock, HeartbeatGet,
         CallReadState, CompleteSignal, CompleteClear, CompleteUncool,
         storeVars
    <3>2. call[c].pc # "signal" /\ call'[c].pc # "signal"
      <4>1. ASSUME NEW op \in Op, NEW a \in Agents, NEW t \in TaskID,
                   CallBegin(c, op, a, t)
            PROVE  <3>2!:
        BY <4>1, BeginEffect
      <4>0. call \in [Callers -> CallRec]
        BY DEF TypeOK
      <4>2. CASE CallLock(c)
        BY <4>0, <4>2 DEF CallLock, CallRec
      <4>3. CASE CompleteClear(c)
        BY <4>0, <4>3 DEF CompleteClear, CallRec
      <4>4. CASE HeartbeatGet(c) \/ CallReadState(c)
        BY <4>4, ReadEffect
      <4>5. CASE CompleteUncool(c)
        BY <4>5, ReturnEffect DEF CompleteUncool
      <4> QED
        BY <1>3, <2>4, <4>1, <4>2, <4>3, <4>4, <4>5 DEF CallNext
    <3> QED
      BY <2>1, <3>1, <3>2 DEF Idle
  <2> QED
    BY <2>2, <2>3, <2>4
<1>4. CASE UNCHANGED <<agState, mon, asg, call>>
  BY <1>4 DEF Answers, Assigning, Idle
<1>5. ASSUME NEW a \in Agents, RegisterStore(a)
      PROVE  UNCHANGED <<agState, mon, asg, call>>
  <2>1. agState[a] = StateIdle
    BY <1>5 DEF RegisterStore, Known
  <2> QED
    BY <1>5, <2>1 DEF RegisterStore, TypeOK
<1> QED
  BY <1>1, <1>2, <1>3, <1>4, <1>5
  DEF Next, vars, SubmitTask, RegisterMutex, RegisterSession, Stop,
      StopDestroy, HeartbeatStales, CooldownExpires, CrashLeavesWindow,
      AssignBackoffExpires, storeVars

\* A handler past its signal works on an agent nobody answers for.
LEMMA CompletedIsQuiet ==
    ASSUME LockDiscipline, LocalsBound, IdleUnderLock, NEW c \in Callers,
           NEW b \in Agents, b = call[c].agent,
           call[c].pc \in {"signal", "clear", "uncool"}
    PROVE  /\ Idle(b)
           /\ ~(mon.pc = "requeue" /\ mon.agent = b)
           /\ \A d \in Callers :
                 d # c => ~(call[d].pc = "signal" /\ call[d].agent = b)
<1>1. CallHolds(c, b)
  BY DEF LockDiscipline, CallShape, CallHolds
<1>2. ~MonHolds(b) /\ \A d \in Callers : d # c => ~CallHolds(d, b)
  BY <1>1, Exclusion
<1> QED
  BY <1>2
  DEF MonHolds, MonLocked, LockDiscipline, CallShape, CallHolds,
      IdleUnderLock, CallReads

\* The record of an agent changes its task when an assignment is recorded
\* and when a completion clears it, and then nobody answers for it.
LEMMA CurTaskKept ==
    ASSUME TypeOK, LocalsBound, Known, BindingsAgree, [Next]_vars,
           ~AsgSetFields, NEW a \in Agents,
           \A c \in Callers : ~(CompleteClear(c) /\ call[c].agent = a)
    PROVE  curTask'[a] = curTask[a]
<1>1. MonNext => UNCHANGED curTask
  BY DEF MonNext, MonList, MonEnd, MonRead, MonMutex, MonLock, MonPreRead,
         MonSentinel, MonReadState, MonCAS, MonDefer, MonRequeue, MonPolicy,
         MonDestroy, storeVars
<1>2. AsgNext => UNCHANGED curTask
  BY DEF AsgNext, AsgDequeue, AsgList, AsgSnapshot, AsgScan, AsgScanEnd,
         AsgRecheck, AsgMutex, AsgLock, AsgReadState, AsgCAS, AsgGetFields,
         AsgRequeueLocked, AsgRequeue, storeVars
<1>3. ASSUME NEW c \in Callers, CallNext(c) PROVE curTask'[a] = curTask[a]
  <2>1. CASE HeartbeatSet(c)
    <3>1. call[c].agent \in Agents /\ call[c].task = curTask[call[c].agent]
      BY <2>1 DEF HeartbeatSet, LocalsBound, BindingsAgree, CallBinds
    <3> QED
      BY <2>1, <3>1 DEF HeartbeatSet, TypeOK, storeVars
  <2>2. CASE CompleteClear(c)
    BY <2>2 DEF CompleteClear, TypeOK
  <2>3. CASE UNCHANGED curTask
    BY <2>3
  <2> QED
    BY <1>3, <2>1, <2>2, <2>3
    DEF CallNext, CallBegin, CallLock, HeartbeatGet, CallReadState, CallCAS,
        CompleteSignal, CompleteUncool, storeVars
<1>4. ASSUME NEW b \in Agents, RegisterStore(b) PROVE curTask'[a] = curTask[a]
  <2>1. curTask[b] = NoTask
    BY <1>4 DEF RegisterStore, Known
  <2> QED
    BY <1>4, <2>1 DEF RegisterStore, TypeOK
<1> QED
  BY <1>1, <1>2, <1>3, <1>4
  DEF Next, vars, SubmitTask, RegisterMutex, RegisterSession, Stop,
      StopDestroy, HeartbeatStales, CooldownExpires, CrashLeavesWindow,
      AssignBackoffExpires, storeVars

LEMMA ServesKept ==
    ASSUME MaxFaults = 0, TypeOK, LocalsBound, LockDiscipline, Known,
           IdleUnderLock, BindingsAgree, [Next]_vars,
           ~MonRequeue, ~AsgSetFields, \A c \in Callers : ~CompleteSignal(c)
    PROVE  \A a \in Agents, t \in Tasks : Serves(a, t)' <=> Serves(a, t)
<1> TAKE a \in Agents, t \in Tasks
<1>1. Answers(a)' <=> Answers(a)
  BY AnswersKept
<1>2. CASE \E c \in Callers : CompleteClear(c) /\ call[c].agent = a
  <2>1. PICK c \in Callers : CompleteClear(c) /\ call[c].agent = a
    BY <1>2
  <2>2. ~Answers(a)
    BY <2>1, CompletedIsQuiet DEF Answers, CompleteClear
  <2> QED
    BY <1>1, <2>2 DEF Serves, Answers, Idle
<1>3. CASE \A c \in Callers : ~(CompleteClear(c) /\ call[c].agent = a)
  BY <1>1, <1>3, CurTaskKept DEF Serves, Answers, Idle
<1> QED
  BY <1>2, <1>3

\* The re-enqueue of a crash takes the task from its agent ...
LEMMA RequeueReleases ==
    ASSUME TypeOK, LocalsBound, LockDiscipline, IdleUnderLock, MonRequeue
    PROVE  \A a \in Agents :
              /\ Answers(a)' <=> Answers(a) /\ a # mon.agent
              /\ a = mon.agent => Answers(a)
              /\ curTask'[a] = curTask[a]
<1>1. PICK m \in Agents : m = mon.agent
  BY DEF MonRequeue, LocalsBound
<1>2. mon.pc = "requeue" /\ mon'.pc = "policy"
      /\ UNCHANGED <<agState, curTask, asg, call>>
  BY DEF MonRequeue, MonUnchanged, storeVars, TypeOK, MonRec
<1>3. Idle(m) /\ MonHolds(m)
  BY <1>1, <1>2 DEF IdleUnderLock, MonReads, MonHolds, MonLocked
<1>4. \A c \in Callers : ~CallHolds(c, m)
  BY <1>3, Exclusion
<1>5. \A c \in Callers : ~(call[c].pc = "signal" /\ call[c].agent = m)
  BY <1>4 DEF LockDiscipline, CallShape, CallHolds
<1> QED
  BY <1>1, <1>2, <1>3, <1>5 DEF Answers, Assigning, Idle

\* ... the signal of a completion too ...
LEMMA SignalReleases ==
    ASSUME TypeOK, LocalsBound, LockDiscipline, IdleUnderLock,
           NEW c \in Callers, CompleteSignal(c)
    PROVE  \A a \in Agents :
              /\ Answers(a)' <=> Answers(a) /\ a # call[c].agent
              /\ a = call[c].agent => Answers(a)
              /\ curTask'[a] = curTask[a]
<1>1. PICK b \in Agents : b = call[c].agent
  BY DEF CompleteSignal, LocalsBound
<1>2. /\ call[c].pc = "signal" /\ call'[c].pc = "clear"
      /\ \A d \in Callers : d # c => call'[d] = call[d]
      /\ UNCHANGED <<agState, curTask, asg, mon>>
  BY DEF CompleteSignal, CallUnchanged, storeVars, TypeOK, CallRec
<1>3. /\ Idle(b) /\ ~(mon.pc = "requeue" /\ mon.agent = b)
      /\ \A d \in Callers :
            d # c => ~(call[d].pc = "signal" /\ call[d].agent = b)
  BY <1>1, <1>2, CompletedIsQuiet
<1> QED
  BY <1>1, <1>2, <1>3 DEF Answers, Assigning, Idle

\* ... and recording an assignment gives it to the agent.
LEMMA AssignmentBinds ==
    ASSUME MaxFaults = 0, TypeOK, LocalsBound, LockDiscipline, IdleUnderLock,
           AsgSetFields
    PROVE  \A a \in Agents :
              /\ Answers(a)' <=> Answers(a) \/ a = asg.agent
              /\ a = asg.agent => ~Answers(a)
              /\ curTask'[a] = IF a = asg.agent THEN asg.task ELSE curTask[a]
<1>1. PICK b \in Agents : b = asg.agent
  BY DEF AsgSetFields, LocalsBound
<1>2. asg.pc = "set" /\ AsgHolds(b) /\ Assigning(b)
  BY <1>1 DEF AsgSetFields, AsgHolds, AsgLocked, Assigning
<1>3. ~MonHolds(b) /\ \A c \in Callers : ~CallHolds(c, b)
  BY <1>2, Exclusion
<1>4. ~Answers(b)
  BY <1>2, <1>3
  DEF Answers, MonHolds, MonLocked, LockDiscipline, CallShape, CallHolds
<1>5. /\ \A a \in Agents : ~Assigning(a)'
      /\ \A a \in Agents : a # b => ~Assigning(a)
  <2>1. asg'.pc = "idle"
    BY NoFail DEF AsgSetFields, asgIdle
  <2> QED
    BY <1>1, <2>1 DEF Assigning
<1>6. /\ \A a \in Agents : a # b =>
            agState'[a] = agState[a] /\ curTask'[a] = curTask[a]
      /\ ~Idle(b)' /\ curTask'[b] = asg.task
      /\ UNCHANGED <<mon, call>>
  <2>1. asg.st # StateIdle
    BY <1>2 DEF IdleUnderLock, AsgReads
  <2> QED
    BY <1>1, <2>1, NoFail DEF AsgSetFields, AsgUnchanged, Idle, TypeOK
<1> QED
  BY <1>1, <1>4, <1>5, <1>6 DEF Answers, Idle

\* What crashAgent and Heartbeat have read of the record is still there: the
\* record changes its task only under the mutex they hold.
LEMMA BindStep ==
    ASSUME MaxFaults = 0, TypeOK, LocalsBound, LockDiscipline, Known,
           IdleUnderLock, BindingsAgree, [Next]_vars
    PROVE  BindingsAgree'
<1>0. ~Fail
  BY NoFail
<1>1. asg'.pc # "requeueLocked"
  <2>1. CASE AsgGetFields
    <3>1. asg.agent \in agents
      BY <2>1 DEF AsgGetFields, Known, AsgLocked
    <3> QED
      BY <1>0, <2>1, <3>1 DEF AsgGetFields, TypeOK, AsgRec
  <2>2. CASE AsgSetFields
    BY <1>0, <2>2 DEF AsgSetFields, asgIdle
  <2>3. CASE AsgNext /\ ~AsgGetFields /\ ~AsgSetFields
    <3>1. CASE AsgDequeue
      BY <1>0, <3>1 DEF AsgDequeue, TypeOK, AsgRec
    <3>2. CASE AsgList \/ AsgSnapshot \/ AsgScanEnd \/ AsgRecheck
      BY <3>2 DEF AsgList, AsgSnapshot, AsgScanEnd, AsgRecheck, TypeOK, AsgRec
    <3>3. ASSUME NEW a \in Agents, AsgScan(a) PROVE <1>1!:
      BY <3>3 DEF AsgScan, TypeOK, AsgRec
    <3>4. CASE AsgMutex \/ AsgLock \/ AsgReadState \/ AsgCAS
      BY <3>4 DEF AsgMutex, AsgLock, AsgReadState, AsgCAS, TypeOK, AsgRec
    <3>5. CASE AsgRequeueLocked \/ AsgRequeue
      BY <3>5 DEF AsgRequeueLocked, AsgRequeue, asgIdle
    <3> QED
      BY <2>3, <3>1, <3>2, <3>3, <3>4, <3>5 DEF AsgNext
  <2>4. CASE UNCHANGED asg
    BY <2>4 DEF BindingsAgree
  <2> QED
    BY <2>1, <2>2, <2>3, <2>4, MonFrame, CallFrame
    DEF Next, vars, SubmitTask, RegisterStore, RegisterMutex,
        RegisterSession, Stop, StopDestroy, HeartbeatStales, CooldownExpires,
        CrashLeavesWindow, AssignBackoffExpires
<1>2. \A a \in Agents : Answers(a)' => curTask'[a] # NoTask
  <2> TAKE a \in Agents
  <2>1. CASE MonRequeue
    BY <2>1, RequeueReleases DEF BindingsAgree
  <2>2. CASE AsgSetFields
    <3>1. asg.task # NoTask
      BY <2>2, ConstantsAssumption DEF AsgSetFields, LocalsBound
    <3> QED
      BY <2>2, <3>1, AssignmentBinds DEF BindingsAgree
  <2>3. CASE \E c \in Callers : CompleteSignal(c)
    BY <2>3, SignalReleases DEF BindingsAgree
  <2>4. CASE ~MonRequeue /\ ~AsgSetFields
             /\ \A c \in Callers : ~CompleteSignal(c)
    <3>1. Answers(a)' => Answers(a)
      BY <2>4, AnswersKept
    <3>2. CASE \E c \in Callers : CompleteClear(c) /\ call[c].agent = a
      <4>1. ~Answers(a)
        BY <3>2, CompletedIsQuiet DEF Answers, CompleteClear
      <4> QED
        BY <3>1, <4>1
    <3>3. CASE \A c \in Callers : ~(CompleteClear(c) /\ call[c].agent = a)
      BY <2>4, <3>1, <3>3, CurTaskKept DEF BindingsAgree
    <3> QED
      BY <3>2, <3>3
  <2> QED
    BY <2>1, <2>2, <2>3, <2>4
\* Another goroutine than the holder of the mutex leaves the task alone.
<1>3. ASSUME NEW a \in Agents,
             \/ MonHolds(a)
             \/ \E c \in Callers : CallHolds(c, a) /\ call[c].pc = "set"
      PROVE  curTask'[a] = curTask[a]
  <2>1. ~AsgHolds(a)
    BY <1>3, Exclusion
  <2>2. CASE AsgSetFields
    <3>1. asg.pc = "set" /\ asg.agent \in Agents /\ asg.agent # a
      BY <2>1, <2>2 DEF AsgSetFields, AsgHolds, AsgLocked, LocalsBound
    <3> QED
      BY <2>2, <3>1 DEF AsgSetFields, TypeOK
  <2>3. ASSUME NEW c \in Callers, CompleteClear(c), call[c].agent = a
        PROVE  FALSE
    <3>1. CallHolds(c, a) /\ call[c].pc = "clear"
      BY <2>3 DEF CompleteClear, CallHolds, LockDiscipline, CallShape
    <3> QED
      BY <1>3, <3>1, Exclusion
  <2> QED
    BY <2>2, <2>3, CurTaskKept
<1>4. MonBinds'
  <2>1. CASE UNCHANGED mon
    <3>1. mon.pc \in {"sentinel", "read", "cas", "requeue"} =>
             mon.agent \in Agents /\ MonHolds(mon.agent)
      BY DEF LocalsBound, MonHolds, MonLocked
    <3> QED
      BY <1>3, <2>1, <3>1 DEF BindingsAgree, MonBinds
  <2>2. CASE MonNext
    <3>0. UNCHANGED curTask
      BY <2>2
      DEF MonNext, MonList, MonEnd, MonRead, MonMutex, MonLock, MonPreRead,
          MonSentinel, MonReadState, MonCAS, MonDefer, MonRequeue, MonPolicy,
          MonDestroy, storeVars
    <3>1. CASE MonList \/ MonLock
      BY <3>1 DEF MonList, MonLock, BindingsAgree, MonBinds, TypeOK, MonRec
    <3>2. CASE MonEnd
      BY <3>2 DEF MonEnd, monIdle, MonBinds
    <3>3. CASE MonMutex
      BY <3>3 DEF MonMutex, MonReturn, monIdle, MonBinds, TypeOK, MonRec
    <3>4. CASE MonPreRead
      BY <3>0, <3>4 DEF MonPreRead, MonReturn, monIdle, MonBinds, TypeOK,
                        MonRec
    <3>5. CASE MonSentinel \/ MonReadState \/ MonCAS
      BY <3>0, <3>5
      DEF MonSentinel, MonReadState, MonCAS, BindingsAgree, MonBinds, TypeOK,
          MonRec
    <3>6. CASE MonRequeue \/ MonPolicy
      BY <3>6 DEF MonRequeue, MonPolicy, MonBinds, TypeOK, MonRec
    <3>7. CASE MonDefer \/ MonDestroy
      BY <3>7 DEF MonDefer, MonDestroy, MonReturn, monIdle, MonBinds
    <3>8. ASSUME NEW a \in Agents, MonRead(a) PROVE MonBinds'
      BY <3>8 DEF MonRead, MonBinds, TypeOK, MonRec
    <3> QED
      BY <2>2, <3>1, <3>2, <3>3, <3>4, <3>5, <3>6, <3>7, <3>8 DEF MonNext
  <2> QED
    BY <2>1, <2>2, AsgFrame, CallFrame
    DEF Next, vars, SubmitTask, RegisterStore, RegisterMutex,
        RegisterSession, Stop, StopDestroy, HeartbeatStales, CooldownExpires,
        CrashLeavesWindow, AssignBackoffExpires
<1>5. ASSUME NEW c \in Callers PROVE CallBinds(c)'
  <2>1. CASE call'[c] = call[c]
    <3>1. call[c].pc = "set" =>
             call[c].agent \in Agents /\ CallHolds(c, call[c].agent)
      BY DEF LocalsBound, CallHolds, LockDiscipline, CallShape
    <3> QED
      BY <1>3, <2>1, <3>1 DEF BindingsAgree, CallBinds
  <2>2. CASE CallNext(c)
    <3>1. CASE HeartbeatGet(c) /\ ~CallReturn(c)
      <4>1. call' = [call EXCEPT ![c] =
                       [@ EXCEPT !.pc = "set",
                                 !.st = agState[call[c].agent],
                                 !.task = curTask[call[c].agent],
                                 !.prio = curPrio[call[c].agent]]]
            /\ UNCHANGED curTask
        BY <3>1, Zenon DEF HeartbeatGet, storeVars
      <4> QED
        BY <4>1 DEF CallBinds, TypeOK, CallRec
    <3>2. CASE ~HeartbeatGet(c) \/ CallReturn(c)
      <4>1. call'[c].pc # "set"
        <5>1. CASE CallReturn(c)
          BY <5>1, ReturnEffect
        <5>2. ASSUME NEW op \in Op, NEW a \in Agents, NEW t \in TaskID,
                     CallBegin(c, op, a, t)
              PROVE  <4>1!:
          BY <5>2, BeginEffect
        <5>3. CASE CompleteSignal(c) \/ CompleteClear(c)
          BY <5>3 DEF CompleteSignal, CompleteClear, TypeOK, CallRec
        <5>6. CASE CallLock(c)
          BY <5>6 DEF CallLock, TypeOK, CallRec
        <5>4. CASE CallReadState(c) /\ ~CallReturn(c)
          <6>1. call' = [call EXCEPT ![c] =
                           [@ EXCEPT !.pc = "cas",
                                     !.st = agState[call[c].agent]]]
            BY <5>4, Zenon DEF CallReadState
          <6> QED
            BY <6>1 DEF TypeOK, CallRec
        <5>5. CASE CallCAS(c) /\ ~CallReturn(c)
          BY <5>5 DEF CallCAS, TypeOK, CallRec
        <5> QED
          BY <2>2, <3>2, <5>1, <5>2, <5>3, <5>4, <5>5, <5>6
          DEF CallNext, HeartbeatSet, CompleteUncool
      <4> QED
        BY <4>1 DEF CallBinds
    <3> QED
      BY <3>1, <3>2
  <2>3. ASSUME NEW d \in Callers, CallNext(d), d # c PROVE call'[c] = call[c]
    BY <2>3, CallAlone
  <2> QED
    BY <2>1, <2>2, <2>3, MonFrame, AsgFrame
    DEF Next, vars, SubmitTask, RegisterStore, RegisterMutex,
        RegisterSession, Stop, StopDestroy, HeartbeatStales, CooldownExpires,
        CrashLeavesWindow, AssignBackoffExpires
<1> QED
  BY <1>1, <1>2, <1>4, <1>5 DEF BindingsAgree

-----------------------------------------------------------------------------
(* Every task in one place, when no store call fails *)

\* Putting a task back on the queue at its own priority adds that one entry.
LEMMA EnqueueEffect ==
    ASSUME TypeOK, NEW t \in Tasks, EnqueueTask(t, Prio[t])
    PROVE  \A u \in Tasks :
              Queued(u)' = IF u = t THEN Queued(u) + 1 ELSE Queued(u)
<1>1. \A u \in Tasks : <<u, Prio[u]>> \in Tasks \X Score
  BY ConstantsAssumption DEF Score
<1> QED
  BY <1>1 DEF EnqueueTask, TypeOK, Queued

LEMMA QueuedType == TypeOK => \A t \in Tasks : Queued(t) \in Nat
<1>1. \A u \in Tasks : <<u, Prio[u]>> \in Tasks \X Score
  BY ConstantsAssumption DEF Score
<1> QED
  BY <1>1 DEF TypeOK, Queued

\* What the proof of a step may use.
Sound ==
    /\ TypeOK /\ LocalsBound /\ PriorityTravels /\ LockDiscipline /\ Known
    /\ IdleUnderLock /\ BindingsAgree

\* A step that moves no task.
LEMMA PlacesKept ==
    ASSUME OnePlaceEach, UNCHANGED <<queue, submitted, done>>,
           \A t \in Tasks : InHand(t)' <=> InHand(t),
           \A a \in Agents, t \in Tasks : Serves(a, t)' <=> Serves(a, t)
    PROVE  OnePlaceEach'
  BY DEF OnePlaceEach, OnePlace, Queued, Served

\* crashAgent: from its agent back to the queue.
LEMMA PlacesMonRequeue ==
    ASSUME MaxFaults = 0, Sound, OnePlaceEach, MonRequeue
    PROVE  OnePlaceEach'
<1> USE DEF Sound
<1>1. PICK m \in Agents : m = mon.agent
  BY DEF MonRequeue, LocalsBound
<1>2. mon.task = curTask[m] /\ mon.task # NoTask /\ Answers(m)
  BY <1>1, RequeueReleases DEF MonRequeue, BindingsAgree, MonBinds
<1>3. mon.task \in Tasks /\ mon.prio = Prio[mon.task]
  BY <1>2 DEF MonRequeue, PriorityTravels, Bound, TypeOK, MonRec, TaskID
<1>4. PICK t \in Tasks : t = mon.task /\ EnqueueTask(t, Prio[t])
  BY <1>2, <1>3, NoFail DEF MonRequeue, Requeue
<1>5. \A a \in Agents, u \in Tasks : Serves(a, u)' <=> Serves(a, u) /\ a # m
  BY <1>1, RequeueReleases DEF Serves, Answers, Idle
<1>6. Serves(m, t) /\ \A u \in Tasks : Serves(m, u) => u = t
  BY <1>2, <1>4 DEF Serves, Answers, Idle
<1>7. UNCHANGED <<asg, submitted, done>>
  BY DEF MonRequeue, MonUnchanged, clientVars
<1>8. \A u \in Tasks : /\ Queued(u) \in Nat
                       /\ Queued(u)' = IF u = t THEN Queued(u) + 1
                                                ELSE Queued(u)
  BY <1>4, EnqueueEffect, QueuedType
<1> SUFFICES ASSUME NEW u \in Tasks PROVE OnePlace(u)'
  BY DEF OnePlaceEach
<1>9. OnePlace(u)
  BY DEF OnePlaceEach
<1>10. CASE u = t
  BY <1>5, <1>6, <1>7, <1>8, <1>9, <1>10 DEF OnePlace, Served, InHand
<1>11. CASE u # t
  BY <1>5, <1>6, <1>7, <1>8, <1>9, <1>11 DEF OnePlace, Served, InHand
<1> QED
  BY <1>10, <1>11

\* CompleteAgent: from its agent to the completion signal.
LEMMA PlacesSignal ==
    ASSUME MaxFaults = 0, Sound, OnePlaceEach, NEW c \in Callers,
           CompleteSignal(c)
    PROVE  OnePlaceEach'
<1> USE DEF Sound
<1>1. PICK b \in Agents : b = call[c].agent
  BY DEF CompleteSignal, LocalsBound
<1>2. Answers(b) /\ curTask[b] # NoTask /\ b \in agents
  BY <1>1, SignalReleases DEF BindingsAgree, Known, CompleteSignal
<1>3. PICK t \in Tasks : t = curTask[b]
  BY <1>2 DEF TypeOK, TaskID
<1>4. done' = done \cup {t} /\ UNCHANGED <<asg, queue, submitted>>
  BY <1>1, <1>2, <1>3, NoFail, ConstantsAssumption
  DEF CompleteSignal, CallUnchanged
<1>5. \A a \in Agents, u \in Tasks : Serves(a, u)' <=> Serves(a, u) /\ a # b
  BY <1>1, SignalReleases DEF Serves, Answers, Idle
<1>6. Serves(b, t) /\ \A u \in Tasks : Serves(b, u) => u = t
  BY <1>2, <1>3 DEF Serves, Answers, Idle
<1>7. \A u \in Tasks : UNCHANGED Queued(u)
  BY <1>4 DEF Queued
<1> SUFFICES ASSUME NEW u \in Tasks PROVE OnePlace(u)'
  BY DEF OnePlaceEach
<1>8. OnePlace(u)
  BY DEF OnePlaceEach
<1>9. CASE u = t
  BY <1>4, <1>5, <1>6, <1>7, <1>8, <1>9 DEF OnePlace, Served, InHand
<1>10. CASE u # t
  BY <1>4, <1>5, <1>6, <1>7, <1>8, <1>10 DEF OnePlace, Served, InHand
<1> QED
  BY <1>9, <1>10

\* tryAssignTask: from the queue to its hands, from there to an agent whose
\* record names the task, or back to the queue.
LEMMA PlacesAsg ==
    ASSUME MaxFaults = 0, Sound, OnePlaceEach, AsgNext,
           AsgSetFields \/ \A a \in Agents, t \in Tasks :
                              Serves(a, t)' <=> Serves(a, t)
    PROVE  OnePlaceEach'
<1> USE DEF Sound
<1>0. ~Fail /\ UNCHANGED <<submitted, done>>
  BY NoFail, AsgFrame
<1>1. CASE AsgDequeue
  <2>1. PICK e \in Front :
           /\ queue' = [queue EXCEPT ![e] = @ - 1]
           /\ asg' = [asg EXCEPT !.pc = "list", !.task = e[1], !.prio = e[2]]
    BY <1>0, <1>1 DEF AsgDequeue
  <2>2. PICK t \in Tasks, p \in Score : e = <<t, p>> /\ queue[<<t, p>>] > 0
    BY DEF Front
  <2>3. p = Prio[t] /\ Queued(t) > 0
    BY <2>2 DEF PriorityTravels, PriorityKept, Queued
  <2>4. \A u \in Tasks : /\ Queued(u) \in Nat
                         /\ Queued(u)' = IF u = t THEN Queued(u) - 1
                                                  ELSE Queued(u)
    <3>1. \A u \in Tasks : <<u, Prio[u]>> \in Tasks \X Score
      BY ConstantsAssumption DEF Score
    <3> QED
      BY <2>1, <2>2, <2>3, <3>1, QueuedType DEF Queued, TypeOK
  <2>5. \A u \in Tasks : ~InHand(u) /\ (InHand(u)' <=> u = t)
    BY <1>1, <2>1, <2>2 DEF AsgDequeue, InHand, TypeOK, AsgRec
  <2>6. \A a \in Agents, u \in Tasks : Serves(a, u)' <=> Serves(a, u)
    BY <1>1 DEF AsgDequeue, AsgSetFields
  <2> SUFFICES ASSUME NEW u \in Tasks PROVE OnePlace(u)'
    BY DEF OnePlaceEach
  <2>7. OnePlace(u)
    BY DEF OnePlaceEach
  <2>8. CASE u = t
    BY <1>0, <2>3, <2>4, <2>5, <2>6, <2>7, <2>8 DEF OnePlace, Served
  <2>9. CASE u # t
    BY <1>0, <2>4, <2>5, <2>6, <2>7, <2>9 DEF OnePlace, Served
  <2> QED
    BY <2>8, <2>9
<1>2. CASE AsgSetFields
  <2>1. PICK b \in Agents : b = asg.agent
    BY <1>2 DEF AsgSetFields, LocalsBound
  <2>2. PICK t \in Tasks : t = asg.task
    BY <1>2 DEF AsgSetFields, LocalsBound
  <2>3. \A a \in Agents, u \in Tasks :
           /\ Serves(a, u)' <=> Serves(a, u) \/ (a = b /\ u = t)
           /\ ~Serves(b, u)
    <3>1. \A a \in Agents :
             /\ Answers(a)' <=> Answers(a) \/ a = b
             /\ a = b => ~Answers(a)
             /\ curTask'[a] = IF a = b THEN t ELSE curTask[a]
      BY <1>2, <2>1, <2>2, AssignmentBinds
    <3>2. \A a \in Agents, u \in Tasks :
             /\ Serves(a, u) <=> curTask[a] = u /\ Answers(a)
             /\ Serves(a, u)' <=> curTask'[a] = u /\ Answers(a)'
      BY DEF Serves, Answers, Idle
    <3> QED
      BY <3>1, <3>2
  <2>4. \A u \in Tasks : (InHand(u) <=> u = t) /\ ~InHand(u)'
    BY <1>0, <1>2, <2>2 DEF AsgSetFields, InHand, asgIdle
  <2>5. \A u \in Tasks : UNCHANGED Queued(u)
    BY <1>2 DEF AsgSetFields, Queued
  <2> SUFFICES ASSUME NEW u \in Tasks PROVE OnePlace(u)'
    BY DEF OnePlaceEach
  <2>6. OnePlace(u)
    BY DEF OnePlaceEach
  <2>7. CASE u = t
    BY <1>0, <2>3, <2>4, <2>5, <2>6, <2>7 DEF OnePlace, Served
  <2>8. CASE u # t
    <3>1. \A a \in Agents : Serves(a, u)' <=> Serves(a, u)
      BY <2>3, <2>8
    <3> QED
      BY <1>0, <2>4, <2>5, <2>6, <2>8, <3>1 DEF OnePlace, Served
  <2> QED
    BY <2>7, <2>8
<1>3. CASE AsgRequeue
  <2>1. PICK t \in Tasks : t = asg.task
    BY <1>3 DEF AsgRequeue, LocalsBound
  <2>2. EnqueueTask(t, Prio[t])
    BY <1>0, <1>3, <2>1, ConstantsAssumption
    DEF AsgRequeue, Requeue, PriorityTravels, Bound
  <2>3. \A u \in Tasks : (InHand(u) <=> u = t) /\ ~InHand(u)'
    BY <1>3, <2>1 DEF AsgRequeue, InHand, asgIdle
  <2>4. \A u \in Tasks : /\ Queued(u) \in Nat
                         /\ Queued(u)' = IF u = t THEN Queued(u) + 1
                                                  ELSE Queued(u)
    BY <2>2, EnqueueEffect, QueuedType
  <2>5. \A a \in Agents, u \in Tasks : Serves(a, u)' <=> Serves(a, u)
    BY <1>3 DEF AsgRequeue, AsgSetFields
  <2> SUFFICES ASSUME NEW u \in Tasks PROVE OnePlace(u)'
    BY DEF OnePlaceEach
  <2>6. OnePlace(u)
    BY DEF OnePlaceEach
  <2>7. CASE u = t
    BY <1>0, <2>3, <2>4, <2>5, <2>6, <2>7 DEF OnePlace, Served
  <2>8. CASE u # t
    BY <1>0, <2>3, <2>4, <2>5, <2>6, <2>8 DEF OnePlace, Served
  <2> QED
    BY <2>7, <2>8
<1>4. CASE ~AsgDequeue /\ ~AsgSetFields /\ ~AsgRequeue
  <2>1. ~AsgRequeueLocked
    BY DEF AsgRequeueLocked, BindingsAgree
  <2>2. UNCHANGED queue
    BY <1>4, <2>1
    DEF AsgNext, AsgList, AsgSnapshot, AsgScan, AsgScanEnd, AsgRecheck,
        AsgMutex, AsgLock, AsgReadState, AsgCAS, AsgGetFields
  <2>3. asg.pc # "idle" /\ asg'.pc # "idle" /\ asg'.task = asg.task
    <3>1. CASE AsgList \/ AsgSnapshot \/ AsgScanEnd \/ AsgRecheck
      BY <3>1 DEF AsgList, AsgSnapshot, AsgScanEnd, AsgRecheck, TypeOK, AsgRec
    <3>2. ASSUME NEW a \in Agents, AsgScan(a) PROVE <2>3!:
      BY <3>2 DEF AsgScan, TypeOK, AsgRec
    <3>3. CASE AsgMutex \/ AsgLock \/ AsgReadState
      BY <3>3 DEF AsgMutex, AsgLock, AsgReadState, TypeOK, AsgRec
    <3>4. CASE AsgCAS \/ AsgGetFields
      BY <3>4 DEF AsgCAS, AsgGetFields, TypeOK, AsgRec
    <3> QED
      BY <1>4, <2>1, <3>1, <3>2, <3>3, <3>4 DEF AsgNext
  <2> QED
    BY <1>0, <1>4, <2>2, <2>3, PlacesKept DEF InHand
<1> QED
  BY <1>1, <1>2, <1>3, <1>4

LEMMA PlacesStep ==
    ASSUME MaxFaults = 0, Sound, OnePlaceEach, [Next]_vars
    PROVE  OnePlaceEach'
<1> USE DEF Sound
<1>0. \/ MonRequeue \/ AsgSetFields \/ \E c \in Callers : CompleteSignal(c)
      \/ \A a \in Agents, t \in Tasks : Serves(a, t)' <=> Serves(a, t)
  BY ServesKept
<1>1. CASE MonRequeue
  BY <1>1, PlacesMonRequeue
<1>2. CASE \E c \in Callers : CompleteSignal(c)
  BY <1>2, PlacesSignal
<1>3. CASE AsgSetFields
  BY <1>3, PlacesAsg DEF AsgNext
<1>4. CASE ~MonRequeue /\ ~AsgSetFields /\ \A c \in Callers : ~CompleteSignal(c)
  <2>0. \A a \in Agents, t \in Tasks : Serves(a, t)' <=> Serves(a, t)
    BY <1>0, <1>4
  <2>1. CASE AsgNext
    BY <2>0, <2>1, PlacesAsg
  <2>2. CASE UNCHANGED <<queue, submitted, done, asg>>
    BY <2>0, <2>2, PlacesKept DEF InHand
  <2>3. MonNext => UNCHANGED <<queue, submitted, done, asg>>
    BY <1>4, MonFrame
    DEF MonNext, MonList, MonEnd, MonRead, MonMutex, MonLock, MonPreRead,
        MonSentinel, MonReadState, MonCAS, MonDefer, MonPolicy, MonDestroy
  <2>4. ASSUME NEW c \in Callers, CallNext(c)
        PROVE  UNCHANGED <<queue, submitted, done, asg>>
    BY <1>4, <2>4, CallFrame
    DEF CallNext, CallBegin, CallLock, HeartbeatGet, HeartbeatSet,
        CallReadState, CallCAS, CompleteClear, CompleteUncool
  <2>5. ASSUME NEW t \in Tasks, SubmitTask(t) PROVE OnePlaceEach'
    <3>1. /\ t \notin submitted /\ submitted' = submitted \cup {t}
          /\ UNCHANGED <<asg, done>>
      BY <2>5 DEF SubmitTask
    <3>2. \A u \in Tasks : /\ Queued(u) \in Nat
                           /\ Queued(u)' = IF u = t THEN Queued(u) + 1
                                                    ELSE Queued(u)
      BY <2>5, EnqueueEffect, QueuedType DEF SubmitTask
    <3> SUFFICES ASSUME NEW u \in Tasks PROVE OnePlace(u)'
      BY DEF OnePlaceEach
    <3>3. OnePlace(u)
      BY DEF OnePlaceEach
    <3>4. CASE u = t
      BY <2>0, <3>1, <3>2, <3>3, <3>4 DEF OnePlace, Served, InHand
    <3>5. CASE u # t
      BY <2>0, <3>1, <3>2, <3>3, <3>5 DEF OnePlace, Served, InHand
    <3> QED
      BY <3>4, <3>5
  <2> QED
    BY <2>1, <2>2, <2>3, <2>4, <2>5
    DEF Next, vars, RegisterStore, RegisterMutex, RegisterSession, Stop,
        StopDestroy, HeartbeatStales, CooldownExpires, CrashLeavesWindow,
        AssignBackoffExpires, clientVars
<1> QED
  BY <1>1, <1>2, <1>3, <1>4

\* One place each, said of the queue, tryAssignTask, the registry and the
\* agents, is what TaskHasOnePlace says.
LEMMA OnePlaceSuffices ==
    ASSUME TypeOK, PriorityKept, OnePlaceEach
    PROVE  TaskHasOnePlace
<1>1. \A t \in Tasks : InQueue(t) <=> Queued(t) > 0
  BY ConstantsAssumption DEF TypeOK, PriorityKept, InQueue, Queued, Score
<1>2. \A t \in Tasks :
         /\ At(t, "queue") <=> Queued(t) > 0
         /\ At(t, "assigner") <=> InHand(t)
         /\ At(t, "done") <=> t \in done
         /\ \A a \in Agents : At(t, a) <=> Serves(a, t)
  <2>1. \A a \in Agents : a # "queue" /\ a # "assigner" /\ a # "done"
    BY ConstantsAssumption DEF PlaceTag
  <2> QED
    BY <1>1, <2>1 DEF At, InHand
<1>3. NoTaskLost
  <2> SUFFICES ASSUME NEW t \in submitted
               PROVE  \E x \in Place : At(t, x)
    BY DEF NoTaskLost
  <2>1. t \in Tasks /\ OnePlace(t)
    BY DEF TypeOK, OnePlaceEach
  <2> QED
    BY <1>2, <2>1 DEF OnePlace, Served, Place, PlaceTag
<1>4. ASSUME NEW t \in Tasks, NEW x \in Place, NEW y \in Place,
             At(t, x), At(t, y)
      PROVE  x = y
  <2>1. OnePlace(t)
    BY DEF OnePlaceEach
  <2>2. /\ x \in {"queue", "assigner", "done"} \/ x \in Agents
        /\ y \in {"queue", "assigner", "done"} \/ y \in Agents
    BY DEF Place, PlaceTag
  <2> QED
    BY <1>2, <1>4, <2>1, <2>2 DEF OnePlace, Served
<1>5. ASSUME NEW e \in Tasks \X Score PROVE queue[e] <= 1
  <2>1. PICK t \in Tasks, p \in Score : e = <<t, p>>
    OBVIOUS
  <2>2. CASE p = Prio[t]
    BY <2>1, <2>2 DEF OnePlaceEach, OnePlace, Queued
  <2>3. CASE p # Prio[t]
    BY <2>1, <2>3 DEF PriorityKept, TypeOK
  <2> QED
    BY <2>2, <2>3
<1> QED
  BY <1>3, <1>4, <1>5 DEF TaskHasOnePlace, SingleOwner

-----------------------------------------------------------------------------
(* The theorems *)

\* The inductive invariant that needs no assumption on the faults.
Guarded ==
    /\ LockDiscipline /\ Known /\ IdleUnderLock /\ BenchHeld /\ CircuitHolds

LEMMA GuardedInit == Init => Guarded
  BY ProcsDiffer, ConstantsAssumption
  DEF Init, Guarded, LockDiscipline, MonHolds, AsgHolds, CallHolds, CallShape,
      Known, IdleUnderLock, MonReads, AsgReads, CallReads, BenchHeld,
      MonBench, AsgBench, CircuitHolds, CrashesBounded, asgIdle, monIdle,
      callIdle, MonLocked, AsgLocked, Idle

LEMMA GuardedInv == Spec => [](TypeOK /\ LocalsBound /\ Guarded)
<1>1. TypeOK /\ LocalsBound /\ Guarded /\ [Next]_vars => Guarded'
  BY LockStep, KnownStep, IdleStep, BenchStep, CircuitStep DEF Guarded
<1> QED
  BY <1>1, GuardedInit, TypeInv, PTL DEF Spec

\* The per-agent mutex excludes: its recorded owner is the goroutine that is
\* between acquisition and release, however crashAgent, tryAssignTask and the
\* handlers interleave and whichever of their calls fail.
THEOREM MutexExcludes == Spec => []LockDiscipline
  BY GuardedInv, PTL DEF Guarded

\* An agent with an open circuit is never made to crash again: crashAgent
\* counts at most one crash beyond the threshold.
THEOREM CrashesStayBounded == Spec => []CrashesBounded
<1>1. Guarded => CrashesBounded
  BY DEF Guarded, CircuitHolds
<1> QED
  BY <1>1, GuardedInv, PTL

\* The agent tryAssignTask moves from idle to assigned has no cooldown and no
\* open circuit in that very step, although both were read without the mutex.
THEOREM BenchIsRespected == Spec => BenchRespected
<1>1. TypeOK /\ LocalsBound /\ Guarded /\ [Next]_vars =>
         [\A a \in Agents :
            agState[a] = StateIdle /\ agState'[a] # StateIdle =>
               a \notin circuitOpen /\ agentCooldown[a] = "none"]_vars
  <2> SUFFICES ASSUME TypeOK, LocalsBound, Guarded, [Next]_vars,
                      NEW a \in Agents, Idle(a), ~Idle(a)'
               PROVE  a \notin circuitOpen /\ agentCooldown[a] = "none"
    BY DEF Idle
  <2> USE DEF Guarded
  <2>1. AsgCAS /\ asg.agent = a /\ AsgHolds(a)
    BY OnlyAssignerWakes
  <2>2. ~MonHolds(a)
    BY <2>1, Exclusion
  <2> QED
    BY <2>1, <2>2 DEF AsgCAS, BenchHeld, AsgBench, MonHolds, MonLocked
<1> QED
  BY <1>1, GuardedInv, PTL DEF Spec, BenchRespected

\* Where each task is, as long as no store call fails.
LEMMA PlacesInv ==
    ASSUME MaxFaults = 0
    PROVE  Spec => [](BindingsAgree /\ OnePlaceEach)
<1>1. Init => BindingsAgree /\ OnePlaceEach
  BY ConstantsAssumption
  DEF Init, BindingsAgree, Answers, Idle, Assigning, MonBinds, CallBinds,
      OnePlaceEach, OnePlace, Queued, InHand, Served, Serves, Score, asgIdle,
      monIdle, callIdle
<1>2. /\ TypeOK /\ LocalsBound /\ Guarded /\ PriorityTravels
      /\ BindingsAgree /\ OnePlaceEach /\ [Next]_vars
      => (BindingsAgree /\ OnePlaceEach)'
  BY BindStep, PlacesStep DEF Guarded, Sound
<1> QED
  BY <1>1, <1>2, GuardedInv, PriorityInv, PTL DEF Spec

\* When no store call fails, a submitted task is in exactly one place, once:
\* queued, with tryAssignTask, with the one agent that answers for it, or
\* signalled complete.
THEOREM TasksHaveOnePlace ==
    ASSUME MaxFaults = 0
    PROVE  Spec => []TaskHasOnePlace
<1>1. TypeOK /\ PriorityTravels /\ OnePlaceEach => TaskHasOnePlace
  BY OnePlaceSuffices DEF PriorityTravels
<1> QED
  BY <1>1, PlacesInv, TypeInv, PriorityInv, PTL

=============================================================================
