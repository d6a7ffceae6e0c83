---------------------------- MODULE ControlProofs ----------------------------
(***************************************************************************)
(* Machine-checked proofs about module Control: what the supervisor keeps  *)
(* although the power controls and the reaper change agent records without *)
(* the per-agent mutex, for any number of agents, tasks and operators.     *)
(*                                                                         *)
(* The mutex invariants of module SupervisorInvariant do not survive here  *)
(* (RemoveMaps drops an agent whose mutex a goroutine may hold); types,    *)
(* priorities and the sentinel do, and the reaper brings its own argument. *)
(***************************************************************************)
EXTENDS Control, SupervisorProofs

CtlRec == [pc: CtlPC, op: {"Cancel", "Reassign", "Despawn"}, agent: AgentID,
           task: TaskID, prio: Score, st: AgentState]

ReapRec == [pc: ReapPC, live: SUBSET Agents, list: SUBSET Agents,
            agent: AgentID]

\* Where a request or the reaper works on an agent, its local names one; the
\* steps that pass a task on are only reached with one.
ActorsBound ==
    /\ \A o \in Operators :
          /\ ctl[o].pc # "idle" => ctl[o].agent \in Agents
          /\ ctl[o].pc \in {"enqueue", "clear", "settle", "reread",
                            "complete"} => ctl[o].task \in Tasks
    /\ reap.pc \in {"remove", "destroy", "delete"} => reap.agent \in Agents

ControlTyped == ControlTypeOK /\ LocalsBound /\ ActorsBound

\* Reassign carries the priority it read with the task.
ReassignTravels ==
    \A o \in Operators :
        ctl[o].pc = "enqueue" => ctl[o].prio = Prio[ctl[o].task]

\* Only an agent whose registration is over ages.  While a sweep runs nobody
\* ages, an aged agent gets no new session, and the sweep's listing has every
\* session an aged agent still has: whoever the sweep takes for an orphan has
\* none and will have none.
AgedAreSettled == \A a \in aged : reg[a] \in {"done", "refused"}

SweepSeesSessions == reap.pc # "idle" => aged \cap session \subseteq reap.live

ReaperHolds ==
    /\ AgedAreSettled
    /\ SweepSeesSessions
    /\ reap.pc = "remove" => reap.agent \in aged \ reap.live

-----------------------------------------------------------------------------
(* Types *)

LEMMA ControlInitTyped == ControlInit => ControlTyped
<1> SUFFICES ASSUME ControlInit PROVE ControlTyped
  OBVIOUS
<1>1. TypeOK
  BY TypeInit DEF ControlInit
<1>2. ctlIdle \in CtlRec /\ reapIdle \in ReapRec
  BY DEF ctlIdle, reapIdle, CtlRec, ReapRec, CtlPC, ReapPC, AgentID, TaskID,
         Score, AgentState, StateIdle
<1>3. ctl \in [Operators -> CtlRec] /\ reap \in ReapRec
  BY <1>2 DEF ControlInit
<1>4. requests \in 0 .. MaxRequests
  BY ControlAssumption DEF ControlInit
<1>5. LocalsBound
  BY DEF ControlInit, Init, LocalsBound, asgIdle, monIdle, callIdle
<1>6. ActorsBound
  BY DEF ControlInit, ActorsBound, ctlIdle, reapIdle
<1> QED
  BY <1>1, <1>3, <1>4, <1>5, <1>6
  DEF ControlTyped, ControlTypeOK, ControlInit, CtlRec, ReapRec

\* The pieces of the actions write values of the right type.
LEMMA ClearType ==
    ASSUME TypeOK, NEW a, ClearCurrentTask(a)
    PROVE  /\ curTask' \in [Agents -> TaskID]
           /\ curPrio' \in [Agents -> Score]
  BY DEF ClearCurrentTask, TypeOK, TaskID, Score

LEMMA DeleteType ==
    ASSUME TypeOK, gone \subseteq Agents, NEW a \in Agents, DeleteAgent(a)
    PROVE  /\ agents' \subseteq Agents
           /\ agState' \in [Agents -> AgentState]
           /\ curTask' \in [Agents -> TaskID]
           /\ curPrio' \in [Agents -> Score]
           /\ fresh' \in [Agents -> BOOLEAN]
           /\ gone' \subseteq Agents
  BY DEF DeleteAgent, TypeOK, TaskID, Score, AgentState, StateIdle

LEMMA MapsType ==
    ASSUME TypeOK, NEW a, RemoveMaps(a)
    PROVE  /\ agentMu' \subseteq Agents
           /\ agentCooldown' \in [Agents -> Cooldown]
           /\ circuitOpen' \subseteq Agents
  BY DEF RemoveMaps, TypeOK, Cooldown

LEMMA DestroyType ==
    ASSUME TypeOK, NEW a, DestroySession(a)
    PROVE  /\ session' \subseteq session
           /\ faults' \in 0 .. MaxFaults
<1>1. session' \subseteq session
  BY DEF DestroySession
<1>2. Fail \/ UNCHANGED faults
  BY DEF DestroySession
<1> QED
  BY <1>1, <1>2, FailType DEF TypeOK

\* A request goes on to its next step with the same locals, or returns; the
\* steps that need a task follow only steps that have one.
LEMMA CtlMoves ==
    ASSUME ctl \in [Operators -> CtlRec], NEW o \in Operators, CtlStep(o)
    PROVE  /\ \/ ctl' = [ctl EXCEPT ![o] = ctlIdle]
              \/ \E pc \in CtlPC \ {"idle", "enqueue"} :
                    /\ ctl' = [ctl EXCEPT ![o].pc = pc]
                    /\ pc \in {"clear", "settle", "reread", "complete"} =>
                          ctl[o].pc \in {"enqueue", "clear", "settle",
                                         "reread", "complete"}
           /\ ctl[o].pc # "idle"
<1> DEFINE Moves == \/ ctl' = [ctl EXCEPT ![o] = ctlIdle]
                    \/ \E pc \in CtlPC \ {"idle", "enqueue"} :
                          /\ ctl' = [ctl EXCEPT ![o].pc = pc]
                          /\ pc \in {"clear", "settle", "reread", "complete"} =>
                                ctl[o].pc \in {"enqueue", "clear", "settle",
                                               "reread", "complete"}
<1>1. ASSUME NEW pc \in CtlPC \ {"idle", "enqueue"}, CtlGoto(o, pc),
             pc \in {"clear", "settle", "reread", "complete"} =>
                ctl[o].pc \in {"enqueue", "clear", "settle", "reread",
                               "complete"}
      PROVE  Moves
  BY <1>1, Zenon DEF CtlGoto
<1>2. ASSUME CtlReturn(o) PROVE Moves
  BY <1>2, Zenon DEF CtlReturn
<1>3. CtlPC \ {"idle", "enqueue"} = {"clear", "settle", "reread", "complete",
                                     "remove", "destroy", "delete"}
  BY DEF CtlPC
<1>4. ASSUME CtlSettled(o), ctl[o].pc \in {"clear", "settle", "reread"}
      PROVE  Moves
  <2>1. CtlGoto(o, "complete") \/ CtlReturn(o)
    BY <1>4 DEF CtlSettled
  <2>2. "complete" \in CtlPC \ {"idle", "enqueue"}
    BY <1>3
  <2> HIDE DEF Moves
  <2>3. CASE CtlGoto(o, "complete")
    BY <1>1, <1>4, <2>2, <2>3
  <2> QED
    BY <1>2, <2>1, <2>3
<1> HIDE DEF Moves
<1>5. ASSUME CtlEnqueue(o) PROVE Moves
  <2>1. ctl[o].pc = "enqueue" /\ (CtlGoto(o, "clear") \/ CtlReturn(o))
    BY <1>5 DEF CtlEnqueue
  <2> QED
    BY <1>1, <1>2, <1>3, <2>1
<1>6. ASSUME CtlClear(o) PROVE Moves
  <2>1. /\ ctl[o].pc = "clear"
        /\ \/ CtlGoto(o, "complete") \/ CtlGoto(o, "settle")
           \/ CtlSettled(o) \/ CtlReturn(o)
    BY <1>6, Zenon DEF CtlClear
  <2> QED
    BY <1>1, <1>2, <1>3, <1>4, <2>1
<1>7. ASSUME CtlSettle(o) PROVE Moves
  <2>1. /\ ctl[o].pc = "settle"
        /\ CtlSettled(o) \/ CtlGoto(o, "reread") \/ CtlReturn(o)
    BY <1>7, Zenon DEF CtlSettle
  <2> QED
    BY <1>1, <1>2, <1>3, <1>4, <2>1
<1>8. ASSUME CtlReread(o) PROVE Moves
  <2>1. ctl[o].pc = "reread" /\ (CtlSettled(o) \/ CtlReturn(o))
    BY <1>8, Zenon DEF CtlReread
  <2> QED
    BY <1>2, <1>4, <2>1
<1>9. ASSUME CtlComplete(o) PROVE Moves
  <2>1. ctl[o].pc = "complete" /\ (CtlGoto(o, "remove") \/ CtlReturn(o))
    BY <1>9 DEF CtlComplete
  <2> QED
    BY <1>1, <1>2, <1>3, <2>1
<1>10. ASSUME CtlRemove(o) PROVE Moves
  <2>1. ctl[o].pc = "remove" /\ CtlGoto(o, "destroy")
    BY <1>10 DEF CtlRemove
  <2> QED
    BY <1>1, <1>3, <2>1
<1>11. ASSUME CtlDestroy(o) PROVE Moves
  <2>1. ctl[o].pc = "destroy" /\ CtlGoto(o, "delete")
    BY <1>11 DEF CtlDestroy
  <2> QED
    BY <1>1, <1>3, <2>1
<1>12. ASSUME CtlDelete(o) PROVE Moves
  <2>1. ctl[o].pc = "delete" /\ CtlReturn(o)
    BY <1>12 DEF CtlDelete
  <2> QED
    BY <1>2, <2>1
<1>13. Moves
  BY <1>5, <1>6, <1>7, <1>8, <1>9, <1>10, <1>11, <1>12 DEF CtlStep
<1>14. ctl[o].pc # "idle"
  BY DEF CtlStep, CtlEnqueue, CtlClear, CtlSettle, CtlReread, CtlComplete,
         CtlRemove, CtlDestroy, CtlDelete
<1> QED
  BY <1>13, <1>14 DEF Moves

\* So its locals keep their types and bounds.
LEMMA CtlLocals ==
    ASSUME ctl \in [Operators -> CtlRec], ActorsBound, ReassignTravels,
           NEW o \in Operators, CtlStep(o)
    PROVE  /\ ctl' \in [Operators -> CtlRec]
           /\ ActorsBound'
           /\ ReassignTravels'
<1>1. reap' = reap
  BY DEF CtlStep, CtlUnchanged, CtlEnqueue, CtlClear, CtlSettle, CtlReread,
         CtlComplete, CtlRemove, CtlDestroy, CtlDelete
<1>2. CASE ctl' = [ctl EXCEPT ![o] = ctlIdle]
  <2>1. ctlIdle \in CtlRec /\ ctlIdle.pc = "idle"
    BY DEF ctlIdle, CtlRec, CtlPC, AgentID, TaskID, Score, AgentState,
           StateIdle
  <2> QED
    BY <1>1, <1>2, <2>1 DEF ActorsBound, ReassignTravels
<1>3. ASSUME NEW pc \in CtlPC \ {"idle", "enqueue"},
             ctl' = [ctl EXCEPT ![o].pc = pc],
             pc \in {"clear", "settle", "reread", "complete"} =>
                ctl[o].pc \in {"enqueue", "clear", "settle", "reread",
                               "complete"},
             ctl[o].pc # "idle"
      PROVE  /\ ctl' \in [Operators -> CtlRec]
             /\ ActorsBound'
             /\ ReassignTravels'
  <2>1. ctl' \in [Operators -> CtlRec]
    BY <1>3, Zenon DEF CtlRec
  <2>2. /\ ctl'[o].pc = pc /\ ctl'[o].agent = ctl[o].agent
        /\ ctl'[o].task = ctl[o].task
        /\ \A p \in Operators \ {o} : ctl'[p] = ctl[p]
    BY <1>3 DEF CtlRec
  <2>3. ActorsBound'
    BY <1>1, <1>3, <2>2 DEF ActorsBound
  <2>4. ReassignTravels'
    BY <1>3, <2>2 DEF ReassignTravels
  <2> QED
    BY <2>1, <2>3, <2>4
<1> QED
  BY <1>2, <1>3, CtlMoves

\* A power control reads the fields of an agent.
LEMMA CtlReadStep ==
    ASSUME ControlTyped, PriorityTravels, ReassignTravels,
           NEW o \in Operators, NEW op \in CtlOps, NEW a \in Agents,
           CtlRead(o, op, a)
    PROVE  ControlTyped' /\ PriorityTravels' /\ ReassignTravels'
<1> DEFINE pc  == CASE op = "Reassign"     -> "enqueue"
                    [] curTask[a] = NoTask -> "remove"
                    [] OTHER               -> "clear"
           rec == [pc |-> pc, op |-> op, agent |-> a, task |-> curTask[a],
                   prio |-> curPrio[a], st |-> agState[a]]
<1>1. /\ UNCHANGED vars /\ UNCHANGED <<reap, aged, gone>>
      /\ requests < MaxRequests /\ requests' = requests + 1
      /\ op = "Despawn" \/ curTask[a] # NoTask
  BY DEF CtlRead, CtlUnchanged, vars, storeVars, svVars
<1>2. ctl' = [ctl EXCEPT ![o] = rec]
  BY Zenon DEF CtlRead
<1>3. /\ curTask[a] \in TaskID /\ curPrio[a] \in Score
      /\ agState[a] \in AgentState
      /\ op \in {"Cancel", "Reassign", "Despawn"}
  BY ControlAssumption DEF ControlTyped, ControlTypeOK, TypeOK
<1>4. /\ pc \in {"enqueue", "remove", "clear"}
      /\ pc = "remove" \/ curTask[a] \in Tasks
  BY <1>1, <1>3 DEF TaskID
<1>5. rec \in CtlRec
  BY <1>3, <1>4 DEF CtlRec, CtlPC, AgentID
<1>6. /\ rec.pc = pc /\ rec.agent = a /\ rec.task = curTask[a]
      /\ rec.prio = curPrio[a]
  OBVIOUS
<1>7. Bound(curTask[a], curPrio[a])
  BY DEF PriorityTravels
<1> HIDE DEF rec, pc
<1>8. ctl \in [Operators -> CtlRec]
  BY DEF ControlTyped, ControlTypeOK, CtlRec
<1>9. ctl' \in [Operators -> CtlRec]
  BY <1>2, <1>5, <1>8
<1>10. /\ ctl'[o] = rec
       /\ \A p \in Operators \ {o} : ctl'[p] = ctl[p]
  BY <1>2, <1>8
<1>11. ActorsBound'
  BY <1>1, <1>4, <1>6, <1>10 DEF ActorsBound, ControlTyped
<1>12. ReassignTravels'
  BY <1>1, <1>4, <1>6, <1>7, <1>10, ConstantsAssumption
  DEF ReassignTravels, Bound
<1>13. requests' \in 0 .. MaxRequests
  BY <1>1, ControlAssumption DEF ControlTyped, ControlTypeOK
<1>14. ControlTypeOK'
  BY <1>1, <1>9, <1>13
  DEF ControlTyped, ControlTypeOK, CtlRec, TypeOK, vars
<1>15. LocalsBound'
  BY <1>1 DEF ControlTyped, LocalsBound, vars
<1>16. PriorityTravels'
  BY <1>1 DEF PriorityTravels, PriorityKept, Bound, vars
<1> QED
  BY <1>11, <1>12, <1>14, <1>15, <1>16 DEF ControlTyped

\* A step that touches bindings only takes them away.
Unbinds == \A a \in Agents :
              \/ curTask'[a] = NoTask
              \/ curTask'[a] = curTask[a] /\ curPrio'[a] = curPrio[a]

\* What the later steps of a power control do to the supervisor's state.
LEMMA CtlData ==
    ASSUME ControlTyped, PriorityTravels, ReassignTravels,
           NEW o \in Operators, CtlStep(o)
    PROVE  /\ TypeOK'
           /\ gone' \subseteq Agents
           /\ PriorityTravels'
           /\ UNCHANGED <<reg, asg, mon, call, reap, aged, requests>>
           /\ session' \subseteq session
           /\ \A a \in Agents : agentCooldown'[a] \in {agentCooldown[a], "none"}
<1>0. /\ TypeOK /\ ActorsBound /\ gone \subseteq Agents
      /\ ctl \in [Operators -> CtlRec]
  BY DEF ControlTyped, ControlTypeOK, CtlRec
<1>1. /\ ctl[o].pc # "idle" => ctl[o].agent \in Agents
      /\ ctl[o].pc \in {"enqueue", "clear", "settle", "reread", "complete"} =>
            ctl[o].task \in Tasks
      /\ ctl[o].st \in AgentState
  BY <1>0 DEF ActorsBound, CtlRec
<1>2. UNCHANGED <<reg, asg, mon, call, stopping, submitted, reap, aged,
                  requests>>
  BY DEF CtlStep, CtlUnchanged, CtlEnqueue, CtlClear, CtlSettle, CtlReread,
         CtlComplete, CtlRemove, CtlDestroy, CtlDelete
<1> DEFINE Goal == /\ TypeOK'
                   /\ gone' \subseteq Agents
                   /\ PriorityTravels'
                   /\ session' \subseteq session
                   /\ \A a \in Agents : agentCooldown'[a] \in
                                          {agentCooldown[a], "none"}
<1>3. CASE CtlEnqueue(o)
  <2>1. /\ ctl[o].task \in Tasks /\ ctl[o].prio = Prio[ctl[o].task]
        /\ UNCHANGED <<storeVars, svVars, done, gone>>
    BY <1>1, <1>3 DEF CtlEnqueue, ReassignTravels
  <2>2. Requeue(ctl[o].task, Prio[ctl[o].task])
    BY <1>3, <2>1 DEF CtlEnqueue, Requeue
  <2>3. PriorityKept'
    BY <1>0, <2>1, <2>2, RequeueKeeps DEF PriorityTravels
  <2>4. /\ queue' \in [Tasks \X Score -> Nat]
        /\ faults' \in 0 .. MaxFaults
    BY <1>0, <2>2, RequeueType DEF TypeOK
  <2>5. PriorityTravels'
    BY <1>2, <2>1, <2>3 DEF PriorityTravels, Bound, storeVars
  <2> QED
    BY <1>0, <1>2, <2>1, <2>4, <2>5 DEF TypeOK, storeVars, svVars
<1>4. CASE CtlClear(o)
  <2>1. /\ UNCHANGED <<agents, agState, fresh, queue, svVars, done, gone>>
        /\ Fail \/ UNCHANGED faults
        /\ ClearCurrentTask(ctl[o].agent) \/ UNCHANGED <<curTask, curPrio>>
    BY <1>4, Zenon DEF CtlClear
  <2>2. faults' \in 0 .. MaxFaults
    BY <1>0, <2>1, FailType DEF TypeOK
  <2>3. curTask' \in [Agents -> TaskID] /\ curPrio' \in [Agents -> Score]
    BY <1>0, <2>1, ClearType DEF TypeOK
  <2>4. Unbinds
    BY <1>0, <2>1 DEF Unbinds, ClearCurrentTask, TypeOK
  <2>5. PriorityTravels'
    BY <1>2, <2>1, <2>4 DEF Unbinds, PriorityTravels, PriorityKept, Bound
  <2> QED
    BY <1>0, <1>2, <2>1, <2>2, <2>3, <2>5 DEF TypeOK, svVars
<1>5. CASE CtlSettle(o) \/ CtlReread(o)
  <2>1. /\ UNCHANGED <<agents, curTask, curPrio, fresh, queue, svVars, done,
                       gone>>
        /\ Fail \/ UNCHANGED faults
        /\ \/ agState' = [agState EXCEPT ![ctl[o].agent] = StateIdle]
           \/ UNCHANGED agState
    BY <1>5, Zenon DEF CtlSettle, CtlReread, storeVars
  <2>2. faults' \in 0 .. MaxFaults
    BY <1>0, <2>1, FailType DEF TypeOK
  <2>3. agState' \in [Agents -> AgentState]
    BY <1>0, <2>1 DEF TypeOK, AgentState, StateIdle
  <2>4. PriorityTravels'
    BY <1>2, <2>1 DEF PriorityTravels, PriorityKept, Bound
  <2> QED
    BY <1>0, <1>2, <2>1, <2>2, <2>3, <2>4 DEF TypeOK, svVars
<1>6. CASE CtlComplete(o)
  <2>1. /\ UNCHANGED <<storeVars, queue, svVars, faults, gone>>
        /\ done' = done \cup {ctl[o].task} /\ ctl[o].task \in Tasks
    BY <1>1, <1>6 DEF CtlComplete
  <2>2. PriorityTravels'
    BY <1>2, <2>1 DEF PriorityTravels, PriorityKept, Bound, storeVars
  <2> QED
    BY <1>0, <1>2, <2>1, <2>2 DEF TypeOK, storeVars, svVars
<1>7. CASE CtlRemove(o)
  <2>1. /\ UNCHANGED <<storeVars, queue, owner, crashes, stopped, backingOff,
                       session, faults, done, gone>>
        /\ RemoveMaps(ctl[o].agent)
    BY <1>7 DEF CtlRemove
  <2>2. PriorityTravels'
    BY <1>2, <2>1 DEF PriorityTravels, PriorityKept, Bound, storeVars
  <2>3. \A a \in Agents : agentCooldown'[a] \in {agentCooldown[a], "none"}
    BY <1>0, <2>1 DEF RemoveMaps, TypeOK
  <2> QED
    BY <1>0, <1>2, <2>1, <2>2, <2>3, MapsType DEF TypeOK, storeVars
<1>8. CASE CtlDestroy(o)
  <2>1. /\ UNCHANGED <<storeVars, queue, agentMu, owner, benchVars, stopped,
                       backingOff, done, gone>>
        /\ DestroySession(ctl[o].agent)
    BY <1>8 DEF CtlDestroy
  <2>2. PriorityTravels'
    BY <1>2, <2>1 DEF PriorityTravels, PriorityKept, Bound, storeVars
  <2> QED
    BY <1>0, <1>2, <2>1, <2>2, DestroyType DEF TypeOK, storeVars, benchVars
<1>9. CASE CtlDelete(o)
  <2>1. /\ UNCHANGED <<queue, svVars, done>>
        /\ \/ DeleteAgent(ctl[o].agent) /\ UNCHANGED faults
           \/ Fail /\ UNCHANGED <<storeVars, gone>>
        /\ ctl[o].agent \in Agents
    BY <1>1, <1>9 DEF CtlDelete
  <2>2. faults' \in 0 .. MaxFaults
    BY <1>0, <2>1, FailType DEF TypeOK
  <2>3. Unbinds
    BY <1>0, <2>1 DEF Unbinds, DeleteAgent, TypeOK, storeVars
  <2>4. PriorityTravels'
    BY <1>2, <2>1, <2>3 DEF Unbinds, PriorityTravels, PriorityKept, Bound
  <2>5. CASE UNCHANGED <<storeVars, gone>>
    BY <1>0, <1>2, <2>1, <2>2, <2>4, <2>5 DEF TypeOK, storeVars, svVars
  <2>6. CASE DeleteAgent(ctl[o].agent)
    BY <1>0, <1>2, <2>1, <2>2, <2>4, <2>6, DeleteType DEF TypeOK, svVars
  <2> QED
    BY <2>1, <2>5, <2>6
<1>10. Goal
  BY <1>3, <1>4, <1>5, <1>6, <1>7, <1>8, <1>9 DEF CtlStep
<1> QED
  BY <1>2, <1>10

\* What the reaper does to the supervisor's state.
LEMMA ReapData ==
    ASSUME ControlTyped, PriorityTravels, ReapNext
    PROVE  /\ TypeOK'
           /\ gone' \subseteq Agents
           /\ reap' \in ReapRec
           /\ ActorsBound'
           /\ PriorityTravels'
           /\ UNCHANGED <<reg, asg, mon, call, ctl, aged, requests>>
           /\ session' \subseteq session
           /\ \A a \in Agents : agentCooldown'[a] \in {agentCooldown[a], "none"}
<1>0. /\ TypeOK /\ ActorsBound /\ gone \subseteq Agents /\ reap \in ReapRec
      /\ reap.pc \in {"remove", "destroy", "delete"} => reap.agent \in Agents
  BY DEF ControlTyped, ControlTypeOK, ReapRec, ActorsBound
<1>1. UNCHANGED <<reg, asg, mon, call, stopping, submitted, done, ctl,
                  requests, aged>>
  BY DEF ReapNext, ReapUnchanged, ReapSessions, ReapList, ReapPick, ReapEnd,
         ReapRemove, ReapDestroy, ReapDelete
<1> DEFINE Goal == /\ TypeOK'
                   /\ gone' \subseteq Agents
                   /\ reap' \in ReapRec
                   /\ ActorsBound'
                   /\ PriorityTravels'
                   /\ session' \subseteq session
                   /\ \A a \in Agents : agentCooldown'[a] \in
                                          {agentCooldown[a], "none"}
<1>2. ASSUME UNCHANGED <<storeVars, queue, svVars, gone>>,
             Fail \/ UNCHANGED faults, reap' \in ReapRec,
             reap'.pc \in {"remove", "destroy", "delete"} =>
                reap'.agent \in Agents
      PROVE  Goal
  <2>1. faults' \in 0 .. MaxFaults
    BY <1>0, <1>2, FailType DEF TypeOK
  <2>2. TypeOK'
    BY <1>0, <1>1, <1>2, <2>1 DEF TypeOK, storeVars, svVars
  <2>3. PriorityTravels'
    BY <1>1, <1>2 DEF PriorityTravels, PriorityKept, Bound, storeVars
  <2>4. ActorsBound'
    BY <1>0, <1>1, <1>2 DEF ActorsBound
  <2> QED
    BY <1>0, <1>2, <2>2, <2>3, <2>4 DEF svVars, TypeOK
<1>3. reapIdle \in ReapRec /\ reapIdle.pc = "idle"
  BY DEF reapIdle, ReapRec, ReapPC, AgentID
<1>4. ASSUME ReapSessions PROVE Goal
  <2>1. /\ UNCHANGED <<storeVars, queue, svVars, gone>>
        /\ Fail \/ UNCHANGED faults
        /\ \/ reap' = reap
           \/ reap' = [reap EXCEPT !.pc = "list", !.live = session]
    BY <1>4, Zenon DEF ReapSessions
  <2>2. /\ reap' \in ReapRec
        /\ reap' = reap \/ reap'.pc = "list"
    BY <1>0, <2>1 DEF TypeOK, ReapRec, ReapPC
  <2> HIDE DEF Goal
  <2> QED
    BY <1>0, <1>2, <2>1, <2>2
<1>5. ASSUME ReapList PROVE Goal
  <2>1. /\ UNCHANGED <<storeVars, queue, svVars, gone>>
        /\ Fail \/ UNCHANGED faults
        /\ \/ reap' = reapIdle
           \/ reap' = [reap EXCEPT !.pc = "sweep", !.list = agents]
    BY <1>5, Zenon DEF ReapList
  <2>2. /\ reap' \in ReapRec
        /\ reap' = reapIdle \/ reap'.pc = "sweep"
    BY <1>0, <1>3, <2>1 DEF TypeOK, ReapRec, ReapPC
  <2> HIDE DEF Goal
  <2> QED
    BY <1>2, <1>3, <2>1, <2>2
<1>6. ASSUME NEW a \in Agents, ReapPick(a) PROVE Goal
  <2>1. /\ UNCHANGED <<storeVars, queue, svVars, gone>>
        /\ Fail \/ UNCHANGED faults
        /\ reap.pc = "sweep"
        /\ \/ reap' = [reap EXCEPT !.list = @ \ {a}]
           \/ reap' = [reap EXCEPT !.pc = "remove", !.agent = a,
                                   !.list = @ \ {a}]
    BY <1>6, Zenon DEF ReapPick
  <2>2. /\ reap' \in ReapRec
        /\ reap'.pc = "sweep" \/ reap'.agent = a
    BY <1>0, <2>1 DEF ReapRec, ReapPC, AgentID
  <2> HIDE DEF Goal
  <2> QED
    BY <1>2, <2>1, <2>2
<1>7. ASSUME ReapEnd PROVE Goal
  <2>1. UNCHANGED <<storeVars, queue, svVars, faults, gone>> /\ reap' = reapIdle
    BY <1>7 DEF ReapEnd
  <2> HIDE DEF Goal
  <2> QED
    BY <1>2, <1>3, <2>1
<1>8. CASE ReapRemove
  <2>1. /\ UNCHANGED <<storeVars, queue, owner, crashes, stopped, backingOff,
                       session, faults, gone>>
        /\ RemoveMaps(reap.agent)
        /\ reap.agent \in Agents
        /\ reap' = [reap EXCEPT !.pc = "destroy"]
    BY <1>0, <1>8 DEF ReapRemove
  <2>2. reap' \in ReapRec /\ reap'.agent = reap.agent
    BY <1>0, <2>1 DEF ReapRec, ReapPC
  <2>3. PriorityTravels'
    BY <1>1, <2>1 DEF PriorityTravels, PriorityKept, Bound, storeVars
  <2>4. \A a \in Agents : agentCooldown'[a] \in {agentCooldown[a], "none"}
    BY <1>0, <2>1 DEF RemoveMaps, TypeOK
  <2>5. ActorsBound'
    BY <1>0, <1>1, <2>1, <2>2 DEF ActorsBound
  <2> QED
    BY <1>0, <1>1, <2>1, <2>2, <2>3, <2>4, <2>5, MapsType
    DEF TypeOK, storeVars
<1>9. CASE ReapDestroy
  <2>1. /\ UNCHANGED <<storeVars, queue, agentMu, owner, benchVars, stopped,
                       backingOff, gone>>
        /\ DestroySession(reap.agent)
        /\ reap.agent \in Agents
        /\ reap' = [reap EXCEPT !.pc = "delete"]
    BY <1>0, <1>9 DEF ReapDestroy
  <2>2. reap' \in ReapRec /\ reap'.agent = reap.agent
    BY <1>0, <2>1 DEF ReapRec, ReapPC
  <2>3. PriorityTravels'
    BY <1>1, <2>1 DEF PriorityTravels, PriorityKept, Bound, storeVars
  <2>4. ActorsBound'
    BY <1>0, <1>1, <2>1, <2>2 DEF ActorsBound
  <2> QED
    BY <1>0, <1>1, <2>1, <2>2, <2>3, <2>4, DestroyType
    DEF TypeOK, storeVars, benchVars
<1>10. ASSUME ReapDelete PROVE Goal
  <2>1. /\ UNCHANGED <<queue, svVars>>
        /\ \/ DeleteAgent(reap.agent) /\ UNCHANGED faults
           \/ Fail /\ UNCHANGED <<storeVars, gone>>
        /\ reap.agent \in Agents
        /\ reap' = [reap EXCEPT !.pc = "sweep"]
    BY <1>0, <1>10 DEF ReapDelete
  <2>2. reap' \in ReapRec /\ reap'.agent = reap.agent
    BY <1>0, <2>1 DEF ReapRec, ReapPC
  <2>3. CASE DeleteAgent(reap.agent) /\ UNCHANGED faults
    <3>1. Unbinds
      BY <1>0, <2>1, <2>3 DEF Unbinds, DeleteAgent, TypeOK
    <3>2. PriorityTravels'
      BY <1>1, <2>1, <3>1 DEF Unbinds, PriorityTravels, PriorityKept, Bound
    <3>3. ActorsBound'
      BY <1>0, <1>1, <2>1, <2>2 DEF ActorsBound
    <3> QED
      BY <1>0, <1>1, <2>1, <2>2, <2>3, <3>2, <3>3, DeleteType
      DEF TypeOK, svVars
  <2>4. CASE Fail /\ UNCHANGED <<storeVars, gone>>
    <3> HIDE DEF Goal
    <3> QED
      BY <1>2, <2>1, <2>2, <2>4
  <2> QED
    BY <2>1, <2>3, <2>4
<1>11. Goal
  BY <1>4, <1>5, <1>6, <1>7, <1>8, <1>9, <1>10 DEF ReapNext
<1> QED
  BY <1>1, <1>11

-----------------------------------------------------------------------------
(* The inductive invariants *)

\* Sessions end and agents age.
LEMMA AgeingStep ==
    ASSUME ControlTyped, PriorityTravels, ReassignTravels, NEW a \in Agents,
           SessionDies(a) \/ Age(a)
    PROVE  /\ ControlTyped' /\ PriorityTravels' /\ ReassignTravels'
           /\ UNCHANGED <<mon, agentCooldown>>
<1>1. /\ UNCHANGED <<storeVars, queue, agentMu, owner, benchVars, stopped,
                     backingOff, faults, gone, reap, reg, asg, mon, call,
                     stopping, submitted, done, ctl, requests>>
      /\ session' \subseteq session
      /\ aged' \subseteq aged \cup {a}
  BY DEF SessionDies, Age, ReapUnchanged, svVars, benchVars, clientVars
<1>2. ControlTypeOK'
  BY <1>1
  DEF ControlTyped, ControlTypeOK, TypeOK, storeVars, benchVars
<1>3. LocalsBound' /\ ActorsBound'
  BY <1>1 DEF ControlTyped, LocalsBound, ActorsBound
<1>4. PriorityTravels' /\ ReassignTravels'
  BY <1>1 DEF PriorityTravels, PriorityKept, Bound, ReassignTravels, storeVars
<1> QED
  BY <1>1, <1>2, <1>3, <1>4 DEF ControlTyped, benchVars

\* Every step, of whichever actor, keeps types and priorities.
LEMMA ControlStep ==
    ControlTyped /\ PriorityTravels /\ ReassignTravels /\ [ControlNext]_allVars
    => (ControlTyped /\ PriorityTravels /\ ReassignTravels)'
<1> SUFFICES ASSUME ControlTyped, PriorityTravels, ReassignTravels,
                    [ControlNext]_allVars
             PROVE  ControlTyped' /\ PriorityTravels' /\ ReassignTravels'
  OBVIOUS
<1>1. CASE [Next]_vars /\ UNCHANGED ctlVars
  <2>1. TypeOK' /\ LocalsBound' /\ PriorityTravels'
    BY <1>1, TypeStep, LocalsStep, PriorityStep DEF ControlTyped, ControlTypeOK
  <2>2. ActorsBound' /\ ReassignTravels'
    BY <1>1 DEF ctlVars, ControlTyped, ActorsBound, ReassignTravels
  <2> QED
    BY <1>1, <2>1, <2>2 DEF ctlVars, ControlTyped, ControlTypeOK
<1>2. ASSUME NEW o \in Operators, CtlStep(o)
      PROVE  ControlTyped' /\ PriorityTravels' /\ ReassignTravels'
  <2>1. ctl \in [Operators -> CtlRec] /\ ActorsBound
    BY DEF ControlTyped, ControlTypeOK, CtlRec
  <2>2. /\ ctl' \in [Operators -> CtlRec] /\ ActorsBound'
        /\ ReassignTravels'
    BY <1>2, <2>1, CtlLocals
  <2>3. /\ TypeOK' /\ gone' \subseteq Agents /\ PriorityTravels'
        /\ UNCHANGED <<reg, asg, mon, call, reap, aged, requests>>
    BY <1>2, CtlData
  <2>4. LocalsBound'
    BY <2>3 DEF ControlTyped, LocalsBound
  <2> QED
    BY <2>2, <2>3, <2>4 DEF ControlTyped, ControlTypeOK, CtlRec
<1>3. CASE ReapNext
  <2>1. /\ TypeOK' /\ gone' \subseteq Agents /\ PriorityTravels'
        /\ reap' \in ReapRec /\ ActorsBound'
        /\ UNCHANGED <<reg, asg, mon, call, ctl, aged, requests>>
    BY <1>3, ReapData
  <2>2. LocalsBound' /\ ReassignTravels'
    BY <2>1 DEF ControlTyped, LocalsBound, ReassignTravels
  <2> QED
    BY <2>1, <2>2 DEF ControlTyped, ControlTypeOK, ReapRec
<1>4. CASE UNCHANGED allVars
  BY <1>1, <1>4 DEF allVars
<1> QED
  BY <1>1, <1>2, <1>3, <1>4, CtlReadStep, AgeingStep DEF ControlNext

LEMMA ControlInv ==
    ControlSpec => [](ControlTyped /\ PriorityTravels /\ ReassignTravels)
<1>1. ControlInit => ControlTyped /\ PriorityTravels /\ ReassignTravels
  <2> SUFFICES ASSUME ControlInit
               PROVE  PriorityTravels /\ ReassignTravels
    BY ControlInitTyped
  <2>1. PriorityTravels
    BY DEF ControlInit, Init, PriorityTravels, PriorityKept, Bound, asgIdle,
           monIdle, callIdle
  <2>2. ReassignTravels
    BY DEF ControlInit, ReassignTravels, ctlIdle
  <2> QED
    BY <2>1, <2>2
<1> QED
  BY <1>1, ControlStep, PTL DEF ControlSpec

\* Type correctness of the composition: whatever operators and the reaper do,
\* every record, map, lock and goroutine local of the supervisor and every
\* local of a request and of the sweep stays in its type.
THEOREM ControlTypeCorrect == ControlSpec => []ControlTypeOK
<1>1. ControlTyped => ControlTypeOK
  BY DEF ControlTyped
<1> QED
  BY <1>1, ControlInv, PTL

\* Priorities survive the power controls: a reassigned task is back in the
\* queue at the priority it was submitted with, and neither cancel, despawn
\* nor the reaper can make a goroutine put one back at another.
THEOREM ControlsKeepPriority == ControlSpec => []PriorityKept
<1>1. PriorityTravels => PriorityKept
  BY DEF PriorityTravels
<1> QED
  BY <1>1, ControlInv, PTL

\* The sentinel of crashAgent stays inside crashAgent although RemoveAgent
\* clears the bench of an agent in the middle of it.
THEOREM ControlsKeepSentinel == ControlSpec => []SentinelIsTransient
<1>1. ControlInit => SentinelIsTransient
  BY DEF ControlInit, Init, SentinelIsTransient
<1>2. /\ ControlTyped /\ PriorityTravels /\ ReassignTravels
      /\ SentinelIsTransient /\ [ControlNext]_allVars
      => SentinelIsTransient'
  <2> SUFFICES ASSUME ControlTyped, PriorityTravels, ReassignTravels,
                      SentinelIsTransient, [ControlNext]_allVars
               PROVE  SentinelIsTransient'
    OBVIOUS
  <2>1. CASE [Next]_vars
    BY <2>1, SentinelStep DEF ControlTyped, ControlTypeOK
  <2>2. ASSUME UNCHANGED mon,
               \A a \in Agents : agentCooldown'[a] \in
                                   {agentCooldown[a], "none"}
        PROVE  SentinelIsTransient'
    BY <2>2 DEF SentinelIsTransient
  <2>3. ASSUME NEW o \in Operators, CtlStep(o) PROVE SentinelIsTransient'
    BY <2>2, <2>3, CtlData
  <2>4. CASE ReapNext
    BY <2>2, <2>4, ReapData
  <2>5. ASSUME NEW a \in Agents, SessionDies(a) \/ Age(a)
        PROVE  SentinelIsTransient'
    BY <2>2, <2>5, AgeingStep
  <2>6. ASSUME NEW o \in Operators, NEW op \in CtlOps, NEW a \in Agents,
               CtlRead(o, op, a)
        PROVE  SentinelIsTransient'
    BY <2>2, <2>6 DEF CtlRead, CtlUnchanged, svVars
  <2> QED
    BY <2>1, <2>3, <2>4, <2>5, <2>6 DEF ControlNext, allVars
<1> QED
  BY <1>1, <1>2, ControlInv, PTL DEF ControlSpec

-----------------------------------------------------------------------------
(* The reaper *)

\* A registration that is over stays over, and the supervisor starts a
\* session only for an agent it is still registering.
LEMMA SettledStep ==
    ASSUME TypeOK, [Next]_vars, NEW a \in Agents, reg[a] \in {"done", "refused"}
    PROVE  /\ reg'[a] = reg[a]
           /\ a \in session' => a \in session
<1>1. CASE UNCHANGED <<reg, session>>
  BY <1>1
<1>2. ASSUME NEW b \in Agents,
             RegisterStore(b) \/ RegisterMutex(b) \/ RegisterSession(b)
      PROVE  reg'[a] = reg[a] /\ (a \in session' => a \in session)
  BY <1>2
  DEF RegisterStore, RegisterMutex, RegisterSession, TypeOK, svVars
<1>3. ASSUME NEW b \in Agents, StopDestroy(b)
      PROVE  reg'[a] = reg[a] /\ (a \in session' => a \in session)
  BY <1>3 DEF StopDestroy
<1>4. ASSUME MonNext
      PROVE  UNCHANGED reg /\ session' \subseteq session
  BY <1>4
  DEF MonNext, MonUnchanged, MonList, MonEnd, MonRead, MonMutex, MonLock,
      MonPreRead, MonSentinel, MonReadState, MonCAS, MonDefer, MonRequeue,
      MonPolicy, MonDestroy, svVars
<1>5. ASSUME AsgNext PROVE UNCHANGED <<reg, session>>
  BY <1>5
  DEF AsgNext, AsgUnchanged, AsgDequeue, AsgList, AsgSnapshot, AsgScan,
      AsgScanEnd, AsgRecheck, AsgMutex, AsgLock, AsgReadState, AsgCAS,
      AsgGetFields, AsgSetFields, AsgRequeueLocked, AsgRequeue, svVars
<1>6. ASSUME NEW c \in Callers, CallNext(c) PROVE UNCHANGED <<reg, session>>
  BY <1>6
  DEF CallNext, CallUnchanged, CallBegin, CallLock, HeartbeatGet,
      HeartbeatSet, CallReadState, CallCAS, CompleteSignal, CompleteClear,
      CompleteUncool, svVars
<1> QED
  BY <1>1, <1>2, <1>3, <1>4, <1>5, <1>6
  DEF Next, vars, SubmitTask, Stop, HeartbeatStales, CooldownExpires,
      CrashLeavesWindow, AssignBackoffExpires, svVars

\* A step that leaves registrations, ages and the sweep alone, and starts no
\* session for an aged agent, keeps what the reaper relies on.
LEMMA ReaperFrame ==
    ASSUME ReaperHolds, UNCHANGED <<aged, reap>>,
           \A a \in aged : reg'[a] = reg[a] /\ (a \in session' => a \in session)
    PROVE  ReaperHolds'
  BY DEF ReaperHolds, AgedAreSettled, SweepSeesSessions

\* The sweep keeps it: the listing of sessions comes first, and only agents
\* that were aged and without a session then are picked.
LEMMA ReaperSweeps ==
    ASSUME ControlTyped, PriorityTravels, ReaperHolds, ReapNext
    PROVE  ReaperHolds'
<1>1. UNCHANGED <<reg, aged>> /\ session' \subseteq session
  BY ReapData
<1>2. reap \in ReapRec /\ aged \subseteq Agents
  BY DEF ControlTyped, ControlTypeOK, ReapRec
<1>3. CASE reap'.pc = "idle"
  BY <1>1, <1>3 DEF ReaperHolds, AgedAreSettled, SweepSeesSessions
<1>4. ASSUME reap.pc # "idle", reap'.live = reap.live,
             reap'.pc = "remove" => reap'.agent \in aged \ reap.live
      PROVE  ReaperHolds'
  BY <1>1, <1>4 DEF ReaperHolds, AgedAreSettled, SweepSeesSessions
<1>5. CASE ReapSessions
  <2>1. CASE UNCHANGED reap
    BY <1>3, <1>5, <2>1 DEF ReapSessions
  <2>2. CASE reap' = [reap EXCEPT !.pc = "list", !.live = session]
    <3>1. reap'.pc = "list" /\ reap'.live = session
      BY <1>2, <2>2 DEF ReapRec
    <3> QED
      BY <1>1, <3>1 DEF ReaperHolds, AgedAreSettled, SweepSeesSessions
  <2> QED
    BY <1>5, <2>1, <2>2 DEF ReapSessions
<1>6. CASE ReapList
  <2>1. CASE reap' = reapIdle
    BY <1>3, <2>1 DEF reapIdle
  <2>2. CASE reap' = [reap EXCEPT !.pc = "sweep", !.list = agents]
    <3>1. reap'.pc = "sweep" /\ reap'.live = reap.live
      BY <1>2, <2>2 DEF ReapRec
    <3> QED
      BY <1>4, <1>6, <3>1 DEF ReapList
  <2> QED
    BY <1>6, <2>1, <2>2 DEF ReapList
<1>7. ASSUME NEW a \in Agents, ReapPick(a) PROVE ReaperHolds'
  <2>1. /\ reap.pc = "sweep"
        /\ \/ reap' = [reap EXCEPT !.list = @ \ {a}]
           \/ /\ Orphan(a)
              /\ reap' = [reap EXCEPT !.pc = "remove", !.agent = a,
                                      !.list = @ \ {a}]
    BY <1>7, Zenon DEF ReapPick
  <2>2. /\ reap'.live = reap.live
        /\ \/ reap'.pc = "sweep"
           \/ Orphan(a) /\ reap'.agent = a
    BY <1>2, <2>1 DEF ReapRec
  <2> QED
    BY <1>4, <2>1, <2>2 DEF Orphan
<1>8. CASE ReapEnd
  BY <1>3, <1>8 DEF ReapEnd, reapIdle
<1>9. CASE ReapRemove \/ ReapDestroy \/ ReapDelete
  <2>1. /\ reap.pc # "idle"
        /\ \E pc \in {"destroy", "delete", "sweep"} :
              reap' = [reap EXCEPT !.pc = pc]
    BY <1>9 DEF ReapRemove, ReapDestroy, ReapDelete
  <2>2. reap'.live = reap.live /\ reap'.pc # "remove"
    BY <1>2, <2>1 DEF ReapRec
  <2> QED
    BY <1>4, <2>1, <2>2
<1> QED
  BY <1>5, <1>6, <1>7, <1>8, <1>9 DEF ReapNext

\* The allowance for young agents is enough, for any number of agents and any
\* interleaving of registrations, sweeps and operators: whoever the reaper
\* deregisters has no session, and its RegisterAgent call is over.
THEOREM ReaperIsPatient == ControlSpec => []ReaperSparesTheLiving
<1>1. ControlInit => ReaperHolds
  BY DEF ControlInit, reapIdle, ReaperHolds, AgedAreSettled,
         SweepSeesSessions
<1>2. /\ ControlTyped /\ PriorityTravels /\ ReassignTravels
      /\ ReaperHolds /\ [ControlNext]_allVars
      => ReaperHolds'
  <2> SUFFICES ASSUME ControlTyped, PriorityTravels, ReassignTravels,
                      ReaperHolds, [ControlNext]_allVars
               PROVE  ReaperHolds'
    OBVIOUS
  <2>0. TypeOK /\ aged \subseteq Agents
    BY DEF ControlTyped, ControlTypeOK
  <2>1. CASE [Next]_vars /\ UNCHANGED ctlVars
    <3>1. \A a \in aged : reg'[a] = reg[a] /\ (a \in session' => a \in session)
      BY <2>0, <2>1, SettledStep DEF ReaperHolds, AgedAreSettled
    <3> QED
      BY <2>1, <3>1, ReaperFrame DEF ctlVars
  <2>2. ASSUME NEW o \in Operators, CtlStep(o) PROVE ReaperHolds'
    <3>1. UNCHANGED <<reg, reap, aged>> /\ session' \subseteq session
      BY <2>2, CtlData
    <3> QED
      BY <3>1, ReaperFrame
  <2>3. CASE ReapNext
    BY <2>3, ReaperSweeps
  <2>4. ASSUME NEW a \in Agents, SessionDies(a) PROVE ReaperHolds'
    <3>1. UNCHANGED <<reg, reap, aged>> /\ session' \subseteq session
      BY <2>4 DEF SessionDies, ReapUnchanged
    <3> QED
      BY <3>1, ReaperFrame
  <2>5. ASSUME NEW a \in Agents, Age(a) PROVE ReaperHolds'
    BY <2>5 DEF Age, ReaperHolds, AgedAreSettled, SweepSeesSessions
  <2>6. ASSUME NEW o \in Operators, NEW op \in CtlOps, NEW a \in Agents,
               CtlRead(o, op, a)
        PROVE  ReaperHolds'
    <3>1. UNCHANGED <<reg, reap, aged, session>>
      BY <2>6 DEF CtlRead, CtlUnchanged, svVars
    <3> QED
      BY <3>1, ReaperFrame
  <2>7. CASE UNCHANGED allVars
    BY <2>1, <2>7 DEF allVars
  <2> QED
    BY <2>1, <2>2, <2>3, <2>4, <2>5, <2>6, <2>7 DEF ControlNext
<1>3. ReaperHolds => ReaperSparesTheLiving
  BY DEF ReaperHolds, AgedAreSettled, SweepSeesSessions,
         ReaperSparesTheLiving
<1> QED
  BY <1>1, <1>2, <1>3, ControlInv, PTL DEF ControlSpec
=============================================================================
