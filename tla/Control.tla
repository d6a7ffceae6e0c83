------------------------------- MODULE Control -------------------------------
(***************************************************************************)
(* The supervisor together with the actors that change agent records       *)
(* without taking the per-agent mutex: the power controls of the HTTP      *)
(* bridge (handleCancelAgent, handleReassignAgent, handleDespawnAgent) and *)
(* the supervisor's own reaper of agents whose terminal session is gone.   *)
(*                                                                         *)
(* Steps are store calls, accesses of the supervisor's maps, and substrate *)
(* calls, as in module Supervisor, whose actions are taken over unchanged. *)
(***************************************************************************)
EXTENDS Supervisor

CONSTANTS
    Operators,      \* concurrent HTTP requests of the power controls
    CtlOps,         \* the controls the operators use
    MaxRequests,    \* bound: power-control requests in a behaviour
    HasReaper       \* reapInterval > 0

ASSUME ControlAssumption ==
    /\ CtlOps \subseteq {"Cancel", "Reassign", "Despawn"}
    /\ HasReaper \in BOOLEAN
    /\ MaxRequests \in Nat

VARIABLES
    ctl,            \* the locals of each power-control request
    requests,       \* requests made so far
    reap,           \* the locals of the reaper
    aged,           \* agents registered longer than reapInterval ago
    gone            \* agents that DeleteAgent has removed

ctlVars == <<ctl, requests, reap, aged, gone>>
allVars == <<vars, ctlVars>>

CtlPC  == {"idle", "enqueue", "clear", "settle", "reread", "complete",
           "remove", "destroy", "delete"}
ReapPC == {"idle", "list", "sweep", "remove", "destroy", "delete"}

ControlTypeOK ==
    /\ TypeOK
    /\ ctl \in [Operators -> [pc: CtlPC, op: {"Cancel", "Reassign", "Despawn"},
                              agent: AgentID, task: TaskID, prio: Score,
                              st: AgentState]]
    /\ requests \in 0 .. MaxRequests
    /\ reap \in [pc: ReapPC, live: SUBSET Agents, list: SUBSET Agents,
                 agent: AgentID]
    /\ aged \subseteq Agents
    /\ gone \subseteq Agents

ctlIdle  == [pc |-> "idle", op |-> "Cancel", agent |-> None, task |-> NoTask,
             prio |-> 0, st |-> StateIdle]
reapIdle == [pc |-> "idle", live |-> {}, list |-> {}, agent |-> None]

ControlInit ==
    /\ Init
    /\ ctl = [o \in Operators |-> ctlIdle]
    /\ requests = 0
    /\ reap = reapIdle
    /\ aged = {}
    /\ gone = {}

-----------------------------------------------------------------------------
(* Store and substrate calls only these actors make. *)

\* ClearCurrentTask: the task and its priority, whichever they are by now.
ClearCurrentTask(a) ==
    /\ a \in agents
    /\ curTask' = [curTask EXCEPT ![a] = NoTask]
    /\ curPrio' = [curPrio EXCEPT ![a] = 0]

\* DeleteAgent: the record is dropped (an absent record reads as a new one).
DeleteAgent(a) ==
    /\ agents' = agents \ {a}
    /\ agState' = [agState EXCEPT ![a] = StateIdle]
    /\ curTask' = [curTask EXCEPT ![a] = NoTask]
    /\ curPrio' = [curPrio EXCEPT ![a] = 0]
    /\ fresh' = [fresh EXCEPT ![a] = TRUE]
    /\ gone' = gone \cup {a}

\* RemoveAgent, first half: the maps, under sv.mu but not under the agent's
\* mutex, which a goroutine may be holding.
RemoveMaps(a) ==
    /\ agentMu' = agentMu \ {a}
    /\ agentCooldown' = [agentCooldown EXCEPT ![a] = "none"]
    /\ circuitOpen' = circuitOpen \ {a}

\* RemoveAgent, second half; a failure is logged.
DestroySession(a) ==
    \/ session' = session \ {a} /\ UNCHANGED faults
    \/ HasSubstrate /\ Fail /\ UNCHANGED session

-----------------------------------------------------------------------------
(* The power controls of the bridge. *)

CtlGoto(o, pc) == ctl' = [ctl EXCEPT ![o].pc = pc]
CtlReturn(o)   == ctl' = [ctl EXCEPT ![o] = ctlIdle]
CtlUnchanged   == UNCHANGED <<reg, asg, mon, call, stopping, submitted, reap,
                              aged>>

\* The fields are read once; everything after works from that copy.  Cancel
\* and reassign need a current task, despawn does not.
CtlRead(o, op, a) ==
    /\ ctl[o].pc = "idle" /\ op \in CtlOps
    /\ requests < MaxRequests
    /\ requests' = requests + 1
    /\ a \in agents
    /\ op = "Despawn" \/ curTask[a] # NoTask
    /\ ctl' = [ctl EXCEPT ![o] =
                 [pc |-> CASE op = "Reassign"      -> "enqueue"
                           [] curTask[a] = NoTask  -> "remove"
                           [] OTHER                -> "clear",
                  op |-> op, agent |-> a, task |-> curTask[a],
                  prio |-> curPrio[a], st |-> agState[a]]]
    /\ UNCHANGED <<storeVars, queue, svVars, faults, done, gone>>
    /\ CtlUnchanged

\* Mutant: the priority is not the one read with the task.
CtlEnqueueZero(o) ==
    /\ ctl[o].pc = "enqueue"
    /\ EnqueueTask(ctl[o].task, 0) /\ UNCHANGED faults /\ CtlGoto(o, "clear")
    /\ UNCHANGED <<storeVars, svVars, done, gone>>
    /\ CtlUnchanged /\ UNCHANGED requests

\* Reassign puts the task back before it detaches it.
CtlEnqueue(o) ==
    /\ ctl[o].pc = "enqueue"
    /\ \/ /\ EnqueueTask(ctl[o].task, ctl[o].prio)
          /\ CtlGoto(o, "clear")
          /\ UNCHANGED faults
       \/ Fail /\ CtlReturn(o) /\ UNCHANGED queue
    /\ UNCHANGED <<storeVars, svVars, done, gone>>
    /\ CtlUnchanged /\ UNCHANGED requests

\* Cancel goes on to the completion signal; reassign has nothing left to do.
CtlSettled(o) == IF ctl[o].op = "Cancel" THEN CtlGoto(o, "complete")
                                         ELSE CtlReturn(o)

\* ClearCurrentTask: whatever task the record names now.  Despawn logs an
\* error and goes on, the others answer with it.
CtlClear(o) ==
    /\ ctl[o].pc = "clear"
    /\ \/ /\ ClearCurrentTask(ctl[o].agent)
          /\ UNCHANGED faults
          /\ \/ ctl[o].op = "Despawn" /\ CtlGoto(o, "complete")
             \/ /\ ctl[o].op # "Despawn" /\ ctl[o].st # StateIdle
                /\ CtlGoto(o, "settle")
             \/ /\ ctl[o].op # "Despawn" /\ ctl[o].st = StateIdle
                /\ CtlSettled(o)
       \/ /\ \/ ctl[o].agent \notin agents /\ UNCHANGED faults
             \/ Fail
          /\ UNCHANGED <<curTask, curPrio>>
          /\ IF ctl[o].op = "Despawn" THEN CtlGoto(o, "complete")
                                      ELSE CtlReturn(o)
    /\ UNCHANGED <<agents, agState, fresh, queue, svVars, done, gone>>
    /\ CtlUnchanged /\ UNCHANGED requests

\* settleToIdle: a bare compare-and-set from the state read at the start.
CtlSettle(o) ==
    /\ ctl[o].pc = "settle"
    /\ LET a == ctl[o].agent
       IN \/ /\ a \in agents /\ agState[a] = ctl[o].st
             /\ agState' = [agState EXCEPT ![a] = StateIdle]
             /\ CtlSettled(o)
             /\ UNCHANGED faults
          \/ /\ a \in agents /\ agState[a] # ctl[o].st
             /\ CtlGoto(o, "reread")
             /\ UNCHANGED <<agState, faults>>
          \/ /\ \/ a \notin agents /\ UNCHANGED faults
                \/ Fail
             /\ CtlReturn(o)
             /\ UNCHANGED agState
    /\ UNCHANGED <<agents, curTask, curPrio, fresh, queue, svVars, done, gone>>
    /\ CtlUnchanged /\ UNCHANGED requests

\* The lost race is forgiven if the agent is idle by now.
CtlReread(o) ==
    /\ ctl[o].pc = "reread"
    /\ LET idle == ctl[o].agent \in agents /\ agState[ctl[o].agent] = StateIdle
       IN \/ idle /\ CtlSettled(o) /\ UNCHANGED faults
          \/ /\ \/ ~idle /\ UNCHANGED faults
                \/ Fail
             /\ CtlReturn(o)
    /\ UNCHANGED <<storeVars, queue, svVars, done, gone>>
    /\ CtlUnchanged /\ UNCHANGED requests

\* completionRegistry.Complete(taskID).
CtlComplete(o) ==
    /\ ctl[o].pc = "complete"
    /\ done' = done \cup {ctl[o].task}
    /\ IF ctl[o].op = "Despawn" THEN CtlGoto(o, "remove") ELSE CtlReturn(o)
    /\ UNCHANGED <<storeVars, queue, svVars, faults, gone>>
    /\ CtlUnchanged /\ UNCHANGED requests

CtlRemove(o) ==
    /\ ctl[o].pc = "remove"
    /\ RemoveMaps(ctl[o].agent)
    /\ CtlGoto(o, "destroy")
    /\ UNCHANGED <<storeVars, queue, owner, crashes, stopped, backingOff,
                   session, faults, done, gone>>
    /\ CtlUnchanged /\ UNCHANGED requests

CtlDestroy(o) ==
    /\ ctl[o].pc = "destroy"
    /\ DestroySession(ctl[o].agent)
    /\ CtlGoto(o, "delete")
    /\ UNCHANGED <<storeVars, queue, agentMu, owner, benchVars, stopped,
                   backingOff, done, gone>>
    /\ CtlUnchanged /\ UNCHANGED requests

CtlDelete(o) ==
    /\ ctl[o].pc = "delete"
    /\ CtlReturn(o)
    /\ \/ DeleteAgent(ctl[o].agent) /\ UNCHANGED faults
       \/ Fail /\ UNCHANGED <<storeVars, gone>>
    /\ UNCHANGED <<queue, svVars, done>>
    /\ CtlUnchanged /\ UNCHANGED requests

CtlStep(o) ==
    \/ CtlEnqueue(o) \/ CtlClear(o) \/ CtlSettle(o) \/ CtlReread(o)
    \/ CtlComplete(o) \/ CtlRemove(o) \/ CtlDestroy(o) \/ CtlDelete(o)

-----------------------------------------------------------------------------
(* The reaper. *)

ReapUnchanged ==
    UNCHANGED <<reg, asg, mon, call, stopping, submitted, done, ctl,
                requests, aged>>

\* The CLI in an agent's pane exits and tmux closes the session.
SessionDies(a) ==
    /\ a \in session
    /\ session' = session \ {a}
    /\ UNCHANGED <<storeVars, queue, agentMu, owner, benchVars, stopped,
                   backingOff, faults, gone, reap>>
    /\ ReapUnchanged

\* reapInterval has passed since a registered.  RegisterAgent spawns the
\* session, and the reaper finishes a sweep, in less than that.
Age(a) ==
    /\ a \in agents \ aged
    /\ reg[a] \in {"done", "refused"} /\ reap.pc = "idle"
    /\ aged' = aged \cup {a}
    /\ UNCHANGED <<storeVars, queue, svVars, reg, asg, mon, call, stopping,
                   faults, clientVars, ctl, requests, reap, gone>>

\* One session listing per sweep; an error aborts the sweep.
ReapSessions ==
    /\ HasReaper /\ HasSubstrate
    /\ reap.pc = "idle"
    /\ \/ /\ reap' = [reap EXCEPT !.pc = "list", !.live = session]
          /\ UNCHANGED faults
       \/ Fail /\ UNCHANGED reap
    /\ UNCHANGED <<storeVars, queue, svVars, gone>>
    /\ ReapUnchanged

ReapList ==
    /\ reap.pc = "list"
    /\ \/ /\ reap' = [reap EXCEPT !.pc = "sweep", !.list = agents]
          /\ UNCHANGED faults
       \/ Fail /\ reap' = reapIdle
    /\ UNCHANGED <<storeVars, queue, svVars, gone>>
    /\ ReapUnchanged

\* Mutant: no allowance for an agent that is still starting up.
OrphanAnyAge(a) == a \notin reap.live /\ a \in agents

\* agentIsTooYoungToReap answers "too young" for a record it cannot read.
Orphan(a) == a \notin reap.live /\ a \in agents /\ a \in aged

ReapPick(a) ==
    /\ reap.pc = "sweep" /\ a \in reap.list
    /\ \/ /\ Orphan(a)
          /\ reap' = [reap EXCEPT !.pc = "remove", !.agent = a,
                                  !.list = @ \ {a}]
          /\ UNCHANGED faults
       \/ /\ \/ ~Orphan(a) /\ UNCHANGED faults
             \/ Fail
          /\ reap' = [reap EXCEPT !.list = @ \ {a}]
    /\ UNCHANGED <<storeVars, queue, svVars, gone>>
    /\ ReapUnchanged

ReapEnd ==
    /\ reap.pc = "sweep" /\ reap.list = {}
    /\ reap' = reapIdle
    /\ UNCHANGED <<storeVars, queue, svVars, faults, gone>>
    /\ ReapUnchanged

ReapRemove ==
    /\ reap.pc = "remove"
    /\ RemoveMaps(reap.agent)
    /\ reap' = [reap EXCEPT !.pc = "destroy"]
    /\ UNCHANGED <<storeVars, queue, owner, crashes, stopped, backingOff,
                   session, faults, gone>>
    /\ ReapUnchanged

ReapDestroy ==
    /\ reap.pc = "destroy"
    /\ DestroySession(reap.agent)
    /\ reap' = [reap EXCEPT !.pc = "delete"]
    /\ UNCHANGED <<storeVars, queue, agentMu, owner, benchVars, stopped,
                   backingOff, gone>>
    /\ ReapUnchanged

ReapDelete ==
    /\ reap.pc = "delete"
    /\ reap' = [reap EXCEPT !.pc = "sweep"]
    /\ \/ DeleteAgent(reap.agent) /\ UNCHANGED faults
       \/ Fail /\ UNCHANGED <<storeVars, gone>>
    /\ UNCHANGED <<queue, svVars>>
    /\ ReapUnchanged

ReapNext ==
    \/ ReapSessions \/ ReapList \/ ReapEnd \/ ReapRemove \/ ReapDestroy
    \/ ReapDelete
    \/ \E a \in Agents : ReapPick(a)

-----------------------------------------------------------------------------
ControlNext ==
    \/ Next /\ UNCHANGED ctlVars
    \/ \E o \in Operators :
          \/ \E op \in CtlOps, a \in Agents : CtlRead(o, op, a)
          \/ CtlStep(o)
    \/ ReapNext
    \/ \E a \in Agents : SessionDies(a) \/ Age(a)

ControlSpec == ControlInit /\ [][ControlNext]_allVars

-----------------------------------------------------------------------------
(* Properties *)

\* The reaper's allowance for young agents is enough: it never deregisters an
\* agent that has a session, or whose RegisterAgent call is still under way,
\* although it lists sessions and agents at different times.
ReaperSparesTheLiving ==
    reap.pc = "remove" =>
        reap.agent \notin session /\ reg[reap.agent] \in {"done", "refused"}

\* What handleReassignAgent says of its race with the supervisor: "a
\* duplicate-delivery risk, not a loss risk".
ReassignNeverLoses == NoTaskLost

\* The loops and requests are scheduled until they are done.
ControlFairness ==
    /\ Fairness
    /\ \A o \in Operators : WF_allVars(CtlStep(o))

\* The loops' fairness is that of module Supervisor, over all variables.
ControlFairSpec == ControlSpec /\ ControlFairness

\* "These mirror races the supervisor already tolerates and self-heals via
\* heartbeat" (handleCancelAgent): whatever cancel leaves behind, a busy agent
\* that stays silent gets back to idle, unless it is removed.
RaceSelfHeals ==
    \A a \in Agents :
        agState[a] # StateIdle /\ ~fresh[a] ~>
            agState[a] = StateIdle \/ fresh[a] \/ a \in gone
=============================================================================
