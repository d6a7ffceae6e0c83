----------------------------- MODULE Supervisor -----------------------------
(***************************************************************************)
(* The supervisor of internal/supervisor: agent registration, the          *)
(* heartbeat monitor with its crash recovery, the task-assignment loop and *)
(* the worker-facing calls (Heartbeat, StartWork, ReportOutput,            *)
(* CompleteAgent), over the agent records and the priority queue of        *)
(* internal/state.                                                         *)
(*                                                                         *)
(* One step is one store call, one access of the maps that sv.mu guards,   *)
(* or one acquisition of a per-agent mutex.  Everything between two such   *)
(* accesses is local to a goroutine and is folded into one of them; a      *)
(* release is folded into the last access made under the lock.             *)
(*                                                                         *)
(* Time is abstracted to what the code tells apart: a heartbeat is fresh   *)
(* or stale, a cooldown is the 24h sentinel, running or over, and the      *)
(* crash window holds a number of crashes.  Any store call may fail, at    *)
(* most MaxFaults times in a behaviour; a failed call has no effect.       *)
(* PublishEvent only appends to the event stream, which nothing here       *)
(* reads, and is left out.                                                 *)
(***************************************************************************)
EXTENDS Integers, AgentMachine

CONSTANTS
    Agents,         \* agent IDs RegisterAgent may generate (fresh UUIDs)
    Tasks,          \* task IDs clients may submit, each of them once
    Prios,          \* queue scores; the lowest is dequeued first
    Prio,           \* the score each task is submitted with
    Callers,        \* concurrent RPC handler goroutines
    Assigner,       \* the taskAssignLoop goroutine
    Monitor,        \* the heartbeatLoop goroutine
    NoTask,         \* the empty CurrentTaskID
    None,           \* nobody holds the mutex / no agent
    CrashThreshold, \* RestartPolicy.crashThreshold
    HasBackoff,     \* RestartPolicy.baseBackoff > 0
    HasSubstrate,   \* a terminal substrate is wired in (WithSubstrate)
    MayStop,        \* bound: whether Stop is ever called
    MaxFaults       \* bound: store and substrate calls that may fail

\* Where a submitted task can be, besides with an agent.
PlaceTag == {"queue", "assigner", "done"}

ASSUME ConstantsAssumption ==
    /\ Prios \subseteq Int
    /\ Prio \in [Tasks -> Prios]
    /\ NoTask \notin Tasks
    /\ ({None} \cup PlaceTag) \cap Agents = {}
    /\ {Assigner, Monitor} \cap Callers = {}
    /\ Assigner # Monitor
    /\ None \notin Callers \cup {Assigner, Monitor}
    /\ CrashThreshold \in Nat
    /\ {HasBackoff, HasSubstrate, MayStop} \subseteq BOOLEAN
    /\ MaxFaults \in Nat

VARIABLES
    \* the state store: agent records and the task queue
    agents,         \* IDs the store has a record of
    agState,        \* AgentFields.State
    curTask,        \* AgentFields.CurrentTaskID
    curPrio,        \* AgentFields.CurrentTaskPriority
    fresh,          \* LastHeartbeat is within staleThreshold of now
    queue,          \* how often each (task, priority) entry is in the queue
    \* the supervisor's own maps and flags
    agentMu,        \* keys of sv.agentMu
    owner,          \* holder of each per-agent mutex
    agentCooldown,  \* state of each sv.agentCooldown entry
    circuitOpen,    \* keys of sv.circuitOpen
    crashes,        \* crashes of each agent inside the crash window
    stopped,        \* sv.stopped
    backingOff,     \* now is before sv.nextAssignAttempt
    session,        \* agents that have a tmux session
    \* the goroutines: where each one is, and its local variables
    reg, asg, mon, call, stopping,
    \* faults left, tasks submitted, tasks signalled to the registry
    faults, submitted, done

storeVars  == <<agents, agState, curTask, curPrio, fresh>>
benchVars  == <<agentCooldown, circuitOpen, crashes>>
svVars     == <<agentMu, owner, agentCooldown, circuitOpen, crashes, stopped,
                backingOff, session>>
clientVars == <<submitted, done>>
vars == <<agents, agState, curTask, curPrio, fresh, queue, agentMu, owner,
          agentCooldown, circuitOpen, crashes, stopped, backingOff, session,
          reg, asg, mon, call, stopping, faults, submitted, done>>

-----------------------------------------------------------------------------
(* Types *)

Procs    == Callers \cup {Assigner, Monitor}
TaskID   == Tasks \cup {NoTask}
Score    == Prios \cup {0}
AgentID  == Agents \cup {None}
Cooldown == {"none", "running", "sentinel"}

RegPC  == {"new", "stored", "mutexed", "done", "refused"}
AsgPC  == {"idle", "list", "snapshot", "scan", "recheck", "mutex", "lock",
           "read", "cas", "get", "set", "requeue", "requeueLocked"}
MonPC  == {"idle", "scan", "mutex", "lock", "preread", "sentinel", "read",
           "cas", "defer", "requeue", "policy", "destroy"}
CallPC == {"idle", "lock", "get", "set", "read", "cas", "signal", "clear",
           "uncool"}
Op     == {"Heartbeat", "StartWork", "ReportOutput", "CompleteAgent"}

\* The locals of tryAssignTask, of crashAgent and of an RPC handler.
AsgRec  == [pc: AsgPC, task: TaskID, prio: Score, agent: AgentID,
            st: AgentState, list: SUBSET Agents, benched: SUBSET Agents,
            failed: BOOLEAN]
MonRec  == [pc: MonPC, list: SUBSET Agents, agent: AgentID, task: TaskID,
            prio: Score, st: AgentState]
CallRec == [pc: CallPC, op: Op, agent: AgentID, locked: BOOLEAN,
            task: TaskID, prio: Score, st: AgentState]

TypeOK ==
    /\ agents \subseteq Agents
    /\ agState \in [Agents -> AgentState]
    /\ curTask \in [Agents -> TaskID]
    /\ curPrio \in [Agents -> Score]
    /\ fresh \in [Agents -> BOOLEAN]
    /\ queue \in [Tasks \X Score -> Nat]
    /\ agentMu \subseteq Agents
    /\ owner \in [Agents -> Procs \cup {None}]
    /\ agentCooldown \in [Agents -> Cooldown]
    /\ circuitOpen \subseteq Agents
    /\ crashes \in [Agents -> Nat]
    /\ stopped \in BOOLEAN
    /\ backingOff \in BOOLEAN
    /\ session \subseteq Agents
    /\ reg \in [Agents -> RegPC]
    /\ asg \in AsgRec
    /\ mon \in MonRec
    /\ call \in [Callers -> CallRec]
    /\ stopping \subseteq Agents
    /\ faults \in 0 .. MaxFaults
    /\ submitted \subseteq Tasks
    /\ done \subseteq Tasks

-----------------------------------------------------------------------------
(* The initial state: an empty store and every loop at its ticker. *)

asgIdle  == [pc |-> "idle", task |-> NoTask, prio |-> 0, agent |-> None,
             st |-> StateIdle, list |-> {}, benched |-> {}, failed |-> FALSE]
monIdle  == [pc |-> "idle", list |-> {}, agent |-> None, task |-> NoTask,
             prio |-> 0, st |-> StateIdle]
callIdle == [pc |-> "idle", op |-> "Heartbeat", agent |-> None,
             locked |-> FALSE, task |-> NoTask, prio |-> 0, st |-> StateIdle]

Init ==
    /\ agents = {}
    /\ agState = [a \in Agents |-> StateIdle]
    /\ curTask = [a \in Agents |-> NoTask]
    /\ curPrio = [a \in Agents |-> 0]
    /\ fresh = [a \in Agents |-> TRUE]
    /\ queue = [e \in Tasks \X Score |-> 0]
    /\ agentMu = {}
    /\ owner = [a \in Agents |-> None]
    /\ agentCooldown = [a \in Agents |-> "none"]
    /\ circuitOpen = {}
    /\ crashes = [a \in Agents |-> 0]
    /\ stopped = FALSE
    /\ backingOff = FALSE
    /\ session = {}
    /\ reg = [a \in Agents |-> "new"]
    /\ asg = asgIdle
    /\ mon = monIdle
    /\ call = [c \in Callers |-> callIdle]
    /\ stopping = {}
    /\ faults = MaxFaults
    /\ submitted = {}
    /\ done = {}

-----------------------------------------------------------------------------
(* Store calls and locks, as pieces of the actions below. *)

\* A store or substrate call returns an error and changes nothing.
Fail == faults > 0 /\ faults' = faults - 1

\* EnqueueTask: the in-memory queue keeps every entry, duplicates included.
EnqueueTask(t, p) == queue' = [queue EXCEPT ![<<t, p>>] = @ + 1]

\* EnqueueTask of a task taken off the queue earlier; on an error the code
\* logs the task as lost and goes on.
Requeue(t, p) ==
    \/ EnqueueTask(t, p) /\ UNCHANGED faults
    \/ Fail /\ UNCHANGED queue

\* Mutant: no check for an empty queue.
FrontUnchecked == { e \in Tasks \X Score :
                      \A f \in Tasks \X Score : queue[f] > 0 => e[2] <= f[2] }

\* The entries DequeueTask may pop: the lowest score, ties in any order
\* (sort.Slice is not stable).
Front == { e \in Tasks \X Score :
             /\ queue[e] > 0
             /\ \A f \in Tasks \X Score : queue[f] > 0 => e[2] <= f[2] }

\* Mutant: the mutex does not exclude.
LockAnyway(a, p) == owner' = [owner EXCEPT ![a] = p]

Lock(a, p) == owner[a] = None /\ owner' = [owner EXCEPT ![a] = p]

Unlock(a) == owner' = [owner EXCEPT ![a] = None]

\* CompareAndSetAgentState applied by ApplyEvent to a state read earlier.
CASAgentState(a, expected, event) ==
    /\ a \in agents
    /\ agState[a] = expected
    /\ \E next \in ValidTransition(expected, event) :
          agState' = [agState EXCEPT ![a] = next]

-----------------------------------------------------------------------------
(* Clients and the passage of time. *)

\* SubmitTask: queue writes bypass the supervisor.
SubmitTask(t) ==
    /\ t \notin submitted
    /\ submitted' = submitted \cup {t}
    /\ EnqueueTask(t, Prio[t])
    /\ UNCHANGED <<storeVars, svVars, reg, asg, mon, call, stopping, faults,
                   done>>

HeartbeatStales(a) ==
    /\ a \in agents /\ fresh[a]
    /\ fresh' = [fresh EXCEPT ![a] = FALSE]
    /\ UNCHANGED <<agents, agState, curTask, curPrio, queue, svVars, reg, asg,
                   mon, call, stopping, faults, clientVars>>

\* The sentinel is set 24 hours ahead and never runs out.
CooldownExpires(a) ==
    /\ agentCooldown[a] = "running"
    /\ agentCooldown' = [agentCooldown EXCEPT ![a] = "none"]
    /\ UNCHANGED <<storeVars, queue, agentMu, owner, circuitOpen, crashes,
                   stopped, backingOff, session, reg, asg, mon, call,
                   stopping, faults, clientVars>>

CrashLeavesWindow(a) ==
    /\ crashes[a] > 0
    /\ crashes' = [crashes EXCEPT ![a] = @ - 1]
    /\ UNCHANGED <<storeVars, queue, agentMu, owner, agentCooldown,
                   circuitOpen, stopped, backingOff, session, reg, asg, mon,
                   call, stopping, faults, clientVars>>

AssignBackoffExpires ==
    /\ backingOff
    /\ backingOff' = FALSE
    /\ UNCHANGED <<storeVars, queue, agentMu, owner, benchVars, stopped,
                   session, reg, asg, mon, call, stopping, faults, clientVars>>

-----------------------------------------------------------------------------
(* RegisterAgent and Stop. *)

\* First check of sv.stopped, then the idle record is written.
RegisterStore(a) ==
    /\ reg[a] = "new"
    /\ ~stopped
    /\ agents' = agents \cup {a}
    /\ agState' = [agState EXCEPT ![a] = StateIdle]
    /\ curTask' = [curTask EXCEPT ![a] = NoTask]
    /\ curPrio' = [curPrio EXCEPT ![a] = 0]
    /\ fresh' = [fresh EXCEPT ![a] = TRUE]
    /\ reg' = [reg EXCEPT ![a] = "stored"]
    /\ UNCHANGED <<queue, svVars, asg, mon, call, stopping, faults,
                   clientVars>>

\* Second check of sv.stopped under sv.mu; a stop in between leaves the
\* record in the store and no mutex.
RegisterMutex(a) ==
    /\ reg[a] = "stored"
    /\ IF stopped
       THEN /\ reg' = [reg EXCEPT ![a] = "refused"]
            /\ UNCHANGED agentMu
       ELSE /\ reg' = [reg EXCEPT ![a] = "mutexed"]
            /\ agentMu' = agentMu \cup {a}
    /\ UNCHANGED <<storeVars, queue, owner, benchVars, stopped, backingOff,
                   session, asg, mon, call, stopping, faults, clientVars>>

\* SpawnSession; its failure is logged and the agent continues.
RegisterSession(a) ==
    /\ reg[a] = "mutexed"
    /\ reg' = [reg EXCEPT ![a] = "done"]
    /\ \/ /\ session' = IF HasSubstrate THEN session \cup {a} ELSE session
          /\ UNCHANGED faults
       \/ HasSubstrate /\ Fail /\ UNCHANGED session
    /\ UNCHANGED <<storeVars, queue, agentMu, owner, benchVars, stopped,
                   backingOff, asg, mon, call, stopping, clientVars>>

\* Stop marks the supervisor stopped and collects the known agents ...
Stop ==
    /\ MayStop /\ ~stopped
    /\ stopped' = TRUE
    /\ stopping' = agentMu
    /\ UNCHANGED <<storeVars, queue, agentMu, owner, benchVars, backingOff,
                   session, reg, asg, mon, call, faults, clientVars>>

\* ... then destroys their sessions one by one, outside sv.mu.
StopDestroy(a) ==
    /\ a \in stopping
    /\ stopping' = stopping \ {a}
    /\ \/ session' = session \ {a} /\ UNCHANGED faults
       \/ HasSubstrate /\ Fail /\ UNCHANGED session
    /\ UNCHANGED <<storeVars, queue, agentMu, owner, benchVars, stopped,
                   backingOff, reg, asg, mon, call, clientVars>>

-----------------------------------------------------------------------------
(* The heartbeat monitor: checkHeartbeats and crashAgent. *)

MonUnchanged == UNCHANGED <<reg, asg, call, stopping, clientVars>>

\* crashAgent returns: its locals are gone, the sweep goes on.
MonReturn == mon' = [monIdle EXCEPT !.pc = "scan", !.list = mon.list]

MonList ==
    /\ mon.pc = "idle"
    /\ \/ /\ mon' = [mon EXCEPT !.pc = "scan", !.list = agents]
          /\ UNCHANGED faults
       \/ Fail /\ UNCHANGED mon
    /\ UNCHANGED <<storeVars, queue, svVars>>
    /\ MonUnchanged

MonEnd ==
    /\ mon.pc = "scan" /\ mon.list = {}
    /\ mon' = monIdle
    /\ UNCHANGED <<storeVars, queue, svVars, faults>>
    /\ MonUnchanged

\* Mutant: only working agents are watched.
SilentWorking(a) == a \in agents /\ agState[a] = StateWorking /\ ~fresh[a]

\* Only a busy agent with a stale heartbeat is crashed.
Silent(a) == a \in agents /\ agState[a] # StateIdle /\ ~fresh[a]

\* The decision to crash an agent is taken on fields read without its mutex.
MonRead(a) ==
    /\ mon.pc = "scan" /\ a \in mon.list
    /\ \/ /\ Silent(a)
          /\ mon' = [mon EXCEPT !.pc = "mutex", !.agent = a,
                                !.list = @ \ {a}]
          /\ UNCHANGED faults
       \/ /\ \/ ~Silent(a) /\ UNCHANGED faults
             \/ Fail
          /\ mon' = [mon EXCEPT !.list = @ \ {a}]
    /\ UNCHANGED <<storeVars, queue, svVars>>
    /\ MonUnchanged

\* getAgentMutex: an agent without a mutex entry cannot be crashed.
MonMutex ==
    /\ mon.pc = "mutex"
    /\ IF mon.agent \in agentMu THEN mon' = [mon EXCEPT !.pc = "lock"]
                                ELSE MonReturn
    /\ UNCHANGED <<storeVars, queue, svVars, faults>>
    /\ MonUnchanged

MonLock ==
    /\ mon.pc = "lock"
    /\ Lock(mon.agent, Monitor)
    /\ mon' = [mon EXCEPT !.pc = "preread"]
    /\ UNCHANGED <<storeVars, queue, agentMu, benchVars, stopped, backingOff,
                   session, faults>>
    /\ MonUnchanged

\* Pre-read of the task binding; an error defers the crash to the next tick.
MonPreRead ==
    /\ mon.pc = "preread"
    /\ \/ /\ mon.agent \in agents
          /\ mon' = [mon EXCEPT !.pc = "sentinel",
                                !.task = curTask[mon.agent],
                                !.prio = curPrio[mon.agent]]
          /\ UNCHANGED <<owner, faults>>
       \/ /\ \/ mon.agent \notin agents /\ UNCHANGED faults
             \/ Fail
          /\ MonReturn
          /\ Unlock(mon.agent)
    /\ UNCHANGED <<storeVars, queue, agentMu, benchVars, stopped, backingOff,
                   session>>
    /\ MonUnchanged

MonSentinel ==
    /\ mon.pc = "sentinel"
    /\ agentCooldown' = [agentCooldown EXCEPT ![mon.agent] = "sentinel"]
    /\ mon' = [mon EXCEPT !.pc = "read"]
    /\ UNCHANGED <<storeVars, queue, agentMu, owner, circuitOpen, crashes,
                   stopped, backingOff, session, faults>>
    /\ MonUnchanged

\* ApplyEvent(agent_failed), first half: GetAgentState.
MonReadState ==
    /\ mon.pc = "read"
    /\ \/ /\ mon.agent \in agents
          /\ mon' = [mon EXCEPT !.pc = "cas", !.st = agState[mon.agent]]
          /\ UNCHANGED faults
       \/ /\ \/ mon.agent \notin agents /\ UNCHANGED faults
             \/ Fail
          /\ mon' = [mon EXCEPT !.pc = "defer"]
    /\ UNCHANGED <<storeVars, queue, svVars>>
    /\ MonUnchanged

\* Second half: the compare-and-set.  A transition from idle is a spurious
\* crash and takes the same way out as an error.
MonCAS ==
    /\ mon.pc = "cas"
    /\ \/ /\ CASAgentState(mon.agent, mon.st, EventAgentFailed)
          /\ mon' = [mon EXCEPT !.pc = IF mon.st = StateIdle THEN "defer"
                                                            ELSE "requeue"]
          /\ UNCHANGED faults
       \/ /\ \/ /\ mon.agent \notin agents \/ agState[mon.agent] # mon.st
                /\ UNCHANGED faults
             \/ Fail
          /\ mon' = [mon EXCEPT !.pc = "defer"]
          /\ UNCHANGED agState
    /\ UNCHANGED <<agents, curTask, curPrio, fresh, queue, svVars>>
    /\ MonUnchanged

\* Mutant: a deferred crash leaves the sentinel behind.
MonDeferBenched ==
    /\ mon.pc = "defer"
    /\ Unlock(mon.agent)
    /\ MonReturn
    /\ UNCHANGED <<storeVars, queue, agentMu, benchVars, stopped, backingOff,
                   session, faults>>
    /\ MonUnchanged

MonDefer ==
    /\ mon.pc = "defer"
    /\ agentCooldown' = [agentCooldown EXCEPT ![mon.agent] = "none"]
    /\ Unlock(mon.agent)
    /\ MonReturn
    /\ UNCHANGED <<storeVars, queue, agentMu, circuitOpen, crashes, stopped,
                   backingOff, session, faults>>
    /\ MonUnchanged

\* Re-enqueue of the pre-read task; a failure is logged as "task lost".
MonRequeue ==
    /\ mon.pc = "requeue"
    /\ mon' = [mon EXCEPT !.pc = "policy"]
    /\ \/ mon.task # NoTask /\ Requeue(mon.task, mon.prio)
       \/ mon.task = NoTask /\ UNCHANGED <<queue, faults>>
    /\ UNCHANGED <<storeVars, svVars>>
    /\ MonUnchanged

\* Mutant: off by one.
OpensLate(a) == crashes[a] > CrashThreshold

\* RecordCrash counts this crash first: more than CrashThreshold crashes in
\* the window open the circuit.
Opens(a) == crashes[a] + 1 > CrashThreshold

\* RecordCrash and its decision: an open circuit, or a cooldown.
MonPolicy ==
    /\ mon.pc = "policy"
    /\ LET a == mon.agent
           open == Opens(a)
       IN /\ crashes' = [crashes EXCEPT ![a] = @ + 1]
          /\ circuitOpen' = IF open THEN circuitOpen \cup {a}
                                    ELSE circuitOpen
          /\ agentCooldown' =
                [agentCooldown EXCEPT ![a] = IF ~open /\ HasBackoff
                                             THEN "running" ELSE "none"]
    /\ mon' = [mon EXCEPT !.pc = "destroy"]
    /\ UNCHANGED <<storeVars, queue, agentMu, owner, stopped, backingOff,
                   session, faults>>
    /\ MonUnchanged

MonDestroy ==
    /\ mon.pc = "destroy"
    /\ \/ session' = session \ {mon.agent} /\ UNCHANGED faults
       \/ HasSubstrate /\ Fail /\ UNCHANGED session
    /\ Unlock(mon.agent)
    /\ MonReturn
    /\ UNCHANGED <<storeVars, queue, agentMu, benchVars, stopped, backingOff>>
    /\ MonUnchanged

MonNext ==
    \/ MonList \/ MonEnd \/ MonMutex \/ MonLock \/ MonPreRead \/ MonSentinel
    \/ MonReadState \/ MonCAS \/ MonDefer \/ MonRequeue \/ MonPolicy
    \/ MonDestroy
    \/ \E a \in Agents : MonRead(a)

-----------------------------------------------------------------------------
(* The task-assignment loop: tryAssignTask and findIdleAgent. *)

AsgUnchanged == UNCHANGED <<reg, mon, call, stopping, clientVars>>

\* A tick that is not backing off pops one task.
AsgDequeue ==
    /\ asg.pc = "idle" /\ ~backingOff
    /\ \/ \E e \in Front :
             /\ queue' = [queue EXCEPT ![e] = @ - 1]
             /\ asg' = [asg EXCEPT !.pc = "list", !.task = e[1], !.prio = e[2]]
             /\ UNCHANGED <<backingOff, faults>>
       \/ /\ Fail
          /\ backingOff' = TRUE
          /\ UNCHANGED <<queue, asg>>
    /\ UNCHANGED <<storeVars, agentMu, owner, benchVars, stopped, session>>
    /\ AsgUnchanged

\* findIdleAgent: ListAgents; an error counts as "no idle agent".
AsgList ==
    /\ asg.pc = "list"
    /\ \/ /\ asg' = [asg EXCEPT !.pc = "snapshot", !.list = agents]
          /\ UNCHANGED faults
       \/ Fail /\ asg' = [asg EXCEPT !.pc = "requeue"]
    /\ UNCHANGED <<storeVars, queue, svVars>>
    /\ AsgUnchanged

\* Copies of the cooldown and circuit maps, taken under sv.mu.
AsgSnapshot ==
    /\ asg.pc = "snapshot"
    /\ asg' = [asg EXCEPT !.pc = "scan",
                 !.benched = circuitOpen \cup
                             {a \in Agents : agentCooldown[a] # "none"}]
    /\ UNCHANGED <<storeVars, queue, svVars, faults>>
    /\ AsgUnchanged

AsgScan(a) ==
    /\ asg.pc = "scan" /\ a \in asg.list
    /\ \/ /\ a \in agents /\ agState[a] = StateIdle /\ a \notin asg.benched
          /\ asg' = [asg EXCEPT !.pc = "recheck", !.agent = a,
                                !.list = @ \ {a}]
          /\ UNCHANGED faults
       \/ /\ a \notin agents \/ agState[a] # StateIdle \/ a \in asg.benched
          /\ asg' = [asg EXCEPT !.list = @ \ {a}]
          /\ UNCHANGED faults
       \/ Fail /\ asg' = [asg EXCEPT !.list = @ \ {a}]
    /\ UNCHANGED <<storeVars, queue, svVars>>
    /\ AsgUnchanged

AsgScanEnd ==
    /\ asg.pc = "scan" /\ asg.list = {}
    /\ asg' = [asg EXCEPT !.pc = "requeue"]
    /\ UNCHANGED <<storeVars, queue, svVars, faults>>
    /\ AsgUnchanged

\* Mutant: the snapshot is trusted.
AsgRecheckSkipped ==
    /\ asg.pc = "recheck"
    /\ asg' = [asg EXCEPT !.pc = "mutex"]
    /\ UNCHANGED <<storeVars, queue, svVars, faults>>
    /\ AsgUnchanged

\* The candidate is verified again against the live maps.
AsgRecheck ==
    /\ asg.pc = "recheck"
    /\ asg' = [asg EXCEPT !.pc =
                 IF asg.agent \in circuitOpen \/
                    agentCooldown[asg.agent] # "none" THEN "scan" ELSE "mutex"]
    /\ UNCHANGED <<storeVars, queue, svVars, faults>>
    /\ AsgUnchanged

\* Mutant: a vanished agent takes the task with it.
AsgMutexDrops ==
    /\ asg.pc = "mutex"
    /\ asg' = IF asg.agent \in agentMu THEN [asg EXCEPT !.pc = "lock"]
                                       ELSE asgIdle
    /\ UNCHANGED <<storeVars, queue, svVars, faults>>
    /\ AsgUnchanged

AsgMutex ==
    /\ asg.pc = "mutex"
    /\ asg' = [asg EXCEPT !.pc = IF asg.agent \in agentMu THEN "lock"
                                                         ELSE "requeue"]
    /\ UNCHANGED <<storeVars, queue, svVars, faults>>
    /\ AsgUnchanged

AsgLock ==
    /\ asg.pc = "lock"
    /\ Lock(asg.agent, Assigner)
    /\ asg' = [asg EXCEPT !.pc = "read"]
    /\ UNCHANGED <<storeVars, queue, agentMu, benchVars, stopped, backingOff,
                   session, faults>>
    /\ AsgUnchanged

\* ApplyEvent(task_assigned), first half.  A missing agent, a state the event
\* is not valid in and a store error all release the mutex and re-enqueue.
AsgReadState ==
    /\ asg.pc = "read"
    /\ \/ /\ asg.agent \in agents
          /\ ValidTransition(agState[asg.agent], EventTaskAssigned) # {}
          /\ asg' = [asg EXCEPT !.pc = "cas", !.st = agState[asg.agent]]
          /\ UNCHANGED <<owner, faults>>
       \/ /\ \/ /\ \/ asg.agent \notin agents
                   \/ ValidTransition(agState[asg.agent],
                                      EventTaskAssigned) = {}
                /\ UNCHANGED faults
             \/ Fail
          /\ asg' = [asg EXCEPT !.pc = "requeue", !.failed = TRUE]
          /\ Unlock(asg.agent)
    /\ UNCHANGED <<storeVars, queue, agentMu, benchVars, stopped, backingOff,
                   session>>
    /\ AsgUnchanged

\* Second half.  A lost race (conflict) re-enqueues without backing off.
AsgCAS ==
    /\ asg.pc = "cas"
    /\ \/ /\ CASAgentState(asg.agent, asg.st, EventTaskAssigned)
          /\ asg' = [asg EXCEPT !.pc = "get"]
          /\ UNCHANGED <<owner, faults>>
       \/ /\ \/ /\ asg.agent \in agents /\ agState[asg.agent] # asg.st
                /\ asg' = [asg EXCEPT !.pc = "requeue"]
                /\ UNCHANGED faults
             \/ /\ asg.agent \notin agents
                /\ asg' = [asg EXCEPT !.pc = "requeue", !.failed = TRUE]
                /\ UNCHANGED faults
             \/ /\ Fail
                /\ asg' = [asg EXCEPT !.pc = "requeue", !.failed = TRUE]
          /\ Unlock(asg.agent)
          /\ UNCHANGED agState
    /\ UNCHANGED <<agents, curTask, curPrio, fresh, queue, agentMu, benchVars,
                   stopped, backingOff, session>>
    /\ AsgUnchanged

\* Recording the binding is a read-modify-write of the whole record.
AsgGetFields ==
    /\ asg.pc = "get"
    /\ \/ /\ asg.agent \in agents
          /\ asg' = [asg EXCEPT !.pc = "set", !.st = agState[asg.agent]]
          /\ UNCHANGED faults
       \/ /\ \/ asg.agent \notin agents /\ UNCHANGED faults
             \/ Fail
          /\ asg' = [asg EXCEPT !.pc = "requeueLocked"]
    /\ UNCHANGED <<storeVars, queue, svVars>>
    /\ AsgUnchanged

AsgSetFields ==
    /\ asg.pc = "set"
    /\ \/ /\ agents' = agents \cup {asg.agent}
          /\ agState' = [agState EXCEPT ![asg.agent] = asg.st]
          /\ curTask' = [curTask EXCEPT ![asg.agent] = asg.task]
          /\ curPrio' = [curPrio EXCEPT ![asg.agent] = asg.prio]
          /\ asg' = asgIdle
          /\ backingOff' = FALSE
          /\ Unlock(asg.agent)
          /\ UNCHANGED faults
       \/ /\ Fail
          /\ asg' = [asg EXCEPT !.pc = "requeueLocked"]
          /\ UNCHANGED <<agents, agState, curTask, curPrio, backingOff, owner>>
    /\ UNCHANGED <<fresh, queue, agentMu, benchVars, stopped, session>>
    /\ AsgUnchanged

\* The binding could not be recorded: the task goes back while the agent
\* stays assigned.
AsgRequeueLocked ==
    /\ asg.pc = "requeueLocked"
    /\ Requeue(asg.task, asg.prio)
    /\ backingOff' = TRUE
    /\ Unlock(asg.agent)
    /\ asg' = asgIdle
    /\ UNCHANGED <<storeVars, agentMu, benchVars, stopped, session>>
    /\ AsgUnchanged

AsgRequeue ==
    /\ asg.pc = "requeue"
    /\ Requeue(asg.task, asg.prio)
    /\ backingOff' = (backingOff \/ asg.failed)
    /\ asg' = asgIdle
    /\ UNCHANGED <<storeVars, agentMu, owner, benchVars, stopped, session>>
    /\ AsgUnchanged

AsgNext ==
    \/ AsgDequeue \/ AsgList \/ AsgSnapshot \/ AsgScanEnd \/ AsgRecheck
    \/ AsgMutex \/ AsgLock \/ AsgReadState \/ AsgCAS \/ AsgGetFields
    \/ AsgSetFields \/ AsgRequeueLocked \/ AsgRequeue
    \/ \E a \in Agents : AsgScan(a)

-----------------------------------------------------------------------------
(* The calls workers make: Heartbeat, StartWork, ReportOutput and          *)
(* CompleteAgent, each a handler goroutine of its own.                     *)

CallUnchanged == UNCHANGED <<reg, asg, mon, stopping, submitted>>

EventOf(op) ==
    CASE op = "StartWork"    -> EventWorkStarted
      [] op = "ReportOutput" -> EventOutputReady
      [] OTHER               -> EventOutputDelivered

\* Mutant: a return path without the deferred unlock.
CallReturnLocked(c) == call' = [call EXCEPT ![c] = callIdle] /\ UNCHANGED owner

\* The handler returns and releases the mutex if it holds it.
CallReturn(c) ==
    /\ call' = [call EXCEPT ![c] = callIdle]
    /\ owner' = IF call[c].locked
                THEN [owner EXCEPT ![call[c].agent] = None] ELSE owner

\* getAgentMutex.  Heartbeat and CompleteAgent return at once without a
\* mutex entry; StartWork and ReportOutput go on without the lock.  t is the
\* task ID a CompleteAgent request carries, possibly a stale one.
CallBegin(c, op, a, t) ==
    /\ call[c].pc = "idle"
    /\ op = "Heartbeat" => ~stopped
    /\ op # "CompleteAgent" => t = NoTask
    /\ \/ a \in agentMu
       \/ op \in {"StartWork", "ReportOutput"} /\ a \in agents
    /\ call' = [call EXCEPT ![c] =
                  [callIdle EXCEPT !.pc = IF a \in agentMu THEN "lock"
                                                           ELSE "read",
                                   !.op = op, !.agent = a, !.task = t]]
    /\ UNCHANGED <<storeVars, queue, svVars, faults, done>>
    /\ CallUnchanged

CallLock(c) ==
    /\ call[c].pc = "lock"
    /\ Lock(call[c].agent, c)
    /\ call' = [call EXCEPT ![c] =
                  [@ EXCEPT !.pc = IF call[c].op = "Heartbeat" THEN "get"
                                                              ELSE "read",
                            !.locked = TRUE]]
    /\ UNCHANGED <<storeVars, queue, agentMu, benchVars, stopped, backingOff,
                   session, faults, done>>
    /\ CallUnchanged

\* Heartbeat is a read-modify-write of the whole record.
HeartbeatGet(c) ==
    /\ call[c].pc = "get"
    /\ LET a == call[c].agent
       IN \/ /\ a \in agents
             /\ call' = [call EXCEPT ![c] =
                           [@ EXCEPT !.pc = "set", !.st = agState[a],
                                     !.task = curTask[a],
                                     !.prio = curPrio[a]]]
             /\ UNCHANGED <<owner, faults>>
          \/ /\ \/ a \notin agents /\ UNCHANGED faults
                \/ Fail
             /\ CallReturn(c)
    /\ UNCHANGED <<storeVars, queue, agentMu, benchVars, stopped, backingOff,
                   session, done>>
    /\ CallUnchanged

HeartbeatSet(c) ==
    /\ call[c].pc = "set"
    /\ LET a == call[c].agent
       IN \/ /\ agents' = agents \cup {a}
             /\ agState' = [agState EXCEPT ![a] = call[c].st]
             /\ curTask' = [curTask EXCEPT ![a] = call[c].task]
             /\ curPrio' = [curPrio EXCEPT ![a] = call[c].prio]
             /\ fresh' = [fresh EXCEPT ![a] = TRUE]
             /\ UNCHANGED faults
          \/ Fail /\ UNCHANGED storeVars
    /\ CallReturn(c)
    /\ UNCHANGED <<queue, agentMu, benchVars, stopped, backingOff, session,
                   done>>
    /\ CallUnchanged

\* ApplyEvent, first half: any failure ends the call.
CallReadState(c) ==
    /\ call[c].pc = "read"
    /\ LET a == call[c].agent
           ok == /\ a \in agents
                 /\ ValidTransition(agState[a], EventOf(call[c].op)) # {}
       IN \/ /\ ok
             /\ call' = [call EXCEPT ![c] = [@ EXCEPT !.pc = "cas",
                                                      !.st = agState[a]]]
             /\ UNCHANGED <<owner, faults>>
          \/ /\ \/ ~ok /\ UNCHANGED faults
                \/ Fail
             /\ CallReturn(c)
    /\ UNCHANGED <<storeVars, queue, agentMu, benchVars, stopped, backingOff,
                   session, done>>
    /\ CallUnchanged

\* Second half.  StartWork and ReportOutput end here; CompleteAgent goes on
\* while the agent can already be seen idle.
CallCAS(c) ==
    /\ call[c].pc = "cas"
    /\ LET a == call[c].agent
       IN \/ /\ CASAgentState(a, call[c].st, EventOf(call[c].op))
             /\ UNCHANGED faults
             /\ IF call[c].op = "CompleteAgent"
                THEN /\ call' = [call EXCEPT ![c].pc = "signal"]
                     /\ UNCHANGED owner
                ELSE CallReturn(c)
          \/ /\ \/ /\ a \notin agents \/ agState[a] # call[c].st
                   /\ UNCHANGED faults
                \/ Fail
             /\ UNCHANGED agState
             /\ CallReturn(c)
    /\ UNCHANGED <<agents, curTask, curPrio, fresh, queue, agentMu, benchVars,
                   stopped, backingOff, session, done>>
    /\ CallUnchanged

\* RecordSuccess, then the completion signal.  The recorded CurrentTaskID
\* wins; the ID of the request is the fallback when there is none, or when
\* it cannot be read.
CompleteSignal(c) ==
    /\ call[c].pc = "signal"
    /\ LET a == call[c].agent
           signal(tid) == done' = IF tid = NoTask THEN done
                                                  ELSE done \cup {tid}
       IN /\ crashes' = [crashes EXCEPT ![a] = 0]
          /\ \/ /\ signal(IF a \in agents /\ curTask[a] # NoTask
                          THEN curTask[a] ELSE call[c].task)
                /\ UNCHANGED faults
             \/ Fail /\ signal(call[c].task)
    /\ call' = [call EXCEPT ![c].pc = "clear"]
    /\ UNCHANGED <<storeVars, queue, agentMu, owner, agentCooldown,
                   circuitOpen, stopped, backingOff, session>>
    /\ CallUnchanged

\* ClearCurrentTask; a failure is logged and leaves the binding behind.
CompleteClear(c) ==
    /\ call[c].pc = "clear"
    /\ LET a == call[c].agent
       IN \/ /\ a \in agents
             /\ curTask' = [curTask EXCEPT ![a] = NoTask]
             /\ curPrio' = [curPrio EXCEPT ![a] = 0]
             /\ UNCHANGED faults
          \/ /\ \/ a \notin agents /\ UNCHANGED faults
                \/ Fail
             /\ UNCHANGED <<curTask, curPrio>>
    /\ call' = [call EXCEPT ![c].pc = "uncool"]
    /\ UNCHANGED <<agents, agState, fresh, queue, svVars, done>>
    /\ CallUnchanged

CompleteUncool(c) ==
    /\ call[c].pc = "uncool"
    /\ agentCooldown' = [agentCooldown EXCEPT ![call[c].agent] = "none"]
    /\ circuitOpen' = circuitOpen \ {call[c].agent}
    /\ CallReturn(c)
    /\ UNCHANGED <<storeVars, queue, agentMu, crashes, stopped, backingOff,
                   session, faults, done>>
    /\ CallUnchanged

CallNext(c) ==
    \/ \E op \in Op, a \in Agents, t \in TaskID : CallBegin(c, op, a, t)
    \/ CallLock(c) \/ HeartbeatGet(c) \/ HeartbeatSet(c) \/ CallReadState(c)
    \/ CallCAS(c) \/ CompleteSignal(c) \/ CompleteClear(c) \/ CompleteUncool(c)

-----------------------------------------------------------------------------
Next ==
    \/ \E t \in Tasks : SubmitTask(t)
    \/ \E a \in Agents :
          \/ RegisterStore(a) \/ RegisterMutex(a) \/ RegisterSession(a)
          \/ StopDestroy(a)
          \/ HeartbeatStales(a) \/ CooldownExpires(a) \/ CrashLeavesWindow(a)
    \/ Stop
    \/ AssignBackoffExpires
    \/ MonNext
    \/ AsgNext
    \/ \E c \in Callers : CallNext(c)

Spec == Init /\ [][Next]_vars

-----------------------------------------------------------------------------
(* Where a task is. *)

Place == PlaceTag \cup Agents

InQueue(t) == \E p \in Score : queue[<<t, p>>] > 0

\* a is assigned but its binding has not been recorded yet.
Assigning(a) == asg.agent = a /\ asg.pc \in {"get", "set", "requeueLocked"}

\* a answers for the task its record names: it is busy with it, or has just
\* been set idle by a crash or a completion that has not yet passed it on.
Serves(a, t) ==
    /\ curTask[a] = t
    /\ \/ agState[a] # StateIdle /\ ~Assigning(a)
       \/ mon.pc = "requeue" /\ mon.agent = a
       \/ \E c \in Callers : call[c].pc = "signal" /\ call[c].agent = a

At(t, x) ==
    CASE x = "queue"    -> InQueue(t)
      [] x = "assigner" -> asg.pc # "idle" /\ asg.task = t
      [] x = "done"     -> t \in done
      [] OTHER          -> Serves(x, t)

-----------------------------------------------------------------------------
(* Safety *)

NoTaskLost == \A t \in submitted : \E x \in Place : At(t, x)

SingleOwner ==
    /\ \A t \in Tasks : \A x, y \in Place : At(t, x) /\ At(t, y) => x = y
    /\ \A e \in Tasks \X Score : queue[e] <= 1

\* A submitted task is in exactly one place, once: it is queued, in the hands
\* of tryAssignTask, with an agent that answers for it, or signalled complete,
\* at every point of every assignment, crash and completion.  Two agents never
\* work on one task, a completed one is never run again, a crash re-enqueues it
\* once (store failures aside: the code logs the losses those can cause).
TaskHasOnePlace == NoTaskLost /\ SingleOwner

\* A task that no agent holds keeps the priority it was submitted with,
\* through every re-enqueue, store failures included: tryAssignTask and
\* crashAgent re-enqueue "at original priority".
PriorityKept ==
    \A t \in Tasks, p \in Score : queue[<<t, p>>] > 0 => p = Prio[t]

\* tryAssignTask never gives a task to an agent whose circuit is open or
\* whose cooldown is running, although it checks both without the agent's
\* mutex: the sentinel, the re-check and the mutex close the window.
BenchRespected ==
    [][\A a \in Agents :
          agState[a] = StateIdle /\ agState'[a] # StateIdle =>
             a \notin circuitOpen /\ agentCooldown[a] = "none"]_vars

\* The 24h sentinel crashAgent plants is gone once crashAgent is: an agent is
\* never left benched by a crash that was deferred or found spurious.
SentinelIsTransient ==
    \A a \in Agents : agentCooldown[a] = "sentinel" =>
        mon.agent = a /\ mon.pc \in {"read", "cas", "defer", "requeue",
                                     "policy"}

\* The crash window never holds more than one crash over the threshold: an
\* agent with an open circuit is never made to crash again.
CrashesBounded == \A a \in Agents : crashes[a] <= CrashThreshold + 1

-----------------------------------------------------------------------------
(* Fairness and liveness *)

CallStep(c) ==
    \/ CallLock(c) \/ HeartbeatGet(c) \/ HeartbeatSet(c) \/ CallReadState(c)
    \/ CallCAS(c) \/ CompleteSignal(c) \/ CompleteClear(c) \/ CompleteUncool(c)

\* The loops tick forever and every handler that has begun is scheduled
\* until it returns.  sync.Mutex hands the lock to a waiter that has waited
\* for a millisecond, so a waiter is not overtaken forever (strong fairness
\* of the acquisitions).  Time passes.  Nothing makes a worker call.
Fairness ==
    /\ WF_vars(MonNext) /\ SF_vars(MonLock)
    /\ WF_vars(AsgNext) /\ SF_vars(AsgLock)
    /\ \A c \in Callers : WF_vars(CallStep(c)) /\ SF_vars(CallLock(c))
    /\ WF_vars(AssignBackoffExpires)
    /\ \A a \in Agents : WF_vars(CooldownExpires(a))
                      /\ WF_vars(CrashLeavesWindow(a))

FairSpec == Spec /\ Fairness

\* Every sweep, assignment and call comes back to where it waits for work:
\* no path keeps a mutex, and the goroutines never wait for each other.
EveryoneReturns ==
    /\ mon.pc # "idle" ~> mon.pc = "idle"
    /\ asg.pc # "idle" ~> asg.pc = "idle"
    /\ \A c \in Callers : call[c].pc # "idle" ~> call[c].pc = "idle"

\* A busy agent that stays silent is eventually taken back to idle (and its
\* task re-enqueued): the heartbeat monitor retries a crash it had to defer.
SilentAgentRecovered ==
    \A a \in Agents :
        agState[a] # StateIdle /\ ~fresh[a] ~> agState[a] = StateIdle
                                               \/ fresh[a]
=============================================================================
