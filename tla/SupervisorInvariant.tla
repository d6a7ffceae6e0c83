------------------------ MODULE SupervisorInvariant ------------------------
(***************************************************************************)
(* The inductive invariant of module Supervisor, in named parts, proved    *)
(* for every value of the constants in SupervisorProofs (types, priorities,*)
(* sentinel) and TaskProofs (mutex, bench, circuit, places of tasks).      *)
(***************************************************************************)
EXTENDS Supervisor

\* Where a goroutine works on an agent, its local names one.
LocalsBound ==
    /\ mon.pc \notin {"idle", "scan"} => mon.agent \in Agents
    /\ asg.pc \in {"recheck", "mutex", "lock", "read", "cas", "get", "set",
                   "requeueLocked"} => asg.agent \in Agents
    /\ asg.pc # "idle" => asg.task \in Tasks
    /\ \A c \in Callers : call[c].pc # "idle" => call[c].agent \in Agents

\* A record that binds a task carries the priority of that task.
Bound(task, prio) == task # NoTask => prio = Prio[task]

\* Every copy of a task travels with the task's own priority: the queue
\* entry, the local of tryAssignTask, the agent record, crashAgent's pre-read
\* and the record Heartbeat is about to write back.
PriorityTravels ==
    /\ PriorityKept
    /\ asg.pc # "idle" => Bound(asg.task, asg.prio)
    /\ \A a \in Agents : Bound(curTask[a], curPrio[a])
    /\ mon.pc \in {"sentinel", "read", "cas", "requeue"} =>
          Bound(mon.task, mon.prio)
    /\ \A c \in Callers :
          call[c].pc = "set" => Bound(call[c].task, call[c].prio)

-----------------------------------------------------------------------------
(* The per-agent mutex *)

\* Where crashAgent and tryAssignTask hold the mutex of their agent.
MonLocked == {"preread", "sentinel", "read", "cas", "defer", "requeue",
              "policy", "destroy"}
AsgLocked == {"read", "cas", "get", "set", "requeueLocked"}

MonHolds(a)     == mon.agent = a /\ mon.pc \in MonLocked
AsgHolds(a)     == asg.agent = a /\ asg.pc \in AsgLocked
CallHolds(c, a) == call[c].agent = a /\ call[c].locked

\* Which handler is at which step, and whether it has the mutex there:
\* StartWork and ReportOutput may go on without it, Heartbeat and
\* CompleteAgent may not.
CallShape(c) ==
    /\ call[c].pc \in {"idle", "lock"} => ~call[c].locked
    /\ call[c].pc \in {"get", "set"} =>
          call[c].op = "Heartbeat" /\ call[c].locked
    /\ call[c].pc \in {"read", "cas"} =>
          /\ call[c].op # "Heartbeat"
          /\ call[c].op = "CompleteAgent" => call[c].locked
    /\ call[c].pc \in {"signal", "clear", "uncool"} =>
          call[c].op = "CompleteAgent" /\ call[c].locked

\* The owner recorded with each mutex is the one goroutine between its
\* acquisition and its release of it.
LockDiscipline ==
    /\ \A a \in Agents :
          /\ owner[a] = Monitor <=> MonHolds(a)
          /\ owner[a] = Assigner <=> AsgHolds(a)
          /\ \A c \in Callers : owner[a] = c <=> CallHolds(c, a)
    /\ \A c \in Callers : CallShape(c)

-----------------------------------------------------------------------------
(* Agents the store knows *)

\* Nobody works on an agent before its record is in the store, and an agent
\* without a record has never been given a task.
Known ==
    /\ \A a \in Agents :
          /\ reg[a] = "new" <=> a \notin agents
          /\ a \notin agents => agState[a] = StateIdle /\ curTask[a] = NoTask
    /\ agentMu \subseteq agents
    /\ mon.list \subseteq agents
    /\ asg.list \subseteq agents
    /\ mon.pc \notin {"idle", "scan"} => mon.agent \in agents
    /\ asg.pc \in {"recheck", "mutex", "lock"} \cup AsgLocked =>
          asg.agent \in agents
    /\ \A c \in Callers : call[c].pc # "idle" => call[c].agent \in agents

-----------------------------------------------------------------------------
(* Idle and busy *)

Idle(a) == agState[a] = StateIdle

\* Only the holder of the mutex moves an agent between idle and busy, so what
\* a holder has read of that stays true until it lets go.  Only tryAssignTask
\* makes an agent busy: one it found idle stays so until it is assigned.
MonReads ==
    /\ mon.pc = "cas" => (mon.st = StateIdle <=> Idle(mon.agent))
    /\ mon.pc \in {"requeue", "policy", "destroy"} => Idle(mon.agent)

AsgReads ==
    /\ asg.pc \in {"recheck", "mutex", "lock", "read", "cas"} =>
          Idle(asg.agent)
    /\ asg.pc = "cas" => asg.st = StateIdle
    /\ asg.pc \in {"get", "set", "requeueLocked"} => ~Idle(asg.agent)
    /\ asg.pc = "set" => asg.st # StateIdle

CallReads(c) ==
    /\ call[c].pc = "set" => (call[c].st = StateIdle <=> Idle(call[c].agent))
    /\ call[c].pc \in {"signal", "clear", "uncool"} => Idle(call[c].agent)

IdleUnderLock == MonReads /\ AsgReads /\ \A c \in Callers : CallReads(c)

-----------------------------------------------------------------------------
(* The bench *)

\* From the sentinel to the decision, crashAgent keeps its agent benched; an
\* agent that tryAssignTask has re-checked is off the bench, unless a crash
\* that will turn out spurious has planted the sentinel since.
MonBench ==
    mon.pc \in {"read", "cas", "defer", "requeue", "policy"} =>
        agentCooldown[mon.agent] = "sentinel"

AsgBench ==
    asg.pc \in {"mutex", "lock", "read", "cas"} =>
        /\ asg.agent \notin circuitOpen
        /\ \/ agentCooldown[asg.agent] = "none"
           \/ mon.agent = asg.agent /\ mon.pc \in {"read", "cas", "defer"}
        /\ mon.agent = asg.agent => mon.pc \notin {"requeue", "policy"}

BenchHeld == MonBench /\ AsgBench

\* An agent whose circuit is open is idle, and nobody is crashing it; one
\* whose circuit is closed has not had more crashes than the threshold, so
\* the crash that opens a circuit is the last one.
CircuitHolds ==
    /\ \A a \in Agents :
          /\ a \in circuitOpen => Idle(a)
          /\ a \notin circuitOpen => crashes[a] <= CrashThreshold
    /\ CrashesBounded
    /\ mon.pc \in {"requeue", "policy"} => mon.agent \notin circuitOpen
    /\ \A c \in Callers :
          call[c].pc \in {"clear", "uncool"} => crashes[call[c].agent] = 0

-----------------------------------------------------------------------------
(* Where each task is, when no store call fails *)

\* An agent answers for the task its record names: what Serves says of it,
\* whichever task that is.
Answers(a) ==
    \/ ~Idle(a) /\ ~Assigning(a)
    \/ mon.pc = "requeue" /\ mon.agent = a
    \/ \E c \in Callers : call[c].pc = "signal" /\ call[c].agent = a

\* The records crashAgent and Heartbeat have read are the ones in the store,
\* and an agent that answers for a task has one.
MonBinds ==
    mon.pc \in {"sentinel", "read", "cas", "requeue"} =>
        mon.task = curTask[mon.agent]

CallBinds(c) == call[c].pc = "set" => call[c].task = curTask[call[c].agent]

BindingsAgree ==
    /\ asg.pc # "requeueLocked"
    /\ \A a \in Agents : Answers(a) => curTask[a] # NoTask
    /\ MonBinds
    /\ \A c \in Callers : CallBinds(c)

Queued(t) == queue[<<t, Prio[t]>>]
InHand(t) == asg.pc # "idle" /\ asg.task = t
Served(t) == \E a \in Agents : Serves(a, t)

\* The places of a task, each spelled out: once in the queue (at the priority
\* it was submitted with), in the hands of tryAssignTask, signalled, or with
\* one agent; one of them if the task is submitted, none before.
OnePlace(t) ==
    /\ t \in submitted <=>
          Queued(t) > 0 \/ InHand(t) \/ t \in done \/ Served(t)
    /\ Queued(t) > 0 => ~InHand(t) /\ t \notin done /\ ~Served(t)
    /\ InHand(t) => t \notin done /\ ~Served(t)
    /\ t \in done => ~Served(t)
    /\ \A a, b \in Agents : Serves(a, t) /\ Serves(b, t) => a = b
    /\ Queued(t) <= 1

OnePlaceEach == \A t \in Tasks : OnePlace(t)

=============================================================================
