------------------------------- MODULE Store --------------------------------
(***************************************************************************)
(* The two implementations of StateStore: MockStore, whose every method is *)
(* one critical section, and RedisStore, whose methods are commands that   *)
(* other clients' commands come between: EnqueueTaskWithMeta is a pipeline *)
(* of three, GetAllAgentStates a list and one read per agent.  Scripts and *)
(* MULTI pipelines are single steps.  The program wires MockStore;         *)
(* RedisStore is the one its interface and tests are written for.          *)
(***************************************************************************)
EXTENDS Integers, FiniteSets

CONSTANTS
    Tasks, Prios,
    Writers,        \* clients that enqueue
    IDs,            \* agent IDs
    Consumers,      \* consumers of one group
    NoTask,
    MaxEnqueues,    \* bound on the calls of EnqueueTaskWithMeta
    MaxLog          \* bound on the events published

ASSUME StoreAssumption ==
    /\ Prios \subseteq Int /\ NoTask \notin Tasks
    /\ MaxEnqueues \in Nat /\ MaxLog \in Nat

VARIABLES
    kind,       \* "mock" or "redis"
    queue,      \* how often each entry, a task with its priority, waits
    meta,       \* tasks with stored metadata
    described,  \* tasks whose metadata were stored and have not expired
    writer,     \* where in the pipeline each writer is, and with which task
    enqueues,   \* calls of EnqueueTaskWithMeta so far
    reader,     \* the client that dequeues and then reads the metadata
    handed,     \* the entry dequeued last
    hash,       \* the record of each agent
    members,    \* the set of agents
    sweep,      \* a call of GetAllAgentStates
    log,        \* number of events
    pos,        \* the group's last delivered event
    made,       \* the group exists
    inbox,      \* the events delivered to each consumer
    pending     \* those it has not acknowledged

queueVars == <<queue, meta, described, writer, enqueues, reader, handed>>
agentVars == <<hash, members, sweep>>
groupVars == <<log, pos, made, inbox, pending>>
storeVars == <<kind, queueVars, agentVars, groupVars>>

Entries == Tasks \X Prios
NoHash == "none"
States == {"idle", "assigned"}
NoSweep == [pc |-> "off", list |-> {}, seen |-> {}, steady |-> {}]
NoRead == [pc |-> "off", task |-> NoTask, found |-> TRUE, excused |-> FALSE]

StoreTypeOK ==
    /\ kind \in {"mock", "redis"}
    /\ queue \in [Entries -> 0..MaxEnqueues]
    /\ meta \subseteq described /\ described \subseteq Tasks
    /\ writer \in [Writers -> [pc : {"off", "hset"}, task : Tasks \cup {NoTask}]]
    /\ enqueues \in 0..MaxEnqueues
    /\ reader \in [pc : {"off", "read", "done"}, task : Tasks \cup {NoTask},
                   found : BOOLEAN, excused : BOOLEAN]
    /\ hash \in [IDs -> States \cup {NoHash}] /\ members \subseteq IDs
    /\ sweep \in [pc : {"off", "get", "done"}, list : SUBSET IDs,
                  seen : SUBSET IDs, steady : SUBSET IDs]
    /\ log \in 0..MaxLog /\ pos \in 0..log /\ made \in BOOLEAN
    /\ inbox \in [Consumers -> SUBSET (1..log)]
    /\ \A c \in Consumers : pending[c] \subseteq inbox[c]

StoreInit ==
    /\ kind \in {"mock", "redis"}
    /\ queue = [e \in Entries |-> 0] /\ meta = {} /\ described = {}
    /\ writer = [w \in Writers |-> [pc |-> "off", task |-> NoTask]]
    /\ enqueues = 0 /\ reader = NoRead /\ handed = {}
    /\ hash = [a \in IDs |-> NoHash] /\ members = {} /\ sweep = NoSweep
    /\ log = 0 /\ pos = 0 /\ made = FALSE
    /\ inbox = [c \in Consumers |-> {}] /\ pending = [c \in Consumers |-> {}]

-----------------------------------------------------------------------------
(* The task queue *)

\* A slice keeps every entry; a sorted set has one score per member.
Insert(t, p) ==
    IF kind = "mock" THEN [queue EXCEPT ![<<t, p>>] = @ + 1]
    ELSE [e \in Entries |-> IF e[1] # t THEN queue[e]
                            ELSE IF e[2] = p THEN 1 ELSE 0]

\* Mutant: zero metadata are written like any other.
EnqueueOverwrites(w, t, p, zero) ==
    /\ writer[w].pc = "off" /\ enqueues < MaxEnqueues
    /\ enqueues' = enqueues + 1 /\ queue' = Insert(t, p)
    /\ meta' = IF zero THEN meta \ {t} ELSE meta \cup {t}
    /\ described' = IF zero THEN described ELSE described \cup {t}
    /\ UNCHANGED <<kind, writer, reader, handed, agentVars, groupVars>>

\* The first part of EnqueueTaskWithMeta: ZADD.  Zero metadata, which is what
\* every re-enqueue passes, are not written.
EnqueueTaskWithMeta(w, t, p, zero) ==
    /\ writer[w].pc = "off" /\ enqueues < MaxEnqueues
    /\ enqueues' = enqueues + 1 /\ queue' = Insert(t, p)
    /\ IF zero THEN UNCHANGED <<meta, described, writer>>
       ELSE IF kind = "mock"
       THEN /\ meta' = meta \cup {t} /\ described' = described \cup {t}
            /\ UNCHANGED writer
       ELSE /\ writer' = [writer EXCEPT ![w] = [pc |-> "hset", task |-> t]]
            /\ UNCHANGED <<meta, described>>
    /\ UNCHANGED <<kind, reader, handed, agentVars, groupVars>>

\* HSET with its EXPIRE.
WriteMeta(w) ==
    /\ writer[w].pc = "hset"
    /\ meta' = meta \cup {writer[w].task}
    /\ described' = described \cup {writer[w].task}
    /\ writer' = [writer EXCEPT ![w] = [pc |-> "off", task |-> NoTask]]
    /\ UNCHANGED <<kind, queue, enqueues, reader, handed, agentVars, groupVars>>

\* taskMetaTTL is over; the reader that is under way may find nothing.
MetaExpires(t) ==
    /\ kind = "redis" /\ t \in meta
    /\ meta' = meta \ {t} /\ described' = described \ {t}
    /\ reader' = IF reader.task = t THEN [reader EXCEPT !.excused = TRUE]
                 ELSE reader
    /\ UNCHANGED <<kind, queue, writer, enqueues, handed, agentVars, groupVars>>

\* Mutant: the highest score first.
FirstHighest(e) == queue[e] > 0 /\ \A f \in Entries : queue[f] > 0 => e[2] >= f[2]

\* Among equal priorities the mock's sort keeps no order; Redis goes by ID.
First(e) == queue[e] > 0 /\ \A f \in Entries : queue[f] > 0 => e[2] <= f[2]

DequeueTask ==
    /\ reader.pc = "off"
    /\ \E e \in Entries :
          /\ First(e)
          /\ queue' = [queue EXCEPT ![e] = @ - 1] /\ handed' = {e}
          /\ reader' = [NoRead EXCEPT !.pc = "read", !.task = e[1],
                                      !.excused = e[1] \notin described]
    /\ UNCHANGED <<kind, meta, described, writer, enqueues, agentVars, groupVars>>

GetTaskMeta ==
    /\ reader.pc = "read"
    /\ reader' = [reader EXCEPT !.pc = "done", !.found = reader.task \in meta]
    /\ UNCHANGED <<kind, queue, meta, described, writer, enqueues, handed,
                   agentVars, groupVars>>

ReaderReturns ==
    /\ reader.pc = "done" /\ reader' = NoRead
    /\ UNCHANGED <<kind, queue, meta, described, writer, enqueues, handed,
                   agentVars, groupVars>>

-----------------------------------------------------------------------------
(* The agents: a hash each, and the set of those registered *)

\* SetAgentState, SetAgentFields: HSET and SADD under MULTI.
SetAgentFields(a, st) ==
    /\ hash' = [hash EXCEPT ![a] = st] /\ members' = members \cup {a}
    /\ UNCHANGED <<kind, queueVars, sweep, groupVars>>

\* casScript, which does nothing without a state field.
CompareAndSetAgentState(a, expected, next) ==
    /\ hash[a] = expected /\ hash[a] # NoHash
    /\ hash' = [hash EXCEPT ![a] = next]
    /\ UNCHANGED <<kind, queueVars, members, sweep, groupVars>>

\* DEL and SREM under MULTI.
DeleteAgent(a) ==
    /\ hash' = [hash EXCEPT ![a] = NoHash] /\ members' = members \ {a}
    /\ sweep' = [sweep EXCEPT !.steady = @ \ {a}]
    /\ UNCHANGED <<kind, queueVars, groupVars>>

\* GetAllAgentStates: the mock reads all at once, Redis lists the set first.
SweepBegin ==
    /\ sweep.pc = "off"
    /\ sweep' = [pc |-> IF kind = "mock" THEN "done" ELSE "get",
                 list |-> IF kind = "mock" THEN {} ELSE members,
                 seen |-> IF kind = "mock" THEN members ELSE {},
                 steady |-> members]
    /\ UNCHANGED <<kind, queueVars, hash, members, groupVars>>

\* Mutant: the sweep stops at an agent that is gone.
SweepGetStops(a) ==
    /\ sweep.pc = "get" /\ a \in sweep.list
    /\ sweep' = [sweep EXCEPT !.list = IF hash[a] = NoHash THEN {} ELSE @ \ {a},
                    !.seen = IF hash[a] = NoHash THEN @ ELSE @ \cup {a}]
    /\ UNCHANGED <<kind, queueVars, hash, members, groupVars>>

\* One HGET of the pipeline; an agent that is gone by now is passed over.
SweepGet(a) ==
    /\ sweep.pc = "get" /\ a \in sweep.list
    /\ sweep' = [sweep EXCEPT !.list = @ \ {a},
                    !.seen = IF hash[a] = NoHash THEN @ ELSE @ \cup {a}]
    /\ UNCHANGED <<kind, queueVars, hash, members, groupVars>>

SweepEnd ==
    /\ \/ sweep.pc = "get" /\ sweep.list = {}
          /\ sweep' = [sweep EXCEPT !.pc = "done"]
       \/ sweep.pc = "done" /\ sweep' = NoSweep
    /\ UNCHANGED <<kind, queueVars, hash, members, groupVars>>

-----------------------------------------------------------------------------
(* The event stream and a consumer group *)

PublishEvent ==
    /\ log < MaxLog /\ log' = log + 1
    /\ UNCHANGED <<kind, queueVars, agentVars, pos, made, inbox, pending>>

\* Idempotent (BUSYGROUP): a group that exists keeps its place.
CreateConsumerGroup(start) ==
    /\ ~made /\ made' = TRUE /\ pos' = start
    /\ UNCHANGED <<kind, queueVars, agentVars, log, inbox, pending>>

\* XREADGROUP with ">": the next events nobody in the group has had.
SubscribeEvents(c, count) ==
    /\ made /\ pos < log
    /\ pos' = IF pos + count < log THEN pos + count ELSE log
    /\ inbox' = [inbox EXCEPT ![c] = @ \cup ((pos + 1)..pos')]
    /\ pending' = [pending EXCEPT ![c] = @ \cup ((pos + 1)..pos')]
    /\ UNCHANGED <<kind, queueVars, agentVars, log, made>>

AckEvent(i) ==
    /\ made /\ \E c \in Consumers : i \in pending[c]
    /\ pending' = [c \in Consumers |-> pending[c] \ {i}]
    /\ UNCHANGED <<kind, queueVars, agentVars, log, pos, made, inbox>>

QueueNext ==
    \/ \E w \in Writers, t \in Tasks, p \in Prios, zero \in BOOLEAN :
          EnqueueTaskWithMeta(w, t, p, zero)
    \/ \E w \in Writers : WriteMeta(w)
    \/ \E t \in Tasks : MetaExpires(t)
    \/ DequeueTask \/ GetTaskMeta \/ ReaderReturns

RecordsNext ==
    \/ \E a \in IDs, st \in States : SetAgentFields(a, st)
    \/ \E a \in IDs, st, nx \in States : CompareAndSetAgentState(a, st, nx)
    \/ \E a \in IDs : DeleteAgent(a) \/ SweepGet(a)
    \/ SweepBegin \/ SweepEnd

GroupNext ==
    \/ PublishEvent
    \/ \E start \in {0, log} : CreateConsumerGroup(start)
    \/ \E c \in Consumers, n \in 1..MaxLog : SubscribeEvents(c, n)
    \/ \E i \in 1..log : AckEvent(i)

StoreNext == QueueNext \/ RecordsNext \/ GroupNext

StoreSpec == StoreInit /\ [][StoreNext]_storeVars

-----------------------------------------------------------------------------
(* Properties *)

\* Both stores keep the interface's promise of the queue and of the groups.
Contract == INSTANCE StoreContract
                WITH queue <- queue, handed <- handed, log <- log,
                     pos <- pos, inbox <- inbox

KeepsStoreContract == Contract!Spec

\* A crash, a failed assignment and a backoff re-enqueue a task without its
\* metadata; whoever dequeues it finds what it was submitted with all the same,
\* but for a task that Redis hands out before the pipeline has written them,
\* and for one that has waited longer than their expiry.
MetaSurvives ==
    reader.pc = "done" /\ ~reader.found => reader.excused

\* An agent that is there throughout a sweep is in its result, whoever else
\* comes or goes meanwhile: one deleted agent does not hide the others from the
\* monitor, the reaper and the health check.
SweepComplete == sweep.pc = "done" => sweep.steady \subseteq sweep.seen
=============================================================================
