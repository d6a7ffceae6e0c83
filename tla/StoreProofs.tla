----------------------------- MODULE StoreProofs -----------------------------
(***************************************************************************)
(* Proofs about the state stores, for any tasks, priorities, clients and   *)
(* agents: both stores implement the contract of the interface, and what   *)
(* is read in several commands of Redis is as good as what the mock reads  *)
(* in one.                                                                 *)
(*                                                                         *)
(* The three parts of the store share no state, so each has an inductive   *)
(* invariant of its own: QueueInv, AgentsInv and GroupInv.                 *)
(***************************************************************************)
EXTENDS Store, TLAPS

ReaderRec == [pc : {"off", "read", "done"}, task : Tasks \cup {NoTask},
              found : BOOLEAN, excused : BOOLEAN]
WriterRec == [pc : {"off", "hset"}, task : Tasks \cup {NoTask}]
SweepRec == [pc : {"off", "get", "done"}, list : SUBSET IDs,
             seen : SUBSET IDs, steady : SUBSET IDs]

\* What a reader may still find: its task's metadata, unless it is excused.
QueueInv ==
    /\ kind \in {"mock", "redis"}
    /\ queue \in [Entries -> Nat] /\ enqueues \in 0..MaxEnqueues
    /\ \A e \in Entries : queue[e] <= enqueues
    /\ meta = described /\ meta \subseteq Tasks
    /\ writer \in [Writers -> WriterRec]
    /\ \A w \in Writers : writer[w].pc = "hset" => writer[w].task \in Tasks
    /\ reader \in ReaderRec
    /\ reader.pc = "read" => reader.excused \/ reader.task \in meta
    /\ reader.pc = "done" => reader.excused \/ reader.found

\* The set lists exactly the agents with a record; during a sweep whoever stays
\* is yet to be read or was found.
AgentsInv ==
    /\ kind \in {"mock", "redis"}
    /\ hash \in [IDs -> States \cup {NoHash}]
    /\ members = {a \in IDs : hash[a] # NoHash}
    /\ sweep \in SweepRec
    /\ sweep.pc = "get" => /\ sweep.steady \subseteq members
                           /\ sweep.steady \subseteq sweep.list \cup sweep.seen
    /\ sweep.pc = "done" => sweep.steady \subseteq sweep.seen

\* A group that does not exist has delivered nothing.
GroupInv ==
    /\ log \in 0..MaxLog /\ pos \in 0..log /\ made \in BOOLEAN
    /\ inbox \in [Consumers -> SUBSET (1..log)]
    /\ pending \in [Consumers -> SUBSET (1..log)]
    /\ \A c \in Consumers : pending[c] \subseteq inbox[c]
    /\ ~made => pos = 0 /\ inbox = [c \in Consumers |-> {}]

StoreInv == QueueInv /\ AgentsInv /\ GroupInv

\* Both stores start out empty.
LEMMA StoreInvInit == StoreInit => StoreInv
<1> SUFFICES ASSUME StoreInit PROVE StoreInv
  OBVIOUS
<1>1. QueueInv
  BY StoreAssumption
  DEF StoreInit, QueueInv, NoRead, WriterRec, ReaderRec
<1>2. AgentsInv
  BY DEF StoreInit, AgentsInv, NoSweep, SweepRec, NoHash
<1>3. GroupInv
  <2>0. made \in BOOLEAN
    BY Zenon DEF StoreInit
  <2>1. log \in 0..MaxLog /\ pos \in 0..log
    BY StoreAssumption DEF StoreInit
  <2>2. /\ inbox = [c \in Consumers |-> {}] /\ pending = [c \in Consumers |-> {}]
        /\ pos = 0
    BY DEF StoreInit
  <2> QED
    BY <2>0, <2>1, <2>2, Zenon DEF GroupInv
<1> QED
  BY <1>1, <1>2, <1>3 DEF StoreInv

-----------------------------------------------------------------------------
(* The queue and the metadata *)

\* Whichever store it is, an insertion makes no entry wait more than once more.
LEMMA InsertBound ==
  ASSUME QueueInv, NEW t \in Tasks, NEW p \in Prios
  PROVE  /\ Insert(t, p) \in [Entries -> Nat]
         /\ \A e \in Entries : Insert(t, p)[e] <= enqueues + 1
<1>1. <<t, p>> \in Entries
  BY DEF Entries
<1>t. queue \in [Entries -> Nat] /\ enqueues \in Nat
      /\ \A e \in Entries : queue[e] <= enqueues
  BY StoreAssumption DEF QueueInv
<1>2. CASE kind = "mock"
  <2>1. Insert(t, p) = [queue EXCEPT ![<<t, p>>] = queue[<<t, p>>] + 1]
    BY <1>2 DEF Insert
  <2> QED
    BY <1>1, <1>t, <2>1
<1>3. CASE kind # "mock"
  <2>1. Insert(t, p) = [e \in Entries |-> IF e[1] # t THEN queue[e]
                                          ELSE IF e[2] = p THEN 1 ELSE 0]
    BY <1>3 DEF Insert
  <2> QED
    BY <1>t, <2>1
<1> QED
  BY <1>2, <1>3

\* ZADD, with the metadata at once in the mock and later in Redis.
LEMMA EnqueueStep ==
  ASSUME QueueInv, NEW w \in Writers, NEW t \in Tasks, NEW p \in Prios,
         NEW zero \in BOOLEAN, EnqueueTaskWithMeta(w, t, p, zero)
  PROVE  QueueInv'
<1>a. /\ enqueues < MaxEnqueues /\ enqueues' = enqueues + 1
      /\ queue' = Insert(t, p) /\ kind' = kind /\ reader' = reader
  BY DEF EnqueueTaskWithMeta
<1>1. queue' \in [Entries -> Nat] /\ \A e \in Entries : queue'[e] <= enqueues'
  BY <1>a, InsertBound
<1>2. enqueues' \in 0..MaxEnqueues
  BY <1>a, StoreAssumption DEF QueueInv
<1>3. \/ meta' = meta /\ described' = described /\ writer' = writer
      \/ /\ meta' = meta \cup {t} /\ described' = described \cup {t}
         /\ writer' = writer
      \/ /\ writer' = [writer EXCEPT ![w] = [pc |-> "hset", task |-> t]]
         /\ meta' = meta /\ described' = described
  BY DEF EnqueueTaskWithMeta
<1>4. meta' = described' /\ meta' \subseteq Tasks /\ meta \subseteq meta'
  BY <1>3 DEF QueueInv
<1>5. /\ writer' \in [Writers -> WriterRec]
      /\ \A v \in Writers : writer'[v].pc = "hset" => writer'[v].task \in Tasks
  BY <1>3 DEF QueueInv, WriterRec
<1> QED
  BY <1>a, <1>1, <1>2, <1>4, <1>5 DEF QueueInv

\* HSET only adds metadata; their expiry excuses the reader of that task.
LEMMA MetaStep ==
  ASSUME QueueInv,
         \/ \E w \in Writers : WriteMeta(w)
         \/ \E t \in Tasks : MetaExpires(t)
  PROVE  QueueInv'
<1>1. ASSUME NEW w \in Writers, WriteMeta(w) PROVE QueueInv'
  <2>1. writer' \in [Writers -> WriterRec]
        /\ \A v \in Writers : writer'[v].pc = "hset" => writer'[v].task \in Tasks
    BY <1>1 DEF WriteMeta, QueueInv, WriterRec
  <2>2. /\ meta' = described' /\ meta' \subseteq Tasks /\ meta \subseteq meta'
        /\ UNCHANGED <<kind, queue, enqueues, reader>>
    BY <1>1 DEF WriteMeta, QueueInv
  <2> QED
    BY <2>1, <2>2 DEF QueueInv
<1>2. ASSUME NEW t \in Tasks, MetaExpires(t) PROVE QueueInv'
  <2>0. /\ meta' = meta \ {t} /\ described' = described \ {t}
        /\ UNCHANGED <<kind, queue, writer, enqueues>>
        /\ reader' = IF reader.task = t THEN [reader EXCEPT !.excused = TRUE]
                     ELSE reader
    BY <1>2 DEF MetaExpires
  <2>1. /\ reader' \in ReaderRec
        /\ reader'.pc = "read" => reader'.excused \/ reader'.task \in meta'
        /\ reader'.pc = "done" => reader'.excused \/ reader'.found
    <3>1. CASE reader.task = t
      BY <3>1, <2>0 DEF QueueInv, ReaderRec
    <3>2. CASE reader.task # t
      BY <3>2, <2>0 DEF QueueInv
    <3> QED
      BY <3>1, <3>2
  <2> QED
    BY <2>0, <2>1 DEF QueueInv
<1> QED
  BY <1>1, <1>2

\* The reader is excused from the start when nothing was stored for its task.
LEMMA ReaderStep ==
  ASSUME QueueInv, DequeueTask \/ GetTaskMeta \/ ReaderReturns
  PROVE  QueueInv'
<1>1. CASE DequeueTask
  <2>1. PICK e \in Entries :
           /\ First(e) /\ queue' = [queue EXCEPT ![e] = @ - 1]
           /\ reader' = [NoRead EXCEPT !.pc = "read", !.task = e[1],
                                       !.excused = e[1] \notin described]
    BY <1>1 DEF DequeueTask
  <2>2. /\ UNCHANGED <<kind, meta, described, writer, enqueues>>
    BY <1>1 DEF DequeueTask
  <2>3. queue' \in [Entries -> Nat] /\ \A f \in Entries : queue'[f] <= enqueues'
    BY <2>1, <2>2, StoreAssumption DEF QueueInv, First
  <2>4. /\ reader'.pc = "read" /\ reader'.task = e[1] /\ reader'.found = TRUE
        /\ reader'.excused \/ e[1] \in described
        /\ reader' \in ReaderRec
    BY <2>1, Zenon DEF NoRead, ReaderRec, Entries
  <2> QED
    BY <2>2, <2>3, <2>4 DEF QueueInv
<1>2. CASE GetTaskMeta
  <2>1. /\ reader.pc = "read"
        /\ UNCHANGED <<kind, queue, meta, described, writer, enqueues>>
    BY <1>2 DEF GetTaskMeta
  <2>4. CASE reader.task \in meta
    <3>1. (reader.task \in meta) = TRUE
      BY <2>4
    <3>2. reader' = [reader EXCEPT !.pc = "done", !.found = TRUE]
      BY <1>2, <3>1, Zenon DEF GetTaskMeta
    <3>3. reader' \in ReaderRec /\ reader'.pc = "done" /\ reader'.found
      BY <3>2 DEF QueueInv, ReaderRec
    <3> QED
      BY <2>1, <3>3 DEF QueueInv
  <2>5. CASE reader.task \notin meta
    <3>1. (reader.task \in meta) = FALSE
      BY <2>5
    <3>2. reader' = [reader EXCEPT !.pc = "done", !.found = FALSE]
      BY <1>2, <3>1, Zenon DEF GetTaskMeta
    <3>3. reader.excused
      BY <2>1, <2>5 DEF QueueInv
    <3>4. reader' \in ReaderRec /\ reader'.pc = "done" /\ reader'.excused
      BY <3>2, <3>3 DEF QueueInv, ReaderRec
    <3> QED
      BY <2>1, <3>4 DEF QueueInv
  <2> QED
    BY <2>4, <2>5
<1>3. CASE ReaderReturns
  BY <1>3 DEF ReaderReturns, QueueInv, ReaderRec, NoRead
<1> QED
  BY <1>1, <1>2, <1>3

-----------------------------------------------------------------------------
(* The agents *)

\* Records written, swapped and deleted between the commands of a sweep.
LEMMA RecordsStep ==
  ASSUME AgentsInv, RecordsNext
  PROVE  AgentsInv'
<1>t. /\ hash \in [IDs -> States \cup {NoHash}] /\ sweep \in SweepRec
      /\ members = {a \in IDs : hash[a] # NoHash}
  BY DEF AgentsInv
<1>1. ASSUME NEW a \in IDs, NEW st \in States, SetAgentFields(a, st)
      PROVE  AgentsInv'
  <2>1. st # NoHash
    BY DEF States, NoHash
  <2> QED
    BY <1>1, <2>1 DEF SetAgentFields, AgentsInv
<1>2. ASSUME NEW a \in IDs, NEW st \in States, NEW nx \in States,
             CompareAndSetAgentState(a, st, nx)
      PROVE  AgentsInv'
  <2>1. nx # NoHash
    BY DEF States, NoHash
  <2> QED
    BY <1>2, <2>1 DEF CompareAndSetAgentState, AgentsInv
<1>3. ASSUME NEW a \in IDs, DeleteAgent(a) PROVE AgentsInv'
  <2>1. /\ sweep'.pc = sweep.pc /\ sweep'.list = sweep.list
        /\ sweep'.seen = sweep.seen /\ sweep'.steady = sweep.steady \ {a}
        /\ sweep' \in SweepRec
    BY <1>3, <1>t DEF DeleteAgent, SweepRec
  <2>2. /\ hash' = [hash EXCEPT ![a] = NoHash] /\ members' = members \ {a}
        /\ kind' = kind
    BY <1>3 DEF DeleteAgent
  <2>3. /\ hash' \in [IDs -> States \cup {NoHash}]
        /\ members' = {b \in IDs : hash'[b] # NoHash}
    BY <2>2, <1>t
  <2> QED
    BY <2>1, <2>2, <2>3 DEF AgentsInv
<1>4. ASSUME NEW a \in IDs, SweepGet(a) PROVE AgentsInv'
  <2>1. /\ sweep.pc = "get" /\ UNCHANGED <<kind, hash, members>>
        /\ sweep'.pc = "get" /\ sweep'.list = sweep.list \ {a}
        /\ sweep'.seen = (IF hash[a] = NoHash THEN sweep.seen ELSE sweep.seen \cup {a})
        /\ sweep'.steady = sweep.steady /\ sweep' \in SweepRec
    BY <1>4, <1>t DEF SweepGet, SweepRec
  <2> QED
    BY <2>1 DEF AgentsInv
<1>5. CASE SweepBegin
  <2>1. /\ UNCHANGED <<kind, hash, members>> /\ sweep' \in SweepRec
        /\ sweep'.steady = members
        /\ \/ sweep'.pc = "done" /\ sweep'.seen = members
           \/ sweep'.pc = "get" /\ sweep'.list = members
    BY <1>5, <1>t DEF SweepBegin, SweepRec
  <2> QED
    BY <2>1 DEF AgentsInv
<1>6. CASE SweepEnd
  <2>1. UNCHANGED <<kind, hash, members>>
    BY <1>6 DEF SweepEnd
  <2>2. CASE sweep.pc = "get" /\ sweep.list = {} /\ sweep' = [sweep EXCEPT !.pc = "done"]
    BY <2>1, <2>2 DEF AgentsInv, SweepRec
  <2>3. CASE sweep' = NoSweep
    BY <2>1, <2>3 DEF AgentsInv, SweepRec, NoSweep
  <2> QED
    BY <1>6, <2>2, <2>3 DEF SweepEnd
<1> QED
  BY <1>1, <1>2, <1>3, <1>4, <1>5, <1>6 DEF RecordsNext

-----------------------------------------------------------------------------
(* The consumer group *)

\* Publishing, delivering and acknowledging keep the group's books.
LEMMA GroupStep ==
  ASSUME GroupInv, GroupNext
  PROVE  GroupInv'
<1>t. /\ log \in Nat /\ pos \in Nat /\ pos <= log
      /\ inbox \in [Consumers -> SUBSET (1..log)]
      /\ pending \in [Consumers -> SUBSET (1..log)]
      /\ \A c \in Consumers : pending[c] \subseteq inbox[c]
  BY StoreAssumption DEF GroupInv
<1>1. CASE PublishEvent
  <2>1. log' = log + 1 /\ log' \in 0..MaxLog /\ 1..log \subseteq 1..log'
        /\ UNCHANGED <<pos, made, inbox, pending>>
    BY <1>1, <1>t, StoreAssumption DEF PublishEvent
  <2> QED
    BY <2>1, <1>t DEF GroupInv
<1>2. ASSUME NEW start \in {0, log}, CreateConsumerGroup(start) PROVE GroupInv'
  BY <1>2, <1>t DEF CreateConsumerGroup, GroupInv
<1>3. ASSUME NEW c \in Consumers, NEW n \in 1..MaxLog, SubscribeEvents(c, n)
      PROVE  GroupInv'
  <2>1. /\ made /\ made' = made /\ log' = log /\ pos' \in Nat /\ pos' <= log
    BY <1>3, <1>t, StoreAssumption DEF SubscribeEvents
  <2>2. (pos + 1)..pos' \subseteq 1..log
    BY <2>1, <1>t
  <2>3. /\ inbox' = [inbox EXCEPT ![c] = @ \cup ((pos + 1)..pos')]
        /\ pending' = [pending EXCEPT ![c] = @ \cup ((pos + 1)..pos')]
    BY <1>3 DEF SubscribeEvents
  <2>4. /\ inbox' \in [Consumers -> SUBSET (1..log)]
        /\ pending' \in [Consumers -> SUBSET (1..log)]
        /\ \A d \in Consumers : pending'[d] \subseteq inbox'[d]
    BY <2>2, <2>3, <1>t, Zenon
  <2> QED
    BY <2>1, <2>4, <1>t DEF GroupInv
<1>4. ASSUME NEW i \in 1..log, AckEvent(i) PROVE GroupInv'
  BY <1>4 DEF AckEvent, GroupInv
<1> QED
  BY <1>1, <1>2, <1>3, <1>4 DEF GroupNext

\* Every step keeps the part it is about, and leaves the others alone.
LEMMA StoreInvStep ==
  ASSUME StoreInv, [StoreNext]_storeVars
  PROVE  StoreInv'
<1>q. ASSUME UNCHANGED <<kind, queueVars>> PROVE QueueInv'
  BY <1>q DEF StoreInv, QueueInv, queueVars
<1>a. ASSUME UNCHANGED <<kind, agentVars>> PROVE AgentsInv'
  BY <1>a DEF StoreInv, AgentsInv, agentVars
<1>g. ASSUME UNCHANGED groupVars PROVE GroupInv'
  BY <1>g DEF StoreInv, GroupInv, groupVars
<1>1. CASE QueueNext
  <2>1. QueueInv'
    BY <1>1, EnqueueStep, MetaStep, ReaderStep DEF QueueNext, StoreInv
  <2>2. UNCHANGED <<kind, agentVars, groupVars>>
    BY <1>1 DEF QueueNext, EnqueueTaskWithMeta, WriteMeta, MetaExpires,
                DequeueTask, GetTaskMeta, ReaderReturns
  <2> QED
    BY <2>1, <2>2, <1>a, <1>g DEF StoreInv
<1>2. CASE RecordsNext
  <2>1. AgentsInv'
    BY <1>2, RecordsStep DEF StoreInv
  <2>2. UNCHANGED <<kind, queueVars, groupVars>>
    BY <1>2 DEF RecordsNext, SetAgentFields, CompareAndSetAgentState,
                DeleteAgent, SweepGet, SweepBegin, SweepEnd
  <2> QED
    BY <2>1, <2>2, <1>q, <1>g DEF StoreInv
<1>3. CASE GroupNext
  <2>1. GroupInv'
    BY <1>3, GroupStep DEF StoreInv
  <2>2. UNCHANGED <<kind, queueVars, agentVars>>
    BY <1>3 DEF GroupNext, PublishEvent, CreateConsumerGroup, SubscribeEvents,
                AckEvent
  <2> QED
    BY <2>1, <2>2, <1>q, <1>a DEF StoreInv
<1>4. CASE UNCHANGED storeVars
  BY <1>4, <1>q, <1>a, <1>g DEF storeVars, StoreInv
<1> QED
  BY <1>1, <1>2, <1>3, <1>4 DEF StoreNext

-----------------------------------------------------------------------------
(* Theorems *)

\* The types of what the stores keep.
THEOREM StoreTypeCorrect == StoreSpec => []StoreTypeOK
<1>1. StoreInv => StoreTypeOK
  <2> SUFFICES ASSUME StoreInv PROVE StoreTypeOK
    OBVIOUS
  <2>1. queue \in [Entries -> 0..MaxEnqueues]
    BY StoreAssumption DEF StoreInv, QueueInv
  <2> QED
    BY <2>1 DEF StoreInv, QueueInv, AgentsInv, GroupInv, StoreTypeOK,
                WriterRec, ReaderRec, SweepRec
<1>2. StoreInv /\ [StoreNext]_storeVars => StoreInv'
  BY StoreInvStep
<1> QED
  BY <1>1, <1>2, StoreInvInit, PTL DEF StoreSpec

\* Re-enqueues without metadata never lose those a task was submitted with.
THEOREM MetadataSurvive == StoreSpec => []MetaSurvives
<1>1. StoreInv => MetaSurvives
  BY DEF StoreInv, QueueInv, MetaSurvives
<1>2. StoreInv /\ [StoreNext]_storeVars => StoreInv'
  BY StoreInvStep
<1> QED
  BY <1>1, <1>2, StoreInvInit, PTL DEF StoreSpec

\* A sweep over the agents misses none that is there all the time.
THEOREM SweepsMissNobody == StoreSpec => []SweepComplete
<1>1. StoreInv => SweepComplete
  BY DEF StoreInv, AgentsInv, SweepComplete
<1>2. StoreInv /\ [StoreNext]_storeVars => StoreInv'
  BY StoreInvStep
<1> QED
  BY <1>1, <1>2, StoreInvInit, PTL DEF StoreSpec

-----------------------------------------------------------------------------
(* The refinement *)

\* An empty store is an empty queue and a group that has had nothing.
LEMMA RefineInit == StoreInit => Contract!Init
BY DEF StoreInit, Contract!Init, Entries, Contract!Entries

\* What the queue does is one of the two insertions, a removal of a first
\* entry, or nothing the contract sees.
LEMMA RefineQueue ==
  ASSUME StoreInv, QueueNext
  PROVE  [Contract!Next]_(Contract!contractVars)
<1>1. ASSUME NEW w \in Writers, NEW t \in Tasks, NEW p \in Prios,
             NEW zero \in BOOLEAN, EnqueueTaskWithMeta(w, t, p, zero)
      PROVE  Contract!Next
  <2> DEFINE e == <<t, p>>
  <2>0. e \in Contract!Entries
    BY DEF Contract!Entries
  <2>1. queue' = Insert(t, p) /\ UNCHANGED <<handed, log, pos, inbox>>
    BY <1>1 DEF EnqueueTaskWithMeta, groupVars
  <2>2. CASE kind = "mock"
    <3>1. queue' = [queue EXCEPT ![e] = @ + 1]
      BY <2>1, <2>2 DEF Insert
    <3>2. Contract!Enqueue(e)
      BY <2>1, <3>1 DEF Contract!Enqueue
    <3> QED
      BY <2>0, <3>2 DEF Contract!Next
  <2>3. CASE kind # "mock"
    <3>1. \A f \in Entries : f[1] = t => (f[2] = p <=> f = e)
      BY DEF Entries
    <3>2. queue' = [f \in Entries |-> IF f[1] # t THEN queue[f]
                                      ELSE IF f[2] = p THEN 1 ELSE 0]
      BY <2>1, <2>3 DEF Insert
    <3>3. queue' = [f \in Contract!Entries |-> IF f[1] # e[1] THEN queue[f]
                                               ELSE IF f = e THEN 1 ELSE 0]
      BY <3>1, <3>2 DEF Entries, Contract!Entries
    <3>4. Contract!Enqueue(e)
      BY <2>1, <3>3 DEF Contract!Enqueue
    <3> QED
      BY <2>0, <3>4 DEF Contract!Next
  <2> QED
    BY <2>2, <2>3
<1>2. CASE DequeueTask
  <2>1. PICK e \in Entries :
           First(e) /\ queue' = [queue EXCEPT ![e] = @ - 1] /\ handed' = {e}
    BY <1>2 DEF DequeueTask
  <2>2. UNCHANGED <<log, pos, inbox>>
    BY <1>2 DEF DequeueTask, groupVars
  <2>3. Contract!Dequeue(e) /\ e \in Contract!Entries
    BY <2>1, <2>2 DEF First, Contract!Dequeue, Contract!Waiting, Entries,
                      Contract!Entries
  <2> QED
    BY <2>3 DEF Contract!Next
<1>3. ASSUME \/ \E w \in Writers : WriteMeta(w)
             \/ \E t \in Tasks : MetaExpires(t)
             \/ GetTaskMeta \/ ReaderReturns
      PROVE  UNCHANGED Contract!contractVars
  BY <1>3 DEF WriteMeta, MetaExpires, GetTaskMeta, ReaderReturns, groupVars,
              Contract!contractVars
<1> QED
  BY <1>1, <1>2, <1>3 DEF QueueNext

\* Each read of the group gets events that follow all that were delivered.
LEMMA RefineGroup ==
  ASSUME StoreInv, GroupNext
  PROVE  [Contract!Next]_(Contract!contractVars)
<1>t. log \in Nat /\ pos \in Nat /\ pos <= log
  BY StoreAssumption DEF StoreInv, GroupInv
<1>1. CASE PublishEvent
  BY <1>1 DEF PublishEvent, queueVars, Contract!Next, Contract!Publish
<1>2. ASSUME NEW start \in {0, log}, CreateConsumerGroup(start)
      PROVE  Contract!Next
  BY <1>2 DEF CreateConsumerGroup, StoreInv, GroupInv, queueVars,
              Contract!Next, Contract!Create
<1>3. ASSUME NEW c \in Consumers, NEW n \in 1..MaxLog, SubscribeEvents(c, n)
      PROVE  Contract!Next
  <2>1. pos' \in (pos + 1)..log
    BY <1>3, <1>t, StoreAssumption DEF SubscribeEvents
  <2>2. Contract!Deliver(c)
    BY <1>3, <2>1 DEF SubscribeEvents, queueVars, Contract!Deliver
  <2> QED
    BY <2>2 DEF Contract!Next
<1>4. ASSUME NEW i \in 1..log, AckEvent(i)
      PROVE  UNCHANGED Contract!contractVars
  BY <1>4 DEF AckEvent, queueVars, Contract!contractVars
<1> QED
  BY <1>1, <1>2, <1>3, <1>4 DEF GroupNext

\* MockStore and RedisStore implement the contract of StateStore: the lowest
\* score first, and distinct events to competing consumers.
THEOREM StoresKeepContract == StoreSpec => KeepsStoreContract
<1>1. StoreInv /\ [StoreNext]_storeVars => [Contract!Next]_(Contract!contractVars)
  <2> SUFFICES ASSUME StoreInv, [StoreNext]_storeVars
               PROVE  [Contract!Next]_(Contract!contractVars)
    OBVIOUS
  <2>1. CASE RecordsNext
    BY <2>1 DEF RecordsNext, SetAgentFields, CompareAndSetAgentState,
                DeleteAgent, SweepGet, SweepBegin, SweepEnd, queueVars,
                groupVars, Contract!contractVars
  <2>2. CASE UNCHANGED storeVars
    BY <2>2 DEF storeVars, queueVars, groupVars, Contract!contractVars
  <2> QED
    BY <2>1, <2>2, RefineQueue, RefineGroup DEF StoreNext
<1>2. StoreInv /\ [StoreNext]_storeVars => StoreInv'
  BY StoreInvStep
<1> QED
  BY <1>1, <1>2, StoreInvInit, RefineInit, PTL
  DEF StoreSpec, KeepsStoreContract, Contract!Spec
=============================================================================
