# TLA+ verification of agenKic-orKistrator

The orchestrator (Go, `src/internal`, `src/cmd`) registers agents, hands them
tasks from a priority queue, watches their heartbeats, recovers the tasks of
agents that fall silent, and runs DAGs of tasks. A Godot front end talks to it
over an HTTP bridge with server-sent events; workers talk to it over gRPC.

`PROJECT.json` lists components, runs, theorems, findings and hazards, and maps
every definition to the lines it models. This file says how they fit together.

## 1. Inventory

### Components, their state and operations

| Component | State | Operations | What makes it correct |
|---|---|---|---|
| Agent lifecycle (`internal/agent`) | the `State` field of an agent record: idle, assigned, working, reporting | `ApplyEvent`: read, look up, compare-and-set | only legal transitions, lost races are noticed |
| Supervisor (`internal/supervisor/supervisor.go`) | per-agent mutexes, cooldowns, open circuits, `stopped`, assignment backoff | `RegisterAgent`, `Stop`, `RemoveAgent`, `checkHeartbeats`/`crashAgent`, `tryAssignTask`/`findIdleAgent`, `Heartbeat`, `StartWork`, `ReportOutput`, `CompleteAgent` | no task lost or run by two agents; benched agents get no work; silent agents are recovered; nobody waits for ever |
| Restart policy (`restart.go`) | crash times and consecutive count per agent | `RecordCrash`, `RecordSuccess` | the circuit opens after more than `crashThreshold` crashes in the window, and is probed later |
| Reaper (`reaper.go`) | none | one sweep: list sessions, list agents, remove orphans | never removes an agent that lives or is starting |
| Completion registry (`completion.go`) | channels by task, tombstones, times of planted channels | `Wait`, `Complete`, `Cleanup`, `SweepOnce` | no signal lost or invented; the maps drain |
| DAG engine (`internal/dag`) | executions, node states, goroutines | `NewGraph`, `TopologicalSort`, `Execute`, `run`, `executeNode`, `Shutdown`, tracker marks | dependency order, fail-fast, an outcome that agrees with the nodes, termination |
| State store (`internal/state`) | agent records, task queue, task metadata, event stream | get/set/CAS/clear/delete, enqueue/dequeue, publish/read | atomic single calls; any call may fail |
| gRPC server (`internal/ipc`) | none of its own | one handler per RPC, `StreamOutput`, `GracefulStop` | handlers are concurrent with each other and with the loops |
| HTTP bridge (`internal/httpbridge/handlers.go`) | none for the power controls | cancel, reassign, despawn, spawn, restart, submit | they take no mutex and must still not lose tasks |
| Event broker and SSE (`broker.go`, `sse.go`) | cursor, subscriber buffers, per-connection gate | poll, `Subscribe`, `Unsubscribe`, `Close`, backfill, live delivery | one ordered run of the log per connection, from the cursor on |
| Floors (`bridge.go`) | slots per floor, reservations, names | reserve, commit, release, despawn | at most four agents per floor, no reservation outlives its request |
| Workers (`simagent`, `cliagent`, `cmd/demoworker`) | a loop with heartbeat and poll tickers | register, poll, start, report, complete | a task is completed by the worker that ran it; no agent is left busy |
| Model gateway (`internal/gateway`) | cost records | fallback chains, router, cost report | the chain tried in order, errors complete, a cancellation told as one, no cost counted twice |
| Health (`internal/health`, `ipc/health_*`) | the gRPC health status | `Check`, the updater, `/readyz`, `/progress` | ready only when it is; not serving after a shutdown |
| Terminal substrate (`internal/terminal`) | tmux sessions | spawn, destroy, list, send, capture | external |
| Godot client (`godot/scripts/autoload/bridge_manager.gd`) | caches, cursor, backoff, command queue | sync, SSE, reconnect, commands | caches converge to the store |
| Process (`cmd/orchestrator/main.go`) | which components are down | signal and restart goroutines, `gracefulShutdown`, re-exec | the shutdown ends, and in order |

### Interactions

The supervisor's three loops (heartbeat monitor, task assigner, reaper) and any
number of gRPC and HTTP handlers run concurrently. They share the store, the
maps guarded by `sv.mu`, one mutex per agent, and the completion registry. The
HTTP handlers and the reaper change agent records without the agent's mutex. A
DAG node's goroutine enqueues its task and blocks in the registry; it is woken
when an agent's `CompleteAgent`, a cancel or a despawn calls `Complete`. Workers
are goroutines or processes that poll their agent's state and make the calls.
The broker polls the event log and fans it out to one buffered channel per SSE
connection; a connection first replays from the client's cursor to a cut, then
delivers live. The Godot client fetches lists and follows the stream. A signal
and a restart request shut all of this down, each in a goroutine of its own,
while main waits for the gRPC server only.

### What is hard

- A crash, a completion and an assignment each take several store calls; other
  goroutines and store failures come between any two of them.
- `findIdleAgent` decides on snapshots, and `Heartbeat` and `tryAssignTask`
  write back whole records.
- The power controls bypass the mutexes.
- A worker is silent while it runs a task, for longer than the monitor waits.
- Completion may come before, during, after or instead of a wait; entries are
  removed by time.
- DAG failure, cancellation and shutdown race nodes that are finishing.
- Replay and live delivery meet at a cut, buffers overflow, clients resume with
  cursors that may be of another process's log.
- Two goroutines may run the shutdown, which waits for RPCs, streams and the
  poll goroutine, and main may return under them.
- Spawns reserve a slot, call out, and commit; despawns and the reaper come in
  between. Redis pipelines are not atomic. Health checks take several readings.

The list of hazards in `PROJECT.json` gives each one at its line.

## 2. Modules

| Module | Models |
|---|---|
| `AgentMachine` | the lifecycle table |
| `Supervisor` | supervisor, restart policy and in-memory store; extends `AgentMachine` |
| `Control` | cancel, reassign, despawn and the reaper beside the supervisor; extends `Supervisor` |
| `Workers` | the loops of `simagent` and `cliagent` in place of `Supervisor`'s arbitrary clients; extends `Supervisor` |
| `Completion` | completion registry and `BlockingSubmitter` |
| `Graph` | DAG validation and Kahn's algorithm as operators, with reference definitions |
| `DagContract` | abstract specification: what the status tracker may report of an execution |
| `Dag` | the executor, extends `Completion` and `Graph`, implements `DagContract` |
| `EventFeed` | abstract specification: what the event stream promises a client |
| `Stream` | event log, broker, SSE connections, clients that resume; implements `EventFeed` |
| `Process` | signal, restart, main, a kill and the next process around `Stream` |
| `Floors` | reservations, spawn, despawn and the reaper on the bridge's registries |
| `StoreContract` | abstract specification: the queue by score and the consumer group of the `StateStore` interface |
| `Store` | the in-memory store and the Redis store at the grain of Redis commands; implements `StoreContract` |
| `Health` | `Check`, the gRPC updater, `/readyz` and `/progress` through outages and shutdown |
| `Gateway` | fallback chains, router, cancellation, cost reports |
| `BridgeClient` | the Godot client: sync, reconnection, resumed stream, cache, command queue |
| `Services` | `Floors`, `Health`, `Store`, `Gateway` and `BridgeClient` side by side |
| `MCSupervisor`, `MCControl`, `MCWorkers`, `MCDag`, `MCProcess`, `MCServices` | values of the constants for TLC |
| `SupervisorInvariant`, `SupervisorProofs`, `TaskProofs`, `WorkersProofs`, `ControlProofs`, `DagProofs`, `StoreProofs`, `StreamProofs`, `ServicesProofs` | inductive invariants and theorems |

Operators named `...` with a comment "Mutant:" stand beside the definition they
would replace; no specification uses them. They are plausible slips in the code,
one for each property, which the property excludes.

### The grain of the supervisor's model

One step is one store call, one access to the maps that `sv.mu` guards, or one
acquisition of a per-agent mutex. The code between two such accesses touches
only a goroutine's locals. These are the records `asg` (task assigner), `mon`
(heartbeat monitor), `call[c]` (a gRPC handler), `ctl[o]` (an HTTP handler) and
`reap` (the reaper), whose `pc` names the next access. `ApplyEvent` is two
steps, a read and a compare-and-set. A release is part of the last access under
the lock.

Data are abstracted to what the code tells apart. A heartbeat is fresh or
stale, a cooldown is the 24-hour sentinel, running or over, a crash is inside
the window or not. The queue is a bag of (task, priority) entries from which
any entry of lowest priority is taken: `sort.Slice` is not stable. Every store
or substrate call may fail, `MaxFaults` times in a behaviour, and a failed call
has no effect. In `Supervisor` and `Control` client workers are arbitrary: any
handler may be called at any time for any agent, with any task ID for
`CompleteAgent`, so late, repeated and out-of-order calls are included. Agent
IDs are fresh UUIDs and are registered once; `Tasks` are submitted once by
clients (re-enqueues are the code's own).

### Control

An HTTP handler reads the record once and then acts on what it read, as the
code does. Despawn is clear, signal, `RemoveAgent`, `DeleteAgent`; the reaper's
removal is the last two. `SessionDies` is the external event that a tmux
session ends. `aged` marks agents older than `reapInterval`; the model lets an
agent age only when its registration is over and no sweep is under way, that
is, it assumes that spawning a session and one sweep each take less than the
interval (15 s).

### Workers

A worker is one sequential loop, so one call of `Supervisor` is under way for it
at a time, and its `pc` says what follows the call's return. A simagent never
asks which task it runs; a cliagent looks the prompt up before `StartWork` and
may find a default. `began` is the task the agent was assigned when `StartWork`
succeeded. While it runs, the agent's heartbeat grows stale like any other's. A
cliagent may fail to start after its agent is registered, and may give up
(`MayExit`).

### Completion and Dag

Channels are values of their own: a map entry names a channel, goroutines keep
theirs, `closed` is the set of closed ones. `work[t]` counts executions of `t`
that were enqueued and are not over; `Complete(t)` ends one and calls the
registry, so completions come in any order and at any time. A timestamp is
young or old; `Age` assumes that a goroutine gets from `EnqueueTask` to `Wait`
within `tombstoneTTL` (60 s; the code between is one return). `Dag` has one
goroutine per execution and one per node. Recursion in `Graph` is a recursive
function, so that modules with theorems can use it.

### Stream and Process

An event is its number in the log. The broker reads a batch and fans it out, in
two steps, under its mutex in the second; a full buffer drops. A connection
subscribes and takes the cut in one critical section, replays page by page until
it meets the cut, and then delivers live; when the replay ends without having
met the cut, the channel is gated until the last replayed event comes by. A
closed broker refuses it. Its client leaves at any moment and comes
back with the cursor of the last event it got, or with none. `EventFeed`
promises such a client one uninterrupted run of the log that starts no later
than the event after its cursor and reaches every event published while it is
connected; the promise is void for a connection that dropped events, whose
replay failed (the code goes on live), or whose cursor is of a log that is gone.
`Process` wraps this in `gracefulShutdown`'s stages, once per stopper, the
return of main when the gRPC server has stopped, the re-exec, a kill at any
moment, and a new process over a kept log (Redis) or an empty one (in-memory).
RPCs are of two kinds: unary ones return, while `StreamOutput` and the health
service's `Watch` last until their client ends them. A client of the event
stream may stop reading; since the server has no `WriteTimeout` (bridge.go:204)
its request then waits in a write until the client reads again or hangs up. The
shutdown waits for RPCs and for the poll goroutine without a limit, closes the
bridge's listener, and waits for the streams until they have ended
(`StopBridge`) or five seconds are over (`Deadline`, possible at any moment).

### Services

These components share no variable with the others nor with each other:
`Floors` sees the store as a set of records, `Store` is the store seen from the
inside, `Health` sees a count that changes, `Gateway` has models served by
providers that answer or fail, and `BridgeClient` has an orchestrator that
changes its agents, publishes the changes and keeps `EventFeed`'s promise. A behaviour of
the whole is a shuffle of independent behaviours, and no property here relates
two of them. `Services` therefore picks one `part` at the start and runs it
alone. `Store` has three parts, which touch different keys in Redis (queue and
metadata, agents' records, the stream's group), and `BridgeClient` two, the cache
and the commands, which share only the connection and are checked each with it.

In `Store`, `kind` says which store it is: every operation of the in-memory one
is one step; a Redis pipeline without MULTI is a step per command. In
`BridgeClient` the sync's two requests are answered separately and late, a
reconnection that finds one still out is refused by Godot and fails at once, and
a request to the event stream may be answered from any event up to the one after
the cursor. The log is the sequence of the changes in the order in which they
were published, which need not be theirs: what is published under an agent's
mutex comes before the next change made under it, but `task_assigned` is
published after the mutex is released, and registrations, cancels and despawns
are published without one. A cancel that is refused half-way is left out.

In `Gateway` a model may have a completer, with a provider name that other models
can share (all that go through LiteLLM are 'litellm' unless configured
otherwise). The error of a failed call names that provider; only that of a model
without a completer names the model. `backoff` counts doublings; after `Doublings` of them it is longer
than the requests' timeout (10 s against a cap of 30 s).

## 3. Runs

| Run | Instance | Question |
|---|---|---|
| `sup_tasks` | 1 agent with a session, 2 tasks of different priority, 1 handler, `Stop`, threshold 1, reliable store; 1.1 million states | Does a task survive every interleaving of assignment, crash, completion and heartbeats, once and with its priority? Is a benched agent left alone? |
| `sup_pair` | 2 agents, 1 task, 1 handler; 4.4 million states | The same between agents: a task taken from one is never lost on its way to the other and never with both |
| `sup_live` | 1 agent, 1 task, 1 handler, one store failure anywhere, fairness | Does every sweep, assignment and call return, is a silent agent recovered, does a deferred crash leave nothing behind, does an open circuit bound the crashes? |
| `ctl_heal` | 1 agent, 1 task, 1 handler, one cancel, fairness | Does the heartbeat repair whatever state a cancel without a mutex leaves, as its comment says? |
| `ctl_remove` | 1 agent, 1 task, any one control, reaper, tmux, `Stop`, one failure; 3.1 million states | Do removals, sweeps and session deaths keep priorities and spare living agents? |
| `workers` | 1 agent with a CLI worker that may give up, 2 tasks, threshold 2, fairness; 232 thousand states | Does the silent run, with crashes and new assignments under it, ever complete a task that was not run, strand an agent, or keep a task from its completion? |
| `dag_runs` | 1 execution of every graph of two nodes (self-loops, cycles, repeated dependencies), 24 graphs of three, malformed ones; failing enqueues, shutdown, fairness | Dependency order, contract, tight levels, no lost or invented signal, termination, shutdown, registry drains |
| `stream` | 1 client that connects twice and may stop reading, 2 events, batches of 2, buffer of 1, one failed replay, signal and restart, two processes, one RPC of each kind, fairness; 356 thousand states | Is what a client gets one ordered run that catches up? Does the shutdown end, and in order? |
| `services` | 3 spawns and a despawn on floors of 2; 2 agents and an outage; 2 writers, 2 tasks, 3 agents, 2 consumers; 2 models of 2 providers; 1 agent with 3 changes, one cut, one drop, 2 commands; 445 thousand states | The properties of the five components, see below |
| `ctl_loss`, `dag_retry`, `proc_restart` | smallest instance that shows it | Does the code do what a comment or specification says? It does not; see below |

Why these bounds. The supervisor's interleavings are between the assigner, the
monitor and a handler that act on one agent: `sup_tasks` has all of these and a
second task to be given to the agent. A handler reads nothing that it uses later
before it has the agent's mutex, so two handlers of one agent follow each other
and one that makes any sequence of calls stands for both. Agents are independent
but for the assigner's choice and the monitor's scan, which two agents
exercise. Threshold 1 lets an agent crash with and without opening its
circuit. One failure suffices to enter each error path, and a second one to the
same behaviour would only add losses the code logs and accepts ("task lost").
DAG nodes interact through levels: three nodes give a level after a level and
two nodes in one level. Connections do not interact (the broker's sends to them
are independent), so one client that connects twice suffices for the order and
completeness of what it gets; two events overflow a buffer of one, fill a batch,
and can be on both sides of a cut. Logs longer than a batch are left to
`EventsInOrder` and `StreamKeepsFeed`, which hold for any. Three spawns overfill a floor of two. A client's cut during a
sync, a replay or a command, with changes before, during and after it, needs one
cut and three changes, of which any two may be
published the other way round where the code allows it. The theorems remove the bounds where they
apply.

Deadlock is checked except in `stream`, `proc_restart` and `services`: there the
processes may stop for good (the last one has shut down, all requests have been
answered), which is how these behaviours end.

### Properties

- `TaskHasOnePlace`: a submitted task is in exactly one place: queue, assigner's
  hand, an agent that answers for it, or done. It is claimed for a reliable
  store; with a failing store the code re-enqueues from several places and logs
  losses.
- `PriorityKept`: every re-enqueue uses the original priority, failures or not.
- `BenchRespected`: no step makes an agent busy whose circuit is open or whose
  cooldown runs.
- `SentinelIsTransient`, `CrashesBounded`, `EveryoneReturns`,
  `SilentAgentRecovered`: as in the table.
- `RaceSelfHeals`, `ReaperSparesTheLiving`: the two claims in comments on which
  the handlers without a mutex rest.
- `HonestCompletion`, `BusyMeansWorked`, `TasksGetDone`: only the worker that
  ran a task to the end completes it, however many times the agent was crashed
  and re-assigned under it; an agent that is working has a worker at it; once
  runs do not outlast the monitor's patience every task is done, unless the
  worker gave up or the circuit opened.
- `NoStrandedWaiter`, `NilMeansDone`: a goroutine blocked on an open channel has
  an execution to wait for; a nil result means that the execution is over.
- `KeepsContract`: `Dag` implements `DagContract` (refinement, with the tracker's
  states as the mapping). `SortIsTight` compares Kahn's levels with the longest
  path to each node. `WorkInOrder` looks at executions, not at marks.
- `ExecutionEnds`, `RegistryDrains` assume that agents finish what they are
  given; `ShutdownReturns` assumes nothing of them.
- `KeepsFeed`, `FeedCatchesUp`: `Process` implements `EventFeed`; a connection
  that stays open in a process that stays up gets every event, unless its client
  has stopped reading. `InOrder`: what
  one connection is sent rises strictly, promise void or not. `FanOutSafe`: no
  send on a closed channel, no channel left open by a closed broker.
- `EverythingStops`: the shutdown ends whether the clients of the event stream
  read or not, unless a streaming RPC stays open; and a stream ends once the
  broker is closed, the deadline left aside, unless its client does not read.
  `DrainedInOrder`: when the executor and the supervisor stop, no RPC is open, no
  connection is accepted, the poll goroutine is gone and every channel closed.
  Streams may be left, but only if the deadline cut the wait for them.
- `FloorCapacity`, `NoLeakedToken`, `Placed`: no floor above its capacity,
  reservations end with their requests, and an agent whose spawn was answered
  stays on that floor until somebody despawns it.
- `MetaSurvives`, `SweepComplete`, `KeepsStoreContract`: metadata survive
  re-enqueues and non-atomic pipelines; a sweep over the agents misses nobody
  who was there throughout; both stores implement the contract.
- `ReadyIsHonest`, `HealthSettles`: a ready verdict means that the readings
  succeeded and there were enough agents at some moment of the check; the gRPC
  status settles on the truth once the store does, and stays down after the
  shutdown.
- `ErrorsTellAll`: an error has one entry for each model that the call has gone
  past, in the chain's order ("one `ProviderError` per provider in the list",
  config-loader-fallback-chains-spec.md:403-404), and tells a cancellation from
  an exhausted chain. An entry is named for the provider of the call that
  failed, or for the model that had no completer; two models of one provider
  are not told apart by their names.
- `ReportAdds`: reports of adjacent periods lose nothing of the report of both,
  and are exactly it when no record lies on the boundary between them; reports of
  tiers add up. What a record on the boundary counts for is left open, as the
  documents disagree on it (see below).
- `CacheSettles`, `CommandsReturn`: from some time on the client shows every
  agent as the store has it, unless the bridge stays away, the open connection
  lost an event, or the events that tell an agent's present state were published
  out of order (`InTurn` excludes it); every command is answered if the bridge stays back.

### Findings

1. `ctl_loss`: reassign clears the binding of a task it did not read, and that
   task is lost; its comment excludes loss.
2. `dag_retry`: the tombstone of a task's first run swallows the completion of
   its second; a DAG submitted again soon after may hang.
3. `proc_restart`: main returns as soon as the gRPC server is stopped, so a
   restart requested over HTTP usually ends the process instead of replacing it.

### Disagreements without a run

Met while modelling. The models have the behaviour, and the properties are
stated around it; none has a run of its own.

- `crashAgent` leaves `CurrentTaskID` in the record. After a failed
  `SetAgentFields` an assigned agent answers for a task that is back in the
  queue, against "No dual-ownership risk" (supervisor.go:466).
- An open circuit is never probed: the half-open state that restart.go promises
  does not exist, and a benched agent stays benched until it is removed.
- A heartbeat or an assignment that read the record before a despawn writes it
  back after; the agent is listed again, without a mutex.
- Edges posted to the HTTP bridge are not used as dependencies.
- `reapAgent` removes a busy agent without re-enqueuing or signalling its task,
  unlike the despawn it says it mirrors.
- Fail-fast leaves the tasks of cancelled nodes in the queue; agents run them.
- An agent is ASSIGNED before its record names the task, so a CLI worker may run
  a default prompt, or that of an earlier task, and complete the new one.
- A worker sends no heartbeat during a run of up to five minutes while the
  monitor waits 30 seconds: the task is re-enqueued and run again.
  docs/ARCHITECTURE.md:240 has heartbeats during work.
- `GetAgentState` answers NotFound for every store error, on which a CLI worker
  exits for good; when `ReportOutput` or `CompleteAgent` fails with a store error
  the agent may stay busy, fresh and unworked. A CLI worker whose directory
  cannot be made leaves a registered agent without a worker.
- Floor slots leak to agents that are gone: a despawn between registration and
  commit forgets nothing and the commit books the slot; the reaper never tells
  the bridge.
- A client that comes back to a new process with an in-memory store misses the
  events of the new log up to its old cursor: the replay starts after it and
  live delivery after the cut.
- Events are not published in the order of the changes where no mutex orders
  them: `task_assigned` (supervisor.go:499) may follow `work_started` or a crash
  of the same assignment, and an assignment may precede `agent_registered`
  (supervisor.go:150). A client that gets such a pair keeps the older state until
  the agent's next event or a sync, against sse.go:190-193 ("SSE replay naturally
  converges to the current state"). `BridgeClient` has these orders, and
  `CacheSettles` takes as a premise that the events which tell the present state
  came in turn, whatever older ones did. A crash is
  shown as "crashed" for an agent that the store calls idle, until its next event
  or sync.
- `GracefulStop` has no deadline (ipc/server.go:67-72, main.go:227): an open
  `StreamOutput` (ipc/handlers.go:92) or health `Watch` (registered at
  ipc/server.go:60-62) keeps the shutdown from ending for as long as its client
  likes. `EverythingStops` excepts it.
- main.go:218-221 says "drain external-facing servers, then shut down internal
  components", but the five seconds of main.go:228-231 end the wait for the event
  streams and the result is ignored: with a client that does not read, executor
  and supervisor are stopped while its stream is open.
- The gateway's errors name the completer's provider, 'litellm' by default
  (litellm.go:111, 148, fallback.go:97-103), so those of two models behind one
  provider cannot be told apart.
- LiteLLM's client wraps a context error as text, so that `errors.Is` does not
  find the cancellation if it comes in the last attempt of a chain.
- Whether a period of the cost report includes its end: cost.go:43 and
  cost-tracking-spec.md (lines 24, 95, 186-191, 291, 307) say that it does, the
  specification accepting that a record on a common boundary is counted twice;
  the code (cost.go:52), gateway.go:147-149, cost_test.go:93-115 and
  gateway-interface-types-spec.md:41 exclude it. `ReportAdds` holds either way.

### Fairness

`Supervisor`, `Control`, `Workers`: weak fairness of the two loops and of every
handler that has begun: their goroutines are scheduled and their tickers fire.
Strong fairness of mutex acquisition: Go's `sync.Mutex` hands over to a waiter
after one millisecond (starvation mode). Weak fairness of time passing
(cooldowns, window, backoff, TTL). In `Supervisor` and `Control` nothing is
assumed of workers, clients or operators. In `Workers` the worker's own steps
are strongly fair, as its select picks at random among the tickers that are due,
and a run ends, by its timeout at the latest; that runs become shorter than the
monitor's threshold is a premise of `TasksGetDone`, not an assumption.

`Dag`: run and node goroutines and the registry's reaper are fair; the reaper
stops with the process's context, which `RegistryDrains` allows for. `Process`:
the poll goroutine, unary RPCs (their handlers end by themselves), serving the
connections whose clients read, and the stoppers. That a client ends a streaming
RPC or reads its events is not assumed, nor that the deadline expires before the
streams have ended. Signals, kills and restarts are never assumed to happen.
`Health`: the updater's steps; strong fairness of its exit, because its select
between ticker and context is random when both are ready.

`BridgeClient`: frames are drawn and timers fire, requests are answered, refused
or time out, events that have happened are published. That the bridge comes back
and that the user does anything is not assumed. Reconnection attempts cannot
overtake their own requests for ever because the backoff grows beyond the
requests' timeout (`Doublings`).

## 4. Proofs

TLAPS proves the following for all values of the constants, from the assumptions
stated in the modules (`ConstantsAssumption`, `ControlAssumption`,
`WorkersAssumption`, `CompletionAssumption`, `DagAssumption`, `SpecsAssumption`,
`FloorsAssumption`, `StoreAssumption`, `HealthAssumption`, `GatewayAssumption`,
`StreamAssumption`, `ProcessAssumption`). Two theorems or groups of theorems have
a hypothesis of their own: `MaxFaults = 0` (a reliable store) where a task's
place is claimed, and `UniqueTaskIDs` (no task ID is submitted twice) for what
the completion registry promises; `dag_retry` shows the second one necessary.
Each proof has one step per action and combines them with `PTL`. The
specifications keep the bounds on counters (faults, events, processes) as
constants, so a theorem for every value of them is one for any number.

### Supervisor

- `TypeCorrect`: `TypeOK` alone is not inductive: a step indexes `agState` by a
  local that may be `None`. `LocalsBound` says that a goroutine that works on an
  agent has one, and that the assigner has a task.
- `PriorityCorrect`: the queue's priorities come from copies; `PriorityTravels`
  says that each copy (assigner's local, agent record, crashAgent's pre-read,
  heartbeat's write-back) of a task carries the task's own priority.
- `SentinelCorrect`: only `MonSentinel` plants the sentinel, and every path to
  the end of `crashAgent` takes it away.
- `MutexExcludes`: `LockDiscipline`, the owner of an agent's mutex is the one
  goroutine that its `pc` puts between acquisition and release, error paths
  included. The next three rest on it.
- `BenchIsRespected`: `tryAssignTask` looks at cooldown and circuit before it
  has the mutex. `BenchHeld` says why the look stays true until the
  compare-and-set: who benches an agent holds its mutex from before the cooldown
  to the end, and the assigner looks again once it has the mutex.
- `CrashesStayBounded`: `CircuitHolds`, a closed circuit has no more crashes than
  the threshold, and an agent with an open one is idle and not being crashed, so
  the crash that opens the circuit is the last.
- `TasksHaveOnePlace` (`MaxFaults = 0`): the invariant joins `LockDiscipline`,
  `Known` (nobody works on an agent before its record exists), `IdleUnderLock`
  and `BindingsAgree` (what a goroutine under the mutex has read of an agent's
  state and binding is still so) and `OnePlace`, which counts the places of a
  task, including those inside a crash, an assignment and a completion.

### Workers

- `WorkersUseSupervisor`: the refinement `WorkersSpec => Spec`: the loops make
  only calls that `Supervisor` lets any client make. All of the above holds
  under them; `WorkersKeepOnePlace` states it for `TaskHasOnePlace`.
- `BusyIsWorked`, `CompletionIsHonest`: a worker's agent has its mutex entry
  before the loop starts (`Enlisted`), a call is made from one phase of the loop
  (`OwnCalls`), what calls and assigner have read is still so (`ReadsAgree`), so
  a call fails only for the state it finds, and the phase says what state that
  was (`Faithful`). A completion refers to the task the agent had when the run
  began, because a crash in between makes the compare-and-set fail.

### Control

- `ControlTypeCorrect`, `ControlsKeepPriority`, `ControlsKeepSentinel`: the
  supervisor's invariants, with `ActorsBound` for handlers and reaper and
  `ReassignTravels` for the copy that reassign re-enqueues. `LockDiscipline` does
  not hold here: `RemoveMaps` drops the mutex of an agent that a goroutine may
  hold. What rests on it stays with `Supervisor` and `Workers`.
- `ReaperIsPatient`: `ReaperHolds`: an agent that is aged is past its
  registration and gets no new session (`AgedAreSettled`), and a sweep's list
  has every session that an aged agent still has (`SweepSeesSessions`): whoever
  the sweep takes for an orphan has none and will have none.

### Completion and Dag

- `NoSignalLost`, `NoSignalInvented` (`UniqueTaskIDs`): the invariant is
  `CompletionTypeOK`, `OwnChannels` (two tasks never share a channel) and, for
  every goroutine, `Signalled`: what the registry holds for its task before the
  enqueue, between enqueue and wait, in the select and after.
- `DagUsesRegistry`: every step of `Dag` is a step of `CompletionSpec` or leaves
  the registry alone; `DagNoSignalLost` and `DagNoSignalInvented` follow.
- `SortIsByDepth`, `NewGraphIsExact`, `LevelsAreTight`: Kahn's algorithm puts
  each node at its depth and leaves out nodes exactly if there is a cycle. It is
  a recursive function; `RoundHolds` says what a round has found, and
  `SetInduction` is induction stated of a set of numbers, since theorems with a
  predicate as parameter cannot be instantiated here.
- `RunsAgreeWithRecords`: `DagInv`, the executor's invariant: where each node of
  an execution is, given the level and the place `run` is at (`NodeHolds`), that
  an execution has failed just if one of its nodes has (`FailsWithNode`), and
  that contexts are cancelled by a failure or a shutdown only (`CancelHolds`).
- `ExecutorKeepsContract`: the refinement `KeepsContract`, each step from
  `DagInv`: `run` leaves a level only when its goroutines have marked their
  nodes, so that the outcome it marks agrees with them.
- `TasksRunInOrder` (`UniqueTaskIDs`): `ResultsHold` links each node with the
  `SubmitTask` made for it: a node that is marked complete got nil, and then, by
  `NoSignalInvented`, its execution is over.

### Stream and Process

- `EventsInOrder`, `FanOutIsSafe`: `StreamInv` describes a connection while it
  replays (`Replaying`: what it has written is below what it will ask for next),
  and when it is live (`Seam`: an event divides what was written from what is in
  the channel, or the gate does), through any restart. `FanOutSafe` is inductive.
- `ShutdownInOrder`: `Drains` says what each stage of each of the two stoppers
  has behind it: RPCs and poll goroutine, once quiet (`Quiet`), stay so; a closed
  listener means that they are, and that no stream begins any more, so that
  streams that have all ended stay ended. The closed broker has no open channel
  by `FanOutSafe`.
- `StreamKeepsFeed`: the refinement `ProcessSpec => KeepsFeed`. Order is not
  enough for a run without a hole: `FeedInv` adds that the channel of an unbroken
  connection holds every event after some point (`Carries`) and that what was
  written ends there, or at a gate that is among them (`Joins`). The delicate
  case is a replay that runs out of log without having met the cut: it started
  behind the cut, because the broker's cursor never passes the end of the log.

### Services

- `FloorsTypeCorrect`, `TokensAreReturned`, `FloorsNeverOverfull`: one invariant,
  `FloorsInv`. `NoCrowd` counts the holders of each floor; a reservation adds one
  where there was room, and a commit moves a slot from token to agent, which
  needs `NoLeakedToken`: the token is on the floor that is committed.
  `AgentsArePlaced` adds `Settled`: where the registries are at each stage of a
  request, so that a despawn in between is the only way out.
- `StoreTypeCorrect`, `MetadataSurvive`, `SweepsMissNobody`: `StoreInv` has a
  part for each group of keys: what a reader that has dequeued a task may still find of
  its metadata; the members are exactly the agents with a record, and a sweep's
  result and what it has yet to get cover those who have been members
  throughout; a group that was not made has delivered nothing.
- `StoresKeepContract`: the refinement `StoreSpec => Contract!Spec`: every step
  of either store is an enqueue, a dequeue, a delivery of the contract or leaves
  its variables alone.
- `HealthTypeCorrect`, `ReadinessIsHonest`: `Honest` says what the readings of a
  check under way imply about the count of agents since it began.
- `GatewayTypeCorrect`, `ErrorsAreTold`: a call has passed the models before the
  one it tries, and its errors explain these one by one (`Passed`, `Explains`); its answer tells a
  cancellation that came before the last attempt (`Tells`).
- `ReportsAreExact`: a report is a sum over the records, the library's recursive
  fold. By induction on the size of a set, again as a fact about numbers, the
  recursion has a solution (`SumsExist`), it is the only one (`SumsUnique`), and
  sums add up as their terms do (`SumAdds`). The records of adjacent periods are
  those of both together, and those of a set of tiers are those of one of them
  and of the rest (`TiersAdd`), for any tiers; the run has one.
- `ServicesRunTheParts`: a behaviour of `Services` is, for each component, one of
  that component's specification, so the theorems hold of it.

### Only model-checked

Liveness and everything under fairness, which is outside the prover's reach:
`EveryoneReturns`, `SilentAgentRecovered`, `RaceSelfHeals`, `TasksGetDone`,
`ExecutionEnds`, `ShutdownReturns`, `RegistryDrains`, `FeedCatchesUp`,
`EverythingStops`, `HealthSettles`, `CacheSettles`, `CommandsReturn`. Every
other property of a passing run is stated by a theorem.

## 5. What could follow

Theorems: the safety that the liveness properties rest on (what a deferred crash
leaves behind, types and the command queue of `BridgeClient`); the places of a
task with a failing store, counting the losses that the code logs.

Compositions: `BridgeClient` with `Stream` itself in place of `EventFeed`'s
promise and with a restart that loses the log; `Supervisor` with the events it
publishes; agents' records and the queue across a restart in `Process`.

## 6. Not modelled

- Terminal commands (`internal/terminal`) are calls of tmux; `Control` has the
  set of sessions as the supervisor and the reaper use it.
- The provider adapters and LiteLLM's wire format, the configuration's syntax,
  the prompts, the conversions between wire and domain types, the projection of
  events and records to JSON: data no property depends on.
- The read-only endpoints (lists, output, screens, DAG status) have no state, and
  bearer-token authentication is one comparison.
- `dag/storesubmitter.go` and `supervisor/shutdown.go` are not used by `cmd/`.
- The Godot interface is visual and single-threaded; of the client, names, the
  floors' cache and the output, screen and provider requests.
- The asset tools are offline generators without state.
- The durations of backoffs, and `agentConsecutive`, which only sets them.
