---------------------------- MODULE BridgeClient ----------------------------
(***************************************************************************)
(* The Godot client of the HTTP bridge (bridge_manager.gd): it fetches the *)
(* agents and the floors, opens the event stream from its last cursor,     *)
(* keeps a cache of the agents up to date from both, reconnects with a     *)
(* backoff, and sends its commands one at a time.  It is single-threaded:  *)
(* a step is a callback or one event of a frame.                           *)
(*                                                                         *)
(* The orchestrator is what the client can see of it: the records of its   *)
(* agents, the events that report their changes (supervisor.go, and the    *)
(* handlers of the bridge), published some time after and not always in    *)
(* the order of the changes, and a stream that keeps the promise of module *)
(* EventFeed.                                                              *)
(***************************************************************************)
EXTENDS Integers, Sequences

CONSTANTS
    Shown,          \* the agents
    MaxChanges,     \* bound on the changes of their records
    MaxCuts,        \* bound on the times the bridge goes away
    MaxDrops,       \* bound on the events lost to a full buffer
    MaxCommands,    \* bound on the commands of the user
    Doublings       \* after so many the backoff outlasts the requests' timeout

ASSUME BridgeClientAssumption ==
    /\ MaxChanges \in Nat /\ MaxCuts \in Nat /\ MaxDrops \in Nat
    /\ MaxCommands \in Nat /\ Doublings \in Nat

VARIABLES
    record,         \* the state of each agent in the store
    changes,        \* all changes, in order
    stream,         \* those whose event has been published, as they were
    bridge,         \* whether the bridge is up, and the faults so far
    link,           \* _connection_state
    backoff,        \* _backoff_seconds: how often it was doubled
    sync,           \* the two requests of the initial sync
    cache,          \* _agents
    resume,         \* _last_cursor
    sse,            \* the event stream
    commands        \* the command queue

worldVars  == <<record, changes, stream>>
clientVars == <<worldVars, bridge, link, backoff, sync, cache, resume, sse, commands>>

Absent == [st |-> "absent", task |-> FALSE]

\* Commands are numbered as they are issued: those after `sent' are queued.
ClientInit ==
    /\ record = [a \in Shown |-> "absent"] /\ changes = <<>> /\ stream = <<>>
    /\ bridge = [up |-> TRUE, cuts |-> 0, drops |-> 0]
    /\ link = "connecting" /\ backoff = 0
    /\ sync = [agents |-> "sent", floors |-> "sent", list |-> <<>>,
               got |-> {}, failed |-> FALSE]
    /\ cache = [a \in Shown |-> Absent] /\ resume = 0
    /\ sse = [st |-> "none", next |-> 1, lossy |-> FALSE]
    /\ commands = [issued |-> 0, sent |-> 0, done |-> 0, busy |-> FALSE]

-----------------------------------------------------------------------------
(* The orchestrator *)

\* The changes of an agent, and the state its record has after each; "working"
\* stands for "reporting" too, of which the client only shows the name.
Busy == {"assigned", "working"}
After(kind) ==
    CASE kind \in Busy -> kind
      [] kind = "deregistered" -> "absent"
      [] OTHER -> "idle"

May(st) ==
    CASE st = "absent"   -> {"registered"}
      [] st = "idle"     -> {"assigned", "deregistered"}
      [] st = "assigned" -> {"working", "crashed", "cancelled", "deregistered"}
      [] st = "working"  -> {"delivered", "crashed", "cancelled", "deregistered"}

Pending == 1..Len(changes) \ {stream[n] : n \in 1..Len(stream)}
Assigning == {changes[i].agent : i \in {j \in Pending : changes[j].kind = "assigned"}}

\* StartWork, ReportOutput, completeAgent and crashAgent publish under the
\* agent's mutex, which is a new one after a registration; an assignment takes
\* it too, and so each of these finds the first four published.
Mutexed == {"working", "delivered", "crashed"}
Held(a) ==
    \E i \in Pending :
        /\ changes[i].agent = a /\ changes[i].kind \in Mutexed
        /\ \A j \in (i + 1)..Len(changes) :
              changes[j].agent = a => changes[j].kind # "registered"

\* RegisterAgent and the handlers of cancel, reassign and despawn take no mutex,
\* and the assigner publishes after it has released it, once per round.  A cancel
\* that is refused half-way, which nobody is told of, is left out.
Change(a) ==
    /\ Len(changes) < MaxChanges
    /\ \E kind \in May(record[a]) :
          /\ kind \in Mutexed \cup {"assigned"} => ~Held(a)
          /\ kind = "assigned" => Assigning = {}
          /\ record' = [record EXCEPT ![a] = After(kind)]
          /\ changes' = Append(changes, [kind |-> kind, agent |-> a])
    /\ UNCHANGED <<stream, bridge, link, backoff, sync, cache, resume, sse, commands>>

PublishChange ==
    /\ \E i \in Pending : stream' = Append(stream, i)
    /\ UNCHANGED <<record, changes, bridge, link, backoff, sync, cache, resume, sse, commands>>

\* The bridge stops answering, and its streams with it, until it is back.
Cut ==
    /\ bridge.up /\ bridge.cuts < MaxCuts
    /\ bridge' = [bridge EXCEPT !.up = FALSE, !.cuts = @ + 1]
    /\ sse' = IF sse.st = "none" THEN sse ELSE [sse EXCEPT !.st = "cut"]
    /\ UNCHANGED <<worldVars, link, backoff, sync, cache, resume, commands>>

Back ==
    /\ ~bridge.up /\ bridge' = [bridge EXCEPT !.up = TRUE]
    /\ UNCHANGED <<worldVars, link, backoff, sync, cache, resume, sse, commands>>

\* handleListAgents answers with what the store holds now.  The task is written
\* after the state, by the assigner before it publishes.
ListAgents ==
    /\ sync.agents = "sent" /\ bridge.up
    /\ \E unwritten \in SUBSET Assigning :
          sync' = [sync EXCEPT !.agents = "answered",
                      !.list = [a \in Shown |-> [st |-> record[a],
                          task |-> record[a] \in Busy /\ a \notin unwritten]]]
    /\ UNCHANGED <<worldVars, bridge, link, backoff, cache, resume, sse, commands>>

-----------------------------------------------------------------------------
(* Commands *)

\* _process_next_command, when the connection is as given.
NextCommand(q, connected) ==
    IF connected /\ q.sent < q.issued
    THEN [q EXCEPT !.sent = @ + 1, !.busy = TRUE] ELSE q

enqueue_command ==
    /\ commands.issued < MaxCommands
    /\ LET q == [commands EXCEPT !.issued = @ + 1]
       IN commands' = IF q.busy THEN q ELSE NextCommand(q, link = "connected")
    /\ UNCHANGED <<worldVars, bridge, link, backoff, sync, cache, resume, sse>>

\* Answered, refused, or given up after ten seconds.
on_command_completed ==
    /\ commands.busy
    /\ commands' = NextCommand([commands EXCEPT !.busy = FALSE, !.done = @ + 1],
                               link = "connected")
    /\ UNCHANGED <<worldVars, bridge, link, backoff, sync, cache, resume, sse>>

-----------------------------------------------------------------------------
(* Initial sync and reconnection *)

\* _on_initial_sync_failed, of which only the first of a sync counts.
Longer(n) == IF n < Doublings THEN n + 1 ELSE n

sync_failed(from) ==
    IF sync.failed THEN UNCHANGED <<link, backoff>>
    ELSE /\ link' = "disconnected"
         /\ backoff' = IF from = "reconnecting" THEN Longer(backoff) ELSE backoff

\* The timer fires; a request() on a node whose last request is still out is
\* refused, and the sync fails at once.
start_reconnect ==
    /\ link = "disconnected"
    /\ backoff = Doublings => sync.agents = "idle" /\ sync.floors = "idle"
    /\ LET refused == sync.agents # "idle" \/ sync.floors # "idle"
       IN /\ link' = IF refused THEN "disconnected" ELSE "reconnecting"
          /\ backoff' = IF refused THEN Longer(backoff) ELSE backoff
          /\ sync' = [sync EXCEPT
                !.agents = IF @ = "idle" THEN "sent" ELSE @,
                !.floors = IF @ = "idle" THEN "sent" ELSE @,
                !.got = {}, !.failed = refused]
    /\ UNCHANGED <<worldVars, bridge, cache, resume, sse, commands>>

\* Mutant: the queue waits for the next command.
OpenQuietly(s) ==
    IF s.failed \/ s.got # {"agents", "floors"}
    THEN UNCHANGED <<link, backoff, sse, commands>>
    ELSE /\ link' = "connected" /\ backoff' = 0
         /\ sse' = [st |-> IF bridge.up THEN "dialing" ELSE "cut",
                    next |-> 1, lossy |-> FALSE]
         /\ UNCHANGED commands

\* _check_initial_sync_complete: with both answers the stream is opened and the
\* queue goes on.
check_complete(s) ==
    IF s.failed \/ s.got # {"agents", "floors"}
    THEN UNCHANGED <<link, backoff, sse, commands>>
    ELSE /\ link' = "connected" /\ backoff' = 0
         /\ sse' = [st |-> IF bridge.up THEN "dialing" ELSE "cut",
                    next |-> 1, lossy |-> FALSE]
         /\ commands' = IF commands.busy THEN commands
                        ELSE NextCommand(commands, TRUE)

\* The cache is cleared and filled from the list.
on_agents_synced ==
    /\ sync.agents = "answered"
    /\ LET s == [sync EXCEPT !.agents = "idle", !.list = <<>>,
                             !.got = @ \cup {"agents"}]
       IN sync' = s /\ check_complete(s)
    /\ cache' = sync.list
    /\ UNCHANGED <<worldVars, bridge, resume>>

on_floors_synced ==
    /\ sync.floors = "sent" /\ bridge.up
    /\ LET s == [sync EXCEPT !.floors = "idle", !.got = @ \cup {"floors"}]
       IN sync' = s /\ check_complete(s)
    /\ UNCHANGED <<worldVars, bridge, cache, resume>>

\* A request that fails, after ten seconds at the latest.
on_sync_failed(k) ==
    /\ ~bridge.up /\ sync[k] # "idle"
    /\ sync' = [sync EXCEPT ![k] = "idle", !.failed = TRUE,
                            !.list = IF k = "agents" THEN <<>> ELSE @]
    /\ sync_failed(link)
    /\ UNCHANGED <<worldVars, bridge, cache, resume, sse, commands>>

-----------------------------------------------------------------------------
(* The event stream *)

\* Mutant: the stream is asked for what is to come.
RequestLive ==
    /\ sse.st = "dialing"
    /\ sse' = [sse EXCEPT !.st = "live", !.next = Len(stream) + 1]
    /\ UNCHANGED <<worldVars, bridge, link, backoff, sync, cache, resume, commands>>

\* The request carries the cursor; the run it is sent may start before it.
sse_request ==
    /\ sse.st = "dialing"
    /\ \E n \in 1..(resume + 1) : sse' = [sse EXCEPT !.st = "live", !.next = n]
    /\ UNCHANGED <<worldVars, bridge, link, backoff, sync, cache, resume, commands>>

\* _dispatch_sse_event, on the cached agent: a change of an unknown agent is not
\* cached, and only "assigned" and the idle states say something of the task.
Dispatch(a, kind) ==
    CASE kind = "registered"   -> [st |-> "idle", task |-> FALSE]
      [] kind = "deregistered" -> Absent
      [] cache[a] = Absent     -> Absent
      [] OTHER -> [st |-> IF kind \in {"delivered", "cancelled"} THEN "idle"
                           ELSE kind,
                   task |-> IF kind = "working" THEN cache[a].task
                            ELSE kind = "assigned"]

dispatch_sse_event ==
    /\ sse.st = "live" /\ sse.next <= Len(stream)
    /\ LET e == changes[stream[sse.next]]
       IN cache' = [cache EXCEPT ![e.agent] = Dispatch(e.agent, e.kind)]
    /\ resume' = sse.next /\ sse' = [sse EXCEPT !.next = @ + 1]
    /\ UNCHANGED <<worldVars, bridge, link, backoff, sync, commands>>

\* The broker drops an event that does not fit this connection's buffer.
Drop ==
    /\ sse.st = "live" /\ sse.next <= Len(stream) /\ bridge.drops < MaxDrops
    /\ sse' = [sse EXCEPT !.next = @ + 1, !.lossy = TRUE]
    /\ bridge' = [bridge EXCEPT !.drops = @ + 1]
    /\ UNCHANGED <<worldVars, link, backoff, sync, cache, resume, commands>>

\* Twenty seconds without data, or an error of the connection.
on_sse_disconnected ==
    /\ link = "connected" /\ sse.st = "cut"
    /\ link' = "disconnected" /\ sse' = [sse EXCEPT !.st = "none", !.lossy = FALSE]
    /\ UNCHANGED <<worldVars, bridge, backoff, sync, cache, resume, commands>>

ClientNext ==
    \/ \E a \in Shown : Change(a)
    \/ PublishChange \/ Cut \/ Back \/ ListAgents
    \/ enqueue_command \/ on_command_completed
    \/ start_reconnect \/ on_agents_synced \/ on_floors_synced
    \/ \E k \in {"agents", "floors"} : on_sync_failed(k)
    \/ sse_request \/ dispatch_sse_event \/ Drop \/ on_sse_disconnected

ClientSpec == ClientInit /\ [][ClientNext]_clientVars

\* Frames go on, timers fire, requests come back or time out, events that have
\* happened are published.  Nothing is assumed of the bridge's coming back or of
\* the user.
AgentsRequest == ListAgents \/ on_agents_synced \/ on_sync_failed("agents")
FloorsRequest == on_floors_synced \/ on_sync_failed("floors")
StreamStep    == sse_request \/ dispatch_sse_event \/ on_sse_disconnected

ClientFairness ==
    /\ WF_clientVars(AgentsRequest) /\ WF_clientVars(FloorsRequest)
    /\ WF_clientVars(StreamStep) /\ WF_clientVars(start_reconnect)
    /\ WF_clientVars(PublishChange) /\ WF_clientVars(on_command_completed)

-----------------------------------------------------------------------------
(* Properties *)

\* "Reconnects ... without data loss", "SSE replay naturally converges to the
\* current state": from some time on the client shows every agent as the store
\* has it, with its task while it has one, whatever cuts, repetitions and losses
\* came before, however the lists of the syncs and the replayed events overtook
\* each other, and in whatever order older events were published.  That is
\* unless the bridge stays away, the connection that is open has lost an event,
\* or (InTurn) the events that tell the agent's present state were published in
\* the wrong order, which the supervisor does not exclude and no client can see.
\* "crashed" is how an agent is shown that a crash has made idle.
Agrees ==
    \A a \in Shown :
        /\ \/ cache[a].st = record[a]
           \/ cache[a].st = "crashed" /\ record[a] = "idle"
        /\ record[a] \in Busy => cache[a].task

\* Since the agent last became absent or idle, and before each registration.
Overtaken(i, j) ==
    \E m, n \in 1..Len(stream) : m > n /\ stream[m] = i /\ stream[n] = j

Decides(j) ==
    \/ changes[j].kind = "registered"
    \/ \A i \in (j + 1)..Len(changes) :
          changes[i].agent = changes[j].agent => changes[i].kind \in Busy

InTurn ==
    \A j \in 1..Len(changes) : Decides(j) =>
        \A i \in 1..(j - 1) : changes[i].agent = changes[j].agent => ~Overtaken(i, j)

CacheConverges ==
    <>[](bridge.up /\ ~sse.lossy /\ InTurn) => <>[](Agrees /\ link = "connected")

\* Each command is answered in the end, the first as well as one that was queued
\* while the client was away, if only the client can connect again.
CommandsAnswered ==
    <>[]bridge.up => \A n \in 1..MaxCommands :
                        commands.issued >= n ~> commands.done >= n
=============================================================================
