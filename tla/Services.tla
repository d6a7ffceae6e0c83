------------------------------ MODULE Services ------------------------------
(***************************************************************************)
(* The services around the scheduler that share no state with each other:  *)
(* the floors of the HTTP bridge (Floors), the health checks (Health), the *)
(* state stores, whose queue, agent records and consumer groups are        *)
(* independent too (Store), the model gateway (Gateway), and the front     *)
(* end's client (BridgeClient), whose cache and commands have nothing to   *)
(* do with each other.  No step of one reads or writes a variable of       *)
(* another, so that every behaviour is a shuffle of independent ones; a    *)
(* behaviour here is of one of them, chosen at the start, and the others   *)
(* stay as they begin.                                                     *)
(***************************************************************************)
EXTENDS Floors, Health, Store, Gateway, BridgeClient

VARIABLE part

servicesVars == <<part, floorVars, healthVars, storeVars, gatewayVars, clientVars>>

Parts == {"floors", "health", "queue", "records", "groups", "gateway",
          "cache", "commands"}

\* The parameters of the others that vary in their initial states are
\* fixed, as they are not looked at.
ServicesInit ==
    /\ part \in Parts
    /\ FloorsInit /\ HealthInit /\ StoreInit /\ GatewayInit /\ ClientInit
    /\ part \notin {"queue", "records", "groups"} => kind = "mock"
    /\ part # "gateway" =>
          /\ DOMAIN config.completers = {}
          /\ \E m \in Models :
                /\ config.primary = [t \in Tiers |-> m]
                /\ config.fallbacks = [t \in Tiers |-> <<>>]

OnlyFloors ==
    /\ part = "floors"
    /\ UNCHANGED <<part, healthVars, storeVars, gatewayVars, clientVars>>
OnlyHealth ==
    /\ part = "health"
    /\ UNCHANGED <<part, floorVars, storeVars, gatewayVars, clientVars>>
OnlyStore(p) ==
    /\ part = p
    /\ UNCHANGED <<part, floorVars, healthVars, gatewayVars, clientVars>>
OnlyGateway ==
    /\ part = "gateway"
    /\ UNCHANGED <<part, floorVars, healthVars, storeVars, clientVars>>
OnlyClient(parts) ==
    /\ part \in parts
    /\ UNCHANGED <<part, floorVars, healthVars, storeVars, gatewayVars>>
Client == OnlyClient({"cache", "commands"})

FloorsPart ==
    \/ \E r \in Spawns :
          \/ reserveFloorSlot(r) /\ OnlyFloors
          \/ reserveNextAvailableFloor(r) /\ OnlyFloors
          \/ Register(r) /\ OnlyFloors
          \/ SpawnerFails(r) /\ OnlyFloors
          \/ setAgentName(r) /\ OnlyFloors
          \/ setAgentProvider(r) /\ OnlyFloors
          \/ commitFloorReservation(r) /\ OnlyFloors
          \/ Reap(r) /\ OnlyFloors
    \/ \E d \in Despawns :
          \/ DespawnRead(d) /\ OnlyFloors
          \/ DespawnDelete(d) /\ OnlyFloors
          \/ DespawnForget(d) /\ OnlyFloors

HealthPart ==
    \/ \E k \in Checkers :
          \/ CheckBegin(k) /\ OnlyHealth
          \/ CheckPing(k) /\ OnlyHealth
          \/ CheckAgents(k) /\ OnlyHealth
          \/ CheckQueue(k) /\ OnlyHealth
          \/ CheckJudge(k) /\ OnlyHealth
    \/ UpdaterPublish /\ OnlyHealth
    \/ UpdaterExit /\ OnlyHealth
    \/ Cancel /\ OnlyHealth
    \/ OutageBegins /\ OnlyHealth
    \/ OutageEnds /\ OnlyHealth
    \/ AgentsChange /\ OnlyHealth

QueuePart ==
    \/ \E w \in Writers, t \in Tasks, p \in Prios, zero \in BOOLEAN :
          EnqueueTaskWithMeta(w, t, p, zero) /\ OnlyStore("queue")
    \/ \E w \in Writers : WriteMeta(w) /\ OnlyStore("queue")
    \/ \E t \in Tasks : MetaExpires(t) /\ OnlyStore("queue")
    \/ DequeueTask /\ OnlyStore("queue")
    \/ GetTaskMeta /\ OnlyStore("queue")
    \/ ReaderReturns /\ OnlyStore("queue")

RecordsPart ==
    \/ \E a \in IDs, st \in States : SetAgentFields(a, st) /\ OnlyStore("records")
    \/ \E a \in IDs, st, nx \in States :
          CompareAndSetAgentState(a, st, nx) /\ OnlyStore("records")
    \/ \E a \in IDs : DeleteAgent(a) /\ OnlyStore("records")
    \/ \E a \in IDs : SweepGet(a) /\ OnlyStore("records")
    \/ SweepBegin /\ OnlyStore("records")
    \/ SweepEnd /\ OnlyStore("records")

GroupsPart ==
    \/ PublishEvent /\ OnlyStore("groups")
    \/ \E start \in {0, log} : CreateConsumerGroup(start) /\ OnlyStore("groups")
    \/ \E c \in Consumers, n \in 1..MaxLog :
          SubscribeEvents(c, n) /\ OnlyStore("groups")
    \/ \E i \in 1..log : AckEvent(i) /\ OnlyStore("groups")

GatewayPart ==
    \/ \E c \in Calls :
          \/ Complete(c) /\ OnlyGateway
          \/ CompleteWithTier(c) /\ OnlyGateway
          \/ TryModel(c) /\ OnlyGateway
          \/ Exhausted(c) /\ OnlyGateway
          \/ Answers(c) /\ OnlyGateway
          \/ CallerGone(c) /\ OnlyGateway
    \/ \E t \in Tiers, n \in 1..MaxTokens : Record(t, n) /\ OnlyGateway
    \/ Tick /\ OnlyGateway

ClientPart ==
    \/ \E a \in Shown : Change(a) /\ OnlyClient({"cache"})
    \/ PublishChange /\ OnlyClient({"cache"})
    \/ dispatch_sse_event /\ OnlyClient({"cache"})
    \/ Drop /\ OnlyClient({"cache"})
    \/ enqueue_command /\ OnlyClient({"commands"})
    \/ on_command_completed /\ OnlyClient({"commands"})
    \/ Cut /\ Client
    \/ Back /\ Client
    \/ ListAgents /\ Client
    \/ start_reconnect /\ Client
    \/ on_agents_synced /\ Client
    \/ on_floors_synced /\ Client
    \/ \E k \in {"agents", "floors"} : on_sync_failed(k) /\ Client
    \/ sse_request /\ Client
    \/ on_sse_disconnected /\ Client

ServicesNext ==
    \/ FloorsPart \/ HealthPart \/ QueuePart \/ RecordsPart \/ GroupsPart
    \/ GatewayPart \/ ClientPart

\* The fairness of Health and of BridgeClient, in the behaviours of theirs.
ServicesSpec ==
    /\ ServicesInit /\ [][ServicesNext]_servicesVars
    /\ WF_servicesVars(UpdaterStep /\ OnlyHealth)
    /\ SF_servicesVars(UpdaterExit /\ OnlyHealth)
    /\ WF_servicesVars(AgentsRequest /\ Client)
    /\ WF_servicesVars(FloorsRequest /\ Client)
    /\ WF_servicesVars(StreamStep /\ Client)
    /\ WF_servicesVars(start_reconnect /\ Client)
    /\ WF_servicesVars(PublishChange /\ Client)
    /\ WF_servicesVars(on_command_completed /\ Client)

-----------------------------------------------------------------------------
(* Properties *)

\* Module Health's ServingSettles and StopsServing, of the behaviours in which
\* the updater runs: the gRPC health status settles on the truth once the store
\* and the number of agents do, and after a shutdown nothing brings it back.
HealthSettles == part = "health" => ServingSettles /\ StopsServing

\* Module BridgeClient's CacheConverges, where agents change: the client comes to
\* show every agent as the store has it.
CacheSettles == part = "cache" => CacheConverges

\* Module BridgeClient's CommandsAnswered, where the user gives commands.
CommandsReturn == part = "commands" => CommandsAnswered
=============================================================================
