------------------------------- MODULE Floors -------------------------------
(***************************************************************************)
(* The tower floors of the HTTP bridge: POST /api/agents/spawn reserves a  *)
(* slot under a token, calls the spawner, which registers the agent, and   *)
(* commits the slot to the agent (bridge.go, handleSpawnAgent); despawn    *)
(* deletes the agent and forgets its entries (handleDespawnAgent); the     *)
(* supervisor's reaper deletes agents without telling the bridge.          *)
(* Floor 0 is the ground floor, and also what a missing entry reads as.    *)
(* One step is one critical section of namesMu or one store call.          *)
(***************************************************************************)
EXTENDS Naturals, FiniteSets

CONSTANTS
    Spawns,     \* the spawn requests; a request also names its agent
    Despawns,   \* the despawn requests
    Capacity,   \* floorCapacity
    MaxAsk,     \* bound on the floors requests ask for
    MaxStale    \* bound on the agents that the reaper deletes

ASSUME FloorsAssumption ==
    /\ IsFiniteSet(Spawns)
    /\ Capacity \in Nat \ {0} /\ MaxAsk \in Nat /\ MaxStale \in Nat

VARIABLES
    floors,     \* Bridge.floors: the floor of each holder, 0 without an entry
    named,      \* agents with an entry in Bridge.names
    provided,   \* agents with an entry in Bridge.providers
    store,      \* agents that have a record in the store
    spawn,      \* where each spawn request is, and the floor it reserved
    despawn,    \* where each despawn request is, and its agent
    reaps       \* agents the reaper has deleted

floorVars == <<floors, named, provided, store, spawn, despawn, reaps>>

groundFloor == 0

\* A slot is held by the reservation token of a request or by its agent.
Holders == {"token", "agent"} \X Spawns
Token(r) == <<"token", r>>
Agent(r) == <<"agent", r>>

SpawnPC == {"new", "spawner", "registered", "provider", "commit",
            "done", "failed", "full"}

FloorsTypeOK ==
    /\ floors \in [Holders -> Nat]
    /\ named \subseteq Spawns /\ provided \subseteq Spawns /\ store \subseteq Spawns
    /\ spawn \in [Spawns -> [pc : SpawnPC, floor : Nat]]
    /\ despawn \in [Despawns -> [pc : {"new", "delete", "forget", "done"},
                                 agent : SUBSET Spawns]]
    /\ reaps \in 0..MaxStale

FloorsInit ==
    /\ floors = [h \in Holders |-> 0]
    /\ named = {} /\ provided = {} /\ store = {}
    /\ spawn = [r \in Spawns |-> [pc |-> "new", floor |-> 0]]
    /\ despawn = [d \in Despawns |-> [pc |-> "new", agent |-> {}]]
    /\ reaps = 0

\* floorAgentCount: tokens count like agents.
On(f) == {h \in Holders : floors[h] = f}
\* Mutant: one slot too many.
HasRoomOver(f) == Cardinality(On(f)) <= Capacity
HasRoom(f) == Cardinality(On(f)) < Capacity

At(r, pc) == spawn[r].pc = pc
Go(r, pc) == spawn' = [spawn EXCEPT ![r] = [@ EXCEPT !.pc = pc]]

-----------------------------------------------------------------------------
(* POST /api/agents/spawn *)

Reserve(r, f) ==
    /\ floors' = [floors EXCEPT ![Token(r)] = f]
    /\ spawn' = [spawn EXCEPT ![r] = [pc |-> "spawner", floor |-> f]]

\* An explicit floor, above the ground floor.
reserveFloorSlot(r) ==
    /\ At(r, "new")
    /\ \E f \in (groundFloor + 1)..MaxAsk :
          IF HasRoom(f) THEN Reserve(r, f) ELSE Go(r, "full") /\ UNCHANGED floors
    /\ UNCHANGED <<named, provided, store, despawn, reaps>>

\* No floor was asked for: the lowest with room, or one above the highest.
Highest(f) == (f = groundFloor \/ On(f) # {}) /\ \A h \in Holders : floors[h] <= f

reserveNextAvailableFloor(r) ==
    /\ At(r, "new")
    /\ \E top \in {groundFloor} \cup {floors[h] : h \in Holders} :
          /\ Highest(top)
          /\ \E f \in 1..(top + 1) :
                /\ f = top + 1 \/ HasRoom(f)
                /\ \A g \in 1..(f - 1) : ~HasRoom(g)
                /\ Reserve(r, f)
    /\ UNCHANGED <<named, provided, store, despawn, reaps>>

\* The spawner registers the agent, which is public from here on ...
Register(r) ==
    /\ At(r, "spawner") /\ Go(r, "registered") /\ store' = store \cup {r}
    /\ UNCHANGED <<floors, named, provided, despawn, reaps>>

\* Mutant: the reservation is not released.
SpawnerFailsHeld(r) ==
    /\ At(r, "spawner") \/ At(r, "registered")
    /\ Go(r, "failed") /\ UNCHANGED floors
    /\ UNCHANGED <<named, provided, store, despawn, reaps>>

\* ... and may fail before that or after it, leaving the agent behind.
SpawnerFails(r) ==
    /\ At(r, "spawner") \/ At(r, "registered")
    /\ Go(r, "failed") /\ floors' = [floors EXCEPT ![Token(r)] = 0]
    /\ UNCHANGED <<named, provided, store, despawn, reaps>>

setAgentName(r) ==
    /\ At(r, "registered") /\ Go(r, "provider") /\ named' = named \cup {r}
    /\ UNCHANGED <<floors, provided, store, despawn, reaps>>

setAgentProvider(r) ==
    /\ At(r, "provider") /\ Go(r, "commit") /\ provided' = provided \cup {r}
    /\ UNCHANGED <<floors, named, store, despawn, reaps>>

\* Mutant: the token is released and the agent is not placed.
commitReleases(r) ==
    /\ At(r, "commit") /\ Go(r, "done")
    /\ floors' = [floors EXCEPT ![Token(r)] = 0]
    /\ UNCHANGED <<named, provided, store, despawn, reaps>>

commitFloorReservation(r) ==
    /\ At(r, "commit") /\ Go(r, "done")
    /\ floors' = [floors EXCEPT ![Token(r)] = 0, ![Agent(r)] = spawn[r].floor]
    /\ UNCHANGED <<named, provided, store, despawn, reaps>>

-----------------------------------------------------------------------------
(* POST /api/agents/{id}/despawn: what it does with the agent's task and the *)
(* supervisor's maps is in module Control.                                   *)

DespawnRead(d) ==
    /\ despawn[d].pc = "new"
    /\ \E r \in store : despawn' = [despawn EXCEPT ![d] =
                                        [pc |-> "delete", agent |-> {r}]]
    /\ UNCHANGED <<floors, named, provided, store, spawn, reaps>>

\* A failed DeleteAgent is logged, and the entries are forgotten all the same.
DespawnDelete(d) ==
    /\ despawn[d].pc = "delete"
    /\ store' \in {store \ despawn[d].agent, store}
    /\ despawn' = [despawn EXCEPT ![d] = [@ EXCEPT !.pc = "forget"]]
    /\ UNCHANGED <<floors, named, provided, spawn, reaps>>

DespawnForget(d) ==
    /\ despawn[d].pc = "forget"
    /\ floors' = [h \in Holders |->
                    IF h \in {Agent(r) : r \in despawn[d].agent} THEN 0
                    ELSE floors[h]]
    /\ named' = named \ despawn[d].agent
    /\ provided' = provided \ despawn[d].agent
    /\ despawn' = [despawn EXCEPT ![d] = [@ EXCEPT !.pc = "done"]]
    /\ UNCHANGED <<store, spawn, reaps>>

\* reapAgent: DeleteAgent, which the bridge never hears of.
Reap(r) ==
    /\ r \in store /\ reaps < MaxStale
    /\ store' = store \ {r} /\ reaps' = reaps + 1
    /\ UNCHANGED <<floors, named, provided, spawn, despawn>>

Spawning(r) ==
    \/ reserveFloorSlot(r) \/ reserveNextAvailableFloor(r)
    \/ Register(r) \/ SpawnerFails(r)
    \/ setAgentName(r) \/ setAgentProvider(r) \/ commitFloorReservation(r)

Despawning(d) == DespawnRead(d) \/ DespawnDelete(d) \/ DespawnForget(d)

FloorsNext ==
    \/ \E r \in Spawns : Spawning(r) \/ Reap(r)
    \/ \E d \in Despawns : Despawning(d)

FloorsSpec == FloorsInit /\ [][FloorsNext]_floorVars

-----------------------------------------------------------------------------
(* Properties *)

\* "Two concurrent spawns both read the floor as having room, then both write
\* past floorCapacity": no interleaving of reservations, commits, failures and
\* despawns puts more on a floor than it holds.
FloorCapacity ==
    \A h \in Holders :
        floors[h] # groundFloor => Cardinality(On(floors[h])) <= Capacity

\* A reservation never outlives its request, whichever way that ended, and
\* while the request lives it is on the floor the response will name.
NoLeakedToken ==
    \A r \in Spawns :
        floors[Token(r)] = IF spawn[r].pc \in {"new", "done", "failed", "full"}
                           THEN 0 ELSE spawn[r].floor

Forgetting(r) == \E d \in Despawns :
                    despawn[d].pc # "new" /\ r \in despawn[d].agent

\* The agent of a request that was answered OK stays where the answer said,
\* under its name and provider, until somebody despawns it.
Placed ==
    \A r \in Spawns : At(r, "done") /\ ~Forgetting(r) =>
        /\ floors[Agent(r)] = spawn[r].floor /\ spawn[r].floor # groundFloor
        /\ r \in named /\ r \in provided
=============================================================================
