--------------------------- MODULE ServicesProofs ---------------------------
(***************************************************************************)
(* Proofs about the services around the scheduler: the floors of the HTTP  *)
(* bridge, the health aggregator and the model gateway, each on its own,   *)
(* and that module Services runs them as they are.                         *)
(***************************************************************************)
EXTENDS Services, FiniteSetTheorems, SequenceTheorems, TLAPS

-----------------------------------------------------------------------------
(* Floors.  The capacity is inductive only together with what the tokens   *)
(* say (NoLeakedToken): a commit puts the agent on the floor of its token, *)
(* and adds nobody because the token that leaves was on that very floor.   *)

\* No floor above the ground holds too many, whether or not anybody is there.
NoCrowd == \A f \in Nat \ {0} : Cardinality(On(f)) <= Capacity

FloorsInv == FloorsTypeOK /\ NoLeakedToken /\ NoCrowd

\* The holders of one floor can be counted.
LEMMA OnFinite ==
  ASSUME NEW f
  PROVE  IsFiniteSet(On(f)) /\ Cardinality(On(f)) \in Nat
<1>1. IsFiniteSet({"token", "agent"})
  <2>1. IsFiniteSet({"token"}) /\ IsFiniteSet({"agent"})
    BY FS_Singleton, Zenon
  <2>2. IsFiniteSet({"token"} \cup {"agent"})
    BY <2>1, FS_Union, Zenon
  <2>3. {"token", "agent"} = {"token"} \cup {"agent"}
    OBVIOUS
  <2> QED
    BY <2>2, <2>3
<1>2. IsFiniteSet(Holders)
  BY <1>1, FloorsAssumption, FS_Product DEF Holders
<1>3. On(f) \subseteq Holders
  BY DEF On
<1> QED
  BY <1>2, <1>3, FS_Subset, FS_CardinalityType

\* A step that brings nobody to any floor crowds none.
LEMMA NobodyComes ==
  ASSUME NoCrowd, \A f \in Nat \ {0} : (On(f))' \subseteq On(f)
  PROVE  NoCrowd'
<1> SUFFICES ASSUME NEW f \in Nat \ {0}
             PROVE  Cardinality((On(f))') <= Capacity
  BY DEF NoCrowd
<1>1. IsFiniteSet(On(f)) /\ Cardinality(On(f)) \in Nat
  BY OnFinite
<1>2. Cardinality((On(f))') \in Nat /\ Cardinality((On(f))') <= Cardinality(On(f))
  BY <1>1, FS_Subset, FS_CardinalityType
<1> QED
  BY <1>1, <1>2, FloorsAssumption DEF NoCrowd

\* The initial state of NewBridge.
LEMMA FloorsInvInit == FloorsInit => FloorsInv
<1> SUFFICES ASSUME FloorsInit PROVE FloorsInv
  OBVIOUS
<1>1. FloorsTypeOK
  BY FloorsAssumption DEF FloorsInit, FloorsTypeOK, SpawnPC
<1>2. NoLeakedToken
  BY DEF FloorsInit, NoLeakedToken, Holders, Token
<1>3. NoCrowd
  <2> SUFFICES ASSUME NEW f \in Nat \ {0} PROVE Cardinality(On(f)) <= Capacity
    BY DEF NoCrowd
  <2>1. On(f) = {}
    BY DEF On, FloorsInit
  <2> QED
    BY <2>1, FS_EmptySet, FloorsAssumption
<1> QED
  BY <1>1, <1>2, <1>3 DEF FloorsInv

\* A reservation on a floor that has room.
LEMMA ReserveStep ==
  ASSUME FloorsInv, NEW r \in Spawns, At(r, "new"),
         NEW f \in Nat \ {0}, HasRoom(f), Reserve(r, f),
         UNCHANGED <<named, provided, store, despawn, reaps>>
  PROVE  FloorsInv'
<1>t. /\ floors \in [Holders -> Nat] /\ Token(r) \in Holders
      /\ spawn \in [Spawns -> [pc : SpawnPC, floor : Nat]]
  BY DEF FloorsInv, FloorsTypeOK, Holders, Token
<1>a. /\ floors' = [floors EXCEPT ![Token(r)] = f]
      /\ spawn' = [spawn EXCEPT ![r] = [pc |-> "spawner", floor |-> f]]
  BY DEF Reserve
<1>1. FloorsTypeOK'
  <2>1. spawn' \in [Spawns -> [pc : SpawnPC, floor : Nat]]
    BY <1>a, <1>t DEF SpawnPC
  <2> QED
    BY <1>a, <1>t, <2>1 DEF FloorsInv, FloorsTypeOK
<1>2. NoLeakedToken'
  <2> SUFFICES ASSUME NEW s \in Spawns
               PROVE  floors'[Token(s)] =
                        IF spawn'[s].pc \in {"new", "done", "failed", "full"}
                        THEN 0 ELSE spawn'[s].floor
    BY DEF NoLeakedToken
  <2>1. CASE s = r
    BY <2>1, <1>a, <1>t
  <2>2. CASE s # r
    BY <2>2, <1>a, <1>t DEF FloorsInv, NoLeakedToken, Token, Holders
  <2> QED
    BY <2>1, <2>2
<1>3. NoCrowd'
  <2> SUFFICES ASSUME NEW g \in Nat \ {0}
               PROVE  Cardinality((On(g))') <= Capacity
    BY DEF NoCrowd
  <2>0. IsFiniteSet(On(g)) /\ Cardinality(On(g)) \in Nat
    BY OnFinite
  <2>1. CASE g = f
    <3>1. (On(g))' = On(g) \cup {Token(r)}
      BY <2>1, <1>a, <1>t DEF On
    <3>2. Cardinality(On(g) \cup {Token(r)}) \in {Cardinality(On(g)), Cardinality(On(g)) + 1}
      BY <2>0, FS_AddElement
    <3>3. Cardinality(On(g)) < Capacity
      BY <2>1 DEF HasRoom
    <3>4. IsFiniteSet(On(g) \cup {Token(r)})
      BY <2>0, FS_AddElement
    <3>5. Cardinality(On(g) \cup {Token(r)}) \in Nat
      BY <3>4, FS_CardinalityType
    <3> QED
      BY <3>1, <3>2, <3>3, <3>5, <2>0, FloorsAssumption
  <2>2. CASE g # f
    <3>1. (On(g))' \subseteq On(g)
      BY <2>2, <1>a, <1>t DEF On
    <3>2. Cardinality((On(g))') \in Nat /\ Cardinality((On(g))') <= Cardinality(On(g))
      BY <3>1, <2>0, FS_Subset, FS_CardinalityType
    <3> QED
      BY <3>2, <2>0, FloorsAssumption DEF FloorsInv, NoCrowd
  <2> QED
    BY <2>1, <2>2
<1> QED
  BY <1>1, <1>2, <1>3 DEF FloorsInv

\* An explicit floor: nothing happens to the floors when it is full.
LEMMA SlotStep ==
  ASSUME FloorsInv, NEW r \in Spawns, reserveFloorSlot(r)
  PROVE  FloorsInv'
<1>t. /\ floors \in [Holders -> Nat]
      /\ spawn \in [Spawns -> [pc : SpawnPC, floor : Nat]]
  BY DEF FloorsInv, FloorsTypeOK
<1>a. PICK f \in (groundFloor + 1)..MaxAsk :
         IF HasRoom(f) THEN Reserve(r, f) ELSE Go(r, "full") /\ UNCHANGED floors
  BY DEF reserveFloorSlot
<1>b. At(r, "new") /\ UNCHANGED <<named, provided, store, despawn, reaps>>
  BY DEF reserveFloorSlot
<1>c. f \in Nat \ {0}
  BY FloorsAssumption DEF groundFloor
<1>1. CASE HasRoom(f)
  BY <1>1, <1>a, <1>b, <1>c, ReserveStep
<1>2. CASE ~HasRoom(f)
  <2>1. /\ spawn' = [spawn EXCEPT ![r] = [@ EXCEPT !.pc = "full"]]
        /\ floors' = floors
    BY <1>2, <1>a DEF Go
  <2>2. spawn' \in [Spawns -> [pc : SpawnPC, floor : Nat]]
    BY <2>1, <1>t, Zenon DEF SpawnPC
  <2>3. FloorsTypeOK'
    BY <2>1, <2>2, <1>b DEF FloorsInv, FloorsTypeOK
  <2>4. NoLeakedToken'
    BY <2>1, <1>b, <1>t DEF FloorsInv, NoLeakedToken, At
  <2>5. NoCrowd'
    BY <2>1, NobodyComes DEF FloorsInv, On
  <2> QED
    BY <2>3, <2>4, <2>5 DEF FloorsInv
<1> QED
  BY <1>1, <1>2

\* The floor that is found has room, the one above the highest being empty.
LEMMA NextAvailableStep ==
  ASSUME FloorsInv, NEW r \in Spawns, reserveNextAvailableFloor(r)
  PROVE  FloorsInv'
<1>t. floors \in [Holders -> Nat]
  BY DEF FloorsInv, FloorsTypeOK
<1>a. PICK top \in {groundFloor} \cup {floors[h] : h \in Holders} :
         /\ Highest(top)
         /\ \E f \in 1..(top + 1) :
               /\ f = top + 1 \/ HasRoom(f)
               /\ Reserve(r, f)
  BY DEF reserveNextAvailableFloor
<1>b. top \in Nat
  BY <1>t DEF groundFloor
<1>c. PICK f \in 1..(top + 1) : (f = top + 1 \/ HasRoom(f)) /\ Reserve(r, f)
  BY <1>a
<1>d. f \in Nat \ {0}
  BY <1>b
<1>1. CASE f = top + 1
  <2>1. \A h \in Holders : floors[h] <= top /\ floors[h] \in Nat
    BY <1>a, <1>t DEF Highest
  <2>2. On(f) = {}
    BY <2>1, <1>1, <1>b DEF On
  <2>3. HasRoom(f)
    BY <2>2, FS_EmptySet, FloorsAssumption DEF HasRoom
  <2> QED
    BY <2>3, <1>c, <1>d, ReserveStep DEF reserveNextAvailableFloor
<1>2. CASE HasRoom(f)
  BY <1>2, <1>c, <1>d, ReserveStep DEF reserveNextAvailableFloor
<1> QED
  BY <1>1, <1>2, <1>c

\* Between the reservation and the commit the request only moves on.
LEMMA MoveStep ==
  ASSUME FloorsInv, NEW r \in Spawns,
         NEW pc \in {"registered", "provider", "commit"},
         spawn[r].pc \notin {"new", "done", "failed", "full"},
         Go(r, pc), UNCHANGED <<floors, despawn, reaps>>,
         named' \subseteq Spawns, provided' \subseteq Spawns, store' \subseteq Spawns
  PROVE  FloorsInv'
<1>t. spawn \in [Spawns -> [pc : SpawnPC, floor : Nat]]
  BY DEF FloorsInv, FloorsTypeOK
<1>a. spawn' = [spawn EXCEPT ![r] = [@ EXCEPT !.pc = pc]] /\ pc \in SpawnPC
  BY DEF Go, SpawnPC
<1>1. spawn' \in [Spawns -> [pc : SpawnPC, floor : Nat]]
  BY <1>a, <1>t, Zenon
<1>2. FloorsTypeOK'
  BY <1>1 DEF FloorsInv, FloorsTypeOK
<1>3. NoLeakedToken'
  BY <1>a, <1>t DEF FloorsInv, NoLeakedToken
<1>4. NoCrowd'
  BY NobodyComes DEF FloorsInv, On
<1> QED
  BY <1>2, <1>3, <1>4 DEF FloorsInv

\* A request whose spawner failed gives its token back.
LEMMA FailStep ==
  ASSUME FloorsInv, NEW r \in Spawns, SpawnerFails(r)
  PROVE  FloorsInv'
<1>t. /\ floors \in [Holders -> Nat] /\ Token(r) \in Holders
      /\ spawn \in [Spawns -> [pc : SpawnPC, floor : Nat]]
  BY DEF FloorsInv, FloorsTypeOK, Holders, Token
<1>a. /\ spawn' = [spawn EXCEPT ![r] = [@ EXCEPT !.pc = "failed"]]
      /\ floors' = [floors EXCEPT ![Token(r)] = 0]
      /\ UNCHANGED <<named, provided, store, despawn, reaps>>
  BY DEF SpawnerFails, Go
<1>1. spawn' \in [Spawns -> [pc : SpawnPC, floor : Nat]]
  BY <1>a, <1>t, Zenon DEF SpawnPC
<1>2. FloorsTypeOK'
  BY <1>1, <1>a, <1>t DEF FloorsInv, FloorsTypeOK
<1>3. NoLeakedToken'
  <2> SUFFICES ASSUME NEW q \in Spawns
               PROVE  floors'[Token(q)] =
                         IF spawn'[q].pc \in {"new", "done", "failed", "full"}
                         THEN 0 ELSE spawn'[q].floor
    BY DEF NoLeakedToken, Token
  <2>1. CASE q = r
    BY <1>a, <1>t, <2>1
  <2>2. CASE q # r
    <3>1. Token(q) # Token(r) /\ Token(q) \in Holders
      BY <2>2 DEF Token, Holders
    <3> QED
      BY <1>a, <1>t, <2>2, <3>1 DEF FloorsInv, NoLeakedToken
  <2> QED
    BY <2>1, <2>2
<1>4. NoCrowd'
  BY <1>a, <1>t, NobodyComes DEF FloorsInv, On
<1> QED
  BY <1>2, <1>3, <1>4 DEF FloorsInv

\* The commit puts the agent where its token was.
LEMMA CommitStep ==
  ASSUME FloorsInv, NEW r \in Spawns, commitFloorReservation(r)
  PROVE  FloorsInv'
<1> DEFINE here == spawn[r].floor
<1>t. /\ floors \in [Holders -> Nat]
      /\ Token(r) \in Holders /\ Agent(r) \in Holders /\ Token(r) # Agent(r)
      /\ spawn \in [Spawns -> [pc : SpawnPC, floor : Nat]] /\ here \in Nat
  BY DEF FloorsInv, FloorsTypeOK, Holders, Token, Agent
<1>a. /\ spawn' = [spawn EXCEPT ![r] = [@ EXCEPT !.pc = "done"]]
      /\ floors' = [floors EXCEPT ![Token(r)] = 0, ![Agent(r)] = here]
      /\ UNCHANGED <<named, provided, store, despawn, reaps>>
  BY DEF commitFloorReservation, Go
<1>b. floors[Token(r)] = here
  BY DEF commitFloorReservation, At, FloorsInv, NoLeakedToken
<1>1. spawn' \in [Spawns -> [pc : SpawnPC, floor : Nat]]
  BY <1>a, <1>t, Zenon DEF SpawnPC
<1>2. FloorsTypeOK'
  BY <1>1, <1>a, <1>t DEF FloorsInv, FloorsTypeOK
<1>3. NoLeakedToken'
  BY <1>a, <1>t DEF FloorsInv, NoLeakedToken, Token, Agent, Holders
<1>4. NoCrowd'
  <2> SUFFICES ASSUME NEW g \in Nat \ {0}
               PROVE  Cardinality((On(g))') <= Capacity
    BY DEF NoCrowd
  <2>0. /\ IsFiniteSet(On(g)) /\ Cardinality(On(g)) \in Nat
        /\ Cardinality(On(g)) <= Capacity
    BY OnFinite DEF FloorsInv, NoCrowd
  <2> DEFINE rest == On(g) \ {Token(r)}
  <2>1. CASE g = here
    <3>1. (On(g))' = rest \cup {Agent(r)}
      BY <2>1, <1>a, <1>t DEF On
    <3>2. Token(r) \in On(g)
      BY <2>1, <1>b, <1>t DEF On
    <3>3. IsFiniteSet(rest) /\ Cardinality(rest) = Cardinality(On(g)) - 1
      BY <2>0, <3>2, FS_RemoveElement
    <3>4. /\ IsFiniteSet(rest \cup {Agent(r)})
          /\ Cardinality(rest \cup {Agent(r)}) <= Cardinality(rest) + 1
      <4>1. Cardinality(rest) \in Nat
        BY <3>3, FS_CardinalityType
      <4> QED
        BY <4>1, <3>3, FS_AddElement
    <3>5. Cardinality(rest \cup {Agent(r)}) \in Nat /\ Cardinality(rest) \in Nat
      BY <3>3, <3>4, FS_CardinalityType
    <3> QED
      BY <3>1, <3>3, <3>4, <3>5, <2>0, FloorsAssumption
  <2>2. CASE g # here
    <3>1. (On(g))' \subseteq On(g)
      BY <2>2, <1>a, <1>t DEF On
    <3>2. Cardinality((On(g))') \in Nat /\ Cardinality((On(g))') <= Cardinality(On(g))
      BY <3>1, <2>0, FS_Subset, FS_CardinalityType
    <3> QED
      BY <3>2, <2>0, FloorsAssumption
  <2> QED
    BY <2>1, <2>2
<1> QED
  BY <1>2, <1>3, <1>4 DEF FloorsInv

\* A despawn takes slots from agents only.
LEMMA DespawnStep ==
  ASSUME FloorsInv, NEW d \in Despawns, Despawning(d)
  PROVE  FloorsInv'
<1> DEFINE DRec == [pc : {"new", "delete", "forget", "done"}, agent : SUBSET Spawns]
<1>t. /\ floors \in [Holders -> Nat] /\ despawn \in [Despawns -> DRec]
      /\ named \subseteq Spawns /\ provided \subseteq Spawns /\ store \subseteq Spawns
  BY DEF FloorsInv, FloorsTypeOK
<1>s. UNCHANGED <<spawn, reaps>>
  BY DEF Despawning, DespawnRead, DespawnDelete, DespawnForget
<1>1. despawn' \in [Despawns -> DRec]
  <2>1. CASE DespawnRead(d)
    <3>1. PICK r \in store :
             despawn' = [despawn EXCEPT ![d] = [pc |-> "delete", agent |-> {r}]]
      BY <2>1 DEF DespawnRead
    <3> QED
      BY <3>1, <1>t
  <2>2. CASE DespawnDelete(d)
    BY <2>2, <1>t, Zenon DEF DespawnDelete
  <2>3. CASE DespawnForget(d)
    BY <2>3, <1>t, Zenon DEF DespawnForget
  <2> QED
    BY <2>1, <2>2, <2>3 DEF Despawning
<1>2. named' \subseteq Spawns /\ provided' \subseteq Spawns /\ store' \subseteq Spawns
  BY <1>t DEF Despawning, DespawnRead, DespawnDelete, DespawnForget
<1>3. \/ floors' = floors
      \/ floors' = [h \in Holders |->
                      IF h \in {Agent(r) : r \in despawn[d].agent} THEN 0
                      ELSE floors[h]]
  BY DEF Despawning, DespawnRead, DespawnDelete, DespawnForget
<1>4. /\ floors' \in [Holders -> Nat]
      /\ \A r \in Spawns : floors'[Token(r)] = floors[Token(r)]
      /\ \A h \in Holders : floors'[h] \in {floors[h], 0}
  BY <1>3, <1>t DEF Holders, Token, Agent
<1>5. FloorsTypeOK'
  BY <1>1, <1>2, <1>4, <1>s DEF FloorsInv, FloorsTypeOK
<1>6. NoLeakedToken'
  BY <1>4, <1>s DEF FloorsInv, NoLeakedToken
<1>7. NoCrowd'
  BY <1>4, NobodyComes DEF FloorsInv, On
<1> QED
  BY <1>5, <1>6, <1>7 DEF FloorsInv

\* The reaper leaves the floors as they are.
LEMMA ReapStep ==
  ASSUME FloorsInv, NEW r \in Spawns, Reap(r)
  PROVE  FloorsInv'
<1>1. FloorsTypeOK'
  BY FloorsAssumption DEF Reap, FloorsInv, FloorsTypeOK
<1>2. NoLeakedToken'
  BY DEF Reap, FloorsInv, NoLeakedToken
<1>3. NoCrowd'
  BY NobodyComes DEF Reap, FloorsInv, On
<1> QED
  BY <1>1, <1>2, <1>3 DEF FloorsInv

\* Every step of the bridge and of the reaper preserves the invariant.
LEMMA FloorsInvStep ==
  ASSUME FloorsInv, [FloorsNext]_floorVars
  PROVE  FloorsInv'
<1>t. named \subseteq Spawns /\ provided \subseteq Spawns /\ store \subseteq Spawns
  BY DEF FloorsInv, FloorsTypeOK
<1>1. ASSUME NEW r \in Spawns, Spawning(r) PROVE FloorsInv'
  <2>1. CASE Register(r)
    BY <2>1, <1>t, MoveStep DEF Register, At
  <2>2. CASE setAgentName(r)
    BY <2>2, <1>t, MoveStep DEF setAgentName, At
  <2>3. CASE setAgentProvider(r)
    BY <2>3, <1>t, MoveStep DEF setAgentProvider, At
  <2> QED
    BY <1>1, <2>1, <2>2, <2>3, SlotStep, NextAvailableStep, FailStep, CommitStep
    DEF Spawning
<1>2. CASE UNCHANGED floorVars
  <2>1. FloorsTypeOK'
    BY <1>2 DEF floorVars, FloorsInv, FloorsTypeOK
  <2>2. NoLeakedToken'
    BY <1>2 DEF floorVars, FloorsInv, NoLeakedToken
  <2>3. NoCrowd'
    BY <1>2, NobodyComes DEF floorVars, FloorsInv, On
  <2> QED
    BY <2>1, <2>2, <2>3 DEF FloorsInv
<1> QED
  BY <1>1, <1>2, DespawnStep, ReapStep DEF FloorsNext

\* The floors, names, providers and requests keep their types.
THEOREM FloorsTypeCorrect == FloorsSpec => []FloorsTypeOK
<1>1. FloorsInv => FloorsTypeOK
  BY DEF FloorsInv
<1>2. FloorsInv /\ [FloorsNext]_floorVars => FloorsInv'
  BY FloorsInvStep
<1> QED
  BY <1>1, <1>2, FloorsInvInit, PTL DEF FloorsSpec

\* No reservation outlives its request, and none moves while it lasts.
THEOREM TokensAreReturned == FloorsSpec => []NoLeakedToken
<1>1. FloorsInv => NoLeakedToken
  BY DEF FloorsInv
<1>2. FloorsInv /\ [FloorsNext]_floorVars => FloorsInv'
  BY FloorsInvStep
<1> QED
  BY <1>1, <1>2, FloorsInvInit, PTL DEF FloorsSpec

\* However many requests race, and however large floorCapacity is, no floor is
\* over it.
THEOREM FloorsNeverOverfull == FloorsSpec => []FloorCapacity
<1>1. FloorsInv => FloorCapacity
  BY DEF FloorsInv, FloorsTypeOK, NoCrowd, FloorCapacity, groundFloor
<1>2. FloorsInv /\ [FloorsNext]_floorVars => FloorsInv'
  BY FloorsInvStep
<1> QED
  BY <1>1, <1>2, FloorsInvInit, PTL DEF FloorsSpec

-----------------------------------------------------------------------------
(* Where the agents are *)

\* How far the commit of request r has come, until r's agent is despawned.
Settled(r) ==
    /\ spawn[r].pc \notin {"new", "full", "failed"} => spawn[r].floor # groundFloor
    /\ ~Forgetting(r) =>
          /\ spawn[r].pc \in {"provider", "commit", "done"} => r \in named
          /\ spawn[r].pc \in {"commit", "done"} => r \in provided
          /\ spawn[r].pc = "done" => floors[Agent(r)] = spawn[r].floor

PlacedInv == FloorsInv /\ \A r \in Spawns : Settled(r)

\* A request moves on by itself: its floors and entries do not depend on the
\* other requests.
LEMMA SpawnSettles ==
  ASSUME FloorsInv, \A r \in Spawns : Settled(r), NEW q \in Spawns, Spawning(q)
  PROVE  \A r \in Spawns : Settled(r)'
<1> SUFFICES ASSUME NEW r \in Spawns PROVE Settled(r)'
  OBVIOUS
<1>t. /\ floors \in [Holders -> Nat] /\ Agent(r) \in Holders /\ Token(q) \in Holders
      /\ Agent(q) \in Holders
      /\ Token(q) # Agent(r) /\ (q # r => Agent(q) # Agent(r))
      /\ spawn \in [Spawns -> [pc : SpawnPC, floor : Nat]]
  BY DEF FloorsInv, FloorsTypeOK, Holders, Token, Agent
<1>f. Forgetting(r)' <=> Forgetting(r)
  BY DEF Spawning, reserveFloorSlot, reserveNextAvailableFloor, Register,
         SpawnerFails, setAgentName, setAgentProvider, commitFloorReservation,
         Forgetting
<1>s. Settled(r)
  OBVIOUS
<1>1. ASSUME NEW f \in Nat \ {0}, Reserve(q, f), UNCHANGED <<named, provided>>
      PROVE  Settled(r)'
  <2>1. floors'[Agent(r)] = floors[Agent(r)]
    BY <1>1, <1>t DEF Reserve
  <2>2. CASE r = q
    BY <1>1, <1>t, <2>2 DEF Reserve, Settled, groundFloor
  <2>3. CASE r # q
    <3>1. spawn'[r] = spawn[r]
      BY <1>1, <1>t, <2>3 DEF Reserve
    <3> QED
      BY <1>1, <1>s, <1>f, <2>1, <3>1 DEF Settled
  <2> QED
    BY <2>2, <2>3
<1>2. CASE reserveFloorSlot(q)
  <2>1. PICK f \in (groundFloor + 1)..MaxAsk :
           IF HasRoom(f) THEN Reserve(q, f) ELSE Go(q, "full") /\ UNCHANGED floors
    BY <1>2 DEF reserveFloorSlot
  <2>2. UNCHANGED <<named, provided>> /\ f \in Nat \ {0}
    BY <1>2, FloorsAssumption DEF reserveFloorSlot, groundFloor
  <2>3. CASE HasRoom(f)
    BY <2>1, <2>2, <2>3, <1>1
  <2>4. CASE ~HasRoom(f)
    BY <2>1, <2>2, <2>4, <1>s, <1>f, <1>t DEF Go, Settled
  <2> QED
    BY <2>3, <2>4
<1>3. CASE reserveNextAvailableFloor(q)
  <2>1. PICK top \in {groundFloor} \cup {floors[h] : h \in Holders} :
           \E f \in 1..(top + 1) : Reserve(q, f)
    BY <1>3 DEF reserveNextAvailableFloor
  <2>2. UNCHANGED <<named, provided>> /\ top \in Nat
    BY <1>3, <1>t DEF reserveNextAvailableFloor, groundFloor
  <2> QED
    BY <2>1, <2>2, <1>1
<1>4. CASE Register(q)
  BY <1>4, <1>s, <1>f, <1>t DEF Register, At, Go, Settled
<1>5. CASE SpawnerFails(q)
  <2>1. floors'[Agent(r)] = floors[Agent(r)]
    BY <1>5, <1>t DEF SpawnerFails
  <2> QED
    BY <2>1, <1>5, <1>s, <1>f, <1>t DEF SpawnerFails, At, Go, Settled
<1>6. CASE setAgentName(q)
  BY <1>6, <1>s, <1>f, <1>t DEF setAgentName, At, Go, Settled
<1>7. CASE setAgentProvider(q)
  BY <1>7, <1>s, <1>f, <1>t DEF setAgentProvider, At, Go, Settled
<1>8. CASE commitFloorReservation(q)
  <2>1. /\ spawn'[r].floor = spawn[r].floor /\ UNCHANGED <<named, provided>>
        /\ spawn[q].pc = "commit"
        /\ spawn'[r].pc = IF r = q THEN "done" ELSE spawn[r].pc
        /\ floors'[Agent(r)] = IF r = q THEN spawn[r].floor ELSE floors[Agent(r)]
    BY <1>8, <1>t DEF commitFloorReservation, At, Go
  <2> QED
    BY <2>1, <1>s, <1>f DEF Settled
<1> QED
  BY <1>2, <1>3, <1>4, <1>5, <1>6, <1>7, <1>8 DEF Spawning

\* What a despawn forgets is what it was asked to forget.
LEMMA DespawnSettles ==
  ASSUME FloorsInv, \A r \in Spawns : Settled(r), NEW d \in Despawns, Despawning(d)
  PROVE  \A r \in Spawns : Settled(r)'
<1> SUFFICES ASSUME NEW r \in Spawns PROVE Settled(r)'
  OBVIOUS
<1> DEFINE DRec == [pc : {"new", "delete", "forget", "done"}, agent : SUBSET Spawns]
<1>t. /\ floors \in [Holders -> Nat] /\ despawn \in [Despawns -> DRec]
      /\ Agent(r) \in Holders /\ \A q \in Spawns : Agent(q) = Agent(r) => q = r
  BY DEF FloorsInv, FloorsTypeOK, Holders, Agent
<1>s. Settled(r) /\ spawn' = spawn
  BY DEF Despawning, DespawnRead, DespawnDelete, DespawnForget
<1>1. Forgetting(r) => Forgetting(r)'
  <2> SUFFICES ASSUME NEW e \in Despawns, despawn[e].pc # "new",
                      r \in despawn[e].agent
               PROVE  despawn'[e].pc # "new" /\ r \in despawn'[e].agent
    BY DEF Forgetting
  <2>1. CASE DespawnRead(d)
    <3>1. e # d
      BY <2>1 DEF DespawnRead
    <3> QED
      BY <2>1, <3>1, <1>t DEF DespawnRead
  <2>2. CASE DespawnDelete(d)
    BY <2>2, <1>t DEF DespawnDelete
  <2>3. CASE DespawnForget(d)
    BY <2>3, <1>t DEF DespawnForget
  <2> QED
    BY <2>1, <2>2, <2>3 DEF Despawning
<1>2. CASE DespawnForget(d) /\ r \in despawn[d].agent
  <2>1. Forgetting(r)
    BY <1>2 DEF DespawnForget, Forgetting
  <2> QED
    BY <2>1, <1>1, <1>s DEF Settled
<1>3. CASE ~(DespawnForget(d) /\ r \in despawn[d].agent)
  <2>1. CASE DespawnForget(d)
    <3>1. r \notin despawn[d].agent /\ despawn[d].agent \subseteq Spawns
      BY <2>1, <1>3, <1>t
    <3>2. Agent(r) \notin {Agent(q) : q \in despawn[d].agent}
      BY <3>1, <1>t
    <3>3. floors'[Agent(r)] = floors[Agent(r)]
      BY <2>1, <3>2, <1>t DEF DespawnForget
    <3>4. (r \in named => r \in named') /\ (r \in provided => r \in provided')
      BY <2>1, <3>1 DEF DespawnForget
    <3> QED
      BY <3>3, <3>4, <1>1, <1>s DEF Settled
  <2>2. CASE DespawnRead(d) \/ DespawnDelete(d)
    <3>1. UNCHANGED <<floors, named, provided>>
      BY <2>2 DEF DespawnRead, DespawnDelete
    <3> QED
      BY <3>1, <1>1, <1>s DEF Settled
  <2> QED
    BY <2>1, <2>2 DEF Despawning
<1> QED
  BY <1>2, <1>3

\* An agent whose spawn was answered OK is on the floor, and has the name and
\* the provider, of the answer, until somebody despawns it.
THEOREM AgentsArePlaced == FloorsSpec => []Placed
<1>1. FloorsInit => PlacedInv
  BY FloorsInvInit DEF FloorsInit, Settled, PlacedInv
<1>2. PlacedInv /\ [FloorsNext]_floorVars => PlacedInv'
  <2> SUFFICES ASSUME PlacedInv, [FloorsNext]_floorVars PROVE PlacedInv'
    OBVIOUS
  <2>1. FloorsInv'
    BY FloorsInvStep DEF PlacedInv
  <2>2. ASSUME UNCHANGED floorVars PROVE \A r \in Spawns : Settled(r)'
    BY <2>2 DEF floorVars, PlacedInv, Settled, Forgetting
  <2>3. ASSUME NEW q \in Spawns, Reap(q) PROVE \A r \in Spawns : Settled(r)'
    BY <2>3 DEF Reap, PlacedInv, Settled, Forgetting
  <2>4. \A r \in Spawns : Settled(r)'
    BY <2>2, <2>3, SpawnSettles, DespawnSettles DEF FloorsNext, PlacedInv
  <2> QED
    BY <2>1, <2>4 DEF PlacedInv
<1>3. PlacedInv => Placed
  BY DEF PlacedInv, Settled, Placed, At
<1> QED
  BY <1>1, <1>2, <1>3, PTL DEF FloorsSpec

-----------------------------------------------------------------------------
(* Health.  The invariant follows one check at a time (Honest): while it   *)
(* runs it has noticed every moment with enough agents, so the number it   *)
(* read is large enough only if there was such a moment.                   *)

CheckRec == [pc : CheckPC, pingOK : BOOLEAN, agentsOK : BOOLEAN,
             queueOK : BOOLEAN, total : Nat, enough : BOOLEAN, ready : BOOLEAN]

Running == {"ping", "agents", "queue", "judge"}

\* What check r may claim with n agents in the store.
Honest(r, n) ==
    /\ r.pc \in Running /\ n >= MinAgents => r.enough
    /\ r.pc \in {"queue", "judge"} /\ r.total >= MinAgents => r.enough

HealthInv == HealthTypeOK /\ \A k \in Checkers : Honest(check[k], agents)

\* A check that has not begun.
LEMMA NoCheckType == NoCheck \in CheckRec /\ NoCheck.pc = "start"
BY DEF NoCheck, CheckRec, CheckPC

\* The initial state, with grpchealth.NewServer and no check begun.
LEMMA HealthInvInit == HealthInit => HealthInv
<1> SUFFICES ASSUME HealthInit PROVE HealthInv
  OBVIOUS
<1>1. check \in [Checkers -> CheckRec]
  BY NoCheckType DEF HealthInit
<1>2. agents \in 0..MaxAgents /\ outages \in 0..MaxOutages
  BY HealthAssumption DEF HealthInit
<1>3. outage \in BOOLEAN /\ cancelled \in BOOLEAN /\ serving \in BOOLEAN /\ halted \in BOOLEAN
  BY Zenon DEF HealthInit
<1>4. \A k \in Checkers : check[k].pc = "start"
  BY NoCheckType DEF HealthInit
<1> QED
  BY <1>1, <1>2, <1>3, <1>4, Zenon DEF HealthInv, HealthTypeOK, CheckRec, Honest, Running

\* One check takes a step: the others keep what they have.
LEMMA OneStep ==
  ASSUME HealthInv, NEW k \in Checkers, NEW r \in CheckRec,
         check' = [check EXCEPT ![k] = r], Honest(r, agents),
         UNCHANGED <<agents, outage, outages, cancelled>>,
         serving' \in BOOLEAN, halted' \in BOOLEAN
  PROVE  HealthInv'
<1>1. check \in [Checkers -> CheckRec]
  BY DEF HealthInv, HealthTypeOK, CheckRec
<1>2. check' \in [Checkers -> CheckRec]
  BY <1>1
<1>3. HealthTypeOK'
  BY <1>2 DEF HealthInv, HealthTypeOK, CheckRec
<1>4. ASSUME NEW j \in Checkers PROVE Honest(check'[j], agents')
  BY <1>1, Zenon DEF HealthInv
<1> QED
  BY <1>3, <1>4 DEF HealthInv

\* The four reads and the verdict.
LEMMA CheckStep ==
  ASSUME HealthInv, NEW k \in Checkers,
         \/ CheckBegin(k) \/ CheckPing(k) \/ CheckAgents(k) \/ CheckQueue(k)
         \/ CheckJudge(k)
  PROVE  HealthInv'
<1> USE HealthAssumption
<1> DEFINE old == check[k]
<1>t. /\ old \in CheckRec /\ Honest(old, agents) /\ agents \in Nat
      /\ serving \in BOOLEAN /\ halted \in BOOLEAN
  BY DEF HealthInv, HealthTypeOK, CheckRec
<1>s. ASSUME NEW r \in CheckRec, Step(k, r), Honest(r, agents) PROVE HealthInv'
  BY <1>s, <1>t, OneStep DEF Step
<1>1. CASE CheckBegin(k)
  <2>1. CASE agents >= MinAgents
    <3> DEFINE r == [NoCheck EXCEPT !.pc = "ping", !.enough = TRUE]
    <3>1. (agents >= MinAgents) = TRUE
      BY <2>1
    <3>2. Step(k, r)
      BY <1>1, <3>1, Zenon DEF CheckBegin
    <3>3. r \in CheckRec /\ r.enough
      BY DEF NoCheck, CheckRec, CheckPC
    <3> QED
      BY <3>2, <3>3, <1>s, Zenon DEF Honest
  <2>2. CASE ~(agents >= MinAgents)
    <3> DEFINE r == [NoCheck EXCEPT !.pc = "ping", !.enough = FALSE]
    <3>1. (agents >= MinAgents) = FALSE
      BY <2>2
    <3>2. Step(k, r)
      BY <1>1, <3>1, Zenon DEF CheckBegin
    <3>3. r \in CheckRec /\ r.pc = "ping"
      BY DEF NoCheck, CheckRec, CheckPC
    <3> QED
      BY <2>2, <3>2, <3>3, <1>s, Zenon DEF Honest
  <2> QED
    BY <2>1, <2>2
<1>2. CASE CheckPing(k)
  <2>1. PICK ok \in BOOLEAN : Step(k, [old EXCEPT !.pc = "agents", !.pingOK = ok])
    BY <1>2 DEF CheckPing
  <2> DEFINE r == [old EXCEPT !.pc = "agents", !.pingOK = ok]
  <2>2. /\ r \in CheckRec /\ r.pc = "agents" /\ r.enough = old.enough
        /\ old.pc = "ping"
    BY <1>2, <1>t DEF CheckPing, CheckRec, CheckPC
  <2>3. Honest(r, agents)
    BY <2>2, <1>t DEF Honest, Running
  <2> QED
    BY <2>1, <2>2, <2>3, <1>s, Zenon
<1>3. CASE CheckAgents(k)
  <2>1. PICK ok \in BOOLEAN :
           Step(k, [old EXCEPT !.pc = "queue", !.agentsOK = ok,
                               !.total = IF ok THEN agents ELSE 0])
    BY <1>3 DEF CheckAgents
  <2> DEFINE r == [old EXCEPT !.pc = "queue", !.agentsOK = ok,
                              !.total = IF ok THEN agents ELSE 0]
  <2>2. (IF ok THEN agents ELSE 0) \in Nat
    BY <1>t
  <2>3. /\ r \in CheckRec /\ r.pc = "queue" /\ r.enough = old.enough
        /\ r.total \in {agents, 0} /\ old.pc = "agents"
    BY <1>3, <1>t, <2>2 DEF CheckAgents, CheckRec, CheckPC
  <2>4. Honest(r, agents)
    BY <2>3, <1>t DEF Honest, Running
  <2> QED
    BY <2>1, <2>3, <2>4, <1>s, Zenon
<1>4. CASE CheckQueue(k)
  <2>1. PICK ok \in BOOLEAN : Step(k, [old EXCEPT !.pc = "judge", !.queueOK = ok])
    BY <1>4 DEF CheckQueue
  <2> DEFINE r == [old EXCEPT !.pc = "judge", !.queueOK = ok]
  <2>2. /\ r \in CheckRec /\ r.pc = "judge" /\ r.enough = old.enough
        /\ r.total = old.total /\ old.pc = "queue"
    BY <1>4, <1>t DEF CheckQueue, CheckRec, CheckPC
  <2>3. Honest(r, agents)
    BY <2>2, <1>t DEF Honest, Running
  <2> QED
    BY <2>1, <2>2, <2>3, <1>s, Zenon
<1>5. CASE CheckJudge(k)
  <2> DEFINE next == IF k = Updater THEN "publish" ELSE "start"
  <2>1. PICK v \in BOOLEAN : Step(k, [NoCheck EXCEPT !.ready = v, !.pc = next])
    <3>1. Readiness(old) = TRUE \/ Readiness(old) = FALSE
      BY DEF Readiness, StoreErrors
    <3> QED
      BY <1>5, <3>1, Zenon DEF CheckJudge
  <2> DEFINE r == [NoCheck EXCEPT !.ready = v, !.pc = next]
  <2>2. r \in CheckRec /\ r.pc \in {"publish", "start"}
    BY DEF NoCheck, CheckRec, CheckPC
  <2>3. Honest(r, agents)
    BY <2>2 DEF Honest, Running
  <2> QED
    BY <2>1, <2>2, <2>3, <1>s, Zenon
<1> QED
  BY <1>1, <1>2, <1>3, <1>4, <1>5

\* The updater publishes, or leaves.
LEMMA UpdaterInvStep ==
  ASSUME HealthInv, UpdaterPublish \/ UpdaterExit
  PROVE  HealthInv'
<1>t. Updater \in Checkers /\ serving \in BOOLEAN /\ halted \in BOOLEAN
      /\ check \in [Checkers -> CheckRec]
  BY DEF Checkers, HealthInv, HealthTypeOK, CheckRec
<1>1. CASE UpdaterPublish
  <2>1. serving' \in BOOLEAN /\ halted' \in BOOLEAN
    BY <1>1, <1>t DEF UpdaterPublish, CheckRec
  <2>2. Honest(NoCheck, agents)
    BY NoCheckType DEF Honest, Running
  <2> QED
    BY <1>1, <1>t, <2>1, <2>2, NoCheckType, OneStep DEF UpdaterPublish
<1>2. CASE UpdaterExit
  <2> DEFINE r == [NoCheck EXCEPT !.pc = "over"]
  <2>1. r \in CheckRec /\ r.pc = "over"
    BY DEF NoCheck, CheckRec, CheckPC
  <2>2. Honest(r, agents)
    BY <2>1 DEF Honest, Running
  <2>3. serving' \in BOOLEAN /\ halted' \in BOOLEAN
    BY <1>2, Zenon DEF UpdaterExit
  <2> QED
    BY <1>2, <1>t, <2>1, <2>2, <2>3, OneStep DEF UpdaterExit
<1> QED
  BY <1>1, <1>2

\* Agents come and go: every check under way takes note of it.
LEMMA AgentsStep ==
  ASSUME HealthInv, AgentsChange
  PROVE  HealthInv'
<1>t. check \in [Checkers -> CheckRec] /\ agents' \in 0..MaxAgents
  BY DEF AgentsChange, HealthInv, HealthTypeOK, CheckRec
<1>1. ASSUME NEW k \in Checkers
      PROVE  check'[k] \in CheckRec /\ Honest(check'[k], agents')
  <2>0. check[k] \in CheckRec /\ Honest(check[k], agents)
    BY <1>t DEF HealthInv
  <2>1. CASE check[k].pc \notin {"start", "publish", "over"} /\ agents' >= MinAgents
    <3>1. check'[k] = [check[k] EXCEPT !.enough = TRUE]
      BY <2>1 DEF AgentsChange
    <3>2. check'[k] \in CheckRec /\ check'[k].enough
      BY <3>1, <2>0 DEF CheckRec
    <3> QED
      BY <3>2, Zenon DEF Honest
  <2>2. CASE ~(check[k].pc \notin {"start", "publish", "over"} /\ agents' >= MinAgents)
    <3>1. check'[k] = check[k]
      BY <2>2 DEF AgentsChange
    <3> QED
      BY <3>1, <2>2, <2>0 DEF Honest, Running
  <2> QED
    BY <2>1, <2>2
<1>2. check' \in [Checkers -> CheckRec]
  <2>1. check' = [k \in Checkers |-> check'[k]]
    BY Zenon DEF AgentsChange
  <2> QED
    BY <2>1, <1>1
<1>3. UNCHANGED <<outage, outages, cancelled, serving, halted>>
  BY DEF AgentsChange
<1> QED
  BY <1>t, <1>1, <1>2, <1>3 DEF HealthInv, HealthTypeOK, CheckRec

\* Every step preserves the invariant.
LEMMA HealthInvStep ==
  ASSUME HealthInv, [HealthNext]_healthVars
  PROVE  HealthInv'
<1>1. CASE Cancel
  BY <1>1 DEF Cancel, HealthInv, HealthTypeOK
<1>2. CASE OutageBegins
  BY <1>2, HealthAssumption DEF OutageBegins, HealthInv, HealthTypeOK
<1>3. CASE OutageEnds
  BY <1>3 DEF OutageEnds, HealthInv, HealthTypeOK
<1>4. CASE UNCHANGED healthVars
  BY <1>4 DEF healthVars, HealthInv, HealthTypeOK
<1> QED
  BY <1>1, <1>2, <1>3, <1>4, CheckStep, UpdaterInvStep, AgentsStep DEF HealthNext

\* The types of the aggregator's state.
THEOREM HealthTypeCorrect == HealthSpec => []HealthTypeOK
<1>1. HealthInv => HealthTypeOK
  BY DEF HealthInv
<1>2. HealthInv /\ [HealthNext]_healthVars => HealthInv'
  BY HealthInvStep
<1> QED
  BY <1>1, <1>2, HealthInvInit, PTL DEF HealthSpec

\* Ready is never said after an error, nor when at no moment of the check there
\* were as many agents as are required.
THEOREM ReadinessIsHonest == HealthSpec => []ReadyIsHonest
<1>1. HealthInv => ReadyIsHonest
  <2> SUFFICES ASSUME HealthInv, NEW k \in Checkers,
                      check[k].pc = "judge", Readiness(check[k])
               PROVE  /\ check[k].pingOK /\ check[k].agentsOK /\ check[k].queueOK
                      /\ check[k].enough
    BY DEF ReadyIsHonest
  <2>1. /\ check[k].pingOK /\ check[k].agentsOK /\ check[k].queueOK
        /\ check[k].total >= MinAgents
    BY DEF Readiness, StoreErrors
  <2>2. Honest(check[k], agents)
    BY DEF HealthInv
  <2> QED
    BY <2>1, <2>2 DEF Honest
<1>2. HealthInv /\ [HealthNext]_healthVars => HealthInv'
  BY HealthInvStep
<1> QED
  BY <1>1, <1>2, HealthInvInit, PTL DEF HealthSpec

-----------------------------------------------------------------------------
(* Sums *)

\* Every non-empty set of naturals has a least element.
LEMMA LeastNatural ==
    ASSUME NEW T, T \subseteq Nat, T # {}
    PROVE  \E x \in T : \A y \in T : x <= y
<1>1. PICK x \in T : \A y \in T : ~ (<<y, x>> \in OpToRel(<, Nat))
  BY NatLessThanWellFounded, WFMin, Zenon
<1>2. \A y \in T : ~ (y < x)
  BY <1>1 DEF OpToRel
<1> QED
  BY <1>2

\* So a set of naturals that has 0, and with n also n + 1, has all of them:
\* induction, about a set instead of a predicate.
LEMMA SetInduction ==
    ASSUME NEW T, 0 \in T, \A n \in Nat : n \in T => n + 1 \in T
    PROVE  \A n \in Nat : n \in T
<1> SUFFICES ASSUME \E n \in Nat : n \notin T
             PROVE  FALSE
  OBVIOUS
<1> DEFINE U == {n \in Nat : n \notin T}
<1>1. PICK x \in U : \A y \in U : x <= y
  BY LeastNatural
<1>2. x # 0 /\ x - 1 \in Nat
  BY <1>1
<1>3. x - 1 \in T
  BY <1>1, <1>2
<1> QED
  BY <1>1, <1>2, <1>3

\* The library's sum of f over its domain takes one element at a time: what it
\* makes of a set s, if g is what it makes of the smaller sets.
Taken(s) == CHOOSE y \in s : TRUE
SumStep(f, g, s) == IF s = {} THEN 0 ELSE f[Taken(s)] + g[s \ {Taken(s)}]

\* g has the sums of f over all subsets of its domain.
Sums(f, g) ==
    /\ g \in [SUBSET DOMAIN f -> Nat]
    /\ \A s \in SUBSET DOMAIN f : g[s] = SumStep(f, g, s)

\* Something is taken.
LEMMA TakenIsIn ==
    ASSUME NEW s, s # {}
    PROVE  Taken(s) \in s
BY DEF Taken

\* Taking an element leaves a smaller set.
LEMMA OneLess ==
    ASSUME NEW s, IsFiniteSet(s), s # {}
    PROVE  /\ IsFiniteSet(s \ {Taken(s)})
           /\ Cardinality(s) \in Nat \ {0}
           /\ Cardinality(s \ {Taken(s)}) = Cardinality(s) - 1
<1>1. Taken(s) \in s
  BY TakenIsIn
<1>2. Cardinality(s) \in Nat /\ Cardinality(s) # 0
  BY FS_CardinalityType, FS_EmptySet
<1> QED
  BY <1>1, <1>2, FS_RemoveElement

\* The sums over the subsets up to any size exist.
LEMMA SumsExist ==
    ASSUME NEW f, IsFiniteSet(DOMAIN f), \A x \in DOMAIN f : f[x] \in Nat
    PROVE  \E g : Sums(f, g)
<1> DEFINE D == DOMAIN f
           UpTo(n, g) == \A s \in SUBSET D :
                            Cardinality(s) <= n => g[s] = SumStep(f, g, s)
           T == {n \in Nat : \E g \in [SUBSET D -> Nat] : UpTo(n, g)}
<1>1. \A s \in SUBSET D : IsFiniteSet(s) /\ Cardinality(s) \in Nat
                          /\ Cardinality(s) <= Cardinality(D)
  BY FS_Subset, FS_CardinalityType
<1>2. 0 \in T
  <2> DEFINE g == [s \in SUBSET D |-> 0]
  <2>1. g \in [SUBSET D -> Nat]
    OBVIOUS
  <2>2. ASSUME NEW s \in SUBSET D, Cardinality(s) <= 0
        PROVE  g[s] = SumStep(f, g, s)
    <3>1. Cardinality(s) = 0
      BY <1>1, <2>2
    <3>2. s = {}
      BY <1>1, <3>1, FS_EmptySet
    <3> QED
      BY <3>2 DEF SumStep
  <2> QED
    BY <2>1, <2>2
<1>3. ASSUME NEW n \in Nat, n \in T
      PROVE  n + 1 \in T
  <2>1. PICK g \in [SUBSET D -> Nat] : UpTo(n, g)
    BY <1>3
  <2> DEFINE h == [s \in SUBSET D |->
                      IF Cardinality(s) <= n THEN g[s] ELSE
                      IF Cardinality(s) = n + 1 THEN SumStep(f, g, s) ELSE 0]
  <2>2. ASSUME NEW s \in SUBSET D
        PROVE  SumStep(f, g, s) \in Nat
    <3>1. CASE s = {}
      BY <3>1 DEF SumStep
    <3>2. CASE s # {}
      <4>1. Taken(s) \in D /\ s \ {Taken(s)} \in SUBSET D
        BY <3>2, TakenIsIn
      <4>2. f[Taken(s)] \in Nat /\ g[s \ {Taken(s)}] \in Nat
        BY <2>1, <4>1
      <4> QED
        BY <3>2, <4>2 DEF SumStep
    <3> QED
      BY <3>1, <3>2
  <2>3. h \in [SUBSET D -> Nat]
    BY <2>1, <2>2
  <2>4. ASSUME NEW s \in SUBSET D, Cardinality(s) <= n + 1
        PROVE  SumStep(f, h, s) = SumStep(f, g, s)
    <3>1. CASE s = {}
      BY <3>1 DEF SumStep
    <3>2. CASE s # {}
      <4>1. s \ {Taken(s)} \in SUBSET D /\ Cardinality(s \ {Taken(s)}) <= n
        BY <1>1, <2>4, <3>2, OneLess
      <4>2. h[s \ {Taken(s)}] = g[s \ {Taken(s)}]
        BY <4>1
      <4> QED
        BY <3>2, <4>2 DEF SumStep
    <3> QED
      BY <3>1, <3>2
  <2>5. UpTo(n + 1, h)
    <3> SUFFICES ASSUME NEW s \in SUBSET D, Cardinality(s) <= n + 1
                 PROVE  h[s] = SumStep(f, h, s)
      OBVIOUS
    <3>1. CASE Cardinality(s) <= n
      <4>1. h[s] = g[s] /\ g[s] = SumStep(f, g, s)
        BY <2>1, <3>1
      <4> QED
        BY <4>1, <2>4
    <3>2. CASE Cardinality(s) = n + 1
      <4>1. h[s] = SumStep(f, g, s)
        BY <3>2
      <4> QED
        BY <4>1, <2>4
    <3> QED
      BY <1>1, <3>1, <3>2
  <2>6. h \in [SUBSET D -> Nat] /\ UpTo(n + 1, h)
    BY <2>3, <2>5
  <2> HIDE DEF h, UpTo
  <2> QED
    BY <2>6
<1>4. \A n \in Nat : n \in T
  <2> HIDE DEF T
  <2> QED
    BY <1>2, <1>3, SetInduction
<1>5. Cardinality(D) \in T
  BY <1>1, <1>4
<1>6. PICK g \in [SUBSET D -> Nat] : UpTo(Cardinality(D), g)
  BY <1>5
<1> QED
  BY <1>1, <1>6 DEF Sums

\* What satisfies the equations of the sums is those sums.
LEMMA SumsUnique ==
    ASSUME NEW f, IsFiniteSet(DOMAIN f), NEW g, NEW h,
           \A s \in SUBSET DOMAIN f :
              g[s] = SumStep(f, g, s) /\ h[s] = SumStep(f, h, s)
    PROVE  \A s \in SUBSET DOMAIN f : g[s] = h[s]
<1> DEFINE D == DOMAIN f
           T == {n \in Nat : \A s \in SUBSET D :
                                Cardinality(s) = n => g[s] = h[s]}
<1>1. \A s \in SUBSET D : IsFiniteSet(s) /\ Cardinality(s) \in Nat
  BY FS_Subset, FS_CardinalityType
<1>2. 0 \in T
  <2> SUFFICES ASSUME NEW s \in SUBSET D, Cardinality(s) = 0
               PROVE  g[s] = h[s]
    OBVIOUS
  <2>1. s = {}
    BY <1>1, FS_EmptySet
  <2> QED
    BY <2>1 DEF SumStep
<1>3. ASSUME NEW n \in Nat, n \in T
      PROVE  n + 1 \in T
  <2> SUFFICES ASSUME NEW s \in SUBSET D, Cardinality(s) = n + 1
               PROVE  g[s] = h[s]
    OBVIOUS
  <2>1. s # {}
    BY FS_EmptySet
  <2>2. s \ {Taken(s)} \in SUBSET D /\ Cardinality(s \ {Taken(s)}) = n
    BY <1>1, <2>1, OneLess
  <2>3. g[s \ {Taken(s)}] = h[s \ {Taken(s)}]
    BY <1>3, <2>2
  <2> QED
    BY <2>1, <2>3 DEF SumStep
<1>4. \A n \in Nat : n \in T
  <2> HIDE DEF T
  <2> QED
    BY <1>2, <1>3, SetInduction
<1> QED
  BY <1>1, <1>4

\* So SumFunction takes the sum over the whole domain.
LEMMA SumUnfolds ==
    ASSUME NEW f, NEW g, IsFiniteSet(DOMAIN f), Sums(f, g)
    PROVE  SumFunction(f) = g[DOMAIN f]
<1> DEFINE D == DOMAIN f
           Rec(k) == k = [s \in SUBSET D |-> SumStep(f, k, s)]
           h == CHOOSE k : Rec(k)
<1>1. SumFunction(f) = h[D]
  BY DEF SumFunction, SumFunctionOnSet, FoldFunctionOnSet, MapThenFoldSet,
         SumStep, Taken
<1>2. Rec(g)
  BY DEF Sums
<1>3. Rec(h)
  BY <1>2
<1>4. \A s \in SUBSET D : h[s] = SumStep(f, h, s)
  <2> HIDE DEF h
  <2> QED
    BY <1>3
<1>5. \A s \in SUBSET D : g[s] = h[s]
  <2> HIDE DEF h
  <2> QED
    BY <1>4, SumsUnique DEF Sums
<1> QED
  BY <1>1, <1>5

\* f gives each element of D a number.
Weighting(f, D) == f = [x \in D |-> f[x]] /\ \A x \in D : f[x] \in Nat

\* A weighting has its sums, and its sum is one of them.
LEMMA SumType ==
    ASSUME NEW f, NEW D, IsFiniteSet(D), Weighting(f, D)
    PROVE  SumFunction(f) \in Nat /\ \E g : Sums(f, g) /\ SumFunction(f) = g[D]
<1>1. DOMAIN f = D
  BY DEF Weighting
<1>2. PICK g : Sums(f, g)
  BY <1>1, SumsExist DEF Weighting
<1>3. SumFunction(f) = g[D]
  BY <1>1, <1>2, SumUnfolds
<1> QED
  BY <1>1, <1>2, <1>3 DEF Sums

\* Sums add up as their terms do.
LEMMA SumAdds ==
    ASSUME NEW D, IsFiniteSet(D), NEW e, NEW f, NEW g,
           Weighting(e, D), Weighting(f, D), Weighting(g, D),
           \A x \in D : g[x] = e[x] + f[x]
    PROVE  SumFunction(g) = SumFunction(e) + SumFunction(f)
<1>1. /\ DOMAIN e = D /\ DOMAIN f = D /\ DOMAIN g = D
  BY DEF Weighting
<1>2. PICK ee : Sums(e, ee) /\ SumFunction(e) = ee[D]
  BY SumType
<1>3. PICK ff : Sums(f, ff) /\ SumFunction(f) = ff[D]
  BY SumType
<1>4. PICK gg : Sums(g, gg) /\ SumFunction(g) = gg[D]
  BY SumType
<1> DEFINE h == [s \in SUBSET D |-> ee[s] + ff[s]]
<1>5. ASSUME NEW s \in SUBSET D
      PROVE  h[s] = SumStep(g, h, s)
  <2>1. ee[s] = SumStep(e, ee, s) /\ ff[s] = SumStep(f, ff, s)
    BY <1>1, <1>2, <1>3 DEF Sums
  <2>2. CASE s = {}
    BY <2>1, <2>2 DEF SumStep
  <2>3. CASE s # {}
    <3> DEFINE x == Taken(s)  r == s \ {Taken(s)}
    <3>1. x \in D /\ r \in SUBSET D
      BY <2>3, TakenIsIn
    <3>2. /\ ee[s] = e[x] + ee[r] /\ ff[s] = f[x] + ff[r]
      BY <2>1, <2>3 DEF SumStep
    <3>3. /\ e[x] \in Nat /\ f[x] \in Nat /\ g[x] = e[x] + f[x]
          /\ ee[r] \in Nat /\ ff[r] \in Nat
      BY <1>1, <1>2, <1>3, <3>1 DEF Sums, Weighting
    <3>4. h[s] = g[x] + h[r]
      BY <3>1, <3>2, <3>3
    <3> HIDE DEF h
    <3> QED
      BY <2>3, <3>4 DEF SumStep
  <2> QED
    BY <2>2, <2>3
<1>6. h[D] = gg[D]
  <2> HIDE DEF h
  <2> QED
    BY <1>1, <1>4, <1>5, SumsUnique DEF Sums
<1> QED
  BY <1>2, <1>3, <1>4, <1>6

-----------------------------------------------------------------------------
(* Gateway *)

ErrRec == [who : Models \cup Providers, kind : ErrKind]

CostRec == [tier : Tiers, at : 0..MaxTime, tokens : Nat]

ReqRec == [pc : {"new", "try", "call", "ok", "failed", "refused"},
           chain : Seq(Models), i : Nat \ {0}, errs : Seq(ErrRec),
           fallback : BOOLEAN, gone : BOOLEAN, late : BOOLEAN]

\* The caller of r has learned that its context ended.
Told(r) == \E e \in 1..Len(r.errs) : r.errs[e].kind = "ctx"

\* What tryChain has left behind it: one error for every model it has passed,
\* in their order, and nothing else.
Passed(r) ==
    /\ \A e \in 1..Len(r.errs) : Explains(r, e)
    /\ r.pc = "new" => r.i = 1 /\ r.errs = <<>> /\ ~r.late
    /\ r.pc \in {"try", "call", "ok"} =>
          /\ Len(r.errs) = r.i - 1
          /\ Len(r.chain) \in 1..(MaxFallbacks + 1)
          /\ r.i <= Len(r.chain) + 1
    /\ r.pc \in {"call", "ok"} => r.i <= Len(r.chain)
    /\ r.pc = "call" => r.chain[r.i] \in DOMAIN config.completers
    /\ r.pc = "refused" => r.i = 1 /\ r.errs = <<>>
    /\ r.pc = "ok" => r.fallback = (r.i > 1)
    /\ r.pc = "failed" =>
          /\ Len(r.errs) <= Len(r.chain)
          /\ Len(r.errs) = Len(r.chain) \/ Told(r)
          /\ r.i <= MaxFallbacks + 2

\* A context that ends before the last attempt has begun leaves a model to be
\* tried, and it is looked at before that one is.
Tells(r) ==
    r.gone /\ ~r.late =>
        /\ r.pc = "try" => r.i <= Len(r.chain)
        /\ r.pc = "call" => r.i < Len(r.chain)
        /\ r.pc = "failed" => Told(r)

GatewayInv ==
    /\ config \in [primary : [Tiers -> Models], fallbacks : [Tiers -> Chains],
                   completers : Completers]
    /\ req \in [Calls -> ReqRec]
    /\ \A c \in Calls : Passed(req[c]) /\ Tells(req[c])
    /\ clock \in 0..MaxTime
    /\ records \in Seq(CostRec)

\* A configured chain is a sequence of models, the primary first.
LEMMA ChainType ==
  ASSUME GatewayInv, NEW t \in Tiers
  PROVE  /\ TierChain(t) \in Seq(Models)
         /\ Len(TierChain(t)) \in 1..(MaxFallbacks + 1)
<1>1. config.primary[t] \in Models /\ config.fallbacks[t] \in Chains
  BY DEF GatewayInv
<1>2. PICK n \in 0..MaxFallbacks : config.fallbacks[t] \in [1..n -> Models]
  BY <1>1 DEF Chains
<1>3. config.fallbacks[t] \in Seq(Models) /\ Len(config.fallbacks[t]) = n
  <2>1. n \in Nat
    BY <1>2, GatewayAssumption
  <2>2. config.fallbacks[t] \in Seq(Models)
    BY <1>2, <2>1, SeqDef
  <2>3. DOMAIN config.fallbacks[t] = 1..n
    BY <1>2
  <2>4. /\ Len(config.fallbacks[t]) \in Nat
        /\ 1..Len(config.fallbacks[t]) = 1..n
    BY <2>2, <2>3, LenProperties
  <2> QED
    BY <2>1, <2>2, <2>4
<1>4. <<config.primary[t]>> \in Seq(Models) /\ Len(<<config.primary[t]>>) = 1
  BY <1>1
<1> QED
  BY <1>2, <1>3, <1>4, GatewayAssumption, ConcatProperties DEF TierChain

\* One completion call takes a step; config, clock and records stay.
LEMMA OneCall ==
  ASSUME GatewayInv, NEW c \in Calls, NEW r \in ReqRec,
         Set(c, r), Passed(r), Tells(r)
  PROVE  GatewayInv'
<1>1. req' \in [Calls -> ReqRec]
  BY DEF Set, GatewayInv
<1>2. \A d \in Calls : Passed(req'[d]) /\ Tells(req'[d])
  BY Zenon DEF Set, GatewayInv
<1>3. \A d \in Calls : Passed(req[d])' /\ Tells(req[d])'
  <2>1. config' = config
    BY Zenon DEF Set
  <2> QED
    BY <1>2, <2>1 DEF Passed, Tells, Told, Explains
<1> QED
  BY <1>1, <1>3 DEF Set, GatewayInv

\* A model that gave no answer is one more error, and explained like the others.
LEMMA FailedAdds ==
  ASSUME config.completers \in Completers, NEW r \in ReqRec, NEW k \in ErrKind,
         r.i <= Len(r.chain), Len(r.errs) = r.i - 1, r.pc # "failed", Passed(r),
         k = "provider" => r.chain[r.i] \in DOMAIN config.completers
  PROVE  /\ Failed(r, k) \in Seq(ErrRec)
         /\ Len(Failed(r, k)) = r.i
         /\ Failed(r, k)[r.i] = [who |-> Blamed(r.chain[r.i], k), kind |-> k]
         /\ \A q \in ReqRec :
               q.chain = r.chain /\ q.errs = Failed(r, k) /\ Explains(q, r.i)
               => \A e \in 1..r.i : Explains(q, e)
<1>1. /\ r.i \in Nat \ {0} /\ r.chain \in Seq(Models) /\ r.errs \in Seq(ErrRec)
      /\ \A e \in 1..(r.i - 1) : Explains(r, e)
  BY DEF ReqRec, Passed
<1> DEFINE next == [who |-> Blamed(r.chain[r.i], k), kind |-> k]
<1>2. next \in ErrRec
  <2>1. r.chain[r.i] \in Models
    BY <1>1, ElementOfSeq
  <2>2. PICK s \in SUBSET Models : config.completers \in [s -> Providers]
    BY DEF Completers
  <2>3. Blamed(r.chain[r.i], k) \in Models \cup Providers
    BY <2>1, <2>2 DEF Blamed
  <2> QED
    BY <2>3 DEF ErrRec
<1>3. Failed(r, k) = Append(r.errs, next)
  BY DEF Failed
<1> HIDE DEF next
<1>4. /\ Failed(r, k) \in Seq(ErrRec)
      /\ Len(Failed(r, k)) = r.i
      /\ \A e \in 1..r.i :
            Failed(r, k)[e] = IF e = r.i THEN next ELSE r.errs[e]
  BY <1>1, <1>2, <1>3, AppendProperties
<1>5. ASSUME NEW q \in ReqRec, q.chain = r.chain, q.errs = Failed(r, k),
             Explains(q, r.i), NEW e \in 1..r.i
      PROVE  Explains(q, e)
  <2>1. CASE e = r.i
    BY <1>5, <2>1
  <2>2. CASE e # r.i
    <3>1. e \in 1..(r.i - 1)
      BY <1>1, <2>2
    <3>2. q.errs[e] = r.errs[e] /\ Explains(r, e)
      BY <1>1, <1>4, <1>5, <2>2, <3>1
    <3> QED
      BY <1>5, <3>2 DEF Explains
  <2> QED
    BY <2>1, <2>2
<1> QED
  BY <1>1, <1>4, <1>5 DEF next

\* Nothing is asked yet.
LEMMA GatewayInvInit == GatewayInit => GatewayInv
<1> SUFFICES ASSUME GatewayInit PROVE GatewayInv
  OBVIOUS
<1>1. NewReq \in ReqRec /\ Passed(NewReq) /\ Tells(NewReq)
  BY DEF NewReq, ReqRec, Passed, Tells, Explains
<1>2. req \in [Calls -> ReqRec] /\ \A c \in Calls : req[c] = NewReq
  BY <1>1 DEF GatewayInit
<1>3. clock \in 0..MaxTime /\ records = <<>>
  BY GatewayAssumption DEF GatewayInit
<1> QED
  BY <1>1, <1>2, <1>3 DEF GatewayInit, GatewayInv

\* A call begins with the first model of its chain, or is refused.
LEMMA BeginsStep ==
  ASSUME GatewayInv, NEW c \in Calls, Complete(c) \/ CompleteWithTier(c)
  PROVE  GatewayInv'
<1> DEFINE r == req[c]
<1>0. r \in ReqRec /\ Passed(r) /\ Tells(r) /\ r.pc = "new"
  BY DEF GatewayInv, Complete, CompleteWithTier
<1>1. ASSUME NEW chain \in Seq(Models), Len(chain) \in 1..(MaxFallbacks + 1),
             Set(c, [r EXCEPT !.pc = "try", !.chain = chain])
      PROVE  GatewayInv'
  <2> DEFINE q == [r EXCEPT !.pc = "try", !.chain = chain]
  <2>1. q \in ReqRec
    BY <1>0, <1>1 DEF ReqRec
  <2>2. Passed(q) /\ Tells(q)
    BY <1>0, <1>1 DEF ReqRec, Passed, Tells, Explains
  <2> QED
    BY <1>1, <2>1, <2>2, OneCall
<1>2. CASE Set(c, [r EXCEPT !.pc = "refused"])
  <2> DEFINE q == [r EXCEPT !.pc = "refused"]
  <2>1. q \in ReqRec
    BY <1>0 DEF ReqRec
  <2>2. Passed(q) /\ Tells(q)
    BY <1>0 DEF ReqRec, Passed, Tells
  <2> QED
    BY <1>2, <2>1, <2>2, OneCall
<1>3. ASSUME NEW m \in Models, NEW chain \in ChainsForModel(m)
      PROVE  chain \in Seq(Models) /\ Len(chain) \in 1..(MaxFallbacks + 1)
  <2>1. CASE \E t \in Tiers : chain = TierChain(t)
    BY <2>1, ChainType
  <2>2. CASE chain = <<m>>
    BY <2>2, GatewayAssumption
  <2> QED
    BY <1>3, <2>1, <2>2 DEF ChainsForModel
<1>4. CASE Complete(c)
  BY <1>1, <1>2, <1>3, <1>4 DEF Complete
<1>5. CASE CompleteWithTier(c)
  <2>1. PICK t \in Tiers, judged \in BOOLEAN, answer \in Tiers \cup {"?"} :
           Set(c, [r EXCEPT !.pc = "try",
                     !.chain = TierChain(Classify("?", judged, answer, t))])
    BY <1>5 DEF CompleteWithTier
  <2>2. Classify("?", judged, answer, t) \in Tiers
    BY DEF Classify
  <2> QED
    BY <1>1, <2>1, <2>2, ChainType
<1> QED
  BY <1>4, <1>5

\* One round of tryChain: the context is looked at before the next model is.
LEMMA TryStep ==
  ASSUME GatewayInv, NEW c \in Calls, TryModel(c)
  PROVE  GatewayInv'
<1> DEFINE r == req[c]
<1>0. /\ r \in ReqRec /\ Passed(r) /\ Tells(r)
      /\ r.pc = "try" /\ r.i <= Len(r.chain) /\ Len(r.errs) = r.i - 1
      /\ Len(r.chain) \in 1..(MaxFallbacks + 1)
      /\ config.completers \in Completers
  BY DEF GatewayInv, TryModel, Passed
<1>1. /\ r.i \in Nat \ {0} /\ r.i + 1 \in Nat \ {0}
      /\ "ctx" \in ErrKind /\ "no_provider" \in ErrKind /\ "provider" \in ErrKind
  BY <1>0 DEF ReqRec, ErrKind
<1>2. CASE r.gone /\ Set(c, [r EXCEPT !.pc = "failed", !.errs = Failed(r, "ctx")])
  <2> DEFINE q == [r EXCEPT !.pc = "failed", !.errs = Failed(r, "ctx")]
  <2>1. q \in ReqRec /\ q.errs = Failed(r, "ctx") /\ q.pc = "failed"
        /\ q.chain = r.chain /\ q.i = r.i /\ q.gone = r.gone
    BY <1>0, <1>1, FailedAdds DEF ReqRec
  <2> HIDE DEF q
  <2>2. /\ Len(q.errs) = r.i /\ q.errs[r.i].kind = "ctx"
        /\ \A e \in 1..r.i : Explains(q, e)
    <3>1. /\ Len(q.errs) = r.i
          /\ q.errs[r.i] = [who |-> r.chain[r.i], kind |-> "ctx"]
      BY <1>0, <1>1, <2>1, FailedAdds DEF Blamed
    <3>2. Explains(q, r.i)
      BY <1>2, <2>1, <3>1 DEF Explains
    <3>3. \A w \in ReqRec :
             w.chain = r.chain /\ w.errs = Failed(r, "ctx") /\ Explains(w, r.i)
             => \A e \in 1..r.i : Explains(w, e)
      BY <1>0, <1>1, FailedAdds
    <3> QED
      BY <2>1, <3>1, <3>2, <3>3
  <2>3. q.i <= MaxFallbacks + 2 /\ Len(q.errs) <= Len(q.chain)
    BY <1>0, <1>1, <2>1, <2>2, GatewayAssumption
  <2>5. Passed(q)
    BY <1>1, <1>2, <2>1, <2>2, <2>3 DEF Passed, Told
  <2>4. Tells(q)
    BY <1>1, <2>1, <2>2 DEF Tells, Told
  <2> QED
    BY <1>2, <2>1, <2>4, <2>5, OneCall DEF q
<1>3. CASE /\ ~r.gone /\ r.chain[r.i] \notin DOMAIN config.completers
           /\ Set(c, [r EXCEPT !.i = @ + 1, !.errs = Failed(r, "no_provider")])
  <2> DEFINE q == [r EXCEPT !.i = @ + 1, !.errs = Failed(r, "no_provider")]
  <2>1. q \in ReqRec /\ q.errs = Failed(r, "no_provider") /\ q.pc = "try"
        /\ q.chain = r.chain /\ q.i = r.i + 1 /\ q.gone = r.gone
    BY <1>0, <1>1, FailedAdds DEF ReqRec
  <2> HIDE DEF q
  <2>2. Len(q.errs) = r.i /\ \A e \in 1..r.i : Explains(q, e)
    <3>1. /\ Len(q.errs) = r.i
          /\ q.errs[r.i] = [who |-> r.chain[r.i], kind |-> "no_provider"]
      BY <1>0, <1>1, <2>1, FailedAdds DEF Blamed
    <3>2. Explains(q, r.i)
      BY <1>3, <2>1, <3>1 DEF Explains
    <3>3. \A w \in ReqRec :
             w.chain = r.chain /\ w.errs = Failed(r, "no_provider") /\ Explains(w, r.i)
             => \A e \in 1..r.i : Explains(w, e)
      BY <1>0, <1>1, FailedAdds
    <3> QED
      BY <2>1, <3>1, <3>2, <3>3
  <2>3. Passed(q)
    BY <1>0, <1>1, <2>1, <2>2 DEF Passed
  <2>4. Tells(q)
    BY <1>3, <2>1 DEF Tells
  <2> QED
    BY <1>3, <2>1, <2>3, <2>4, OneCall DEF q
<1>4. CASE /\ ~r.gone /\ r.chain[r.i] \in DOMAIN config.completers
           /\ Set(c, [r EXCEPT !.pc = "call"])
  <2> DEFINE q == [r EXCEPT !.pc = "call"]
  <2>1. q \in ReqRec
    BY <1>0 DEF ReqRec
  <2>2. Passed(q) /\ Tells(q)
    BY <1>0, <1>4 DEF ReqRec, Passed, Tells, Explains
  <2> QED
    BY <1>4, <2>1, <2>2, OneCall
<1> QED
  BY <1>2, <1>3, <1>4, Zenon DEF TryModel

\* The completer answers or fails; after the last model the chain is exhausted.
LEMMA AnswerStep ==
  ASSUME GatewayInv, NEW c \in Calls, Answers(c) \/ Exhausted(c)
  PROVE  GatewayInv'
<1> DEFINE r == req[c]
<1>0. /\ r \in ReqRec /\ Passed(r) /\ Tells(r)
      /\ r.pc \in {"try", "call"} /\ Len(r.errs) = r.i - 1
      /\ Len(r.chain) \in 1..(MaxFallbacks + 1) /\ r.i <= Len(r.chain) + 1
      /\ config.completers \in Completers
  BY DEF GatewayInv, Answers, Exhausted, Passed
<1>1. /\ r.i \in Nat \ {0} /\ r.i + 1 \in Nat \ {0} /\ "provider" \in ErrKind
      /\ (r.i > 1) \in BOOLEAN
  BY <1>0 DEF ReqRec, ErrKind
<1>2. CASE r.pc = "try" /\ r.i > Len(r.chain) /\ Set(c, [r EXCEPT !.pc = "failed"])
  <2> DEFINE q == [r EXCEPT !.pc = "failed"]
  <2>1. q \in ReqRec
    BY <1>0 DEF ReqRec
  <2>2. Len(r.errs) = Len(r.chain)
    BY <1>0, <1>1, <1>2
  <2>3. Passed(q)
    BY <1>0, <1>1, <1>2, <2>2, GatewayAssumption DEF ReqRec, Passed, Explains
  <2>4. Tells(q)
    BY <1>0, <1>1, <1>2 DEF ReqRec, Tells
  <2> QED
    BY <1>2, <2>1, <2>3, <2>4, OneCall
<1>3. CASE r.pc = "call" /\ Set(c, [r EXCEPT !.pc = "ok", !.fallback = r.i > 1])
  <2> DEFINE q == [r EXCEPT !.pc = "ok", !.fallback = r.i > 1]
  <2>1. q \in ReqRec
    BY <1>0, <1>1 DEF ReqRec
  <2>2. Passed(q) /\ Tells(q)
    BY <1>0, <1>3 DEF ReqRec, Passed, Tells, Explains
  <2> QED
    BY <1>3, <2>1, <2>2, OneCall
<1>4. CASE r.pc = "call" /\ Set(c, [r EXCEPT !.pc = "try", !.i = @ + 1,
                                             !.errs = Failed(r, "provider")])
  <2> DEFINE q == [r EXCEPT !.pc = "try", !.i = @ + 1,
                            !.errs = Failed(r, "provider")]
  <2>0. r.i <= Len(r.chain) /\ r.chain[r.i] \in DOMAIN config.completers
    BY <1>0, <1>4 DEF Passed
  <2>1. q \in ReqRec /\ q.errs = Failed(r, "provider") /\ q.pc = "try"
        /\ q.chain = r.chain /\ q.i = r.i + 1 /\ q.gone = r.gone
        /\ q.late = r.late
    BY <1>0, <1>1, <2>0, FailedAdds DEF ReqRec
  <2> HIDE DEF q
  <2>2. Len(q.errs) = r.i /\ \A e \in 1..r.i : Explains(q, e)
    <3>1. /\ Len(q.errs) = r.i
          /\ q.errs[r.i] = [who |-> config.completers[r.chain[r.i]],
                            kind |-> "provider"]
      BY <1>0, <1>1, <2>0, <2>1, FailedAdds DEF Blamed
    <3>2. Explains(q, r.i)
      BY <2>0, <2>1, <3>1 DEF Explains
    <3>3. \A w \in ReqRec :
             w.chain = r.chain /\ w.errs = Failed(r, "provider") /\ Explains(w, r.i)
             => \A e \in 1..r.i : Explains(w, e)
      BY <1>0, <1>1, <2>0, FailedAdds
    <3> QED
      BY <2>1, <3>1, <3>2, <3>3
  <2>3. Passed(q)
    <3>1. /\ q.pc = "try" /\ Len(q.errs) = q.i - 1 /\ q.i <= Len(q.chain) + 1
          /\ Len(q.chain) \in 1..(MaxFallbacks + 1)
          /\ \A e \in 1..Len(q.errs) : Explains(q, e)
      BY <1>0, <1>1, <2>0, <2>1, <2>2
    <3> QED
      BY <3>1 DEF Passed
  <2>4. Tells(q)
    BY <1>0, <1>1, <1>4, <2>1 DEF Tells
  <2> QED
    BY <1>4, <2>1, <2>3, <2>4, OneCall DEF q
<1> QED
  BY <1>2, <1>3, <1>4, Zenon DEF Answers, Exhausted

\* The caller's context ends, at any moment of the call.
LEMMA GoneStep ==
  ASSUME GatewayInv, NEW c \in Calls, CallerGone(c)
  PROVE  GatewayInv'
<1> DEFINE r == req[c]
           late == \/ r.pc = "call" /\ r.i = Len(r.chain)
                   \/ r.pc = "try" /\ r.i > Len(r.chain)
           q == [r EXCEPT !.gone = TRUE, !.late = late]
<1>0. /\ r \in ReqRec /\ Passed(r) /\ Set(c, q)
      /\ r.pc \in {"new", "try", "call"}
  BY DEF GatewayInv, CallerGone
<1>1. q \in ReqRec
  BY <1>0 DEF ReqRec
<1>2. Passed(q)
  BY <1>0 DEF ReqRec, Passed, Explains
<1>3. Tells(q)
  BY <1>0 DEF ReqRec, Passed, Tells
<1> QED
  BY <1>0, <1>1, <1>2, <1>3, OneCall

LEMMA GatewayInvStep == GatewayInv /\ [GatewayNext]_gatewayVars => GatewayInv'
<1> SUFFICES ASSUME GatewayInv, [GatewayNext]_gatewayVars PROVE GatewayInv'
  OBVIOUS
<1>1. CASE UNCHANGED req
  <2>1. /\ config' = config /\ req' = req
        /\ clock' \in 0..MaxTime
        /\ records' \in Seq(CostRec)
    <3>1. ASSUME NEW t \in Tiers, NEW n \in 1..MaxTokens, Record(t, n) PROVE <2>1!:
      <4>1. [tier |-> t, at |-> clock, tokens |-> n] \in CostRec
        BY GatewayAssumption DEF GatewayInv, CostRec
      <4> QED
        BY <3>1, <4>1, AppendProperties DEF Record, GatewayInv
    <3>2. CASE Tick
      BY <3>2, GatewayAssumption DEF Tick, GatewayInv
    <3>3. ASSUME NEW c \in Calls,
                 \/ Complete(c) \/ CompleteWithTier(c) \/ TryModel(c)
                 \/ Exhausted(c) \/ Answers(c) \/ CallerGone(c)
          PROVE  <2>1!:
      <4>1. UNCHANGED <<config, clock, records>>
        BY <3>3, Zenon DEF Complete, CompleteWithTier, TryModel, Exhausted,
           Answers, CallerGone, Set
      <4> QED
        BY <1>1, <4>1 DEF GatewayInv
    <3>4. CASE UNCHANGED gatewayVars
      BY <3>4 DEF gatewayVars, GatewayInv
    <3> QED
      BY <3>1, <3>2, <3>3, <3>4 DEF GatewayNext
  <2> QED
    BY <2>1 DEF GatewayInv, Passed, Tells, Told, Explains
<1>2. ASSUME NEW t \in Tiers, NEW n \in 1..MaxTokens, Record(t, n) PROVE UNCHANGED req
  BY <1>2 DEF Record
<1>3. CASE Tick
  BY <1>1, <1>3 DEF Tick
<1>4. CASE UNCHANGED gatewayVars
  BY <1>1, <1>4 DEF gatewayVars
<1> QED
  BY <1>1, <1>2, <1>3, <1>4, BeginsStep, TryStep, AnswerStep, GoneStep
  DEF GatewayNext

\* The types of the gateway's state.
THEOREM GatewayTypeCorrect == GatewaySpec => []GatewayTypeOK
<1>1. GatewayInv => GatewayTypeOK
  <2> SUFFICES ASSUME GatewayInv PROVE GatewayTypeOK
    OBVIOUS
  <2>1. ASSUME NEW c \in Calls
        PROVE  /\ req[c].pc \in {"new", "try", "call", "ok", "failed", "refused"}
               /\ req[c].i \in 1..(MaxFallbacks + 2)
               /\ \A e \in 1..Len(req[c].errs) :
                     req[c].errs[e] \in ErrRec
    <3>1. req[c] \in ReqRec /\ Passed(req[c])
      BY DEF GatewayInv
    <3>2. req[c].errs \in Seq(ErrRec) /\ req[c].i \in Nat \ {0}
          /\ req[c].pc \in {"new", "try", "call", "ok", "failed", "refused"}
      BY <3>1 DEF ReqRec
    <3>3. req[c].i <= MaxFallbacks + 2
      BY <3>1, <3>2, GatewayAssumption DEF Passed
    <3>4. req[c].i \in 1..(MaxFallbacks + 2)
      BY <3>2, <3>3, GatewayAssumption
    <3>5. \A e \in 1..Len(req[c].errs) : req[c].errs[e] \in ErrRec
      BY <3>2, ElementOfSeq
    <3> QED
      BY <3>2, <3>4, <3>5 DEF ErrRec
  <2>2. \A n \in 1..Len(records) :
           records[n] \in CostRec
    BY ElementOfSeq DEF GatewayInv
  <2> QED
    BY <2>1, <2>2 DEF GatewayInv, GatewayTypeOK, CostRec, ErrRec
<1> QED
  BY <1>1, GatewayInvInit, GatewayInvStep, PTL DEF GatewaySpec

\* Whatever fails on the way through a chain of any length, there is one error
\* for each model passed, in their order, that puts it down to the model if it has
\* no completer and to its provider otherwise, and a caller whose context ended
\* before the last attempt had begun is told so.
THEOREM ErrorsAreTold == GatewaySpec => []ErrorsTellAll
<1>1. GatewayInv => ErrorsTellAll
  <2> SUFFICES ASSUME GatewayInv, NEW c \in Calls
               PROVE  LET r == req[c]
                          n == Len(r.errs)
                      IN /\ n <= Len(r.chain) /\ \A e \in 1..n : Explains(r, e)
                         /\ r.pc = "ok" => n = r.i - 1 /\ r.fallback = (n > 0)
                         /\ r.pc = "failed" => /\ n = Len(r.chain) \/ Told(r)
                                               /\ r.gone /\ ~r.late => Told(r)
    BY DEF ErrorsTellAll, Told
  <2> DEFINE r == req[c]
  <2>0. r \in ReqRec /\ Passed(r) /\ Tells(r)
    BY DEF GatewayInv
  <2>1. /\ r.i \in Nat \ {0} /\ Len(r.chain) \in Nat /\ Len(r.errs) \in Nat
        /\ r.pc \in {"new", "try", "call", "ok", "failed", "refused"}
    BY <2>0 DEF ReqRec
  <2>2. Len(r.errs) <= Len(r.chain) /\ \A e \in 1..Len(r.errs) : Explains(r, e)
    BY <2>0, <2>1 DEF Passed
  <2>3. r.pc = "ok" => Len(r.errs) = r.i - 1 /\ r.fallback = (Len(r.errs) > 0)
    BY <2>0, <2>1 DEF Passed
  <2>4. r.pc = "failed" => /\ Len(r.errs) = Len(r.chain) \/ Told(r)
                           /\ r.gone /\ ~r.late => Told(r)
    BY <2>0 DEF Passed, Tells
  <2> QED
    BY <2>2, <2>3, <2>4
<1> QED
  BY <1>1, GatewayInvInit, GatewayInvStep, PTL DEF GatewaySpec

-----------------------------------------------------------------------------
(* Cost reports *)

\* What each record counts for the report of a period if only the tiers of a
\* set T are looked at.
Share(T, from, to) ==
    [n \in DOMAIN records |->
        IF records[n].tier \in T /\ InPeriod(records[n], from, to)
        THEN records[n].tokens ELSE 0]

\* What a record of the tracker looks like.
LEMMA EachRecord ==
    ASSUME records \in Seq(CostRec), NEW n \in DOMAIN records
    PROVE  /\ records[n].tier \in Tiers /\ records[n].at \in Int
           /\ records[n].tokens \in Nat
<1>1. DOMAIN records = 1..Len(records)
  OBVIOUS
<1>2. records[n] \in CostRec
  BY <1>1, ElementOfSeq
<1> QED
  BY <1>2, GatewayAssumption DEF CostRec

\* These are numbers, one for each of finitely many records.
LEMMA SharesAreWeightings ==
    ASSUME records \in Seq(CostRec), NEW T, NEW from, NEW to
    PROVE  /\ IsFiniteSet(DOMAIN records)
           /\ Weighting(Share(T, from, to), DOMAIN records)
<1>1. DOMAIN records = 1..Len(records) /\ Len(records) \in Nat
  OBVIOUS
<1>3. IsFiniteSet(DOMAIN records)
  BY <1>1, FS_Interval
<1>4. \A n \in DOMAIN records : Share(T, from, to)[n] \in Nat
  BY EachRecord DEF Share
<1> QED
  BY <1>3, <1>4 DEF Weighting, Share

\* A report's numbers are the sums of such shares.
LEMMA ReportsAreShares ==
    ASSUME records \in Seq(CostRec), NEW from, NEW to
    PROVE  /\ Total(from, to) = SumFunction(Share(Tiers, from, to))
           /\ \A t : Spent(t, from, to) = SumFunction(Share({t}, from, to))
<1>1. \A n \in DOMAIN records : records[n].tier \in Tiers
  BY EachRecord
<1>2. Share(Tiers, from, to) =
        [n \in DOMAIN records |->
            IF InPeriod(records[n], from, to) THEN records[n].tokens ELSE 0]
  BY <1>1 DEF Share
<1>3. ASSUME NEW t
      PROVE  Share({t}, from, to) =
                [n \in DOMAIN records |->
                    IF records[n].tier = t /\ InPeriod(records[n], from, to)
                    THEN records[n].tokens ELSE 0]
  BY DEF Share
<1> QED
  BY <1>2, <1>3, Zenon DEF Total, Spent

\* Two periods that follow each other.
LEMMA PeriodsAdd ==
    ASSUME records \in Seq(CostRec), NEW a \in Int, NEW b \in Int, NEW d \in Int,
           a <= b, b <= d
    PROVE  Total(a, b) + Total(b, d) = Total(a, d)
<1>1. ASSUME NEW n \in DOMAIN records
      PROVE  Share(Tiers, a, d)[n] = Share(Tiers, a, b)[n] + Share(Tiers, b, d)[n]
  <2>1. records[n].at \in Int /\ records[n].tokens \in Nat
    BY EachRecord
  <2> QED
    BY <2>1 DEF Share, InPeriod
<1> QED
  BY <1>1, SumAdds, SharesAreWeightings, ReportsAreShares

\* A period's tiers: the sums of Spent over any set of them are the sum of the
\* records of that set.
LEMMA TiersAdd ==
    ASSUME records \in Seq(CostRec), NEW a \in Int, NEW b \in Int
    PROVE  SumOverTiers(a, b) = Total(a, b)
<1> DEFINE F == [t \in Tiers |-> Spent(t, a, b)]
           S(T) == SumFunction(Share(T, a, b))
           g == [T \in SUBSET Tiers |-> S(T)]
<1>1. \A T : S(T) \in Nat
  BY SharesAreWeightings, SumType
<1>2. \A t : Spent(t, a, b) = S({t})
  BY ReportsAreShares
<1>3. S({}) = 0
  <2>1. \A n \in DOMAIN records :
            Share({}, a, b)[n] = Share({}, a, b)[n] + Share({}, a, b)[n]
    BY DEF Share
  <2>2. S({}) = S({}) + S({})
    BY <2>1, SumAdds, SharesAreWeightings
  <2> QED
    BY <1>1, <2>2
<1>4. ASSUME NEW T \in SUBSET Tiers, NEW t \in T
      PROVE  S(T) = S({t}) + S(T \ {t})
  <2>1. ASSUME NEW n \in DOMAIN records
        PROVE  Share(T, a, b)[n] = Share({t}, a, b)[n] + Share(T \ {t}, a, b)[n]
    <3>1. records[n].tokens \in Nat
      BY EachRecord
    <3> QED
      BY <3>1 DEF Share
  <2> DEFINE whole == Share(T, a, b)
             one   == Share({t}, a, b)
             rest  == Share(T \ {t}, a, b)
  <2>2. /\ IsFiniteSet(DOMAIN records)
        /\ Weighting(whole, DOMAIN records) /\ Weighting(one, DOMAIN records)
        /\ Weighting(rest, DOMAIN records)
        /\ \A n \in DOMAIN records : whole[n] = one[n] + rest[n]
    BY <2>1, SharesAreWeightings
  <2>3. SumFunction(whole) = SumFunction(one) + SumFunction(rest)
    <3> HIDE DEF whole, one, rest
    <3> QED
      BY <2>2, SumAdds
  <2> QED
    BY <2>3
<1>5. Sums(F, g)
  <2>1. ASSUME NEW T \in SUBSET Tiers
        PROVE  g[T] = SumStep(F, g, T)
    <3>1. CASE T = {}
      BY <1>3, <3>1 DEF SumStep
    <3>2. CASE T # {}
      <4> DEFINE t == Taken(T)
      <4>1. t \in T
        BY <3>2, TakenIsIn
      <4>2. F[t] = S({t}) /\ g[T] = S(T) /\ g[T \ {t}] = S(T \ {t})
        BY <1>2, <4>1
      <4>3. g[T] = F[t] + g[T \ {t}]
        BY <1>4, <4>1, <4>2
      <4> HIDE DEF F, g
      <4> QED
        BY <3>2, <4>3 DEF SumStep
    <3> QED
      BY <3>1, <3>2
  <2>2. DOMAIN F = Tiers /\ g \in [SUBSET Tiers -> Nat]
    BY <1>1
  <2> HIDE DEF F, g
  <2> QED
    BY <2>1, <2>2 DEF Sums
<1>6. SumFunction(F) = g[Tiers]
  <2>1. DOMAIN F = Tiers /\ IsFiniteSet(Tiers)
    BY GatewayAssumption
  <2> HIDE DEF F, g
  <2> QED
    BY <1>5, <2>1, SumUnfolds
<1>7. g[Tiers] = Total(a, b)
  BY ReportsAreShares
<1> QED
  BY <1>6, <1>7 DEF SumOverTiers

\* For any records of any tiers and any periods, reports of adjacent periods lose
\* nothing of the report of both, and the tiers of a report add up to its total.
THEOREM ReportsAreExact == GatewaySpec => []ReportAdds
<1>1. GatewayInv => ReportAdds
  <2> SUFFICES ASSUME records \in Seq(CostRec),
                      NEW a \in 0..(MaxTime + 1), NEW b \in 0..(MaxTime + 1),
                      NEW d \in 0..(MaxTime + 1), a <= b, b <= d
               PROVE  /\ Total(a, b) + Total(b, d) >= Total(a, d)
                      /\ Total(a, b) + Total(b, d) = Total(a, d)
                      /\ SumOverTiers(a, d) = Total(a, d)
    BY DEF ReportAdds, GatewayInv
  <2>1. a \in Int /\ b \in Int /\ d \in Int
    BY GatewayAssumption
  <2>2. Total(a, d) \in Nat
    BY <2>1, SharesAreWeightings, ReportsAreShares, SumType
  <2>3. Total(a, b) + Total(b, d) = Total(a, d) /\ SumOverTiers(a, d) = Total(a, d)
    BY <2>1, PeriodsAdd, TiersAdd
  <2> QED
    BY <2>2, <2>3
<1> QED
  BY <1>1, GatewayInvInit, GatewayInvStep, PTL DEF GatewaySpec

-----------------------------------------------------------------------------
(* Services *)

\* A behaviour of the composition is, for every service, one of its own: no step
\* of the others touches its variables, so that what is proved of a service by
\* itself holds of it there.
THEOREM ServicesRunTheParts ==
    ServicesSpec => /\ FloorsSpec /\ HealthSpec /\ StoreSpec
                    /\ GatewaySpec /\ ClientSpec
<1>1. ServicesInit => /\ FloorsInit /\ HealthInit /\ StoreInit
                      /\ GatewayInit /\ ClientInit
  BY Zenon DEF ServicesInit
<1> DEFINE FloorsAlone  == FloorsPart => FloorsNext /\ OnlyFloors
           HealthAlone  == HealthPart => HealthNext /\ OnlyHealth
           QueueAlone   == QueuePart => StoreNext /\ OnlyStore("queue")
           RecordsAlone == RecordsPart => StoreNext /\ OnlyStore("records")
           GroupsAlone  == GroupsPart => StoreNext /\ OnlyStore("groups")
           GatewayAlone == GatewayPart => GatewayNext /\ OnlyGateway
           ClientAlone  == ClientPart => ClientNext /\
                                         OnlyClient({"cache", "commands"})
<1>2. FloorsAlone
  BY Zenon DEF FloorsPart, FloorsNext, Spawning, Despawning
<1>3. HealthAlone
  BY Zenon DEF HealthPart, HealthNext
<1>4. QueueAlone
  BY Zenon DEF QueuePart, StoreNext, QueueNext
<1>5. RecordsAlone
  BY Zenon DEF RecordsPart, StoreNext, RecordsNext
<1>6. GroupsAlone
  BY Zenon DEF GroupsPart, StoreNext, GroupNext
<1>7. GatewayAlone
  BY Zenon DEF GatewayPart, GatewayNext
<1>8. ClientAlone
  <2>1. \A parts \in {{"cache"}, {"commands"}} :
           OnlyClient(parts) => OnlyClient({"cache", "commands"})
    BY DEF OnlyClient
  <2>2. ClientPart => ClientNext
    BY Zenon DEF ClientPart, ClientNext
  <2>3. ClientPart => OnlyClient({"cache", "commands"})
    BY <2>1, Zenon DEF ClientPart, Client
  <2> QED
    BY <2>2, <2>3
<1>9. [ServicesNext]_servicesVars =>
         /\ [FloorsNext]_floorVars /\ [HealthNext]_healthVars
         /\ [StoreNext]_storeVars /\ [GatewayNext]_gatewayVars
         /\ [ClientNext]_clientVars
  <2> SUFFICES ASSUME [ServicesNext]_servicesVars
               PROVE  /\ [FloorsNext]_floorVars /\ [HealthNext]_healthVars
                      /\ [StoreNext]_storeVars /\ [GatewayNext]_gatewayVars
                      /\ [ClientNext]_clientVars
    OBVIOUS
  <2>1. CASE FloorsPart
    BY <1>2, <2>1, Zenon DEF OnlyFloors
  <2>2. CASE HealthPart
    BY <1>3, <2>2, Zenon DEF OnlyHealth
  <2>3. CASE QueuePart \/ RecordsPart \/ GroupsPart
    BY <1>4, <1>5, <1>6, <2>3, Zenon DEF OnlyStore
  <2>4. CASE GatewayPart
    BY <1>7, <2>4, Zenon DEF OnlyGateway
  <2>5. CASE ClientPart
    BY <1>8, <2>5, Zenon DEF OnlyClient
  <2>6. CASE UNCHANGED servicesVars
    BY <2>6, Zenon DEF servicesVars
  <2> QED
    BY <2>1, <2>2, <2>3, <2>4, <2>5, <2>6, Zenon DEF ServicesNext
<1> QED
  BY <1>1, <1>9, PTL
  DEF ServicesSpec, FloorsSpec, HealthSpec, StoreSpec, GatewaySpec, ClientSpec
=============================================================================
