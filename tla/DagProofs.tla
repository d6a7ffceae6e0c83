------------------------------ MODULE DagProofs -----------------------------
(***************************************************************************)
(* Proofs about the completion registry, for any sets of tasks, goroutines *)
(* and channels, and about the DAG executor on top of it, for any graphs.  *)
(*                                                                         *)
(* The registry: if no task ID is used twice, no completion signal is lost *)
(* and none is invented.  The inductive invariant says, for each           *)
(* goroutine, how far its task has come at each step of SubmitTask         *)
(* (Signalled), and that no two tasks share a channel (OwnChannels), which *)
(* is what makes closing one task's channel, or making a channel anew,     *)
(* harmless to the others.                                                 *)
(*                                                                         *)
(* The graph: NewGraph accepts exactly the well-formed specifications      *)
(* without a cycle, and TopologicalSort puts every node into the earliest  *)
(* level its dependencies allow.  By induction over the rounds of Kahn's   *)
(* algorithm (RoundHolds), written as a fact about sets of numbers.        *)
(*                                                                         *)
(* The executor: it uses the registry as module Completion allows, so that *)
(* what is proved there holds of the node goroutines of every DAG; its     *)
(* levels are tight; its records keep DagContract; and no task is handed   *)
(* out before its dependencies have been executed.  The inductive          *)
(* invariant says of every execution where each node is, given the level   *)
(* and the place run is at (NodeHolds), and who may be cancelled or have   *)
(* failed (FailsWithNode, CancelHolds); ResultsHold links the nodes with   *)
(* the SubmitTask calls made for them.                                     *)
(***************************************************************************)
EXTENDS Dag, FiniteSetTheorems, TLAPS

SignalInv ==
    /\ CompletionTypeOK
    /\ OwnChannels
    /\ \A s \in Submitters : Signalled(s)

\* The initial state of NewCompletionRegistry satisfies the invariant.
LEMMA SignalInit == CompletionInit => SignalInv
<1> SUFFICES ASSUME CompletionInit PROVE SignalInv
  OBVIOUS
<1> USE CompletionAssumption
<1>1. CompletionTypeOK
  <2>1. sub \in [Submitters -> SubRec]
    BY Zenon DEF CompletionInit, SubRec, SubPC
  <2> QED
    BY <2>1 DEF CompletionInit, CompletionTypeOK, Stamp
<1>2. OwnChannels
  BY DEF CompletionInit, OwnChannels
<1>3. \A s \in Submitters : Signalled(s)
  BY DEF CompletionInit, Signalled
<1> QED
  BY <1>1, <1>2, <1>3 DEF SignalInv

\* EnqueueTask: the goroutine's task has one execution, and no channel yet.
LEMMA EnqueueStep ==
  ASSUME UniqueTaskIDs, SignalInv, NEW s \in Submitters, Enqueue(s)
  PROVE  SignalInv'
<1> USE CompletionAssumption
<1>t. /\ sub \in [Submitters -> SubRec] /\ work \in [Tasks -> Nat]
      /\ CompletionTypeOK /\ TaskOf[s] \in Tasks
  BY DEF SignalInv, CompletionTypeOK
<1>a. sub[s].pc = "idle" /\ UNCHANGED <<registryVars, cancelled>>
  BY DEF Enqueue
<1>b. OwnChannels'
  BY <1>a DEF SignalInv, OwnChannels, registryVars
<1>1. CASE /\ work' = [work EXCEPT ![TaskOf[s]] = @ + 1]
           /\ sub' = [sub EXCEPT ![s] = [@ EXCEPT !.pc = "wait"]]
  <2>1. sub' \in [Submitters -> SubRec]
    BY <1>1, <1>t, Zenon DEF SubRec, SubPC
  <2>2. CompletionTypeOK'
    BY <2>1, <1>1, <1>a, <1>t DEF CompletionTypeOK, registryVars
  <2>3. ASSUME NEW r \in Submitters PROVE Signalled(r)'
    <3>1. Signalled(r) /\ (r # s => TaskOf[r] # TaskOf[s])
      BY DEF SignalInv, UniqueTaskIDs
    <3> QED
      BY <3>1, <1>1, <1>a, <1>t DEF Signalled, SubRec, registryVars
  <2> QED
    BY <2>2, <2>3, <1>b DEF SignalInv
<1>2. CASE /\ work' = work
           /\ sub' = [sub EXCEPT ![s] = [@ EXCEPT !.pc = "done",
                                                  !.res = "err"]]
  <2>1. sub' \in [Submitters -> SubRec]
    BY <1>2, <1>t, Zenon DEF SubRec, SubPC
  <2>2. CompletionTypeOK'
    BY <2>1, <1>2, <1>a, <1>t DEF CompletionTypeOK, registryVars
  <2>3. ASSUME NEW r \in Submitters PROVE Signalled(r)'
    BY <1>2, <1>a, <1>t DEF SignalInv, Signalled, SubRec, registryVars
  <2> QED
    BY <2>2, <2>3, <1>b DEF SignalInv
<1> QED
  BY <1>1, <1>2, Zenon DEF Enqueue

\* Wait: the goroutine finds the planted channel, closed, or makes one.
LEMMA WaitStep ==
  ASSUME UniqueTaskIDs, SignalInv, NEW s \in Submitters, Wait(s)
  PROVE  SignalInv'
<1> USE CompletionAssumption
<1> DEFINE t == TaskOf[s]
<1>0. t \in Tasks
  OBVIOUS
<1>t. /\ sub \in [Submitters -> SubRec] /\ waiters \in [Tasks -> Chans \cup {NoChan}]
      /\ closed \subseteq Chans /\ work \in [Tasks -> Nat]
      /\ cleaned \in [Tasks -> Stamp] /\ completed \in [Tasks -> Stamp]
      /\ cancelled \subseteq Submitters
  BY DEF SignalInv, CompletionTypeOK
<1>a. PICK c \in Chans \cup {NoChan} :
         /\ \/ c = waiters[t] /\ c # NoChan /\ waiters' = waiters /\ closed' = closed
            \/ /\ waiters[t] = NoChan /\ c \in Chans \ InUse
               /\ waiters' = [waiters EXCEPT ![t] = c] /\ closed' = closed \ {c}
         /\ sub' = [sub EXCEPT ![s] = [@ EXCEPT !.pc = "select", !.ch = c]]
  BY <1>0, <1>t DEF Wait, MakeChan
<1>b. /\ sub[s].pc = "wait"
      /\ cleaned' = [cleaned EXCEPT ![t] = "none"]
      /\ completed' = [completed EXCEPT ![t] = "none"]
      /\ cancelled' = cancelled /\ work' = work
  BY DEF Wait
<1>1. CompletionTypeOK'
  <2>1. /\ c \in Chans \cup {NoChan} /\ sub \in [Submitters -> SubRec]
        /\ sub' = [sub EXCEPT ![s] = [@ EXCEPT !.pc = "select", !.ch = c]]
    BY <1>a, <1>t, Zenon
  <2>2. sub' \in [Submitters -> SubRec]
    BY <2>1, Zenon DEF SubRec, SubPC
  <2> QED
    BY <2>2, <1>a, <1>b, <1>t DEF CompletionTypeOK, Stamp
<1>2. OwnChannels'
  BY <1>a, <1>t, <1>0 DEF SignalInv, OwnChannels, InUse
<1>3. ASSUME NEW r \in Submitters PROVE Signalled(r)'
  <2>0. Signalled(r)
    BY DEF SignalInv
  <2>1. CASE r = s
    BY <2>0, <2>1, <1>a, <1>b, <1>t, <1>0 DEF SubRec, Signalled
  <2>2. CASE r # s
    <3>1. TaskOf[r] # t /\ TaskOf[r] \in Tasks
      BY <2>2 DEF UniqueTaskIDs
    <3>2. waiters'[TaskOf[r]] = waiters[TaskOf[r]] /\ sub'[r] = sub[r]
      BY <3>1, <2>2, <1>a, <1>t, <1>0
    <3>3. waiters[TaskOf[r]] \in closed' <=> waiters[TaskOf[r]] \in closed
      BY <3>1, <1>a, <1>t DEF InUse
    <3> QED
      BY <3>1, <3>2, <3>3, <2>0, <1>b, <1>t, <1>0 DEF Signalled
  <2> QED
    BY <2>1, <2>2
<1> QED
  BY <1>1, <1>2, <1>3 DEF SignalInv

\* The select: woken by the closed channel, or by the context.
LEMMA SelectStep ==
  ASSUME UniqueTaskIDs, SignalInv, NEW s \in Submitters, Select(s)
  PROVE  SignalInv'
<1> USE CompletionAssumption
<1>t. sub \in [Submitters -> SubRec] /\ CompletionTypeOK
  BY DEF SignalInv, CompletionTypeOK
<1>a. PICK res \in {"nil", "err"} :
         /\ sub' = [sub EXCEPT ![s] = [@ EXCEPT !.pc = "cleanup", !.res = res]]
         /\ res = "nil" => sub[s].ch \in closed
  BY DEF Select
<1>b. sub[s].pc = "select" /\ UNCHANGED <<registryVars, cancelled, work>>
  BY DEF Select
<1>1. CompletionTypeOK'
  <2>1. sub' \in [Submitters -> SubRec]
    BY <1>a, <1>t, Zenon DEF SubRec, SubPC
  <2> QED
    BY <2>1, <1>b, <1>t DEF CompletionTypeOK, registryVars
<1>2. OwnChannels'
  BY <1>b DEF SignalInv, OwnChannels, registryVars
<1>3. ASSUME NEW r \in Submitters PROVE Signalled(r)'
  BY <1>a, <1>b, <1>t DEF SignalInv, Signalled, registryVars, SubRec
<1> QED
  BY <1>1, <1>2, <1>3 DEF SignalInv

\* Cleanup concerns nobody else, since nobody else uses the task ID.
LEMMA CleanupStep ==
  ASSUME UniqueTaskIDs, SignalInv, NEW s \in Submitters, Cleanup(s)
  PROVE  SignalInv'
<1> USE CompletionAssumption
<1>t. sub \in [Submitters -> SubRec] /\ CompletionTypeOK
  BY DEF SignalInv, CompletionTypeOK
<1>1. CompletionTypeOK'
  <2>1. sub' \in [Submitters -> SubRec]
    BY <1>t, Zenon DEF Cleanup, SubRec, SubPC
  <2> QED
    BY <2>1, <1>t DEF Cleanup, CompletionTypeOK, Stamp
<1>2. OwnChannels'
  BY <1>t DEF Cleanup, SignalInv, OwnChannels, CompletionTypeOK
<1>3. ASSUME NEW r \in Submitters PROVE Signalled(r)'
  <2>0. Signalled(r)
    BY DEF SignalInv
  <2>1. CASE r = s
    BY <2>0, <2>1, <1>t DEF Cleanup, Signalled, SubRec, CompletionTypeOK
  <2>2. CASE r # s
    <3>1. TaskOf[r] # TaskOf[s]
      BY <2>2 DEF UniqueTaskIDs
    <3> QED
      BY <3>1, <2>0, <2>2, <1>t DEF Cleanup, Signalled, CompletionTypeOK
  <2> QED
    BY <2>1, <2>2
<1> QED
  BY <1>1, <1>2, <1>3 DEF SignalInv

\* Complete wakes the task's waiter, or plants a channel for it.
LEMMA CompleteStep ==
  ASSUME UniqueTaskIDs, SignalInv, NEW t \in Tasks, Complete(t)
  PROVE  SignalInv'
<1> USE CompletionAssumption
<1>t. /\ sub \in [Submitters -> SubRec] /\ waiters \in [Tasks -> Chans \cup {NoChan}]
      /\ closed \subseteq Chans /\ work \in [Tasks -> Nat]
      /\ cleaned \in [Tasks -> Stamp] /\ completed \in [Tasks -> Stamp]
      /\ cancelled \subseteq Submitters
  BY DEF SignalInv, CompletionTypeOK
<1>a. /\ work[t] > 0 /\ work' = [work EXCEPT ![t] = @ - 1]
      /\ sub' = sub /\ cancelled' = cancelled
  BY DEF Complete
<1>b. CASE cleaned[t] # "none"
  <2>1. /\ cleaned' = [cleaned EXCEPT ![t] = "none"]
        /\ waiters' = waiters /\ closed' = closed /\ completed' = completed
    BY <1>b DEF Complete
  <2>2. CompletionTypeOK'
    BY <2>1, <1>a, <1>t DEF CompletionTypeOK, Stamp
  <2>3. OwnChannels'
    BY <2>1 DEF SignalInv, OwnChannels
  <2>4. ASSUME NEW r \in Submitters PROVE Signalled(r)'
    BY <2>1, <1>a, <1>b, <1>t DEF SignalInv, Signalled
  <2> QED
    BY <2>2, <2>3, <2>4 DEF SignalInv
<1>c. CASE cleaned[t] = "none"
  <2>1. PICK c \in Chans :
           /\ \/ c = waiters[t] /\ waiters' = waiters /\ completed' = completed
              \/ /\ waiters[t] = NoChan /\ c \notin InUse
                 /\ waiters' = [waiters EXCEPT ![t] = c]
                 /\ completed' = [completed EXCEPT ![t] = "young"]
           /\ closed' = closed \cup {c} /\ cleaned' = cleaned
    BY <1>c, <1>t DEF Complete, MakeChan
  <2>2. CompletionTypeOK'
    BY <2>1, <1>a, <1>t DEF CompletionTypeOK, Stamp
  <2>3. OwnChannels'
    BY <2>1, <1>t DEF SignalInv, OwnChannels, InUse
  <2>4. ASSUME NEW r \in Submitters PROVE Signalled(r)'
    <3>0. Signalled(r)
      BY DEF SignalInv
    <3>1. CASE TaskOf[r] = t
      <4>1. sub[r].pc \in {"wait", "select"} \/ sub[r].pc \notin {"idle", "wait", "select"}
        BY <3>0, <3>1, <1>a DEF Signalled
      <4>2. CASE sub[r].pc = "wait"
        BY <4>2, <3>0, <3>1, <2>1, <1>a, <1>t DEF Signalled
      <4>3. CASE sub[r].pc = "select"
        BY <4>3, <3>0, <3>1, <2>1, <1>a, <1>t DEF Signalled
      <4>4. CASE sub[r].pc \notin {"idle", "wait", "select"}
        BY <4>4, <3>0, <3>1, <1>a, <1>t DEF Signalled
      <4> QED
        BY <4>1, <4>2, <4>3, <4>4
    <3>2. CASE TaskOf[r] # t
      <4>1. TaskOf[r] \in Tasks
        OBVIOUS
      <4>2. waiters'[TaskOf[r]] = waiters[TaskOf[r]]
        BY <3>2, <4>1, <2>1, <1>t
      <4>3. c # waiters[TaskOf[r]]
        BY <3>2, <4>1, <2>1, <1>t DEF SignalInv, OwnChannels, InUse
      <4> QED
        BY <3>0, <3>2, <4>1, <4>2, <4>3, <2>1, <1>a, <1>t DEF Signalled
    <3> QED
      BY <3>1, <3>2
  <2> QED
    BY <2>2, <2>3, <2>4 DEF SignalInv
<1> QED
  BY <1>b, <1>c

\* A planted channel does not get old before it is claimed.
LEMMA AgeStep ==
  ASSUME SignalInv, NEW t \in Tasks, Age(t)
  PROVE  SignalInv'
<1> USE CompletionAssumption
<1>1. CompletionTypeOK'
  BY DEF Age, SignalInv, CompletionTypeOK, Stamp
<1>2. OwnChannels'
  BY DEF Age, SignalInv, OwnChannels
<1>3. ASSUME NEW r \in Submitters PROVE Signalled(r)'
  BY DEF Age, SignalInv, CompletionTypeOK, Signalled
<1> QED
  BY <1>1, <1>2, <1>3 DEF SignalInv

\* The sweep takes nothing a goroutine still needs.
LEMMA SweepStep ==
  ASSUME SignalInv, SweepOnce
  PROVE  SignalInv'
<1> USE CompletionAssumption
<1>1. CompletionTypeOK'
  BY DEF SweepOnce, SignalInv, CompletionTypeOK, Stamp
<1>2. OwnChannels'
  BY DEF SweepOnce, SignalInv, CompletionTypeOK, OwnChannels
<1>3. ASSUME NEW r \in Submitters PROVE Signalled(r)'
  <2>1. TaskOf[r] \in Tasks
    OBVIOUS
  <2> QED
    BY <2>1 DEF SweepOnce, SignalInv, CompletionTypeOK, Signalled
<1> QED
  BY <1>1, <1>2, <1>3 DEF SignalInv

\* Steps that leave the registry and the submitters alone.
LEMMA IdleStep ==
  ASSUME SignalInv, UNCHANGED <<registryVars, sub, work>>,
         cancelled' \subseteq Submitters
  PROVE  SignalInv'
BY DEF SignalInv, CompletionTypeOK, OwnChannels, Signalled, registryVars

\* Every step of the registry and its clients preserves the invariant.
LEMMA SignalStep ==
  ASSUME UniqueTaskIDs, SignalInv, [CompletionNext]_cvars
  PROVE  SignalInv'
<1>1. ASSUME NEW s \in Submitters, SubmitTask(s) PROVE SignalInv'
  BY <1>1, EnqueueStep, WaitStep, SelectStep, CleanupStep DEF SubmitTask
<1>2. ASSUME NEW S \in SUBSET Submitters, CtxDone(S) PROVE SignalInv'
  BY <1>2, IdleStep DEF CtxDone, SignalInv, CompletionTypeOK
<1>3. CASE UNCHANGED cvars
  BY <1>3, IdleStep DEF cvars, SignalInv, CompletionTypeOK
<1> QED
  BY <1>1, <1>2, <1>3, CompleteStep, AgeStep, SweepStep DEF CompletionNext

\* With unique task IDs no completion is lost: a goroutine in Wait whose
\* channel is open has an execution left to wait for.
THEOREM NoSignalLost ==
  UniqueTaskIDs => (CompletionSpec => []NoStrandedWaiter)
<1> SUFFICES ASSUME UniqueTaskIDs PROVE CompletionSpec => []NoStrandedWaiter
  OBVIOUS
<1>1. SignalInv => NoStrandedWaiter
  BY CompletionAssumption
  DEF SignalInv, CompletionTypeOK, Signalled, NoStrandedWaiter
<1>2. SignalInv /\ [CompletionNext]_cvars => SignalInv'
  BY SignalStep
<1> QED
  BY <1>1, <1>2, SignalInit, PTL DEF CompletionSpec

\* With unique task IDs SubmitTask never reports success too early.
THEOREM NoSignalInvented ==
  UniqueTaskIDs => (CompletionSpec => []NilMeansDone)
<1> SUFFICES ASSUME UniqueTaskIDs PROVE CompletionSpec => []NilMeansDone
  OBVIOUS
<1>1. SignalInv => NilMeansDone
  BY DEF SignalInv, Signalled, NilMeansDone
<1>2. SignalInv /\ [CompletionNext]_cvars => SignalInv'
  BY SignalStep
<1> QED
  BY <1>1, <1>2, SignalInit, PTL DEF CompletionSpec

-----------------------------------------------------------------------------
(* The executor *)

\* A step of the executor is a step of the registry's clients, or none.
LEMMA DagStepRefines ==
  ASSUME [DagNext]_vars PROVE [CompletionNext]_cvars
<1> USE DagAssumption
<1>1. ASSUME NEW e \in Execs, NEW sp \in Specs, Execute(e, sp)
      PROVE  UNCHANGED cvars
  BY <1>1 DEF Execute
<1>2. ASSUME NEW e \in Execs, RunStep(e) PROVE UNCHANGED cvars
  BY <1>2 DEF RunStep, Launch, LevelDone, Skip
<1>3. ASSUME NEW e \in Execs, NEW n \in Nodes, NodeStep(e, n)
      PROVE  [CompletionNext]_cvars
  <2>0. <<e, n>> \in Submitters /\ {e} \X Nodes \in SUBSET Submitters
    OBVIOUS
  <2>1. CASE NodeBegin(e, n)
    BY <2>1 DEF NodeBegin
  <2>2. CASE NodeSubmit(e, n)
    BY <2>2, <2>0, Zenon DEF NodeSubmit, CompletionNext
  <2>3. CASE NodeEnd(e, n)
    BY <2>3 DEF NodeEnd
  <2>4. CASE NodeCancel(e, n)
    BY <2>4, <2>0, Zenon DEF NodeCancel, CompletionNext
  <2> QED
    BY <1>3, <2>1, <2>2, <2>3, <2>4 DEF NodeStep
<1>4. CASE Reap
  BY <1>4, Zenon DEF Reap, CompletionNext
<1>5. CASE Shutdown
  <2>1. Submitters \in SUBSET Submitters
    OBVIOUS
  <2> QED
    BY <1>5, <2>1, Zenon DEF Shutdown, CompletionNext
<1>6. ASSUME NEW t \in Tasks, (Complete(t) \/ Age(t)) /\ UNCHANGED dagVars
      PROVE  CompletionNext
  BY <1>6, Zenon DEF CompletionNext
<1>7. CASE Exit
  BY <1>7, Zenon DEF Exit, vars
<1>8. CASE UNCHANGED vars
  BY <1>8, Zenon DEF vars
<1> QED
  BY <1>1, <1>2, <1>3, <1>4, <1>5, <1>6, <1>7, <1>8, Zenon DEF DagNext

\* The executor and its goroutines implement the registry's specification.
THEOREM DagUsesRegistry == DagSpec => CompletionSpec
<1>1. DagInit => CompletionInit
  BY DEF DagInit
<1>2. [DagNext]_vars => [CompletionNext]_cvars
  BY DagStepRefines
<1> QED
  BY <1>1, <1>2, PTL DEF DagSpec, CompletionSpec

\* No node goroutine of any DAG is left waiting for a signal that came and
\* went, provided no task ID is submitted twice.
THEOREM DagNoSignalLost == UniqueTaskIDs => (DagSpec => []NoStrandedWaiter)
BY DagUsesRegistry, NoSignalLost, PTL

\* No node is marked COMPLETED on the strength of a signal that was not its
\* own, provided no task ID is submitted twice.
THEOREM DagNoSignalInvented == UniqueTaskIDs => (DagSpec => []NilMeansDone)
BY DagUsesRegistry, NoSignalInvented, PTL


-----------------------------------------------------------------------------
(* Induction *)

\* Every non-empty set of naturals has a least element.
LEMMA LeastNatural ==
    ASSUME NEW T, T \subseteq Nat, T # {}
    PROVE  \E x \in T : \A y \in T : x <= y
<1>1. PICK x \in T : \A y \in T : ~ (<<y, x>> \in OpToRel(<, Nat))
  BY NatLessThanWellFounded, WFMin, Zenon
<1>2. \A y \in T : ~ (y < x)
  BY <1>1 DEF OpToRel
<1> QED
  BY <1>2

\* So a set of naturals that has 0, and with n also n + 1, has all of them:
\* induction, about a set instead of a predicate.
LEMMA SetInduction ==
    ASSUME NEW T, 0 \in T, \A n \in Nat : n \in T => n + 1 \in T
    PROVE  \A n \in Nat : n \in T
<1> SUFFICES ASSUME \E n \in Nat : n \notin T
             PROVE  FALSE
  OBVIOUS
<1> DEFINE U == {n \in Nat : n \notin T}
<1>1. PICK x \in U : \A y \in U : x <= y
  BY LeastNatural
<1>2. x # 0 /\ x - 1 \in Nat
  BY <1>1
<1>3. x - 1 \in T
  BY <1>1, <1>2
<1> QED
  BY <1>1, <1>2, <1>3

-----------------------------------------------------------------------------
(* Kahn's algorithm *)

\* What a specification of the API looks like.
SpecType(sp) ==
    /\ sp.nodes \in Seq(Nodes)
    /\ sp.dependsOn \in [NodesOf(sp) -> Seq(Nodes)]

\* A specification has finitely many nodes, and each has finitely many
\* depends_on entries.
LEMMA NodesFinite ==
    ASSUME NEW sp, SpecType(sp)
    PROVE  /\ IsFiniteSet(NodesOf(sp))
           /\ Cardinality(NodesOf(sp)) \in Nat
<1>1. DOMAIN sp.nodes = 1 .. Len(sp.nodes) /\ Len(sp.nodes) \in Nat
  BY DEF SpecType
<1>2. IsFiniteSet(DOMAIN sp.nodes)
  BY <1>1, FS_Interval
<1>3. sp.nodes \in Surjection(DOMAIN sp.nodes, NodesOf(sp))
  BY DEF SpecType, Surjection, NodesOf
<1> QED
  BY <1>2, <1>3, FS_Surjection, FS_CardinalityType

\* The recursion of Kahn is well-founded: there is a function that satisfies
\* it, so Kahn does.
LEMMA KahnUnfolds ==
    ASSUME NEW sp, SpecType(sp)
    PROVE  Kahn(sp) = [i \in 0 .. Cardinality(NodesOf(sp)) |->
                          IF i = 0 THEN Seed(sp)
                                   ELSE Release(sp, Kahn(sp)[i - 1])]
<1> DEFINE Rounds(f, m) == f = [i \in 0 .. m |->
                                   IF i = 0 THEN Seed(sp)
                                            ELSE Release(sp, f[i - 1])]
           T == {m \in Nat : \E f : Rounds(f, m)}
<1>1. 0 \in T
  <2> DEFINE f == [i \in 0 .. 0 |-> Seed(sp)]
  <2>1. Rounds(f, 0)
    OBVIOUS
  <2> QED
    BY <2>1
<1>2. ASSUME NEW m \in Nat, m \in T PROVE m + 1 \in T
  <2>1. PICK f : Rounds(f, m)
    BY <1>2
  <2> DEFINE g == [i \in 0 .. m + 1 |->
                      IF i <= m THEN f[i] ELSE Release(sp, f[m])]
  <2>2. Rounds(g, m + 1)
    <3>1. ASSUME NEW i \in 0 .. m + 1
          PROVE  g[i] = IF i = 0 THEN Seed(sp) ELSE Release(sp, g[i - 1])
      BY <2>1
    <3> QED
      BY <3>1
  <2>3. \E h : Rounds(h, m + 1)
    <3> HIDE DEF g, Rounds
    <3> QED
      BY <2>2
  <2> QED
    BY <2>3
<1>3. Cardinality(NodesOf(sp)) \in T
  <2> HIDE DEF T
  <2>1. \A m \in Nat : m \in T
    BY <1>1, <1>2, SetInduction
  <2> QED
    BY <2>1, NodesFinite
<1> QED
  BY <1>3 DEF Kahn

\* The rounds of Kahn, and the nodes in the levels before the i-th.
Rounds(sp)    == 0 .. Cardinality(NodesOf(sp))
Before(sp, i) == UNION {Kahn(sp)[j].queue : j \in 0 .. i - 1}

\* The entries of n's depends_on list that name no node of B.
Open(sp, n, B) ==
    {i \in DOMAIN sp.dependsOn[n] : sp.dependsOn[n][i] \notin B}

LEMMA KahnRounds ==
    ASSUME NEW sp, SpecType(sp)
    PROVE  /\ Rounds(sp) \subseteq Nat
           /\ DOMAIN Kahn(sp) = Rounds(sp)
           /\ 0 \in Rounds(sp)
           /\ Kahn(sp)[0] = Seed(sp)
           /\ \A i \in Rounds(sp) : i + 1 \in Rounds(sp) =>
                 Kahn(sp)[i + 1] = Release(sp, Kahn(sp)[i])
<1>1. Cardinality(NodesOf(sp)) \in Nat
  BY NodesFinite
<1> DEFINE K == Kahn(sp)
<1>2. K = [i \in 0 .. Cardinality(NodesOf(sp)) |->
              IF i = 0 THEN Seed(sp) ELSE Release(sp, K[i - 1])]
  BY KahnUnfolds
<1> HIDE DEF K
<1>3. ASSUME NEW i \in Rounds(sp), i + 1 \in Rounds(sp)
      PROVE  K[i + 1] = Release(sp, K[i])
  BY <1>1, <1>2, <1>3 DEF Rounds
<1>4. DOMAIN K = Rounds(sp) /\ K[0] = Seed(sp)
  BY <1>1, <1>2 DEF Rounds
<1> QED
  BY <1>1, <1>3, <1>4 DEF Rounds, K

\* How many entries are open is what the in-degree counts.
LEMMA OpenEntries ==
    ASSUME NEW sp, SpecType(sp), NEW n \in NodesOf(sp), NEW B, NEW Q,
           B \cap Q = {}
    PROVE  /\ Cardinality(Open(sp, n, B)) \in Nat
           /\ Cardinality(Open(sp, n, B)) = 0 <=> Deps(sp, n) \subseteq B
           /\ Cardinality(Open(sp, n, {})) = Len(sp.dependsOn[n])
           /\ Cardinality(Open(sp, n, B \cup Q)) =
                 Cardinality(Open(sp, n, B)) - Releases(sp, n, Q)
<1> DEFINE D == DOMAIN sp.dependsOn[n]
           R == {i \in D : sp.dependsOn[n][i] \in Q}
<1>1. D = 1 .. Len(sp.dependsOn[n]) /\ Len(sp.dependsOn[n]) \in Nat
  BY DEF SpecType
<1>2. IsFiniteSet(D) /\ Cardinality(D) = Len(sp.dependsOn[n])
  BY <1>1, FS_Interval
<1>3. Open(sp, n, B) \subseteq D /\ Open(sp, n, {}) = D
  BY DEF Open
<1> HIDE DEF D
<1>4. IsFiniteSet(Open(sp, n, B)) /\ Cardinality(Open(sp, n, B)) \in Nat
  BY <1>2, <1>3, FS_Subset, FS_CardinalityType
<1>5. Cardinality(Open(sp, n, B)) = 0 <=> Open(sp, n, B) = {}
  BY <1>4, FS_EmptySet
<1>6. Open(sp, n, B) = {} <=> Deps(sp, n) \subseteq B
  BY DEF Open, Deps
<1>7. Open(sp, n, B \cup Q) = Open(sp, n, B) \ R
  BY DEF Open, D
<1>8. Open(sp, n, B) \cap R = R
  BY DEF Open, D
<1>9. Cardinality(Open(sp, n, B) \ R) = Cardinality(Open(sp, n, B)) -
                                        Cardinality(Open(sp, n, B) \cap R)
  BY <1>4, FS_Difference
<1>10. Releases(sp, n, Q) = Cardinality(R)
  BY DEF Releases, D
<1> QED
  BY <1>2, <1>3, <1>4, <1>5, <1>6, <1>7, <1>8, <1>9, <1>10

\* After i rounds the in-degrees count the open entries, the queue holds the
\* nodes that have none and are in no earlier level, and the earlier levels
\* depend on nothing outside them.
RoundHolds(sp, i) ==
    /\ \A n \in NodesOf(sp) :
          Kahn(sp)[i].deg[n] = Cardinality(Open(sp, n, Before(sp, i)))
    /\ Kahn(sp)[i].queue = {n \in NodesOf(sp) \ Before(sp, i) :
                               Deps(sp, n) \subseteq Before(sp, i)}
    /\ \A n \in Before(sp, i) :
          n \in NodesOf(sp) /\ Deps(sp, n) \subseteq Before(sp, i)

LEMMA BeforeGrows ==
    ASSUME NEW sp, NEW i \in Nat
    PROVE  /\ Before(sp, 0) = {}
           /\ Before(sp, i + 1) = Before(sp, i) \cup Kahn(sp)[i].queue
<1>1. 0 .. 0 - 1 = {}
  OBVIOUS
<1>2. 0 .. (i + 1) - 1 = (0 .. i - 1) \cup {i}
  OBVIOUS
<1> QED
  BY <1>1, <1>2 DEF Before

LEMMA RoundsHold ==
    ASSUME NEW sp, SpecType(sp)
    PROVE  \A i \in Rounds(sp) : RoundHolds(sp, i)
<1> DEFINE T == {i \in Nat : i \in Rounds(sp) => RoundHolds(sp, i)}
<1>1. 0 \in T
  <2>1. /\ Kahn(sp)[0].deg = inDegrees(sp)
        /\ Kahn(sp)[0].queue = {n \in NodesOf(sp) : inDegrees(sp)[n] = 0}
    <3>1. Kahn(sp)[0] = Seed(sp)
      BY KahnRounds
    <3>2. /\ Seed(sp).deg = inDegrees(sp)
          /\ Seed(sp).queue = {n \in NodesOf(sp) : inDegrees(sp)[n] = 0}
      BY DEF Seed
    <3> QED
      BY <3>1, <3>2
  <2>2. ASSUME NEW n \in NodesOf(sp)
        PROVE  /\ inDegrees(sp)[n] = Cardinality(Open(sp, n, {}))
               /\ inDegrees(sp)[n] = 0 <=> Deps(sp, n) \subseteq {}
    <3>1. {} \cap {} = {}
      OBVIOUS
    <3> QED
      BY <3>1, OpenEntries DEF inDegrees
  <2>3. Before(sp, 0) = {}
    BY BeforeGrows
  <2> QED
    BY <2>1, <2>2, <2>3 DEF RoundHolds
<1>2. ASSUME NEW i \in Nat, i \in T PROVE i + 1 \in T
  <2> SUFFICES ASSUME i + 1 \in Rounds(sp) PROVE RoundHolds(sp, i + 1)
    OBVIOUS
  <2>1. i \in Rounds(sp)
    BY NodesFinite DEF Rounds
  <2>2. RoundHolds(sp, i)
    BY <1>2, <2>1
  <2> DEFINE N == NodesOf(sp)
             B == Before(sp, i)
             Q == Kahn(sp)[i].queue
             C == Before(sp, i + 1)
  <2>3. Q = {n \in N \ B : Deps(sp, n) \subseteq B} /\ B \cap Q = {}
    BY <2>2 DEF RoundHolds
  <2>4. C = B \cup Q
    BY BeforeGrows
  <2>5. Kahn(sp)[i + 1] = Release(sp, Kahn(sp)[i])
    BY <2>1, KahnRounds
  <2>6. ASSUME NEW n \in N
        PROVE  Kahn(sp)[i + 1].deg[n] = Cardinality(Open(sp, n, C))
    <3>1. Kahn(sp)[i + 1].deg[n] = Kahn(sp)[i].deg[n] - Releases(sp, n, Q)
      BY <2>5 DEF Release
    <3>2. Kahn(sp)[i].deg[n] = Cardinality(Open(sp, n, B))
      BY <2>2 DEF RoundHolds
    <3> HIDE DEF B, Q, C
    <3> QED
      BY <2>3, <2>4, <3>1, <3>2, OpenEntries
  <2>7. ASSUME NEW n \in N
        PROVE  n \in Kahn(sp)[i + 1].queue
               <=> Deps(sp, n) \subseteq C /\ ~ (Deps(sp, n) \subseteq B)
    <3>1. n \in Kahn(sp)[i + 1].queue <=>
             Kahn(sp)[i].deg[n] > 0 /\ Kahn(sp)[i + 1].deg[n] = 0
      BY <2>5 DEF Release
    <3>2. Kahn(sp)[i].deg[n] = Cardinality(Open(sp, n, B))
      BY <2>2 DEF RoundHolds
    <3>3. C \cap {} = {} /\ B \cap {} = {}
      OBVIOUS
    <3> HIDE DEF B, C
    <3>4. /\ Cardinality(Open(sp, n, B)) \in Nat
          /\ Cardinality(Open(sp, n, B)) = 0 <=> Deps(sp, n) \subseteq B
          /\ Cardinality(Open(sp, n, C)) = 0 <=> Deps(sp, n) \subseteq C
      BY <3>3, OpenEntries
    <3> QED
      BY <2>6, <3>1, <3>2, <3>4
  <2>8. Kahn(sp)[i + 1].queue \subseteq N
    BY <2>5 DEF Release
  <2>9. \A n \in B : n \in N /\ Deps(sp, n) \subseteq B
    BY <2>2 DEF RoundHolds
  <2> HIDE DEF N, B, Q, C
  <2>10. \A n \in C : n \in N /\ Deps(sp, n) \subseteq C
    BY <2>3, <2>4, <2>9
  <2>11. Kahn(sp)[i + 1].queue = {n \in N \ C : Deps(sp, n) \subseteq C}
    BY <2>3, <2>4, <2>7, <2>8, <2>9
  <2> QED
    BY <2>6, <2>10, <2>11 DEF RoundHolds, N, C
<1>3. \A i \in Nat : i \in T
  <2> HIDE DEF T
  <2> QED
    BY <1>1, <1>2, SetInduction
<1> QED
  BY <1>3, KahnRounds

\* The levels are the rounds up to the first whose queue is empty.
LEMMA SortShape ==
    ASSUME NEW sp, SpecType(sp)
    PROVE  \E k \in Nat :
              /\ TopologicalSort(sp) = [i \in 1 .. k |->
                                           Kahn(sp)[i - 1].queue]
              /\ \A i \in 0 .. k - 1 : i \in Rounds(sp)
                                       /\ Kahn(sp)[i].queue # {}
              /\ k \in Rounds(sp) => Kahn(sp)[k].queue = {}
              /\ k \in 0 .. Cardinality(NodesOf(sp)) + 1
<1> DEFINE C == Cardinality(NodesOf(sp))
           E == {i \in Nat : i \in Rounds(sp) => Kahn(sp)[i].queue = {}}
<1>1. C \in Nat
  BY NodesFinite
<1>2. C + 1 \in E
  BY <1>1 DEF Rounds
<1>3. PICK k \in E : \A i \in E : k <= i
  BY <1>2, LeastNatural
<1>4. k \in Nat /\ k <= C + 1
  BY <1>1, <1>2, <1>3
<1>5. \A i \in 0 .. k - 1 : i \in Rounds(sp) /\ Kahn(sp)[i].queue # {}
  BY <1>1, <1>3, <1>4
<1>6. ASSUME k \in Rounds(sp) PROVE Kahn(sp)[k].queue = {}
  BY <1>3, <1>6
<1>7. ASSUME NEW i \in Rounds(sp), k <= i PROVE Kahn(sp)[i].queue = {}
  <2> DEFINE T == {m \in Nat : k + m \in Rounds(sp) =>
                                  Kahn(sp)[k + m].queue = {}}
  <2>1. 0 \in T
    BY <1>4, <1>6
  <2>2. ASSUME NEW m \in Nat, m \in T PROVE m + 1 \in T
    <3> SUFFICES ASSUME k + m + 1 \in Rounds(sp)
                 PROVE  Kahn(sp)[k + m + 1].queue = {}
      BY <1>4
    <3>1. k + m \in Nat /\ k + m \in Rounds(sp)
      BY <1>1, <1>4 DEF Rounds
    <3>2. Kahn(sp)[k + m].queue = {}
      BY <2>2, <3>1
    <3>3. Before(sp, k + m + 1) = Before(sp, k + m)
      <4> DEFINE r == k + m
      <4>1. r \in Nat
        BY <3>1
      <4> HIDE DEF r
      <4>2. Before(sp, r + 1) = Before(sp, r) \cup Kahn(sp)[r].queue
        BY <4>1, BeforeGrows
      <4> QED
        BY <3>2, <4>2 DEF r
    <3>4. RoundHolds(sp, k + m) /\ RoundHolds(sp, k + m + 1)
      BY <3>1, RoundsHold
    <3> QED
      BY <3>2, <3>3, <3>4 DEF RoundHolds
  <2>3. \A m \in Nat : m \in T
    <3> HIDE DEF T
    <3> QED
      BY <2>1, <2>2, SetInduction
  <2>4. i - k \in Nat /\ k + (i - k) = i
    BY <1>1, <1>4, <1>7 DEF Rounds
  <2> QED
    BY <2>3, <2>4
<1>8. {i \in DOMAIN Kahn(sp) : Kahn(sp)[i].queue # {}} = 0 .. k - 1
  <2>1. DOMAIN Kahn(sp) = 0 .. C
    BY KahnRounds DEF Rounds
  <2>2. \A i \in 0 .. C : Kahn(sp)[i].queue # {} <=> i \in 0 .. k - 1
    BY <1>1, <1>4, <1>5, <1>7 DEF Rounds
  <2> HIDE DEF C
  <2> QED
    BY <1>1, <1>4, <2>1, <2>2
<1>9. Cardinality(0 .. k - 1) = k
  BY <1>4, FS_Interval
<1>10. TopologicalSort(sp) = [i \in 1 .. k |-> Kahn(sp)[i - 1].queue]
  BY <1>8, <1>9 DEF TopologicalSort
<1> QED
  <2>1. k \in Nat
    BY <1>4
  <2>2. k \in 0 .. Cardinality(NodesOf(sp)) + 1
    BY <1>1, <1>4
  <2> WITNESS k \in Nat
  <2> QED
    BY <1>5, <1>6, <1>10, <2>2

\* The levels of TopologicalSort, one by one: each is not empty and made of
\* the nodes that depend on earlier levels only and are in none; a node whose
\* dependencies are all in the levels is in one itself.
LevelsAre(sp, k) ==
    LET L == TopologicalSort(sp)
    IN /\ L \in [1 .. k -> SUBSET NodesOf(sp)]
       /\ Sorted(sp) = Before(sp, k)
       /\ \A i \in 1 .. k :
             /\ L[i] # {}
             /\ UNION {L[j] : j \in 1 .. i - 1} = Before(sp, i - 1)
             /\ L[i] = {n \in NodesOf(sp) \ Before(sp, i - 1) :
                           Deps(sp, n) \subseteq Before(sp, i - 1)}
       /\ \A n \in NodesOf(sp) \ Before(sp, k) :
             ~ (Deps(sp, n) \subseteq Before(sp, k))

LEMMA SortLevels ==
    ASSUME NEW sp, SpecType(sp)
    PROVE  \E k \in Nat : LevelsAre(sp, k)
<1> DEFINE L == TopologicalSort(sp)
<1>1. PICK k \in Nat :
         /\ L = [i \in 1 .. k |-> Kahn(sp)[i - 1].queue]
         /\ \A i \in 0 .. k - 1 : i \in Rounds(sp) /\ Kahn(sp)[i].queue # {}
         /\ k \in Rounds(sp) => Kahn(sp)[k].queue = {}
         /\ k \in 0 .. Cardinality(NodesOf(sp)) + 1
  BY SortShape
<1> HIDE DEF L
<1>2. ASSUME NEW i \in 1 .. k
      PROVE  /\ L[i] # {}
             /\ L[i] = {n \in NodesOf(sp) \ Before(sp, i - 1) :
                           Deps(sp, n) \subseteq Before(sp, i - 1)}
  <2>1. i - 1 \in 0 .. k - 1
    OBVIOUS
  <2>2. RoundHolds(sp, i - 1)
    BY <1>1, <2>1, RoundsHold
  <2> QED
    BY <1>1, <2>1, <2>2 DEF RoundHolds
<1>3. ASSUME NEW m \in 0 .. k
      PROVE  UNION {L[j] : j \in 1 .. m} = Before(sp, m)
  <2>1. \A j \in 1 .. m : L[j] = Kahn(sp)[j - 1].queue
    BY <1>1
  <2>2. \A j \in 0 .. m - 1 : j + 1 \in 1 .. m /\ (j + 1) - 1 = j
    OBVIOUS
  <2>3. \A j \in 1 .. m : j - 1 \in 0 .. m - 1
    OBVIOUS
  <2>4. {L[j] : j \in 1 .. m} = {Kahn(sp)[j].queue : j \in 0 .. m - 1}
    BY <2>1, <2>2, <2>3
  <2> QED
    BY <2>4 DEF Before
<1>4. Sorted(sp) = Before(sp, k)
  <2>1. DOMAIN L = 1 .. k
    BY <1>1
  <2> QED
    BY <1>3, <2>1 DEF Sorted, L
<1>5. L \in [1 .. k -> SUBSET NodesOf(sp)]
  <2>1. L = [i \in 1 .. k |-> L[i]]
    BY <1>1
  <2> QED
    BY <1>2, <2>1
<1>6. ASSUME NEW n \in NodesOf(sp) \ Before(sp, k),
             Deps(sp, n) \subseteq Before(sp, k)
      PROVE  FALSE
  <2>1. CASE k \in Rounds(sp)
    <3>1. Kahn(sp)[k].queue = {} /\ RoundHolds(sp, k)
      BY <1>1, <2>1, RoundsHold
    <3> QED
      BY <1>6, <3>1 DEF RoundHolds
  <2>2. CASE k \notin Rounds(sp)
    <3> DEFINE N == NodesOf(sp)
               C == Cardinality(N)
               f == [i \in 0 .. C |-> CHOOSE m : m \in Kahn(sp)[i].queue]
    <3>1. IsFiniteSet(N) /\ C \in Nat
      BY NodesFinite
    <3>2. k = C + 1
      BY <1>1, <2>2, <3>1 DEF Rounds
    <3>3. ASSUME NEW i \in 0 .. C
          PROVE  /\ f[i] \in Kahn(sp)[i].queue
                 /\ f[i] \in N \ Before(sp, i)
      <4>1. Kahn(sp)[i].queue # {} /\ RoundHolds(sp, i)
        BY <1>1, <3>1, <3>2, RoundsHold
      <4> QED
        BY <4>1 DEF RoundHolds
    <3>4. ASSUME NEW i \in 0 .. C, NEW j \in 0 .. C, i < j PROVE f[i] # f[j]
      <4>1. Kahn(sp)[i].queue \subseteq Before(sp, j)
        BY <3>1, <3>4 DEF Before
      <4> QED
        BY <3>3, <4>1
    <3> HIDE DEF f, C, N
    <3>5. f \in [0 .. C -> N]
      <4>1. f = [i \in 0 .. C |-> f[i]]
        BY DEF f
      <4> QED
        BY <3>3, <4>1
    <3>6. f \in Injection(0 .. C, N)
      BY <3>1, <3>4, <3>5 DEF Injection, IsInjective
    <3>7. Cardinality(0 .. C) <= C
      BY <3>1, <3>6, FS_Injection DEF C
    <3>8. Cardinality(0 .. C) = C + 1
      BY <3>1, FS_Interval
    <3> QED
      BY <3>1, <3>7, <3>8
  <2> QED
    BY <2>1, <2>2
<1>7. ASSUME NEW i \in 1 .. k
      PROVE  UNION {L[j] : j \in 1 .. i - 1} = Before(sp, i - 1)
  BY <1>3
<1> QED
  BY <1>2, <1>4, <1>5, <1>6, <1>7 DEF L, LevelsAre

\* The sort of an accepted specification puts every node into the earliest
\* level its dependencies allow: Kahn's algorithm is right, for every graph.
THEOREM SortIsByDepth ==
    ASSUME NEW sp, SpecType(sp)
    PROVE  SortedByDepth(sp, TopologicalSort(sp))
<1> DEFINE L == TopologicalSort(sp)
<1>1. PICK k \in Nat : LevelsAre(sp, k)
  BY SortLevels
<1>2. /\ DOMAIN L = 1 .. k
      /\ \A i \in 1 .. k :
            /\ UNION {L[j] : j \in 1 .. i - 1} = Before(sp, i - 1)
            /\ L[i] = {n \in NodesOf(sp) \ Before(sp, i - 1) :
                          Deps(sp, n) \subseteq Before(sp, i - 1)}
  BY <1>1 DEF LevelsAre
<1> HIDE DEF L
<1>3. ASSUME NEW i \in DOMAIN L
      PROVE  L[i] = {n \in NodesOf(sp) \ UNION {L[j] : j \in 1 .. i - 1} :
                       Deps(sp, n) \subseteq UNION {L[j] : j \in 1 .. i - 1}}
  <2>1. UNION {L[j] : j \in 1 .. i - 1} = Before(sp, i - 1)
    BY <1>2
  <2>2. L[i] = {n \in NodesOf(sp) \ Before(sp, i - 1) :
                  Deps(sp, n) \subseteq Before(sp, i - 1)}
    BY <1>2
  <2> QED
    BY <2>1, <2>2, Zenon
<1> QED
  BY <1>3, Zenon DEF SortedByDepth, L

\* NewGraph accepts exactly the well-formed specifications without a cycle.
THEOREM NewGraphIsExact ==
    ASSUME NEW sp, SpecType(sp)
    PROVE  NewGraph(sp) <=>
              /\ WellFormed(sp)
              /\ Acyclic(NodesOf(sp), LAMBDA n : Deps(sp, n))
<1> DEFINE N == NodesOf(sp)
           L == TopologicalSort(sp)
<1>0. PICK k \in Nat : LevelsAre(sp, k)
  BY SortLevels
<1>1. /\ L \in [1 .. k -> SUBSET N]
      /\ Sorted(sp) = Before(sp, k)
      /\ \A i \in 1 .. k :
            /\ UNION {L[j] : j \in 1 .. i - 1} = Before(sp, i - 1)
            /\ L[i] = {n \in N \ Before(sp, i - 1) :
                          Deps(sp, n) \subseteq Before(sp, i - 1)}
      /\ \A n \in N \ Before(sp, k) : ~ (Deps(sp, n) \subseteq Before(sp, k))
  BY <1>0 DEF LevelsAre
<1>2. Sorted(sp) = UNION {L[i] : i \in 1 .. k}
  BY <1>1 DEF Sorted
<1> HIDE DEF L
<1>3. ASSUME Sorted(sp) = N, NEW S \in SUBSET N, S # {}
      PROVE  \E n \in S : Deps(sp, n) \cap S = {}
  <2> DEFINE T == {i \in Nat : i \in 1 .. k /\ L[i] \cap S # {}}
  <2>1. T # {}
    BY <1>2, <1>3
  <2>2. PICK i \in T : \A j \in T : i <= j
    BY <2>1, LeastNatural
  <2>3. PICK n : n \in L[i] \cap S
    BY <2>2
  <2>4. Deps(sp, n) \subseteq UNION {L[j] : j \in 1 .. i - 1}
    BY <1>1, <2>2, <2>3
  <2>5. \A j \in 1 .. i - 1 : L[j] \cap S = {}
    BY <2>2
  <2> QED
    BY <2>3, <2>4, <2>5
<1>4. ASSUME WellFormed(sp),
             \A S \in SUBSET N : S # {} => \E n \in S : Deps(sp, n) \cap S = {}
      PROVE  Sorted(sp) = N
  <2>1. Sorted(sp) \subseteq N
    BY <1>1, <1>2
  <2>2. ASSUME N \ Sorted(sp) # {} PROVE FALSE
    <3>1. PICK n \in N \ Sorted(sp) : Deps(sp, n) \cap (N \ Sorted(sp)) = {}
      BY <1>4, <2>2
    <3>2. Deps(sp, n) \subseteq N
      BY <1>4, <3>1 DEF WellFormed
    <3> QED
      BY <1>1, <3>1, <3>2
  <2> QED
    BY <2>1, <2>2
<1>5. Acyclic(N, LAMBDA n : Deps(sp, n)) <=>
         \A S \in SUBSET N : S # {} => \E n \in S : Deps(sp, n) \cap S = {}
  BY DEF Acyclic
<1> QED
  BY <1>3, <1>4, <1>5 DEF NewGraph

-----------------------------------------------------------------------------
(* Executions *)

\* What run relies on: every node is in one level, and depends on nodes of
\* earlier levels only.
Layered(sp, L) ==
    /\ NodesOf(sp) \subseteq Nodes /\ NodesOf(sp) # {}
    /\ L \in Seq(SUBSET NodesOf(sp)) /\ L # <<>>
    /\ \A n \in NodesOf(sp) : \E i \in DOMAIN L : n \in L[i]
    /\ \A i, j \in DOMAIN L : \A n \in L[i] : n \in L[j] => i = j
    /\ \A i \in DOMAIN L : \A n \in L[i] : \A m \in Deps(sp, n) :
          \E j \in DOMAIN L : j < i /\ m \in L[j]

LEMMA AcceptedIsLayered ==
    ASSUME NEW sp \in Specs, NewGraph(sp)
    PROVE  Layered(sp, TopologicalSort(sp))
<1> DEFINE L == TopologicalSort(sp)
           N == NodesOf(sp)
<1>0. SpecType(sp)
  BY SpecsAssumption DEF SpecType
<1>1. PICK k \in Nat : LevelsAre(sp, k)
  BY <1>0, SortLevels
<1>2. /\ L \in [1 .. k -> SUBSET N]
      /\ \A i \in 1 .. k :
            /\ UNION {L[j] : j \in 1 .. i - 1} = Before(sp, i - 1)
            /\ L[i] = {n \in N \ Before(sp, i - 1) :
                          Deps(sp, n) \subseteq Before(sp, i - 1)}
  BY <1>1 DEF LevelsAre
<1>3. UNION {L[i] : i \in DOMAIN L} = N
  BY DEF NewGraph, Sorted
<1>4. N \subseteq Nodes /\ N # {}
  <2>1. sp.nodes \in Seq(Nodes) /\ sp.nodes # <<>>
    BY <1>0 DEF SpecType, NewGraph, WellFormed
  <2>2. 1 \in DOMAIN sp.nodes /\ \A x \in DOMAIN sp.nodes : sp.nodes[x] \in Nodes
    BY <2>1
  <2> QED
    BY <2>2 DEF NodesOf
<1> HIDE DEF L, N
<1>5. L \in Seq(SUBSET N) /\ DOMAIN L = 1 .. k
  BY <1>2
<1>6. \A n \in N : \E i \in DOMAIN L : n \in L[i]
  BY <1>3
<1>7. L # <<>>
  BY <1>4, <1>5, <1>6
<1>8. ASSUME NEW i \in 1 .. k, NEW n \in L[i], NEW j \in 1 .. k, n \in L[j],
             j < i
      PROVE  FALSE
  <2>1. n \in UNION {L[x] : x \in 1 .. i - 1}
    BY <1>8
  <2> QED
    BY <1>2, <1>8, <2>1
<1>9. ASSUME NEW i \in DOMAIN L, NEW j \in DOMAIN L, NEW n \in L[i],
             n \in L[j]
      PROVE  i = j
  <2>1. i \in 1 .. k /\ j \in 1 .. k
    BY <1>5, <1>9
  <2> QED
    BY <1>8, <1>9, <2>1
<1>10. ASSUME NEW i \in DOMAIN L, NEW n \in L[i], NEW m \in Deps(sp, n)
       PROVE  \E j \in DOMAIN L : j < i /\ m \in L[j]
  <2>1. i \in 1 .. k
    BY <1>5, <1>10
  <2>2. m \in UNION {L[x] : x \in 1 .. i - 1}
    BY <1>2, <1>10, <2>1
  <2>3. PICK x \in 1 .. i - 1 : m \in L[x]
    BY <2>2
  <2> QED
    BY <1>5, <2>1, <2>3
<1> QED
  BY <1>4, <1>5, <1>6, <1>7, <1>9, <1>10 DEF Layered, L, N

\* Where the node n of level i of the execution e is: done before the level
\* that run is at, in its goroutine at that level, untouched or skipped after.
NodeHolds(e, i, n) ==
    LET g  == gor[<<e, n>>]
        st == nstate[e][n]
        pc == run[e].pc
    IN /\ i < run[e].level => g = "done" /\ st = "completed"
       /\ i = run[e].level =>
             /\ pc = "launch" => g = "none" /\ st = "pending"
             /\ pc = "wait" => g # "none"
             /\ pc \in {"skip", "over"} => g = "done"
       /\ i > run[e].level =>
             /\ g = "none" /\ st \in {"pending", "failed"}
             /\ pc \in {"launch", "wait"} => st = "pending"
       /\ g = "start" => st = "pending"
       /\ g = "submit" => st = "running"
       /\ g = "cancel" => st = "failed"
       /\ g = "done" => \/ st = "completed"
                        \/ st = "failed" /\ CtxErr(e)

\* The execution has failed just if one of its nodes has.
FailsWithNode(e) ==
    estate[e] = "failed" <=>
        \E n \in NodesOf(spec[e]) : nstate[e][n] = "failed"

\* An execution with a record: its levels are those of its specification, its
\* nodes are where its run says, and the rest is skipped only after a failure
\* or a shutdown.
RecordHolds(e) ==
    /\ estate[e] \in {"running", "completed", "failed"}
    /\ spec[e] \in Specs /\ NewGraph(spec[e])
    /\ levels[e] = TopologicalSort(spec[e])
    /\ nstate[e] \in [NodesOf(spec[e]) -> NodeState]
    /\ run[e].pc \in {"launch", "wait", "skip", "over"}
    /\ run[e].level \in DOMAIN levels[e]
    /\ \A i \in DOMAIN levels[e] : \A n \in levels[e][i] : NodeHolds(e, i, n)
    /\ FailsWithNode(e)
    /\ run[e].pc = "skip" => estate[e] = "failed" \/ stopped

\* Only the nodes of the execution have goroutines.
GoroutinesHold(e) ==
    \A n \in Nodes : gor[<<e, n>>] # "none" => n \in NodesOf(spec[e])

NoRecord(e) ==
    /\ estate[e] \in {"none", "refused"}
    /\ nstate[e] = <<>> /\ run[e].pc = "none"
    /\ \A n \in Nodes : gor[<<e, n>>] = "none"

\* Contexts are cancelled because of a failure or a shutdown.
CancelHolds(e) ==
    \A n \in Nodes : <<e, n>> \in cancelled => estate[e] = "failed" \/ stopped

ExecHolds(e) ==
    /\ NoRecord(e) \/ (RecordHolds(e) /\ GoroutinesHold(e))
    /\ CancelHolds(e)

DagTyped ==
    /\ DOMAIN spec = Execs /\ DOMAIN nstate = Execs
    /\ DOMAIN estate = Execs /\ DOMAIN levels = Execs
    /\ run \in [Execs -> [pc: {"none", "launch", "wait", "skip", "over"},
                          level: Nat]]
    /\ DOMAIN gor = Submitters

DagInv == DagTyped /\ \A e \in Execs : ExecHolds(e)

\* A step of one execution, or a cancellation, leaves the others as they are.
LEMMA Elsewhere ==
    ASSUME NEW e \in Execs, ExecHolds(e),
           estate'[e] = estate[e], nstate'[e] = nstate[e],
           spec'[e] = spec[e], levels'[e] = levels[e], run'[e] = run[e],
           \A n \in Nodes : gor'[<<e, n>>] = gor[<<e, n>>],
           cancelled \subseteq cancelled', stopped => stopped',
           \A n \in Nodes : <<e, n>> \in cancelled' =>
                               <<e, n>> \in cancelled \/ stopped'
    PROVE  ExecHolds(e)'
<1>1. CASE NoRecord(e)
  BY <1>1 DEF NoRecord, ExecHolds, CancelHolds
<1>2. CASE RecordHolds(e) /\ GoroutinesHold(e)
  <2>1. Layered(spec[e], levels[e])
    BY <1>2, AcceptedIsLayered DEF RecordHolds
  <2>2. ASSUME NEW i \in DOMAIN levels[e], NEW n \in levels[e][i]
        PROVE  NodeHolds(e, i, n)'
    <3>1. n \in Nodes
      BY <2>1 DEF Layered
    <3>2. NodeHolds(e, i, n)
      BY <1>2 DEF RecordHolds
    <3> QED
      BY <3>1, <3>2 DEF NodeHolds, CtxErr
  <2>3. RecordHolds(e)'
    BY <1>2, <2>2 DEF RecordHolds, FailsWithNode
  <2>4. GoroutinesHold(e)'
    BY <1>2 DEF GoroutinesHold
  <2>5. CancelHolds(e)'
    BY DEF ExecHolds, CancelHolds
  <2> QED
    BY <2>3, <2>4, <2>5 DEF ExecHolds
<1> QED
  BY <1>1, <1>2 DEF ExecHolds

LEMMA DagInvInit == DagInit => DagInv
<1> SUFFICES ASSUME DagInit PROVE DagInv
  OBVIOUS
<1>1. DagTyped
  <2>1. [pc |-> "none", level |-> 0] \in
           [pc: {"none", "launch", "wait", "skip", "over"}, level: Nat]
    OBVIOUS
  <2>2. run = [x \in Execs |-> [pc |-> "none", level |-> 0]]
    BY DEF DagInit
  <2>3. run \in [Execs -> [pc: {"none", "launch", "wait", "skip", "over"},
                           level: Nat]]
    BY <2>1, <2>2, Zenon
  <2> QED
    BY <2>3 DEF DagInit, DagTyped
<1>2. ASSUME NEW e \in Execs PROVE ExecHolds(e)
  <2>1. \A n \in Nodes : gor[<<e, n>>] = "none"
    BY DagAssumption DEF DagInit
  <2>2. NoRecord(e)
    BY <2>1 DEF DagInit, NoRecord
  <2> QED
    BY <2>2 DEF DagInit, CompletionInit, ExecHolds, CancelHolds
<1> QED
  BY <1>1, <1>2 DEF DagInv

\* The facts that the steps below start from.
LEMMA Recorded ==
    ASSUME DagInv, NEW e \in Execs, run[e].pc # "none"
    PROVE  /\ RecordHolds(e) /\ GoroutinesHold(e) /\ CancelHolds(e)
           /\ Layered(spec[e], levels[e])
           /\ Level(e) \subseteq NodesOf(spec[e])
           /\ \A i \in DOMAIN levels[e] : \A n \in levels[e][i] :
                 n \in NodesOf(spec[e]) /\ n \in Nodes
                 /\ <<e, n>> \in Submitters
<1>1. RecordHolds(e) /\ GoroutinesHold(e) /\ CancelHolds(e)
  BY DEF DagInv, ExecHolds, NoRecord
<1>2. Layered(spec[e], levels[e])
  BY <1>1, AcceptedIsLayered DEF RecordHolds
<1>3. \A i \in DOMAIN levels[e] : levels[e][i] \subseteq NodesOf(spec[e])
  BY <1>2 DEF Layered
<1>4. run[e].level \in DOMAIN levels[e]
  BY <1>1 DEF RecordHolds
<1> QED
  BY <1>1, <1>2, <1>3, <1>4, DagAssumption DEF Layered, Level

\* Execute starts a run whose nodes are all untouched, or refuses.
LEMMA ExecuteHolds ==
    ASSUME DagInv, NEW e \in Execs, NEW sp \in Specs, Execute(e, sp)
    PROVE  DagInv'
<1>0. /\ estate[e] = "none" /\ UNCHANGED <<cvars, gor, stopped>>
      /\ spec' = [spec EXCEPT ![e] = sp]
  BY DEF Execute
<1>1. NoRecord(e) /\ DagTyped /\ CancelHolds(e)
  BY <1>0 DEF DagInv, ExecHolds, RecordHolds
<1>2. CASE NewGraph(sp)
  <2>1. /\ estate' = [estate EXCEPT ![e] = "running"]
        /\ nstate' = [nstate EXCEPT ![e] = [n \in NodesOf(sp) |-> "pending"]]
        /\ levels' = [levels EXCEPT ![e] = TopologicalSort(sp)]
        /\ run' = [run EXCEPT ![e] = [pc |-> "launch", level |-> 1]]
    BY <1>2 DEF Execute
  <2>2. Layered(sp, TopologicalSort(sp))
    BY <1>2, AcceptedIsLayered
  <2>3. DagTyped'
    <3>1. run' \in [Execs -> [pc: {"none", "launch", "wait", "skip", "over"},
                               level: Nat]]
      BY <1>1, <2>1 DEF DagTyped
    <3> QED
      BY <1>0, <1>1, <2>1, <3>1 DEF DagTyped
  <2>4. /\ spec'[e] = sp /\ estate'[e] = "running"
        /\ nstate'[e] = [n \in NodesOf(sp) |-> "pending"]
        /\ levels'[e] = TopologicalSort(sp)
        /\ run'[e].pc = "launch" /\ run'[e].level = 1
        /\ gor' = gor /\ cancelled' = cancelled /\ stopped' = stopped
    BY <1>0, <1>1, <2>1 DEF DagTyped, cvars
  <2>5. ASSUME NEW i \in DOMAIN levels'[e], NEW n \in levels'[e][i]
        PROVE  NodeHolds(e, i, n)'
    <3>1. n \in NodesOf(sp) /\ n \in Nodes /\ i \in Nat /\ i >= 1
      BY <2>2, <2>4 DEF Layered
    <3>2. nstate'[e][n] = "pending" /\ gor'[<<e, n>>] = "none"
      BY <1>1, <2>4, <3>1 DEF NoRecord
    <3> QED
      BY <2>4, <3>1, <3>2 DEF NodeHolds
  <2>6. RecordHolds(e)'
    <3>1. 1 \in DOMAIN TopologicalSort(sp)
      BY <2>2 DEF Layered
    <3>2. FailsWithNode(e)'
      BY <2>4 DEF FailsWithNode
    <3>3. nstate'[e] \in [NodesOf(sp) -> NodeState]
      BY <2>4 DEF NodeState
    <3> QED
      BY <1>2, <2>4, <2>5, <3>1, <3>2, <3>3 DEF RecordHolds
  <2>7. GoroutinesHold(e)' /\ CancelHolds(e)'
    BY <1>0, <1>1, <2>4 DEF GoroutinesHold, NoRecord, CancelHolds
  <2>8. ASSUME NEW x \in Execs, x # e PROVE ExecHolds(x)'
    BY <1>0, <1>1, <2>1, <2>4, <2>8, Elsewhere DEF DagInv, DagTyped
  <2> QED
    BY <2>3, <2>6, <2>7, <2>8 DEF DagInv, ExecHolds
<1>3. CASE ~NewGraph(sp)
  <2>1. /\ estate' = [estate EXCEPT ![e] = "refused"]
        /\ UNCHANGED <<levels, nstate, run>>
    BY <1>3 DEF Execute
  <2>2. DagTyped'
    BY <1>0, <1>1, <2>1 DEF DagTyped
  <2>3. NoRecord(e)' /\ CancelHolds(e)'
    BY <1>0, <1>1, <2>1 DEF NoRecord, CancelHolds, DagTyped, cvars
  <2>4. ASSUME NEW x \in Execs, x # e PROVE ExecHolds(x)'
    BY <1>0, <1>1, <2>1, <2>4, Elsewhere DEF DagInv, DagTyped, cvars
  <2> QED
    BY <2>2, <2>3, <2>4 DEF DagInv, ExecHolds
<1> QED
  BY <1>2, <1>3

\* The go statements put the level's nodes into their goroutines.
LEMMA LaunchHolds ==
    ASSUME DagInv, NEW e \in Execs, Launch(e)
    PROVE  DagInv'
<1>0. /\ run[e].pc = "launch"
      /\ gor' = [s \in Submitters |->
                   IF s[1] = e /\ s[2] \in Level(e) THEN "start" ELSE gor[s]]
      /\ run' = [run EXCEPT ![e].pc = "wait"]
      /\ UNCHANGED <<spec, levels, nstate, estate, stopped, cancelled>>
  BY DEF Launch, cvars
<1>1. /\ RecordHolds(e) /\ GoroutinesHold(e) /\ CancelHolds(e) /\ DagTyped
      /\ Layered(spec[e], levels[e]) /\ Level(e) \subseteq NodesOf(spec[e])
  BY <1>0, Recorded DEF DagInv
<1>2. DagTyped'
  <2>1. run' \in [Execs -> [pc: {"none", "launch", "wait", "skip", "over"},
                             level: Nat]]
    BY <1>0, <1>1 DEF DagTyped
  <2> QED
    BY <1>0, <1>1, <2>1 DEF DagTyped
<1>3. run'[e].pc = "wait" /\ run'[e].level = run[e].level
  BY <1>0, <1>1 DEF DagTyped
<1>4. ASSUME NEW n \in Nodes
      PROVE  gor'[<<e, n>>] = IF n \in Level(e) THEN "start" ELSE gor[<<e, n>>]
  BY <1>0, DagAssumption
<1>5. ASSUME NEW i \in DOMAIN levels[e], NEW n \in levels[e][i]
      PROVE  NodeHolds(e, i, n)'
  <2>1. n \in Nodes /\ i \in Nat /\ run[e].level \in DOMAIN levels[e]
    BY <1>1 DEF Layered, RecordHolds
  <2>2. n \in Level(e) <=> i = run[e].level
    BY <1>1, <2>1 DEF Layered, Level
  <2>3. NodeHolds(e, i, n) /\ run[e].level \in Nat
    BY <1>1 DEF RecordHolds, DagTyped
  <2> QED
    BY <1>0, <1>3, <1>4, <2>1, <2>2, <2>3 DEF NodeHolds
<1>6. RecordHolds(e)'
  BY <1>0, <1>1, <1>3, <1>5 DEF RecordHolds, FailsWithNode
<1>7. GoroutinesHold(e)' /\ CancelHolds(e)'
  BY <1>0, <1>1, <1>4 DEF GoroutinesHold, CancelHolds
<1>8. ASSUME NEW x \in Execs, x # e PROVE ExecHolds(x)'
  <2>1. \A n \in Nodes : gor'[<<x, n>>] = gor[<<x, n>>]
    BY <1>0, <1>8, DagAssumption
  <2> QED
    BY <1>0, <1>1, <1>8, <2>1, Elsewhere DEF DagInv, DagTyped
<1> QED
  BY <1>2, <1>6, <1>7, <1>8 DEF DagInv, ExecHolds

\* Once the level's goroutines are done, either all its nodes are completed or
\* the context is cancelled and run goes on to skip the rest.
LEMMA LevelDoneHolds ==
    ASSUME DagInv, NEW e \in Execs, LevelDone(e)
    PROVE  DagInv'
<1>0. /\ run[e].pc = "wait" /\ \A n \in Level(e) : gor[<<e, n>>] = "done"
      /\ UNCHANGED <<spec, levels, nstate, estate, gor, stopped, cancelled>>
  BY DEF LevelDone, cvars
<1>1. /\ RecordHolds(e) /\ GoroutinesHold(e) /\ CancelHolds(e) /\ DagTyped
      /\ Layered(spec[e], levels[e]) /\ Level(e) \subseteq NodesOf(spec[e])
  BY <1>0, Recorded DEF DagInv
<1> DEFINE l == run[e].level
<1>2. /\ DOMAIN levels[e] = 1 .. Len(levels[e]) /\ Len(levels[e]) \in Nat
      /\ l \in Nat /\ l \in 1 .. Len(levels[e])
  BY <1>1 DEF Layered, RecordHolds
<1>3. PICK pc \in {"skip", "over", "launch"}, k \in Nat :
         /\ run' = [run EXCEPT ![e] = [pc |-> pc, level |-> k]]
         /\ pc = "launch" => k = l + 1 /\ l # Len(levels[e]) /\ ~CtxErr(e)
         /\ pc # "launch" => k = l
         /\ pc = "skip" => CtxErr(e)
  <2>1. run[e] = [pc |-> run[e].pc, level |-> l]
    BY <1>1 DEF DagTyped
  <2>2. [run[e] EXCEPT !.pc = "skip"] = [pc |-> "skip", level |-> l]
    BY <2>1
  <2>3. [run[e] EXCEPT !.pc = "over"] = [pc |-> "over", level |-> l]
    BY <2>1
  <2>4. run' = [run EXCEPT ![e] =
                 CASE CtxErr(e) -> [run[e] EXCEPT !.pc = "skip"]
                   [] ~CtxErr(e) /\ l = Len(levels[e]) ->
                         [run[e] EXCEPT !.pc = "over"]
                   [] OTHER -> [pc |-> "launch", level |-> l + 1]]
    BY DEF LevelDone
  <2>5. CASE CtxErr(e)
    BY <1>2, <2>2, <2>4, <2>5
  <2>6. CASE ~CtxErr(e) /\ l = Len(levels[e])
    BY <1>2, <2>3, <2>4, <2>6
  <2>7. CASE ~CtxErr(e) /\ l # Len(levels[e])
    <3>1. run' = [run EXCEPT ![e] = [pc |-> "launch", level |-> l + 1]]
      BY <2>4, <2>7
    <3>2. l + 1 \in Nat
      BY <1>2
    <3> QED
      BY <2>7, <3>1, <3>2
  <2> QED
    BY <2>5, <2>6, <2>7
<1>4. DagTyped'
  <2>1. run' \in [Execs -> [pc: {"none", "launch", "wait", "skip", "over"},
                             level: Nat]]
    BY <1>1, <1>3 DEF DagTyped
  <2> QED
    BY <1>0, <1>1, <2>1 DEF DagTyped
<1>5. run'[e].pc = pc /\ run'[e].level = k
  BY <1>1, <1>3 DEF DagTyped
<1>6. k \in DOMAIN levels[e]
  BY <1>2, <1>3
<1>7. ASSUME NEW i \in DOMAIN levels[e], NEW n \in levels[e][i]
      PROVE  NodeHolds(e, i, n)'
  <2>1. NodeHolds(e, i, n) /\ i \in Nat
    BY <1>1, <1>2 DEF RecordHolds
  <2>2. i = l => gor[<<e, n>>] = "done"
    BY <1>0 DEF Level
  <2>3. pc = "launch" => ~CtxErr(e)
    BY <1>3
  <2>4. ASSUME i <= l
        PROVE  /\ gor[<<e, n>>] = "done"
               /\ pc = "launch" => nstate[e][n] = "completed"
    BY <1>2, <2>1, <2>2, <2>3, <2>4 DEF NodeHolds
  <2>5. CASE i <= l
    BY <1>0, <1>2, <1>3, <1>5, <2>1, <2>4, <2>5 DEF NodeHolds, CtxErr
  <2>6. CASE i > l
    BY <1>0, <1>2, <1>3, <1>5, <2>1, <2>6 DEF NodeHolds
  <2> QED
    BY <1>2, <2>1, <2>5, <2>6
<1>8. pc = "skip" => estate[e] = "failed" \/ stopped
  <2>1. PICK n : n \in Nodes
    BY <1>1 DEF Layered
  <2> QED
    BY <1>1, <1>3, <2>1 DEF CtxErr, CancelHolds
<1>9. RecordHolds(e)'
  BY <1>0, <1>1, <1>3, <1>5, <1>6, <1>7, <1>8 DEF RecordHolds, FailsWithNode
<1>10. GoroutinesHold(e)' /\ CancelHolds(e)'
  BY <1>0, <1>1 DEF GoroutinesHold, CancelHolds
<1>11. ASSUME NEW x \in Execs, x # e PROVE ExecHolds(x)'
  BY <1>0, <1>1, <1>3, <1>11, Elsewhere DEF DagInv, DagTyped
<1> QED
  BY <1>4, <1>9, <1>10, <1>11 DEF DagInv, ExecHolds

\* What Skip marks is a node of a level that was never begun.
LEMMA SkipPicks ==
    ASSUME DagInv, NEW e \in Execs, Skip(e)
    PROVE  /\ run[e].pc = "skip"
           /\ UNCHANGED <<cvars, spec, levels, gor, stopped>>
           /\ \/ /\ run' = [run EXCEPT ![e].pc = "over"]
                 /\ UNCHANGED <<nstate, estate>>
              \/ /\ UNCHANGED run
                 /\ \E i \in DOMAIN levels[e] : \E n \in levels[e][i] :
                       /\ i > run[e].level /\ nstate[e][n] = "pending"
                       /\ MarkNodeFailed(e, n)
<1>0. run[e].pc = "skip" /\ UNCHANGED <<cvars, spec, levels, gor, stopped>>
  BY DEF Skip
<1>1. Layered(spec[e], levels[e]) /\ run[e].level \in DOMAIN levels[e]
  BY <1>0, Recorded DEF RecordHolds
<1> DEFINE rest == {i \in run[e].level + 1 .. Len(levels[e]) :
                       \E n \in levels[e][i] : nstate[e][n] = "pending"}
<1>2. \/ /\ rest # {}
         /\ \E n \in levels[e][Min(rest)] :
               nstate[e][n] = "pending" /\ MarkNodeFailed(e, n)
         /\ UNCHANGED run
      \/ /\ run' = [run EXCEPT ![e].pc = "over"]
         /\ UNCHANGED <<nstate, estate>>
  BY DEF Skip
<1>3. /\ DOMAIN levels[e] = 1 .. Len(levels[e]) /\ Len(levels[e]) \in Nat
      /\ run[e].level \in Nat
  BY <1>1 DEF Layered
<1>4. ASSUME rest # {}
      PROVE  Min(rest) \in DOMAIN levels[e] /\ Min(rest) > run[e].level
  <2>1. rest \subseteq Nat
    BY <1>3
  <2>2. \E x \in rest : \A y \in rest : x <= y
    <3> HIDE DEF rest
    <3> QED
      BY <1>4, <2>1, LeastNatural
  <2>3. Min(rest) \in rest
    <3> HIDE DEF rest
    <3> QED
      BY <2>2 DEF Min
  <2> QED
    BY <1>3, <2>3
<1> QED
  BY <1>0, <1>2, <1>4

LEMMA SkipHolds ==
    ASSUME DagInv, NEW e \in Execs, Skip(e)
    PROVE  DagInv'
<1>0. run[e].pc = "skip" /\ UNCHANGED <<cancelled, spec, levels, gor, stopped>>
  BY SkipPicks DEF cvars
<1>1. /\ RecordHolds(e) /\ GoroutinesHold(e) /\ CancelHolds(e) /\ DagTyped
      /\ Layered(spec[e], levels[e]) /\ Level(e) \subseteq NodesOf(spec[e])
  BY <1>0, Recorded DEF DagInv
<1>2. CASE run' = [run EXCEPT ![e].pc = "over"] /\ UNCHANGED <<nstate, estate>>
  <2>1. run' \in [Execs -> [pc: {"none", "launch", "wait", "skip", "over"},
                             level: Nat]]
    BY <1>1, <1>2 DEF DagTyped
  <2>2. DagTyped'
    BY <1>0, <1>1, <1>2, <2>1 DEF DagTyped
  <2>3. run'[e].pc = "over" /\ run'[e].level = run[e].level
    BY <1>1, <1>2 DEF DagTyped
  <2>4. ASSUME NEW i \in DOMAIN levels[e], NEW n \in levels[e][i]
        PROVE  NodeHolds(e, i, n)'
    BY <1>0, <1>1, <1>2, <2>3 DEF RecordHolds, NodeHolds, CtxErr
  <2>5. RecordHolds(e)' /\ GoroutinesHold(e)' /\ CancelHolds(e)'
    BY <1>0, <1>1, <1>2, <2>3, <2>4
    DEF RecordHolds, FailsWithNode, GoroutinesHold, CancelHolds
  <2>6. ASSUME NEW x \in Execs, x # e PROVE ExecHolds(x)'
    BY <1>0, <1>1, <1>2, <2>6, Elsewhere DEF DagInv, DagTyped
  <2> QED
    BY <2>2, <2>5, <2>6 DEF DagInv, ExecHolds
<1>3. ASSUME UNCHANGED run,
             NEW i \in DOMAIN levels[e], NEW n \in levels[e][i],
             i > run[e].level, nstate[e][n] = "pending", MarkNodeFailed(e, n)
      PROVE  DagInv'
  <2>1. /\ nstate' = [nstate EXCEPT ![e][n] = "failed"]
        /\ estate' = [estate EXCEPT ![e] = "failed"]
        /\ n \in NodesOf(spec[e]) /\ nstate[e] \in [NodesOf(spec[e]) -> NodeState]
    BY <1>1, <1>3 DEF MarkNodeFailed, Layered, RecordHolds
  <2>2. DagTyped'
    BY <1>0, <1>1, <1>3, <2>1 DEF DagTyped
  <2>3. /\ estate'[e] = "failed" /\ nstate'[e] = [nstate[e] EXCEPT ![n] = "failed"]
        /\ nstate'[e] \in [NodesOf(spec[e]) -> NodeState]
    BY <1>1, <2>1 DEF DagTyped, NodeState
  <2>4. ASSUME NEW j \in DOMAIN levels[e], NEW m \in levels[e][j]
        PROVE  NodeHolds(e, j, m)'
    <3>1. NodeHolds(e, j, m) /\ m \in NodesOf(spec[e])
      BY <1>1 DEF RecordHolds, Layered
    <3>2. CASE m = n
      <4>1. i = j /\ i \in Nat /\ run[e].level \in Nat
        BY <1>1, <3>2 DEF Layered, RecordHolds
      <4>2. nstate'[e][n] = "failed"
        BY <2>1, <2>3
      <4> QED
        BY <1>0, <1>3, <3>1, <3>2, <4>1, <4>2 DEF NodeHolds
    <3>3. CASE m # n
      <4>1. nstate'[e][m] = nstate[e][m]
        BY <2>1, <2>3, <3>3
      <4> QED
        BY <1>0, <1>3, <3>1, <4>1 DEF NodeHolds, CtxErr
    <3> QED
      BY <3>2, <3>3
  <2>5. FailsWithNode(e)'
    BY <1>0, <2>1, <2>3 DEF FailsWithNode
  <2>6. RecordHolds(e)' /\ GoroutinesHold(e)' /\ CancelHolds(e)'
    BY <1>0, <1>1, <1>3, <2>3, <2>4, <2>5
    DEF RecordHolds, GoroutinesHold, CancelHolds
  <2>7. ASSUME NEW x \in Execs, x # e PROVE ExecHolds(x)'
    BY <1>0, <1>1, <1>3, <2>1, <2>7, Elsewhere DEF DagInv, DagTyped
  <2> QED
    BY <2>2, <2>6, <2>7 DEF DagInv, ExecHolds
<1> QED
  BY <1>2, <1>3, SkipPicks

\* A goroutine that has not ended belongs to the level run is at.
LEMMA ActiveNode ==
    ASSUME DagInv, NEW e \in Execs, NEW n \in Nodes,
           gor[<<e, n>>] \in {"start", "submit", "cancel"}
    PROVE  /\ RecordHolds(e) /\ GoroutinesHold(e) /\ CancelHolds(e) /\ DagTyped
           /\ Layered(spec[e], levels[e]) /\ n \in NodesOf(spec[e])
           /\ n \in Level(e) /\ run[e].pc = "wait" /\ NodeHolds(e, run[e].level, n)
<1>1. RecordHolds(e) /\ GoroutinesHold(e) /\ CancelHolds(e) /\ DagTyped
  BY DEF DagInv, ExecHolds, NoRecord
<1>2. Layered(spec[e], levels[e]) /\ n \in NodesOf(spec[e])
  BY <1>1, AcceptedIsLayered DEF RecordHolds, GoroutinesHold
<1>3. PICK i \in DOMAIN levels[e] : n \in levels[e][i]
  BY <1>2 DEF Layered
<1>4. NodeHolds(e, i, n)
  BY <1>1, <1>3 DEF RecordHolds
<1>5. i \in Nat /\ run[e].level \in Nat
  BY <1>1, <1>2 DEF Layered, RecordHolds
<1>6. i = run[e].level
  BY <1>4, <1>5 DEF NodeHolds
<1>7. run[e].pc = "wait"
  BY <1>1, <1>4, <1>6 DEF NodeHolds, RecordHolds
<1> QED
  BY <1>1, <1>2, <1>3, <1>4, <1>6, <1>7 DEF Level

\* Some other node of the execution has failed.
OtherFailed(e, n) ==
    \E m \in NodesOf(spec[e]) : m # n /\ nstate[e][m] = "failed"

\* A goroutine's step takes it to g and its node to the state st, which agree;
\* the execution fails with its node, and its context is cancelled only then.
Moves(e, n, g, st) ==
    /\ gor[<<e, n>>] \in {"start", "submit", "cancel"}
    /\ g \in {"submit", "cancel", "done"} /\ gor' = [gor EXCEPT ![<<e, n>>] = g]
    /\ st \in NodeState /\ nstate'[e] = [nstate[e] EXCEPT ![n] = st]
    /\ g = "submit" => st = "running"
    /\ g = "cancel" => st = "failed"
    /\ g = "done" => st = "completed" \/ (st = "failed" /\ CtxErr(e)')
    /\ nstate[e][n] = "failed" => st = "failed"
    /\ estate'[e] \in {"running", "completed", "failed"}
    /\ estate'[e] = "failed" <=> OtherFailed(e, n) \/ st = "failed"
    /\ DOMAIN nstate' = Execs /\ DOMAIN estate' = Execs
    /\ \A x \in Execs : x # e => nstate'[x] = nstate[x] /\ estate'[x] = estate[x]
    /\ UNCHANGED <<spec, levels, run, stopped>>
    /\ cancelled \subseteq cancelled'
    /\ cancelled' \subseteq cancelled \cup ({e} \X Nodes)
    /\ cancelled' = cancelled \/ estate'[e] = "failed"

LEMMA NodeMoves ==
    ASSUME DagInv, NEW e \in Execs, NEW n \in Nodes, NEW g, NEW st,
           Moves(e, n, g, st)
    PROVE  DagInv'
<1> USE DEF Moves
<1>1. /\ RecordHolds(e) /\ GoroutinesHold(e) /\ CancelHolds(e) /\ DagTyped
      /\ Layered(spec[e], levels[e]) /\ n \in NodesOf(spec[e])
      /\ n \in Level(e) /\ run[e].pc = "wait" /\ NodeHolds(e, run[e].level, n)
  BY ActiveNode
<1>2. DagTyped'
  BY <1>1 DEF DagTyped
<1>3. /\ nstate[e] \in [NodesOf(spec[e]) -> NodeState]
      /\ nstate'[e] = [nstate[e] EXCEPT ![n] = st]
      /\ \A x \in Execs : x # e => nstate'[x] = nstate[x]
  BY <1>1 DEF RecordHolds, DagTyped
<1>4. /\ nstate'[e] \in [NodesOf(spec[e]) -> NodeState] /\ nstate'[e][n] = st
      /\ \A m \in NodesOf(spec[e]) : m # n => nstate'[e][m] = nstate[e][m]
  BY <1>1, <1>3
<1>5. /\ gor'[<<e, n>>] = g
      /\ \A x \in Execs, m \in Nodes : <<x, m>> # <<e, n>> =>
            gor'[<<x, m>>] = gor[<<x, m>>]
  BY <1>1, DagAssumption DEF DagTyped
<1>6. run' = run /\ spec' = spec /\ levels' = levels /\ stopped' = stopped
  OBVIOUS
<1>7. ASSUME NEW i \in DOMAIN levels[e], NEW m \in levels[e][i]
      PROVE  NodeHolds(e, i, m)'
  <2>1. /\ NodeHolds(e, i, m) /\ m \in NodesOf(spec[e]) /\ m \in Nodes
        /\ i \in Nat /\ run[e].level \in Nat
    BY <1>1 DEF RecordHolds, Layered
  <2>2. CASE m = n
    <3>1. i = run[e].level
      BY <1>1, <2>2 DEF Layered, RecordHolds, Level
    <3> QED
      BY <1>1, <1>4, <1>5, <1>6, <2>1, <2>2, <3>1 DEF NodeHolds
  <2>3. CASE m # n
    <3>1. gor'[<<e, m>>] = gor[<<e, m>>] /\ nstate'[e][m] = nstate[e][m]
      BY <1>4, <1>5, <2>1, <2>3
    <3> QED
      BY <1>1, <1>6, <2>1, <3>1 DEF NodeHolds, CtxErr
  <2> QED
    BY <2>2, <2>3
<1>8. FailsWithNode(e)'
  BY <1>1, <1>4, <1>6 DEF FailsWithNode, OtherFailed
<1>9. RecordHolds(e)'
  BY <1>1, <1>4, <1>6, <1>7, <1>8 DEF RecordHolds
<1>10. GoroutinesHold(e)'
  BY <1>1, <1>5, <1>6 DEF GoroutinesHold
<1>11. CancelHolds(e)'
  <2>1. estate[e] = "failed" => estate'[e] = "failed"
    BY <1>1 DEF RecordHolds, FailsWithNode, OtherFailed
  <2> QED
    BY <1>1, <1>6, <2>1 DEF CancelHolds
<1>12. ASSUME NEW x \in Execs, x # e PROVE ExecHolds(x)'
  <2>1. \A m \in Nodes : gor'[<<x, m>>] = gor[<<x, m>>]
    BY <1>5, <1>12
  <2>2. \A m \in Nodes : <<x, m>> \in cancelled' => <<x, m>> \in cancelled
    BY <1>12
  <2> QED
    BY <1>3, <1>6, <1>12, <2>1, <2>2, Elsewhere DEF DagInv
<1> QED
  BY <1>2, <1>9, <1>10, <1>11, <1>12 DEF DagInv, ExecHolds

LEMMA NodeBeginHolds ==
    ASSUME DagInv, NEW e \in Execs, NEW n \in Nodes, NodeBegin(e, n)
    PROVE  DagInv'
<1>0. /\ gor[<<e, n>>] = "start" /\ gor' = [gor EXCEPT ![<<e, n>>] = "submit"]
      /\ nstate' = [nstate EXCEPT ![e][n] = "running"] /\ estate' = estate
      /\ UNCHANGED <<cancelled, spec, levels, run, stopped>>
  BY DEF NodeBegin, MarkNodeRunning, cvars
<1>1. /\ DagTyped /\ RecordHolds(e) /\ n \in NodesOf(spec[e])
      /\ nstate[e][n] = "pending"
  BY <1>0, ActiveNode DEF NodeHolds
<1>4. /\ DOMAIN nstate' = Execs /\ \A x \in Execs : x # e => nstate'[x] = nstate[x]
      /\ nstate'[e] = [nstate[e] EXCEPT ![n] = "running"]
  BY <1>0, <1>1 DEF DagTyped
<1>2. estate'[e] = "failed" <=> OtherFailed(e, n)
  BY <1>0, <1>1 DEF RecordHolds, FailsWithNode, OtherFailed
<1>3. "running" \in NodeState
  BY DEF NodeState
<1> QED
  BY <1>0, <1>1, <1>2, <1>3, <1>4, NodeMoves DEF DagTyped, RecordHolds, Moves

LEMMA NodeEndHolds ==
    ASSUME DagInv, NEW e \in Execs, NEW n \in Nodes, NodeEnd(e, n)
    PROVE  DagInv'
<1>0. /\ gor[<<e, n>>] = "submit"
      /\ UNCHANGED <<cancelled, spec, levels, run, stopped>>
  BY DEF NodeEnd, cvars
<1>1. /\ DagTyped /\ RecordHolds(e) /\ n \in NodesOf(spec[e])
      /\ nstate[e][n] = "running" /\ nstate[e] \in [NodesOf(spec[e]) -> NodeState]
  BY <1>0, ActiveNode DEF NodeHolds, RecordHolds
<1>2. "completed" \in NodeState /\ "failed" \in NodeState
  BY DEF NodeState
<1>3. CASE MarkNodeCompleted(e, n) /\ gor' = [gor EXCEPT ![<<e, n>>] = "done"]
  <2>1. /\ nstate' = [nstate EXCEPT ![e][n] = "completed"]
        /\ estate' = [estate EXCEPT ![e] =
              IF \A m \in DOMAIN nstate[e] : nstate'[e][m] = "completed"
              THEN "completed" ELSE estate[e]]
    BY <1>3 DEF MarkNodeCompleted
  <2>5. /\ DOMAIN nstate' = Execs
        /\ \A x \in Execs : x # e => nstate'[x] = nstate[x]
        /\ nstate'[e] = [nstate[e] EXCEPT ![n] = "completed"]
    BY <1>1, <2>1 DEF DagTyped
  <2>2. \A m \in NodesOf(spec[e]) : m # n => nstate'[e][m] = nstate[e][m]
    BY <1>1, <2>5
  <2>3. /\ DOMAIN estate' = Execs
        /\ \A x \in Execs : x # e => estate'[x] = estate[x]
        /\ estate'[e] \in {"running", "completed", "failed"}
    BY <1>1, <2>1 DEF DagTyped, RecordHolds
  <2>4. estate'[e] = "failed" <=> OtherFailed(e, n)
    <3>1. estate[e] = "failed" <=> OtherFailed(e, n)
      BY <1>1 DEF RecordHolds, FailsWithNode, OtherFailed
    <3>2. CASE \A m \in DOMAIN nstate[e] : nstate'[e][m] = "completed"
      <4>1. \A m \in NodesOf(spec[e]) : m # n => nstate[e][m] = "completed"
        BY <1>1, <2>2, <3>2
      <4>2. estate'[e] = "completed"
        BY <1>1, <2>1, <3>2 DEF DagTyped
      <4> QED
        BY <4>1, <4>2 DEF OtherFailed
    <3>3. CASE ~ \A m \in DOMAIN nstate[e] : nstate'[e][m] = "completed"
      <4>1. estate'[e] = estate[e]
        BY <1>1, <2>1, <3>3 DEF DagTyped
      <4> QED
        BY <3>1, <4>1
    <3> QED
      BY <3>2, <3>3
  <2>6. Moves(e, n, "done", "completed")
    BY <1>0, <1>1, <1>2, <1>3, <2>3, <2>4, <2>5 DEF Moves
  <2> QED
    BY <2>6, NodeMoves
<1>4. CASE MarkNodeFailed(e, n) /\ gor' = [gor EXCEPT ![<<e, n>>] = "cancel"]
  <2>1. /\ nstate' = [nstate EXCEPT ![e][n] = "failed"]
        /\ estate' = [estate EXCEPT ![e] = "failed"]
    BY <1>4 DEF MarkNodeFailed
  <2>3. /\ DOMAIN nstate' = Execs
        /\ \A x \in Execs : x # e => nstate'[x] = nstate[x]
        /\ nstate'[e] = [nstate[e] EXCEPT ![n] = "failed"]
    BY <1>1, <2>1 DEF DagTyped
  <2>2. /\ DOMAIN estate' = Execs /\ estate'[e] = "failed"
        /\ \A x \in Execs : x # e => estate'[x] = estate[x]
    BY <1>1, <2>1 DEF DagTyped
  <2> QED
    BY <1>0, <1>1, <1>2, <1>4, <2>2, <2>3, NodeMoves DEF Moves
<1> QED
  BY <1>3, <1>4 DEF NodeEnd

LEMMA NodeCancelHolds ==
    ASSUME DagInv, NEW e \in Execs, NEW n \in Nodes, NodeCancel(e, n)
    PROVE  DagInv'
<1>0. /\ gor[<<e, n>>] = "cancel" /\ gor' = [gor EXCEPT ![<<e, n>>] = "done"]
      /\ cancelled' = cancelled \cup ({e} \X Nodes)
      /\ UNCHANGED <<spec, levels, nstate, estate, run, stopped>>
  BY DEF NodeCancel, CtxDone
<1>1. /\ DagTyped /\ RecordHolds(e) /\ n \in NodesOf(spec[e])
      /\ nstate[e][n] = "failed" /\ nstate[e] \in [NodesOf(spec[e]) -> NodeState]
  BY <1>0, ActiveNode DEF NodeHolds, RecordHolds
<1>2. estate[e] = "failed"
  BY <1>1 DEF RecordHolds, FailsWithNode
<1>3. /\ DOMAIN nstate' = Execs /\ \A x \in Execs : x # e => nstate'[x] = nstate[x]
      /\ nstate'[e] = [nstate[e] EXCEPT ![n] = "failed"]
  BY <1>0, <1>1 DEF DagTyped
<1>4. "failed" \in NodeState
  BY DEF NodeState
<1> QED
  <2>1. /\ DOMAIN estate' = Execs /\ estate'[e] = "failed"
        /\ \A x \in Execs : x # e => estate'[x] = estate[x]
    BY <1>0, <1>1, <1>2 DEF DagTyped
  <2>2. /\ CtxErr(e)' /\ cancelled \subseteq cancelled'
        /\ cancelled' \subseteq cancelled \cup ({e} \X Nodes)
    BY <1>0 DEF CtxErr
  <2>3. UNCHANGED <<spec, levels, run, stopped>>
    BY <1>0
  <2>4. Moves(e, n, "done", "failed")
    BY <1>0, <1>1, <1>3, <1>4, <2>1, <2>2, <2>3 DEF Moves
  <2> QED
    BY <2>4, NodeMoves

\* Steps that touch neither records nor goroutines: those of SubmitTask, of
\* the registry's other callers, and the end of the process's context.
LEMMA ContextHolds ==
    ASSUME DagInv, UNCHANGED <<spec, levels, nstate, estate, run, gor>>,
           stopped => stopped', cancelled \subseteq cancelled',
           cancelled' = cancelled \/ stopped'
    PROVE  DagInv'
<1>1. DagTyped'
  BY DEF DagInv, DagTyped
<1>2. ASSUME NEW e \in Execs PROVE ExecHolds(e)'
  BY Elsewhere DEF DagInv
<1> QED
  BY <1>1, <1>2 DEF DagInv

LEMMA DagStep ==
    ASSUME DagInv, [DagNext]_vars
    PROVE  DagInv'
<1>1. ASSUME NEW e \in Execs, RunStep(e) PROVE DagInv'
  BY <1>1, LaunchHolds, LevelDoneHolds, SkipHolds DEF RunStep
<1>2. ASSUME NEW s, SubmitTask(s) PROVE cancelled' = cancelled
  BY <1>2 DEF SubmitTask, Enqueue, Wait, Select, Cleanup
<1>3. ASSUME NEW e \in Execs, NEW n \in Nodes, NodeStep(e, n) PROVE DagInv'
  <2>1. CASE NodeSubmit(e, n)
    BY <1>2, <2>1, ContextHolds DEF NodeSubmit, dagVars
  <2> QED
    BY <1>3, <2>1, NodeBeginHolds, NodeEndHolds, NodeCancelHolds DEF NodeStep
<1>4. ASSUME NEW t \in Tasks, (Complete(t) \/ Age(t)) /\ UNCHANGED dagVars
      PROVE  DagInv'
  BY <1>4, ContextHolds DEF Complete, Age, dagVars
<1>5. CASE Reap
  BY <1>5, ContextHolds DEF Reap, SweepOnce, dagVars
<1>6. CASE Shutdown
  BY <1>6, ContextHolds DEF Shutdown, CtxDone
<1>7. CASE UNCHANGED vars
  BY <1>7, ContextHolds DEF vars, dagVars, cvars
<1>8. CASE Exit
  BY <1>7, <1>8, Zenon DEF Exit
<1> QED
  BY <1>1, <1>3, <1>4, <1>5, <1>6, <1>7, <1>8, ExecuteHolds, Zenon DEF DagNext

\* Whatever is submitted, however the goroutines of a level end, and whenever
\* the process is stopped, the runs are where their records say.
THEOREM RunsAgreeWithRecords == DagSpec => []DagInv
BY DagInvInit, DagStep, PTL DEF DagSpec

\* TopologicalSort is right for every execution that has a record: each node
\* is in the earliest level its dependencies allow, and in one only.
THEOREM LevelsAreTight == DagSpec => []SortIsTight
<1>1. DagInv => SortIsTight
  <2> SUFFICES ASSUME DagInv, NEW e \in Execs,
                      estate[e] \notin {"none", "refused"}
               PROVE  SortedByDepth(spec[e], levels[e])
    BY DEF SortIsTight
  <2>1. spec[e] \in Specs /\ levels[e] = TopologicalSort(spec[e])
    BY DEF DagInv, ExecHolds, NoRecord, RecordHolds
  <2>2. SpecType(spec[e])
    BY <2>1, SpecsAssumption DEF SpecType
  <2> QED
    BY <2>1, <2>2, SortIsByDepth
<1> QED
  BY <1>1, RunsAgreeWithRecords, PTL

-----------------------------------------------------------------------------
(* The contract *)

\* A node that a goroutine starts on has its dependencies behind it.
LEMMA DepsAreDone ==
    ASSUME DagInv, NEW e \in Execs, NEW n \in Nodes,
           gor[<<e, n>>] \notin {"none"}, NEW m \in Deps(spec[e], n)
    PROVE  /\ RecordHolds(e) /\ n \in NodesOf(spec[e])
           /\ m \in NodesOf(spec[e]) /\ m \in Nodes
           /\ nstate[e][m] = "completed" /\ gor[<<e, m>>] = "done"
<1>1. RecordHolds(e) /\ GoroutinesHold(e)
  BY DEF DagInv, ExecHolds, NoRecord
<1>2. Layered(spec[e], levels[e]) /\ n \in NodesOf(spec[e])
  BY <1>1, AcceptedIsLayered DEF RecordHolds, GoroutinesHold
<1>3. PICK i \in DOMAIN levels[e] : n \in levels[e][i]
  BY <1>2 DEF Layered
<1>4. PICK j \in DOMAIN levels[e] : j < i /\ m \in levels[e][j]
  BY <1>2, <1>3 DEF Layered
<1>5. i \in Nat /\ j \in Nat /\ run[e].level \in Nat /\ m \in NodesOf(spec[e])
  BY <1>1, <1>2, <1>4 DEF Layered, RecordHolds
<1>6. NodeHolds(e, i, n) /\ NodeHolds(e, j, m)
  BY <1>1, <1>3, <1>4 DEF RecordHolds
<1>7. i <= run[e].level
  BY <1>5, <1>6 DEF NodeHolds
<1>8. j < run[e].level
  BY <1>4, <1>5, <1>7
<1> QED
  BY <1>1, <1>2, <1>5, <1>6, <1>8 DEF NodeHolds, Layered

LEMMA SameCardinality ==
    ASSUME NEW S PROVE Contract!Cardinality(S) = Cardinality(S)
BY Zenon DEF Contract!Cardinality, Cardinality

\* Execute creates a record for a specification that is well-formed and has no
\* cycle, and refuses any other.
LEMMA ExecuteKeeps ==
    ASSUME DagInv, NEW e \in Execs, NEW sp \in Specs, Execute(e, sp)
    PROVE  Contract!Create(e) \/ Contract!Refuse(e)
<1>0. /\ estate[e] = "none" /\ stopped' = stopped
      /\ spec' = [spec EXCEPT ![e] = sp]
  BY DEF Execute
<1>1. spec'[e] = sp /\ \A x \in Execs \ {e} : spec'[x] = spec[x]
  BY <1>0 DEF DagInv, DagTyped
<1>2. SpecType(sp)
  BY SpecsAssumption DEF SpecType
<1>3. NewGraph(sp) <=>
         /\ WellFormed(sp)
         /\ \A S \in SUBSET NodesOf(sp) :
               S # {} => \E n \in S : Deps(sp, n) \cap S = {}
  BY <1>2, NewGraphIsExact DEF Acyclic
<1>4. /\ Contract!NodesOf(spec'[e]) = NodesOf(sp)
      /\ \A n : Contract!Deps(spec'[e], n) = Deps(sp, n)
  BY <1>1 DEF NodesOf, Deps, Contract!NodesOf, Contract!Deps
<1>5. /\ WellFormed(sp) <=> Contract!WellFormed(spec'[e])
      /\ (\A S \in SUBSET NodesOf(sp) :
             S # {} => \E n \in S : Deps(sp, n) \cap S = {}) <=>
            Contract!Acyclic(Contract!NodesOf(spec'[e]),
                             LAMBDA n : Contract!Deps(spec'[e], n))
  <2>1. WellFormed(sp) <=> Contract!WellFormed(spec'[e])
    BY <1>1, <1>4, SameCardinality DEF WellFormed, Contract!WellFormed
  <2>3. Contract!Acyclic(Contract!NodesOf(spec'[e]),
                         LAMBDA n : Contract!Deps(spec'[e], n)) <=>
           \A S \in SUBSET Contract!NodesOf(spec'[e]) :
              S # {} => \E n \in S : Contract!Deps(spec'[e], n) \cap S = {}
    BY DEF Contract!Acyclic
  <2> QED
    BY <1>4, <2>1, <2>3
<1>6. CASE NewGraph(sp)
  <2>1. /\ estate' = [estate EXCEPT ![e] = "running"]
        /\ nstate' = [nstate EXCEPT ![e] = [n \in NodesOf(sp) |-> "pending"]]
    BY <1>6 DEF Execute
  <2>2. NodesOf(sp) = Contract!NodesOf(spec'[e])
    BY <1>1 DEF NodesOf, Contract!NodesOf
  <2> QED
    BY <1>0, <1>1, <1>3, <1>5, <1>6, <2>1, <2>2 DEF Contract!Create
<1>7. CASE ~NewGraph(sp)
  <2>1. estate' = [estate EXCEPT ![e] = "refused"] /\ UNCHANGED nstate
    BY <1>7 DEF Execute
  <2> QED
    BY <1>0, <1>1, <1>3, <1>5, <1>7, <2>1 DEF Contract!Refuse
<1> QED
  BY <1>6, <1>7

\* What Skip marks failed is pending, after a failure or a shutdown.
LEMMA SkipKeeps ==
    ASSUME DagInv, NEW e \in Execs, Skip(e)
    PROVE  \/ UNCHANGED <<spec, nstate, estate, stopped>>
           \/ \E n \in DOMAIN nstate[e] : Contract!Fail(e, n)
<1>0. run[e].pc = "skip" /\ UNCHANGED <<spec, stopped>>
  BY SkipPicks
<1>1. RecordHolds(e) /\ Layered(spec[e], levels[e])
  BY <1>0, Recorded
<1>2. ASSUME NEW i \in DOMAIN levels[e], NEW n \in levels[e][i],
             nstate[e][n] = "pending", MarkNodeFailed(e, n)
      PROVE  \E m \in DOMAIN nstate[e] : Contract!Fail(e, m)
  <2>1. n \in DOMAIN nstate[e]
    BY <1>1 DEF RecordHolds, Layered
  <2>2. Contract!Fail(e, n)
    BY <1>0, <1>1, <1>2 DEF RecordHolds, MarkNodeFailed, Contract!Fail
  <2> QED
    BY <2>1, <2>2
<1> QED
  BY <1>0, <1>2, SkipPicks

\* What the goroutine of a node does to the record.
LEMMA NodeKeeps ==
    ASSUME DagInv, NEW e \in Execs, NEW n \in Nodes,
           NodeBegin(e, n) \/ NodeEnd(e, n)
    PROVE  \E m \in DOMAIN nstate[e] :
              Contract!Start(e, m) \/ Contract!Finish(e, m) \/ Contract!Fail(e, m)
<1>0. gor[<<e, n>>] \in {"start", "submit"} /\ UNCHANGED <<spec, stopped>>
  BY DEF NodeBegin, NodeEnd
<1>1. /\ RecordHolds(e) /\ n \in NodesOf(spec[e]) /\ NodeHolds(e, run[e].level, n)
  BY <1>0, ActiveNode
<1>2. n \in DOMAIN nstate[e]
  BY <1>1 DEF RecordHolds
<1>3. CASE NodeBegin(e, n)
  <2>1. nstate[e][n] = "pending"
    BY <1>1, <1>3 DEF NodeBegin, NodeHolds
  <2>2. \A m \in Contract!Depends(e)[n] : nstate[e][m] = "completed"
    <3>1. Contract!Depends(e)[n] = Deps(spec[e], n)
      BY <1>2 DEF Contract!Depends, Contract!Deps, Deps
    <3> QED
      BY <1>0, <3>1, DepsAreDone
  <2> QED
    BY <1>0, <1>2, <1>3, <2>1, <2>2
    DEF NodeBegin, MarkNodeRunning, Contract!Start
<1>4. CASE NodeEnd(e, n)
  <2>1. nstate[e][n] = "running"
    BY <1>1, <1>4 DEF NodeEnd, NodeHolds
  <2> QED
    BY <1>0, <1>2, <1>4, <2>1 DEF NodeEnd, MarkNodeCompleted, MarkNodeFailed,
                                 Contract!Finish, Contract!Fail
<1> QED
  BY <1>3, <1>4

LEMMA ContractStep ==
    ASSUME DagInv, [DagNext]_vars
    PROVE  [Contract!Next]_(Contract!contractVars)
<1> DEFINE Same == UNCHANGED <<spec, nstate, estate, stopped>>
<1>1. ASSUME NEW e \in Execs, NEW sp \in Specs, Execute(e, sp)
      PROVE  Contract!Next
  BY <1>1, ExecuteKeeps, Zenon DEF Contract!Next
<1>2. ASSUME NEW e \in Execs, RunStep(e) PROVE Contract!Next \/ Same
  <2>1. CASE Launch(e) \/ LevelDone(e)
    BY <2>1 DEF Launch, LevelDone
  <2>2. CASE Skip(e)
    BY <2>2, SkipKeeps, Zenon DEF Contract!Next
  <2> QED
    BY <1>2, <2>1, <2>2 DEF RunStep
<1>3. ASSUME NEW e \in Execs, NEW n \in Nodes, NodeStep(e, n)
      PROVE  Contract!Next \/ Same
  <2>1. CASE NodeBegin(e, n) \/ NodeEnd(e, n)
    BY <2>1, NodeKeeps, Zenon DEF Contract!Next
  <2>2. CASE NodeSubmit(e, n) \/ NodeCancel(e, n)
    BY <2>2 DEF NodeSubmit, NodeCancel, dagVars
  <2> QED
    BY <1>3, <2>1, <2>2 DEF NodeStep
<1>4. CASE Shutdown
  <2>1. Contract!Stop
    BY <1>4 DEF Shutdown, Contract!Stop
  <2> QED
    BY <2>1, Zenon DEF Contract!Next
<1>5. ASSUME NEW t \in Tasks, (Complete(t) \/ Age(t)) /\ UNCHANGED dagVars
      PROVE  Same
  BY <1>5 DEF dagVars
<1>6. CASE Reap \/ Exit \/ UNCHANGED vars
  BY <1>6 DEF Reap, Exit, vars, dagVars, Contract!contractVars
<1>7. CASE Contract!Next \/ Same
  BY <1>7 DEF Contract!contractVars
<1> QED
  BY <1>1, <1>2, <1>3, <1>4, <1>5, <1>6, <1>7 DEF DagNext

\* Every execution's record is one the contract allows, whatever the order in
\* which goroutines finish, fail or are stopped.
THEOREM ExecutorKeepsContract == DagSpec => KeepsContract
<1>1. DagInit => Contract!Init
  BY DEF DagInit, Contract!Init
<1> QED
  BY <1>1, ContractStep, RunsAgreeWithRecords, PTL
  DEF DagSpec, KeepsContract, Contract!Spec

-----------------------------------------------------------------------------
(* The tasks behind the nodes *)

\* A SubmitTask call belongs to a goroutine that has begun its node, and a
\* node is completed only on the strength of a nil result.
ResultsHold ==
    /\ DOMAIN sub = Submitters
    /\ \A e \in Execs : \A n \in Nodes :
          /\ sub[<<e, n>>].pc # "idle" => gor[<<e, n>>] \notin {"none", "start"}
          /\ gor[<<e, n>>] = "done" /\ nstate[e][n] = "completed" =>
                sub[<<e, n>>].pc = "done" /\ sub[<<e, n>>].res = "nil"

\* A step of SubmitTask is its goroutine's only, and never comes after the end.
LEMMA SubmitIsLocal ==
    ASSUME NEW s \in Submitters, DOMAIN sub = Submitters, SubmitTask(s)
    PROVE  /\ DOMAIN sub' = Submitters
           /\ \A r \in Submitters : r # s => sub'[r] = sub[r]
BY DEF SubmitTask, Enqueue, Wait, Select, Cleanup

LEMMA ResultsInit == DagInit => ResultsHold
BY DagAssumption DEF DagInit, CompletionInit, ResultsHold

LEMMA ResultsStep ==
    ASSUME DagInv, ResultsHold, [DagNext]_vars
    PROVE  ResultsHold'
<1> USE DagAssumption
<1>0. DagTyped
  BY DEF DagInv
<1>1. ASSUME NEW e \in Execs, NEW sp \in Specs, Execute(e, sp)
      PROVE  ResultsHold'
  <2>1. \A n \in Nodes : gor[<<e, n>>] = "none"
    BY <1>1 DEF Execute, DagInv, ExecHolds, NoRecord, RecordHolds
  <2>2. sub' = sub /\ gor' = gor
    BY <1>1 DEF Execute, cvars
  <2>3. \A x \in Execs : x # e => nstate'[x] = nstate[x]
    BY <1>0, <1>1 DEF Execute, DagTyped
  <2> QED
    BY <2>1, <2>2, <2>3 DEF ResultsHold
<1>2. ASSUME NEW e \in Execs, Launch(e) PROVE ResultsHold'
  <2>1. RecordHolds(e) /\ Layered(spec[e], levels[e]) /\ run[e].pc = "launch"
    BY <1>2, Recorded DEF Launch
  <2>2. \A n \in Level(e) : n \in Nodes => gor[<<e, n>>] = "none"
    BY <2>1 DEF RecordHolds, NodeHolds, Level
  <2>3. \A x \in Execs, n \in Nodes :
           gor'[<<x, n>>] = IF x = e /\ n \in Level(e) THEN "start"
                                                      ELSE gor[<<x, n>>]
    BY <1>2 DEF Launch
  <2>4. sub' = sub /\ nstate' = nstate
    BY <1>2 DEF Launch, cvars
  <2> QED
    BY <2>2, <2>3, <2>4 DEF ResultsHold
<1>3. ASSUME NEW e \in Execs, LevelDone(e) PROVE ResultsHold'
  BY <1>3 DEF LevelDone, cvars, ResultsHold
<1>4. ASSUME NEW e \in Execs, Skip(e) PROVE ResultsHold'
  <2>1. sub' = sub /\ gor' = gor
    BY <1>4 DEF Skip, cvars
  <2>2. CASE nstate' = nstate
    BY <2>1, <2>2 DEF ResultsHold
  <2>3. CASE \E i \in DOMAIN levels[e] : \E n \in levels[e][i] :
                nstate[e][n] = "pending" /\ MarkNodeFailed(e, n)
    <3>1. PICK n : nstate' = [nstate EXCEPT ![e][n] = "failed"]
      BY <2>3 DEF MarkNodeFailed
    <3>2. RecordHolds(e) /\ GoroutinesHold(e)
      BY <1>4, Recorded DEF Skip
    <3>3. \A x \in Execs : x # e => nstate'[x] = nstate[x]
      BY <1>0, <3>1 DEF DagTyped
    <3>4. \A m \in NodesOf(spec[e]) : nstate'[e][m] = "completed" =>
                                       nstate[e][m] = "completed"
      BY <1>0, <3>1, <3>2 DEF DagTyped, RecordHolds
    <3> QED
      BY <2>1, <3>2, <3>3, <3>4 DEF ResultsHold, GoroutinesHold
  <2> QED
    BY <1>4, <2>2, <2>3, SkipPicks
<1>5. ASSUME NEW e \in Execs, NEW n \in Nodes, NodeBegin(e, n)
      PROVE  ResultsHold'
  <2>1. /\ gor' = [gor EXCEPT ![<<e, n>>] = "submit"] /\ sub' = sub
        /\ nstate' = [nstate EXCEPT ![e][n] = "running"]
    BY <1>5 DEF NodeBegin, MarkNodeRunning, cvars
  <2>2. RecordHolds(e) /\ GoroutinesHold(e)
    BY <1>5, ActiveNode DEF NodeBegin
  <2>3. /\ \A x \in Execs : x # e => nstate'[x] = nstate[x]
        /\ \A m \in NodesOf(spec[e]) : nstate'[e][m] = "completed" =>
                                        nstate[e][m] = "completed"
    BY <1>0, <2>1, <2>2 DEF DagTyped, RecordHolds
  <2> QED
    BY <1>0, <2>1, <2>2, <2>3 DEF ResultsHold, GoroutinesHold, DagTyped
<1>6. ASSUME NEW e \in Execs, NEW n \in Nodes, NodeEnd(e, n)
      PROVE  ResultsHold'
  <2>1. /\ RecordHolds(e) /\ GoroutinesHold(e) /\ n \in NodesOf(spec[e])
        /\ gor[<<e, n>>] = "submit" /\ sub[<<e, n>>].pc = "done" /\ sub' = sub
    BY <1>6, ActiveNode DEF NodeEnd, cvars
  <2>2. PICK g \in {"done", "cancel"}, st \in {"completed", "failed"} :
           /\ nstate' = [nstate EXCEPT ![e][n] = st]
           /\ gor' = [gor EXCEPT ![<<e, n>>] = g]
           /\ st = "completed" => sub[<<e, n>>].res = "nil"
    BY <1>6 DEF NodeEnd, MarkNodeCompleted, MarkNodeFailed
  <2>3. /\ \A x \in Execs : x # e => nstate'[x] = nstate[x]
        /\ nstate'[e][n] = st
        /\ \A m \in NodesOf(spec[e]) : m # n => nstate'[e][m] = nstate[e][m]
    BY <1>0, <2>1, <2>2 DEF DagTyped, RecordHolds
  <2>4. /\ gor'[<<e, n>>] = g
        /\ \A x \in Execs, m \in Nodes : <<x, m>> # <<e, n>> =>
              gor'[<<x, m>>] = gor[<<x, m>>]
    BY <1>0, <2>2 DEF DagTyped
  <2>5. ASSUME NEW x \in Execs, NEW m \in Nodes
        PROVE  /\ sub[<<x, m>>].pc # "idle" => gor'[<<x, m>>] \notin {"none", "start"}
               /\ gor'[<<x, m>>] = "done" /\ nstate'[x][m] = "completed" =>
                     sub[<<x, m>>].pc = "done" /\ sub[<<x, m>>].res = "nil"
    <3>1. CASE x = e /\ m = n
      BY <2>1, <2>2, <2>3, <2>4, <3>1
    <3>2. CASE ~ (x = e /\ m = n)
      <4>1. gor'[<<x, m>>] = gor[<<x, m>>]
        BY <2>4, <3>2
      <4>2. gor[<<x, m>>] = "done" => nstate'[x][m] = nstate[x][m]
        BY <2>1, <2>3, <3>2 DEF GoroutinesHold
      <4> QED
        BY <4>1, <4>2 DEF ResultsHold
    <3> QED
      BY <3>1, <3>2
  <2> QED
    BY <2>1, <2>5 DEF ResultsHold
<1>7. ASSUME NEW e \in Execs, NEW n \in Nodes, NodeCancel(e, n)
      PROVE  ResultsHold'
  <2>1. /\ gor' = [gor EXCEPT ![<<e, n>>] = "done"] /\ sub' = sub
        /\ nstate' = nstate /\ gor[<<e, n>>] = "cancel"
    BY <1>7 DEF NodeCancel, CtxDone
  <2>2. nstate[e][n] = "failed"
    BY <2>1, ActiveNode DEF NodeHolds
  <2> QED
    BY <1>0, <2>1, <2>2 DEF ResultsHold, DagTyped
<1>8. ASSUME NEW e \in Execs, NEW n \in Nodes, NodeSubmit(e, n)
      PROVE  ResultsHold'
  <2>1. /\ gor[<<e, n>>] = "submit" /\ SubmitTask(<<e, n>>) /\ <<e, n>> \in Submitters
        /\ gor' = gor /\ nstate' = nstate
    BY <1>8 DEF NodeSubmit, dagVars
  <2>2. /\ DOMAIN sub' = Submitters
        /\ \A r \in Submitters : r # <<e, n>> => sub'[r] = sub[r]
    BY <2>1, SubmitIsLocal DEF ResultsHold
  <2> QED
    BY <2>1, <2>2 DEF ResultsHold
<1>9. ASSUME UNCHANGED <<gor, nstate, sub>> PROVE ResultsHold'
  BY <1>9 DEF ResultsHold
<1>10. ASSUME NEW t \in Tasks, (Complete(t) \/ Age(t)) /\ UNCHANGED dagVars
       PROVE  ResultsHold'
  BY <1>9, <1>10 DEF Complete, Age, dagVars
<1>11. CASE Reap \/ Shutdown \/ Exit \/ UNCHANGED vars
  BY <1>9, <1>11 DEF Reap, SweepOnce, Shutdown, CtxDone, Exit, vars, dagVars, cvars
<1> QED
  BY <1>1, <1>2, <1>3, <1>4, <1>5, <1>6, <1>7, <1>8, <1>10, <1>11
  DEF DagNext, RunStep, NodeStep

\* No task is handed out before the tasks it depends on have been executed,
\* provided no task ID is submitted twice: the registry's signals, the order
\* of the levels and the wait between them put together.
THEOREM TasksRunInOrder == UniqueTaskIDs => (DagSpec => []WorkInOrder)
<1> SUFFICES ASSUME UniqueTaskIDs PROVE DagSpec => []WorkInOrder
  OBVIOUS
<1>1. DagInit => SignalInv
  BY SignalInit DEF DagInit
<1>2. SignalInv /\ [DagNext]_vars => SignalInv'
  BY DagStepRefines, SignalStep
<1>3. ASSUME DagInv, ResultsHold, SignalInv PROVE WorkInOrder
  <2> SUFFICES ASSUME NEW e \in Execs, NEW n \in DOMAIN nstate[e],
                      work[TaskOf[<<e, n>>]] > 0, NEW m \in Deps(spec[e], n)
               PROVE  work[TaskOf[<<e, m>>]] = 0
    BY DEF WorkInOrder
  <2>1. n \in NodesOf(spec[e]) /\ Layered(spec[e], levels[e])
    BY <1>3, AcceptedIsLayered DEF DagInv, ExecHolds, NoRecord, RecordHolds
  <2>2. n \in Nodes /\ <<e, n>> \in Submitters
    BY <2>1, DagAssumption DEF Layered
  <2>3. sub[<<e, n>>].pc # "idle"
    BY <1>3, <2>2 DEF SignalInv, Signalled
  <2>4. gor[<<e, n>>] # "none"
    BY <1>3, <2>2, <2>3 DEF ResultsHold
  <2>5. m \in Nodes /\ nstate[e][m] = "completed" /\ gor[<<e, m>>] = "done"
    BY <1>3, <2>2, <2>4, DepsAreDone
  <2>6. sub[<<e, m>>].res = "nil" /\ <<e, m>> \in Submitters
    BY <1>3, <2>5, DagAssumption DEF ResultsHold
  <2> QED
    BY <1>3, <2>6 DEF SignalInv, Signalled
<1> QED
  BY <1>1, <1>2, <1>3, ResultsInit, ResultsStep, RunsAgreeWithRecords, PTL
  DEF DagSpec
=============================================================================
