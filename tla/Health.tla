------------------------------- MODULE Health -------------------------------
(***************************************************************************)
(* The health aggregator and its two users: Check takes four readings of   *)
(* the store and the DAG engine one after the other while agents come and  *)
(* go, and judges readiness (aggregator.go); the updater goroutine         *)
(* publishes its verdicts on the gRPC health server and shuts that down    *)
(* when its context ends (health_grpc.go); /readyz and /progress requests  *)
(* make a check of their own (health_http.go).                             *)
(***************************************************************************)
EXTENDS Integers

CONSTANTS
    MaxAgents,  \* bound on the agents in the store
    Updater,    \* the goroutine of RunHealthUpdater
    Probes,     \* requests for /readyz or /progress
    MinAgents,  \* Aggregator.minAgents
    MaxOutages  \* bound on the times the store becomes unreliable

ASSUME HealthAssumption ==
    /\ Updater \notin Probes
    /\ MaxAgents \in Nat /\ MinAgents \in Nat \ {0} /\ MaxOutages \in Nat

VARIABLES
    agents,     \* number of agents in the store
    outage,     \* calls of the store may fail
    outages,    \* outages so far
    cancelled,  \* main's context is done
    check,      \* each Check: where it is and what it has read
    serving,    \* the status of "" at the gRPC health server
    halted      \* grpchealth.Server.Shutdown was called

healthVars == <<agents, outage, outages, cancelled, check, serving, halted>>

Checkers == Probes \cup {Updater}

\* The local variables of Check, and whether there were enough agents at any
\* moment since it began.
NoCheck == [pc |-> "start", pingOK |-> FALSE, agentsOK |-> FALSE,
            queueOK |-> FALSE, total |-> 0, enough |-> FALSE, ready |-> FALSE]

CheckPC == {"start", "ping", "agents", "queue", "judge", "publish", "over"}

HealthTypeOK ==
    /\ agents \in 0..MaxAgents
    /\ outage \in BOOLEAN /\ outages \in 0..MaxOutages /\ cancelled \in BOOLEAN
    /\ check \in [Checkers -> [pc : CheckPC, pingOK : BOOLEAN,
                     agentsOK : BOOLEAN, queueOK : BOOLEAN, total : Nat,
                     enough : BOOLEAN, ready : BOOLEAN]]
    /\ serving \in BOOLEAN /\ halted \in BOOLEAN

\* grpchealth.NewServer starts out with "" SERVING.
HealthInit ==
    /\ agents = 0 /\ outage = FALSE /\ outages = 0 /\ cancelled = FALSE
    /\ check = [k \in Checkers |-> NoCheck]
    /\ serving = TRUE /\ halted = FALSE

\* A call of the store succeeds unless there is an outage, when it may fail.
Call(ok) == ok \/ outage

-----------------------------------------------------------------------------
(* Check *)

Step(k, rec) ==
    /\ check' = [check EXCEPT ![k] = rec]
    /\ UNCHANGED <<agents, outage, outages, cancelled, serving, halted>>

CheckBegin(k) ==
    /\ check[k].pc = "start"
    /\ Step(k, [NoCheck EXCEPT !.pc = "ping", !.enough = agents >= MinAgents])

CheckPing(k) ==
    /\ check[k].pc = "ping"
    /\ \E ok \in BOOLEAN : Call(ok) /\
          Step(k, [check[k] EXCEPT !.pc = "agents", !.pingOK = ok])

\* GetAllAgentStates; without it the total is that of an empty map.
CheckAgents(k) ==
    /\ check[k].pc = "agents"
    /\ \E ok \in BOOLEAN : Call(ok) /\
          Step(k, [check[k] EXCEPT !.pc = "queue", !.agentsOK = ok,
                                   !.total = IF ok THEN agents ELSE 0])

CheckQueue(k) ==
    /\ check[k].pc = "queue"
    /\ \E ok \in BOOLEAN : Call(ok) /\
          Step(k, [check[k] EXCEPT !.pc = "judge", !.queueOK = ok])

\* Mutant: one of two errors is not enough.
StoreErrorsBoth(r) == ~r.agentsOK /\ ~r.queueOK

\* readiness: is there no reason against it?
StoreErrors(r) == ~r.agentsOK \/ ~r.queueOK
Readiness(r) ==
    /\ ~StoreErrors(r)
    /\ ~(~r.pingOK /\ ~StoreErrors(r))
    /\ r.agentsOK => r.total # 0 /\ r.total >= MinAgents

\* A probe answers with the verdict; the updater has yet to publish it.
CheckJudge(k) ==
    /\ check[k].pc = "judge"
    /\ Step(k, [NoCheck EXCEPT !.ready = Readiness(check[k]),
                   !.pc = IF k = Updater THEN "publish" ELSE "start"])

-----------------------------------------------------------------------------
(* RunHealthUpdater *)

\* Mutant: a check that is not ready is not published.
UpdaterPublishReady ==
    /\ check[Updater].pc = "publish"
    /\ serving' = IF check[Updater].ready /\ ~halted THEN TRUE ELSE serving
    /\ check' = [check EXCEPT ![Updater] = NoCheck]
    /\ UNCHANGED <<agents, outage, outages, cancelled, halted>>

\* SetServingStatus, which a server that was shut down ignores.
UpdaterPublish ==
    /\ check[Updater].pc = "publish"
    /\ serving' = IF halted THEN serving ELSE check[Updater].ready
    /\ check' = [check EXCEPT ![Updater] = NoCheck]
    /\ UNCHANGED <<agents, outage, outages, cancelled, halted>>

\* Between two updates the loop sees that its context is done; it updates once
\* more if the select prefers a tick.
UpdaterExit ==
    /\ check[Updater].pc = "start" /\ cancelled
    /\ check' = [check EXCEPT ![Updater] = [NoCheck EXCEPT !.pc = "over"]]
    /\ halted' = TRUE /\ serving' = FALSE
    /\ UNCHANGED <<agents, outage, outages, cancelled>>

Cancel ==
    /\ ~cancelled /\ cancelled' = TRUE
    /\ UNCHANGED <<agents, outage, outages, check, serving, halted>>

-----------------------------------------------------------------------------
(* The surroundings *)

OutageBegins ==
    /\ ~outage /\ outages < MaxOutages
    /\ outage' = TRUE /\ outages' = outages + 1
    /\ UNCHANGED <<agents, cancelled, check, serving, halted>>

OutageEnds ==
    /\ outage /\ outage' = FALSE
    /\ UNCHANGED <<agents, outages, cancelled, check, serving, halted>>

\* Agents register, are despawned and reaped at any time.
AgentsChange ==
    /\ agents' \in {agents - 1, agents + 1} \cap (0..MaxAgents)
    /\ check' = [k \in Checkers |->
                    IF check[k].pc \notin {"start", "publish", "over"}
                       /\ agents' >= MinAgents
                    THEN [check[k] EXCEPT !.enough = TRUE] ELSE check[k]]
    /\ UNCHANGED <<outage, outages, cancelled, serving, halted>>

HealthNext ==
    \/ \E k \in Checkers :
          \/ CheckBegin(k) \/ CheckPing(k) \/ CheckAgents(k) \/ CheckQueue(k)
          \/ CheckJudge(k)
    \/ UpdaterPublish \/ UpdaterExit \/ Cancel
    \/ OutageBegins \/ OutageEnds \/ AgentsChange

HealthSpec == HealthInit /\ [][HealthNext]_healthVars

\* The updater's ticker keeps ticking and its calls return; the select that finds
\* a tick and the end of the context at once takes either, but not the tick for
\* ever.  Nothing is assumed of requests, of agents, or of how long an outage
\* lasts.
UpdaterStep ==
    \/ CheckBegin(Updater) \/ CheckPing(Updater) \/ CheckAgents(Updater)
    \/ CheckQueue(Updater) \/ CheckJudge(Updater) \/ UpdaterPublish \/ UpdaterExit

HealthFairSpec ==
    HealthSpec /\ WF_healthVars(UpdaterStep) /\ SF_healthVars(UpdaterExit)

-----------------------------------------------------------------------------
(* Properties *)

\* "Ready implies RedisPingOK", and more: a check that is about to say ready
\* met no error in any of its calls, and at some moment of it there were as many
\* agents as are required.
ReadyIsHonest ==
    \A k \in Checkers :
        check[k].pc = "judge" /\ Readiness(check[k]) =>
            /\ check[k].pingOK /\ check[k].agentsOK /\ check[k].queueOK
            /\ check[k].enough

\* The status of the gRPC health service settles on the truth: SERVING when
\* from some time on the store answers and has enough agents, and not SERVING
\* when from some time on it has too few.
Enough == agents >= MinAgents

ServingSettles ==
    /\ <>[](Enough /\ ~outage /\ ~cancelled) => <>[]serving
    /\ <>[]~Enough => <>[]~serving

\* After a shutdown no update that was under way brings the service back.
StopsServing == cancelled ~> [](~serving)
=============================================================================
