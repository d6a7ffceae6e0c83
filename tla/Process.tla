------------------------------ MODULE Process -------------------------------
(***************************************************************************)
(* The orchestrator process around the event stream: main serves gRPC      *)
(* until the server is stopped; a signal and POST /api/admin/restart run   *)
(* gracefulShutdown, each in a goroutine of its own, and the latter then   *)
(* re-executes the binary (main.go).  When main returns or the program is  *)
(* replaced every goroutine goes with the process; a new process starts    *)
(* with a broker that has read nothing, over the same store or an empty    *)
(* one.                                                                    *)
(***************************************************************************)
EXTENDS Stream

CONSTANTS
    Stoppers,   \* the goroutines that run gracefulShutdown: of
                \* {"signal", "restart"}, those the instance has
    MaxBoots,   \* bound on the processes started
    MaxRpcs     \* bound on the RPCs of each kind that are open at once

ASSUME ProcessAssumption ==
    /\ Stoppers \subseteq {"signal", "restart"}
    /\ MaxBoots \in Nat /\ MaxRpcs \in Nat

VARIABLES
    alive,      \* "run", or how the process ended: "returned", "execed", "killed"
    boots,      \* processes started so far
    grpc,       \* the gRPC server: "serving", "draining", "stopped"
    rpcs,       \* RPCs being handled, of each kind
    stage,      \* where each stopper is in gracefulShutdown
    down,       \* what has been shut down, and "listener", "streams": the
                \* bridge accepts no connection, has no stream any more
    stalled     \* clients that do not read: their requests wait in a write

procVars == <<alive, boots, grpc, rpcs, stage, down, stalled>>
allVars == <<streamVars, procVars>>

\* StreamOutput and the health service's Watch are streams, which their client
\* ends; all others are unary and return.
Kinds == {"unary", "stream"}
NoRpcs == [k \in Kinds |-> 0]

Stages == {"idle", "resolve", "cancel", "drain", "close", "bridge",
           "inner", "exec", "done"}

ProcessTypeOK ==
    /\ StreamTypeOK
    /\ alive \in {"run", "returned", "execed", "killed"} /\ boots \in 1..MaxBoots
    /\ grpc \in {"serving", "draining", "stopped"}
    /\ rpcs \in [Kinds -> 0..MaxRpcs]
    /\ stage \in [Stoppers -> Stages]
    /\ down \subseteq {"health", "listener", "streams", "executor", "supervisor"}
    /\ stalled \subseteq Conns

ProcessInit ==
    /\ StreamInit
    /\ alive = "run" /\ boots = 1 /\ grpc = "serving" /\ rpcs = NoRpcs
    /\ stage = [s \in Stoppers |-> "idle"] /\ down = {} /\ stalled = {}

Up == alive = "run"

RpcBegin(k) ==
    /\ Up /\ grpc = "serving" /\ rpcs[k] < MaxRpcs
    /\ rpcs' = [rpcs EXCEPT ![k] = @ + 1]
    /\ UNCHANGED <<streamVars, alive, boots, grpc, stage, down, stalled>>

RpcEnd(k) ==
    /\ Up /\ rpcs[k] > 0 /\ rpcs' = [rpcs EXCEPT ![k] = @ - 1]
    /\ UNCHANGED <<streamVars, alive, boots, grpc, stage, down, stalled>>

At(s, from, to) == Up /\ stage[s] = from /\ stage' = [stage EXCEPT ![s] = to]

Signal ==
    /\ "signal" \in Stoppers /\ At("signal", "idle", "cancel")
    /\ UNCHANGED <<streamVars, alive, boots, grpc, rpcs, down, stalled>>

\* handleRestartAdmin answers 202; restartFn runs in a goroutine.
RestartAdmin ==
    /\ "restart" \in Stoppers /\ At("restart", "idle", "resolve")
    /\ UNCHANGED <<streamVars, alive, boots, grpc, rpcs, down, stalled>>

\* The binary is looked up before anything is stopped; without it the restart
\* is abandoned and the process keeps serving.
Resolve ==
    /\ "restart" \in Stoppers
    /\ At("restart", "resolve", "cancel") \/ At("restart", "resolve", "done")
    /\ UNCHANGED <<streamVars, alive, boots, grpc, rpcs, down, stalled>>

\* cancel() ends the supervisor's loops and the health updater; GracefulStop
\* then lets no RPC begin and returns when none is open, however long that takes.
GracefulStop(s) ==
    /\ At(s, "cancel", "drain")
    /\ grpc' = IF grpc = "serving" THEN "draining" ELSE grpc
    /\ UNCHANGED <<streamVars, alive, boots, rpcs, down, stalled>>

\* ... and httpHealth.Shutdown, whose requests are momentary.
Drained(s) ==
    /\ At(s, "drain", "close") /\ rpcs = NoRpcs
    /\ grpc' = "stopped" /\ down' = down \cup {"health"}
    /\ UNCHANGED <<streamVars, alive, boots, rpcs, stalled>>

\* Bridge.Shutdown closes the broker ...
BrokerCancel(s) ==
    /\ Up /\ stage[s] = "close" /\ ~cancelled /\ CloseCancel
    /\ UNCHANGED procVars

BrokerClose(s) ==
    /\ Up /\ stage[s] = "close" /\ cancelled /\ ~closed /\ CloseAll
    /\ UNCHANGED procVars

\* Mutant: Close does not wait for the poll goroutine.
BrokerWaitNot(s) ==
    /\ At(s, "close", "bridge") /\ closed
    /\ down' = down \cup {"listener"}
    /\ UNCHANGED <<streamVars, alive, boots, grpc, rpcs, stalled>>

\* ... waits for its goroutine, and closes the listener ...
BrokerWait(s) ==
    /\ At(s, "close", "bridge") /\ closed /\ poll.pc = "exit"
    /\ down' = down \cup {"listener"}
    /\ UNCHANGED <<streamVars, alive, boots, grpc, rpcs, stalled>>

\* ... and waits for the requests ...
StopBridge(s) ==
    /\ At(s, "bridge", "inner")
    /\ \A c \in Conns : conn[c].pc = "off"
    /\ down' = down \cup {"streams"}
    /\ UNCHANGED <<streamVars, alive, boots, grpc, rpcs, stalled>>

\* ... at most until the five seconds are over that it shares with
\* httpHealth.Shutdown; its result is ignored.
Deadline(s) ==
    /\ At(s, "bridge", "inner")
    /\ UNCHANGED <<streamVars, alive, boots, grpc, rpcs, down, stalled>>

\* executor.Shutdown, whose runs the cancelled context ends, then sv.Stop.
StopInner(s) ==
    /\ At(s, "inner", IF s = "restart" THEN "exec" ELSE "done")
    /\ down' = down \cup {"executor", "supervisor"}
    /\ UNCHANGED <<streamVars, alive, boots, grpc, rpcs, stalled>>

\* The end of the process is the end of every request and every goroutine:
\* only the clients' cursors are left, and the log if the store is Redis; the
\* MockStore that main wires goes too, and the next one numbers its events
\* from 1 again.  NewBroker and the constructors of main make the next state.
Gone(how) ==
    /\ Up /\ alive' = how
    /\ \/ UNCHANGED <<log, foreign>>
       \/ log' = 0 /\ foreign' = {c \in Conns : seen[c] # 0}
    /\ cursor' = 0 /\ cancelled' = FALSE /\ closed' = FALSE
    /\ poll' = [pc |-> "tick", to |-> 0] /\ subs' = {} /\ open' = {}
    /\ conn' = [c \in Conns |-> Idle]
    /\ chan' = [c \in Conns |-> <<>>] /\ out' = [c \in Conns |-> <<>>]
    /\ grpc' = "serving" /\ rpcs' = NoRpcs /\ down' = {} /\ stalled' = {}
    /\ stage' = [s \in Stoppers |-> "idle"]
    /\ UNCHANGED <<seen, budget, boots>>

\* StartGRPC returns when the server is stopped, and main with it.
MainReturns == grpc = "stopped" /\ Gone("returned")

\* syscall.Exec replaces the program.
Exec == "restart" \in Stoppers /\ stage["restart"] = "exec" /\ Gone("execed")

Kill == boots < MaxBoots /\ Gone("killed")

\* A new process: after Exec at once, otherwise when somebody starts it.
Boot ==
    /\ ~Up /\ boots < MaxBoots
    /\ alive' = "run" /\ boots' = boots + 1
    /\ UNCHANGED <<streamVars, grpc, rpcs, stage, down, stalled>>

\* A connection is accepted until http.Server.Shutdown has closed the listener.
Accept(c) ==
    /\ Up /\ "listener" \notin down /\ Connect(c) /\ UNCHANGED procVars

\* A client stops reading: there is no WriteTimeout, so that its request waits
\* in a write, a keepalive's at the latest, until it reads again or leaves.
Stall(c) ==
    /\ conn[c].pc \in {"backfill", "live"} /\ ~conn[c].gone /\ c \notin stalled
    /\ stalled' = stalled \cup {c}
    /\ UNCHANGED <<streamVars, alive, boots, grpc, rpcs, stage, down>>

Resume(c) ==
    /\ c \in stalled /\ stalled' = stalled \ {c}
    /\ UNCHANGED <<streamVars, alive, boots, grpc, rpcs, stage, down>>

Hangup(c) ==
    /\ Disconnect(c) /\ stalled' = stalled \ {c}
    /\ UNCHANGED <<alive, boots, grpc, rpcs, stage, down>>

Stop(s) ==
    \/ GracefulStop(s) \/ Drained(s) \/ BrokerCancel(s) \/ BrokerClose(s)
    \/ BrokerWait(s) \/ StopBridge(s) \/ Deadline(s) \/ StopInner(s)

Poll ==
    \/ PollRead /\ Up /\ UNCHANGED procVars
    \/ PollLock /\ UNCHANGED procVars
    \/ PollFan /\ UNCHANGED procVars
    \/ PollExit /\ UNCHANGED procVars

Serve(c) ==
    /\ c \notin stalled
    /\ \/ Subscribe(c) /\ UNCHANGED procVars
       \/ Backfill(c) /\ UNCHANGED procVars
       \/ BackfillEnd(c) /\ UNCHANGED procVars
       \/ Receive(c) /\ UNCHANGED procVars
       \/ Leave(c) /\ UNCHANGED procVars

ProcessNext ==
    \/ Publish /\ UNCHANGED procVars
    \/ Poll
    \/ \E c \in Conns :
          \/ Accept(c) \/ Serve(c)
          \/ c \notin stalled /\ BackfillError(c) /\ UNCHANGED procVars
          \/ Stall(c) \/ Resume(c) \/ Hangup(c)
    \/ \E k \in Kinds : RpcBegin(k) \/ RpcEnd(k)
    \/ Signal \/ RestartAdmin \/ Resolve
    \/ \E s \in Stoppers : Stop(s)
    \/ MainReturns \/ Exec \/ Kill \/ Boot

ProcessSpec == ProcessInit /\ [][ProcessNext]_allVars

\* Goroutines that can run do run; unary RPCs return.  Nothing is assumed of
\* the clients, which may keep a streaming RPC open or an event stream unread
\* for ever, of the store beyond its fault budget, of who starts processes, nor
\* of main, which may outlive the shutdown or not.
ProcessFairSpec ==
    /\ ProcessSpec
    /\ WF_allVars(Poll) /\ WF_allVars(RpcEnd("unary"))
    /\ \A c \in Conns : WF_allVars(Serve(c))
    /\ \A s \in Stoppers : WF_allVars(Stop(s) \/ (s = "restart" /\ (Resolve \/ Exec)))

-----------------------------------------------------------------------------
(* Properties *)

\* Every event published while a connection lasts is sent on it, unless its
\* client has stopped reading.
FeedCatchesUp ==
    \A c \in Conns : Feed!Pending(c) ~> ~Feed!Pending(c) \/ c \in stalled

\* gracefulShutdown comes to its end, whichever step it is at and whether the
\* clients of the event stream read or not, unless a streaming RPC is open:
\* closing the broker under its poll loop never waits for the streams, nor two
\* shutdowns for one another.  And the streams do end when the broker is closed,
\* the deadline left aside, except that of a client that does not read.
Stopping(s) == stage[s] \notin {"idle", "resolve", "done"}
Streaming == rpcs["stream"] > 0

EverythingStops ==
    /\ (\E s \in Stoppers : Stopping(s)) ~> (\A s \in Stoppers : ~Stopping(s)) \/ Streaming
    /\ \A c \in Conns :
          closed /\ conn[c].pc # "off" ~> conn[c].pc = "off" \/ c \in stalled

\* When the executor and the supervisor are stopped no RPC is open, no connection
\* can be made, the poll goroutine is gone and every channel closed ("drain
\* external-facing servers, then shut down internal components").  Only a stream
\* that was open before may be left, of a client that is slow or does not read,
\* with nothing more to come than what its buffer and the store hold; and a wait
\* for the streams that was not given up has left none.
DrainedInOrder ==
    /\ down \cap {"executor", "supervisor"} # {} =>
          /\ rpcs = NoRpcs /\ "listener" \in down
          /\ poll.pc = "exit" /\ open = {}
    /\ "streams" \in down => \A c \in Conns : conn[c].pc = "off"

\* handleRestartAdmin: the shutdown is "followed by a re-exec of the same
\* binary": a restart that has begun to stop things ends in Exec.
RestartReexecs ==
    [][alive = "run" /\ alive' = "returned" =>
          \A s \in Stoppers \cap {"restart"} : stage[s] \in {"idle", "resolve", "done"}]_alive
=============================================================================
