------------------------------- MODULE Stream -------------------------------
(***************************************************************************)
(* The event stream of the HTTP bridge: the broker's poll goroutine, which *)
(* reads the store once for everybody and fans events out to buffered      *)
(* channels (broker.go), and one handleSSE request per connection, which   *)
(* replays from the client's cursor up to the broker's and then goes live  *)
(* (sse.go).  Events are numbered in the order the store holds them, a     *)
(* cursor is the number of the last event seen and 0 the beginning; the    *)
(* code compares cursors for equality only, the store alone orders them.   *)
(***************************************************************************)
EXTENDS Integers, Sequences, FiniteSets

CONSTANTS
    Conns,      \* the clients: each has at most one connection at a time
    MaxEvents,  \* bound on the events published
    MaxDials,   \* bound on the connections made
    Batch,      \* sseBatchSize
    BufSize,    \* bufSize: the capacity of a subscription's channel
    FillFaults  \* bound on the failed ReadEvents of a replay

ASSUME StreamAssumption ==
    /\ MaxEvents \in Nat /\ MaxDials \in Nat
    /\ Batch \in Nat \ {0} /\ BufSize \in Nat \ {0}
    /\ FillFaults \in Nat

VARIABLES
    log,        \* number of events in the store
    cursor,     \* Broker.cursor
    cancelled,  \* Broker.ctx is done
    closed,     \* Broker.closed
    poll,       \* the poll goroutine: where it is and the events it holds
    subs,       \* Broker.subs
    open,       \* subscriptions whose channel is not closed
    chan,       \* what each subscription's channel holds
    conn,       \* the handleSSE requests
    out,        \* what each connection has written
    seen,       \* the cursor each client would resume with
    foreign,    \* clients whose cursor numbers a log that is gone
    budget      \* remaining dials and faults

brokerVars == <<cursor, cancelled, closed, poll, subs, open>>
streamVars == <<log, brokerVars, chan, conn, out, seen, foreign, budget>>

Idle == [pc |-> "off", since |-> 0, cut |-> 0, last |-> 0, gate |-> 0,
         gone |-> FALSE, broken |-> FALSE]

StreamTypeOK ==
    /\ log \in 0..MaxEvents /\ cursor \in 0..log
    /\ cancelled \in BOOLEAN /\ closed \in BOOLEAN
    /\ poll \in [pc : {"tick", "read", "fan", "exit"}, to : 0..log]
    /\ subs \subseteq Conns /\ open \subseteq Conns
    /\ conn \in [Conns -> [pc : {"off", "subscribe", "backfill", "live"},
                           since : 0..MaxEvents, cut : 0..log,
                           last : 0..MaxEvents, gate : 0..log, gone : BOOLEAN, broken : BOOLEAN]]
    /\ \A c \in Conns : Len(chan[c]) <= BufSize /\ seen[c] \in 0..MaxEvents
    /\ foreign \subseteq Conns

StreamInit ==
    /\ log = 0 /\ cursor = 0 /\ cancelled = FALSE /\ closed = FALSE
    /\ poll = [pc |-> "tick", to |-> 0]
    /\ subs = {} /\ open = {}
    /\ chan = [c \in Conns |-> <<>>]
    /\ conn = [c \in Conns |-> Idle]
    /\ out = [c \in Conns |-> <<>>]
    /\ seen = [c \in Conns |-> 0] /\ foreign = {}
    /\ budget = [dials |-> MaxDials, fill |-> FillFaults]

Publish ==
    /\ log < MaxEvents /\ log' = log + 1
    /\ UNCHANGED <<brokerVars, chan, conn, out, seen, foreign, budget>>

\* ReadEvents: the last of the events returned after `from', at most Batch.
ReadUpTo(from) == IF from + Batch < log THEN from + Batch ELSE log
Run(lo, hi) == [i \in 1..(hi - lo + 1) |-> lo + i - 1]

-----------------------------------------------------------------------------
(* The broker *)

\* The lock b.mu is held from the first event of a batch to its last.
Unlocked == poll.pc # "fan"

\* Mutant: the tick waits for a full page.
PollReadFull ==
    /\ poll.pc = "tick" /\ ~cancelled
    /\ cursor + Batch <= log
    /\ poll' = [pc |-> "read", to |-> ReadUpTo(cursor)]
    /\ UNCHANGED <<log, cursor, cancelled, closed, subs, open, chan, conn, out,
                   seen, foreign, budget>>

\* A tick: snapshotCursor, then ReadEvents outside the lock.  A read that
\* fails or finds nothing changes nothing: the next tick tries again.
PollRead ==
    /\ poll.pc = "tick" /\ ~cancelled
    /\ ReadUpTo(cursor) > cursor
    /\ poll' = [pc |-> "read", to |-> ReadUpTo(cursor)]
    /\ UNCHANGED <<log, cursor, cancelled, closed, subs, open, chan, conn, out,
                   seen, foreign, budget>>

PollLock ==
    /\ poll.pc = "read" /\ poll' = [poll EXCEPT !.pc = "fan"]
    /\ UNCHANGED <<log, cursor, cancelled, closed, subs, open, chan, conn, out,
                   seen, foreign, budget>>

\* One event of the batch: a send that would block drops it.
Fits(c) == Len(chan[c]) < BufSize

PollFan ==
    /\ poll.pc = "fan"
    /\ cursor' = cursor + 1
    /\ chan' = [c \in Conns |-> IF c \in subs /\ Fits(c)
                                THEN Append(chan[c], cursor') ELSE chan[c]]
    /\ conn' = [c \in Conns |-> [conn[c] EXCEPT
                                    !.broken = @ \/ (c \in subs /\ ~Fits(c))]]
    /\ poll' = IF cursor' = poll.to THEN [poll EXCEPT !.pc = "tick"] ELSE poll
    /\ UNCHANGED <<log, cancelled, closed, subs, open, out, seen, foreign, budget>>

\* The loop looks at its context between ticks; a read that the context cut
\* short also ends here, at the next tick.
PollExit ==
    /\ poll.pc = "tick" /\ cancelled
    /\ poll' = [poll EXCEPT !.pc = "exit"]
    /\ UNCHANGED <<log, cursor, cancelled, closed, subs, open, chan, conn, out,
                   seen, foreign, budget>>

\* Close: cancel, then close every channel under the lock.
CloseCancel ==
    /\ cancelled' = TRUE
    /\ UNCHANGED <<log, cursor, closed, poll, subs, open, chan, conn, out,
                   seen, foreign, budget>>

CloseAll ==
    /\ Unlocked
    /\ closed' = TRUE /\ subs' = {} /\ open' = open \ subs
    /\ UNCHANGED <<log, cursor, cancelled, poll, chan, conn, out, seen, foreign, budget>>

-----------------------------------------------------------------------------
(* handleSSE *)

\* A request comes with no cursor, or with that of the last event it got.
Connect(c) ==
    /\ conn[c].pc = "off" /\ budget.dials > 0
    /\ budget' = [budget EXCEPT !.dials = @ - 1]
    /\ \E since \in {0, seen[c]} :
          conn' = [conn EXCEPT ![c] = [Idle EXCEPT !.pc = "subscribe",
                                !.since = since, !.last = since,
                                !.broken = since # 0 /\ c \in foreign]]
    /\ chan' = [chan EXCEPT ![c] = <<>>] /\ out' = [out EXCEPT ![c] = <<>>]
    /\ UNCHANGED <<log, brokerVars, seen, foreign>>

\* The replay is over (its locals are dead); a gate of 0 is no gate.
Live(c, gate, failed) ==
    [conn[c] EXCEPT !.pc = "live", !.cut = 0, !.last = 0, !.gate = gate,
                    !.broken = @ \/ failed]

\* Mutant: Subscribe does not look at b.closed.
SubscribeClosed(c) ==
    /\ conn[c].pc = "subscribe" /\ Unlocked
    /\ subs' = subs \cup {c} /\ open' = open \cup {c}
    /\ conn' = [conn EXCEPT ![c] = IF @.since = cursor THEN Live(c, 0, FALSE)
                                   ELSE [@ EXCEPT !.pc = "backfill",
                                                  !.cut = cursor]]
    /\ UNCHANGED <<log, cursor, cancelled, closed, poll, chan, out, seen, foreign, budget>>

\* The cut is taken with the insertion, under the lock.  A closed broker
\* hands back a closed channel.  foundCut is the choice of the next phase.
Subscribe(c) ==
    /\ conn[c].pc = "subscribe" /\ Unlocked
    /\ IF closed THEN UNCHANGED <<subs, open>>
       ELSE subs' = subs \cup {c} /\ open' = open \cup {c}
    /\ conn' = [conn EXCEPT ![c] = IF @.since = cursor THEN Live(c, 0, FALSE)
                                   ELSE [@ EXCEPT !.pc = "backfill",
                                                  !.cut = cursor]]
    /\ UNCHANGED <<log, cursor, cancelled, closed, poll, chan, out, seen, foreign, budget>>

\* writeSSEEvent: a client that has left no longer takes note.
Write(c, events) ==
    /\ out' = [out EXCEPT ![c] = @ \o events]
    /\ seen' = [seen EXCEPT ![c] = IF conn[c].gone \/ events = <<>> THEN @
                                   ELSE events[Len(events)]]
    /\ foreign' = IF conn[c].gone THEN foreign ELSE foreign \ {c}

\* Mutant: a page is written to its end although the cut is in it.
BackfillPast(c) ==
    /\ conn[c].pc = "backfill"
    /\ LET page == (conn[c].last + 1)..ReadUpTo(conn[c].last)
           found == conn[c].cut \in page
           to == ReadUpTo(conn[c].last)
       IN /\ page # {}
          /\ Write(c, Run(conn[c].last + 1, to))
          /\ conn' = [conn EXCEPT ![c] = IF found THEN Live(c, 0, FALSE)
                                         ELSE [@ EXCEPT !.last = to]]
    /\ UNCHANGED <<log, brokerVars, chan, budget>>

\* One page of the replay, up to the cut if the page has it.
Backfill(c) ==
    /\ conn[c].pc = "backfill"
    /\ LET page == (conn[c].last + 1)..ReadUpTo(conn[c].last)
           found == conn[c].cut \in page
           to == IF found THEN conn[c].cut ELSE ReadUpTo(conn[c].last)
       IN /\ page # {}
          /\ Write(c, Run(conn[c].last + 1, to))
          /\ conn' = [conn EXCEPT ![c] = IF found THEN Live(c, 0, FALSE)
                                         ELSE [@ EXCEPT !.last = to]]
    /\ UNCHANGED <<log, brokerVars, chan, budget>>

\* Mutant: no gate.
GateNever(c) == 0

\* The replay ends without having met the cut: live delivery is gated when
\* something was replayed.
Gate(c) == IF conn[c].since # 0 /\ conn[c].last # conn[c].since
           THEN conn[c].last ELSE 0

BackfillEnd(c) ==
    /\ conn[c].pc = "backfill" /\ conn[c].last >= log
    /\ conn' = [conn EXCEPT ![c] = Live(c, Gate(c), FALSE)]
    /\ UNCHANGED <<log, brokerVars, chan, out, seen, foreign, budget>>

\* A failed read ends the replay in the same way (`break').
BackfillError(c) ==
    /\ conn[c].pc = "backfill"
    /\ \/ conn[c].gone /\ UNCHANGED budget
       \/ budget.fill > 0 /\ budget' = [budget EXCEPT !.fill = @ - 1]
    /\ conn' = [conn EXCEPT ![c] = Live(c, Gate(c), TRUE)]
    /\ UNCHANGED <<log, brokerVars, chan, out, seen, foreign>>

Receive(c) ==
    /\ conn[c].pc = "live" /\ chan[c] # <<>>
    /\ chan' = [chan EXCEPT ![c] = Tail(@)]
    /\ IF conn[c].gate # 0
       THEN /\ conn' = [conn EXCEPT ![c].gate =
                            IF Head(chan[c]) = @ THEN 0 ELSE @]
            /\ UNCHANGED <<out, seen, foreign>>
       ELSE Write(c, <<Head(chan[c])>>) /\ UNCHANGED conn
    /\ UNCHANGED <<log, brokerVars, budget>>

\* The client goes away: the request's context is done.
Disconnect(c) ==
    /\ conn[c].pc # "off" /\ ~conn[c].gone
    /\ conn' = [conn EXCEPT ![c].gone = TRUE]
    /\ UNCHANGED <<log, brokerVars, chan, out, seen, foreign, budget>>

\* Mutant: Unsubscribe closes the channel and leaves it in the map.
LeaveListed(c) ==
    /\ conn[c].pc = "live" /\ Unlocked
    /\ conn[c].gone \/ (chan[c] = <<>> /\ c \notin open)
    /\ open' = IF c \in subs THEN open \ {c} ELSE open
    /\ conn' = [conn EXCEPT ![c] = Idle]
    /\ chan' = [chan EXCEPT ![c] = <<>>] /\ out' = [out EXCEPT ![c] = <<>>]
    /\ UNCHANGED <<log, cursor, cancelled, closed, poll, subs, seen, foreign, budget>>

\* The request returns, on its context or on a drained closed channel, and
\* its deferred Unsubscribe runs under the lock.
Leave(c) ==
    /\ conn[c].pc = "live" /\ Unlocked
    /\ conn[c].gone \/ (chan[c] = <<>> /\ c \notin open)
    /\ subs' = subs \ {c}
    /\ open' = IF c \in subs THEN open \ {c} ELSE open
    /\ conn' = [conn EXCEPT ![c] = Idle]
    /\ chan' = [chan EXCEPT ![c] = <<>>] /\ out' = [out EXCEPT ![c] = <<>>]
    /\ UNCHANGED <<log, cursor, cancelled, closed, poll, seen, foreign, budget>>

-----------------------------------------------------------------------------
(* Properties *)

\* "The poll loop can never hold a reference to sub.ch while it is being (or
\* has been) closed": whoever is in the fan-out set has an open channel, and
\* whoever has an open channel is still in the set, so Close reaches it.
FanOutSafe == subs = open

\* Whatever was dropped, failed or replayed, a connection never writes an
\* event twice nor out of order: the seam between replay and live delivery,
\* found by equality of cursors only, holds under every schedule.
InOrder ==
    \A c \in Conns : \A i \in 1..(Len(out[c]) - 1) : out[c][i] < out[c][i + 1]

\* The connections as the abstract feed sees them.
FeedOf ==
    [c \in Conns |->
        IF conn[c].pc = "off" THEN [st |-> "off", ask |-> 0, out |-> <<>>]
        ELSE IF conn[c].broken THEN [st |-> "void", ask |-> 0, out |-> <<>>]
        ELSE [st |-> IF conn[c].gone \/ cancelled THEN "ending" ELSE "on",
              ask |-> conn[c].since, out |-> out[c]]]

Feed == INSTANCE EventFeed WITH feed <- FeedOf

\* The broker and its connections implement the feed: one uninterrupted run
\* of the log per connection, from no later than the client's cursor.
KeepsFeed == Feed!Spec
=============================================================================
