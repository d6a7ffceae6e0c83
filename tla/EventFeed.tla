----------------------------- MODULE EventFeed ------------------------------
(***************************************************************************)
(* What the event stream of the HTTP bridge promises a client: a           *)
(* connection opened with the cursor `ask' carries one uninterrupted run   *)
(* of the log, which starts no later than the event after `ask' and        *)
(* reaches every event published while the connection lasts.  The promise  *)
(* is at-least-once: a run may start before `ask'.  It is void for a       *)
(* connection whose buffer overflowed, whose replay failed, or whose       *)
(* cursor is of a log that is gone.                                        *)
(***************************************************************************)
EXTENDS Naturals, Sequences

CONSTANTS Conns

VARIABLES
    log,        \* the number of events published: they are 1 .. log
    feed        \* the connections

feedVars == <<log, feed>>

Closed == [st |-> "off", ask |-> 0, out |-> <<>>]
Void == [st |-> "void", ask |-> 0, out |-> <<>>]

Init == log = 0 /\ feed = [c \in Conns |-> Closed]

Publish == log' = log + 1 /\ UNCHANGED feed

Open(c) ==
    /\ feed[c] = Closed
    /\ \/ \E ask \in 0..log, st \in {"on", "ending"} :
             feed' = [feed EXCEPT ![c] = [st |-> st, ask |-> ask, out |-> <<>>]]
       \/ feed' = [feed EXCEPT ![c] = Void]
    /\ UNCHANGED log

\* The next events of the run: any number of them may be sent at once.
Deliver(c) ==
    /\ feed[c].st \in {"on", "ending"}
    /\ \E lo, hi \in 1..log :
          /\ lo <= hi
          /\ IF feed[c].out = <<>> THEN lo <= feed[c].ask + 1
             ELSE lo = feed[c].out[Len(feed[c].out)] + 1
          /\ feed' = [feed EXCEPT ![c].out =
                        @ \o [i \in 1..(hi - lo + 1) |-> lo + i - 1]]
    /\ UNCHANGED log

\* The client leaves or the server shuts down: what is buffered may follow.
End(c) ==
    /\ feed[c].st = "on" /\ feed' = [feed EXCEPT ![c].st = "ending"]
    /\ UNCHANGED log

Break(c) ==
    /\ feed[c].st \in {"on", "ending"} /\ feed' = [feed EXCEPT ![c] = Void]
    /\ UNCHANGED log

Shut(c) == feed' = [feed EXCEPT ![c] = Closed] /\ UNCHANGED log

\* The process ends: every connection with it, and the log unless it is kept.
ShutAll == feed' = [c \in Conns |-> Closed] /\ log' \in {log, 0}
EndAll ==
    /\ feed' = [c \in Conns |-> IF feed[c].st = "on"
                                THEN [feed[c] EXCEPT !.st = "ending"]
                                ELSE feed[c]]
    /\ UNCHANGED log
\* One fan-out may overflow the buffers of several connections.
BreakSome ==
    /\ \E B \in SUBSET Conns :
          feed' = [c \in Conns |-> IF c \in B /\ feed[c].st \in {"on", "ending"}
                                   THEN Void ELSE feed[c]]
    /\ UNCHANGED log

Next ==
    \/ Publish \/ ShutAll \/ EndAll \/ BreakSome
    \/ \E c \in Conns : Open(c) \/ Deliver(c) \/ End(c) \/ Break(c) \/ Shut(c)

Spec == Init /\ [][Next]_feedVars

\* A connection that stays up gets what it asked for: an event is pending
\* when it is after the client's cursor and not sent yet.
Pending(c) ==
    /\ feed[c].st = "on" /\ log > feed[c].ask
    /\ \A i \in 1..Len(feed[c].out) : feed[c].out[i] < log

=============================================================================
