--------------------------- MODULE StoreContract ----------------------------
(***************************************************************************)
(* What the interface StateStore promises of the task queue and of the     *)
(* consumer groups, whatever keeps them: "lower score dequeues first", and *)
(* "competing consumers in the same group each receive distinct events".   *)
(* An ID that is enqueued while it waits may wait twice (the in-memory     *)
(* store) or take its new priority (a Redis sorted set).                   *)
(***************************************************************************)
EXTENDS Integers

CONSTANTS Tasks, Prios, Consumers

VARIABLES
    queue,      \* how often each entry, a task with its priority, waits
    handed,     \* the entries dequeued last: none or one
    log,        \* the number of events published
    pos,        \* the events up to this one were delivered to the group
    inbox       \* the events delivered to each consumer

contractVars == <<queue, handed, log, pos, inbox>>

Entries == Tasks \X Prios
Waiting == {e \in Entries : queue[e] > 0}

Init ==
    /\ queue = [e \in Entries |-> 0] /\ handed = {}
    /\ log = 0 /\ pos = 0 /\ inbox = [c \in Consumers |-> {}]

Enqueue(e) ==
    /\ queue' \in {[queue EXCEPT ![e] = @ + 1],
                   [f \in Entries |-> IF f[1] # e[1] THEN queue[f]
                                      ELSE IF f = e THEN 1 ELSE 0]}
    /\ UNCHANGED <<handed, log, pos, inbox>>

Dequeue(e) ==
    /\ e \in Waiting /\ \A f \in Waiting : e[2] <= f[2]
    /\ queue' = [queue EXCEPT ![e] = @ - 1] /\ handed' = {e}
    /\ UNCHANGED <<log, pos, inbox>>

Publish ==
    log' = log + 1 /\ UNCHANGED <<queue, handed, pos, inbox>>

\* A group is made once, for the log from its beginning or for what is to come.
Create ==
    /\ pos = 0 /\ pos' \in {0, log} /\ inbox = [c \in Consumers |-> {}]
    /\ UNCHANGED <<queue, handed, log, inbox>>

Deliver(c) ==
    /\ pos' \in (pos + 1)..log
    /\ inbox' = [inbox EXCEPT ![c] = @ \cup ((pos + 1)..pos')]
    /\ UNCHANGED <<queue, handed, log>>

Next ==
    \/ \E e \in Entries : Enqueue(e) \/ Dequeue(e)
    \/ Publish \/ Create
    \/ \E c \in Consumers : Deliver(c)

Spec == Init /\ [][Next]_contractVars
=============================================================================
