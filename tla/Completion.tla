----------------------------- MODULE Completion -----------------------------
(***************************************************************************)
(* The completion registry and the goroutines that wait on it.             *)
(*                                                                         *)
(* BlockingSubmitter.SubmitTask enqueues a task, waits until the registry  *)
(* hears of its completion or its context is cancelled, and cleans up.     *)
(* The supervisor and the bridge call Complete once for every execution of *)
(* a task they finish or drop (module Supervisor); here those executions   *)
(* are only counted.  Every step is one critical section of the registry's *)
(* mutex, one store call or one channel operation.                         *)
(*                                                                         *)
(* Times are kept as far as the sweep tells them apart: "young" is less    *)
(* than tombstoneTTL ago, "old" is not.                                    *)
(***************************************************************************)
EXTENDS Integers

CONSTANTS
    Tasks,          \* task IDs
    Submitters,     \* goroutines, each of which makes one SubmitTask call
    TaskOf,         \* the task ID each of them submits
    Chans,          \* channels
    NoChan,         \* no map entry, nil channel
    StoreMayFail    \* EnqueueTask may return an error

ASSUME CompletionAssumption ==
    /\ TaskOf \in [Submitters -> Tasks]
    /\ NoChan \notin Chans
    /\ StoreMayFail \in BOOLEAN

VARIABLES
    waiters,        \* the channel registered for each task
    closed,         \* channels that have been closed
    cleaned,        \* tombstones
    completed,      \* timestamps of channels planted before any Wait
    sub,            \* the locals of the SubmitTask calls
    cancelled,      \* submitters whose context is done
    work            \* executions of a task queued or with an agent

registryVars == <<waiters, closed, cleaned, completed>>
cvars == <<registryVars, sub, cancelled, work>>

Stamp  == {"none", "young", "old"}
SubPC  == {"idle", "wait", "select", "cleanup", "done"}
SubRec == [pc: SubPC, ch: Chans \cup {NoChan}, res: {"none", "nil", "err"}]

CompletionTypeOK ==
    /\ waiters \in [Tasks -> Chans \cup {NoChan}]
    /\ closed \subseteq Chans
    /\ cleaned \in [Tasks -> Stamp]
    /\ completed \in [Tasks -> Stamp]
    /\ sub \in [Submitters -> SubRec]
    /\ cancelled \subseteq Submitters
    /\ work \in [Tasks -> Nat]

CompletionInit ==
    /\ waiters = [t \in Tasks |-> NoChan]
    /\ closed = {}
    /\ cleaned = [t \in Tasks |-> "none"]
    /\ completed = [t \in Tasks |-> "none"]
    /\ sub = [s \in Submitters |-> [pc |-> "idle", ch |-> NoChan,
                                    res |-> "none"]]
    /\ cancelled = {}
    /\ work = [t \in Tasks |-> 0]

-----------------------------------------------------------------------------
(* Channels *)

\* Channels reachable from the registry or from a goroutine.
InUse == {waiters[t] : t \in Tasks} \cup {sub[s].ch : s \in Submitters}

\* make(chan struct{}): a channel nobody refers to; which one is immaterial.
MakeChan(c) == /\ c \in Chans \ InUse
               /\ c = CHOOSE d \in Chans \ InUse : TRUE

-----------------------------------------------------------------------------
(* BlockingSubmitter.SubmitTask *)

Enqueue(s) ==
    /\ sub[s].pc = "idle"
    /\ \/ /\ work' = [work EXCEPT ![TaskOf[s]] = @ + 1]
          /\ sub' = [sub EXCEPT ![s] = [@ EXCEPT !.pc = "wait"]]
       \/ /\ StoreMayFail
          /\ sub' = [sub EXCEPT ![s] = [@ EXCEPT !.pc = "done",
                                                 !.res = "err"]]
          /\ UNCHANGED work
    /\ UNCHANGED <<registryVars, cancelled>>

\* Wait up to the select: the registered channel, or a new one; this claims a
\* channel that Complete planted, and ends the life of a tombstone.
Wait(s) ==
    /\ sub[s].pc = "wait"
    /\ LET t == TaskOf[s]
       IN /\ cleaned' = [cleaned EXCEPT ![t] = "none"]
          /\ completed' = [completed EXCEPT ![t] = "none"]
          /\ \/ /\ waiters[t] # NoChan
                /\ sub' = [sub EXCEPT ![s] = [@ EXCEPT !.pc = "select",
                                                       !.ch = waiters[t]]]
                /\ UNCHANGED <<waiters, closed>>
             \/ /\ waiters[t] = NoChan
                /\ \E c \in Chans :
                      /\ MakeChan(c)
                      /\ waiters' = [waiters EXCEPT ![t] = c]
                      /\ closed' = closed \ {c}
                      /\ sub' = [sub EXCEPT ![s] = [@ EXCEPT !.pc = "select",
                                                             !.ch = c]]
    /\ UNCHANGED <<cancelled, work>>

\* Mutant: the context's error is not returned.
SelectNoError(s) ==
    /\ sub[s].pc = "select"
    /\ sub[s].ch \in closed \/ s \in cancelled
    /\ sub' = [sub EXCEPT ![s] = [@ EXCEPT !.pc = "cleanup",
                                                 !.res = "nil"]]
    /\ UNCHANGED <<registryVars, cancelled, work>>

\* Mutant: Wait ignores its context.
SelectNoCtx(s) ==
    /\ sub[s].pc = "select"
    /\ sub[s].ch \in closed
    /\ sub' = [sub EXCEPT ![s] = [@ EXCEPT !.pc = "cleanup",
                                                 !.res = "nil"]]
    /\ UNCHANGED <<registryVars, cancelled, work>>

\* With both cases ready the select takes either.
Select(s) ==
    /\ sub[s].pc = "select"
    /\ \/ /\ sub[s].ch \in closed
          /\ sub' = [sub EXCEPT ![s] = [@ EXCEPT !.pc = "cleanup",
                                                 !.res = "nil"]]
       \/ /\ s \in cancelled
          /\ sub' = [sub EXCEPT ![s] = [@ EXCEPT !.pc = "cleanup",
                                                 !.res = "err"]]
    /\ UNCHANGED <<registryVars, cancelled, work>>

\* Cleanup, after either outcome; the channel goes out of scope.
Cleanup(s) ==
    /\ sub[s].pc = "cleanup"
    /\ LET t == TaskOf[s]
       IN /\ waiters' = [waiters EXCEPT ![t] = NoChan]
          /\ completed' = [completed EXCEPT ![t] = "none"]
          /\ cleaned' = [cleaned EXCEPT ![t] = "young"]
    /\ sub' = [sub EXCEPT ![s] = [@ EXCEPT !.pc = "done", !.ch = NoChan]]
    /\ UNCHANGED <<closed, cancelled, work>>

SubmitTask(s) == Enqueue(s) \/ Wait(s) \/ Select(s) \/ Cleanup(s)

-----------------------------------------------------------------------------
(* The registry's other callers *)

\* Mutant: no channel is planted for a Wait that is still to come.
CompleteWaitersOnly(t) ==
    /\ work[t] > 0
    /\ work' = [work EXCEPT ![t] = @ - 1]
    /\ closed' = closed \cup ({waiters[t]} \ {NoChan})
    /\ UNCHANGED <<waiters, cleaned, completed, sub, cancelled>>

\* Complete, when an execution of t is over.  A tombstone is consumed;
\* otherwise t's channel is closed, and planted if there is none.
Complete(t) ==
    /\ work[t] > 0
    /\ work' = [work EXCEPT ![t] = @ - 1]
    /\ \/ /\ cleaned[t] # "none"
          /\ cleaned' = [cleaned EXCEPT ![t] = "none"]
          /\ UNCHANGED <<waiters, closed, completed>>
       \/ /\ cleaned[t] = "none"
          /\ \/ /\ waiters[t] # NoChan
                /\ closed' = closed \cup {waiters[t]}
                /\ UNCHANGED <<waiters, completed>>
             \/ /\ waiters[t] = NoChan
                /\ \E c \in Chans :
                      /\ MakeChan(c)
                      /\ waiters' = [waiters EXCEPT ![t] = c]
                      /\ closed' = closed \cup {c}
                /\ completed' = [completed EXCEPT ![t] = "young"]
          /\ UNCHANGED cleaned
    /\ UNCHANGED <<sub, cancelled>>

\* tombstoneTTL has passed for a tombstone, or for a planted channel.  A
\* goroutine gets from EnqueueTask to Wait in less than that (two lines).
Age(t) ==
    /\ \/ /\ cleaned[t] = "young"
          /\ cleaned' = [cleaned EXCEPT ![t] = "old"]
          /\ UNCHANGED completed
       \/ /\ completed[t] = "young"
          /\ \A s \in Submitters : TaskOf[s] = t => sub[s].pc # "wait"
          /\ completed' = [completed EXCEPT ![t] = "old"]
          /\ UNCHANGED cleaned
    /\ UNCHANGED <<waiters, closed, sub, cancelled, work>>

\* Mutant: the sweep before #83, which left planted channels in the map.
SweepTombstones ==
    /\ cleaned' = [t \in Tasks |-> IF cleaned[t] = "old" THEN "none"
                                                         ELSE cleaned[t]]
    /\ UNCHANGED <<waiters, closed, completed, sub, cancelled, work>>

\* One tick of the reaper.
SweepOnce ==
    /\ cleaned' = [t \in Tasks |-> IF cleaned[t] = "old" THEN "none"
                                                         ELSE cleaned[t]]
    /\ completed' = [t \in Tasks |-> IF completed[t] = "old" THEN "none"
                                                             ELSE completed[t]]
    /\ waiters' = [t \in Tasks |-> IF completed[t] = "old" THEN NoChan
                                                           ELSE waiters[t]]
    /\ UNCHANGED <<closed, sub, cancelled, work>>

\* The context that the submitters in S share is cancelled.
CtxDone(S) ==
    /\ cancelled' = cancelled \cup S
    /\ UNCHANGED <<registryVars, sub, work>>

-----------------------------------------------------------------------------
CompletionNext ==
    \/ \E s \in Submitters : SubmitTask(s)
    \/ \E S \in SUBSET Submitters : CtxDone(S)
    \/ \E t \in Tasks : Complete(t) \/ Age(t)
    \/ SweepOnce

CompletionSpec == CompletionInit /\ [][CompletionNext]_cvars

-----------------------------------------------------------------------------
(* Properties, for task IDs that are not used twice. *)

UniqueTaskIDs == \A r, s \in Submitters : TaskOf[r] = TaskOf[s] => r = s

\* Different tasks have different channels.
OwnChannels ==
    \A t, u \in Tasks : waiters[t] # NoChan /\ waiters[t] = waiters[u] => t = u

\* What a SubmitTask call can rely on at each of its steps.
Signalled(s) ==
    LET t == TaskOf[s]
    IN /\ sub[s].pc = "idle" =>
             /\ work[t] = 0 /\ waiters[t] = NoChan
             /\ cleaned[t] = "none" /\ completed[t] = "none"
       /\ sub[s].pc = "wait" =>
             /\ cleaned[t] = "none" /\ completed[t] # "old"
             /\ \/ work[t] = 1 /\ waiters[t] = NoChan
                \/ work[t] = 0 /\ waiters[t] \in closed
       /\ sub[s].pc = "select" =>
             /\ cleaned[t] = "none" /\ completed[t] = "none"
             /\ waiters[t] \in Chans /\ sub[s].ch = waiters[t]
             /\ \/ work[t] = 1 /\ waiters[t] \notin closed
                \/ work[t] = 0 /\ waiters[t] \in closed
       /\ sub[s].pc \in {"idle", "wait", "select"} => sub[s].res = "none"
       /\ sub[s].res = "nil" => work[t] = 0

\* A goroutine that waits can still be woken: as long as its channel is open,
\* the execution it waits for is not over.  No order of enqueue, completion,
\* wait and sweep loses the signal.
NoStrandedWaiter ==
    \A s \in Submitters :
        sub[s].pc = "select" /\ sub[s].ch \notin closed => work[TaskOf[s]] > 0

\* SubmitTask returns nil only when the execution it enqueued is over: no
\* planted, reused or swept channel wakes a waiter too early.
NilMeansDone ==
    \A s \in Submitters : sub[s].res = "nil" => work[TaskOf[s]] = 0
=============================================================================
