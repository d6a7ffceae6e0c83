---------------------------- MODULE StreamProofs ----------------------------
(***************************************************************************)
(* Proofs about the event stream inside its process, for any number of     *)
(* clients, events, connections, processes and failures, any batch and     *)
(* buffer: no send on a closed channel, no event twice or out of order on  *)
(* a connection, nothing behind the servers stopped before they are        *)
(* drained, and the promise of the feed (EventFeed) kept.                  *)
(*                                                                         *)
(* The order rests on where a connection joins live delivery: what it has  *)
(* written lies at or below a point of the log, and what it may still      *)
(* write lies above.  While it replays, that point is the cut (Replaying); *)
(* afterwards it is some event up to the broker's cursor, or the gate,     *)
(* below which everything received is passed over (Seam).                  *)
(*                                                                         *)
(* In gracefulShutdown a signal and a restart may be at different stages   *)
(* at once, so nothing can be read off the stage of one of them.  The      *)
(* invariant says what has become final when some stopper is past a stage  *)
(* (Drains): no later step of the other one, of the broker or of a client  *)
(* undoes it.                                                              *)
(*                                                                         *)
(* That the feed has no hole needs more than the order: the channel of a   *)
(* connection that is not broken holds all the events after some point a   *)
(* (Carries), and what was written ends at a, or at a gate that is among   *)
(* them (Joins).  The case the code leaves to equality of cursors is the   *)
(* replay that runs out of log without having met the cut: it must then    *)
(* have started behind it, since the broker reads no further than the log  *)
(* (GateFeed).                                                             *)
(***************************************************************************)
EXTENDS Process, SequenceTheorems, TLAPS

Rising(s) == \A i, j \in 1..Len(s) : i < j => s[i] < s[j]
Below(s, n) == \A i \in 1..Len(s) : s[i] <= n
Above(s, n) == \A i \in 1..Len(s) : n < s[i]

-----------------------------------------------------------------------------
(* Rising sequences *)

\* The empty sequence is rising, and lies above and below everything.
LEMMA EmptyRising ==
  ASSUME NEW n
  PROVE  /\ <<>> \in Seq(Nat) /\ Rising(<<>>)
         /\ Below(<<>>, n) /\ Above(<<>>, n)
BY EmptySeq DEF Rising, Below, Above

\* A sequence that lies below n, and one above it, make one that rises.
LEMMA JoinRising ==
  ASSUME NEW s \in Seq(Nat), NEW t \in Seq(Nat), NEW n \in Nat,
         Rising(s), Rising(t), Below(s, n), Above(t, n)
  PROVE  s \o t \in Seq(Nat) /\ Rising(s \o t)
<1> DEFINE u == s \o t
<1>1. /\ u \in Seq(Nat) /\ Len(u) = Len(s) + Len(t)
      /\ \A i \in 1..Len(s) + Len(t) :
            u[i] = IF i <= Len(s) THEN s[i] ELSE t[i - Len(s)]
  BY ConcatProperties
<1>2. Len(s) \in Nat /\ Len(t) \in Nat
  BY LenProperties
<1> HIDE DEF u
<1>3. ASSUME NEW i \in 1..Len(u), NEW j \in 1..Len(u), i < j PROVE u[i] < u[j]
  <2>1. CASE j <= Len(s)
    <3>1. i \in 1..Len(s) /\ j \in 1..Len(s) /\ u[i] = s[i] /\ u[j] = s[j]
      BY <1>1, <1>2, <1>3, <2>1
    <3> QED
      BY <3>1, <1>3 DEF Rising
  <2>2. CASE i <= Len(s) /\ ~(j <= Len(s))
    <3>1. /\ i \in 1..Len(s) /\ j - Len(s) \in 1..Len(t)
          /\ u[i] = s[i] /\ u[j] = t[j - Len(s)]
      BY <1>1, <1>2, <1>3, <2>2
    <3>2. s[i] \in Nat /\ t[j - Len(s)] \in Nat
      BY <3>1, ElementOfSeq
    <3>3. s[i] <= n /\ n < t[j - Len(s)]
      BY <3>1 DEF Below, Above
    <3>4. s[i] < t[j - Len(s)]
      BY <3>2, <3>3
    <3> QED
      BY <3>1, <3>4
  <2>3. CASE ~(i <= Len(s))
    <3>i. /\ i \in Nat /\ j \in Nat /\ i <= Len(s) + Len(t) /\ j <= Len(s) + Len(t)
          /\ Len(s) < i /\ i < j
      BY <1>1, <1>2, <1>3, <2>3
    <3>0. /\ i - Len(s) \in 1..Len(t) /\ j - Len(s) \in 1..Len(t)
          /\ i - Len(s) < j - Len(s) /\ ~(j <= Len(s))
      BY <1>2, <3>i
    <3>1. u[i] = t[i - Len(s)] /\ u[j] = t[j - Len(s)]
      BY <1>1, <1>2, <2>3, <3>0
    <3> QED
      BY <3>0, <3>1 DEF Rising
  <2> QED
    BY <2>1, <2>2, <2>3
<1> QED
  BY <1>1, <1>3 DEF Rising, u

\* A sequence below n stays below n when another one below n is joined to it.
LEMMA JoinBelow ==
  ASSUME NEW s \in Seq(Nat), NEW t \in Seq(Nat), NEW n \in Nat,
         Below(s, n), Below(t, n)
  PROVE  Below(s \o t, n)
<1> DEFINE u == s \o t
<1>1. /\ Len(u) = Len(s) + Len(t)
      /\ \A i \in 1..Len(s) + Len(t) :
            u[i] = IF i <= Len(s) THEN s[i] ELSE t[i - Len(s)]
  BY ConcatProperties
<1>2. Len(s) \in Nat /\ Len(t) \in Nat
  BY LenProperties
<1> HIDE DEF u
<1>3. ASSUME NEW i \in 1..Len(u) PROVE u[i] <= n
  <2>1. CASE i <= Len(s)
    BY <2>1, <1>1, <1>2 DEF Below
  <2>2. CASE ~(i <= Len(s))
    <3>1. i - Len(s) \in 1..Len(t) /\ u[i] = t[i - Len(s)]
      BY <2>2, <1>1, <1>2
    <3> QED
      BY <3>1 DEF Below
  <2> QED
    BY <2>1, <2>2
<1> QED
  BY <1>3 DEF Below, u

\* A sequence below m is below every n from m on.
LEMMA LooseBelow ==
  ASSUME NEW s \in Seq(Nat), NEW m \in Nat, NEW n \in Nat, m <= n, Below(s, m)
  PROVE  Below(s, n)
<1> SUFFICES ASSUME NEW i \in 1..Len(s) PROVE s[i] <= n
  BY DEF Below
<1>1. s[i] \in Nat /\ s[i] <= m
  BY ElementOfSeq DEF Below
<1> QED
  BY <1>1

\* One element: what Receive writes and what the fan-out sends.
LEMMA OneRising ==
  ASSUME NEW m \in Nat
  PROVE  /\ <<m>> \in Seq(Nat) /\ Rising(<<m>>) /\ Below(<<m>>, m)
         /\ \A n \in Nat : n < m => Above(<<m>>, n)
BY DEF Rising, Below, Above

\* A sequence above n stays above n when an element above n is appended.
LEMMA AppendAbove ==
  ASSUME NEW s \in Seq(Nat), NEW m \in Nat, NEW n \in Nat, n < m, Above(s, n)
  PROVE  Above(Append(s, m), n)
<1>1. Len(Append(s, m)) = Len(s) + 1 /\ Len(s) \in Nat
  BY LenProperties
<1>2. \A i \in 1..Len(s) + 1 : Append(s, m)[i] = IF i = Len(s) + 1 THEN m ELSE s[i]
  BY AppendProperties
<1> QED
  BY <1>1, <1>2 DEF Above

\* The fan-out appends the next event of the log.
LEMMA AppendRising ==
  ASSUME NEW s \in Seq(Nat), NEW m \in Nat, NEW n \in Nat, n < m,
         Rising(s), Below(s, n)
  PROVE  /\ Append(s, m) \in Seq(Nat) /\ Rising(Append(s, m))
         /\ Below(Append(s, m), m)
<1>1. /\ Append(s, m) \in Seq(Nat)
      /\ Len(Append(s, m)) = Len(s) + 1 /\ Len(s) \in Nat
      /\ \A i \in 1..Len(s) + 1 : Append(s, m)[i] = IF i = Len(s) + 1 THEN m ELSE s[i]
  BY AppendProperties, LenProperties
<1>2. \A i \in 1..Len(s) : s[i] \in Nat /\ s[i] <= n
  BY ElementOfSeq DEF Below
<1>3. Rising(Append(s, m))
  <2> SUFFICES ASSUME NEW i \in 1..Len(s) + 1, NEW j \in 1..Len(s) + 1, i < j
               PROVE  Append(s, m)[i] < Append(s, m)[j]
    BY <1>1 DEF Rising
  <2>1. i \in 1..Len(s) /\ Append(s, m)[i] = s[i] /\ s[i] <= n
    BY <1>1, <1>2
  <2>2. CASE j = Len(s) + 1
    BY <1>1, <1>2, <2>1, <2>2
  <2>3. CASE j \in 1..Len(s)
    BY <1>1, <2>1, <2>3 DEF Rising
  <2> QED
    BY <1>1, <2>2, <2>3
<1>4. Below(Append(s, m), m)
  BY <1>1, <1>2 DEF Below
<1> QED
  BY <1>1, <1>3, <1>4

\* Receive takes the head, below everything that is left.
LEMMA TailRising ==
  ASSUME NEW s \in Seq(Nat), s # <<>>, Rising(s)
  PROVE  /\ Head(s) \in Nat /\ Tail(s) \in Seq(Nat)
         /\ Rising(Tail(s)) /\ Above(Tail(s), Head(s))
         /\ \A n \in Nat : Below(s, n) => Below(Tail(s), n) /\ Head(s) <= n
         /\ \A n \in Nat : Above(s, n) => Above(Tail(s), n) /\ n < Head(s)
<1>1. /\ Head(s) \in Nat /\ Tail(s) \in Seq(Nat)
      /\ Len(Tail(s)) = Len(s) - 1
      /\ \A i \in 1..Len(Tail(s)) : Tail(s)[i] = s[i + 1]
  BY HeadTailProperties
<1>2. Len(s) \in Nat \ {0} /\ Head(s) = s[1]
  BY EmptySeq
<1>3. Rising(Tail(s))
  BY <1>1, <1>2 DEF Rising
<1>4. Above(Tail(s), Head(s))
  BY <1>1, <1>2 DEF Rising, Above
<1>5. \A n \in Nat : Below(s, n) => Below(Tail(s), n) /\ Head(s) <= n
  BY <1>1, <1>2 DEF Below
<1>6. \A n \in Nat : Above(s, n) => Above(Tail(s), n) /\ n < Head(s)
  BY <1>1, <1>2 DEF Above
<1> QED
  BY <1>1, <1>3, <1>4, <1>5, <1>6

\* A page of the replay.
LEMMA RunRising ==
  ASSUME NEW lo \in Nat, NEW hi \in Nat, lo < hi
  PROVE  /\ Run(lo + 1, hi) \in Seq(Nat) /\ Rising(Run(lo + 1, hi))
         /\ Above(Run(lo + 1, hi), lo) /\ Below(Run(lo + 1, hi), hi)
         /\ Run(lo + 1, hi) # <<>>
         /\ Run(lo + 1, hi)[Len(Run(lo + 1, hi))] \in Nat
<1> DEFINE u == [i \in 1..(hi - lo) |-> lo + i]
<1>1. Run(lo + 1, hi) = u
  BY DEF Run
<1>2. u \in Seq(Nat) /\ Len(u) = hi - lo
  OBVIOUS
<1>3. \A i \in 1..Len(u) : u[i] = lo + i
  BY <1>2
<1> HIDE DEF u
<1>4. Len(u) \in 1..Len(u) /\ u # <<>>
  BY <1>2, EmptySeq
<1>5. Rising(u)
  BY <1>2, <1>3 DEF Rising
<1>6. Above(u, lo) /\ Below(u, hi)
  BY <1>2, <1>3 DEF Above, Below
<1>7. u[Len(u)] \in Nat
  BY <1>2, <1>4, ElementOfSeq
<1> QED
  BY <1>1, <1>2, <1>4, <1>5, <1>6, <1>7

-----------------------------------------------------------------------------
(* The invariant *)

ConnRec == [pc : {"off", "subscribe", "backfill", "live"}, since : Nat, cut : Nat,
            last : Nat, gate : Nat, gone : BOOLEAN, broken : BOOLEAN]

StreamTypes ==
    /\ log \in Nat /\ cursor \in Nat
    /\ chan \in [Conns -> Seq(Nat)] /\ out \in [Conns -> Seq(Nat)]
    /\ seen \in [Conns -> Nat] /\ conn \in [Conns -> ConnRec]

\* A replay is below its last page, and has not passed the cut if it started
\* before it; everything in the channel was sent after the cut was taken.
Replaying(r, ch, o, cur) ==
    /\ r.cut <= cur /\ Above(ch, r.cut)
    /\ Below(o, r.last) /\ r.since <= r.last
    /\ r.last = r.since => o = <<>>
    /\ r.since # r.cut
    /\ r.since < r.cut => r.last < r.cut

\* Without a gate some event divides what was written from what may be; with
\* a gate nothing is written until it has passed.
Seam(gate, ch, o, cur) ==
    IF gate = 0 THEN \E n \in 0..cur : Below(o, n) /\ Above(ch, n)
    ELSE Below(o, gate)

\* A connection r with channel ch has written o; cur is the broker's cursor.
Orderly(r, ch, o, cur) ==
    /\ Rising(ch) /\ Below(ch, cur) /\ Rising(o)
    /\ r.pc \in {"off", "subscribe"} => ch = <<>> /\ o = <<>>
    /\ r.pc = "subscribe" => r.last = r.since
    /\ r.pc = "backfill" => Replaying(r, ch, o, cur)
    /\ r.pc = "live" => Seam(r.gate, ch, o, cur)

\* Who has not subscribed is not in the fan-out set.
Listed(c) == c \in subs => conn[c].pc \in {"backfill", "live"}

StreamInv ==
    /\ StreamTypes
    /\ \A c \in Conns : Listed(c) /\ Orderly(conn[c], chan[c], out[c], cursor)

\* What a connection's record is before its first request.
LEMMA IdleType == Idle \in ConnRec /\ Idle.pc = "off"
BY DEF Idle, ConnRec

\* A connection that is not there, or has just come, is in order.
LEMMA FreshOrderly ==
  ASSUME NEW r \in ConnRec, NEW cur \in Nat, r.pc \in {"off", "subscribe"},
         r.pc = "subscribe" => r.last = r.since
  PROVE  Orderly(r, <<>>, <<>>, cur)
BY EmptyRising DEF Orderly

\* The initial state of NewBroker.
LEMMA StreamInvInit == StreamInit => StreamInv
<1> SUFFICES ASSUME StreamInit PROVE StreamInv
  OBVIOUS
<1>1. StreamTypes
  <2>1. <<>> \in Seq(Nat)
    BY EmptyRising
  <2> QED
    BY <2>1, IdleType DEF StreamInit, StreamTypes
<1>2. ASSUME NEW c \in Conns
      PROVE  Listed(c) /\ Orderly(conn[c], chan[c], out[c], cursor)
  <2>1. conn[c] = Idle /\ chan[c] = <<>> /\ out[c] = <<>> /\ cursor = 0 /\ subs = {}
    BY DEF StreamInit
  <2> QED
    BY <2>1, IdleType, FreshOrderly DEF Listed
<1> QED
  BY <1>1, <1>2 DEF StreamInv

\* Only connection c does something: the others stay in order.
LEMMA OneMoves ==
  ASSUME StreamInv, NEW c \in Conns, NEW r \in ConnRec,
         NEW ch \in Seq(Nat), NEW o \in Seq(Nat),
         conn' = [conn EXCEPT ![c] = r], chan' = [chan EXCEPT ![c] = ch],
         out' = [out EXCEPT ![c] = o], cursor' = cursor,
         Orderly(r, ch, o, cursor),
         c \in subs' => r.pc \in {"backfill", "live"},
         \A d \in Conns \ {c} : d \in subs' => d \in subs,
         log' \in Nat, seen' \in [Conns -> Nat]
  PROVE  StreamInv'
<1>t. /\ conn \in [Conns -> ConnRec] /\ chan \in [Conns -> Seq(Nat)]
      /\ out \in [Conns -> Seq(Nat)] /\ cursor \in Nat
  BY DEF StreamInv, StreamTypes
<1>1. StreamTypes'
  BY <1>t DEF StreamTypes
<1>2. ASSUME NEW d \in Conns
      PROVE  Listed(d)' /\ Orderly(conn'[d], chan'[d], out'[d], cursor')
  <2>1. CASE d = c
    <3>1. conn'[d] = r /\ chan'[d] = ch /\ out'[d] = o
      BY <2>1, <1>t
    <3> QED
      BY <2>1, <3>1 DEF Listed
  <2>2. CASE d # c
    <3>1. conn'[d] = conn[d] /\ chan'[d] = chan[d] /\ out'[d] = out[d]
      BY <2>2, <1>t
    <3>2. Listed(d) /\ Orderly(conn[d], chan[d], out[d], cursor)
      BY DEF StreamInv
    <3> QED
      BY <2>2, <3>1, <3>2 DEF Listed
  <2> QED
    BY <2>1, <2>2
<1> QED
  BY <1>1, <1>2 DEF StreamInv

\* Nobody does anything but the broker's bookkeeping.
LEMMA NobodyMoves ==
  ASSUME StreamInv, UNCHANGED <<cursor, conn, chan, out, seen>>,
         log' \in Nat, \A c \in Conns : c \in subs' => c \in subs
  PROVE  StreamInv'
<1>1. StreamTypes'
  BY DEF StreamInv, StreamTypes
<1>2. ASSUME NEW d \in Conns
      PROVE  Listed(d)' /\ Orderly(conn'[d], chan'[d], out'[d], cursor')
  BY DEF StreamInv, Listed
<1> QED
  BY <1>1, <1>2 DEF StreamInv

-----------------------------------------------------------------------------
(* The fan-out *)

\* A later cursor, and the event there sent or dropped, keep a connection in
\* order: the event is above everything it was sent before.
LEMMA FanOrderly ==
  ASSUME NEW r \in ConnRec, NEW ch \in Seq(Nat), NEW o \in Seq(Nat),
         NEW cur \in Nat, Orderly(r, ch, o, cur)
  PROVE  /\ Orderly(r, ch, o, cur + 1)
         /\ r.pc \in {"backfill", "live"} => Orderly(r, Append(ch, cur + 1), o, cur + 1)
<1>0. /\ cur + 1 \in Nat /\ cur < cur + 1 /\ cur <= cur + 1
      /\ Rising(ch) /\ Below(ch, cur) /\ Rising(o)
  BY DEF Orderly
<1>1. Below(ch, cur + 1)
  BY <1>0, LooseBelow
<1>2. ASSUME r.pc = "backfill"
      PROVE  /\ Replaying(r, ch, o, cur + 1)
             /\ Replaying(r, Append(ch, cur + 1), o, cur + 1)
  <2>1. /\ r.cut \in Nat /\ r.cut <= cur /\ Above(ch, r.cut)
        /\ Replaying(r, ch, o, cur)
    BY <1>2 DEF ConnRec, Orderly, Replaying
  <2>2. r.cut < cur + 1 /\ r.cut <= cur + 1
    BY <2>1
  <2>3. Above(Append(ch, cur + 1), r.cut)
    BY <2>1, <2>2, <1>0, AppendAbove
  <2> QED
    BY <2>1, <2>2, <2>3 DEF Replaying
<1>3. ASSUME r.pc = "live"
      PROVE  /\ Seam(r.gate, ch, o, cur + 1)
             /\ Seam(r.gate, Append(ch, cur + 1), o, cur + 1)
  <2>0. Seam(r.gate, ch, o, cur)
    BY <1>3 DEF Orderly
  <2>1. CASE r.gate = 0
    <3>1. PICK n \in 0..cur : Below(o, n) /\ Above(ch, n)
      BY <2>0, <2>1 DEF Seam
    <3>2. n \in Nat /\ n < cur + 1 /\ n \in 0..(cur + 1)
      BY <1>0
    <3>3. Above(Append(ch, cur + 1), n)
      BY <3>1, <3>2, <1>0, AppendAbove
    <3> QED
      BY <2>1, <3>1, <3>2, <3>3 DEF Seam
  <2>2. CASE r.gate # 0
    BY <2>0, <2>2 DEF Seam
  <2> QED
    BY <2>1, <2>2
<1>4. Rising(Append(ch, cur + 1)) /\ Below(Append(ch, cur + 1), cur + 1)
  BY <1>0, AppendRising
<1>5. Orderly(r, ch, o, cur + 1)
  BY <1>0, <1>1, <1>2, <1>3 DEF Orderly
<1>6. ASSUME r.pc \in {"backfill", "live"}
      PROVE  Orderly(r, Append(ch, cur + 1), o, cur + 1)
  BY <1>0, <1>2, <1>3, <1>4, <1>6 DEF Orderly
<1> QED
  BY <1>5, <1>6

\* Whether a connection is broken is of no account to its order.
LEMMA BreakOrderly ==
  ASSUME NEW r \in ConnRec, NEW b \in BOOLEAN
  PROVE  LET q == [r EXCEPT !.broken = b]
         IN /\ q \in ConnRec /\ q.pc = r.pc
            /\ \A ch, o, cur : Orderly(r, ch, o, cur) => Orderly(q, ch, o, cur)
<1> DEFINE q == [r EXCEPT !.broken = b]
<1>1. /\ q \in ConnRec /\ q.pc = r.pc /\ q.since = r.since /\ q.cut = r.cut
      /\ q.last = r.last /\ q.gate = r.gate
  BY DEF ConnRec
<1> HIDE DEF q
<1>2. ASSUME NEW ch, NEW o, NEW cur, Orderly(r, ch, o, cur)
      PROVE  Orderly(q, ch, o, cur)
  BY <1>1, <1>2 DEF Orderly, Replaying
<1> QED
  BY <1>1, <1>2 DEF q

\* One event of the fan-out, sent to a subscriber or dropped, keeps the invariant.
LEMMA FanStep ==
  ASSUME StreamInv, PollFan
  PROVE  StreamInv'
<1>t. /\ conn \in [Conns -> ConnRec] /\ chan \in [Conns -> Seq(Nat)]
      /\ out \in [Conns -> Seq(Nat)] /\ cursor \in Nat /\ log \in Nat
      /\ seen \in [Conns -> Nat]
  BY DEF StreamInv, StreamTypes
<1>a. /\ cursor' = cursor + 1 /\ UNCHANGED <<subs, out, log, seen>>
      /\ chan' = [c \in Conns |-> IF c \in subs /\ Fits(c)
                                  THEN Append(chan[c], cursor') ELSE chan[c]]
      /\ conn' = [c \in Conns |-> [conn[c] EXCEPT
                                      !.broken = @ \/ (c \in subs /\ ~Fits(c))]]
  BY DEF PollFan
<1>1. ASSUME NEW c \in Conns
      PROVE  /\ conn'[c] \in ConnRec /\ chan'[c] \in Seq(Nat)
             /\ Listed(c)' /\ Orderly(conn'[c], chan'[c], out'[c], cursor')
  <2> DEFINE b == conn[c].broken \/ (c \in subs /\ ~Fits(c))
             q == [conn[c] EXCEPT !.broken = b]
  <2>0. /\ conn[c] \in ConnRec /\ chan[c] \in Seq(Nat) /\ out[c] \in Seq(Nat)
        /\ Listed(c) /\ Orderly(conn[c], chan[c], out[c], cursor)
    BY <1>t DEF StreamInv
  <2>1. b \in BOOLEAN
    OBVIOUS
  <2>2. conn'[c] = q
    BY <1>a, Zenon
  <2> HIDE DEF b
  <2>3. /\ q \in ConnRec /\ q.pc = conn[c].pc
        /\ \A ch, o, cur : Orderly(conn[c], ch, o, cur) => Orderly(q, ch, o, cur)
    BY <2>0, <2>1, BreakOrderly
  <2> HIDE DEF q
  <2>4. chan'[c] \in {chan[c], Append(chan[c], cursor + 1)}
        /\ (chan'[c] # chan[c] => c \in subs)
    BY <1>a
  <2>5. chan'[c] \in Seq(Nat)
    <3>1. cursor + 1 \in Nat
      BY <1>t
    <3>2. Append(chan[c], cursor + 1) \in Seq(Nat)
      BY <3>1, <2>0, AppendProperties
    <3> QED
      BY <3>2, <2>0, <2>4
  <2>6. Orderly(conn[c], chan'[c], out[c], cursor + 1)
    BY <2>0, <2>4, <1>t, FanOrderly DEF Listed
  <2> QED
    BY <1>a, <2>0, <2>2, <2>3, <2>5, <2>6 DEF Listed
<1>2. StreamTypes'
  <2>1. conn' \in [Conns -> ConnRec] /\ chan' \in [Conns -> Seq(Nat)]
    <3>1. /\ conn' = [c \in Conns |-> conn'[c]]
          /\ chan' = [c \in Conns |-> chan'[c]]
      BY <1>a, Zenon
    <3> QED
      BY <3>1, <1>1
  <2>2. /\ cursor' \in Nat /\ log' \in Nat
        /\ out' \in [Conns -> Seq(Nat)] /\ seen' \in [Conns -> Nat]
    BY <1>a, <1>t
  <2> QED
    BY <2>1, <2>2 DEF StreamTypes
<1> QED
  BY <1>1, <1>2 DEF StreamInv

-----------------------------------------------------------------------------
(* One connection *)

\* What handleSSE keeps of a connection that goes live.
LEMMA LiveType ==
  ASSUME NEW c \in Conns, conn[c] \in ConnRec, NEW gate \in Nat, NEW f \in BOOLEAN
  PROVE  /\ Live(c, gate, f) \in ConnRec
         /\ Live(c, gate, f).pc = "live" /\ Live(c, gate, f).gate = gate
<1> DEFINE b == conn[c].broken \/ f
<1>1. b \in BOOLEAN
  OBVIOUS
<1>2. Live(c, gate, f) = [conn[c] EXCEPT !.pc = "live", !.cut = 0, !.last = 0,
                                         !.gate = gate, !.broken = b]
  BY Zenon DEF Live
<1> HIDE DEF b
<1> DEFINE r == [conn[c] EXCEPT !.pc = "live", !.cut = 0, !.last = 0,
                                !.gate = gate, !.broken = b]
<1>3. r \in ConnRec
  BY <1>1 DEF ConnRec
<1>4. r.pc = "live" /\ r.gate = gate
  BY DEF ConnRec
<1> QED
  BY <1>2, <1>3, <1>4, Zenon

\* What is known of the state in which connection c moves.
LEMMA Before ==
  ASSUME StreamInv, NEW c \in Conns
  PROVE  /\ conn[c] \in ConnRec /\ chan[c] \in Seq(Nat) /\ out[c] \in Seq(Nat)
         /\ cursor \in Nat /\ log \in Nat /\ seen[c] \in Nat
         /\ Listed(c) /\ Orderly(conn[c], chan[c], out[c], cursor)
         /\ seen \in [Conns -> Nat]
         /\ chan = [chan EXCEPT ![c] = chan[c]]
         /\ out = [out EXCEPT ![c] = out[c]]
<1>1. StreamTypes
  BY DEF StreamInv
<1>2. chan = [chan EXCEPT ![c] = chan[c]] /\ out = [out EXCEPT ![c] = out[c]]
  BY <1>1 DEF StreamTypes
<1> QED
  BY <1>1, <1>2 DEF StreamInv, StreamTypes

\* A request arrives; it has its own channel and response from here on.
LEMMA ConnectStep ==
  ASSUME StreamInv, NEW c \in Conns, Connect(c)
  PROVE  StreamInv'
<1>a. /\ conn[c].pc = "off" /\ UNCHANGED <<log, cursor, subs, seen>>
      /\ chan' = [chan EXCEPT ![c] = <<>>] /\ out' = [out EXCEPT ![c] = <<>>]
  BY DEF Connect, brokerVars
<1>b. PICK since \in {0, seen[c]} :
         conn' = [conn EXCEPT ![c] = [Idle EXCEPT !.pc = "subscribe",
                               !.since = since, !.last = since,
                               !.broken = since # 0 /\ c \in foreign]]
  BY DEF Connect
<1>t. since \in Nat /\ cursor \in Nat /\ log \in Nat /\ seen \in [Conns -> Nat]
      /\ Listed(c)
  BY Before
<1> DEFINE b == since # 0 /\ c \in foreign
           r == [Idle EXCEPT !.pc = "subscribe", !.since = since,
                             !.last = since, !.broken = b]
<1>1. b \in BOOLEAN
  OBVIOUS
<1>2. conn' = [conn EXCEPT ![c] = r]
  BY <1>b, Zenon
<1> HIDE DEF b
<1>3. r \in ConnRec /\ r.pc = "subscribe" /\ r.last = r.since
  BY <1>t, <1>1 DEF Idle, ConnRec
<1> HIDE DEF r
<1>4. Orderly(r, <<>>, <<>>, cursor)
  BY <1>3, <1>t, FreshOrderly
<1>5. c \notin subs'
  BY <1>a, <1>t DEF Listed
<1> QED
  BY <1>a, <1>2, <1>3, <1>4, <1>5, <1>t, EmptyRising, OneMoves

\* The cut is the broker's cursor: all that is sent later lies above it.
LEMMA SubscribeStep ==
  ASSUME StreamInv, NEW c \in Conns, Subscribe(c)
  PROVE  StreamInv'
<1>t. /\ conn[c] \in ConnRec /\ chan[c] \in Seq(Nat) /\ out[c] \in Seq(Nat)
      /\ cursor \in Nat /\ log \in Nat /\ seen \in [Conns -> Nat]
      /\ Orderly(conn[c], chan[c], out[c], cursor)
      /\ chan = [chan EXCEPT ![c] = chan[c]] /\ out = [out EXCEPT ![c] = out[c]]
  BY Before
<1>a. /\ conn[c].pc = "subscribe" /\ UNCHANGED <<log, cursor, seen, chan, out>>
      /\ \A d \in Conns \ {c} : d \in subs' => d \in subs
  BY DEF Subscribe
<1>b. chan[c] = <<>> /\ out[c] = <<>> /\ conn[c].last = conn[c].since
  BY <1>t, <1>a DEF Orderly
<1>1. CASE conn[c].since = cursor
  <2> DEFINE r == Live(c, 0, FALSE)
  <2>1. conn' = [conn EXCEPT ![c] = r]
    BY <1>1 DEF Subscribe
  <2>2. r \in ConnRec /\ r.pc = "live" /\ r.gate = 0
    BY <1>t, LiveType
  <2> HIDE DEF r
  <2>3. Seam(r.gate, chan[c], out[c], cursor)
    <3>1. 0 \in 0..cursor
      BY <1>t
    <3> QED
      BY <3>1, <2>2, <1>b, EmptyRising DEF Seam
  <2>4. Orderly(r, chan[c], out[c], cursor)
    BY <2>2, <2>3, <1>t DEF Orderly
  <2> QED
    BY <2>1, <2>2, <2>4, <1>a, <1>t, OneMoves
<1>2. CASE conn[c].since # cursor
  <2> DEFINE r == [conn[c] EXCEPT !.pc = "backfill", !.cut = cursor]
  <2>1. conn' = [conn EXCEPT ![c] = r]
    BY <1>2 DEF Subscribe
  <2>2. /\ r \in ConnRec /\ r.pc = "backfill" /\ r.cut = cursor
        /\ r.last = conn[c].last /\ r.since = conn[c].since
        /\ conn[c].since \in Nat
    BY <1>t DEF ConnRec
  <2> HIDE DEF r
  <2>3. Replaying(r, chan[c], out[c], cursor)
    BY <2>2, <1>2, <1>b, <1>t, EmptyRising DEF Replaying
  <2>4. Orderly(r, chan[c], out[c], cursor)
    BY <2>2, <2>3, <1>t DEF Orderly
  <2> QED
    BY <2>1, <2>2, <2>4, <1>a, <1>t, OneMoves
<1> QED
  BY <1>1, <1>2

\* A page of the replay, whole or up to the cut.
LEMMA BackfillStep ==
  ASSUME StreamInv, NEW c \in Conns, Backfill(c)
  PROVE  StreamInv'
<1> DEFINE last == conn[c].last
           cut == conn[c].cut
           page == (last + 1)..ReadUpTo(last)
           to == IF cut \in page THEN cut ELSE ReadUpTo(last)
           events == Run(last + 1, to)
<1>t. /\ conn[c] \in ConnRec /\ chan[c] \in Seq(Nat) /\ out[c] \in Seq(Nat)
      /\ cursor \in Nat /\ log \in Nat /\ seen \in [Conns -> Nat] /\ Listed(c)
      /\ Orderly(conn[c], chan[c], out[c], cursor)
      /\ chan = [chan EXCEPT ![c] = chan[c]]
  BY Before
<1>a. /\ conn[c].pc = "backfill" /\ page # {} /\ Write(c, events)
      /\ UNCHANGED <<log, cursor, subs, chan>>
      /\ conn' = [conn EXCEPT ![c] = IF cut \in page THEN Live(c, 0, FALSE)
                                     ELSE [@ EXCEPT !.last = to]]
  BY Zenon DEF Backfill, brokerVars
<1>b. Replaying(conn[c], chan[c], out[c], cursor) /\ Rising(out[c])
  BY <1>t, <1>a DEF Orderly
<1>c. last \in Nat /\ cut \in Nat /\ conn[c].since \in Nat
  BY <1>t DEF ConnRec
<1>d. ReadUpTo(last) \in Nat
  <2>1. last + Batch \in Nat
    BY <1>c, StreamAssumption
  <2>2. ReadUpTo(last) \in {last + Batch, log}
    BY DEF ReadUpTo
  <2> HIDE DEF last
  <2> QED
    BY <1>t, <2>1, <2>2
<1>e. to \in Nat /\ last < to /\ to <= ReadUpTo(last)
  BY <1>a, <1>c, <1>d
<1>f. /\ events \in Seq(Nat) /\ Rising(events) /\ Above(events, last)
      /\ Below(events, to) /\ events # <<>> /\ events[Len(events)] \in Nat
  BY <1>c, <1>e, RunRising
<1> HIDE DEF events
<1> DEFINE o == out[c] \o events
<1>g. o \in Seq(Nat) /\ Rising(o)
  <2>1. Below(out[c], last)
    BY <1>b DEF Replaying
  <2> QED
    BY <2>1, <1>b, <1>c, <1>f, <1>t, JoinRising
<1>h. Below(o, to)
  <2>1. Below(out[c], to)
    <3>1. Below(out[c], last)
      BY <1>b DEF Replaying
    <3> QED
      BY <3>1, <1>c, <1>e, <1>t, LooseBelow
  <2> QED
    BY <2>1, <1>e, <1>f, <1>t, JoinBelow
<1>i. out' = [out EXCEPT ![c] = o]
  BY <1>a DEF Write
<1>j. seen' \in [Conns -> Nat]
  BY <1>a, <1>f, <1>t DEF Write
<1> HIDE DEF o
<1>1. CASE cut \in page
  <2> DEFINE r == Live(c, 0, FALSE)
  <2>1. conn' = [conn EXCEPT ![c] = r]
    BY <1>a, <1>1
  <2>2. r \in ConnRec /\ r.pc = "live" /\ r.gate = 0
    BY <1>t, LiveType
  <2> HIDE DEF r
  <2>3. Seam(r.gate, chan[c], o, cursor)
    <3>1. to = cut
      BY <1>1
    <3>2. cut \in 0..cursor /\ Above(chan[c], cut)
      BY <1>b, <1>c, <1>t DEF Replaying
    <3> QED
      BY <3>1, <3>2, <1>h, <2>2 DEF Seam
  <2>4. Orderly(r, chan[c], o, cursor)
    BY <2>2, <2>3, <1>g, <1>t DEF Orderly
  <2> QED
    BY <2>1, <2>2, <2>4, <1>a, <1>g, <1>i, <1>j, <1>t, OneMoves
<1>2. CASE cut \notin page
  <2> DEFINE r == [conn[c] EXCEPT !.last = to]
  <2>1. conn' = [conn EXCEPT ![c] = r]
    BY <1>a, <1>2
  <2>2. /\ r \in ConnRec /\ r.pc = "backfill" /\ r.cut = cut
        /\ r.last = to /\ r.since = conn[c].since
    BY <1>t, <1>a, <1>e DEF ConnRec
  <2>3. last < cut => to < cut
    <3>1. to = ReadUpTo(last)
      BY <1>2
    <3> QED
      BY <3>1, <1>2, <1>c, <1>d, <1>e
  <2> HIDE DEF r, to, page
  <2>4. Replaying(r, chan[c], o, cursor)
    <3>1. /\ cut <= cursor /\ Above(chan[c], cut) /\ conn[c].since <= last
          /\ conn[c].since # cut /\ (conn[c].since < cut => last < cut)
      BY <1>b DEF Replaying
    <3>2. conn[c].since < to
      BY <3>1, <1>c, <1>e
    <3> QED
      BY <3>1, <3>2, <2>2, <2>3, <1>c, <1>e, <1>h DEF Replaying
  <2>5. Orderly(r, chan[c], o, cursor)
    BY <2>2, <2>4, <1>g, <1>t DEF Orderly
  <2> QED
    BY <2>1, <2>2, <2>5, <1>a, <1>g, <1>i, <1>j, <1>t, OneMoves
<1> QED
  BY <1>1, <1>2

\* The replay ends before the cut was met: either everything it wrote is below
\* the cut, or the gate is what it wrote last.
LEMMA GateStep ==
  ASSUME StreamInv, NEW c \in Conns, BackfillEnd(c) \/ BackfillError(c)
  PROVE  StreamInv'
<1>t. /\ conn[c] \in ConnRec /\ chan[c] \in Seq(Nat) /\ out[c] \in Seq(Nat)
      /\ cursor \in Nat /\ log \in Nat /\ seen \in [Conns -> Nat] /\ Listed(c)
      /\ Orderly(conn[c], chan[c], out[c], cursor)
      /\ chan = [chan EXCEPT ![c] = chan[c]] /\ out = [out EXCEPT ![c] = out[c]]
  BY Before
<1>a. /\ conn[c].pc = "backfill"
      /\ UNCHANGED <<log, cursor, subs, chan, out, seen>>
  BY DEF BackfillEnd, BackfillError, brokerVars
<1>b. PICK f \in BOOLEAN : conn' = [conn EXCEPT ![c] = Live(c, Gate(c), f)]
  BY DEF BackfillEnd, BackfillError
<1>c. /\ conn[c].last \in Nat /\ conn[c].cut \in Nat /\ conn[c].since \in Nat
      /\ Gate(c) \in Nat
  BY <1>t DEF ConnRec, Gate
<1>d. Replaying(conn[c], chan[c], out[c], cursor)
  BY <1>t, <1>a DEF Orderly
<1> DEFINE r == Live(c, Gate(c), f)
<1>1. r \in ConnRec /\ r.pc = "live" /\ r.gate = Gate(c)
  BY <1>t, <1>c, LiveType
<1> HIDE DEF r
<1>2. Seam(Gate(c), chan[c], out[c], cursor)
  <2>1. CASE Gate(c) # 0
    <3>1. Gate(c) = conn[c].last
      BY <2>1 DEF Gate
    <3> QED
      BY <2>1, <3>1, <1>d DEF Seam, Replaying
  <2>2. CASE Gate(c) = 0 /\ conn[c].last = conn[c].since
    <3>1. out[c] = <<>>
      BY <2>2, <1>d DEF Replaying
    <3>2. conn[c].cut \in 0..cursor /\ Above(chan[c], conn[c].cut)
      BY <1>c, <1>d, <1>t DEF Replaying
    <3> QED
      BY <2>2, <3>1, <3>2, EmptyRising DEF Seam
  <2>3. CASE Gate(c) = 0 /\ conn[c].last # conn[c].since
    <3>1. conn[c].since = 0 \/ conn[c].last = 0
      BY <2>3 DEF Gate
    <3>2. conn[c].since = 0 /\ conn[c].last < conn[c].cut
      BY <2>3, <3>1, <1>c, <1>d DEF Replaying
    <3>3. conn[c].cut \in 0..cursor /\ Above(chan[c], conn[c].cut)
      BY <1>c, <1>d, <1>t DEF Replaying
    <3>4. Below(out[c], conn[c].cut)
      <4>1. Below(out[c], conn[c].last)
        BY <1>d DEF Replaying
      <4> QED
        BY <4>1, <3>2, <1>c, <1>t, LooseBelow
    <3> QED
      BY <2>3, <3>3, <3>4 DEF Seam
  <2> QED
    BY <2>1, <2>2, <2>3
<1>3. Orderly(r, chan[c], out[c], cursor)
  BY <1>1, <1>2, <1>t DEF Orderly
<1> QED
  BY <1>a, <1>b, <1>1, <1>3, <1>t, OneMoves DEF r

\* An event is received: written, or passed over until the gate is met.
LEMMA ReceiveStep ==
  ASSUME StreamInv, NEW c \in Conns, Receive(c)
  PROVE  StreamInv'
<1> DEFINE ch == Tail(chan[c])
           head == Head(chan[c])
<1>t. /\ conn[c] \in ConnRec /\ chan[c] \in Seq(Nat) /\ out[c] \in Seq(Nat)
      /\ cursor \in Nat /\ log \in Nat /\ seen \in [Conns -> Nat] /\ Listed(c)
      /\ Orderly(conn[c], chan[c], out[c], cursor)
      /\ out = [out EXCEPT ![c] = out[c]] /\ conn \in [Conns -> ConnRec]
  BY Before DEF StreamInv, StreamTypes
<1>a. /\ conn[c].pc = "live" /\ chan[c] # <<>>
      /\ chan' = [chan EXCEPT ![c] = ch] /\ UNCHANGED <<log, cursor, subs>>
  BY DEF Receive, brokerVars
<1>b. /\ Rising(chan[c]) /\ Below(chan[c], cursor) /\ Rising(out[c])
      /\ Seam(conn[c].gate, chan[c], out[c], cursor)
  BY <1>t, <1>a DEF Orderly
<1>c. /\ head \in Nat /\ ch \in Seq(Nat) /\ Rising(ch) /\ Above(ch, head)
      /\ Below(ch, cursor) /\ head <= cursor
      /\ \A n \in Nat : Above(chan[c], n) => n < head
  BY <1>a, <1>b, <1>t, TailRising
<1>d. head \in 0..cursor
  BY <1>c, <1>t
<1> HIDE DEF ch, head
<1>1. CASE conn[c].gate # 0
  <2> DEFINE gate == IF head = conn[c].gate THEN 0 ELSE conn[c].gate
             r == [conn[c] EXCEPT !.gate = gate]
  <2>1. conn' = [conn EXCEPT ![c] = r] /\ UNCHANGED <<out, seen>>
    BY <1>1, <1>t DEF Receive, head
  <2>2. gate \in Nat
    BY <1>t DEF ConnRec
  <2>3. r \in ConnRec /\ r.pc = "live" /\ r.gate = gate
    BY <2>2, <1>t, <1>a DEF ConnRec
  <2>4. Below(out[c], conn[c].gate)
    BY <1>1, <1>b DEF Seam
  <2>5. Seam(gate, ch, out[c], cursor)
    <3>1. CASE head = conn[c].gate
      BY <3>1, <2>4, <1>c, <1>d DEF Seam
    <3>2. CASE head # conn[c].gate
      BY <3>2, <2>4, <1>1 DEF Seam
    <3> QED
      BY <3>1, <3>2
  <2> HIDE DEF r, gate
  <2>6. Orderly(r, ch, out[c], cursor)
    BY <2>3, <2>5, <1>b, <1>c DEF Orderly
  <2> QED
    BY <2>1, <2>3, <2>6, <1>a, <1>c, <1>t, OneMoves
<1>2. CASE conn[c].gate = 0
  <2> DEFINE o == out[c] \o <<head>>
  <2>1. out' = [out EXCEPT ![c] = o] /\ conn' = conn
    BY <1>2 DEF Receive, Write, head
  <2>2. seen' \in [Conns -> Nat]
    BY <1>2, <1>c, <1>t DEF Receive, Write, head
  <2>3. PICK n \in 0..cursor : Below(out[c], n) /\ Above(chan[c], n)
    BY <1>2, <1>b DEF Seam
  <2>4. n \in Nat /\ n < head
    BY <2>3, <1>c, <1>t
  <2>5. /\ <<head>> \in Seq(Nat) /\ Rising(<<head>>) /\ Below(<<head>>, head)
        /\ Above(<<head>>, n)
    BY <2>4, <1>c, OneRising
  <2>6. o \in Seq(Nat) /\ Rising(o)
    BY <2>3, <2>4, <2>5, <1>b, <1>t, JoinRising
  <2>7. Below(o, head)
    <3>1. Below(out[c], head)
      BY <2>3, <2>4, <1>c, <1>t, LooseBelow
    <3> QED
      BY <3>1, <2>5, <1>c, <1>t, JoinBelow
  <2> HIDE DEF o
  <2>8. Orderly(conn[c], ch, o, cursor)
    BY <2>6, <2>7, <1>2, <1>a, <1>c, <1>d DEF Orderly, Seam
  <2>9. conn' = [conn EXCEPT ![c] = conn[c]]
    BY <2>1, <1>t
  <2> QED
    BY <2>1, <2>2, <2>6, <2>8, <2>9, <1>a, <1>c, <1>t, OneMoves
<1> QED
  BY <1>1, <1>2

\* A client that goes away, and the request that returns.
LEMMA LeaveStep ==
  ASSUME StreamInv, NEW c \in Conns, Disconnect(c) \/ Leave(c)
  PROVE  StreamInv'
<1>t. /\ conn[c] \in ConnRec /\ chan[c] \in Seq(Nat) /\ out[c] \in Seq(Nat)
      /\ cursor \in Nat /\ log \in Nat /\ seen \in [Conns -> Nat] /\ Listed(c)
      /\ Orderly(conn[c], chan[c], out[c], cursor)
      /\ chan = [chan EXCEPT ![c] = chan[c]] /\ out = [out EXCEPT ![c] = out[c]]
      /\ conn \in [Conns -> ConnRec]
  BY Before DEF StreamInv, StreamTypes
<1>1. CASE Disconnect(c)
  <2> DEFINE r == [conn[c] EXCEPT !.gone = TRUE]
  <2>1. /\ conn' = [conn EXCEPT ![c] = r]
        /\ UNCHANGED <<log, cursor, subs, chan, out, seen>>
    BY <1>1, <1>t DEF Disconnect, brokerVars
  <2>2. /\ r \in ConnRec /\ r.pc = conn[c].pc /\ r.since = conn[c].since
        /\ r.cut = conn[c].cut /\ r.last = conn[c].last /\ r.gate = conn[c].gate
    BY <1>t DEF ConnRec
  <2> HIDE DEF r
  <2>3. Orderly(r, chan[c], out[c], cursor)
    BY <2>2, <1>t DEF Orderly, Replaying
  <2> QED
    BY <2>1, <2>2, <2>3, <1>t, OneMoves DEF Listed
<1>2. CASE Leave(c)
  <2>1. /\ conn' = [conn EXCEPT ![c] = Idle]
        /\ chan' = [chan EXCEPT ![c] = <<>>] /\ out' = [out EXCEPT ![c] = <<>>]
        /\ subs' = subs \ {c} /\ UNCHANGED <<log, cursor, seen>>
    BY <1>2 DEF Leave
  <2>2. Orderly(Idle, <<>>, <<>>, cursor)
    BY <1>t, IdleType, FreshOrderly
  <2> QED
    BY <2>1, <2>2, <1>t, IdleType, EmptyRising, OneMoves
<1> QED
  BY <1>1, <1>2

-----------------------------------------------------------------------------
(* The process *)

\* The end of a process leaves connections that are not there.
LEMMA GoneStep ==
  ASSUME StreamInv, NEW how, Gone(how)
  PROVE  StreamInv'
<1>a. /\ cursor' = 0 /\ subs' = {} /\ seen' = seen /\ log' \in {log, 0}
      /\ conn' = [c \in Conns |-> Idle]
      /\ chan' = [c \in Conns |-> <<>>] /\ out' = [c \in Conns |-> <<>>]
  BY DEF Gone
<1>1. StreamTypes'
  <2>1. <<>> \in Seq(Nat)
    BY EmptyRising
  <2> QED
    BY <2>1, <1>a, IdleType DEF StreamInv, StreamTypes
<1>2. ASSUME NEW c \in Conns
      PROVE  Listed(c)' /\ Orderly(conn'[c], chan'[c], out'[c], cursor')
  <2>1. conn'[c] = Idle /\ chan'[c] = <<>> /\ out'[c] = <<>>
    BY <1>a
  <2> QED
    BY <2>1, <1>a, IdleType, FreshOrderly DEF Listed
<1> QED
  BY <1>1, <1>2 DEF StreamInv

\* The steps that leave the stream as it is.
Aside ==
    \/ \E k \in Kinds : RpcBegin(k) \/ RpcEnd(k)
    \/ \E c \in Conns : Stall(c) \/ Resume(c)
    \/ Signal \/ RestartAdmin \/ Resolve \/ Boot

\* Every step of the process keeps the connections in order.
LEMMA StreamInvStep ==
  ASSUME StreamInv, [ProcessNext]_allVars
  PROVE  StreamInv'
<1>t. log \in Nat /\ log + 1 \in Nat
  BY DEF StreamInv, StreamTypes
<1>1. CASE Publish
  BY <1>1, <1>t, NobodyMoves DEF Publish, brokerVars
<1>2. CASE PollRead \/ PollLock \/ PollExit \/ CloseCancel \/ CloseAll
  BY <1>2, <1>t, NobodyMoves
  DEF PollRead, PollLock, PollExit, CloseCancel, CloseAll
<1>3. CASE UNCHANGED streamVars
  BY <1>3, <1>t, NobodyMoves DEF streamVars, brokerVars
<1>4. CASE Poll
  BY <1>4, <1>2, FanStep DEF Poll
<1>5. ASSUME NEW c \in Conns,
             \/ Accept(c) \/ Serve(c) \/ BackfillError(c) \/ Hangup(c)
      PROVE  StreamInv'
  BY <1>5, ConnectStep, SubscribeStep, BackfillStep, GateStep, ReceiveStep,
     LeaveStep DEF Accept, Serve, Hangup
<1>6. CASE Aside
  BY <1>6, <1>3 DEF Aside, RpcBegin, RpcEnd, Signal, RestartAdmin, Resolve, Boot,
                    Stall, Resume
<1>7. ASSUME NEW s \in Stoppers, Stop(s) PROVE StreamInv'
  BY <1>7, <1>2, <1>3 DEF Stop, GracefulStop, Drained, BrokerCancel, BrokerClose,
                          BrokerWait, StopBridge, Deadline, StopInner
<1>8. CASE MainReturns \/ Exec \/ Kill
  BY <1>8, GoneStep DEF MainReturns, Exec, Kill
<1>9. CASE UNCHANGED allVars
  BY <1>9, <1>3 DEF allVars
<1> QED
  BY <1>1, <1>4, <1>5, <1>6, <1>7, <1>8, <1>9 DEF ProcessNext, Aside

-----------------------------------------------------------------------------
(* Theorems *)

\* No connection ever writes an event twice or out of order, whatever was
\* dropped, failed, replayed or restarted.
THEOREM EventsInOrder == ProcessSpec => []InOrder
<1>1. ProcessInit => StreamInv
  BY StreamInvInit DEF ProcessInit
<1>2. StreamInv /\ [ProcessNext]_allVars => StreamInv'
  BY StreamInvStep
<1>3. StreamInv => InOrder
  <2> SUFFICES ASSUME StreamInv, NEW c \in Conns,
                      NEW i \in 1..(Len(out[c]) - 1)
               PROVE  out[c][i] < out[c][i + 1]
    BY DEF InOrder
  <2>1. Rising(out[c]) /\ Len(out[c]) \in Nat
    BY Before, LenProperties DEF Orderly
  <2>2. i \in 1..Len(out[c]) /\ i + 1 \in 1..Len(out[c]) /\ i < i + 1
    BY <2>1
  <2> QED
    BY <2>1, <2>2 DEF Rising
<1> QED
  BY <1>1, <1>2, <1>3, PTL DEF ProcessSpec

\* Whoever is in the fan-out set keeps an open channel at every step.
LEMMA FanOutStep ==
  ASSUME FanOutSafe, [ProcessNext]_allVars
  PROVE  FanOutSafe'
<1> USE DEF FanOutSafe
<1>0. CASE UNCHANGED <<subs, open>>
  BY <1>0
<1>1. CASE Publish \/ Poll
  BY <1>1, <1>0 DEF Publish, Poll, PollRead, PollLock, PollFan, PollExit, brokerVars
<1>2. ASSUME NEW c \in Conns,
             \/ Accept(c) \/ Serve(c) \/ BackfillError(c) \/ Hangup(c)
      PROVE  FanOutSafe'
  <2>1. CASE Subscribe(c)
    <3>1. \/ subs' = subs /\ open' = open
          \/ subs' = subs \cup {c} /\ open' = open \cup {c}
      BY <2>1, Zenon DEF Subscribe
    <3> QED
      BY <3>1
  <2>3. CASE Leave(c)
    <3>1. /\ subs' = subs \ {c}
          /\ open' = IF c \in subs THEN open \ {c} ELSE open
      BY <2>3, Zenon DEF Leave
    <3>2. CASE c \in subs
      BY <3>1, <3>2
    <3>3. CASE c \notin subs
      BY <3>1, <3>3
    <3> QED
      BY <3>2, <3>3
  <2>2. CASE \/ Connect(c) \/ Backfill(c) \/ BackfillEnd(c)
             \/ BackfillError(c) \/ Receive(c) \/ Disconnect(c)
    <3>1. UNCHANGED brokerVars
      BY <2>2, Zenon DEF Connect, Backfill, BackfillEnd, BackfillError, Receive,
                         Disconnect
    <3> QED
      BY <3>1, <1>0 DEF brokerVars
  <2> QED
    BY <1>2, <2>1, <2>2, <2>3 DEF Accept, Serve, Hangup
<1>3. CASE Aside
  BY <1>3, <1>0 DEF Aside, RpcBegin, RpcEnd, Signal, RestartAdmin, Resolve, Boot,
                    Stall, Resume, streamVars, brokerVars
<1>4. ASSUME NEW s \in Stoppers, Stop(s) PROVE FanOutSafe'
  <2>1. CASE BrokerClose(s)
    BY <2>1 DEF BrokerClose, CloseAll
  <2>2. CASE BrokerCancel(s)
    BY <2>2, <1>0 DEF BrokerCancel, CloseCancel
  <2>3. CASE \/ GracefulStop(s) \/ Drained(s) \/ BrokerWait(s)
             \/ StopBridge(s) \/ Deadline(s) \/ StopInner(s)
    BY <2>3, <1>0 DEF GracefulStop, Drained, BrokerWait, StopBridge, Deadline,
                      StopInner, streamVars, brokerVars
  <2> QED
    BY <1>4, <2>1, <2>2, <2>3 DEF Stop
<1>5. CASE MainReturns \/ Exec \/ Kill
  BY <1>5 DEF MainReturns, Exec, Kill, Gone
<1>6. CASE UNCHANGED allVars
  BY <1>6, <1>0 DEF allVars, streamVars, brokerVars
<1> QED
  BY <1>1, <1>2, <1>3, <1>4, <1>5, <1>6 DEF ProcessNext, Aside

\* The poll loop never sends on a closed channel, and Close misses no open one.
THEOREM FanOutIsSafe == ProcessSpec => []FanOutSafe
<1>1. ProcessInit => FanOutSafe
  BY DEF ProcessInit, StreamInit, FanOutSafe
<1>2. FanOutSafe /\ [ProcessNext]_allVars => FanOutSafe'
  BY FanOutStep
<1> QED
  BY <1>1, <1>2, PTL DEF ProcessSpec

-----------------------------------------------------------------------------
(* The shutdown *)

\* The gRPC server has stopped, the broker is closed and its goroutine has left.
Quiet == poll.pc = "exit" /\ closed /\ grpc = "stopped"

Drains ==
    /\ rpcs \in [Kinds -> Nat]
    /\ stage \in [Stoppers -> Stages]
    /\ grpc = "stopped" => rpcs = NoRpcs
    /\ closed => open = {}
    /\ \A s \in Stoppers :
          /\ stage[s] \in {"close", "bridge", "inner", "exec"} => grpc = "stopped"
          /\ stage[s] \in {"bridge", "inner", "exec"} => "listener" \in down
    /\ "listener" \in down => Quiet
    /\ "streams" \in down =>
          "listener" \in down /\ \A c \in Conns : conn[c].pc = "off"
    /\ down \cap {"executor", "supervisor"} # {} => "listener" \in down

\* A new process has begun to stop nothing.
LEMMA DrainsInit == ProcessInit => Drains
BY DEF ProcessInit, StreamInit, NoRpcs, Drains, Stages

\* Steps of the stream: the poll goroutine does not come back, a closed broker
\* opens no channel, and no request is accepted once the listener is closed.
LEMMA StreamKeeps ==
  ASSUME Drains, UNCHANGED <<grpc, rpcs, stage, down>>,
         poll.pc = "exit" => poll'.pc = "exit",
         closed => closed', closed' => open' = {},
         "streams" \in down => \A c \in Conns : conn'[c].pc = "off"
  PROVE  Drains'
BY DEF Drains, Quiet

\* Steps that leave the stream alone.
LEMMA AsideKeeps ==
  ASSUME Drains, UNCHANGED streamVars, UNCHANGED <<grpc, rpcs, stage, down>>
  PROVE  Drains'
BY StreamKeeps DEF streamVars, brokerVars, Drains

\* The poll goroutine only reads and sends; once it has left it does not return.
LEMMA PollKeeps ==
  ASSUME StreamInv, Drains, Poll
  PROVE  Drains'
<1>0. UNCHANGED <<grpc, rpcs, stage, down>> /\ closed' = closed /\ open' = open
  BY Zenon DEF Poll, PollRead, PollLock, PollFan, PollExit, procVars
<1>1. poll.pc = "exit" => poll'.pc = "exit"
  BY DEF Poll, PollRead, PollLock, PollFan, PollExit
<1>2. ASSUME NEW c \in Conns PROVE conn'[c].pc = conn[c].pc
  <2>1. conn[c] \in ConnRec
    BY Before
  <2>2. CASE PollFan
    BY <2>1, <2>2 DEF PollFan, ConnRec
  <2>3. CASE PollRead \/ PollLock \/ PollExit
    BY <2>3 DEF PollRead, PollLock, PollExit
  <2> QED
    BY <2>2, <2>3 DEF Poll
<1> QED
  BY <1>0, <1>1, <1>2, StreamKeeps DEF Drains

\* A request is accepted only while the bridge's listener is open, and finds a
\* closed broker closed.
LEMMA ClientKeeps ==
  ASSUME Drains, NEW c \in Conns,
         \/ Accept(c) \/ Serve(c)
         \/ c \notin stalled /\ BackfillError(c) /\ UNCHANGED procVars
         \/ Stall(c) \/ Resume(c) \/ Hangup(c)
  PROVE  Drains'
<1>1. CASE Accept(c)
  <2>1. "listener" \notin down /\ UNCHANGED brokerVars /\ UNCHANGED procVars
    BY <1>1, Zenon DEF Accept, Connect
  <2> QED
    BY <2>1, StreamKeeps DEF procVars, brokerVars, Drains
<1>2. CASE Stall(c) \/ Resume(c)
  BY <1>2, AsideKeeps DEF Stall, Resume
<1>3. CASE ~Accept(c) /\ ~Stall(c) /\ ~Resume(c)
  <2>1. UNCHANGED <<grpc, rpcs, stage, down>>
    BY <1>3, Zenon DEF Serve, Hangup, procVars
  <2>2. poll' = poll /\ closed' = closed
    BY <1>3, Zenon DEF Serve, Subscribe, Backfill, BackfillEnd, BackfillError,
                       Receive, Hangup, Disconnect, Leave, brokerVars
  <2>3. conn[c].pc # "off"
    BY <1>3 DEF Serve, Subscribe, Backfill, BackfillEnd, BackfillError,
                Receive, Hangup, Disconnect, Leave
  <2>4. closed => open' \subseteq open
    BY <1>3 DEF Serve, Subscribe, Backfill, BackfillEnd, BackfillError,
                Receive, Hangup, Disconnect, Leave, brokerVars
  <2> QED
    BY <2>1, <2>2, <2>3, <2>4, StreamKeeps DEF Drains
<1> QED
  BY <1>1, <1>2, <1>3

\* A goroutine of gracefulShutdown takes its next step.  Closing the broker
\* closes every channel, because whoever has an open one is in the fan-out set.
LEMMA StopKeeps ==
  ASSUME Drains, FanOutSafe, NEW s \in Stoppers, Stop(s)
  PROVE  Drains'
<1>t. stage \in [Stoppers -> Stages] /\ rpcs \in [Kinds -> Nat]
  BY DEF Drains
<1>1. CASE GracefulStop(s)
  BY <1>1, <1>t DEF GracefulStop, At, Drains, Quiet, Stages, streamVars, brokerVars
<1>2. CASE Drained(s)
  BY <1>2, <1>t DEF Drained, At, Drains, Quiet, Stages, streamVars, brokerVars
<1>3. CASE BrokerCancel(s)
  BY <1>3, StreamKeeps DEF BrokerCancel, CloseCancel, procVars, Drains
<1>4. CASE BrokerClose(s)
  <2>1. open' = {} /\ closed' /\ poll' = poll /\ conn' = conn
    BY <1>4 DEF BrokerClose, CloseAll, FanOutSafe
  <2> QED
    BY <1>4, <2>1, StreamKeeps DEF BrokerClose, procVars, Drains
<1>5. CASE BrokerWait(s)
  <2>1. stage[s] = "close" /\ grpc = "stopped" /\ closed /\ poll.pc = "exit"
    BY <1>5 DEF BrokerWait, At, Drains
  <2> QED
    BY <1>5, <1>t, <2>1
    DEF BrokerWait, At, Drains, Quiet, Stages, streamVars, brokerVars
<1>6. CASE StopBridge(s) \/ Deadline(s)
  <2>1. stage[s] = "bridge" /\ "listener" \in down /\ Quiet
    BY <1>6 DEF StopBridge, Deadline, At, Drains
  <2> QED
    BY <1>6, <1>t, <2>1
    DEF StopBridge, Deadline, At, Drains, Quiet, Stages, streamVars, brokerVars
<1>7. CASE StopInner(s)
  <2>1. stage[s] = "inner" /\ "listener" \in down /\ Quiet
    BY <1>7 DEF StopInner, At, Drains
  <2> QED
    BY <1>7, <1>t, <2>1
    DEF StopInner, At, Drains, Quiet, Stages, streamVars, brokerVars
<1> QED
  BY <1>1, <1>2, <1>3, <1>4, <1>5, <1>6, <1>7 DEF Stop

\* Every step of the process preserves the invariant.
LEMMA DrainsStep ==
  ASSUME StreamInv, Drains, FanOutSafe, [ProcessNext]_allVars
  PROVE  Drains'
<1>t. stage \in [Stoppers -> Stages] /\ rpcs \in [Kinds -> Nat]
  BY DEF Drains
<1>1. CASE Publish /\ UNCHANGED procVars
  BY <1>1, StreamKeeps DEF Publish, brokerVars, procVars, Drains
<1>2. ASSUME NEW k \in Kinds, RpcBegin(k) \/ RpcEnd(k) PROVE Drains'
  <2>1. rpcs' \in [Kinds -> Nat]
    BY <1>2, <1>t DEF RpcBegin, RpcEnd
  <2>2. grpc = "stopped" => FALSE
    BY <1>2 DEF RpcBegin, RpcEnd, Drains, NoRpcs
  <2> QED
    BY <1>2, <2>1, <2>2 DEF RpcBegin, RpcEnd, Drains, Quiet, streamVars, brokerVars
<1>3. CASE Signal \/ RestartAdmin \/ Resolve
  BY <1>3, <1>t DEF Signal, RestartAdmin, Resolve, At, Drains, Quiet, Stages,
                    streamVars, brokerVars
<1>4. CASE MainReturns \/ Exec \/ Kill
  BY <1>4 DEF MainReturns, Exec, Kill, Gone, NoRpcs, Drains, Stages
<1>5. CASE Boot
  BY <1>5, AsideKeeps DEF Boot
<1>6. CASE UNCHANGED allVars
  BY <1>6, AsideKeeps DEF allVars, procVars
<1> QED
  BY <1>1, <1>2, <1>3, <1>4, <1>5, <1>6, PollKeeps, ClientKeeps, StopKeeps
  DEF ProcessNext

\* "Drain external-facing servers, then shut down internal components", also
\* when a signal and a restart do it at the same time, and as far as it is so
\* when the five seconds of the bridge are over first.
THEOREM ShutdownInOrder == ProcessSpec => []DrainedInOrder
<1>1. ProcessInit => StreamInv /\ FanOutSafe /\ Drains
  BY DrainsInit, StreamInvInit DEF ProcessInit, StreamInit, FanOutSafe
<1>2. StreamInv /\ FanOutSafe /\ Drains /\ [ProcessNext]_allVars
         => (StreamInv /\ FanOutSafe /\ Drains)'
  BY DrainsStep, FanOutStep, StreamInvStep
<1>3. Drains => DrainedInOrder
  BY DEF Drains, Quiet, DrainedInOrder
<1> QED
  BY <1>1, <1>2, <1>3, PTL DEF ProcessSpec

-----------------------------------------------------------------------------
(* The feed *)

\* The channel holds the events after a, up to the broker's cursor as long as
\* the connection is in the fan-out set.
Carries(ch, a, cur, c, fan) ==
    /\ a + Len(ch) <= cur /\ (c \in fan => a + Len(ch) = cur)
    /\ \A i \in 1..Len(ch) : ch[i] = a + i

Ends(o, n) == o # <<>> /\ o[Len(o)] = n

\* Live delivery goes on where the replay ended: either right away, or once
\* the gate has been received.
Joins(r, a, o) ==
    IF r.gate # 0 THEN Ends(o, r.gate) /\ a < r.gate
    ELSE IF o = <<>> THEN a <= r.since ELSE Ends(o, a)

\* A connection that is not broken misses nothing; lg is the length of the log.
Whole(c, r, ch, o, cur, lg, fan) ==
    r.pc # "off" /\ ~r.broken =>
        /\ r.since <= lg
        /\ r.pc = "backfill" =>
              /\ Carries(ch, r.cut, cur, c, fan)
              /\ r.last <= lg
              /\ IF r.last = r.since THEN o = <<>> ELSE Ends(o, r.last)
        /\ r.pc = "live" =>
              \E a \in 0..cur : Carries(ch, a, cur, c, fan) /\ Joins(r, a, o)

\* The broker has read no more than there is.
PollHolds ==
    /\ poll \in [pc : {"tick", "read", "fan", "exit"}, to : Nat]
    /\ cursor <= log
    /\ poll.pc \in {"read", "fan"} => cursor < poll.to /\ poll.to <= log

FeedInv ==
    /\ PollHolds
    /\ \A c \in Conns :
          /\ c \notin foreign => seen[c] <= log
          /\ Whole(c, conn[c], chan[c], out[c], cursor, log, subs)

\* More events, a later cursor for those who are not in the fan-out set, and
\* no fan-out set at all take nothing away.
LEMMA WholeLoose ==
  ASSUME NEW c, NEW r \in ConnRec, NEW ch \in Seq(Nat), NEW o \in Seq(Nat),
         NEW cur \in Nat, NEW lg \in Nat, NEW fan,
         NEW cur2 \in Nat, NEW lg2 \in Nat, NEW fan2,
         Whole(c, r, ch, o, cur, lg, fan), cur <= cur2, lg <= lg2,
         c \in fan2 => c \in fan /\ cur = cur2
  PROVE  Whole(c, r, ch, o, cur2, lg2, fan2)
<1>0. Len(ch) \in Nat /\ r.since \in Nat /\ r.last \in Nat /\ r.cut \in Nat
  BY LenProperties DEF ConnRec
<1>1. ASSUME NEW a \in Nat, Carries(ch, a, cur, c, fan)
      PROVE  Carries(ch, a, cur2, c, fan2)
  BY <1>0, <1>1 DEF Carries
<1>2. SUFFICES ASSUME r.pc # "off", ~r.broken
               PROVE  Whole(c, r, ch, o, cur2, lg2, fan2)
  BY Zenon DEF Whole
<1>3. r.since <= lg2
  BY <1>0, <1>2 DEF Whole
<1>4. ASSUME r.pc = "backfill"
      PROVE  /\ Carries(ch, r.cut, cur2, c, fan2) /\ r.last <= lg2
             /\ IF r.last = r.since THEN o = <<>> ELSE Ends(o, r.last)
  <2>1. /\ Carries(ch, r.cut, cur, c, fan) /\ r.last <= lg
        /\ IF r.last = r.since THEN o = <<>> ELSE Ends(o, r.last)
    BY <1>2, <1>4, Zenon DEF Whole
  <2> QED
    BY <2>1, <1>0, <1>1
<1>5. ASSUME r.pc = "live"
      PROVE  \E a \in 0..cur2 : Carries(ch, a, cur2, c, fan2) /\ Joins(r, a, o)
  <2>1. PICK a \in 0..cur : Carries(ch, a, cur, c, fan) /\ Joins(r, a, o)
    BY <1>2, <1>5, Zenon DEF Whole
  <2>2. a \in Nat /\ a \in 0..cur2
    BY <2>1
  <2> QED
    BY <2>1, <2>2, <1>1
<1> QED
  BY <1>3, <1>4, <1>5 DEF Whole

\* Only connection c does something: the others miss nothing.
LEMMA FeedMoves ==
  ASSUME StreamInv, FeedInv, NEW c \in Conns, NEW r \in ConnRec,
         NEW ch \in Seq(Nat), NEW o \in Seq(Nat),
         conn' = [conn EXCEPT ![c] = r], chan' = [chan EXCEPT ![c] = ch],
         out' = [out EXCEPT ![c] = o], UNCHANGED <<log, cursor, poll>>,
         Whole(c, r, ch, o, cursor, log, subs'),
         c \notin foreign' => seen'[c] <= log,
         \A d \in Conns \ {c} :
            /\ d \in subs' => d \in subs
            /\ seen'[d] = seen[d] /\ (d \in foreign => d \in foreign')
  PROVE  FeedInv'
<1>1. PollHolds'
  BY DEF FeedInv, PollHolds
<1>2. ASSUME NEW d \in Conns, d # c
      PROVE  /\ d \notin foreign' => seen'[d] <= log'
             /\ Whole(d, conn'[d], chan'[d], out'[d], cursor', log', subs')
  <2>1. conn'[d] = conn[d] /\ chan'[d] = chan[d] /\ out'[d] = out[d]
    BY <1>2 DEF StreamInv, StreamTypes
  <2>2. /\ conn[d] \in ConnRec /\ chan[d] \in Seq(Nat) /\ out[d] \in Seq(Nat)
        /\ cursor \in Nat /\ log \in Nat
    BY DEF StreamInv, StreamTypes
  <2>3. Whole(d, conn[d], chan[d], out[d], cursor, log, subs)
    BY DEF FeedInv
  <2>4. Whole(d, conn[d], chan[d], out[d], cursor, log, subs')
    BY <1>2, <2>2, <2>3, WholeLoose
  <2> QED
    BY <1>2, <2>1, <2>4 DEF FeedInv
<1>3. /\ c \notin foreign' => seen'[c] <= log'
      /\ Whole(c, conn'[c], chan'[c], out'[c], cursor', log', subs')
  <2>1. conn'[c] = r /\ chan'[c] = ch /\ out'[c] = o
    BY DEF StreamInv, StreamTypes
  <2> QED
    BY <2>1
<1> QED
  BY <1>1, <1>2, <1>3 DEF FeedInv

\* The broker reads, or stops, or an event is published: the connections are
\* as they were.
LEMMA FeedStays ==
  ASSUME StreamInv, FeedInv, UNCHANGED <<cursor, conn, chan, out, seen, foreign>>,
         PollHolds', log' \in Nat, log <= log', \A c \in Conns : c \in subs' => c \in subs
  PROVE  FeedInv'
<1> SUFFICES ASSUME NEW c \in Conns
             PROVE  /\ c \notin foreign' => seen'[c] <= log'
                    /\ Whole(c, conn'[c], chan'[c], out'[c], cursor', log', subs')
  BY DEF FeedInv
<1>1. /\ conn[c] \in ConnRec /\ chan[c] \in Seq(Nat) /\ out[c] \in Seq(Nat)
      /\ cursor \in Nat /\ log \in Nat /\ seen[c] \in Nat
  BY DEF StreamInv, StreamTypes
<1>2. /\ Whole(c, conn[c], chan[c], out[c], cursor, log, subs)
      /\ c \notin foreign => seen[c] <= log
  BY DEF FeedInv
<1>3. Whole(c, conn[c], chan[c], out[c], cursor, log', subs')
  BY <1>1, <1>2, WholeLoose
<1> QED
  BY <1>1, <1>2, <1>3

\* Before anybody has connected.
LEMMA FeedInit == StreamInit => FeedInv
BY DEF StreamInit, FeedInv, PollHolds, Whole, Idle

\* What else handleSSE keeps of a connection that goes live.
LEMMA LiveKeeps ==
  ASSUME NEW c \in Conns, conn[c] \in ConnRec, NEW gate \in Nat, NEW f \in BOOLEAN
  PROVE  /\ Live(c, gate, f).since = conn[c].since
         /\ Live(c, gate, f).gone = conn[c].gone
         /\ Live(c, gate, f).broken <=> conn[c].broken \/ f
BY DEF Live, ConnRec

\* One event of the fan-out: it is the next one of every channel it is sent
\* on, and a subscriber it is dropped for is broken.
LEMMA FanFeed ==
  ASSUME StreamInv, FeedInv, PollFan
  PROVE  FeedInv'
<1>t. /\ cursor \in Nat /\ log \in Nat /\ PollHolds
      /\ cursor' = cursor + 1 /\ UNCHANGED <<subs, out, log, seen, foreign>>
      /\ poll.pc = "fan"
      /\ poll' = IF cursor' = poll.to THEN [poll EXCEPT !.pc = "tick"] ELSE poll
  BY DEF StreamInv, StreamTypes, FeedInv, PollFan
<1>1. PollHolds'
  BY <1>t DEF PollHolds
<1>2. ASSUME NEW c \in Conns
      PROVE  Whole(c, conn'[c], chan'[c], out'[c], cursor', log', subs')
  <2>0. /\ conn[c] \in ConnRec /\ chan[c] \in Seq(Nat) /\ out[c] \in Seq(Nat)
        /\ Listed(c) /\ Whole(c, conn[c], chan[c], out[c], cursor, log, subs)
        /\ Len(chan[c]) \in Nat
    BY LenProperties DEF StreamInv, StreamTypes, FeedInv
  <2>1. /\ chan'[c] = IF c \in subs /\ Fits(c) THEN Append(chan[c], cursor + 1)
                      ELSE chan[c]
        /\ conn'[c] = [conn[c] EXCEPT !.broken = @ \/ (c \in subs /\ ~Fits(c))]
    BY Zenon DEF PollFan
  <2>2. /\ conn'[c].pc = conn[c].pc /\ conn'[c].since = conn[c].since
        /\ conn'[c].cut = conn[c].cut /\ conn'[c].last = conn[c].last
        /\ conn'[c].gate = conn[c].gate
        /\ conn'[c].broken <=> conn[c].broken \/ (c \in subs /\ ~Fits(c))
    BY <2>0, <2>1 DEF ConnRec
  <2> SUFFICES ASSUME conn[c].pc # "off", ~conn[c].broken, ~(c \in subs /\ ~Fits(c))
               PROVE  Whole(c, conn'[c], chan'[c], out'[c], cursor', log', subs')
    BY <2>2, Zenon DEF Whole
  <2>3. ASSUME NEW a \in Nat, Carries(chan[c], a, cursor, c, subs)
        PROVE  Carries(chan'[c], a, cursor + 1, c, subs)
    <3>1. CASE c \in subs
      <4>1. chan'[c] = Append(chan[c], cursor + 1) /\ cursor + 1 \in Nat
        BY <3>1, <2>1, <1>t
      <4>2. /\ Len(chan'[c]) = Len(chan[c]) + 1
            /\ \A i \in 1..Len(chan[c]) + 1 :
                  chan'[c][i] = IF i = Len(chan[c]) + 1 THEN cursor + 1 ELSE chan[c][i]
        BY <4>1, <2>0, AppendProperties, LenProperties
      <4>3. /\ a + Len(chan[c]) = cursor
            /\ \A i \in 1..Len(chan[c]) : chan[c][i] = a + i
        BY <3>1, <2>3 DEF Carries
      <4>4. \A i \in 1..Len(chan[c]) + 1 : chan'[c][i] = a + i
        <5> SUFFICES ASSUME NEW i \in 1..Len(chan[c]) + 1 PROVE chan'[c][i] = a + i
          OBVIOUS
        <5>1. CASE i = Len(chan[c]) + 1
          <6>1. chan'[c][i] = cursor + 1
            BY <5>1, <4>2
          <6> QED
            BY <5>1, <6>1, <4>3, <2>0, <1>t
        <5>2. CASE i # Len(chan[c]) + 1
          <6>1. i \in 1..Len(chan[c])
            BY <5>2, <2>0
          <6> QED
            BY <5>2, <6>1, <4>2, <4>3
        <5> QED
          BY <5>1, <5>2
      <4>5. a + Len(chan'[c]) = cursor + 1
        BY <4>2, <4>3, <2>0, <1>t
      <4>6. Len(chan'[c]) = Len(chan[c]) + 1 /\ cursor + 1 \in Nat
        BY <4>2, <1>t
      <4> HIDE DEF Fits
      <4> QED
        BY <4>4, <4>5, <4>6 DEF Carries
    <3>2. CASE c \notin subs
      BY <3>2, <2>0, <2>1, <2>3, <1>t DEF Carries
    <3> QED
      BY <3>1, <3>2
  <2>4. CASE conn[c].pc = "subscribe"
    BY <2>4, <2>2, <2>0, <1>t DEF Whole
  <2>5. CASE conn[c].pc = "backfill"
    <3>1. /\ Carries(chan[c], conn[c].cut, cursor, c, subs) /\ conn[c].cut \in Nat
          /\ conn[c].last <= log /\ conn[c].since <= log
          /\ IF conn[c].last = conn[c].since THEN out[c] = <<>>
             ELSE Ends(out[c], conn[c].last)
      BY <2>0, <2>5 DEF Whole, ConnRec
    <3>2. Carries(chan'[c], conn[c].cut, cursor + 1, c, subs)
      BY <3>1, <2>3
    <3> QED
      BY <3>1, <3>2, <2>2, <2>5, <1>t DEF Whole
  <2>6. CASE conn[c].pc = "live"
    <3>1. PICK a \in 0..cursor : Carries(chan[c], a, cursor, c, subs)
                                 /\ Joins(conn[c], a, out[c])
      BY <2>0, <2>6 DEF Whole
    <3>2. conn[c].since <= log
      BY <2>0, <2>6 DEF Whole
    <3>3. a \in Nat /\ a \in 0..(cursor + 1)
      BY <3>1, <1>t
    <3>4. Carries(chan'[c], a, cursor + 1, c, subs)
      BY <3>1, <3>3, <2>3
    <3>5. Joins(conn'[c], a, out[c])
      BY <3>1, <2>2 DEF Joins
    <3> QED
      BY <3>2, <3>3, <3>4, <3>5, <2>2, <2>6, <1>t DEF Whole
  <2> QED
    BY <2>0, <2>4, <2>5, <2>6 DEF ConnRec
<1> QED
  BY <1>1, <1>2, <1>t DEF FeedInv

\* A request whose cursor is not of a lost log asks for nothing beyond the log.
LEMMA ConnectFeed ==
  ASSUME StreamInv, FeedInv, NEW c \in Conns, Connect(c)
  PROVE  FeedInv'
<1>a. /\ UNCHANGED <<log, cursor, poll, subs, seen, foreign>>
      /\ chan' = [chan EXCEPT ![c] = <<>>] /\ out' = [out EXCEPT ![c] = <<>>]
  BY DEF Connect, brokerVars
<1>b. PICK since \in {0, seen[c]} :
         conn' = [conn EXCEPT ![c] = [Idle EXCEPT !.pc = "subscribe",
                               !.since = since, !.last = since,
                               !.broken = since # 0 /\ c \in foreign]]
  BY DEF Connect
<1>t. /\ since \in Nat /\ log \in Nat /\ (c \notin foreign => seen[c] <= log)
  BY Before DEF FeedInv
<1> DEFINE b == since # 0 /\ c \in foreign
           r == [Idle EXCEPT !.pc = "subscribe", !.since = since,
                             !.last = since, !.broken = b]
<1>1. conn' = [conn EXCEPT ![c] = r]
  BY <1>b, Zenon
<1>2. b \in BOOLEAN
  OBVIOUS
<1>4. ~b => since <= log
  BY <1>t
<1> HIDE DEF b
<1>3. /\ r \in ConnRec /\ r.pc = "subscribe" /\ r.since = since
      /\ r.broken = b
  BY <1>t, <1>2 DEF Idle, ConnRec
<1> HIDE DEF r
<1>5. Whole(c, r, <<>>, <<>>, cursor, log, subs')
  BY <1>3, <1>4 DEF Whole
<1> QED
  BY <1>a, <1>1, <1>3, <1>5, <1>t, EmptyRising, FeedMoves

\* The cut is the point after which the channel carries everything.
LEMMA SubscribeFeed ==
  ASSUME StreamInv, FeedInv, NEW c \in Conns, Subscribe(c)
  PROVE  FeedInv'
<1>t. /\ conn[c] \in ConnRec /\ chan[c] \in Seq(Nat) /\ out[c] \in Seq(Nat)
      /\ cursor \in Nat /\ log \in Nat
      /\ Orderly(conn[c], chan[c], out[c], cursor)
      /\ chan = [chan EXCEPT ![c] = chan[c]] /\ out = [out EXCEPT ![c] = out[c]]
      /\ Whole(c, conn[c], chan[c], out[c], cursor, log, subs)
      /\ (c \notin foreign => seen[c] <= log)
  BY Before DEF FeedInv
<1>a. /\ conn[c].pc = "subscribe"
      /\ UNCHANGED <<log, cursor, poll, seen, foreign, chan, out>>
      /\ \A d \in Conns \ {c} : d \in subs' => d \in subs
  BY DEF Subscribe
<1>b. chan[c] = <<>> /\ out[c] = <<>> /\ conn[c].last = conn[c].since
      /\ Len(chan[c]) = 0
  BY <1>t, <1>a DEF Orderly
<1>c. Carries(chan[c], cursor, cursor, c, subs') /\ cursor \in 0..cursor
  BY <1>b, <1>t DEF Carries
<1>d. ~conn[c].broken => conn[c].since <= log
  BY <1>t, <1>a DEF Whole
<1>1. CASE conn[c].since = cursor
  <2> DEFINE r == Live(c, 0, FALSE)
  <2>1. conn' = [conn EXCEPT ![c] = r]
    BY <1>1 DEF Subscribe
  <2>2. /\ r \in ConnRec /\ r.pc = "live" /\ r.gate = 0 /\ r.since = cursor
        /\ r.broken <=> conn[c].broken
    BY <1>t, <1>1, LiveType, LiveKeeps
  <2> HIDE DEF r
  <2>3. Joins(r, cursor, out[c])
    BY <2>2, <1>b, <1>t DEF Joins
  <2>4. Whole(c, r, chan[c], out[c], cursor, log, subs')
    BY <2>2, <2>3, <1>1, <1>c, <1>d DEF Whole
  <2> QED
    BY <2>1, <2>2, <2>4, <1>a, <1>t, FeedMoves
<1>2. CASE conn[c].since # cursor
  <2> DEFINE r == [conn[c] EXCEPT !.pc = "backfill", !.cut = cursor]
  <2>1. conn' = [conn EXCEPT ![c] = r]
    BY <1>2 DEF Subscribe
  <2>2. /\ r \in ConnRec /\ r.pc = "backfill" /\ r.cut = cursor
        /\ r.last = conn[c].since /\ r.since = conn[c].since
        /\ r.broken <=> conn[c].broken
    BY <1>t, <1>b DEF ConnRec
  <2> HIDE DEF r
  <2>4. Whole(c, r, chan[c], out[c], cursor, log, subs')
    BY <2>2, <1>b, <1>c, <1>d DEF Whole
  <2> QED
    BY <2>1, <2>2, <2>4, <1>a, <1>t, FeedMoves
<1> QED
  BY <1>1, <1>2

\* What is written last is what is written last by then.
LEMMA JoinEnds ==
  ASSUME NEW s \in Seq(Nat), NEW t \in Seq(Nat), NEW n, Ends(t, n)
  PROVE  Ends(s \o t, n)
<1> DEFINE u == s \o t
<1>1. /\ u \in Seq(Nat) /\ Len(u) = Len(s) + Len(t)
      /\ \A i \in 1..Len(s) + Len(t) :
            u[i] = IF i <= Len(s) THEN s[i] ELSE t[i - Len(s)]
  BY ConcatProperties
<1>2. Len(s) \in Nat /\ Len(t) \in Nat \ {0} /\ t[Len(t)] = n
  BY LenProperties, EmptySeq DEF Ends
<1> HIDE DEF u
<1>3. Len(u) \in 1..Len(s) + Len(t) /\ ~(Len(u) <= Len(s)) /\ Len(u) - Len(s) = Len(t)
  BY <1>1, <1>2
<1>4. u[Len(u)] = n
  BY <1>1, <1>2, <1>3
<1>5. u # <<>>
  BY <1>1, <1>2, EmptySeq
<1> QED
  BY <1>4, <1>5 DEF Ends, u

\* A page ends with its last event.
LEMMA RunEnds ==
  ASSUME NEW lo \in Nat, NEW hi \in Nat, lo < hi
  PROVE  Ends(Run(lo + 1, hi), hi)
<1> DEFINE u == [i \in 1..(hi - lo) |-> lo + i]
<1>1. Run(lo + 1, hi) = u
  BY DEF Run
<1>2. u \in Seq(Nat) /\ Len(u) = hi - lo /\ hi - lo \in 1..(hi - lo)
  OBVIOUS
<1>3. u[hi - lo] = hi
  BY <1>2
<1> HIDE DEF u
<1> QED
  BY <1>1, <1>2, <1>3, EmptySeq DEF Ends

\* A page of the replay goes on from the last event, within the log, and the
\* replay is over when its end is the cut.
LEMMA Paged ==
  ASSUME StreamInv, NEW c \in Conns, Backfill(c)
  PROVE  \E to \in Nat :
            /\ conn[c].last < to /\ to <= log
            /\ Write(c, Run(conn[c].last + 1, to))
            /\ \/ to = conn[c].cut /\ conn' = [conn EXCEPT ![c] = Live(c, 0, FALSE)]
               \/ conn' = [conn EXCEPT ![c] = [conn[c] EXCEPT !.last = to]]
<1> DEFINE last == conn[c].last
           cut == conn[c].cut
           page == (last + 1)..ReadUpTo(last)
           to == IF cut \in page THEN cut ELSE ReadUpTo(last)
<1>a. /\ page # {} /\ Write(c, Run(last + 1, to))
      /\ conn' = [conn EXCEPT ![c] = IF cut \in page THEN Live(c, 0, FALSE)
                                     ELSE [@ EXCEPT !.last = to]]
  BY Zenon DEF Backfill
<1>t. last \in Nat /\ cut \in Nat /\ log \in Nat
  BY DEF StreamInv, StreamTypes, ConnRec
<1>b. ReadUpTo(last) \in Nat /\ ReadUpTo(last) <= log
  BY <1>t, StreamAssumption DEF ReadUpTo
<1>c. to \in Nat /\ last < to /\ to <= log
  BY <1>a, <1>b, <1>t
<1>d. \/ to = cut /\ conn' = [conn EXCEPT ![c] = Live(c, 0, FALSE)]
      \/ conn' = [conn EXCEPT ![c] = [conn[c] EXCEPT !.last = to]]
  BY <1>a
<1> HIDE DEF to, page
<1> QED
  BY <1>a, <1>c, <1>d

\* What is written is of the log, and so is the cursor it leaves the client.
LEMMA WriteSeen ==
  ASSUME StreamInv, FeedInv, NEW c \in Conns, NEW t \in Seq(Nat), NEW n \in Nat,
         Write(c, t), Ends(t, n), n <= log
  PROVE  /\ c \notin foreign' => seen'[c] <= log
         /\ \A d \in Conns \ {c} :
               seen'[d] = seen[d] /\ (d \in foreign => d \in foreign')
<1>1. seen \in [Conns -> Nat] /\ (c \notin foreign => seen[c] <= log)
  BY DEF StreamInv, StreamTypes, FeedInv
<1>2. CASE conn[c].gone
  BY <1>1, <1>2 DEF Write
<1>3. CASE ~conn[c].gone
  <2>1. seen' = [seen EXCEPT ![c] = n] /\ foreign' = foreign \ {c}
    BY <1>3 DEF Write, Ends
  <2> QED
    BY <2>1, <1>1
<1> QED
  BY <1>2, <1>3

\* A page of the replay: once the cut is met, the channel goes on from there.
LEMMA BackfillFeed ==
  ASSUME StreamInv, FeedInv, NEW c \in Conns, Backfill(c)
  PROVE  FeedInv'
<1>t. /\ conn[c] \in ConnRec /\ chan[c] \in Seq(Nat) /\ out[c] \in Seq(Nat)
      /\ cursor \in Nat /\ log \in Nat
      /\ Orderly(conn[c], chan[c], out[c], cursor)
      /\ chan = [chan EXCEPT ![c] = chan[c]]
      /\ Whole(c, conn[c], chan[c], out[c], cursor, log, subs)
  BY Before DEF FeedInv
<1>a. conn[c].pc = "backfill" /\ UNCHANGED <<log, cursor, poll, subs, chan>>
  BY DEF Backfill, brokerVars
<1>c. /\ conn[c].last \in Nat /\ conn[c].cut \in Nat /\ conn[c].since \in Nat
      /\ conn[c].since <= conn[c].last /\ conn[c].cut <= cursor
  BY <1>t, <1>a DEF ConnRec, Orderly, Replaying
<1>1. PICK to \in Nat :
         /\ conn[c].last < to /\ to <= log
         /\ Write(c, Run(conn[c].last + 1, to))
         /\ \/ to = conn[c].cut /\ conn' = [conn EXCEPT ![c] = Live(c, 0, FALSE)]
            \/ conn' = [conn EXCEPT ![c] = [conn[c] EXCEPT !.last = to]]
  BY Paged
<1> DEFINE t == Run(conn[c].last + 1, to)
           o == out[c] \o t
<1>2. t \in Seq(Nat) /\ Ends(t, to)
  BY <1>1, <1>c, RunRising, RunEnds
<1>3. /\ c \notin foreign' => seen'[c] <= log
      /\ \A d \in Conns \ {c} :
            seen'[d] = seen[d] /\ (d \in foreign => d \in foreign')
  BY <1>1, <1>2, WriteSeen
<1>4. out' = [out EXCEPT ![c] = o]
  BY <1>1 DEF Write
<1> HIDE DEF t
<1>5. o \in Seq(Nat) /\ Ends(o, to)
  BY <1>2, <1>t, JoinEnds, ConcatProperties
<1>e. o # <<>>
  BY <1>5 DEF Ends
<1> HIDE DEF o
<1>6. ~conn[c].broken => /\ Carries(chan[c], conn[c].cut, cursor, c, subs)
                         /\ conn[c].since <= log
  BY <1>t, <1>a DEF Whole
<1>7. CASE to = conn[c].cut /\ conn' = [conn EXCEPT ![c] = Live(c, 0, FALSE)]
  <2> DEFINE r == Live(c, 0, FALSE)
  <2>1. /\ r \in ConnRec /\ r.pc = "live" /\ r.gate = 0 /\ r.since = conn[c].since
        /\ r.broken <=> conn[c].broken
    BY <1>t, LiveType, LiveKeeps
  <2>2. conn' = [conn EXCEPT ![c] = r]
    BY <1>7
  <2> HIDE DEF r
  <2>3. Joins(r, conn[c].cut, o)
    BY <1>5, <1>7, <1>e, <2>1 DEF Joins
  <2>4. conn[c].cut \in 0..cursor
    BY <1>c, <1>t
  <2>5. Whole(c, r, chan[c], o, cursor, log, subs')
    BY <1>6, <1>a, <2>1, <2>3, <2>4 DEF Whole
  <2> QED
    BY <2>1, <2>2, <2>5, <1>a, <1>3, <1>4, <1>5, <1>t, FeedMoves
<1>8. CASE conn' = [conn EXCEPT ![c] = [conn[c] EXCEPT !.last = to]]
  <2> DEFINE r == [conn[c] EXCEPT !.last = to]
  <2>1. /\ r \in ConnRec /\ r.pc = "backfill" /\ r.cut = conn[c].cut
        /\ r.last = to /\ r.since = conn[c].since
        /\ r.broken <=> conn[c].broken
    BY <1>t, <1>a DEF ConnRec
  <2>2. conn' = [conn EXCEPT ![c] = r]
    BY <1>8
  <2> HIDE DEF r
  <2>3. r.last # r.since
    BY <2>1, <1>1, <1>c
  <2>4. Whole(c, r, chan[c], o, cursor, log, subs')
    BY <1>6, <1>5, <1>1, <1>a, <2>1, <2>3 DEF Whole
  <2> QED
    BY <2>1, <2>2, <2>4, <1>a, <1>3, <1>4, <1>5, <1>t, FeedMoves
<1> QED
  BY <1>1, <1>7, <1>8

\* The replay has come to the end of the log: it has passed the cut, so the
\* channel starts with what was written already, and the gate is in it.
LEMMA GateFeed ==
  ASSUME StreamInv, FeedInv, NEW c \in Conns, BackfillEnd(c) \/ BackfillError(c)
  PROVE  FeedInv'
<1>t. /\ conn[c] \in ConnRec /\ chan[c] \in Seq(Nat) /\ out[c] \in Seq(Nat)
      /\ cursor \in Nat /\ log \in Nat /\ PollHolds
      /\ Orderly(conn[c], chan[c], out[c], cursor)
      /\ chan = [chan EXCEPT ![c] = chan[c]] /\ out = [out EXCEPT ![c] = out[c]]
      /\ Whole(c, conn[c], chan[c], out[c], cursor, log, subs)
      /\ (c \notin foreign => seen[c] <= log)
  BY Before DEF FeedInv
<1>a. /\ conn[c].pc = "backfill"
      /\ UNCHANGED <<log, cursor, poll, subs, chan, out, seen, foreign>>
  BY DEF BackfillEnd, BackfillError, brokerVars
<1>b. PICK f \in BOOLEAN :
         conn' = [conn EXCEPT ![c] = Live(c, Gate(c), f)] /\ (f \/ BackfillEnd(c))
  BY DEF BackfillEnd, BackfillError
<1>c. /\ conn[c].last \in Nat /\ conn[c].cut \in Nat /\ conn[c].since \in Nat
      /\ Gate(c) \in Nat
  BY <1>t DEF ConnRec, Gate
<1> DEFINE r == Live(c, Gate(c), f)
<1>1. /\ r \in ConnRec /\ r.pc = "live" /\ r.gate = Gate(c)
      /\ r.since = conn[c].since
      /\ r.broken <=> conn[c].broken \/ f
  BY <1>t, <1>c, LiveType, LiveKeeps
<1> HIDE DEF r
<1>2. ASSUME ~conn[c].broken, ~f
      PROVE  /\ Carries(chan[c], conn[c].cut, cursor, c, subs)
             /\ conn[c].since <= log /\ conn[c].cut \in 0..cursor
             /\ Joins(r, conn[c].cut, out[c])
  <2>1. /\ Carries(chan[c], conn[c].cut, cursor, c, subs)
        /\ conn[c].since <= log /\ conn[c].last <= log
        /\ IF conn[c].last = conn[c].since THEN out[c] = <<>>
           ELSE Ends(out[c], conn[c].last)
    BY <1>t, <1>a, <1>2 DEF Whole
  <2>2. conn[c].last >= log /\ cursor <= log
    BY <1>b, <1>2, <1>t DEF BackfillEnd, PollHolds
  <2>3. /\ conn[c].cut <= cursor /\ conn[c].since <= conn[c].last
        /\ conn[c].since # conn[c].cut
        /\ conn[c].since < conn[c].cut => conn[c].last < conn[c].cut
    BY <1>t, <1>a DEF Orderly, Replaying
  <2>4. conn[c].cut < conn[c].since
    BY <2>1, <2>2, <2>3, <1>c, <1>t
  <2>5. Joins(r, conn[c].cut, out[c])
    <3>1. CASE conn[c].last = conn[c].since
      BY <3>1, <2>1, <2>4, <1>1, <1>c DEF Joins, Gate
    <3>2. CASE conn[c].last # conn[c].since
      <4>1. Gate(c) = conn[c].last /\ conn[c].last # 0
        BY <3>2, <2>3, <2>4, <1>c DEF Gate
      <4>2. conn[c].cut < conn[c].last
        BY <2>3, <2>4, <1>c
      <4> QED
        BY <3>2, <4>1, <4>2, <2>1, <1>1 DEF Joins
    <3> QED
      BY <3>1, <3>2
  <2> QED
    BY <2>1, <2>3, <2>5, <1>c, <1>t
<1>3. Whole(c, r, chan[c], out[c], cursor, log, subs')
  BY <1>1, <1>2, <1>a DEF Whole
<1>4. conn' = [conn EXCEPT ![c] = r]
  BY <1>b DEF r
<1> QED
  BY <1>a, <1>1, <1>3, <1>4, <1>t, FeedMoves

\* What the channel of an unbroken live connection starts with.
LEMMA NextEvent ==
  ASSUME StreamInv, NEW c \in Conns, chan[c] # <<>>,
         NEW a \in Nat, Carries(chan[c], a, cursor, c, subs)
  PROVE  /\ Head(chan[c]) = a + 1 /\ a + 1 \in 0..cursor
         /\ Carries(Tail(chan[c]), a + 1, cursor, c, subs)
<1>1. chan[c] \in Seq(Nat) /\ cursor \in Nat
  BY Before
<1>2. Len(chan[c]) \in Nat \ {0} /\ Head(chan[c]) = chan[c][1]
  BY <1>1, EmptySeq, LenProperties
<1>3. /\ Len(Tail(chan[c])) = Len(chan[c]) - 1
      /\ \A i \in 1..Len(Tail(chan[c])) : Tail(chan[c])[i] = chan[c][i + 1]
  BY <1>1, HeadTailProperties
<1>4. /\ a + Len(chan[c]) <= cursor /\ (c \in subs => a + Len(chan[c]) = cursor)
      /\ \A i \in 1..Len(chan[c]) : chan[c][i] = a + i
  BY DEF Carries
<1>5. Head(chan[c]) = a + 1 /\ a + 1 \in 0..cursor
  BY <1>1, <1>2, <1>4
<1>6. ASSUME NEW i \in 1..Len(Tail(chan[c]))
      PROVE  Tail(chan[c])[i] = (a + 1) + i
  <2>1. i + 1 \in 1..Len(chan[c]) /\ i \in Nat
    BY <1>2, <1>3
  <2>2. Tail(chan[c])[i] = a + (i + 1)
    BY <2>1, <1>3, <1>4
  <2> QED
    BY <2>1, <2>2
<1>7. (a + 1) + Len(Tail(chan[c])) = a + Len(chan[c])
  <2> DEFINE n == Len(chan[c])
             m == Len(Tail(chan[c]))
  <2>1. n \in Nat /\ m = n - 1
    BY <1>2, <1>3
  <2> HIDE DEF n, m
  <2>2. (a + 1) + m = a + n
    BY <2>1
  <2> QED
    BY <2>2 DEF n, m
<1>8. Carries(Tail(chan[c]), a + 1, cursor, c, subs)
  BY <1>4, <1>6, <1>7 DEF Carries
<1> QED
  BY <1>5, <1>8

\* The event received follows what was written, or the gate has yet to come.
LEMMA ReceiveFeed ==
  ASSUME StreamInv, FeedInv, NEW c \in Conns, Receive(c)
  PROVE  FeedInv'
<1> DEFINE ch == Tail(chan[c])
           head == Head(chan[c])
<1>t. /\ conn[c] \in ConnRec /\ chan[c] \in Seq(Nat) /\ out[c] \in Seq(Nat)
      /\ cursor \in Nat /\ log \in Nat /\ cursor <= log
      /\ Orderly(conn[c], chan[c], out[c], cursor)
      /\ out = [out EXCEPT ![c] = out[c]] /\ conn = [conn EXCEPT ![c] = conn[c]]
      /\ Whole(c, conn[c], chan[c], out[c], cursor, log, subs)
      /\ (c \notin foreign => seen[c] <= log)
  BY Before DEF FeedInv, PollHolds, StreamInv, StreamTypes
<1>a. /\ conn[c].pc = "live" /\ chan[c] # <<>>
      /\ chan' = [chan EXCEPT ![c] = ch] /\ UNCHANGED <<log, cursor, poll, subs>>
  BY DEF Receive, brokerVars
<1>b. head \in Nat /\ ch \in Seq(Nat) /\ head <= cursor /\ head <= log
  BY <1>a, <1>t, TailRising DEF Orderly
<1>c. ASSUME ~conn[c].broken
      PROVE  /\ conn[c].since <= log
             /\ \E a \in Nat : /\ head = a + 1 /\ a + 1 \in 0..cursor
                               /\ Joins(conn[c], a, out[c])
                               /\ Carries(ch, a + 1, cursor, c, subs)
  <2>1. PICK a \in 0..cursor : Carries(chan[c], a, cursor, c, subs)
                               /\ Joins(conn[c], a, out[c])
    BY <1>c, <1>a, <1>t DEF Whole
  <2>2. a \in Nat
    BY <2>1
  <2>3. conn[c].since <= log
    BY <1>c, <1>a, <1>t DEF Whole
  <2> QED
    BY <2>1, <2>2, <2>3, <1>a, NextEvent
<1> HIDE DEF ch, head
<1>1. CASE conn[c].gate # 0
  <2> DEFINE gate == IF head = conn[c].gate THEN 0 ELSE conn[c].gate
             r == [conn[c] EXCEPT !.gate = gate]
  <2>1. conn' = [conn EXCEPT ![c] = r] /\ UNCHANGED <<out, seen, foreign>>
    BY <1>1, <1>t DEF Receive, head
  <2>2. gate \in Nat
    BY <1>t DEF ConnRec
  <2>3. /\ r \in ConnRec /\ r.pc = "live" /\ r.gate = gate
        /\ r.since = conn[c].since /\ (r.broken <=> conn[c].broken)
    BY <2>2, <1>t, <1>a DEF ConnRec
  <2> HIDE DEF r
  <2>4. Whole(c, r, ch, out[c], cursor, log, subs')
    <3> SUFFICES ASSUME ~conn[c].broken
                 PROVE  Whole(c, r, ch, out[c], cursor, log, subs')
      BY <2>3, Zenon DEF Whole
    <3>1. PICK a \in Nat : /\ head = a + 1 /\ a + 1 \in 0..cursor
                           /\ Joins(conn[c], a, out[c])
                           /\ Carries(ch, a + 1, cursor, c, subs)
      BY <1>c
    <3>2. Ends(out[c], conn[c].gate) /\ a < conn[c].gate /\ conn[c].gate \in Nat
      BY <3>1, <1>1, <1>t DEF Joins, ConnRec
    <3>3. Joins(r, a + 1, out[c])
      <4>1. CASE head = conn[c].gate
        BY <4>1, <3>1, <3>2, <2>3 DEF Joins, Ends
      <4>2. CASE head # conn[c].gate
        <5>1. a + 1 < conn[c].gate
          BY <4>2, <3>1, <3>2
        <5> QED
          BY <4>2, <5>1, <3>2, <2>3, <1>1 DEF Joins
      <4> QED
        BY <4>1, <4>2
    <3> QED
      BY <3>1, <3>3, <2>3, <1>a, <1>c DEF Whole
  <2> QED
    BY <2>1, <2>3, <2>4, <1>a, <1>b, <1>t, FeedMoves
<1>2. CASE conn[c].gate = 0
  <2> DEFINE o == out[c] \o <<head>>
  <2>1. /\ out' = [out EXCEPT ![c] = o] /\ conn' = [conn EXCEPT ![c] = conn[c]]
        /\ Write(c, <<head>>)
    BY <1>2, <1>t DEF Receive, Write, head
  <2>2. <<head>> \in Seq(Nat) /\ Ends(<<head>>, head)
    BY <1>b DEF Ends
  <2>3. /\ c \notin foreign' => seen'[c] <= log
        /\ \A d \in Conns \ {c} :
              seen'[d] = seen[d] /\ (d \in foreign => d \in foreign')
    BY <2>1, <2>2, <1>b, WriteSeen
  <2>4. o \in Seq(Nat) /\ Ends(o, head)
    BY <2>2, <1>t, JoinEnds, ConcatProperties
  <2> HIDE DEF o
  <2>5. Whole(c, conn[c], ch, o, cursor, log, subs')
    <3> SUFFICES ASSUME ~conn[c].broken
                 PROVE  Whole(c, conn[c], ch, o, cursor, log, subs')
      BY Zenon DEF Whole
    <3>1. PICK a \in Nat : /\ head = a + 1 /\ a + 1 \in 0..cursor
                           /\ Joins(conn[c], a, out[c])
                           /\ Carries(ch, a + 1, cursor, c, subs)
      BY <1>c
    <3>2. Joins(conn[c], a + 1, o)
      BY <3>1, <2>4, <1>2 DEF Joins, Ends
    <3> QED
      BY <3>1, <3>2, <1>a, <1>c DEF Whole
  <2> QED
    BY <2>1, <2>3, <2>4, <2>5, <1>a, <1>b, <1>t, FeedMoves
<1> QED
  BY <1>1, <1>2

\* A client that goes away, and the request that returns.
LEMMA LeaveFeed ==
  ASSUME StreamInv, FeedInv, NEW c \in Conns, Disconnect(c) \/ Leave(c)
  PROVE  FeedInv'
<1>t. /\ conn[c] \in ConnRec /\ chan[c] \in Seq(Nat) /\ out[c] \in Seq(Nat)
      /\ chan = [chan EXCEPT ![c] = chan[c]] /\ out = [out EXCEPT ![c] = out[c]]
      /\ Whole(c, conn[c], chan[c], out[c], cursor, log, subs)
      /\ (c \notin foreign => seen[c] <= log)
  BY Before DEF FeedInv
<1>1. CASE Disconnect(c)
  <2> DEFINE r == [conn[c] EXCEPT !.gone = TRUE]
  <2>1. /\ conn' = [conn EXCEPT ![c] = r]
        /\ UNCHANGED <<log, cursor, poll, subs, chan, out, seen, foreign>>
    BY <1>1, <1>t DEF Disconnect, brokerVars
  <2>2. /\ r \in ConnRec /\ r.pc = conn[c].pc /\ r.since = conn[c].since
        /\ r.cut = conn[c].cut /\ r.last = conn[c].last /\ r.gate = conn[c].gate
        /\ (r.broken <=> conn[c].broken)
    BY <1>t DEF ConnRec
  <2> HIDE DEF r
  <2>3. Whole(c, r, chan[c], out[c], cursor, log, subs')
    BY <2>1, <2>2, <1>t DEF Whole, Joins
  <2> QED
    BY <2>1, <2>2, <2>3, <1>t, FeedMoves
<1>2. CASE Leave(c)
  <2>1. /\ conn' = [conn EXCEPT ![c] = Idle]
        /\ chan' = [chan EXCEPT ![c] = <<>>] /\ out' = [out EXCEPT ![c] = <<>>]
        /\ subs' = subs \ {c} /\ UNCHANGED <<log, cursor, poll, seen, foreign>>
    BY <1>2 DEF Leave
  <2>2. Whole(c, Idle, <<>>, <<>>, cursor, log, subs')
    BY IdleType DEF Whole
  <2> QED
    BY <2>1, <2>2, <1>t, IdleType, EmptyRising, FeedMoves
<1> QED
  BY <1>1, <1>2

\* The end of a process: who has a cursor into a lost log is marked as such.
LEMMA GoneFeed ==
  ASSUME StreamInv, FeedInv, NEW how, Gone(how)
  PROVE  FeedInv'
<1>a. /\ cursor' = 0 /\ poll' = [pc |-> "tick", to |-> 0] /\ seen' = seen
      /\ \/ log' = log /\ foreign' = foreign
         \/ log' = 0 /\ foreign' = {c \in Conns : seen[c] # 0}
      /\ conn' = [c \in Conns |-> Idle]
  BY DEF Gone
<1>b. log \in Nat
  BY DEF StreamInv, StreamTypes
<1>1. PollHolds'
  BY <1>a, <1>b DEF PollHolds
<1>2. ASSUME NEW c \in Conns
      PROVE  /\ c \notin foreign' => seen'[c] <= log'
             /\ Whole(c, conn'[c], chan'[c], out'[c], cursor', log', subs')
  <2>1. conn'[c].pc = "off"
    BY <1>a, IdleType
  <2>2. c \notin foreign' => seen'[c] <= log'
    BY <1>a DEF FeedInv
  <2> QED
    BY <2>1, <2>2 DEF Whole
<1> QED
  BY <1>1, <1>2 DEF FeedInv

\* Every step of the process keeps the promise within reach.
LEMMA FeedStep ==
  ASSUME StreamInv, FeedInv, [ProcessNext]_allVars
  PROVE  FeedInv'
<1>t. /\ log \in Nat /\ log + 1 \in Nat /\ log <= log + 1 /\ log <= log
      /\ cursor \in Nat /\ PollHolds
  BY DEF StreamInv, StreamTypes, FeedInv
<1>1. CASE Publish
  <2>1. PollHolds'
    BY <1>1, <1>t DEF Publish, PollHolds, brokerVars
  <2> QED
    BY <1>1, <1>t, <2>1, FeedStays DEF Publish, brokerVars
<1>2. CASE PollRead \/ PollLock \/ PollExit \/ CloseCancel \/ CloseAll
  <2>1. CASE PollRead
    <3>1. ReadUpTo(cursor) \in Nat /\ ReadUpTo(cursor) <= log
      BY <1>t, StreamAssumption DEF ReadUpTo
    <3>2. PollHolds'
      BY <2>1, <3>1, <1>t DEF PollRead, PollHolds
    <3> QED
      BY <2>1, <1>t, <3>2, FeedStays DEF PollRead
  <2>2. CASE PollLock \/ PollExit \/ CloseCancel \/ CloseAll
    <3>2. PollHolds'
      BY <2>2, <1>t DEF PollLock, PollExit, CloseCancel, CloseAll, PollHolds
    <3> QED
      BY <2>2, <1>t, <3>2, FeedStays DEF PollLock, PollExit, CloseCancel, CloseAll
  <2> QED
    BY <1>2, <2>1, <2>2
<1>3. CASE UNCHANGED streamVars
  <2>1. PollHolds'
    BY <1>3, <1>t DEF streamVars, brokerVars, PollHolds
  <2> QED
    BY <1>3, <1>t, <2>1, FeedStays DEF streamVars, brokerVars
<1>4. CASE Poll
  BY <1>4, <1>2, FanFeed DEF Poll
<1>5. ASSUME NEW c \in Conns,
             \/ Accept(c) \/ Serve(c) \/ BackfillError(c) \/ Hangup(c)
      PROVE  FeedInv'
  BY <1>5, ConnectFeed, SubscribeFeed, BackfillFeed, GateFeed, ReceiveFeed,
     LeaveFeed DEF Accept, Serve, Hangup
<1>6. CASE Aside
  BY <1>6, <1>3 DEF Aside, RpcBegin, RpcEnd, Signal, RestartAdmin, Resolve, Boot,
                    Stall, Resume
<1>7. ASSUME NEW s \in Stoppers, Stop(s) PROVE FeedInv'
  BY <1>7, <1>2, <1>3 DEF Stop, GracefulStop, Drained, BrokerCancel, BrokerClose,
                          BrokerWait, StopBridge, Deadline, StopInner
<1>8. CASE MainReturns \/ Exec \/ Kill
  BY <1>8, GoneFeed DEF MainReturns, Exec, Kill
<1>9. CASE UNCHANGED allVars
  BY <1>9, <1>3 DEF allVars
<1> QED
  BY <1>1, <1>4, <1>5, <1>6, <1>7, <1>8, <1>9 DEF ProcessNext, Aside

-----------------------------------------------------------------------------
(* The refinement *)

\* A connection as the feed sees it, when the broker's context is `done'.
View(r, o, done) ==
    IF r.pc = "off" THEN [st |-> "off", ask |-> 0, out |-> <<>>]
    ELSE IF r.broken THEN [st |-> "void", ask |-> 0, out |-> <<>>]
    ELSE [st |-> IF r.gone \/ done THEN "ending" ELSE "on",
          ask |-> r.since, out |-> o]

\* The feed is what is seen of every connection.
LEMMA FeedIsViews == FeedOf = [c \in Conns |-> View(conn[c], out[c], cancelled)]
BY Zenon DEF FeedOf, View

\* Nothing that is seen changes.
LEMMA SeenSame ==
  ASSUME UNCHANGED <<log, conn, out, cancelled>>
  PROVE  UNCHANGED <<log, FeedOf>>
BY DEF FeedOf

\* Only connection c does something, and that is all that is seen.
LEMMA SeenOne ==
  ASSUME StreamInv, NEW c \in Conns, NEW r, NEW o,
         conn' = [conn EXCEPT ![c] = r], out' = [out EXCEPT ![c] = o],
         cancelled' = cancelled
  PROVE  /\ FeedOf[c] = View(conn[c], out[c], cancelled)
         /\ FeedOf' = [FeedOf EXCEPT ![c] = View(r, o, cancelled)]
         /\ View(r, o, cancelled) = View(conn[c], out[c], cancelled) => FeedOf' = FeedOf
<1> DEFINE F == [d \in Conns |-> View(conn[d], out[d], cancelled)]
           G == [d \in Conns |-> View(conn'[d], out'[d], cancelled')]
<1>1. FeedOf = F /\ FeedOf' = G
  BY FeedIsViews, Zenon DEF FeedOf, View
<1>2. ASSUME NEW d \in Conns, d # c PROVE conn'[d] = conn[d] /\ out'[d] = out[d]
  BY <1>2 DEF StreamInv, StreamTypes
<1>3. conn'[c] = r /\ out'[c] = o
  BY DEF StreamInv, StreamTypes
<1>4. ASSUME NEW d \in Conns
      PROVE  G[d] = IF d = c THEN View(r, o, cancelled) ELSE F[d]
  BY <1>2, <1>3
<1>5. G = [d \in Conns |-> G[d]] /\ F = [d \in Conns |-> F[d]]
      /\ F[c] = View(conn[c], out[c], cancelled)
  OBVIOUS
<1> HIDE DEF F, G
<1>6. G = [F EXCEPT ![c] = View(r, o, cancelled)]
  BY <1>4, <1>5
<1>7. View(r, o, cancelled) = F[c] => G = F
  BY <1>5, <1>6
<1> QED
  BY <1>1, <1>5, <1>6, <1>7

\* A request opens a connection.
LEMMA ConnectOpens ==
  ASSUME StreamInv, FeedInv, NEW c \in Conns, Connect(c)
  PROVE  Feed!Open(c)
<1>a. /\ conn[c].pc = "off" /\ UNCHANGED <<log, cancelled>>
      /\ out' = [out EXCEPT ![c] = <<>>]
  BY DEF Connect, brokerVars
<1>b. PICK since \in {0, seen[c]} :
         conn' = [conn EXCEPT ![c] = [Idle EXCEPT !.pc = "subscribe",
                               !.since = since, !.last = since,
                               !.broken = since # 0 /\ c \in foreign]]
  BY DEF Connect
<1>t. since \in Nat /\ log \in Nat /\ (c \notin foreign => seen[c] <= log)
  BY Before DEF FeedInv
<1> DEFINE b == since # 0 /\ c \in foreign
           r == [Idle EXCEPT !.pc = "subscribe", !.since = since,
                             !.last = since, !.broken = b]
<1>1. conn' = [conn EXCEPT ![c] = r]
  BY <1>b, Zenon
<1>2. b \in BOOLEAN /\ (~b => since \in 0..log)
  BY <1>t
<1> HIDE DEF b
<1>3. r.pc = "subscribe" /\ r.since = since /\ r.broken = b /\ r.gone = FALSE
  BY DEF Idle
<1> HIDE DEF r
<1>4. FeedOf[c] = Feed!Closed
  BY <1>a, <1>1, SeenOne DEF View, Feed!Closed
<1>5. FeedOf' = [FeedOf EXCEPT ![c] = View(r, <<>>, cancelled)]
  BY <1>a, <1>1, SeenOne
<1>6. CASE b
  <2>1. View(r, <<>>, cancelled) = Feed!Void
    BY <1>3, <1>6 DEF View, Feed!Void
  <2> QED
    BY <2>1, <1>4, <1>5, <1>a DEF Feed!Open
<1>7. CASE ~b
  <2> DEFINE st == IF cancelled THEN "ending" ELSE "on"
  <2>1. View(r, <<>>, cancelled) = [st |-> st, ask |-> since, out |-> <<>>]
    BY <1>3, <1>7 DEF View
  <2>2. st \in {"on", "ending"} /\ since \in 0..log
    BY <1>2, <1>7
  <2> HIDE DEF st
  <2> QED
    BY <2>1, <2>2, <1>4, <1>5, <1>a DEF Feed!Open
<1> QED
  BY <1>6, <1>7

\* An open and unbroken connection, as the feed sees it.
Sent(st, ask, o) == [st |-> st, ask |-> ask, out |-> o]

Longer(v, o) == [v EXCEPT !.out = o]

\* More being written changes nothing else.
LEMMA SentLonger ==
  ASSUME NEW st, NEW ask, NEW o, NEW p
  PROVE  Longer(Sent(st, ask, o), p) = Sent(st, ask, p)
BY DEF Sent, Longer

\* What is in such a connection.
LEMMA SentFields ==
  ASSUME NEW st, NEW ask, NEW o
  PROVE  /\ Sent(st, ask, o).st = st /\ Sent(st, ask, o).ask = ask
         /\ Sent(st, ask, o).out = o
BY DEF Sent

\* What is written at once, as the feed says it.
LEMMA WriteDelivers ==
  ASSUME StreamInv, NEW c \in Conns, NEW r, NEW o, NEW st \in {"on", "ending"}, NEW ask,
         conn' = [conn EXCEPT ![c] = r], out' = [out EXCEPT ![c] = o],
         UNCHANGED <<log, cancelled>>,
         View(conn[c], out[c], cancelled) = Sent(st, ask, out[c]),
         View(r, o, cancelled) = Sent(st, ask, o),
         NEW lo \in 1..log, NEW hi \in 1..log, lo <= hi,
         o = out[c] \o Run(lo, hi),
         IF out[c] = <<>> THEN lo <= ask + 1 ELSE lo = out[c][Len(out[c])] + 1
  PROVE  Feed!Deliver(c)
<1> DEFINE v == Sent(st, ask, out[c])
           w == Sent(st, ask, o)
<1>1. w = Longer(v, o) /\ v.st = st /\ v.out = out[c] /\ v.ask = ask
  <2>1. v.st = st /\ v.out = out[c] /\ v.ask = ask
    BY SentFields
  <2>2. w = Longer(v, o)
    BY SentLonger, Zenon
  <2> QED
    BY <2>1, <2>2
<1>2. /\ FeedOf[c] = View(conn[c], out[c], cancelled)
      /\ FeedOf' = [FeedOf EXCEPT ![c] = View(r, o, cancelled)]
  BY SeenOne
<1>3. FeedOf[c] = v /\ FeedOf' = [FeedOf EXCEPT ![c] = w]
  BY <1>2, Zenon
<1> HIDE DEF v, w
<1>4. FeedOf' = [FeedOf EXCEPT ![c].out = o]
  BY <1>1, <1>3, Zenon DEF Longer
<1>5. o = FeedOf[c].out \o [i \in 1..(hi - lo + 1) |-> lo + i - 1]
  BY <1>1, <1>3 DEF Run
<1>6. FeedOf' = [FeedOf EXCEPT ![c].out =
                    @ \o [i \in 1..(hi - lo + 1) |-> lo + i - 1]]
  BY <1>4, <1>5, Zenon
<1>7. /\ FeedOf[c].st \in {"on", "ending"}
      /\ IF FeedOf[c].out = <<>> THEN lo <= FeedOf[c].ask + 1
         ELSE lo = FeedOf[c].out[Len(FeedOf[c].out)] + 1
  BY <1>1, <1>3
<1> QED
  BY <1>6, <1>7, Zenon DEF Feed!Deliver

\* What of a connection's record the feed does not see.
LEMMA SameView ==
  ASSUME NEW r, NEW q, NEW o, NEW done, r.pc # "off", q.pc # "off",
         q.since = r.since, q.gone = r.gone, q.broken = r.broken
  PROVE  View(q, o, done) = View(r, o, done)
BY DEF View

\* A connection that is open and unbroken, and one that is broken.
LEMMA OpenView ==
  ASSUME NEW r \in ConnRec, NEW o, NEW done, r.pc # "off"
  PROVE  /\ r.broken => View(r, o, done) = Feed!Void
         /\ ~r.broken => \E st \in {"on", "ending"} :
               \A p : View(r, p, done) = Sent(st, r.since, p)
<1>1. r.broken => View(r, o, done) = Feed!Void
  BY DEF View, Feed!Void
<1>2. ASSUME ~r.broken
      PROVE  \E st \in {"on", "ending"} :
               \A p : View(r, p, done) = Sent(st, r.since, p)
  <2>1. CASE r.gone \/ done
    <3>1. \A p : View(r, p, done) = Sent("ending", r.since, p)
      BY <1>2, <2>1 DEF View, Sent
    <3> QED
      BY <3>1
  <2>2. CASE ~(r.gone \/ done)
    <3>1. \A p : View(r, p, done) = Sent("on", r.since, p)
      BY <1>2, <2>2 DEF View, Sent
    <3> QED
      BY <3>1
  <2> QED
    BY <2>1, <2>2
<1> QED
  BY <1>1, <1>2

FeedMove == Feed!Next \/ UNCHANGED <<log, FeedOf>>

\* A page of the replay is delivered, unless the promise is void.
LEMMA BackfillDelivers ==
  ASSUME StreamInv, FeedInv, NEW c \in Conns, Backfill(c)
  PROVE  FeedMove
<1>t. /\ conn[c] \in ConnRec /\ out[c] \in Seq(Nat) /\ log \in Nat
      /\ Whole(c, conn[c], chan[c], out[c], cursor, log, subs)
  BY Before DEF FeedInv
<1>a. /\ conn[c].pc = "backfill" /\ UNCHANGED <<log, cancelled>>
  BY DEF Backfill, brokerVars
<1>c. conn[c].last \in Nat /\ conn[c].cut \in Nat /\ conn[c].since \in Nat
  BY <1>t DEF ConnRec
<1>1. PICK to \in Nat :
         /\ conn[c].last < to /\ to <= log
         /\ Write(c, Run(conn[c].last + 1, to))
         /\ \/ to = conn[c].cut /\ conn' = [conn EXCEPT ![c] = Live(c, 0, FALSE)]
            \/ conn' = [conn EXCEPT ![c] = [conn[c] EXCEPT !.last = to]]
  BY Paged
<1>2. PICK r \in ConnRec :
         /\ conn' = [conn EXCEPT ![c] = r] /\ r.pc # "off" /\ r.since = conn[c].since
         /\ r.gone = conn[c].gone /\ r.broken = conn[c].broken
  <2>1. CASE conn' = [conn EXCEPT ![c] = Live(c, 0, FALSE)]
    <3>1. /\ Live(c, 0, FALSE) \in ConnRec /\ Live(c, 0, FALSE).pc = "live"
          /\ Live(c, 0, FALSE).since = conn[c].since
          /\ Live(c, 0, FALSE).gone = conn[c].gone
          /\ Live(c, 0, FALSE).broken <=> conn[c].broken
      BY <1>t, LiveType, LiveKeeps
    <3>2. Live(c, 0, FALSE).broken = conn[c].broken
      BY <3>1, <1>t DEF ConnRec
    <3> QED
      BY <2>1, <3>1, <3>2
  <2>2. CASE conn' = [conn EXCEPT ![c] = [conn[c] EXCEPT !.last = to]]
    <3> DEFINE q == [conn[c] EXCEPT !.last = to]
    <3>1. /\ q \in ConnRec /\ q.pc = "backfill" /\ q.since = conn[c].since
          /\ q.gone = conn[c].gone /\ q.broken = conn[c].broken
      BY <1>t, <1>a DEF ConnRec
    <3> HIDE DEF q
    <3> QED
      BY <2>2, <3>1 DEF q
  <2> QED
    BY <1>1, <2>1, <2>2
<1>3. PICK o : o = out[c] \o Run(conn[c].last + 1, to) /\ out' = [out EXCEPT ![c] = o]
  BY <1>1 DEF Write
<1>4. View(r, o, cancelled) = View(conn[c], o, cancelled)
  BY <1>2, <1>a, SameView
<1>5. CASE conn[c].broken
  <2>1. /\ View(conn[c], o, cancelled) = Feed!Void
        /\ View(conn[c], out[c], cancelled) = Feed!Void
    BY <1>5, <1>a, <1>t, OpenView
  <2>3. View(r, o, cancelled) = View(conn[c], out[c], cancelled)
    BY <2>1, <1>4, Zenon
  <2>4. conn' = [conn EXCEPT ![c] = r] /\ out' = [out EXCEPT ![c] = o]
        /\ cancelled' = cancelled
    BY <1>2, <1>3, <1>a
  <2>2. FeedOf' = FeedOf
    BY <2>3, <2>4, SeenOne
  <2> QED
    BY <2>2, <1>a DEF FeedMove
<1>6. CASE ~conn[c].broken
  <2>1. PICK st \in {"on", "ending"} :
           \A p : View(conn[c], p, cancelled) = Sent(st, conn[c].since, p)
    BY <1>6, <1>a, <1>t, OpenView
  <2>2. /\ View(conn[c], out[c], cancelled) = Sent(st, conn[c].since, out[c])
        /\ View(r, o, cancelled) = Sent(st, conn[c].since, o)
    BY <2>1, <1>4
  <2>3. conn[c].last + 1 \in 1..log /\ to \in 1..log /\ conn[c].last + 1 <= to
    BY <1>1, <1>c, <1>t
  <2>4. IF out[c] = <<>> THEN conn[c].last + 1 <= conn[c].since + 1
        ELSE conn[c].last + 1 = out[c][Len(out[c])] + 1
    <3>1. IF conn[c].last = conn[c].since THEN out[c] = <<>>
          ELSE Ends(out[c], conn[c].last)
      BY <1>6, <1>a, <1>t DEF Whole
    <3> QED
      BY <3>1, <1>c DEF Ends
  <2>5. Feed!Deliver(c)
    BY <2>2, <2>3, <2>4, <1>2, <1>3, <1>a, WriteDelivers
  <2> QED
    BY <2>5, Zenon DEF FeedMove, Feed!Next
<1> QED
  BY <1>5, <1>6

\* Subscribing, and the end of a replay, are not seen; a read that fails is
\* the end of the promise.
LEMMA ReplaySeen ==
  ASSUME StreamInv, NEW c \in Conns, Subscribe(c) \/ BackfillEnd(c) \/ BackfillError(c)
  PROVE  FeedMove
<1>t. conn[c] \in ConnRec /\ out = [out EXCEPT ![c] = out[c]]
  BY Before
<1>a. conn[c].pc # "off" /\ UNCHANGED <<log, cancelled, out>>
  BY DEF Subscribe, BackfillEnd, BackfillError, brokerVars
<1>b. out' = [out EXCEPT ![c] = out[c]] /\ cancelled' = cancelled
  BY <1>a, <1>t
<1>1. PICK r \in ConnRec :
         /\ conn' = [conn EXCEPT ![c] = r] /\ r.pc # "off" /\ r.since = conn[c].since
         /\ r.gone = conn[c].gone /\ (r.broken = conn[c].broken \/ r.broken)
  <2>1. CASE Subscribe(c) /\ conn[c].since # cursor
    <3> DEFINE q == [conn[c] EXCEPT !.pc = "backfill", !.cut = cursor]
    <3>1. conn' = [conn EXCEPT ![c] = q]
      BY <2>1 DEF Subscribe
    <3>2. /\ q \in ConnRec /\ q.pc = "backfill" /\ q.since = conn[c].since
          /\ q.gone = conn[c].gone /\ q.broken = conn[c].broken
      BY <1>t, Before DEF ConnRec
    <3> HIDE DEF q
    <3> QED
      BY <3>1, <3>2
  <2>2. CASE ~(Subscribe(c) /\ conn[c].since # cursor)
    <3>1. PICK gate \in Nat, f \in BOOLEAN : conn' = [conn EXCEPT ![c] = Live(c, gate, f)]
      <4>1. CASE Subscribe(c)
        <5>1. conn' = [conn EXCEPT ![c] = Live(c, 0, FALSE)]
          BY <2>2, <4>1 DEF Subscribe
        <5> QED
          BY <5>1
      <4>2. CASE BackfillEnd(c) \/ BackfillError(c)
        <5>1. Gate(c) \in Nat
          BY <1>t DEF ConnRec, Gate
        <5> QED
          BY <4>2, <5>1 DEF BackfillEnd, BackfillError
      <4> QED
        BY <4>1, <4>2
    <3>2. /\ Live(c, gate, f) \in ConnRec /\ Live(c, gate, f).pc = "live"
          /\ Live(c, gate, f).since = conn[c].since
          /\ Live(c, gate, f).gone = conn[c].gone
          /\ Live(c, gate, f).broken <=> conn[c].broken \/ f
      BY <1>t, LiveType, LiveKeeps
    <3>3. Live(c, gate, f).broken = conn[c].broken \/ Live(c, gate, f).broken
      BY <3>2, <1>t DEF ConnRec
    <3> QED
      BY <3>1, <3>2, <3>3
  <2> QED
    BY <2>1, <2>2
<1>2. CASE View(r, out[c], cancelled) = View(conn[c], out[c], cancelled)
  <2>1. FeedOf' = FeedOf
    BY <1>1, <1>2, <1>b, SeenOne
  <2> QED
    BY <2>1, <1>a DEF FeedMove
<1>3. CASE r.broken = conn[c].broken
  BY <1>1, <1>2, <1>3, <1>a, SameView
<1>4. CASE r.broken /\ conn[c].broken
  BY <1>1, <1>2, <1>4, <1>a, <1>t, OpenView
<1>5. CASE r.broken /\ ~conn[c].broken
  <2>1. PICK st \in {"on", "ending"} :
           \A p : View(conn[c], p, cancelled) = Sent(st, conn[c].since, p)
    BY <1>5, <1>a, <1>t, OpenView
  <2>2. View(r, out[c], cancelled) = Feed!Void
    BY <1>1, <1>5, OpenView
  <2>3. /\ FeedOf[c] = View(conn[c], out[c], cancelled)
        /\ FeedOf' = [FeedOf EXCEPT ![c] = View(r, out[c], cancelled)]
    BY <1>1, <1>b, SeenOne
  <2>4. FeedOf[c].st \in {"on", "ending"}
    BY <2>1, <2>3, SentFields
  <2>5. FeedOf' = [FeedOf EXCEPT ![c] = Feed!Void] /\ log' = log
    BY <2>2, <2>3, <1>a
  <2>6. Feed!Break(c)
    BY <2>4, <2>5, Zenon DEF Feed!Break
  <2> QED
    BY <2>6, Zenon DEF FeedMove, Feed!Next
<1> QED
  BY <1>1, <1>3, <1>4, <1>5

\* What is received before the gate is not seen; afterwards it is delivered.
LEMMA ReceiveDelivers ==
  ASSUME StreamInv, FeedInv, NEW c \in Conns, Receive(c)
  PROVE  FeedMove
<1>t. /\ conn[c] \in ConnRec /\ chan[c] \in Seq(Nat) /\ out[c] \in Seq(Nat)
      /\ log \in Nat /\ cursor \in Nat /\ cursor <= log
      /\ out = [out EXCEPT ![c] = out[c]] /\ conn = [conn EXCEPT ![c] = conn[c]]
      /\ Whole(c, conn[c], chan[c], out[c], cursor, log, subs)
  BY Before DEF FeedInv, PollHolds, StreamInv, StreamTypes
<1>a. conn[c].pc = "live" /\ chan[c] # <<>> /\ UNCHANGED <<log, cancelled>>
  BY DEF Receive, brokerVars
<1>1. CASE conn[c].gate # 0
  <2> DEFINE gate == IF Head(chan[c]) = conn[c].gate THEN 0 ELSE conn[c].gate
             r == [conn[c] EXCEPT !.gate = gate]
  <2>1. conn' = [conn EXCEPT ![c] = r] /\ out' = [out EXCEPT ![c] = out[c]]
    BY <1>1, <1>t DEF Receive
  <2>2. /\ r.pc = "live" /\ r.since = conn[c].since
        /\ r.gone = conn[c].gone /\ r.broken = conn[c].broken
    BY <1>t, <1>a DEF ConnRec
  <2> HIDE DEF r
  <2>3. View(r, out[c], cancelled) = View(conn[c], out[c], cancelled)
    BY <2>2, <1>a, SameView
  <2>4. FeedOf' = FeedOf
    BY <2>1, <2>3, <1>a, SeenOne
  <2> QED
    BY <2>4, <1>a DEF FeedMove
<1>2. CASE conn[c].gate = 0 /\ conn[c].broken
  <2>1. PICK o : conn' = [conn EXCEPT ![c] = conn[c]] /\ out' = [out EXCEPT ![c] = o]
    BY <1>2, <1>t DEF Receive, Write
  <2>2. /\ View(conn[c], o, cancelled) = Feed!Void
        /\ View(conn[c], out[c], cancelled) = Feed!Void
    BY <1>2, <1>a, <1>t, OpenView
  <2>3. View(conn[c], o, cancelled) = View(conn[c], out[c], cancelled)
    BY <2>2, Zenon
  <2>4. FeedOf' = FeedOf
    BY <2>1, <2>3, <1>a, SeenOne
  <2> QED
    BY <2>4, <1>a DEF FeedMove
<1>3. CASE conn[c].gate = 0 /\ ~conn[c].broken
  <2>1. PICK a \in 0..cursor : Carries(chan[c], a, cursor, c, subs)
                               /\ Joins(conn[c], a, out[c])
    BY <1>3, <1>a, <1>t DEF Whole
  <2>2. /\ Head(chan[c]) = a + 1 /\ a \in Nat
        /\ a + 1 \in 1..log
    BY <2>1, <1>a, <1>t, NextEvent
  <2>3. PICK o : /\ conn' = [conn EXCEPT ![c] = conn[c]] /\ out' = [out EXCEPT ![c] = o]
                 /\ o = out[c] \o <<a + 1>>
    BY <2>2, <1>3, <1>t DEF Receive, Write
  <2>4. <<a + 1>> = Run(a + 1, a + 1)
    BY <2>2 DEF Run
  <2>5. o = out[c] \o Run(a + 1, a + 1)
    BY <2>3, <2>4, Zenon
  <2>6. IF out[c] = <<>> THEN a + 1 <= conn[c].since + 1
        ELSE a + 1 = out[c][Len(out[c])] + 1
    BY <2>1, <2>2, <1>3, <1>t DEF Joins, Ends, ConnRec
  <2>7. PICK st \in {"on", "ending"} :
           \A p : View(conn[c], p, cancelled) = Sent(st, conn[c].since, p)
    BY <1>3, <1>a, <1>t, OpenView
  <2>8. /\ View(conn[c], out[c], cancelled) = Sent(st, conn[c].since, out[c])
        /\ View(conn[c], o, cancelled) = Sent(st, conn[c].since, o)
    BY <2>7
  <2>9. a + 1 <= a + 1
    BY <2>2
  <2>10. Feed!Deliver(c)
    BY <2>2, <2>3, <2>5, <2>6, <2>8, <2>9, <1>a, WriteDelivers
  <2> QED
    BY <2>10, Zenon DEF FeedMove, Feed!Next
<1> QED
  BY <1>1, <1>2, <1>3

\* A client that goes away, and the request that returns.
LEMMA LeaveSeen ==
  ASSUME StreamInv, NEW c \in Conns, Disconnect(c) \/ Leave(c)
  PROVE  FeedMove
<1>t. conn[c] \in ConnRec /\ out = [out EXCEPT ![c] = out[c]]
  BY Before
<1>1. CASE Disconnect(c)
  <2> DEFINE r == [conn[c] EXCEPT !.gone = TRUE]
  <2>1. /\ conn' = [conn EXCEPT ![c] = r] /\ out' = [out EXCEPT ![c] = out[c]]
        /\ UNCHANGED <<log, cancelled>> /\ conn[c].pc # "off"
    BY <1>1, <1>t DEF Disconnect, brokerVars
  <2>2. /\ r.pc # "off" /\ r.since = conn[c].since /\ r.gone = TRUE
        /\ r.broken = conn[c].broken /\ r \in ConnRec
    BY <1>t, <2>1 DEF ConnRec
  <2> HIDE DEF r
  <2>3. /\ FeedOf[c] = View(conn[c], out[c], cancelled)
        /\ FeedOf' = [FeedOf EXCEPT ![c] = View(r, out[c], cancelled)]
    BY <2>1, SeenOne
  <2>4. CASE View(r, out[c], cancelled) = View(conn[c], out[c], cancelled)
    <3>1. FeedOf' = FeedOf
      BY <2>1, <2>4, SeenOne
    <3> QED
      BY <3>1, <2>1 DEF FeedMove
  <2>5. CASE conn[c].broken
    <3>1. r.broken
      BY <2>2, <2>5
    <3>2. /\ View(r, out[c], cancelled) = Feed!Void
          /\ View(conn[c], out[c], cancelled) = Feed!Void
      BY <2>1, <2>2, <2>5, <3>1, <1>t, OpenView
    <3> QED
      BY <2>4, <3>2
  <2>6. CASE ~conn[c].broken /\ (conn[c].gone \/ cancelled)
    <3>1. View(r, out[c], cancelled) = View(conn[c], out[c], cancelled)
      BY <2>1, <2>2, <2>6 DEF View
    <3> QED
      BY <2>4, <3>1
  <2>7. CASE ~conn[c].broken /\ ~(conn[c].gone \/ cancelled)
    <3>1. /\ View(conn[c], out[c], cancelled) = Sent("on", conn[c].since, out[c])
          /\ View(r, out[c], cancelled) = Sent("ending", conn[c].since, out[c])
      BY <2>1, <2>2, <2>7 DEF View, Sent
    <3>2. FeedOf[c].st = "on"
      BY <2>3, <3>1, SentFields
    <3>3. Sent("ending", conn[c].since, out[c])
             = [Sent("on", conn[c].since, out[c]) EXCEPT !.st = "ending"]
      BY DEF Sent
    <3>4. FeedOf' = [FeedOf EXCEPT ![c].st = "ending"]
      BY <2>3, <3>1, <3>3, Zenon
    <3>5. Feed!End(c)
      BY <2>1, <3>2, <3>4, Zenon DEF Feed!End
    <3> QED
      BY <3>5, Zenon DEF FeedMove, Feed!Next
  <2> QED
    BY <2>5, <2>6, <2>7
<1>2. CASE Leave(c)
  <2>1. /\ conn' = [conn EXCEPT ![c] = Idle] /\ out' = [out EXCEPT ![c] = <<>>]
        /\ UNCHANGED <<log, cancelled>>
    BY <1>2 DEF Leave
  <2>2. View(Idle, <<>>, cancelled) = Feed!Closed
    BY IdleType DEF View, Feed!Closed
  <2>3. FeedOf' = [FeedOf EXCEPT ![c] = View(Idle, <<>>, cancelled)]
    BY <2>1, SeenOne
  <2>4. FeedOf' = [FeedOf EXCEPT ![c] = Feed!Closed] /\ log' = log
    BY <2>1, <2>2, <2>3
  <2>5. Feed!Shut(c)
    BY <2>4, Zenon DEF Feed!Shut
  <2> QED
    BY <2>5, Zenon DEF FeedMove, Feed!Next
<1> QED
  BY <1>1, <1>2

\* A fan-out that overflows some buffers breaks those connections.
LEMMA FanBreaks ==
  ASSUME StreamInv, PollFan
  PROVE  FeedMove
<1> DEFINE B == {c \in Conns : c \in subs /\ ~Fits(c)}
           F == [c \in Conns |-> View(conn[c], out[c], cancelled)]
           G == [c \in Conns |-> View(conn'[c], out[c], cancelled)]
<1>a. UNCHANGED <<log, out, cancelled>>
  BY DEF PollFan
<1>1. FeedOf = F /\ FeedOf' = G
  BY FeedIsViews, <1>a, Zenon DEF FeedOf, View
<1>2. ASSUME NEW c \in Conns
      PROVE  G[c] = IF c \in B /\ F[c].st \in {"on", "ending"} THEN Feed!Void ELSE F[c]
  <2>t. conn[c] \in ConnRec /\ Listed(c)
    BY Before
  <2>1. conn'[c] = [conn[c] EXCEPT !.broken = @ \/ (c \in subs /\ ~Fits(c))]
    BY Zenon DEF PollFan
  <2>2. /\ conn'[c].pc = conn[c].pc /\ conn'[c].since = conn[c].since
        /\ conn'[c].gone = conn[c].gone
        /\ conn'[c].broken <=> conn[c].broken \/ c \in B
    BY <2>1, <2>t DEF ConnRec
  <2>3. c \in B => conn[c].pc # "off"
    BY <2>t DEF Listed
  <2> HIDE DEF B
  <2>4. CASE c \in B /\ ~conn[c].broken
    <3>1. G[c] = Feed!Void
      BY <2>2, <2>3, <2>4 DEF View, Feed!Void
    <3>2. F[c].st \in {"on", "ending"}
      BY <2>3, <2>4 DEF View
    <3> QED
      BY <3>1, <3>2, <2>4
  <2>5. CASE ~(c \in B /\ ~conn[c].broken)
    <3>1. G[c] = F[c]
      BY <2>2, <2>3, <2>5 DEF View
    <3>2. c \in B => F[c].st = "void"
      BY <2>3, <2>5 DEF View
    <3> QED
      BY <3>1, <3>2
  <2> QED
    BY <2>4, <2>5
<1>3. B \in SUBSET Conns
  OBVIOUS
<1> HIDE DEF B
<1>4. G = [c \in Conns |-> IF c \in B /\ F[c].st \in {"on", "ending"}
                           THEN Feed!Void ELSE F[c]]
  BY <1>2, Zenon
<1> HIDE DEF F, G
<1>5. FeedOf' = [c \in Conns |-> IF c \in B /\ FeedOf[c].st \in {"on", "ending"}
                                 THEN Feed!Void ELSE FeedOf[c]]
  BY <1>1, <1>4, Zenon
<1>6. Feed!BreakSome
  <2>1. log' = log
    BY <1>a
  <2> QED
    BY <1>3, <1>5, <2>1, Zenon DEF Feed!BreakSome
<1> QED
  BY <1>6, Zenon DEF FeedMove, Feed!Next

\* Close cancels the broker's context for everybody at once.
LEMMA CancelEnds ==
  ASSUME StreamInv, CloseCancel
  PROVE  FeedMove
<1> DEFINE F == [c \in Conns |-> View(conn[c], out[c], cancelled)]
           G == [c \in Conns |-> View(conn[c], out[c], TRUE)]
<1>a. UNCHANGED <<log, out, conn>> /\ cancelled' = TRUE
  BY DEF CloseCancel
<1>1. FeedOf = F /\ FeedOf' = G
  BY FeedIsViews, <1>a, Zenon DEF FeedOf, View
<1>2. ASSUME NEW c \in Conns
      PROVE  G[c] = IF F[c].st = "on" THEN [F[c] EXCEPT !.st = "ending"] ELSE F[c]
  <2>t. conn[c] \in ConnRec
    BY Before
  <2>1. CASE conn[c].pc # "off" /\ ~conn[c].broken /\ ~(conn[c].gone \/ cancelled)
    <3>1. /\ F[c] = Sent("on", conn[c].since, out[c])
          /\ G[c] = Sent("ending", conn[c].since, out[c])
      BY <2>1 DEF View, Sent
    <3>2. Sent("ending", conn[c].since, out[c])
             = [Sent("on", conn[c].since, out[c]) EXCEPT !.st = "ending"]
      BY DEF Sent
    <3>3. F[c].st = "on"
      BY <3>1, SentFields
    <3> HIDE DEF F, G
    <3> QED
      BY <3>1, <3>2, <3>3, Zenon
  <2>2. CASE ~(conn[c].pc # "off" /\ ~conn[c].broken /\ ~(conn[c].gone \/ cancelled))
    <3>1. G[c] = F[c] /\ F[c].st # "on"
      BY <2>2 DEF View
    <3> QED
      BY <3>1
  <2> QED
    BY <2>1, <2>2
<1>4. G = [c \in Conns |-> IF F[c].st = "on" THEN [F[c] EXCEPT !.st = "ending"]
                           ELSE F[c]]
  BY <1>2, Zenon
<1> HIDE DEF F, G
<1>5. FeedOf' = [c \in Conns |-> IF FeedOf[c].st = "on"
                                 THEN [FeedOf[c] EXCEPT !.st = "ending"]
                                 ELSE FeedOf[c]]
  BY <1>1, <1>4, Zenon
<1>6. Feed!EndAll
  <2>1. log' = log
    BY <1>a
  <2> QED
    BY <1>5, <2>1, Zenon DEF Feed!EndAll
<1> QED
  BY <1>6, Zenon DEF FeedMove, Feed!Next

\* The end of the process ends every connection.
LEMMA GoneShuts ==
  ASSUME NEW how, Gone(how)
  PROVE  FeedMove
<1>a. conn' = [c \in Conns |-> Idle] /\ log' \in {log, 0}
  BY DEF Gone
<1>1. ASSUME NEW c \in Conns PROVE conn'[c].pc = "off"
  BY <1>a, IdleType
<1>2. FeedOf' = [c \in Conns |-> Feed!Closed]
  BY <1>1, Zenon DEF FeedOf, Feed!Closed
<1>3. Feed!ShutAll
  BY <1>2, <1>a, Zenon DEF Feed!ShutAll
<1> QED
  BY <1>3, Zenon DEF FeedMove, Feed!Next

\* Every step of the process is a step of the feed, or is not seen.
LEMMA FeedSeen ==
  ASSUME StreamInv, FeedInv, [ProcessNext]_allVars
  PROVE  FeedMove
<1>1. CASE Publish
  <2>1. log' = log + 1 /\ UNCHANGED <<conn, out, cancelled>>
    BY <1>1 DEF Publish, brokerVars
  <2>2. FeedOf' = FeedOf
    BY <2>1, Zenon DEF FeedOf
  <2>3. Feed!Publish
    BY <2>1, <2>2, Zenon DEF Feed!Publish
  <2> QED
    BY <2>3, Zenon DEF FeedMove, Feed!Next
<1>2. ASSUME UNCHANGED <<log, conn, out, cancelled>> PROVE FeedMove
  BY <1>2, SeenSame DEF FeedMove
<1>3. CASE PollRead \/ PollLock \/ PollExit \/ CloseAll
  BY <1>3, <1>2 DEF PollRead, PollLock, PollExit, CloseAll
<1>4. CASE Poll
  BY <1>4, <1>3, FanBreaks DEF Poll
<1>5. ASSUME NEW c \in Conns,
             \/ Accept(c) \/ Serve(c) \/ BackfillError(c) \/ Hangup(c)
      PROVE  FeedMove
  <2>1. CASE Connect(c)
    <3>1. Feed!Open(c)
      BY <2>1, ConnectOpens
    <3> QED
      BY <3>1, Zenon DEF FeedMove, Feed!Next
  <2> QED
    BY <1>5, <2>1, ReplaySeen, BackfillDelivers, ReceiveDelivers, LeaveSeen
    DEF Accept, Serve, Hangup
<1>6. CASE UNCHANGED streamVars
  BY <1>6, <1>2 DEF streamVars, brokerVars
<1>7. CASE Aside
  BY <1>7, <1>6 DEF Aside, RpcBegin, RpcEnd, Signal, RestartAdmin, Resolve, Boot,
                    Stall, Resume
<1>8. ASSUME NEW s \in Stoppers, Stop(s) PROVE FeedMove
  BY <1>8, <1>3, <1>6, CancelEnds
  DEF Stop, GracefulStop, Drained, BrokerCancel, BrokerClose, BrokerWait,
      StopBridge, Deadline, StopInner
<1>9. CASE MainReturns \/ Exec \/ Kill
  BY <1>9, GoneShuts DEF MainReturns, Exec, Kill
<1>10. CASE UNCHANGED allVars
  BY <1>10, <1>6 DEF allVars
<1> QED
  BY <1>1, <1>4, <1>5, <1>7, <1>8, <1>9, <1>10 DEF ProcessNext, Aside

\* The broker and its connections, inside a process that may be restarted,
\* implement the feed: one uninterrupted run of the log on every connection,
\* from no later than the client's cursor.
THEOREM StreamKeepsFeed == ProcessSpec => KeepsFeed
<1>1. ProcessInit => StreamInv /\ FeedInv /\ Feed!Init
  <2> SUFFICES ASSUME ProcessInit PROVE StreamInv /\ FeedInv /\ Feed!Init
    OBVIOUS
  <2>1. StreamInv /\ FeedInv
    BY StreamInvInit, FeedInit DEF ProcessInit
  <2>2. log = 0 /\ conn = [c \in Conns |-> Idle]
    BY DEF ProcessInit, StreamInit
  <2>3. ASSUME NEW c \in Conns PROVE conn[c].pc = "off"
    BY <2>2, IdleType
  <2>4. FeedOf = [c \in Conns |-> Feed!Closed]
    BY <2>3, Zenon DEF FeedOf, Feed!Closed
  <2> QED
    BY <2>1, <2>2, <2>4, Zenon DEF Feed!Init
<1>2. StreamInv /\ FeedInv /\ [ProcessNext]_allVars => (StreamInv /\ FeedInv)'
  BY StreamInvStep, FeedStep
<1>3. StreamInv /\ FeedInv /\ [ProcessNext]_allVars => [Feed!Next]_(Feed!feedVars)
  BY FeedSeen DEF FeedMove, Feed!feedVars
<1> QED
  BY <1>1, <1>2, <1>3, PTL DEF ProcessSpec, KeepsFeed, Feed!Spec
=============================================================================
