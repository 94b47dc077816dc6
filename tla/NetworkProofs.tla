--------------------------- MODULE NetworkProofs ----------------------------
(***************************************************************************)
(* Proofs about a node among nodes: what it has to send of itself          *)
(* (NodeSending), and what passes between several (Exchange).              *)
(***************************************************************************)
EXTENDS NodeSending, Exchange, TLAPS

-----------------------------------------------------------------------------
(* NodeSending, for queues, inboxes, intervals and gaps of any size: while *)
(* the node is stopped nothing waits, and a node that has started and not  *)
(* announced is going to.                                                  *)

QueuedPacket == Kind \union {"own"}

(* Whether an announce waits in a queue. *)
Waits(q) == \E i \in DOMAIN q : q[i] \in Kind

SendingInv == TypeOK /\ NothingWaitsUnderAHost /\ StartingAnnounces

USE SendingAssumption

(* What a push makes of a queue: it keeps its type and its bound, the new  *)
(* packet is in it, and every announce in it stays unless one is pushed    *)
(* out (Queue::push).                                                      *)
LEMMA PushLemma ==
    ASSUME NEW q \in Seq(QueuedPacket), Len(q) <= Capacity, NEW p \in QueuedPacket
    PROVE  /\ Pushed(q, p) \in Seq(QueuedPacket)
           /\ Len(Pushed(q, p)) <= Capacity
           /\ p \in Kind => Waits(Pushed(q, p))
           /\ Waits(q) /\ ~PushesOut(q) => Waits(Pushed(q, p))
<1> DEFINE r == IF Len(q) = Capacity THEN Tail(q) ELSE q
<1>1. r \in Seq(QueuedPacket) /\ Len(r) < Capacity
  BY DEF r
<1>2. Pushed(q, p) = Append(r, p)
  BY DEF Pushed
<1>3. p \in Kind => Waits(Append(r, p))
  <2>1. Len(r) + 1 \in DOMAIN Append(r, p) /\ Append(r, p)[Len(r) + 1] = p
    BY <1>1
  <2> QED BY <2>1 DEF Waits
<1>4. ASSUME Waits(q), ~PushesOut(q) PROVE Waits(Append(r, p))
  <2>1. PICK i \in DOMAIN q : q[i] \in Kind
    BY <1>4 DEF Waits
  <2>2. CASE Len(q) = Capacity
    <3>1. i # 1
      BY <1>4, <2>1, <2>2 DEF PushesOut
    <3>2. i - 1 \in DOMAIN r /\ r[i - 1] = q[i]
      BY <2>1, <2>2, <3>1 DEF r
    <3>3. i - 1 \in DOMAIN Append(r, p) /\ Append(r, p)[i - 1] = q[i]
      BY <1>1, <3>2
    <3> QED BY <2>1, <3>3 DEF Waits
  <2>3. CASE Len(q) # Capacity
    <3>1. i \in DOMAIN Append(q, p) /\ Append(q, p)[i] = q[i]
      BY <2>1
    <3> QED BY <2>1, <2>3, <3>1 DEF Waits, r
  <2> QED BY <2>2, <2>3
<1> HIDE DEF r
<1>5. Append(r, p) \in Seq(QueuedPacket) /\ Len(Append(r, p)) <= Capacity
  BY <1>1
<1> QED BY <1>2, <1>3, <1>4, <1>5

(* Taking the oldest packet: the rest keeps its type, and an announce      *)
(* waits in it or was the one taken (Queue::pop).                          *)
LEMMA PopLemma ==
    ASSUME NEW q \in Seq(QueuedPacket), q # <<>>
    PROVE  /\ Tail(q) \in Seq(QueuedPacket) /\ Len(Tail(q)) < Len(q)
           /\ Head(q) \in QueuedPacket
           /\ Waits(q) => Head(q) \in Kind \/ Waits(Tail(q))
<1>1. Tail(q) \in Seq(QueuedPacket) /\ Len(Tail(q)) < Len(q) /\ Head(q) \in QueuedPacket
  OBVIOUS
<1>2. ASSUME Waits(q), Head(q) \notin Kind PROVE Waits(Tail(q))
  <2>1. PICK i \in DOMAIN q : q[i] \in Kind
    BY <1>2 DEF Waits
  <2>2. i # 1
    BY <1>2, <2>1
  <2>3. i - 1 \in DOMAIN Tail(q) /\ Tail(q)[i - 1] = q[i]
    BY <2>1, <2>2
  <2> QED BY <2>1, <2>3 DEF Waits
<1> QED BY <1>1, <1>2

LEMMA SendingInitInv == Init => SendingInv
<1> SUFFICES ASSUME Init PROVE SendingInv
  OBVIOUS
<1>1. queue \in Seq(Kind \union {"own"}) /\ Len(queue) = 0
  BY DEF Init
<1>2. /\ running \in BOOLEAN /\ line \in BOOLEAN /\ deaf \in BOOLEAN
      /\ elapsed \in BOOLEAN /\ announced \in BOOLEAN /\ pushed \in BOOLEAN
  BY DEF Init
<1>3. /\ phase \in {"observe", "work", "keep", "due", "send", "panel"}
      /\ inbox \in 0..InboxCapacity /\ Len(queue) <= Capacity
      /\ pending \in Kind \union {None} /\ quiet \in Nat
      /\ interval \in Nat \union {None} /\ own \in 0..MaxOwn /\ burst \in Nat
  BY <1>1 DEF Init
<1>4. TypeOK
  BY <1>1, <1>2, <1>3 DEF TypeOK
<1> QED BY <1>4 DEF Init, SendingInv, NothingWaitsUnderAHost, StartingAnnounces

(* Every step keeps the types, the bound of the queue and of the inbox,    *)
(* and the two properties, one action at a time.                           *)
LEMMA SendingStepInv == SendingInv /\ [Next]_vars => SendingInv'
<1> SUFFICES ASSUME SendingInv, [Next]_vars PROVE SendingInv'
  OBVIOUS
<1> USE DEF SendingInv, outside, record, schedule
<1>t. /\ phase \in {"observe", "work", "keep", "due", "send", "panel"}
      /\ inbox \in 0..InboxCapacity
      /\ queue \in Seq(QueuedPacket) /\ Len(queue) <= Capacity
      /\ pending \in Kind \union {None}
      /\ quiet \in Nat /\ interval \in Nat \union {None}
      /\ own \in 0..MaxOwn /\ burst \in Nat
  BY DEF TypeOK, QueuedPacket
<1>b. /\ running \in BOOLEAN /\ line \in BOOLEAN /\ deaf \in BOOLEAN
      /\ elapsed \in BOOLEAN /\ announced \in BOOLEAN /\ pushed \in BOOLEAN
  BY DEF TypeOK
<1>s. running /\ ~announced /\ ~pushed => pending # None \/ Waits(queue)
  BY DEF StartingAnnounces, Waits
<1>w. ~running => queue = <<>> /\ pending = None /\ interval = None /\ inbox = 0
  BY DEF NothingWaitsUnderAHost
<1>g. ASSUME /\ phase' \in {"observe", "work", "keep", "due", "send", "panel"}
             /\ inbox' \in 0..InboxCapacity
             /\ queue' \in Seq(QueuedPacket) /\ Len(queue') <= Capacity
             /\ pending' \in Kind \union {None}
             /\ quiet' \in Nat /\ interval' \in Nat \union {None}
             /\ own' \in 0..MaxOwn /\ burst' \in Nat,
             running' \in BOOLEAN /\ line' \in BOOLEAN /\ deaf' \in BOOLEAN
             /\ elapsed' \in BOOLEAN /\ announced' \in BOOLEAN /\ pushed' \in BOOLEAN,
             running' /\ ~announced' /\ ~pushed' => pending' # None \/ Waits(queue'),
             ~running' => queue' = <<>> /\ pending' = None /\ interval' = None /\ inbox' = 0
      PROVE SendingInv'
  <2>1. TypeOK'
    BY <1>g DEF TypeOK, QueuedPacket
  <2>2. NothingWaitsUnderAHost'
    BY <1>g DEF NothingWaitsUnderAHost
  <2>3. StartingAnnounces'
    BY <1>g DEF StartingAnnounces, Waits
  <2> QED BY <2>1, <2>2, <2>3
<1> HIDE DEF SendingInv
<1>1. CASE Follow
  <2>1. <<>> \in Seq(QueuedPacket) /\ Len(<<>>) = 0
    OBVIOUS
  <2>2. elapsed' \in BOOLEAN
    BY <1>1, <1>b DEF Follow
  <2>3. CASE Started
    <3>1. /\ inbox' \in 0..InboxCapacity /\ queue' \in Seq(QueuedPacket) /\ Len(queue') <= Capacity
          /\ pending' = "announce" /\ pending' # None /\ interval' = Interval
          /\ quiet' \in Nat /\ own' \in 0..MaxOwn /\ burst' \in Nat /\ phase' = "work"
      BY <1>1, <2>3, <1>t DEF Started, Follow
    <3>2. running' /\ line' = line /\ deaf' = deaf /\ announced' = FALSE /\ pushed' = FALSE
      BY <1>1, <2>3 DEF Started, Follow
    <3> QED BY <1>g, <1>b, <2>2, <3>1, <3>2 DEF Kind
  <2>4. CASE Stopped
    <3>1. /\ inbox' = 0 /\ queue' = <<>> /\ pending' = None /\ interval' = None
          /\ quiet' \in Nat /\ own' \in 0..MaxOwn /\ burst' \in Nat /\ phase' = "work"
      BY <1>1, <2>4, <1>t DEF Stopped, Follow
    <3>2. ~running' /\ running' \in BOOLEAN /\ line' = line /\ deaf' = deaf
          /\ announced' = announced /\ pushed' = pushed
      BY <1>1, <2>4 DEF Stopped, Follow
    <3> QED BY <1>g, <1>b, <2>1, <2>2, <3>1, <3>2
  <2> QED BY <1>1, <2>3, <2>4 DEF Follow
<1>2. CASE Same \/ NoWork \/ NotYet \/ NothingToSend \/ EndPass \/ Line \/ Radio
  <2>1. /\ UNCHANGED <<running, inbox, queue, pending, quiet, interval, elapsed, own,
                       announced, pushed, burst>>
        /\ phase' \in {"observe", "work", "keep", "due", "send", "panel"}
    BY <1>2, <1>t DEF Same, NoWork, NotYet, NothingToSend, EndPass, Line, Radio
  <2>2. line' \in BOOLEAN /\ deaf' \in BOOLEAN
    BY <1>2, <1>b DEF Same, NoWork, NotYet, NothingToSend, EndPass, Line, Radio
  <2> QED BY <1>g, <1>t, <1>b, <1>s, <1>w, <2>1, <2>2
<1>3. ASSUME NEW n \in 0..2, OwnPackets(n)
      PROVE  /\ queue' \in Seq(QueuedPacket) /\ Len(queue') <= Capacity
             /\ own' \in 0..MaxOwn /\ pushed' \in BOOLEAN
             /\ pushed => pushed'
             /\ Waits(queue) /\ ~pushed' => Waits(queue')
  <2> DEFINE q1 == Pushed(queue, "own")
             q2 == Pushed(q1, "own")
  <2>1. /\ q1 \in Seq(QueuedPacket) /\ Len(q1) <= Capacity
        /\ Waits(queue) /\ ~PushesOut(queue) => Waits(q1)
    BY <1>t, PushLemma DEF QueuedPacket
  <2>2. /\ q2 \in Seq(QueuedPacket) /\ Len(q2) <= Capacity
        /\ Waits(q1) /\ ~PushesOut(q1) => Waits(q2)
    BY <2>1, PushLemma DEF QueuedPacket
  <2> HIDE DEF q2
  <2>3. /\ queue' = (IF n = 0 THEN queue ELSE IF n = 1 THEN q1 ELSE q2)
        /\ own' = own + n /\ own + n <= MaxOwn
    BY <1>3 DEF OwnPackets, q2
  <2>4. pushed' = (pushed \/ (n > 0 /\ PushesOut(queue)) \/ (n > 1 /\ PushesOut(q1)))
    BY <1>3 DEF OwnPackets
  <2> HIDE DEF q1
  <2>5. pushed' \in BOOLEAN /\ (pushed => pushed')
    BY <2>4, Zenon
  <2>6. CASE n = 0
    BY <1>t, <2>3, <2>5, <2>6
  <2>7. CASE n = 1
    <3>0. n > 0
      BY <2>7
    <3>1. ~pushed' => ~PushesOut(queue)
      BY <2>4, <3>0, Zenon
    <3> QED BY <1>t, <2>1, <2>3, <2>5, <2>7, <3>1
  <2>8. CASE n = 2
    <3>0. n > 0 /\ n > 1
      BY <2>8
    <3>1. ~pushed' => ~PushesOut(queue) /\ ~PushesOut(q1)
      BY <2>4, <3>0, Zenon
    <3> QED BY <1>t, <2>1, <2>2, <2>3, <2>5, <2>8, <3>1
  <2> QED BY <2>6, <2>7, <2>8
<1>4. CASE (\E n \in 0..2 : Look(n)) \/ (\E n \in 0..1 : Ask(n) \/ Housekeeping(n))
  <2>1. PICK n \in 0..2 : Look(n) \/ Ask(n) \/ Housekeeping(n)
    BY <1>4
  <2>2. OwnPackets(n)
    BY <2>1 DEF Look, Ask, Housekeeping
  <2>3. /\ inbox' \in 0..InboxCapacity /\ phase' \in {"keep", "due"}
        /\ pending' \in Kind \union {None} /\ (pending # None => pending' # None)
        /\ quiet' = quiet /\ interval' = interval /\ burst' = burst
    BY <2>1, <1>t DEF Look, Ask, Housekeeping, Stronger, Kind
  <2>4. running /\ running' = running /\ line' = line /\ deaf' = deaf
        /\ elapsed' \in BOOLEAN /\ announced' = announced
    BY <2>1, <1>b DEF Look, Ask, Housekeeping
  <2>5. running' /\ ~announced' /\ ~pushed' => pending' # None \/ Waits(queue')
    BY <1>3, <1>s, <2>2, <2>3, <2>4
  <2> QED BY <1>g, <1>t, <1>b, <1>3, <2>2, <2>3, <2>4, <2>5
<1>5. CASE Due
  <2>1. /\ phase' = "send" /\ inbox' = inbox /\ quiet' = quiet /\ own' = own /\ burst' = burst
        /\ interval' \in Nat \union {None}
    BY <1>5, <1>t DEF Due, NextInterval
  <2>2. running' = running /\ line' = line /\ deaf' = deaf /\ elapsed' = elapsed
        /\ announced' = announced
    BY <1>5 DEF Due
  <2>w. /\ Wanted \in Kind \union {None}
        /\ pending # None => Wanted # None
    BY <1>t DEF Wanted, Kind
  <2>r. ~running => Wanted = None /\ interval' = None
    <3>1. ASSUME ~running PROVE interval = None /\ pending = None /\ interval # 0
      BY <3>1, <1>w
    <3> QED BY <3>1, <1>5 DEF Due, NextInterval, Wanted, IntervalAsks
  <2>3. CASE Allowed /\ Wanted # None
    <3>1. pending' = None /\ queue' = Pushed(queue, Wanted)
          /\ pushed' = (pushed \/ PushesOut(queue))
      BY <1>5, <2>3 DEF Due
    <3>2. Wanted \in Kind /\ Wanted \in QueuedPacket
      BY <2>3, <2>w DEF QueuedPacket
    <3>3. /\ Pushed(queue, Wanted) \in Seq(QueuedPacket) /\ Len(Pushed(queue, Wanted)) <= Capacity
          /\ Waits(Pushed(queue, Wanted))
      BY <1>t, <3>2, PushLemma
    <3>4. pushed' \in BOOLEAN
      BY <3>1, Zenon
    <3>5. running
      BY <2>r, <2>3, <1>b
    <3> QED BY <1>g, <1>t, <1>b, <2>1, <2>2, <3>1, <3>3, <3>4, <3>5
  <2>4. CASE ~(Allowed /\ Wanted # None)
    <3>1. pending' = Wanted /\ queue' = queue /\ pushed' = pushed
      BY <1>5, <2>4 DEF Due
    <3> QED BY <1>g, <1>t, <1>b, <1>s, <1>w, <2>1, <2>2, <2>w, <2>r, <3>1
  <2> QED BY <2>3, <2>4
<1>6. CASE Went
  <2>1. /\ Tail(queue) \in Seq(QueuedPacket) /\ Len(Tail(queue)) < Len(queue)
        /\ Waits(queue) => Head(queue) \in Kind \/ Waits(Tail(queue))
    BY <1>6, <1>t, PopLemma DEF Went, MaySend
  <2>2. /\ phase' = "panel" /\ inbox' = inbox /\ own' = own /\ interval' = interval
        /\ queue' = Tail(queue) /\ pending' = pending
    BY <1>6 DEF Went
  <2>q. quiet' \in Nat /\ burst' \in Nat
    <3>1. CASE Head(queue) \in Kind
      <4>1. quiet' \in Gaps /\ burst' = IF quiet > 0 THEN burst + 1 ELSE 1
        BY <1>6, <3>1 DEF Went
      <4>2. quiet' \in Nat
        BY <4>1
      <4>3. burst' \in Nat
        BY <4>1, <1>t
      <4> QED BY <4>2, <4>3
    <3>2. CASE Head(queue) \notin Kind
      BY <1>6, <1>t, <3>2 DEF Went
    <3> QED BY <3>1, <3>2
  <2>3. running /\ running' = running /\ line' = line /\ deaf' = deaf /\ elapsed' = elapsed
        /\ pushed' = pushed /\ announced' = (announced \/ Head(queue) \in Kind)
    BY <1>6, <1>b DEF Went, MaySend
  <2>4. announced' \in BOOLEAN
    BY <2>3, Zenon
  <2>5. running' /\ ~announced' /\ ~pushed' => pending' # None \/ Waits(queue')
    BY <1>s, <2>1, <2>2, <2>3, Zenon
  <2>6. queue' \in Seq(QueuedPacket) /\ Len(queue') <= Capacity
    BY <1>t, <2>1, <2>2
  <2> QED BY <1>g, <1>t, <1>b, <2>2, <2>q, <2>3, <2>4, <2>5, <2>6
<1>7. CASE Refused
  <2>1. /\ Tail(queue) \in Seq(QueuedPacket) /\ Len(Tail(queue)) < Len(queue)
        /\ Waits(queue) => Head(queue) \in Kind \/ Waits(Tail(queue))
    BY <1>7, <1>t, PopLemma DEF Refused, MaySend
  <2>2. /\ phase' = "panel" /\ inbox' = inbox /\ own' = own /\ interval' = interval
        /\ queue' = Tail(queue) /\ quiet' = quiet /\ burst' = burst
        /\ pending' = NotSent(Head(queue))
    BY <1>7 DEF Refused
  <2>3. running /\ running' = running /\ line' = line /\ deaf' = deaf /\ elapsed' = elapsed
        /\ pushed' = pushed /\ announced' = announced
    BY <1>7 DEF Refused, MaySend
  <2>4. /\ NotSent(Head(queue)) \in Kind \union {None}
        /\ Head(queue) \in Kind => NotSent(Head(queue)) # None
        /\ pending # None => NotSent(Head(queue)) # None
    BY <1>t DEF NotSent, Stronger, Kind
  <2> QED BY <1>g, <1>t, <1>b, <1>s, <2>1, <2>2, <2>3, <2>4
<1>8. CASE Hear
  <2>1. inbox' \in 0..InboxCapacity
    BY <1>8, <1>t DEF Hear
  <2>2. running /\ UNCHANGED <<phase, running, queue, pending, quiet, interval, elapsed, own,
                    announced, pushed, burst, line, deaf>>
    BY <1>8 DEF Hear
  <2> QED BY <1>g, <1>t, <1>b, <1>s, <2>1, <2>2
<1>9. CASE AnnounceNow
  <2>1. pending' = "announce"
    BY <1>9 DEF AnnounceNow, Stronger
  <2>2. running /\ UNCHANGED <<phase, running, inbox, queue, quiet, interval, elapsed, own,
                    announced, pushed, burst, line, deaf>>
    BY <1>9 DEF AnnounceNow
  <2>3. "announce" \in Kind \union {None} /\ "announce" # None
    BY DEF Kind
  <2> QED BY <1>g, <1>t, <1>b, <2>1, <2>2, <2>3
<1>10. CASE Tick
  <2>1. /\ quiet' \in Nat /\ interval' \in Nat \union {None} /\ phase' = "observe"
        /\ interval = None => interval' = None
    BY <1>10, <1>t DEF Tick
  <2>2. elapsed' = TRUE /\ UNCHANGED <<running, inbox, queue, pending, own,
                    announced, pushed, burst, line, deaf>>
    BY <1>10 DEF Tick
  <2> QED BY <1>g, <1>t, <1>b, <1>s, <1>w, <2>1, <2>2
<1>11. CASE UNCHANGED vars
  <2>1. UNCHANGED <<phase, running, line, deaf, inbox, queue, pending, quiet, interval,
                    elapsed, own, announced, pushed, burst>>
    BY <1>11 DEF vars
  <2> QED BY <1>g, <1>t, <1>b, <1>s, <1>w, <2>1
<1> QED
  BY <1>1, <1>2, <1>4, <1>5, <1>6, <1>7, <1>8, <1>9, <1>10, <1>11 DEF Next, Pass

LEMMA SendingInductive == Spec => []SendingInv
BY SendingInitInv, SendingStepInv, PTL DEF Spec

(* The queue and the inbox keep their bounds and everything else its type. *)
THEOREM SendingTypeCorrect == Spec => []TypeOK
<1>1. SendingInv => TypeOK
  BY DEF SendingInv
<1> QED BY SendingInductive, <1>1, PTL

(* While the node is stopped nothing is queued, pending, waiting to be     *)
(* looked at or going to be asked for (Sending::follow).                   *)
THEOREM NothingWaits == Spec => []NothingWaitsUnderAHost
<1>1. SendingInv => NothingWaitsUnderAHost
  BY DEF SendingInv
<1> QED BY SendingInductive, <1>1, PTL

(* A node that has started and not announced has an announce asked for or  *)
(* queued, unless a full queue pushed one out (Schedule, Sending::sent).   *)
THEOREM StartIsAnnounced == Spec => []StartingAnnounces
<1>1. SendingInv => StartingAnnounces
  BY DEF SendingInv
<1> QED BY SendingInductive, <1>1, PTL

----------------------------------------------------------------------------
(* The budget.  While the quiet an announce bought lasts no announce is    *)
(* queued, and each that waits has room left for those before it: its      *)
(* place in the queue and the announces gone so far fit in a queue.        *)
RoomLeft(q, n) == \A i \in DOMAIN q : q[i] \in Kind => n + i <= Capacity

BudgetInv == burst <= Capacity /\ (quiet > 0 => RoomLeft(queue, burst))

(* One of the engine's own packets moves no announce back. *)
LEMMA OwnKeepsRoom ==
    ASSUME NEW q \in Seq(QueuedPacket), Len(q) <= Capacity, NEW n \in Nat, RoomLeft(q, n)
    PROVE  RoomLeft(Pushed(q, "own"), n)
<1> DEFINE r == IF Len(q) = Capacity THEN Tail(q) ELSE q
<1>1. r \in Seq(QueuedPacket) /\ Pushed(q, "own") = Append(r, "own")
  BY DEF r, Pushed
<1>2. "own" \notin Kind
  BY DEF Kind
<1>3. ASSUME NEW i \in DOMAIN r, r[i] \in Kind
      PROVE  n + i <= Capacity
  <2>1. CASE Len(q) = Capacity
    <3>1. i + 1 \in DOMAIN q /\ q[i + 1] = r[i] /\ i \in Nat
      BY <2>1 DEF r
    <3> QED
      BY <1>3, <3>1 DEF RoomLeft
  <2>2. CASE Len(q) # Capacity
    BY <1>3, <2>2 DEF RoomLeft, r
  <2> QED
    BY <2>1, <2>2
<1> HIDE DEF r
<1>4. ASSUME NEW i \in DOMAIN Append(r, "own"), Append(r, "own")[i] \in Kind
      PROVE  n + i <= Capacity
  <2>1. i \in DOMAIN r /\ r[i] = Append(r, "own")[i]
    BY <1>1, <1>2, <1>4
  <2> QED
    BY <1>3, <1>4, <2>1
<1> QED
  BY <1>1, <1>4 DEF RoomLeft

(* Taking the oldest packet moves every announce one place forward. *)
LEMMA PopMakesRoom ==
    ASSUME NEW q \in Seq(QueuedPacket), q # <<>>, NEW n \in Nat, RoomLeft(q, n)
    PROVE  RoomLeft(Tail(q), n + 1) /\ RoomLeft(Tail(q), n)
<1>1. ASSUME NEW i \in DOMAIN Tail(q), Tail(q)[i] \in Kind
      PROVE  n + 1 + i <= Capacity /\ n + i <= Capacity
  <2>1. i + 1 \in DOMAIN q /\ q[i + 1] = Tail(q)[i] /\ i \in Nat
    OBVIOUS
  <2>2. n + (i + 1) <= Capacity
    BY <1>1, <2>1 DEF RoomLeft
  <2> QED
    BY <2>1, <2>2
<1> QED
  BY <1>1 DEF RoomLeft

LEMMA BudgetStep ==
    ASSUME SendingInv, BudgetInv, [Next]_vars
    PROVE  BudgetInv'
<1> USE DEF outside, record, schedule
<1>t. /\ queue \in Seq(QueuedPacket) /\ Len(queue) <= Capacity
      /\ quiet \in Nat /\ burst \in Nat /\ Capacity \in Nat
  BY DEF SendingInv, TypeOK, QueuedPacket
<1>1. CASE UNCHANGED <<queue, quiet, burst>>
  BY <1>1 DEF BudgetInv, RoomLeft
<1>2. CASE Follow
  <2>1. CASE Started
    BY <1>1, <2>1 DEF Started
  <2>2. CASE Stopped
    <3>1. queue' = <<>> /\ burst' = burst
      BY <2>2 DEF Stopped
    <3> QED
      BY <3>1 DEF BudgetInv, RoomLeft
  <2> QED
    BY <1>2, <2>1, <2>2 DEF Follow
<1>3. CASE (\E n \in 0..2 : Look(n)) \/ (\E n \in 0..1 : Ask(n) \/ Housekeeping(n))
  <2>1. PICK n \in 0..2 : Look(n) \/ Ask(n) \/ Housekeeping(n)
    BY <1>3
  <2>2. quiet' = quiet /\ burst' = burst /\ OwnPackets(n)
    BY <2>1 DEF Look, Ask, Housekeeping
  <2> DEFINE q1 == Pushed(queue, "own")
             q2 == Pushed(q1, "own")
  <2>3. queue' = queue \/ queue' = q1 \/ queue' = q2
    BY <2>2 DEF OwnPackets
  <2>4. q1 \in Seq(QueuedPacket) /\ Len(q1) <= Capacity
    BY <1>t, PushLemma DEF QueuedPacket
  <2>5. RoomLeft(queue, burst) => RoomLeft(q1, burst)
    BY <1>t, OwnKeepsRoom
  <2> HIDE DEF q1
  <2>6. RoomLeft(q1, burst) => RoomLeft(q2, burst)
    BY <1>t, <2>4, OwnKeepsRoom
  <2> HIDE DEF q2
  <2>7. RoomLeft(queue, burst) => RoomLeft(queue', burst)
    BY <2>3, <2>5, <2>6
  <2> QED
    BY <2>2, <2>7 DEF BudgetInv, RoomLeft
<1>4. CASE Due
  <2>1. quiet' = quiet /\ burst' = burst
    BY <1>4 DEF Due
  <2>2. quiet > 0 => queue' = queue
    BY <1>4, <1>t DEF Due, Allowed
  <2> QED
    BY <2>1, <2>2 DEF BudgetInv, RoomLeft
<1>5. CASE Went
  <2>1. queue # <<>> /\ queue' = Tail(queue)
    BY <1>5 DEF Went, MaySend
  <2>2. CASE Head(queue) \in Kind
    <3>1. quiet' \in Gaps /\ burst' = IF quiet > 0 THEN burst + 1 ELSE 1
      BY <1>5, <2>2 DEF Went
    <3>2. CASE quiet > 0
      <4>1. RoomLeft(queue, burst) /\ 1 \in DOMAIN queue /\ queue[1] \in Kind
        BY <1>t, <2>1, <2>2, <3>2 DEF BudgetInv
      <4>2. burst + 1 <= Capacity
        BY <4>1 DEF RoomLeft
      <4>3. RoomLeft(Tail(queue), burst + 1)
        BY <1>t, <2>1, <4>1, PopMakesRoom
      <4> QED
        BY <2>1, <3>1, <3>2, <4>2, <4>3 DEF BudgetInv, RoomLeft
    <3>3. CASE ~(quiet > 0)
      <4>1. RoomLeft(queue, 0)
        BY <1>t DEF RoomLeft
      <4>2. RoomLeft(Tail(queue), 0 + 1)
        BY <1>t, <2>1, <4>1, PopMakesRoom
      <4> QED
        BY <1>t, <2>1, <3>1, <3>3, <4>2 DEF BudgetInv, RoomLeft
    <3> QED
      BY <3>2, <3>3
  <2>3. CASE Head(queue) \notin Kind
    <3>1. quiet' = quiet /\ burst' = burst
      BY <1>5, <2>3 DEF Went
    <3>2. RoomLeft(queue, burst) => RoomLeft(Tail(queue), burst)
      BY <1>t, <2>1, PopMakesRoom
    <3> QED
      BY <2>1, <3>1, <3>2 DEF BudgetInv, RoomLeft
  <2> QED
    BY <2>2, <2>3
<1>6. CASE Refused
  <2>1. /\ queue # <<>> /\ queue' = Tail(queue)
        /\ quiet' = quiet /\ burst' = burst
    BY <1>6 DEF Refused, MaySend
  <2>2. RoomLeft(queue, burst) => RoomLeft(Tail(queue), burst)
    BY <1>t, <2>1, PopMakesRoom
  <2> QED
    BY <2>1, <2>2 DEF BudgetInv, RoomLeft
<1>7. CASE Tick
  <2>1. queue' = queue /\ burst' = burst
    BY <1>7 DEF Tick
  <2>2. quiet' > 0 => quiet > 0
    BY <1>7, <1>t DEF Tick
  <2> QED
    BY <2>1, <2>2 DEF BudgetInv, RoomLeft
<1>8. CASE Same \/ NoWork \/ NotYet \/ NothingToSend \/ EndPass \/ Line \/ Radio
           \/ Hear \/ AnnounceNow \/ UNCHANGED vars
  BY <1>1, <1>8 DEF Same, NoWork, NotYet, NothingToSend, EndPass, Line, Radio,
                    Hear, AnnounceNow, vars
<1> QED
  BY <1>2, <1>3, <1>4, <1>5, <1>6, <1>7, <1>8 DEF Next, Pass

(* The queue and the inbox keep their bounds; and however starts, path     *)
(* requests, refusals and the interval fall, no more announces go within   *)
(* each other's quiet time than the queue holds: the announce budget of    *)
(* Schedule can be overrun by one queue and no more.                       *)
THEOREM WithinBounds == Spec => []SendsWithinBounds
<1>1. Init => SendingInv /\ BudgetInv
  <2>1. Init => BudgetInv
    BY DEF Init, BudgetInv, RoomLeft
  <2> QED
    BY <2>1, SendingInitInv
<1>2. SendingInv /\ BudgetInv /\ [Next]_vars => (SendingInv /\ BudgetInv)'
  BY SendingStepInv, BudgetStep
<1>3. SendingInv /\ BudgetInv => SendsWithinBounds
  BY DEF SendingInv, BudgetInv, SendsWithinBounds, BurstBounded
<1> QED
  BY <1>1, <1>2, <1>3, PTL DEF Spec

-----------------------------------------------------------------------------
(* Exchange, for any number of boards, messages, attempts, hops and losses *)
(* of power: a message is kept once, a signal is the peer's own, and a sender *)
(* that is told of a delivery is told the truth.                           *)

(* An announce that came straight was heard from its own board's radio.    *)
Straight ==
    \A p \in air : p.kind = "announce" /\ p.hops = 1 => p.radio = p.of

(* Only what was written is under way, is sent, or arrives.                *)
Written ==
    /\ arrived \subseteq composed
    /\ \A p \in air : p.kind = "data" => p.of \in composed
    /\ \A h \in Hashes : delivery[h] # "none" => h \in composed

(* A message kept has arrived; a proof its recipient signed is of one that *)
(* has; and so is a delivery its sender was told of.  What has arrived is  *)
(* never taken back, so this outlives the restart of either.               *)
Truth ==
    /\ \A h \in Hashes : kept[h] > 0 => h \in arrived
    /\ \A p \in air : p.kind = "proof" /\ p.by = To[p.of] => p.of \in arrived
    /\ \A h \in Hashes : delivery[h] = "delivered" => h \in arrived

ExchangeInv ==
    ExchangeTypeOK /\ KeptOnce /\ SignalIsThePeers /\ Straight /\ Written /\ Truth

HIDE SendingAssumption
USE ExchangeAssumption

AirPacket == Announce \union Request \union Data \union Proof

----------------------------------------------------------------------------
(* What a packet on the air is. *)
LEMMA PacketKinds ==
    ASSUME NEW p \in AirPacket
    PROVE  /\ p.kind = "announce" => p \in Announce
           /\ p.kind = "request" => p \in Request
           /\ p.kind = "data" => p \in Data
           /\ p.kind = "proof" => p \in Proof
BY DEF AirPacket, Announce, Request, Data, Proof

(* An announce or a request added to the air changes nothing of what is    *)
(* true of the packets there.                                              *)
LEMMA Idle ==
    ASSUME ExchangeInv, NEW q \in AirPacket, air' = air \union {q},
           \/ q.kind = "announce" /\ (q.hops = 1 => q.radio = q.of)
           \/ q.kind = "request",
           composed' = composed, arrived' = arrived
    PROVE  /\ air' \subseteq AirPacket
           /\ Straight'
           /\ \A p \in air' : p.kind = "data" => p.of \in composed'
           /\ \A p \in air' : p.kind = "proof" /\ p.by = To[p.of] => p.of \in arrived'
BY DEF ExchangeInv, ExchangeTypeOK, AirPacket, Straight, Written, Truth

LEMMA ExchangeInitInv == ExchangeInit => ExchangeInv
BY DEF ExchangeInit, ExchangeInv, ExchangeTypeOK, KeptOnce, SignalIsThePeers,
       Straight, Written, Truth

LEMMA AnnouncesInv ==
    ASSUME ExchangeInv, NEW b \in Boards, Announces(b)
    PROVE  ExchangeInv'
<1>1. Direct(b) \in AirPacket
  BY DEF Direct, AirPacket, Announce
<1>2. /\ Direct(b).kind = "announce" /\ Direct(b).radio = Direct(b).of
  BY DEF Direct
<1>3. /\ air' \subseteq AirPacket /\ Straight'
      /\ \A p \in air' : p.kind = "data" => p.of \in composed'
      /\ \A p \in air' : p.kind = "proof" /\ p.by = To[p.of] => p.of \in arrived'
  BY <1>1, <1>2, Idle DEF Announces
<1>4. ExchangeTypeOK'
  BY <1>3 DEF Announces, ExchangeInv, ExchangeTypeOK, AirPacket
<1> QED
  BY <1>3, <1>4 DEF Announces, ExchangeInv, KeptOnce, SignalIsThePeers, Written, Truth

LEMMA WriteInv ==
    ASSUME ExchangeInv, NEW h \in Hashes, Write(h)
    PROVE  ExchangeInv'
<1>1. ExchangeTypeOK'
  BY DEF Write, ExchangeInv, ExchangeTypeOK
<1>2. Written' /\ Truth'
  BY DEF Write, ExchangeInv, ExchangeTypeOK, Written, Truth
<1> QED
  BY <1>1, <1>2 DEF Write, ExchangeInv, KeptOnce, SignalIsThePeers, Straight

LEMMA AskPathInv ==
    ASSUME ExchangeInv, NEW h \in Hashes, AskPath(h)
    PROVE  ExchangeInv'
<1>1. path_request(To[h]) \in AirPacket /\ path_request(To[h]).kind = "request"
  BY DEF path_request, AirPacket, Request
<1>2. /\ air' \subseteq AirPacket /\ Straight'
      /\ \A p \in air' : p.kind = "data" => p.of \in composed'
      /\ \A p \in air' : p.kind = "proof" /\ p.by = To[p.of] => p.of \in arrived'
  BY <1>1, Idle DEF AskPath
<1>3. ExchangeTypeOK'
  BY <1>2 DEF AskPath, ExchangeInv, ExchangeTypeOK, AirPacket
<1>4. Written' /\ Truth'
  BY <1>2 DEF AskPath, ExchangeInv, ExchangeTypeOK, Written, Truth
<1> QED
  BY <1>2, <1>3, <1>4 DEF AskPath, ExchangeInv, KeptOnce, SignalIsThePeers

LEMMA AttemptInv ==
    ASSUME ExchangeInv, NEW h \in Hashes, Attempt(h)
    PROVE  ExchangeInv'
<1> DEFINE d == [kind |-> "data", of |-> h, number |-> sent']
<1>1. sent' \in Number
  BY DEF Attempt, ExchangeInv, ExchangeTypeOK, Number
<1>2. d \in Data /\ d.kind = "data" /\ d.of = h /\ h \in composed
  BY <1>1 DEF Data, Attempt, ExchangeInv, Written
<1>3. air' = air \union {d}
  BY DEF Attempt
<1> HIDE DEF d
<1>4. tries' \in [Hashes -> 0..MaxAttempts]
  BY DEF Attempt, ExchangeInv, ExchangeTypeOK
<1>5. ExchangeTypeOK'
  BY <1>1, <1>2, <1>3, <1>4 DEF Attempt, ExchangeInv, ExchangeTypeOK, Number
<1>6. Straight'
  BY <1>2, <1>3 DEF ExchangeInv, Straight
<1>7. Written'
  BY <1>2, <1>3 DEF Attempt, ExchangeInv, ExchangeTypeOK, Written
<1>8. Truth'
  BY <1>2, <1>3 DEF Attempt, ExchangeInv, ExchangeTypeOK, Truth
<1> QED
  BY <1>5, <1>6, <1>7, <1>8 DEF Attempt, ExchangeInv, KeptOnce, SignalIsThePeers

LEMMA FailRetryInv ==
    ASSUME ExchangeInv, NEW h \in Hashes, Fail(h) \/ Retry(h)
    PROVE  ExchangeInv'
<1>1. tries' \in [Hashes -> 0..MaxAttempts]
  BY DEF Fail, Retry, ExchangeInv, ExchangeTypeOK
<1>2. delivery' \in [Hashes -> {"none", "turn", "path", "sent", "failed", "delivered"}]
  BY DEF Fail, Retry, ExchangeInv, ExchangeTypeOK
<1>3. ExchangeTypeOK'
  BY <1>1, <1>2 DEF Fail, Retry, ExchangeInv, ExchangeTypeOK
<1>4. Written' /\ Truth'
  BY DEF Fail, Retry, ExchangeInv, ExchangeTypeOK, Written, Truth
<1> QED
  BY <1>3, <1>4 DEF Fail, Retry, ExchangeInv, KeptOnce, SignalIsThePeers, Straight

LEMMA HearAnnounceInv ==
    ASSUME ExchangeInv, NEW b \in Boards, NEW a \in air, HearAnnounce(b, a)
    PROVE  ExchangeInv'
<1>1. a \in Announce
  BY PacketKinds DEF HearAnnounce, ExchangeInv, ExchangeTypeOK, AirPacket
<1>2. a.of \in Boards /\ a.of # b /\ a.hops \in 1..MaxHops
  BY <1>1 DEF Announce, HearAnnounce
<1>3. Measured(a) \in {a.of, NoRadio}
  BY <1>1 DEF Measured, HearAnnounce, ExchangeInv, Straight
<1>4. ExchangeTypeOK'
  BY <1>2, <1>3 DEF HearAnnounce, ExchangeInv, ExchangeTypeOK
<1>5. SignalIsThePeers'
  BY <1>2, <1>3 DEF HearAnnounce, ExchangeInv, ExchangeTypeOK, SignalIsThePeers
<1> QED
  BY <1>4, <1>5 DEF HearAnnounce, ExchangeInv, KeptOnce, Straight, Written, Truth

LEMMA HearRequestInv ==
    ASSUME ExchangeInv, NEW b \in Boards, NEW r \in air, HearRequest(b, r)
    PROVE  ExchangeInv'
<1>1. ExchangeTypeOK'
  BY DEF HearRequest, ExchangeInv, ExchangeTypeOK
<1> QED
  BY <1>1 DEF HearRequest, ExchangeInv, KeptOnce, SignalIsThePeers, Straight, Written, Truth

LEMMA HearDataInv ==
    ASSUME ExchangeInv, NEW p \in air \union Stray, HearData(p)
    PROVE  ExchangeInv'
<1> DEFINE h == p.of
           t == IF From[h] \in keys[To[h]] THEN "Verified" ELSE "Unverified"
           A == asks(trust'[h], From[h])
<1>1. p \in air /\ p \in Data
  BY PacketKinds DEF HearData, ExchangeInv, ExchangeTypeOK, AirPacket
<1>2. h \in Hashes /\ p.number \in Number /\ h \in composed
  BY <1>1 DEF Data, HearData, ExchangeInv, Written
<1>3. IF kept[h] > 0
        THEN UNCHANGED <<trust, arrived, kept>>
        ELSE /\ trust' = [trust EXCEPT ![h] = t]
             /\ arrived' = arrived \union {h}
             /\ kept' = [kept EXCEPT ![h] = @ + 1]
  BY DEF HearData, Had
<1>4. air' = air \union {prove(p)} \union A
  BY DEF HearData
<1>5. UNCHANGED <<keys, signal, due, delivery, tries, packets, sent, boots, composed>>
  BY DEF HearData
<1>6. h \in arrived' /\ arrived \subseteq arrived' /\ arrived' \subseteq Hashes
  BY <1>2, <1>3 DEF ExchangeInv, ExchangeTypeOK, Truth
<1>7. /\ prove(p) \in Proof /\ prove(p).kind = "proof" /\ prove(p).of = h
  BY <1>2 DEF prove, Proof
<1>8. /\ A \subseteq Request
      /\ \A r \in A : r.kind = "request"
  BY <1>2 DEF asks, path_request, Request
<1> HIDE DEF h, t, A
<1>9. /\ trust' \in [Hashes -> {"none", "Unverified", "Verified"}]
      /\ kept' \in [Hashes -> Nat]
  BY <1>2, <1>3 DEF ExchangeInv, ExchangeTypeOK, t
<1>10. ExchangeTypeOK'
  BY <1>4, <1>5, <1>6, <1>7, <1>8, <1>9 DEF ExchangeInv, ExchangeTypeOK
<1>11. KeptOnce'
  <2>1. kept \in [Hashes -> Nat] /\ \A g \in Hashes : kept[g] <= 1
    BY DEF ExchangeInv, ExchangeTypeOK, KeptOnce
  <2>2. CASE kept[h] > 0
    BY <1>3, <2>1, <2>2 DEF KeptOnce
  <2>3. CASE ~(kept[h] > 0)
    <3>1. kept[h] = 0
      BY <1>2, <2>1, <2>3
    <3> QED BY <1>3, <2>1, <2>3, <3>1 DEF KeptOnce
  <2> QED BY <2>2, <2>3
<1>12. Straight'
  BY <1>4, <1>7, <1>8 DEF ExchangeInv, Straight
<1>13. Written'
  BY <1>2, <1>3, <1>4, <1>5, <1>7, <1>8 DEF ExchangeInv, Written
<1>14. \A g \in Hashes : kept'[g] > 0 => g \in arrived'
  BY <1>2, <1>3, <1>6 DEF ExchangeInv, ExchangeTypeOK, Truth
<1>15. \A q \in air' : q.kind = "proof" /\ q.by = To[q.of] => q.of \in arrived'
  BY <1>4, <1>6, <1>7, <1>8 DEF ExchangeInv, Truth
<1>16. Truth'
  BY <1>5, <1>6, <1>14, <1>15 DEF ExchangeInv, Truth
<1> QED
  BY <1>5, <1>10, <1>11, <1>12, <1>13, <1>16 DEF ExchangeInv, SignalIsThePeers

(* A proof that is taken was signed by the recipient, so the message it is *)
(* of has arrived: a stray one is signed by nobody's key.                  *)
LEMMA TakenIsTrue ==
    ASSUME ExchangeInv, NEW p \in air \union Stray, HearProof(p)
    PROVE  p.of \in arrived /\ p.of \in Hashes
<1>1. p \in Proof
  BY PacketKinds DEF HearProof, ExchangeInv, ExchangeTypeOK, AirPacket, Stray
<1>2. p.of \in Hashes /\ p.by = To[p.of]
  BY <1>1 DEF Proof, HearProof, Valid
<1>3. p \notin Stray
  BY <1>2 DEF Stray
<1> QED
  BY <1>2, <1>3 DEF HearProof, ExchangeInv, Truth

LEMMA HearProofInv ==
    ASSUME ExchangeInv, NEW p \in air \union Stray, HearProof(p)
    PROVE  ExchangeInv'
<1>1. p.of \in arrived /\ p.of \in Hashes /\ p.of \in composed
  BY TakenIsTrue DEF ExchangeInv, Written
<1>2. ExchangeTypeOK'
  BY <1>1 DEF HearProof, ExchangeInv, ExchangeTypeOK
<1>3. Written' /\ Truth'
  BY <1>1 DEF HearProof, ExchangeInv, ExchangeTypeOK, Written, Truth
<1> QED
  BY <1>2, <1>3 DEF HearProof, ExchangeInv, KeptOnce, SignalIsThePeers, Straight

LEMMA RepeatInv ==
    ASSUME ExchangeInv, NEW a \in air \union Stray, Repeat(a)
    PROVE  ExchangeInv'
<1> DEFINE r == [a EXCEPT !.hops = @ + 1, !.radio = Relay]
<1>1. a \in Announce
  BY PacketKinds DEF Repeat, ExchangeInv, ExchangeTypeOK, AirPacket
<1>2. r \in Announce /\ r.kind = "announce" /\ r.hops # 1
  <2>1. a.of \in Boards /\ a.hops \in 1..MaxHops /\ a.kind = "announce"
    BY <1>1 DEF Announce
  <2>2. a.hops + 1 \in 1..MaxHops /\ a.hops + 1 # 1
    BY <2>1 DEF Repeat
  <2>3. r \in Announce
    BY <1>1, <2>2 DEF Announce
  <2>4. r.kind = "announce" /\ r.hops = a.hops + 1
    BY <1>1, <2>1 DEF Announce
  <2> QED BY <2>2, <2>3, <2>4
<1>3. air' = air \union {r}
  BY DEF Repeat
<1> HIDE DEF r
<1>4. /\ air' \subseteq AirPacket /\ Straight'
      /\ \A p \in air' : p.kind = "data" => p.of \in composed'
      /\ \A p \in air' : p.kind = "proof" /\ p.by = To[p.of] => p.of \in arrived'
  BY <1>2, <1>3, Idle DEF Repeat, AirPacket
<1>5. ExchangeTypeOK'
  BY <1>4 DEF Repeat, ExchangeInv, ExchangeTypeOK, AirPacket
<1> QED
  BY <1>4, <1>5 DEF Repeat, ExchangeInv, KeptOnce, SignalIsThePeers, Written, Truth

LEMMA RestartInv ==
    ASSUME ExchangeInv, NEW b \in Boards, Restart(b)
    PROVE  ExchangeInv'
<1>1. /\ keys' \in [Boards -> SUBSET Boards] /\ due' \in [Boards -> BOOLEAN]
      /\ signal' \in [Boards -> [Boards -> Boards \union {Relay, NoRadio}]]
  BY DEF Restart, ExchangeInv, ExchangeTypeOK
<1>2. /\ tries' \in [Hashes -> 0..MaxAttempts] /\ packets' \in [Hashes -> SUBSET Number]
      /\ delivery' \in [Hashes -> {"none", "turn", "path", "sent", "failed", "delivered"}]
      /\ trust' \in [Hashes -> {"none", "Unverified", "Verified"}]
      /\ kept' \in [Hashes -> Nat]
  BY DEF Restart, ExchangeInv, ExchangeTypeOK
<1>3. ExchangeTypeOK'
  BY <1>1, <1>2 DEF Restart, ExchangeInv, ExchangeTypeOK
<1>4. KeptOnce'
  BY DEF Restart, ExchangeInv, KeptOnce
<1>5. SignalIsThePeers'
  BY DEF Restart, ExchangeInv, ExchangeTypeOK, SignalIsThePeers
<1>6. Written' /\ Truth'
  BY DEF Restart, ExchangeInv, ExchangeTypeOK, Written, Truth
<1> QED
  BY <1>3, <1>4, <1>5, <1>6 DEF Restart, ExchangeInv, Straight

----------------------------------------------------------------------------
LEMMA ExchangeStepInv == ExchangeInv /\ [ExchangeNext]_exchangeVars => ExchangeInv'
<1> SUFFICES ASSUME ExchangeInv, [ExchangeNext]_exchangeVars PROVE ExchangeInv'
  OBVIOUS
<1>1. CASE UNCHANGED exchangeVars
  BY <1>1 DEF exchangeVars, ExchangeInv, ExchangeTypeOK, KeptOnce, SignalIsThePeers,
              Straight, Written, Truth
<1>2. CASE \E b \in Boards : Announces(b) \/ Hears(b) \/ Restart(b)
  BY <1>2, AnnouncesInv, HearAnnounceInv, HearRequestInv, RestartInv DEF Hears
<1>3. CASE \E h \in Hashes : Write(h) \/ AskPath(h) \/ Attempt(h) \/ Fail(h) \/ Retry(h)
  BY <1>3, WriteInv, AskPathInv, AttemptInv, FailRetryInv
<1>4. CASE \E p \in air \union Stray : HearData(p) \/ HearProof(p) \/ Repeat(p)
  BY <1>4, HearDataInv, HearProofInv, RepeatInv
<1> QED BY <1>1, <1>2, <1>3, <1>4 DEF ExchangeNext

LEMMA ExchangeInductive == ExchangeSpec => []ExchangeInv
BY ExchangeInitInv, ExchangeStepInv, PTL DEF ExchangeSpec

(* A message is kept once by a recipient that runs, however often it is    *)
(* tried and each packet of it heard; a signal shown with a peer is of     *)
(* that peer's own radio; and everything keeps its type.                   *)
THEOREM KeptOnceAndOwnSignals == ExchangeSpec => []ExchangeCorrect
<1>1. ExchangeInv => ExchangeCorrect
  BY DEF ExchangeInv, ExchangeCorrect
<1> QED BY ExchangeInductive, <1>1, PTL

(* The exchange of packets implements the promise of a letter: a delivery  *)
(* is told only of what has arrived, and only what was written arrives,    *)
(* through losses, repeats, forgeries, retries and restarts of either      *)
(* side.                                                                   *)
THEOREM DeliveredIsTrue == ExchangeSpec => ImplementsLetter
<1> DEFINE told == {h \in Hashes : delivery[h] = "delivered"}
<1>1. ExchangeInit => Carried!LetterInit
  BY DEF ExchangeInit, Carried!LetterInit
<1>2. ASSUME ExchangeInv, [ExchangeNext]_exchangeVars
      PROVE  [Carried!LetterNext]_Carried!letterVars
  <2> DEFINE Goal == [Carried!LetterNext]_Carried!letterVars
  <2>0. delivery \in [Hashes -> {"none", "turn", "path", "sent", "failed", "delivered"}]
    BY <1>2 DEF ExchangeInv, ExchangeTypeOK
  <2>1. CASE \/ UNCHANGED exchangeVars
             \/ \E b \in Boards : Announces(b) \/ Hears(b)
             \/ \E p \in air \union Stray : Repeat(p)
    <3>1. UNCHANGED <<composed, arrived, delivery>>
      BY <2>1 DEF exchangeVars, Announces, Hears, HearAnnounce, HearRequest, Repeat
    <3> QED BY <3>1 DEF Carried!letterVars
  <2>2. CASE \E b \in Boards : Restart(b)
    <3>1. UNCHANGED <<composed, arrived>> /\ told' \in SUBSET told
      BY <2>2 DEF Restart
    <3> QED BY <3>1 DEF Carried!LetterNext, Carried!Forgets
  <2>3. ASSUME NEW h \in Hashes, AskPath(h) \/ Attempt(h) \/ Fail(h) \/ Retry(h)
        PROVE  Goal
    <3>1. UNCHANGED <<composed, arrived>> /\ told' \in SUBSET told
      BY <2>0, <2>3 DEF AskPath, Attempt, Fail, Retry
    <3> QED BY <3>1 DEF Carried!LetterNext, Carried!Forgets
  <2>4. ASSUME NEW h \in Hashes, Write(h)
        PROVE  Goal
    <3>1. delivery[h] # "delivered"
      BY <1>2, <2>4 DEF Write, ExchangeInv, Written
    <3>2. composed' = composed \union {h} /\ arrived' = arrived /\ told' = told
      BY <2>0, <2>4, <3>1 DEF Write
    <3> QED BY <3>2 DEF Carried!LetterNext, Carried!Writes
  <2>5. ASSUME NEW p \in air \union Stray, HearData(p)
        PROVE  Goal
    <3>1. p.of \in Hashes /\ p.of \in composed
      BY <1>2, <2>5, PacketKinds DEF HearData, ExchangeInv, ExchangeTypeOK, AirPacket, Written, Data
    <3>2. composed' = composed /\ told' = told
      BY <2>5 DEF HearData
    <3>3. arrived' = arrived \/ arrived' = arrived \union {p.of}
      BY <2>5 DEF HearData
    <3> QED BY <3>1, <3>2, <3>3 DEF Carried!LetterNext, Carried!Arrives, Carried!letterVars
  <2>6. ASSUME NEW p \in air \union Stray, HearProof(p)
        PROVE  Goal
    <3>1. p.of \in arrived /\ p.of \in Hashes
      BY <1>2, <2>6, TakenIsTrue
    <3>2. composed' = composed /\ arrived' = arrived /\ told' = told \union {p.of}
      BY <2>0, <2>6, <3>1 DEF HearProof
    <3> QED BY <3>1, <3>2 DEF Carried!LetterNext, Carried!Tells
  <2> QED BY <1>2, <2>1, <2>2, <2>3, <2>4, <2>5, <2>6 DEF ExchangeNext
<1> QED
  BY ExchangeInductive, <1>1, <1>2, PTL
  DEF ExchangeSpec, ImplementsLetter, Carried!LetterSpec
=============================================================================
