---------------------------- MODULE OnAirProofs -----------------------------
(***************************************************************************)
(* Proofs about the two layers of what a board says on the air.            *)
(*                                                                         *)
(* NodeOutbox, for an outbox of any size and any number of peers and       *)
(* messages.  NoLimbo needs that no two messages kept have one hash: went  *)
(* answers for the first it finds, so with two the second stays handed     *)
(* out.  That is why it is proved for MaxAlike = 1, a board that knows the *)
(* time.                                                                   *)
(*                                                                         *)
(* Air, for every number of boards, every size of the sequence number and  *)
(* every age limit.                                                        *)
(***************************************************************************)
EXTENDS NodeOutbox, Air, TLAPS, WellFoundedInduction


(* No two messages kept have the same hash, and all were written. *)
Distinct ==
    /\ \A i, j \in Slots : kept[i].hash = kept[j].hash => i = j
    /\ \A i \in Slots : written[kept[i].hash] >= 1

OutboxInv == TypeOK /\ Distinct /\ NoLimbo /\ HeldExactlyWhenStopped

(* A message handed out and not answered for. *)
Limbo(m) == m.delivery \in {"turn", "sent"} /\ ~m.armed

----------------------------------------------------------------------------
(* What each step makes of one message. *)
LEMMA WaitFacts ==
    ASSUME NEW n \in Nat \ {0}
    PROVE  wait_ms(n) \in Nat
<1>1. \A k \in 1..9 : Shift[k] \in Nat
  BY DEF Shift
<1>2. (IF n < 9 THEN n ELSE 9) \in 1..9
  OBVIOUS
<1>3. PICK s \in Nat : s = Shift[IF n < 9 THEN n ELSE 9]
  BY <1>1, <1>2
<1>4. RetryTicks * s \in Nat
  BY OutboxAssumption
<1> QED
  BY <1>3, <1>4 DEF wait_ms

LEMMA HandedOutFacts ==
    ASSUME NEW m \in Sending, m.delivery \in {"turn", "path", "sent"}
    PROVE  /\ HandedOut(m) \in Sending
           /\ HandedOut(m).hash = m.hash
           /\ HandedOut(m).delivery \in {"turn", "sent"}
BY DEF HandedOut, Sending, Delivery, Waiting

LEMMA AskedFacts ==
    ASSUME NEW m \in Sending
    PROVE  /\ Asked(m) \in Sending
           /\ Asked(m).hash = m.hash
           /\ Asked(m).delivery = "path"
BY OutboxAssumption DEF Asked, Sending, Delivery, Waiting

LEMMA FailedNowFacts ==
    ASSUME NEW m \in Sending
    PROVE  /\ FailedNow(m) \in Sending
           /\ FailedNow(m).hash = m.hash
           /\ FailedNow(m).delivery \in Failed
<1>1. PICK a \in BOOLEAN, d \in Failed : FailedNow(m) = [m EXCEPT !.delivery = d, !.armed = a]
  BY DEF FailedNow, Sending, Failed
<1> QED
  BY <1>1 DEF Sending, Delivery

LEMMA WentFacts ==
    ASSUME NEW m \in Sending
    PROVE  /\ Went(m) \in Sending
           /\ Went(m).hash = m.hash
           /\ ~Limbo(Went(m))
           /\ (Went(m).delivery = m.delivery \/ (Went(m).delivery = "sent" /\ m.delivery = "turn"))
<1>1. Late(m) \in Nat
  BY DEF Late, Sending
<1>2. wait_ms(m.attempts + 1) \in Nat /\ m.attempts + 1 \in Nat
  BY WaitFacts DEF Sending
<1>3. CASE m.delivery \in {"turn", "sent"}
  <2>1. Went(m) = [m EXCEPT !.attempts = m.attempts + 1, !.delivery = "sent",
                            !.aired = TRUE, !.armed = TRUE,
                            !.next = wait_ms(m.attempts + 1), !.late = Late(m)]
    BY <1>3 DEF Went
  <2>2. /\ Went(m) \in Sending /\ Went(m).hash = m.hash
        /\ Went(m).delivery = "sent" /\ Went(m).armed = TRUE
    <3> DEFINE a == m.attempts + 1
               w == wait_ms(m.attempts + 1)
               l == Late(m)
               x == Went(m)
    <3>1. a \in Nat /\ w \in Nat /\ l \in Nat
      BY <1>1, <1>2
    <3>2. x = [m EXCEPT !.attempts = a, !.delivery = "sent", !.aired = TRUE,
                        !.armed = TRUE, !.next = w, !.late = l]
      BY <2>1
    <3> HIDE DEF a, w, l, x
    <3>3. x \in Sending /\ x.hash = m.hash /\ x.delivery = "sent" /\ x.armed = TRUE
      <4>1. x = [hash |-> m.hash, delivery |-> "sent", attempts |-> a, armed |-> TRUE,
                 next |-> w, asked |-> m.asked, aired |-> TRUE, late |-> l]
        BY <3>2 DEF Sending
      <4> QED
        BY <3>1, <4>1 DEF Sending, Delivery, Waiting
    <3> QED
      BY <3>3 DEF x
  <2>3. ~Limbo(Went(m))
    BY <2>2 DEF Limbo
  <2>4. (Went(m).delivery = m.delivery \/ (Went(m).delivery = "sent" /\ m.delivery = "turn"))
    BY <1>3, <2>2
  <2> QED
    BY <2>2, <2>3, <2>4, Zenon
<1>4. CASE m.delivery \notin {"turn", "sent"}
  <2>1. Went(m) = [m EXCEPT !.aired = TRUE, !.late = Late(m)]
    BY <1>4 DEF Went
  <2>2. Went(m) \in Sending /\ Went(m).hash = m.hash /\ Went(m).delivery = m.delivery
    BY <1>1, <2>1 DEF Sending
  <2>3. ~Limbo(Went(m))
    BY <1>4, <2>2 DEF Limbo
  <2> QED
    BY <2>2, <2>3, Zenon
<1> QED
  BY <1>3, <1>4

LEMMA NotWentFacts ==
    ASSUME NEW m \in Sending
    PROVE  /\ NotWent(m) \in Sending
           /\ NotWent(m).hash = m.hash
           /\ ~Limbo(NotWent(m))
           /\ NotWent(m).delivery = m.delivery
<1>1. CASE m.delivery \in {"turn", "sent"}
  <2>1. NotWent(m) = [m EXCEPT !.armed = TRUE, !.next = AgainTicks]
    BY <1>1 DEF NotWent
  <2> QED
    BY <2>1, OutboxAssumption DEF Sending, Limbo
<1>2. CASE m.delivery \notin {"turn", "sent"}
  BY <1>2 DEF NotWent, Limbo
<1> QED
  BY <1>1, <1>2

----------------------------------------------------------------------------
(* The outbox as a sequence. *)
LEMMA SlotFacts ==
    ASSUME TypeOK
    PROVE  /\ Len(kept) \in Nat /\ Slots = 1..Len(kept)
           /\ \A i \in Slots : /\ kept[i] \in Sending
                               /\ kept[i].hash \in Hashes
                               /\ kept[i].delivery \in Delivery
                               /\ kept[i].armed \in BOOLEAN
<1>1. Len(kept) \in Nat /\ Slots = 1..Len(kept) /\ \A i \in Slots : kept[i] \in Sending
  BY DEF TypeOK, Slots
<1>2. ASSUME NEW m \in Sending
      PROVE  m.hash \in Hashes /\ m.delivery \in Delivery /\ m.armed \in BOOLEAN
  BY DEF Sending
<1> QED
  BY <1>1, <1>2

(* A step that changes messages where they are. *)
LEMMA InPlace ==
    ASSUME TypeOK, NEW f \in [Slots -> Sending], kept' = f
    PROVE  /\ kept' \in Seq(Sending) /\ Len(kept') <= Capacity /\ Slots' = Slots
           /\ \A i \in Slots : kept'[i] = f[i]
<1>1. Len(kept) \in Nat /\ Slots = 1..Len(kept)
  BY SlotFacts
<1>2. kept' \in Seq(Sending)
  BY <1>1
<1>3. DOMAIN kept' = 1..Len(kept)
  BY <1>1
<1>4. Len(kept') = Len(kept)
  BY <1>1, <1>2, <1>3
<1> QED
  BY <1>2, <1>3, <1>4, <1>1 DEF Slots, TypeOK

(* Such a step that keeps the hashes, and writes nothing, keeps them       *)
(* distinct.                                                               *)
LEMMA DistinctKept ==
    ASSUME Distinct, Slots' = Slots, written' = written,
           \A i \in Slots : kept'[i].hash = kept[i].hash
    PROVE  Distinct'
BY DEF Distinct

(* Limbo, a message at a time. *)
LEMMA NoLimboIs ==
    NoLimbo <=> (Running => \A i \in Slots : Limbo(kept[i]) => kept[i].hash = ready)
BY DEF NoLimbo, Limbo

(* Held exactly when stopped, a message at a time. *)
Placed(m, running) == m.delivery \in Waiting => (m.delivery \in Held <=> ~running)

LEMMA HeldIs ==
    HeldExactlyWhenStopped <=> /\ ~Running => ready = None
                               /\ \A i \in Slots : Placed(kept[i], Running)
BY DEF HeldExactlyWhenStopped, Placed

----------------------------------------------------------------------------
(* The steps of a running node that change messages where they are.        *)
LEMMA RunningStep ==
    ASSUME OutboxInv, Running, mode' = mode, written' = written,
           kept' \in Seq(Sending), Len(kept') <= Capacity, Slots' = Slots,
           \A i \in Slots :
              /\ kept'[i].hash = kept[i].hash
              /\ Limbo(kept'[i]) => kept'[i].hash = ready'
              /\ Placed(kept'[i], TRUE)
    PROVE  /\ Distinct' /\ NoLimbo' /\ HeldExactlyWhenStopped'
<1>1. Running'
  BY DEF Running
<1>2. Distinct'
  BY DistinctKept DEF OutboxInv
<1>3. NoLimbo'
  BY DEF NoLimbo, Limbo
<1>4. HeldExactlyWhenStopped'
  BY <1>1 DEF HeldExactlyWhenStopped, Placed
<1> QED
  BY <1>2, <1>3, <1>4

(* The first message with something for the air is one message. *)
LEMMA FirstIsOne ==
    ASSUME TypeOK, NEW i \in First, NEW j \in First
    PROVE  i = j
<1>1. i \in Nat /\ j \in Nat /\ i \in Slots /\ j \in Slots /\ i >= 1 /\ j >= 1
  BY SlotFacts DEF First
<1>2. ASSUME NEW a \in First, NEW b \in First, a \in Nat, b \in Nat, a >= 1, a < b
      PROVE  FALSE
  <2>1. a \in 1..(b - 1)
    BY <1>2
  <2>2. ~Asks(kept[a]) /\ (Goes(kept[a]) => Unbuildable(kept[a]))
    BY <2>1 DEF First
  <2>3. (Goes(kept[a]) /\ ~Unbuildable(kept[a])) \/ Asks(kept[a])
    BY DEF First
  <2> QED
    BY <2>2, <2>3
<1> QED
  BY <1>1, <1>2

(* Only a message on its way goes, asks or fails. *)
LEMMA DueFacts ==
    ASSUME NEW m
    PROVE  (Goes(m) \/ Asks(m)) => m.delivery \in {"turn", "path", "sent"}
BY DEF Goes, Asks

LEMMA StepInv ==
    ASSUME OutboxInv, Step
    PROVE  OutboxInv'
<1> DEFINE f == [i \in Slots |->
                  IF \E k \in First : k < i THEN kept[i]
                  ELSE IF Fails(kept[i]) THEN FailedNow(kept[i])
                  ELSE IF i \in First
                       THEN IF Goes(kept[i]) THEN HandedOut(kept[i]) ELSE Asked(kept[i])
                  ELSE kept[i]]
<1>1. /\ Running /\ ready = None /\ kept' = f
      /\ UNCHANGED <<known, marked, mode, written, stops, retries>>
  BY DEF Step
<1>2. ready' = IF \E i \in First : Goes(kept[i])
               THEN kept[CHOOSE i \in First : TRUE].hash ELSE None
  BY DEF Step
<1>3. TypeOK
  BY DEF OutboxInv
<1>4. ASSUME NEW i \in Slots
      PROVE  \/ f[i] = kept[i]
             \/ f[i] = FailedNow(kept[i])
             \/ i \in First /\ Goes(kept[i]) /\ f[i] = HandedOut(kept[i])
             \/ i \in First /\ ~Goes(kept[i]) /\ f[i] = Asked(kept[i])
  OBVIOUS
<1>5. ASSUME NEW i \in First
      PROVE  i \in Slots /\ kept[i].delivery \in {"turn", "path", "sent"}
  BY DueFacts DEF First
<1>6. ASSUME NEW i \in First, Goes(kept[i])
      PROVE  ready' = kept[i].hash
  <2>1. (CHOOSE k \in First : TRUE) \in First
    BY <1>6
  <2>2. (CHOOSE k \in First : TRUE) = i
    BY <2>1, <1>3, FirstIsOne
  <2> QED
    BY <1>2, <1>6, <2>2
<1>7. ASSUME NEW i \in Slots
      PROVE  /\ f[i] \in Sending /\ f[i].hash = kept[i].hash
             /\ Limbo(f[i]) => f[i].hash = ready'
             /\ Placed(f[i], TRUE)
  <2>0. kept[i] \in Sending /\ kept[i].hash \in Hashes
    BY <1>3, SlotFacts
  <2>1. CASE f[i] = kept[i]
    <3>1. ~Limbo(kept[i])
      BY <1>1, <2>0, NoLimboIs, OutboxAssumption DEF OutboxInv
    <3>2. Placed(kept[i], TRUE)
      BY <1>1 DEF OutboxInv, HeldExactlyWhenStopped, Placed
    <3> QED
      BY <2>0, <2>1, <3>1, <3>2
  <2>2. CASE f[i] = FailedNow(kept[i])
    <3>1. f[i] \in Sending /\ f[i].hash = kept[i].hash /\ f[i].delivery \in Failed
      BY <2>0, <2>2, FailedNowFacts
    <3> HIDE DEF f
    <3> QED
      BY <3>1 DEF Failed, Limbo, Placed, Waiting, Held
  <2>3. CASE i \in First /\ Goes(kept[i]) /\ f[i] = HandedOut(kept[i])
    <3>1. f[i] \in Sending /\ f[i].hash = kept[i].hash /\ f[i].delivery \in {"turn", "sent"}
      BY <2>0, <2>3, <1>5, HandedOutFacts
    <3>2. ready' = kept[i].hash
      BY <2>3, <1>6
    <3> HIDE DEF f
    <3> QED
      BY <3>1, <3>2 DEF Placed, Waiting, Held
  <2>4. CASE f[i] = Asked(kept[i])
    <3>1. f[i] \in Sending /\ f[i].hash = kept[i].hash /\ f[i].delivery = "path"
      BY <2>0, <2>4, AskedFacts
    <3> HIDE DEF f
    <3> QED
      BY <3>1 DEF Limbo, Placed, Waiting, Held
  <2> QED
    BY <1>4, <2>1, <2>2, <2>3, <2>4
<1>8. f \in [Slots -> Sending]
  BY <1>7
<1>9. ready' \in Hashes \union {None}
  <2>1. CASE \E i \in First : Goes(kept[i])
    BY <2>1, <1>5, <1>6, <1>3, SlotFacts
  <2>2. CASE ~\E i \in First : Goes(kept[i])
    BY <2>2, <1>2
  <2> QED
    BY <2>1, <2>2
<1> HIDE DEF f
<1>10. /\ kept' \in Seq(Sending) /\ Len(kept') <= Capacity /\ Slots' = Slots
       /\ \A i \in Slots : kept'[i] = f[i]
  BY <1>1, <1>3, <1>8, InPlace
<1>11. Distinct' /\ NoLimbo' /\ HeldExactlyWhenStopped'
  BY <1>1, <1>7, <1>10, RunningStep
<1>12. TypeOK'
  BY <1>1, <1>3, <1>9, <1>10 DEF TypeOK
<1> QED
  BY <1>11, <1>12 DEF OutboxInv

(* With distinct hashes, the message found by a hash is the one that has   *)
(* it.                                                                     *)
LEMMA FoundFacts ==
    ASSUME TypeOK, Distinct, NEW h, NEW i \in Slots, i \notin Found(h)
    PROVE  kept[i].hash # h
<1> SUFFICES ASSUME kept[i].hash = h PROVE FALSE
  OBVIOUS
<1>1. PICK j \in 1..(i - 1) : kept[j].hash = h
  BY DEF Found
<1>2. j \in Slots /\ j # i
  BY <1>1, SlotFacts
<1> QED
  BY <1>1, <1>2 DEF Distinct

(* An attempt that went, or did not, is answered for: no message is left   *)
(* handed out.                                                             *)
LEMMA TransmitInv ==
    ASSUME OutboxInv, Transmit
    PROVE  OutboxInv'
<1> DEFINE f == [i \in Slots |-> IF i \in Found(ready) THEN Went(kept[i]) ELSE kept[i]]
<1>1. /\ Running /\ ready # None /\ ready' = None /\ kept' = f
      /\ UNCHANGED <<known, marked, mode, written, stops, retries>>
  BY DEF Transmit
<1>2. TypeOK
  BY DEF OutboxInv
<1>3. ASSUME NEW i \in Slots
      PROVE  /\ f[i] \in Sending /\ f[i].hash = kept[i].hash
             /\ ~Limbo(f[i]) /\ Placed(f[i], TRUE)
  <2>0. kept[i] \in Sending /\ Placed(kept[i], TRUE)
    BY <1>1, <1>2, SlotFacts DEF OutboxInv, HeldExactlyWhenStopped, Placed
  <2>1. CASE i \in Found(ready)
    <3>1. f[i] = Went(kept[i])
      BY <2>1
    <3>2. /\ f[i] \in Sending /\ f[i].hash = kept[i].hash /\ ~Limbo(f[i])
      BY <2>0, <3>1, WentFacts
    <3>3. \/ f[i].delivery = kept[i].delivery
          \/ f[i].delivery = "sent" /\ kept[i].delivery = "turn"
      BY <2>0, <3>1, WentFacts
    <3> HIDE DEF f
    <3>4. Placed(f[i], TRUE)
      BY <2>0, <3>3 DEF Placed, Waiting, Held
    <3> QED
      BY <3>2, <3>4
  <2>2. CASE i \notin Found(ready)
    <3>1. f[i] = kept[i]
      BY <2>2
    <3>2. kept[i].hash # ready
      BY <1>2, <2>2, FoundFacts DEF OutboxInv
    <3>3. ~Limbo(kept[i])
      BY <1>1, <3>2, NoLimboIs DEF OutboxInv
    <3> QED
      BY <2>0, <3>1, <3>3
  <2> QED
    BY <2>1, <2>2
<1>4. f \in [Slots -> Sending]
  BY <1>3
<1> HIDE DEF f
<1>5. /\ kept' \in Seq(Sending) /\ Len(kept') <= Capacity /\ Slots' = Slots
      /\ \A i \in Slots : kept'[i] = f[i]
  BY <1>1, <1>2, <1>4, InPlace
<1>6. Distinct' /\ NoLimbo' /\ HeldExactlyWhenStopped'
  BY <1>1, <1>3, <1>5, RunningStep
<1>7. TypeOK'
  BY <1>1, <1>2, <1>5 DEF TypeOK
<1> QED
  BY <1>6, <1>7 DEF OutboxInv

LEMMA RefuseInv ==
    ASSUME OutboxInv, Refuse
    PROVE  OutboxInv'
<1> DEFINE f == [i \in Slots |-> IF i \in Found(ready) THEN NotWent(kept[i]) ELSE kept[i]]
<1>1. /\ Running /\ ready # None /\ ready' = None /\ kept' = f
      /\ UNCHANGED <<known, marked, mode, written, stops, retries>>
  BY DEF Refuse
<1>2. TypeOK
  BY DEF OutboxInv
<1>3. ASSUME NEW i \in Slots
      PROVE  /\ f[i] \in Sending /\ f[i].hash = kept[i].hash
             /\ ~Limbo(f[i]) /\ Placed(f[i], TRUE)
  <2>0. kept[i] \in Sending /\ Placed(kept[i], TRUE)
    BY <1>1, <1>2, SlotFacts DEF OutboxInv, HeldExactlyWhenStopped, Placed
  <2>1. CASE i \in Found(ready)
    <3>1. f[i] = NotWent(kept[i])
      BY <2>1
    <3>2. /\ f[i] \in Sending /\ f[i].hash = kept[i].hash /\ ~Limbo(f[i])
      BY <2>0, <3>1, NotWentFacts
    <3>3. \/ f[i].delivery = kept[i].delivery
          \/ f[i].delivery = "sent" /\ kept[i].delivery = "turn"
      BY <2>0, <3>1, NotWentFacts
    <3> HIDE DEF f
    <3>4. Placed(f[i], TRUE)
      BY <2>0, <3>3 DEF Placed, Waiting, Held
    <3> QED
      BY <3>2, <3>4
  <2>2. CASE i \notin Found(ready)
    <3>1. f[i] = kept[i]
      BY <2>2
    <3>2. kept[i].hash # ready
      BY <1>2, <2>2, FoundFacts DEF OutboxInv
    <3>3. ~Limbo(kept[i])
      BY <1>1, <3>2, NoLimboIs DEF OutboxInv
    <3> QED
      BY <2>0, <3>1, <3>3
  <2> QED
    BY <2>1, <2>2
<1>4. f \in [Slots -> Sending]
  BY <1>3
<1> HIDE DEF f
<1>5. /\ kept' \in Seq(Sending) /\ Len(kept') <= Capacity /\ Slots' = Slots
      /\ \A i \in Slots : kept'[i] = f[i]
  BY <1>1, <1>2, <1>4, InPlace
<1>6. Distinct' /\ NoLimbo' /\ HeldExactlyWhenStopped'
  BY <1>1, <1>3, <1>5, RunningStep
<1>7. TypeOK'
  BY <1>1, <1>2, <1>5 DEF TypeOK
<1> QED
  BY <1>6, <1>7 DEF OutboxInv

LEMMA ProvedInv ==
    ASSUME OutboxInv, NEW n \in Slots, Proved(n)
    PROVE  OutboxInv'
<1> DEFINE f == [kept EXCEPT ![n] = [kept[n] EXCEPT !.delivery = "delivered", !.armed = FALSE]]
<1>1. /\ Running /\ kept' = f
      /\ UNCHANGED <<known, marked, mode, ready, written, stops, retries>>
  BY DEF Proved, Update
<1>2. TypeOK
  BY DEF OutboxInv
<1>3. ASSUME NEW i \in Slots
      PROVE  /\ f[i] \in Sending /\ f[i].hash = kept[i].hash
             /\ Limbo(f[i]) => f[i].hash = ready
             /\ Placed(f[i], TRUE)
  <2>0. kept[i] \in Sending
    BY <1>2, SlotFacts
  <2>1. CASE i = n
    <3>1. f[i] = [kept[i] EXCEPT !.delivery = "delivered", !.armed = FALSE]
      BY <2>1, <1>2 DEF Slots
    <3> HIDE DEF f
    <3>2. f[i] \in Sending /\ f[i].hash = kept[i].hash /\ f[i].delivery = "delivered"
      BY <2>0, <3>1 DEF Sending, Delivery
    <3> QED
      BY <3>2 DEF Limbo, Placed, Waiting, Held
  <2>2. CASE i # n
    <3>1. f[i] = kept[i]
      BY <2>2 DEF Slots
    <3> HIDE DEF f
    <3>2. Limbo(kept[i]) => kept[i].hash = ready
      BY <1>1, NoLimboIs DEF OutboxInv
    <3>3. Placed(kept[i], TRUE)
      BY <1>1 DEF OutboxInv, HeldExactlyWhenStopped, Placed
    <3> QED
      BY <2>0, <3>1, <3>2, <3>3
  <2> QED
    BY <2>1, <2>2
<1>4. f \in [Slots -> Sending]
  <2>1. DOMAIN f = Slots /\ f = [i \in Slots |-> f[i]]
    BY <1>2 DEF Slots, TypeOK
  <2> HIDE DEF f
  <2> QED
    BY <1>3, <2>1
<1> HIDE DEF f
<1>5. /\ kept' \in Seq(Sending) /\ Len(kept') <= Capacity /\ Slots' = Slots
      /\ \A i \in Slots : kept'[i] = f[i]
  BY <1>1, <1>2, <1>4, InPlace
<1>6. Distinct' /\ NoLimbo' /\ HeldExactlyWhenStopped'
  BY <1>1, <1>3, <1>5, RunningStep
<1>7. TypeOK'
  BY <1>1, <1>2, <1>5 DEF TypeOK
<1> QED
  BY <1>6, <1>7 DEF OutboxInv

(* Steps that leave the messages, the mode and the ready attempt alone.    *)
LEMMA PeersInv ==
    ASSUME OutboxInv, UNCHANGED <<kept, mode, ready, written, stops, retries>>,
           known' \subseteq Peers, marked' \subseteq known'
    PROVE  OutboxInv'
BY DEF OutboxInv, TypeOK, Distinct, NoLimbo, HeldExactlyWhenStopped, Slots, Running

----------------------------------------------------------------------------
(* Steps, in any mode, that change messages where they are. *)
LEMMA AnyStep ==
    ASSUME OutboxInv, written' = written,
           kept' \in Seq(Sending), Len(kept') <= Capacity, Slots' = Slots,
           ~Running' => ready' = None,
           \A i \in Slots :
              /\ kept'[i].hash = kept[i].hash
              /\ Running' /\ Limbo(kept'[i]) => kept'[i].hash = ready'
              /\ Placed(kept'[i], Running')
    PROVE  Distinct' /\ NoLimbo' /\ HeldExactlyWhenStopped'
<1>1. Distinct'
  BY DistinctKept DEF OutboxInv
<1>2. NoLimbo'
  BY DEF NoLimbo, Limbo
<1>3. HeldExactlyWhenStopped'
  BY DEF HeldExactlyWhenStopped, Placed
<1> QED
  BY <1>1, <1>2, <1>3

(* Stopping holds everything on its way, for whichever reason. *)
LEMMA StopInv ==
    ASSUME OutboxInv, NEW why \in Held, Stop(why)
    PROVE  OutboxInv'
<1> DEFINE f == [i \in Slots |-> IF kept[i].delivery \in Waiting
                     THEN [kept[i] EXCEPT !.delivery = why, !.armed = FALSE]
                     ELSE kept[i]]
<1>1. /\ Running /\ stops < MaxStops /\ kept' = f /\ mode' = why /\ ready' = None
      /\ stops' = stops + 1 /\ UNCHANGED <<known, marked, written, retries>>
  BY DEF Stop, Hold
<1>2. TypeOK
  BY DEF OutboxInv
<1>3. ~Running'
  BY <1>1 DEF Running, Held
<1>4. ASSUME NEW i \in Slots
      PROVE  f[i] \in Sending /\ f[i].hash = kept[i].hash /\ Placed(f[i], FALSE)
  <2>0. kept[i] \in Sending
    BY <1>2, SlotFacts
  <2>1. CASE kept[i].delivery \in Waiting
    <3>1. f[i] = [kept[i] EXCEPT !.delivery = why, !.armed = FALSE]
      BY <2>1
    <3> HIDE DEF f
    <3>2. f[i] \in Sending /\ f[i].hash = kept[i].hash /\ f[i].delivery = why
      BY <2>0, <3>1 DEF Sending, Delivery, Waiting
    <3> QED
      BY <3>2 DEF Placed
  <2>2. CASE kept[i].delivery \notin Waiting
    BY <2>0, <2>2 DEF Placed
  <2> QED
    BY <2>1, <2>2
<1>5. f \in [Slots -> Sending]
  BY <1>4
<1> HIDE DEF f
<1>6. /\ kept' \in Seq(Sending) /\ Len(kept') <= Capacity /\ Slots' = Slots
      /\ \A i \in Slots : kept'[i] = f[i]
  BY <1>1, <1>2, <1>5, InPlace
<1>7. Distinct' /\ NoLimbo' /\ HeldExactlyWhenStopped'
  <2>1. ASSUME NEW i \in Slots
        PROVE  /\ kept'[i].hash = kept[i].hash
               /\ Running' /\ Limbo(kept'[i]) => kept'[i].hash = ready'
               /\ Placed(kept'[i], Running')
    BY <1>3, <1>4, <1>6 DEF Placed
  <2> QED
    BY <1>1, <1>3, <1>6, <2>1, AnyStep
<1>8. TypeOK'
  BY <1>1, <1>2, <1>6, OutboxAssumption DEF TypeOK, Held
<1> QED
  BY <1>7, <1>8 DEF OutboxInv

(* Starting queues every message that was held; none was not. *)
LEMMA StartInv ==
    ASSUME OutboxInv, Start
    PROVE  OutboxInv'
<1> DEFINE f == [i \in Slots |-> IF kept[i].delivery \in Held
                     THEN [kept[i] EXCEPT !.delivery = "turn", !.armed = TRUE, !.next = 0]
                     ELSE kept[i]]
<1>1. /\ ~Running /\ kept' = f /\ mode' = "node"
      /\ UNCHANGED <<known, marked, ready, written, stops, retries>>
  BY DEF Start, Resume
<1>2. TypeOK
  BY DEF OutboxInv
<1>3. Running'
  BY <1>1 DEF Running
<1>4. ASSUME NEW i \in Slots
      PROVE  /\ f[i] \in Sending /\ f[i].hash = kept[i].hash
             /\ ~Limbo(f[i]) /\ Placed(f[i], TRUE)
  <2>0. kept[i] \in Sending /\ Placed(kept[i], FALSE)
    BY <1>1, <1>2, SlotFacts DEF OutboxInv, HeldExactlyWhenStopped, Placed
  <2>1. CASE kept[i].delivery \in Held
    <3>1. f[i] = [kept[i] EXCEPT !.delivery = "turn", !.armed = TRUE, !.next = 0]
      BY <2>1
    <3> HIDE DEF f
    <3>2. /\ f[i] \in Sending /\ f[i].hash = kept[i].hash
          /\ f[i].delivery = "turn" /\ f[i].armed = TRUE
      <4>1. f[i] = [hash |-> kept[i].hash, delivery |-> "turn", attempts |-> kept[i].attempts,
                    armed |-> TRUE, next |-> 0, asked |-> kept[i].asked,
                    aired |-> kept[i].aired, late |-> kept[i].late]
        BY <2>0, <3>1 DEF Sending
      <4> QED
        BY <2>0, <4>1 DEF Sending, Delivery, Waiting
    <3> QED
      BY <3>2 DEF Placed, Limbo, Held
  <2>2. CASE kept[i].delivery \notin Held
    <3>1. f[i] = kept[i]
      BY <2>2
    <3>2. kept[i].delivery \notin Waiting
      BY <2>0, <2>2 DEF Placed
    <3> HIDE DEF f
    <3> QED
      BY <2>0, <3>1, <3>2 DEF Placed, Limbo, Waiting
  <2> QED
    BY <2>1, <2>2
<1>5. f \in [Slots -> Sending]
  BY <1>4
<1> HIDE DEF f
<1>6. /\ kept' \in Seq(Sending) /\ Len(kept') <= Capacity /\ Slots' = Slots
      /\ \A i \in Slots : kept'[i] = f[i]
  BY <1>1, <1>2, <1>5, InPlace
<1>7. Distinct' /\ NoLimbo' /\ HeldExactlyWhenStopped'
  BY <1>1, <1>3, <1>4, <1>6, AnyStep
<1>8. TypeOK'
  BY <1>1, <1>2, <1>6 DEF TypeOK
<1> QED
  BY <1>7, <1>8 DEF OutboxInv

LEMMA SwapInv ==
    ASSUME OutboxInv, Swap
    PROVE  OutboxInv'
<1>1. /\ ~Running /\ mode' \in Held
      /\ UNCHANGED <<kept, known, marked, ready, written, stops, retries>>
  BY DEF Swap
<1>2. ~Running'
  BY <1>1 DEF Running, Held
<1> QED
  BY <1>1, <1>2 DEF OutboxInv, TypeOK, Distinct, NoLimbo, HeldExactlyWhenStopped, Slots, Held

(* A failed message tried again starts as a new one would. *)
LEMMA HeldNowFacts ==
    ASSUME TypeOK
    PROVE  /\ HeldNow \in {"turn", "host", "idle"}
           /\ Running \in BOOLEAN
           /\ Running => HeldNow = "turn"
           /\ ~Running => HeldNow \in Held
BY DEF TypeOK, HeldNow, Running, Held

LEMMA RetryInv ==
    ASSUME OutboxInv, NEW p \in Peers, Retry(p)
    PROVE  OutboxInv'
<1> DEFINE f == [i \in Slots |->
                  IF kept[i].delivery \in Failed /\ Dest[kept[i].hash] = p
                  THEN [kept[i] EXCEPT !.delivery = HeldNow, !.attempts = 0,
                                       !.armed = Running, !.next = 0, !.asked = 0]
                  ELSE kept[i]]
<1>1. /\ kept' = f /\ retries < MaxRetries /\ retries' = retries + 1
      /\ UNCHANGED <<known, marked, mode, ready, written, stops>>
  BY DEF Retry
<1>2. TypeOK
  BY DEF OutboxInv
<1>3. Running' = Running
  BY <1>1 DEF Running
<1>4. ASSUME NEW i \in Slots
      PROVE  /\ f[i] \in Sending /\ f[i].hash = kept[i].hash
             /\ Running /\ Limbo(f[i]) => f[i].hash = ready
             /\ Placed(f[i], Running)
  <2>0. kept[i] \in Sending
    BY <1>2, SlotFacts
  <2>1. CASE kept[i].delivery \in Failed /\ Dest[kept[i].hash] = p
    <3> DEFINE d == HeldNow
               r == Running
    <3>1. f[i] = [kept[i] EXCEPT !.delivery = d, !.attempts = 0, !.armed = r,
                                 !.next = 0, !.asked = 0]
      BY <2>1
    <3>2. /\ d \in {"turn", "host", "idle"} /\ r \in BOOLEAN
          /\ r => d = "turn"
          /\ ~r => d \in Held
      BY <1>2, HeldNowFacts
    <3>3. (r <=> Running) /\ d = HeldNow
      OBVIOUS
    <3> HIDE DEF f, d, r
    <3>4. /\ f[i] \in Sending /\ f[i].hash = kept[i].hash
          /\ f[i].delivery = d /\ f[i].armed = r
      <4>1. f[i] = [hash |-> kept[i].hash, delivery |-> d, attempts |-> 0, armed |-> r,
                    next |-> 0, asked |-> 0, aired |-> kept[i].aired, late |-> kept[i].late]
        BY <2>0, <3>1 DEF Sending
      <4>2. d \in Delivery
        BY <3>2 DEF Delivery, Waiting, Held
      <4> QED
        BY <2>0, <3>2, <4>1, <4>2 DEF Sending
    <3>5. Placed(f[i], r)
      BY <3>2, <3>4 DEF Placed, Held
    <3>6. ~(r /\ Limbo(f[i]))
      BY <3>4 DEF Limbo
    <3> QED
      BY <3>3, <3>4, <3>5, <3>6 DEF Placed
  <2>2. CASE ~(kept[i].delivery \in Failed /\ Dest[kept[i].hash] = p)
    <3>1. f[i] = kept[i]
      BY <2>2
    <3> HIDE DEF f
    <3>2. Running /\ Limbo(kept[i]) => kept[i].hash = ready
      BY NoLimboIs DEF OutboxInv
    <3>3. Placed(kept[i], Running)
      BY DEF OutboxInv, HeldExactlyWhenStopped, Placed
    <3> QED
      BY <2>0, <3>1, <3>2, <3>3
  <2> QED
    BY <2>1, <2>2
<1>5. f \in [Slots -> Sending]
  BY <1>4
<1> HIDE DEF f
<1>6. /\ kept' \in Seq(Sending) /\ Len(kept') <= Capacity /\ Slots' = Slots
      /\ \A i \in Slots : kept'[i] = f[i]
  BY <1>1, <1>2, <1>5, InPlace
<1>7. ~Running' => ready' = None
  BY <1>1, <1>3 DEF OutboxInv, HeldExactlyWhenStopped
<1>8. Distinct' /\ NoLimbo' /\ HeldExactlyWhenStopped'
  BY <1>1, <1>3, <1>4, <1>6, <1>7, AnyStep
<1>9. TypeOK'
  BY <1>1, <1>2, <1>6, OutboxAssumption DEF TypeOK
<1> QED
  BY <1>8, <1>9 DEF OutboxInv

(* Time passes: nothing but the clocks change. *)
LEMMA TickInv ==
    ASSUME OutboxInv, Tick
    PROVE  OutboxInv'
<1> DEFINE nx(i) == IF kept[i].armed /\ kept[i].next > 0 THEN kept[i].next - 1
                    ELSE kept[i].next
           as(i) == IF kept[i].delivery = "path" /\ kept[i].asked < PathTicks
                    THEN kept[i].asked + 1 ELSE kept[i].asked
           f == [i \in Slots |-> [kept[i] EXCEPT !.next = nx(i), !.asked = as(i)]]
<1>1. kept' = f /\ UNCHANGED <<known, marked, mode, ready, written, stops, retries>>
  BY DEF Tick
<1>2. TypeOK
  BY DEF OutboxInv
<1>3. Running' = Running
  BY <1>1 DEF Running
<1>4. ASSUME NEW i \in Slots
      PROVE  /\ f[i] \in Sending /\ f[i].hash = kept[i].hash
             /\ Running /\ Limbo(f[i]) => f[i].hash = ready
             /\ Placed(f[i], Running)
  <2>0. kept[i] \in Sending
    BY <1>2, SlotFacts
  <2>1. nx(i) \in Nat /\ as(i) \in Nat
    <3>1. kept[i].next \in Nat /\ kept[i].asked \in Nat
      BY <2>0 DEF Sending
    <3> QED
      BY <3>1
  <2>2. f[i] = [kept[i] EXCEPT !.next = nx(i), !.asked = as(i)]
    OBVIOUS
  <2> HIDE DEF f, nx, as
  <2>3. /\ f[i] \in Sending /\ f[i].hash = kept[i].hash
        /\ f[i].delivery = kept[i].delivery /\ f[i].armed = kept[i].armed
    BY <2>0, <2>1, <2>2 DEF Sending
  <2>4. Running /\ Limbo(kept[i]) => kept[i].hash = ready
    BY NoLimboIs DEF OutboxInv
  <2>5. Placed(kept[i], Running)
    BY DEF OutboxInv, HeldExactlyWhenStopped, Placed
  <2> QED
    BY <2>3, <2>4, <2>5 DEF Limbo, Placed
<1>5. f \in [Slots -> Sending]
  BY <1>4
<1> HIDE DEF f
<1>6. /\ kept' \in Seq(Sending) /\ Len(kept') <= Capacity /\ Slots' = Slots
      /\ \A i \in Slots : kept'[i] = f[i]
  BY <1>1, <1>2, <1>5, InPlace
<1>7. ~Running' => ready' = None
  BY <1>1, <1>3 DEF OutboxInv, HeldExactlyWhenStopped
<1>8. Distinct' /\ NoLimbo' /\ HeldExactlyWhenStopped'
  BY <1>1, <1>3, <1>4, <1>6, <1>7, AnyStep
<1>9. TypeOK'
  BY <1>1, <1>2, <1>6 DEF TypeOK
<1> QED
  BY <1>8, <1>9 DEF OutboxInv

----------------------------------------------------------------------------
(* A new message at the end of what is left of the outbox, g saying which  *)
(* messages those are.                                                     *)
LEMMA AppendInv ==
    ASSUME OutboxInv, NEW h \in Hashes, written[h] = 0,
           NEW base \in Seq(Sending), Len(base) < Capacity,
           NEW g \in [1..Len(base) -> Slots],
           \A j \in 1..Len(base) : base[j] = kept[g[j]],
           \A j, k \in 1..Len(base) : g[j] = g[k] => j = k,
           kept' = Append(base, NewMessage(h)),
           written' = [written EXCEPT ![h] = @ + 1],
           marked' \subseteq known, known' = known,
           UNCHANGED <<mode, ready, stops, retries>>
    PROVE  OutboxInv'
<1>1. TypeOK
  BY DEF OutboxInv
<1>2. NewMessage(h) \in Sending
  <2> DEFINE d == HeldNow
             r == Running
  <2>1. d \in Delivery /\ r \in BOOLEAN
    BY <1>1, HeldNowFacts DEF Delivery, Waiting, Held
  <2>2. NewMessage(h) = [hash |-> h, delivery |-> d, attempts |-> 0, armed |-> r,
                         next |-> 0, asked |-> 0, aired |-> FALSE, late |-> 0]
    BY DEF NewMessage
  <2> HIDE DEF d, r
  <2> QED
    BY <2>1, <2>2 DEF Sending
<1> DEFINE n == NewMessage(h)
<1>3. n.hash = h /\ n.delivery = HeldNow /\ n.armed = Running
  BY DEF NewMessage
<1> HIDE DEF n
<1>4. /\ kept' \in Seq(Sending) /\ Len(kept') = Len(base) + 1
      /\ Slots' = 1..(Len(base) + 1)
      /\ \A j \in 1..Len(base) : kept'[j] = base[j]
      /\ kept'[Len(base) + 1] = n
  BY <1>2 DEF n, Slots
<1>5. Len(base) \in Nat /\ Capacity \in Nat
  BY OutboxAssumption
<1>6. Running' = Running
  BY DEF Running
<1>7. ASSUME NEW j \in Slots'
      PROVE  \/ j \in 1..Len(base) /\ g[j] \in Slots /\ kept'[j] = kept[g[j]]
             \/ j = Len(base) + 1 /\ kept'[j] = n
  <2>1. j \in 1..Len(base) \/ j = Len(base) + 1
    BY <1>4, <1>5
  <2> QED
    BY <2>1, <1>4
<1>8. TypeOK'
  <2>1. written' \in [Hashes -> Nat]
    BY <1>1 DEF TypeOK
  <2>2. Len(kept') <= Capacity
    BY <1>4, <1>5
  <2> QED
    BY <1>1, <1>4, <2>1, <2>2 DEF TypeOK
<1>9. Distinct'
  <2>1. ASSUME NEW i \in Slots PROVE kept[i].hash # h /\ kept[i].hash \in Hashes
    <3>1. written[kept[i].hash] >= 1
      BY DEF OutboxInv, Distinct
    <3> QED
      BY <3>1, <1>1, SlotFacts
  <2>2. ASSUME NEW j \in Slots', NEW k \in Slots', kept'[j].hash = kept'[k].hash
        PROVE  j = k
    <3>1. CASE j \in 1..Len(base) /\ k \in 1..Len(base)
      <4>1. kept'[j] = kept[g[j]] /\ kept'[k] = kept[g[k]] /\ g[j] \in Slots /\ g[k] \in Slots
        BY <3>1, <1>4
      <4>2. g[j] = g[k]
        BY <2>2, <4>1 DEF OutboxInv, Distinct
      <4> QED
        BY <3>1, <4>2
    <3>2. CASE j = Len(base) + 1 /\ k = Len(base) + 1
      BY <3>2
    <3>3. CASE j \in 1..Len(base) /\ k = Len(base) + 1 /\ kept'[k] = n
      <4>1. kept'[j] = kept[g[j]] /\ g[j] \in Slots
        BY <3>3, <1>4
      <4> QED
        BY <2>1, <2>2, <3>3, <4>1, <1>3
    <3>4. CASE k \in 1..Len(base) /\ j = Len(base) + 1 /\ kept'[j] = n
      <4>1. kept'[k] = kept[g[k]] /\ g[k] \in Slots
        BY <3>4, <1>4
      <4> QED
        BY <2>1, <2>2, <3>4, <4>1, <1>3
    <3> QED
      BY <3>1, <3>2, <3>3, <3>4, <1>7
  <2>3. ASSUME NEW j \in Slots' PROVE written'[kept'[j].hash] >= 1
    <3>1. CASE g[j] \in Slots /\ kept'[j] = kept[g[j]]
      <4>1. written[kept[g[j]].hash] >= 1 /\ kept[g[j]].hash \in Hashes /\ kept[g[j]].hash # h
        BY <3>1, <2>1 DEF OutboxInv, Distinct
      <4>2. written'[kept[g[j]].hash] = written[kept[g[j]].hash]
        BY <4>1, <1>1 DEF TypeOK
      <4> QED
        BY <3>1, <4>1, <4>2
    <3>2. CASE kept'[j] = n
      <4>1. written'[h] = 1
        BY <1>1 DEF TypeOK
      <4> QED
        BY <3>2, <4>1, <1>3
    <3> QED
      BY <3>1, <3>2, <1>7
  <2> QED
    BY <2>2, <2>3 DEF Distinct
<1>10. NoLimbo'
  <2> SUFFICES ASSUME Running, NEW j \in Slots', Limbo(kept'[j])
               PROVE  kept'[j].hash = ready
    BY <1>6 DEF NoLimbo, Limbo
  <2>1. CASE g[j] \in Slots /\ kept'[j] = kept[g[j]]
    BY <2>1, NoLimboIs DEF OutboxInv
  <2>2. CASE kept'[j] = n
    BY <2>2, <1>3 DEF Limbo
  <2> QED
    BY <2>1, <2>2, <1>7
<1>11. HeldExactlyWhenStopped'
  <2>1. ~Running' => ready' = None
    BY <1>6 DEF OutboxInv, HeldExactlyWhenStopped
  <2>2. ASSUME NEW j \in Slots' PROVE Placed(kept'[j], Running)
    <3>1. CASE g[j] \in Slots /\ kept'[j] = kept[g[j]]
      BY <3>1 DEF OutboxInv, HeldExactlyWhenStopped, Placed
    <3>2. CASE kept'[j] = n
      <4>1. HeldNow \in Held <=> ~Running
        BY <1>1, HeldNowFacts DEF Held
      <4> QED
        BY <3>2, <4>1, <1>3 DEF Placed
    <3> QED
      BY <3>1, <3>2, <1>7
  <2> QED
    BY <1>6, <2>1, <2>2 DEF HeldExactlyWhenStopped, Placed
<1> QED
  BY <1>8, <1>9, <1>10, <1>11 DEF OutboxInv

LEMMA ComposeInv ==
    ASSUME OutboxInv, MaxAlike = 1, NEW h \in Hashes, Compose(h)
    PROVE  OutboxInv'
<1>1. TypeOK
  BY DEF OutboxInv
<1>2. /\ written[h] = 0 /\ written' = [written EXCEPT ![h] = @ + 1]
      /\ marked' \subseteq known /\ UNCHANGED <<known, mode, ready, stops, retries>>
  BY <1>1 DEF Compose, TypeOK
<1>3. Len(kept) \in Nat /\ Slots = 1..Len(kept) /\ kept \in Seq(Sending)
  BY <1>1, SlotFacts DEF TypeOK
<1>4. CASE Len(kept) < Capacity /\ kept' = Append(kept, NewMessage(h))
  <2> DEFINE g == [j \in 1..Len(kept) |-> j]
  <2>1. /\ g \in [1..Len(kept) -> Slots]
        /\ \A j \in 1..Len(kept) : kept[j] = kept[g[j]]
        /\ \A j, k \in 1..Len(kept) : g[j] = g[k] => j = k
    BY <1>3
  <2> HIDE DEF g
  <2> QED
    BY <1>2, <1>3, <1>4, <2>1, AppendInv
<1>5. CASE \E i \in Evictable : Len(kept) = Capacity /\ kept' = Append(Without(i), NewMessage(h))
  <2>1. PICK i \in Evictable : Len(kept) = Capacity /\ kept' = Append(Without(i), NewMessage(h))
    BY <1>5
  <2>2. i \in 1..Len(kept)
    BY <1>3 DEF Evictable, Oldest
  <2> DEFINE n == Len(kept) - 1
             g == [j \in 1..n |-> IF j < i THEN j ELSE j + 1]
             base == Without(i)
  <2>3. n \in Nat /\ Len(kept) = n + 1
    BY <1>3, <2>2
  <2>4. base = [j \in 1..n |-> IF j < i THEN kept[j] ELSE kept[j + 1]]
    BY DEF Without
  <2>5. \A j \in 1..n : j \in Slots /\ j + 1 \in Slots
    BY <1>3, <2>3
  <2>6. \A j \in 1..n : g[j] \in Slots /\ base[j] = kept[g[j]]
    BY <2>4, <2>5
  <2>7. \A j, k \in 1..n : g[j] = g[k] => j = k
    BY <2>2, <2>3
  <2>8. g \in [1..n -> Slots]
    BY <2>6
  <2>9. \A j \in Slots : kept[j] \in Sending
    BY <1>1, SlotFacts
  <2>10. base \in Seq(Sending) /\ Len(base) = n
    <3>1. base \in [1..n -> Sending]
      BY <2>4, <2>5, <2>9
    <3> HIDE DEF base, n
    <3> QED
      BY <3>1, <2>3
  <2>11. Len(base) < Capacity
    BY <2>1, <2>3, <2>10
  <2>12. kept' = Append(base, NewMessage(h))
    BY <2>1
  <2> HIDE DEF g, n, base
  <2> QED
    BY <1>2, <2>6, <2>7, <2>8, <2>10, <2>11, <2>12, AppendInv
<1> QED
  BY <1>4, <1>5 DEF Compose

LEMMA InitInv == Init => OutboxInv
<1> SUFFICES ASSUME Init PROVE OutboxInv
  OBVIOUS
<1>1. kept = <<>> /\ Slots = {}
  BY DEF Init, Slots
<1>2. TypeOK
  BY <1>1, OutboxAssumption DEF Init, TypeOK
<1> QED
  BY <1>1, <1>2 DEF Init, OutboxInv, Distinct, NoLimbo, HeldExactlyWhenStopped

LEMMA NextInv ==
    ASSUME OutboxInv, MaxAlike = 1, [Next]_vars
    PROVE  OutboxInv'
<1>1. ASSUME NEW p \in Peers, Learn(p) \/ Forget(p) PROVE OutboxInv'
  <2>1. /\ UNCHANGED <<kept, mode, ready, written, stops, retries>>
        /\ known' \subseteq Peers /\ marked' \subseteq known'
    BY <1>1 DEF Learn, Forget, OutboxInv, TypeOK
  <2> QED
    BY <2>1, PeersInv
<1>2. CASE UNCHANGED vars
  BY <1>2 DEF vars, OutboxInv, TypeOK, Distinct, NoLimbo, HeldExactlyWhenStopped, Slots, Running
<1> QED
  BY <1>1, <1>2, ComposeInv, StepInv, TransmitInv, RefuseInv, ProvedInv, RetryInv,
     StopInv, StartInv, SwapInv, TickInv DEF Next

LEMMA Inductive ==
    ASSUME MaxAlike = 1
    PROVE  Spec => []OutboxInv
<1>1. OutboxInv /\ [Next]_vars => OutboxInv'
  BY NextInv
<1> QED
  BY <1>1, InitInv, PTL DEF Spec

(* Type correctness: the outbox never holds more than its capacity, and a  *)
(* conversation is only ever marked with a peer whose key is known.        *)
THEOREM TypeCorrect ==
    ASSUME MaxAlike = 1
    PROVE  Spec => []TypeOK
<1>1. OutboxInv => TypeOK
  BY DEF OutboxInv
<1> QED
  BY <1>1, Inductive, PTL

(* No message is left handed out with nobody to answer for it: whatever    *)
(* holds, resumes, proves, refuses or pushes out messages, Outbox::due     *)
(* sees again every one that is not the attempt that is ready.             *)
THEOREM NobodyInLimbo ==
    ASSUME MaxAlike = 1
    PROVE  Spec => []NoLimbo
<1>1. OutboxInv => NoLimbo
  BY DEF OutboxInv
<1> QED
  BY <1>1, Inductive, PTL

(* Every unfinished message is held when the node is stopped, and none is  *)
(* when it runs: Outbox::hold and Outbox::resume miss nothing, and no      *)
(* attempt built before a host came is left to be sent while it is there.  *)
THEOREM HeldWhenStopped ==
    ASSUME MaxAlike = 1
    PROVE  Spec => []HeldExactlyWhenStopped
<1>1. OutboxInv => HeldExactlyWhenStopped
  BY DEF OutboxInv
<1> QED
  BY <1>1, Inductive, PTL

----------------------------------------------------------------------------
(* The bounds on attempts.  A message that may go again without Outbox::due *)
(* looking at how often it has gone owes an attempt: one that waits for its *)
(* turn or a path, is held, or is handed out.                               *)
Owing(m) == m.delivery \in {"turn", "path"} \union Held \/ Limbo(m)

WithinBudget(m, s) ==
    /\ m.attempts <= MaxAttempts + s
    /\ Owing(m) => m.attempts + 1 <= MaxAttempts + s

(* A message that went again after its proof is still delivered, and is not *)
(* the one whose attempt is ready.                                          *)
ProofCounted(m, r) ==
    /\ m.late <= 1
    /\ m.late = 1 => m.delivery = "delivered" /\ m.hash # r

(* The attempt that is ready is of a message that was written; and if that  *)
(* is still kept, it is handed out, or proved since.                        *)
ReadyAnswered ==
    ready # None =>
        /\ written[ready] >= 1
        /\ \A i \in Slots :
             kept[i].hash = ready => Limbo(kept[i]) \/ kept[i].delivery = "delivered"

BudgetInv ==
    /\ ReadyAnswered
    /\ \A i \in Slots : WithinBudget(kept[i], stops) /\ ProofCounted(kept[i], ready)

LEMMA BudgetFacts ==
    ASSUME OutboxInv, BudgetInv, NEW i \in Slots
    PROVE  /\ kept[i] \in Sending
           /\ kept[i].hash \in Hashes /\ kept[i].hash # None
           /\ kept[i].attempts \in Nat /\ kept[i].late \in Nat
           /\ WithinBudget(kept[i], stops) /\ ProofCounted(kept[i], ready)
           /\ kept[i].delivery # "delivered" => kept[i].late = 0
<1>1. kept[i] \in Sending /\ WithinBudget(kept[i], stops) /\ ProofCounted(kept[i], ready)
  BY SlotFacts DEF OutboxInv, BudgetInv
<1>2. kept[i].hash \in Hashes /\ kept[i].attempts \in Nat /\ kept[i].late \in Nat
  BY <1>1 DEF Sending
<1>3. kept[i].hash # None
  BY <1>2, OutboxAssumption
<1>4. kept[i].delivery # "delivered" => kept[i].late = 0
  BY <1>1, <1>2 DEF ProofCounted
<1> QED
  BY <1>1, <1>2, <1>3, <1>4

LEMMA BoundFacts ==
    ASSUME OutboxInv
    PROVE  stops \in Nat /\ MaxAttempts \in Nat /\ MaxAttempts >= 1
BY OutboxAssumption DEF OutboxInv, TypeOK

(* A step that changes messages where they are and builds no attempt.      *)
LEMMA BudgetInPlace ==
    ASSUME OutboxInv, BudgetInv, Slots' = Slots, written' = written,
           ready' \in {ready, None},
           \A i \in Slots :
              /\ kept'[i].hash = kept[i].hash
              /\ WithinBudget(kept'[i], stops')
              /\ ProofCounted(kept'[i], ready')
              /\ ready' # None /\ kept[i].hash = ready =>
                    (Limbo(kept[i]) => Limbo(kept'[i]) \/ kept'[i].delivery = "delivered")
              /\ kept[i].delivery = "delivered" => kept'[i].delivery = "delivered"
    PROVE  BudgetInv'
<1>1. ReadyAnswered'
  <2> SUFFICES ASSUME ready' # None
               PROVE  /\ written'[ready'] >= 1
                      /\ \A i \in Slots' : kept'[i].hash = ready' =>
                            Limbo(kept'[i]) \/ kept'[i].delivery = "delivered"
    BY DEF ReadyAnswered, Limbo
  <2>1. ready' = ready /\ ready # None
    OBVIOUS
  <2> QED
    BY <2>1 DEF BudgetInv, ReadyAnswered
<1>2. \A i \in Slots' : WithinBudget(kept'[i], stops') /\ ProofCounted(kept'[i], ready')
  OBVIOUS
<1> QED
  BY <1>1, <1>2 DEF BudgetInv, WithinBudget, ProofCounted, Owing, Limbo

(* Only messages that were written by the time they went are handed out. *)
LEMMA StepBudget ==
    ASSUME OutboxInv, BudgetInv, Step
    PROVE  BudgetInv'
<1> DEFINE f == [i \in Slots |->
                  IF \E k \in First : k < i THEN kept[i]
                  ELSE IF Fails(kept[i]) THEN FailedNow(kept[i])
                  ELSE IF i \in First
                       THEN IF Goes(kept[i]) THEN HandedOut(kept[i]) ELSE Asked(kept[i])
                  ELSE kept[i]]
<1>1. /\ Running /\ ready = None /\ kept' = f
      /\ UNCHANGED <<known, marked, mode, written, stops, retries>>
  BY DEF Step
<1>2. ready' = IF \E i \in First : Goes(kept[i])
               THEN kept[CHOOSE i \in First : TRUE].hash ELSE None
  BY DEF Step
<1>3. TypeOK /\ Distinct
  BY DEF OutboxInv
<1>4. Slots' = Slots
  BY <1>1 DEF Slots
<1>5. ASSUME NEW i \in Slots
      PROVE  \/ f[i] = kept[i]
             \/ Fails(kept[i]) /\ f[i] = FailedNow(kept[i])
             \/ i \in First /\ Goes(kept[i]) /\ f[i] = HandedOut(kept[i])
             \/ i \in First /\ Asks(kept[i]) /\ f[i] = Asked(kept[i])
  BY DEF First
<1>6. ASSUME NEW i \in First, Goes(kept[i])
      PROVE  ready' = kept[i].hash
  <2>1. (CHOOSE k \in First : TRUE) \in First
    BY <1>6
  <2>2. (CHOOSE k \in First : TRUE) = i
    BY <2>1, <1>3, FirstIsOne
  <2> QED
    BY <1>2, <1>6, <2>2
<1>7. \/ ready' = None
      \/ \E i \in First : i \in Slots /\ Goes(kept[i]) /\ ready' = kept[i].hash
  BY <1>2, <1>6 DEF First
<1>8. ASSUME NEW i \in Slots
      PROVE  /\ f[i].hash = kept[i].hash
             /\ WithinBudget(f[i], stops)
             /\ ProofCounted(f[i], ready')
  <2>0. /\ kept[i] \in Sending /\ kept[i].hash # None
        /\ kept[i].attempts \in Nat /\ kept[i].late \in Nat
        /\ WithinBudget(kept[i], stops) /\ ProofCounted(kept[i], ready)
        /\ kept[i].delivery # "delivered" => kept[i].late = 0
        /\ stops \in Nat /\ MaxAttempts \in Nat /\ MaxAttempts >= 1
    BY BudgetFacts, BoundFacts
  <2>1. CASE f[i] = kept[i]
    <3>1. kept[i].late = 1 => kept[i].hash # ready'
      <4> SUFFICES ASSUME kept[i].late = 1 PROVE kept[i].hash # ready'
        OBVIOUS
      <4>1. kept[i].delivery = "delivered"
        BY <2>0
      <4>2. ASSUME NEW k \in First, k \in Slots, Goes(kept[k]) PROVE kept[k].hash # kept[i].hash
        <5>1. k # i
          BY <4>1, <4>2, DueFacts
        <5> QED
          BY <5>1, <4>2, <1>3 DEF Distinct
      <4> QED
        BY <1>7, <4>2, <2>0
    <3> QED
      BY <2>0, <2>1, <3>1 DEF ProofCounted
  <2>2. CASE Fails(kept[i]) /\ f[i] = FailedNow(kept[i])
    <3>1. kept[i].delivery # "delivered"
      BY <2>2 DEF Fails, TimesOut, Unbuildable, Goes
    <3>2. PICK a \in BOOLEAN, d \in Failed : f[i] = [kept[i] EXCEPT !.delivery = d, !.armed = a]
      BY <2>0, <2>2 DEF FailedNow, Sending, Failed
    <3> HIDE DEF f
    <3>3. /\ f[i].hash = kept[i].hash /\ f[i].attempts = kept[i].attempts
          /\ f[i].late = kept[i].late /\ f[i].delivery \in Failed
      BY <2>0, <3>2 DEF Sending
    <3> QED
      BY <2>0, <3>1, <3>3 DEF WithinBudget, ProofCounted, Owing, Limbo, Held, Failed
  <2>3. CASE i \in First /\ Goes(kept[i]) /\ f[i] = HandedOut(kept[i])
    <3>1. /\ f[i].hash = kept[i].hash /\ f[i].attempts = kept[i].attempts
          /\ f[i].late = kept[i].late
      BY <2>0, <2>3 DEF HandedOut, Sending
    <3> HIDE DEF f
    <3>2. kept[i].delivery # "delivered"
      BY <2>3, DueFacts
    <3>3. kept[i].attempts + 1 <= MaxAttempts + stops
      BY <2>0, <2>3 DEF Goes, WithinBudget, Owing, Spent
    <3> QED
      BY <2>0, <3>1, <3>2, <3>3 DEF WithinBudget, ProofCounted
  <2>4. CASE i \in First /\ Asks(kept[i]) /\ f[i] = Asked(kept[i])
    <3>1. /\ f[i].hash = kept[i].hash /\ f[i].attempts = kept[i].attempts
          /\ f[i].late = kept[i].late
      BY <2>0, <2>4 DEF Asked, Sending
    <3> HIDE DEF f
    <3>2. kept[i].delivery # "delivered"
      BY <2>4, DueFacts
    <3>3. kept[i].attempts + 1 <= MaxAttempts + stops
      BY <2>0, <2>4 DEF Asks, WithinBudget, Owing, Spent
    <3> QED
      BY <2>0, <3>1, <3>2, <3>3 DEF WithinBudget, ProofCounted
  <2> QED
    BY <1>5, <2>1, <2>2, <2>3, <2>4
<1>9. ReadyAnswered'
  <2> SUFFICES ASSUME ready' # None
               PROVE  /\ written'[ready'] >= 1
                      /\ \A j \in Slots' : kept'[j].hash = ready' =>
                            Limbo(kept'[j]) \/ kept'[j].delivery = "delivered"
    BY DEF ReadyAnswered, Limbo
  <2>1. PICK i \in First : i \in Slots /\ Goes(kept[i]) /\ ready' = kept[i].hash
    BY <1>7
  <2>2. written'[ready'] >= 1
    BY <1>1, <1>3, <2>1 DEF Distinct
  <2>3. Limbo(f[i])
    <3>1. kept[i] \in Sending /\ kept[i].delivery \in {"turn", "path", "sent"}
      BY <2>1, BudgetFacts, DueFacts
    <3>2. f[i] = HandedOut(kept[i])
      <4>1. ~Fails(kept[i])
        BY <2>1 DEF First, Fails, TimesOut, Goes, Asks, Unbuildable
      <4>2. ~\E k \in First : k < i
        <5> SUFFICES ASSUME NEW k \in First, k < i PROVE FALSE
          OBVIOUS
        <5>1. k = i /\ i \in Nat
          BY <1>3, <2>1, FirstIsOne, SlotFacts
        <5> QED
          BY <5>1
      <4> QED
        BY <2>1, <4>1, <4>2
    <3>3. HandedOut(kept[i]).delivery \in {"turn", "sent"} /\ HandedOut(kept[i]).armed = FALSE
      BY <3>1 DEF HandedOut, Sending
    <3> QED
      BY <3>2, <3>3 DEF Limbo
  <2>4. ASSUME NEW j \in Slots', kept'[j].hash = ready'
        PROVE  Limbo(kept'[j])
    <3>1. kept'[j] = f[j] /\ f[j].hash = kept[j].hash /\ j \in Slots
      BY <1>1, <1>4, <1>8
    <3>2. j = i
      BY <1>3, <2>1, <2>4, <3>1 DEF Distinct
    <3> QED
      BY <2>3, <3>1, <3>2
  <2> QED
    BY <2>2, <2>4
<1>10. \A i \in Slots' : WithinBudget(kept'[i], stops') /\ ProofCounted(kept'[i], ready')
  BY <1>1, <1>4, <1>8
<1> QED
  BY <1>9, <1>10 DEF BudgetInv, WithinBudget, ProofCounted, Owing, Limbo

(* An attempt that went counts; only one that was built before the proof   *)
(* was read can go after it, and it is the last.                           *)
LEMMA TransmitBudget ==
    ASSUME OutboxInv, BudgetInv, Transmit
    PROVE  BudgetInv'
<1> DEFINE f == [i \in Slots |-> IF i \in Found(ready) THEN Went(kept[i]) ELSE kept[i]]
<1>1. /\ Running /\ ready # None /\ ready' = None /\ kept' = f
      /\ UNCHANGED <<known, marked, mode, written, stops, retries>>
  BY DEF Transmit
<1>2. Slots' = Slots
  BY <1>1 DEF Slots
<1>3. ASSUME NEW i \in Slots
      PROVE  /\ f[i].hash = kept[i].hash
             /\ WithinBudget(f[i], stops) /\ ProofCounted(f[i], None)
             /\ kept[i].delivery = "delivered" => f[i].delivery = "delivered"
  <2>0. /\ kept[i] \in Sending /\ kept[i].hash # None
        /\ kept[i].attempts \in Nat /\ kept[i].late \in Nat
        /\ WithinBudget(kept[i], stops) /\ ProofCounted(kept[i], ready)
        /\ kept[i].delivery # "delivered" => kept[i].late = 0
        /\ stops \in Nat /\ MaxAttempts \in Nat /\ MaxAttempts >= 1
    BY BudgetFacts, BoundFacts
  <2>1. CASE i \notin Found(ready)
    <3>1. f[i] = kept[i]
      BY <2>1
    <3> QED
      BY <2>0, <3>1 DEF ProofCounted
  <2>2. CASE i \in Found(ready)
    <3>1. kept[i].hash = ready /\ f[i] = Went(kept[i])
      BY <2>2 DEF Found
    <3>2. Limbo(kept[i]) \/ kept[i].delivery = "delivered"
      BY <1>1, <3>1 DEF BudgetInv, ReadyAnswered
    <3>3. kept[i].late = 0
      BY <2>0, <3>1 DEF ProofCounted
    <3> DEFINE l == Late(kept[i])
               w == wait_ms(kept[i].attempts + 1)
    <3>4. l = IF kept[i].delivery = "delivered" THEN 1 ELSE 0
      BY <3>3 DEF Late
    <3>5. CASE kept[i].delivery = "delivered"
      <4>1. f[i] = [kept[i] EXCEPT !.aired = TRUE, !.late = l]
        BY <3>1, <3>5 DEF Went
      <4> HIDE DEF f, l
      <4>2. /\ f[i].hash = kept[i].hash /\ f[i].attempts = kept[i].attempts
            /\ f[i].late = l /\ f[i].delivery = "delivered"
        BY <2>0, <3>5, <4>1 DEF Sending
      <4> QED
        BY <2>0, <3>4, <3>5, <4>2 DEF WithinBudget, ProofCounted, Owing, Limbo, Held
    <3>6. CASE Limbo(kept[i])
      <4>1. /\ kept[i].delivery \in {"turn", "sent"}
            /\ kept[i].attempts + 1 <= MaxAttempts + stops
        BY <2>0, <3>6 DEF Limbo, WithinBudget, Owing
      <4>2. f[i] = [kept[i] EXCEPT !.attempts = kept[i].attempts + 1, !.delivery = "sent",
                                   !.aired = TRUE, !.armed = TRUE, !.next = w, !.late = l]
        BY <3>1, <4>1 DEF Went
      <4> HIDE DEF f, l, w
      <4>3. /\ f[i].hash = kept[i].hash /\ f[i].attempts = kept[i].attempts + 1
            /\ f[i].late = l /\ f[i].delivery = "sent" /\ f[i].armed = TRUE
        BY <2>0, <4>2 DEF Sending
      <4>4. l = 0 /\ ~Owing(f[i])
        BY <3>4, <4>1, <4>3 DEF Owing, Limbo, Held
      <4> QED
        BY <2>0, <4>1, <4>3, <4>4 DEF WithinBudget, ProofCounted
    <3> QED
      BY <3>2, <3>5, <3>6
  <2> QED
    BY <2>1, <2>2
<1> HIDE DEF f
<1>4. \A i \in Slots : kept'[i] = f[i]
  BY <1>1
<1>5. ASSUME NEW i \in Slots
      PROVE  /\ kept'[i].hash = kept[i].hash
             /\ WithinBudget(kept'[i], stops')
             /\ ProofCounted(kept'[i], ready')
             /\ kept[i].delivery = "delivered" => kept'[i].delivery = "delivered"
  BY <1>1, <1>3, <1>4
<1> QED
  BY <1>1, <1>2, <1>5, BudgetInPlace

(* One that did not go leaves what it owed. *)
LEMMA RefuseBudget ==
    ASSUME OutboxInv, BudgetInv, Refuse
    PROVE  BudgetInv'
<1> DEFINE f == [i \in Slots |-> IF i \in Found(ready) THEN NotWent(kept[i]) ELSE kept[i]]
<1>1. /\ ready' = None /\ kept' = f
      /\ UNCHANGED <<known, marked, mode, written, stops, retries>>
  BY DEF Refuse
<1>2. Slots' = Slots
  BY <1>1 DEF Slots
<1>3. ASSUME NEW i \in Slots
      PROVE  /\ f[i].hash = kept[i].hash
             /\ WithinBudget(f[i], stops) /\ ProofCounted(f[i], None)
             /\ kept[i].delivery = "delivered" => f[i].delivery = "delivered"
  <2>0. /\ kept[i] \in Sending /\ kept[i].hash # None
        /\ WithinBudget(kept[i], stops) /\ ProofCounted(kept[i], ready)
    BY BudgetFacts
  <2>1. CASE f[i] = kept[i]
    BY <2>0, <2>1 DEF ProofCounted
  <2>2. CASE f[i] # kept[i]
    <3>1. f[i] = [kept[i] EXCEPT !.armed = TRUE, !.next = AgainTicks]
      BY <2>2 DEF NotWent
    <3> HIDE DEF f
    <3>2. /\ f[i].hash = kept[i].hash /\ f[i].attempts = kept[i].attempts
          /\ f[i].late = kept[i].late /\ f[i].delivery = kept[i].delivery
          /\ f[i].armed = TRUE
      BY <2>0, <3>1 DEF Sending
    <3> QED
      BY <2>0, <3>2 DEF WithinBudget, ProofCounted, Owing, Limbo
  <2> QED
    BY <2>1, <2>2
<1> HIDE DEF f
<1>4. \A i \in Slots : kept'[i] = f[i]
  BY <1>1
<1>5. ASSUME NEW i \in Slots
      PROVE  /\ kept'[i].hash = kept[i].hash
             /\ WithinBudget(kept'[i], stops')
             /\ ProofCounted(kept'[i], ready')
             /\ kept[i].delivery = "delivered" => kept'[i].delivery = "delivered"
  BY <1>1, <1>3, <1>4
<1> QED
  BY <1>1, <1>2, <1>5, BudgetInPlace

(* A proof while the attempt is ready: the message is delivered, and the   *)
(* attempt may still go once.                                              *)
LEMMA ProvedBudget ==
    ASSUME OutboxInv, BudgetInv, NEW n \in Slots, Proved(n)
    PROVE  BudgetInv'
<1> DEFINE f == [kept EXCEPT ![n] = [kept[n] EXCEPT !.delivery = "delivered", !.armed = FALSE]]
<1>1. /\ kept' = f /\ kept[n].delivery # "delivered"
      /\ UNCHANGED <<known, marked, mode, ready, written, stops, retries>>
  BY DEF Proved, Update
<1>2. Slots' = Slots
  BY <1>1 DEF Slots
<1>3. ASSUME NEW i \in Slots
      PROVE  /\ f[i].hash = kept[i].hash
             /\ WithinBudget(f[i], stops) /\ ProofCounted(f[i], ready)
             /\ Limbo(kept[i]) => Limbo(f[i]) \/ f[i].delivery = "delivered"
             /\ kept[i].delivery = "delivered" => f[i].delivery = "delivered"
  <2>0. /\ kept[i] \in Sending
        /\ WithinBudget(kept[i], stops) /\ ProofCounted(kept[i], ready)
        /\ kept[i].delivery # "delivered" => kept[i].late = 0
    BY BudgetFacts
  <2>1. CASE i = n
    <3>1. f[i] = [kept[i] EXCEPT !.delivery = "delivered", !.armed = FALSE]
      BY <2>1 DEF Slots
    <3> HIDE DEF f
    <3>2. /\ f[i].hash = kept[i].hash /\ f[i].attempts = kept[i].attempts
          /\ f[i].late = kept[i].late /\ f[i].delivery = "delivered"
      BY <2>0, <3>1 DEF Sending
    <3> QED
      BY <1>1, <2>0, <2>1, <3>2 DEF WithinBudget, ProofCounted, Owing, Limbo, Held
  <2>2. CASE i # n
    <3>1. f[i] = kept[i]
      BY <2>2 DEF Slots
    <3> QED
      BY <2>0, <3>1
  <2> QED
    BY <2>1, <2>2
<1> HIDE DEF f
<1>5. ASSUME NEW i \in Slots
      PROVE  /\ kept'[i].hash = kept[i].hash
             /\ WithinBudget(kept'[i], stops')
             /\ ProofCounted(kept'[i], ready')
             /\ Limbo(kept[i]) => Limbo(kept'[i]) \/ kept'[i].delivery = "delivered"
             /\ kept[i].delivery = "delivered" => kept'[i].delivery = "delivered"
  BY <1>1, <1>3
<1> QED
  BY <1>1, <1>2, <1>5, BudgetInPlace

(* Stopping makes every message on its way owe an attempt, and is what     *)
(* raises the bound.                                                       *)
LEMMA StopBudget ==
    ASSUME OutboxInv, BudgetInv, NEW why \in Held, Stop(why)
    PROVE  BudgetInv'
<1> DEFINE f == [i \in Slots |-> IF kept[i].delivery \in Waiting
                     THEN [kept[i] EXCEPT !.delivery = why, !.armed = FALSE]
                     ELSE kept[i]]
<1>1. /\ kept' = f /\ ready' = None /\ stops' = stops + 1
      /\ UNCHANGED <<known, marked, written, retries>>
  BY DEF Stop, Hold
<1>2. Slots' = Slots
  BY <1>1 DEF Slots
<1>3. ASSUME NEW i \in Slots
      PROVE  /\ f[i].hash = kept[i].hash
             /\ WithinBudget(f[i], stops + 1) /\ ProofCounted(f[i], None)
             /\ kept[i].delivery = "delivered" => f[i].delivery = "delivered"
  <2>0. /\ kept[i] \in Sending /\ kept[i].hash # None
        /\ kept[i].attempts \in Nat /\ kept[i].late \in Nat
        /\ WithinBudget(kept[i], stops) /\ ProofCounted(kept[i], ready)
        /\ kept[i].delivery # "delivered" => kept[i].late = 0
        /\ stops \in Nat /\ MaxAttempts \in Nat
    BY BudgetFacts, BoundFacts
  <2>1. CASE kept[i].delivery \in Waiting
    <3>1. f[i] = [kept[i] EXCEPT !.delivery = why, !.armed = FALSE]
      BY <2>1
    <3> HIDE DEF f
    <3>2. /\ f[i].hash = kept[i].hash /\ f[i].attempts = kept[i].attempts
          /\ f[i].late = kept[i].late
      BY <2>0, <3>1 DEF Sending
    <3>3. kept[i].delivery # "delivered"
      BY <2>1 DEF Waiting, Held
    <3> QED
      BY <2>0, <3>2, <3>3 DEF WithinBudget, ProofCounted
  <2>2. CASE kept[i].delivery \notin Waiting
    <3>1. f[i] = kept[i]
      BY <2>2
    <3> HIDE DEF f
    <3> QED
      BY <2>0, <3>1 DEF WithinBudget, ProofCounted
  <2> QED
    BY <2>1, <2>2
<1> HIDE DEF f
<1>4. \A i \in Slots : kept'[i] = f[i]
  BY <1>1
<1>5. ASSUME NEW i \in Slots
      PROVE  /\ kept'[i].hash = kept[i].hash
             /\ WithinBudget(kept'[i], stops')
             /\ ProofCounted(kept'[i], ready')
             /\ kept[i].delivery = "delivered" => kept'[i].delivery = "delivered"
  BY <1>1, <1>3, <1>4
<1> QED
  BY <1>1, <1>2, <1>5, BudgetInPlace

(* A message that is held owes an attempt, and still does in the queue. *)
LEMMA StartBudget ==
    ASSUME OutboxInv, BudgetInv, Start
    PROVE  BudgetInv'
<1> DEFINE f == [i \in Slots |-> IF kept[i].delivery \in Held
                     THEN [kept[i] EXCEPT !.delivery = "turn", !.armed = TRUE, !.next = 0]
                     ELSE kept[i]]
<1>1. /\ kept' = f /\ ready = None
      /\ UNCHANGED <<known, marked, ready, written, stops, retries>>
  BY DEF Start, Resume, OutboxInv, HeldExactlyWhenStopped
<1>2. Slots' = Slots
  BY <1>1 DEF Slots
<1>3. ASSUME NEW i \in Slots
      PROVE  /\ f[i].hash = kept[i].hash
             /\ WithinBudget(f[i], stops) /\ ProofCounted(f[i], ready)
             /\ kept[i].delivery = "delivered" => f[i].delivery = "delivered"
  <2>0. /\ kept[i] \in Sending
        /\ WithinBudget(kept[i], stops) /\ ProofCounted(kept[i], ready)
        /\ kept[i].delivery # "delivered" => kept[i].late = 0
    BY BudgetFacts
  <2>1. CASE kept[i].delivery \in Held
    <3>1. f[i] = [kept[i] EXCEPT !.delivery = "turn", !.armed = TRUE, !.next = 0]
      BY <2>1
    <3> HIDE DEF f
    <3>2. /\ f[i].hash = kept[i].hash /\ f[i].attempts = kept[i].attempts
          /\ f[i].late = kept[i].late
      BY <2>0, <3>1 DEF Sending
    <3>3. kept[i].delivery # "delivered" /\ Owing(kept[i])
      BY <2>1 DEF Held, Owing
    <3> QED
      BY <2>0, <3>2, <3>3 DEF WithinBudget, ProofCounted
  <2>2. CASE kept[i].delivery \notin Held
    BY <2>0, <2>2
  <2> QED
    BY <2>1, <2>2
<1> HIDE DEF f
<1>4. \A i \in Slots : kept'[i] = f[i]
  BY <1>1
<1>5. ASSUME NEW i \in Slots
      PROVE  /\ kept'[i].hash = kept[i].hash
             /\ WithinBudget(kept'[i], stops')
             /\ ProofCounted(kept'[i], ready')
             /\ kept[i].delivery = "delivered" => kept'[i].delivery = "delivered"
  BY <1>1, <1>3, <1>4
<1> QED
  BY <1>1, <1>2, <1>5, BudgetInPlace

(* A failed message tried again counts from nothing. *)
LEMMA RetryBudget ==
    ASSUME OutboxInv, BudgetInv, NEW p \in Peers, Retry(p)
    PROVE  BudgetInv'
<1> DEFINE f == [i \in Slots |->
                  IF kept[i].delivery \in Failed /\ Dest[kept[i].hash] = p
                  THEN [kept[i] EXCEPT !.delivery = HeldNow, !.attempts = 0,
                                       !.armed = Running, !.next = 0, !.asked = 0]
                  ELSE kept[i]]
<1>1. /\ kept' = f
      /\ UNCHANGED <<known, marked, mode, ready, written, stops>>
  BY DEF Retry
<1>2. Slots' = Slots
  BY <1>1 DEF Slots
<1>3. ASSUME NEW i \in Slots
      PROVE  /\ f[i].hash = kept[i].hash
             /\ WithinBudget(f[i], stops) /\ ProofCounted(f[i], ready)
             /\ Limbo(kept[i]) => Limbo(f[i])
             /\ kept[i].delivery = "delivered" => f[i].delivery = "delivered"
  <2>0. /\ kept[i] \in Sending
        /\ WithinBudget(kept[i], stops) /\ ProofCounted(kept[i], ready)
        /\ kept[i].delivery # "delivered" => kept[i].late = 0
        /\ stops \in Nat /\ MaxAttempts \in Nat /\ MaxAttempts >= 1
    BY BudgetFacts, BoundFacts
  <2>1. CASE kept[i].delivery \in Failed /\ Dest[kept[i].hash] = p
    <3> DEFINE d == HeldNow
               r == Running
    <3>1. f[i] = [kept[i] EXCEPT !.delivery = d, !.attempts = 0, !.armed = r,
                                 !.next = 0, !.asked = 0]
      BY <2>1
    <3> HIDE DEF f, d, r
    <3>2. f[i].hash = kept[i].hash /\ f[i].attempts = 0 /\ f[i].late = kept[i].late
      BY <2>0, <3>1 DEF Sending
    <3>3. kept[i].delivery # "delivered" /\ ~Limbo(kept[i])
      BY <2>1 DEF Failed, Limbo
    <3> QED
      BY <2>0, <3>2, <3>3 DEF WithinBudget, ProofCounted
  <2>2. CASE ~(kept[i].delivery \in Failed /\ Dest[kept[i].hash] = p)
    <3>1. f[i] = kept[i]
      BY <2>2
    <3> QED
      BY <2>0, <3>1
  <2> QED
    BY <2>1, <2>2
<1> HIDE DEF f
<1>4. \A i \in Slots : kept'[i] = f[i]
  BY <1>1
<1>5. ASSUME NEW i \in Slots
      PROVE  /\ kept'[i].hash = kept[i].hash
             /\ WithinBudget(kept'[i], stops')
             /\ ProofCounted(kept'[i], ready')
             /\ Limbo(kept[i]) => Limbo(kept'[i])
             /\ kept[i].delivery = "delivered" => kept'[i].delivery = "delivered"
  BY <1>1, <1>3, <1>4
<1> QED
  BY <1>1, <1>2, <1>5, BudgetInPlace

LEMMA TickBudget ==
    ASSUME OutboxInv, BudgetInv, Tick
    PROVE  BudgetInv'
<1> DEFINE nx(i) == IF kept[i].armed /\ kept[i].next > 0 THEN kept[i].next - 1
                    ELSE kept[i].next
           as(i) == IF kept[i].delivery = "path" /\ kept[i].asked < PathTicks
                    THEN kept[i].asked + 1 ELSE kept[i].asked
           f == [i \in Slots |-> [kept[i] EXCEPT !.next = nx(i), !.asked = as(i)]]
<1>1. kept' = f /\ UNCHANGED <<known, marked, mode, ready, written, stops, retries>>
  BY DEF Tick
<1>2. Slots' = Slots
  BY <1>1 DEF Slots
<1>3. ASSUME NEW i \in Slots
      PROVE  /\ f[i].hash = kept[i].hash /\ f[i].attempts = kept[i].attempts
             /\ f[i].late = kept[i].late /\ f[i].delivery = kept[i].delivery
             /\ f[i].armed = kept[i].armed
  <2>1. kept[i] \in Sending
    BY BudgetFacts
  <2>2. f[i] = [kept[i] EXCEPT !.next = nx(i), !.asked = as(i)]
    OBVIOUS
  <2> HIDE DEF f, nx, as
  <2> QED
    BY <2>1, <2>2 DEF Sending
<1> HIDE DEF f
<1>4. ASSUME NEW i \in Slots
      PROVE  /\ kept'[i].hash = kept[i].hash
             /\ WithinBudget(kept'[i], stops')
             /\ ProofCounted(kept'[i], ready')
             /\ Limbo(kept[i]) => Limbo(kept'[i])
             /\ kept[i].delivery = "delivered" => kept'[i].delivery = "delivered"
  <2>1. WithinBudget(kept[i], stops) /\ ProofCounted(kept[i], ready)
    BY BudgetFacts
  <2> QED
    BY <1>1, <1>3, <2>1 DEF WithinBudget, ProofCounted, Owing, Limbo
<1> QED
  BY <1>1, <1>2, <1>4, BudgetInPlace

----------------------------------------------------------------------------
(* Writing a message changes none of the others, and lets at most one go,  *)
(* which is one that may.                                                  *)
LEMMA ComposeShape ==
    ASSUME TypeOK, NEW h \in Hashes, Compose(h)
    PROVE  /\ \A j \in Slots' : \/ \E i \in Slots : kept'[j] = kept[i]
                                \/ kept'[j] = NewMessage(h)
           /\ \A i \in Slots : \/ \E j \in Slots' : kept'[j] = kept[i]
                               \/ i \in Evictable
<1> DEFINE n == NewMessage(h)
<1>1. Len(kept) \in Nat /\ Slots = 1..Len(kept)
  BY SlotFacts
<1>2. CASE kept' = Append(kept, n)
  <2> HIDE DEF n
  <2>1. /\ Slots' = 1..(Len(kept) + 1) /\ kept'[Len(kept) + 1] = n
        /\ \A j \in Slots : kept'[j] = kept[j]
    BY <1>1, <1>2 DEF Slots, TypeOK
  <2>2. \A j \in Slots' : j \in Slots \/ j = Len(kept) + 1
    BY <1>1, <2>1
  <2>3. \A j \in Slots : j \in Slots'
    BY <1>1, <2>1
  <2> QED
    BY <2>1, <2>2, <2>3 DEF n
<1>3. CASE \E k \in Evictable : kept' = Append(Without(k), n)
  <2>1. PICK k \in Evictable : kept' = Append(Without(k), n)
    BY <1>3
  <2> HIDE DEF n
  <2> DEFINE m == Len(kept) - 1
             base == Without(k)
  <2>2. k \in Slots
    BY DEF Evictable, Oldest
  <2>3. m \in Nat /\ Len(kept) = m + 1 /\ k \in 1..(m + 1) /\ Slots = 1..(m + 1)
    BY <1>1, <2>2
  <2>4. base = [j \in 1..m |-> IF j < k THEN kept[j] ELSE kept[j + 1]]
    BY DEF Without
  <2> HIDE DEF base, m
  <2>5. base \in Seq(Sending \union {n}) /\ Len(base) = m /\ DOMAIN base = 1..m
    <3>1. \A j \in 1..m : j \in Slots /\ j + 1 \in Slots
      BY <2>3
    <3>2. base \in [1..m -> Sending \union {n}]
      BY <2>4, <3>1, SlotFacts
    <3> QED
      BY <2>3, <3>2
  <2>6. /\ Slots' = 1..(m + 1) /\ kept'[m + 1] = n
        /\ \A j \in 1..m : kept'[j] = base[j]
    <3>1. kept' = Append(base, n)
      BY <2>1 DEF base
    <3> QED
      BY <2>3, <2>5, <3>1 DEF Slots
  <2>7. ASSUME NEW j \in Slots'
        PROVE  (\E i \in Slots : kept'[j] = kept[i]) \/ kept'[j] = n
    <3>1. CASE j = m + 1
      BY <2>6, <3>1
    <3>2. CASE j \in 1..m
      <4>1. j \in Slots /\ j + 1 \in Slots
        BY <2>3, <3>2
      <4>2. kept'[j] = kept[j] \/ kept'[j] = kept[j + 1]
        BY <2>4, <2>6, <3>2
      <4> QED
        BY <4>1, <4>2
    <3> QED
      BY <2>3, <2>6, <3>1, <3>2
  <2>8. ASSUME NEW i \in Slots, i # k
        PROVE  \E j \in Slots' : kept'[j] = kept[i]
    <3>1. CASE i < k
      <4>1. i \in 1..m /\ i \in Slots'
        BY <2>3, <2>6, <3>1
      <4> QED
        BY <2>4, <2>6, <3>1, <4>1
    <3>2. CASE i > k
      <4> DEFINE j == i - 1
      <4>1. j \in 1..m /\ j \in Slots' /\ ~(j < k) /\ j + 1 = i
        BY <2>3, <2>6, <3>2
      <4> HIDE DEF j
      <4> QED
        BY <2>4, <2>6, <4>1
    <3> QED
      BY <2>3, <2>8, <3>1, <3>2
  <2> QED
    BY <2>7, <2>8 DEF n
<1> QED
  BY <1>2, <1>3 DEF Compose

LEMMA ComposeBudget ==
    ASSUME OutboxInv, BudgetInv, MaxAlike = 1, NEW h \in Hashes, Compose(h)
    PROVE  BudgetInv'
<1>1. TypeOK /\ Distinct
  BY DEF OutboxInv
<1>2. /\ written[h] = 0 /\ written' = [written EXCEPT ![h] = @ + 1]
      /\ UNCHANGED <<ready, stops>>
  BY <1>1 DEF Compose, TypeOK
<1> DEFINE n == NewMessage(h)
<1>3. n.hash = h /\ n.attempts = 0 /\ n.late = 0
  BY DEF NewMessage
<1>4. ASSUME NEW j \in Slots'
      PROVE  (\E i \in Slots : kept'[j] = kept[i]) \/ kept'[j] = n
  BY <1>1, ComposeShape
<1> HIDE DEF n
<1>5. ready # None => ready # h /\ written'[ready] >= 1
  <2>1. ready # None => ready \in Hashes /\ written[ready] >= 1
    BY <1>1 DEF BudgetInv, ReadyAnswered, TypeOK
  <2> QED
    BY <1>1, <1>2, <2>1 DEF TypeOK
<1>6. ASSUME NEW j \in Slots'
      PROVE  /\ WithinBudget(kept'[j], stops) /\ ProofCounted(kept'[j], ready)
             /\ ready # None /\ kept'[j].hash = ready =>
                   Limbo(kept'[j]) \/ kept'[j].delivery = "delivered"
  <2>1. CASE \E i \in Slots : kept'[j] = kept[i]
    BY <2>1 DEF BudgetInv, ReadyAnswered
  <2>2. CASE kept'[j] = n
    <3>1. stops \in Nat /\ MaxAttempts \in Nat /\ MaxAttempts >= 1
      BY BoundFacts
    <3> QED
      BY <1>3, <1>5, <2>2, <3>1 DEF WithinBudget, ProofCounted
  <2> QED
    BY <1>4, <2>1, <2>2
<1>7. ReadyAnswered'
  BY <1>2, <1>5, <1>6 DEF ReadyAnswered, Limbo
<1>8. \A j \in Slots' : WithinBudget(kept'[j], stops') /\ ProofCounted(kept'[j], ready')
  BY <1>2, <1>6
<1> QED
  BY <1>7, <1>8 DEF BudgetInv, WithinBudget, ProofCounted, Owing, Limbo

LEMMA BudgetInit == Init => BudgetInv
<1> SUFFICES ASSUME Init PROVE BudgetInv
  OBVIOUS
<1>1. Slots = {} /\ ready = None
  BY DEF Init, Slots
<1> QED
  BY <1>1 DEF BudgetInv, ReadyAnswered

LEMMA BudgetNext ==
    ASSUME OutboxInv, BudgetInv, MaxAlike = 1, [Next]_vars
    PROVE  BudgetInv'
<1>1. ASSUME UNCHANGED <<kept, ready, written, stops>>
      PROVE  BudgetInv'
  BY <1>1 DEF BudgetInv, ReadyAnswered, WithinBudget, ProofCounted, Owing, Limbo, Slots
<1>2. CASE UNCHANGED vars
  BY <1>1, <1>2 DEF vars
<1>3. CASE Swap
  BY <1>1, <1>3 DEF Swap
<1>4. ASSUME NEW p \in Peers, Learn(p) \/ Forget(p)
      PROVE  BudgetInv'
  BY <1>1, <1>4 DEF Learn, Forget
<1> QED
  BY <1>2, <1>3, <1>4, ComposeBudget, StepBudget, TransmitBudget, RefuseBudget,
     ProvedBudget, RetryBudget, StopBudget, StartBudget, TickBudget DEF Next

(* The outbox keeps to its bounds: no more messages than its capacity; no  *)
(* more attempts at one than MAX_ATTEMPTS and one for each time the node   *)
(* was stopped, however refusals, path requests, holds and resumes fall;   *)
(* and once the proof is in at most one attempt more, the one that was     *)
(* already built.                                                          *)
THEOREM BoundsKept ==
    ASSUME MaxAlike = 1
    PROVE  Spec => []AttemptsBounded
<1>1. Init => OutboxInv /\ BudgetInv
  BY InitInv, BudgetInit
<1>2. OutboxInv /\ BudgetInv /\ [Next]_vars => (OutboxInv /\ BudgetInv)'
  BY NextInv, BudgetNext
<1>3. OutboxInv /\ BudgetInv => AttemptsBounded
  <2> SUFFICES ASSUME OutboxInv, BudgetInv PROVE AttemptsBounded
    OBVIOUS
  <2>1. TypeOK
    BY DEF OutboxInv
  <2>2. AttemptsPerRun /\ OnceMoreAfterProof
    BY DEF BudgetInv, WithinBudget, ProofCounted, AttemptsPerRun, OnceMoreAfterProof
  <2> QED
    BY <2>1, <2>2 DEF AttemptsBounded
<1> QED
  BY <1>1, <1>2, <1>3, PTL DEF Spec

----------------------------------------------------------------------------
(* Every other step keeps every message, by its hash, where it is. *)
Stays == Slots' = Slots /\ \A i \in Slots : kept'[i].hash = kept[i].hash

LEMMA MessagesStay ==
    ASSUME TypeOK, Next, \A h \in Hashes : ~Compose(h)
    PROVE  Stays
<1>1. \A i \in Slots : kept[i] \in Sending
  BY SlotFacts
<1>2. ASSUME NEW m \in Sending
      PROVE  /\ HandedOut(m).hash = m.hash /\ Asked(m).hash = m.hash
             /\ FailedNow(m).hash = m.hash /\ Went(m).hash = m.hash
             /\ NotWent(m).hash = m.hash
  <2>1. HandedOut(m).hash = m.hash
    BY DEF HandedOut, Sending
  <2>2. Asked(m).hash = m.hash /\ FailedNow(m).hash = m.hash
    BY AskedFacts, FailedNowFacts
  <2>3. Went(m).hash = m.hash /\ NotWent(m).hash = m.hash
    BY WentFacts, NotWentFacts
  <2> QED
    BY <2>1, <2>2, <2>3
<1>3. CASE UNCHANGED kept
  BY <1>3 DEF Stays, Slots
<1>4. CASE Step
  BY <1>1, <1>2, <1>4 DEF Step, Stays, Slots
<1>5. CASE Transmit \/ Refuse
  BY <1>1, <1>2, <1>5 DEF Transmit, Refuse, Stays, Slots
<1>6. ASSUME NEW n \in Slots, Proved(n) PROVE Stays
  <2>1. kept' = [kept EXCEPT ![n] = [kept[n] EXCEPT !.delivery = "delivered", !.armed = FALSE]]
    BY <1>6 DEF Proved, Update
  <2> QED
    BY <1>1, <2>1 DEF Stays, Slots, Sending
<1>7. ASSUME NEW why \in Held, Stop(why) PROVE Stays
  BY <1>1, <1>7 DEF Stop, Hold, Stays, Slots, Sending
<1>8. CASE Start
  BY <1>1, <1>8 DEF Start, Resume, Stays, Slots, Sending
<1>9. ASSUME NEW p \in Peers, Retry(p) PROVE Stays
  <2> DEFINE d == HeldNow
             r == Running
             f == [i \in Slots |->
                     IF kept[i].delivery \in Failed /\ Dest[kept[i].hash] = p
                     THEN [kept[i] EXCEPT !.delivery = d, !.attempts = 0,
                                          !.armed = r, !.next = 0, !.asked = 0]
                     ELSE kept[i]]
  <2>1. kept' = f
    BY <1>9 DEF Retry
  <2> HIDE DEF d, r
  <2>2. \A i \in Slots : f[i].hash = kept[i].hash
    BY <1>1 DEF Sending
  <2> QED
    BY <2>1, <2>2 DEF Stays, Slots
<1>10. CASE Tick
  <2> DEFINE nx(i) == IF kept[i].armed /\ kept[i].next > 0 THEN kept[i].next - 1
                      ELSE kept[i].next
             as(i) == IF kept[i].delivery = "path" /\ kept[i].asked < PathTicks
                      THEN kept[i].asked + 1 ELSE kept[i].asked
             f == [i \in Slots |-> [kept[i] EXCEPT !.next = nx(i), !.asked = as(i)]]
  <2>1. kept' = f
    BY <1>10 DEF Tick
  <2> HIDE DEF nx, as
  <2>2. \A i \in Slots : f[i].hash = kept[i].hash
    BY <1>1 DEF Sending
  <2> QED
    BY <2>1, <2>2 DEF Stays, Slots
<1> QED
  BY <1>3, <1>4, <1>5, <1>6, <1>7, <1>8, <1>9, <1>10 DEF Next, Learn, Forget, Swap

(* Where there is a message of some kind there is an oldest one. *)
LEMMA OldestThere ==
    ASSUME TypeOK, NEW Kind, NEW i \in Slots, kept[i].delivery \in Kind
    PROVE  Oldest(Kind) # {}
<1> DEFINE T == {j \in Slots : kept[j].delivery \in Kind}
           R == OpToRel(<, Nat)
<1>1. T \subseteq Nat /\ T # {}
  BY SlotFacts
<1>2. IsWellFoundedOn(R, Nat)
  BY NatLessThanWellFounded
<1>3. \A x, y \in Nat : y < x => <<y, x>> \in R
  BY DEF OpToRel
<1> HIDE DEF T, R
<1>4. PICK x \in T : \A y \in T : <<y, x>> \notin R
  BY <1>1, <1>2, WFMin
<1>5. \A y \in T : x <= y
  <2>1. \A y \in T : x \in Nat /\ y \in Nat /\ ~(y < x)
    BY <1>1, <1>3, <1>4
  <2> QED
    BY <2>1
<1> QED
  BY <1>5 DEF T, Oldest

(* A message still on its way is never let go for a new one, and a failed  *)
(* one only when none is delivered: the user is told what became of every  *)
(* message before it can disappear from the list.                          *)
THEOREM UnderwayKept ==
    ASSUME MaxAlike = 1
    PROVE  Spec => NothingUnderwayIsDropped
<1> DEFINE Kept(i) ==
             \/ \E j \in DOMAIN kept' : kept'[j].hash = kept[i].hash
             \/ kept[i].delivery = "delivered"
             \/ /\ kept[i].delivery \in Failed
                /\ \A j \in Slots : kept[j].delivery # "delivered"
<1>1. ASSUME OutboxInv, [Next]_vars
      PROVE  [\A i \in Slots : Kept(i)]_vars
  <2>0. TypeOK
    BY <1>1 DEF OutboxInv
  <2>1. ASSUME NEW h \in Hashes, Compose(h), NEW i \in Slots
        PROVE  Kept(i)
    <3>1. (\E j \in Slots' : kept'[j] = kept[i]) \/ i \in Evictable
      BY <2>0, <2>1, ComposeShape
    <3>2. CASE i \in Evictable
      <4>1. kept[i].delivery \in {"delivered"} \/ kept[i].delivery \in Failed
        BY <3>2 DEF Evictable, Oldest
      <4>2. ASSUME kept[i].delivery # "delivered", NEW j \in Slots
            PROVE  kept[j].delivery # "delivered"
        <5>1. Oldest({"delivered"}) = {}
          BY <3>2, <4>2 DEF Evictable, Oldest
        <5> QED
          BY <2>0, <5>1, OldestThere
      <4> QED
        BY <4>1, <4>2
    <3> QED
      BY <3>1, <3>2 DEF Slots
  <2>2. ASSUME Next, \A h \in Hashes : ~Compose(h), NEW i \in Slots
        PROVE  Kept(i)
    BY <2>0, <2>2, MessagesStay DEF Stays, Slots
  <2> QED
    BY <1>1, <2>1, <2>2
<1>2. Spec => []OutboxInv
  BY Inductive
<1>3. OutboxInv /\ [Next]_vars => [\A i \in Slots : Kept(i)]_vars
  BY <1>1
<1> QED
  BY <1>2, <1>3, PTL DEF Spec, NothingUnderwayIsDropped

-----------------------------------------------------------------------------
(* Air: the frames of a packet.                                            *)


(* What board b still has to send is the rest of its last packet, under    *)
(* the nibble just before the one its next packet will take.               *)
TxInv ==
    \A b \in Boards :
        /\ Len(tx[b]) \in 0..2
        /\ \A i \in 1..Len(tx[b]) :
             /\ tx[b][i].body.from = b
             /\ tx[b][i].body.boot = boots[b]
             /\ tx[b][i].body.id + 1 = count[b]
             /\ NextNibble(tx[b][i].seq) = sequence[b]
        /\ Len(tx[b]) = 2 =>
             /\ tx[b][1].body.half = 1
             /\ tx[b][2].body.half = 2
             /\ tx[b][1].body.len + tx[b][2].body.len = tx[b][1].body.of

(* A half that is held was sent in an earlier boot, or is a packet already *)
(* numbered in this one; if it is the last packet or the one before, its   *)
(* nibble is one or two steps behind the next; and if its own packet is    *)
(* still being sent, it is the first half and the second is to come.       *)
HeldInv ==
    \A f \in held : f.body.from \in Boards =>
        LET b == f.body.from IN
        /\ f.body.boot <= boots[b]
        /\ f.body.boot = boots[b] =>
             /\ f.body.id < count[b]
             /\ f.body.id + 1 = count[b] => NextNibble(f.seq) = sequence[b]
             /\ f.body.id + 2 = count[b] =>
                   NextNibble(NextNibble(f.seq)) = sequence[b]
             /\ f.body.id + 1 = count[b] /\ tx[b] # <<>> =>
                   /\ Len(tx[b]) = 1
                   /\ f.body.half = 1 /\ tx[b][1].body.half = 2
                   /\ f.body.len + tx[b][1].body.len = f.body.of

(* The inductive invariant behind ConsecutiveNeverJoined. *)
AirInv == AirTypeOK /\ TxInv /\ HeldInv /\ ConsecutiveNeverJoined

----------------------------------------------------------------------------
(* Sequence::take never hands out the same nibble twice running, and two   *)
(* different nibbles are never followed by the same one.                   *)
LEMMA NextNibbleFacts ==
    ASSUME NEW m \in Nibble, NEW n \in Nibble
    PROVE  /\ NextNibble(n) \in Nibble
           /\ NextNibble(n) # n
           /\ NextNibble(m) = NextNibble(n) => m = n
  BY AirAssumption, SMT DEF NextNibble, Nibble

(* The frames Split makes are frames, at most two, all of the packet being *)
(* numbered, and of two the bodies add up to the packet.                   *)
LEMMA SplitFrames ==
    ASSUME AirTypeOK, NEW b \in Boards, NEW len \in Nat
    PROVE  /\ Split(b, len) \in Seq(Frame)
           /\ Len(Split(b, len)) \in 0..2
           /\ \A i \in 1..Len(Split(b, len)) :
                LET g == Split(b, len)[i] IN
                /\ g.body.from = b /\ g.body.boot = boots[b]
                /\ g.body.id = count[b] /\ g.seq = sequence[b]
           /\ Len(Split(b, len)) = 2 =>
                /\ Split(b, len)[1].body.half = 1
                /\ Split(b, len)[2].body.half = 2
                /\ Split(b, len)[1].body.len + Split(b, len)[2].body.len
                     = Split(b, len)[1].body.of
<1>1. ASSUME NEW half \in {1, 2}, half = 2 => len > FramePayload
      PROVE  FrameOf(b, len, half) \in Frame
  BY <1>1, AirAssumption, SMT DEF FrameOf, BodyLen, Frame, Part, AirTypeOK
<1>2. FrameOf(b, len, 1) \in Frame
  BY <1>1
<1>3. CASE len > PacketMax
  BY <1>3 DEF Split
<1>4. CASE len > FramePayload /\ len <= PacketMax
  <2>1. Split(b, len) = <<FrameOf(b, len, 1), FrameOf(b, len, 2)>>
    BY <1>4, AirAssumption DEF Split, PacketMax
  <2>2. FrameOf(b, len, 2) \in Frame
    BY <1>1, <1>4
  <2>3. FrameOf(b, len, 1).body.len + FrameOf(b, len, 2).body.len = len
    BY <1>4, AirAssumption, SMT DEF FrameOf, BodyLen
  <2> QED BY <1>2, <2>1, <2>2, <2>3 DEF FrameOf
<1>5. CASE len <= FramePayload
  <2>1. Split(b, len) = <<FrameOf(b, len, 1)>>
    BY <1>5, AirAssumption DEF Split, PacketMax
  <2> QED BY <1>2, <2>1 DEF FrameOf
<1> QED BY <1>3, <1>4, <1>5, AirAssumption DEF PacketMax

(* What feed leaves held and hands up, for any frame: at most one frame    *)
(* held, which is the one just heard; and a packet of two parts only from  *)
(* a half that was held and had the same nibble.                           *)
LEMMA FeedFacts ==
    ASSUME AirTypeOK, NEW f \in Frame, Feed(f)
    PROVE  /\ held' \subseteq {f}
           /\ age' = 0
           /\ out' \in Seq(Part) /\ Len(out') <= 2
           /\ heard' \in Seq(Part) /\ Len(heard') <= 2
           /\ Len(out') = 2 =>
                \E p \in held : p.seq = f.seq /\ out' = <<p.body, f.body>>
<1>1. f.body \in Part
  BY DEF Frame
<1>2. heard' \in Seq(Part) /\ Len(heard') <= 2
  <2>1. CASE heard = <<>>
    BY <1>1, <2>1 DEF Feed
  <2>2. CASE heard # <<>>
    <3>1. heard[Len(heard)] \in Part
      BY <2>2 DEF AirTypeOK
    <3> QED BY <1>1, <2>2, <3>1 DEF Feed
  <2> QED BY <2>1, <2>2
<1>3. /\ out' \in Seq(Part) /\ Len(out') <= 2
      /\ Len(out') = 2 =>
           \E p \in held : p.seq = f.seq /\ out' = <<p.body, f.body>>
  <2>1. CASE f.split /\ Joins(f)
    <3>1. PICK p \in Fresh : p.seq = f.seq
      BY <2>1 DEF Joins
    <3>2. p \in held /\ p \in Frame
      BY <3>1 DEF Fresh, AirTypeOK
    <3>3. (CHOOSE q \in Fresh : TRUE) = p
      <4>1. (CHOOSE q \in Fresh : TRUE) \in Fresh
        BY <3>1
      <4> QED BY <3>2, <4>1 DEF Fresh, AirTypeOK
    <3>4. out' = <<p.body, f.body>>
      BY <2>1, <3>3 DEF Feed, PacketOf
    <3>5. p.body \in Part
      BY <3>2 DEF Frame
    <3> QED BY <1>1, <3>1, <3>2, <3>4, <3>5
  <2>2. CASE ~(f.split /\ Joins(f))
    <3>1. out' = <<>> \/ out' = <<f.body>>
      BY <2>2 DEF Feed, PacketOf
    <3>2. CASE out' = <<>>
      BY <3>2
    <3>3. CASE out' = <<f.body>>
      <4>1. Len(out') = 1
        BY <3>3
      <4> QED BY <1>1, <3>3, <4>1
    <3> QED BY <3>1, <3>2, <3>3
  <2> QED BY <2>1, <2>2
<1>4. held' \subseteq {f} /\ age' = 0
  BY DEF Feed, HeldAfter
<1> QED BY <1>2, <1>3, <1>4

----------------------------------------------------------------------------
(* A board before its first packet, and a receiver with nothing held. *)
LEMMA AirInitInv == AirInit => AirInv
<1> SUFFICES ASSUME AirInit PROVE AirInv
  OBVIOUS
<1>1. swallowed \in BOOLEAN
  BY Zenon DEF AirInit
<1>2. AirTypeOK
  BY <1>1, AirAssumption DEF AirInit, AirTypeOK, Nibble
<1> QED
  BY <1>2 DEF AirInit, AirInv, TxInv, HeldInv, ConsecutiveNeverJoined

(* What a frame from the head of a board's queue leaves of the queue. *)
LEMMA FrameGoneFacts ==
    ASSUME AirInv, NEW b \in Boards, tx[b] # <<>>, FrameGone(b)
    PROVE  /\ Head(tx[b]) \in Frame
           /\ Head(tx[b]) = tx[b][1]
           /\ tx' \in [Boards -> Seq(Frame)]
           /\ gap' \in [Boards -> Nat]
           /\ TxInv'
           /\ \A c \in Boards : c # b => tx'[c] = tx[c]
           /\ tx'[b] = Tail(tx[b])
           /\ Len(tx'[b]) = Len(tx[b]) - 1
           /\ tx'[b] # <<>> => Len(tx[b]) = 2 /\ tx'[b][1] = tx[b][2]
<1> USE DEF AirInv
<1>1. tx[b] \in Seq(Frame) /\ Len(tx[b]) \in 1..2
  <2>1. tx[b] \in Seq(Frame)
    BY DEF AirTypeOK
  <2>2. Len(tx[b]) # 0
    BY <2>1
  <2> QED BY <2>1, <2>2 DEF TxInv
<1>2. Head(tx[b]) \in Frame /\ Head(tx[b]) = tx[b][1]
  BY <1>1
<1>3. Tail(tx[b]) \in Seq(Frame) /\ Len(Tail(tx[b])) = Len(tx[b]) - 1
  BY <1>1
<1>4. /\ tx' \in [Boards -> Seq(Frame)]
      /\ gap' \in [Boards -> Nat]
      /\ \A c \in Boards : c # b => tx'[c] = tx[c]
      /\ tx'[b] = Tail(tx[b])
  BY <1>3 DEF FrameGone, AirTypeOK
<1>5. \A i \in 1..Len(tx'[b]) : tx'[b][i] = tx[b][i + 1] /\ i + 1 \in 1..Len(tx[b])
  BY <1>1, <1>3, <1>4
<1>6. TxInv'
  <2> SUFFICES ASSUME NEW c \in Boards
               PROVE  /\ Len(tx'[c]) \in 0..2
                      /\ \A i \in 1..Len(tx'[c]) :
                           /\ tx'[c][i].body.from = c
                           /\ tx'[c][i].body.boot = boots'[c]
                           /\ tx'[c][i].body.id + 1 = count'[c]
                           /\ NextNibble(tx'[c][i].seq) = sequence'[c]
                      /\ Len(tx'[c]) = 2 =>
                           /\ tx'[c][1].body.half = 1
                           /\ tx'[c][2].body.half = 2
                           /\ tx'[c][1].body.len + tx'[c][2].body.len
                                = tx'[c][1].body.of
    BY Zenon DEF TxInv
  <2>0. UNCHANGED <<sequence, count, boots>>
    BY DEF FrameGone
  <2>1. CASE c = b
    <3>1. Len(tx'[b]) \in 0..1
      BY <1>1, <1>3, <1>4
    <3>2. \A i \in 1..Len(tx'[b]) :
            /\ tx'[b][i].body.from = b
            /\ tx'[b][i].body.boot = boots[b]
            /\ tx'[b][i].body.id + 1 = count[b]
            /\ NextNibble(tx'[b][i].seq) = sequence[b]
      <4> SUFFICES ASSUME NEW i \in 1..Len(tx'[b])
                   PROVE  /\ tx'[b][i].body.from = b
                          /\ tx'[b][i].body.boot = boots[b]
                          /\ tx'[b][i].body.id + 1 = count[b]
                          /\ NextNibble(tx'[b][i].seq) = sequence[b]
        BY Zenon
      <4>1. tx'[b][i] = tx[b][i + 1] /\ i + 1 \in 1..Len(tx[b])
        BY <1>5
      <4>2. \A j \in 1..Len(tx[b]) :
              /\ tx[b][j].body.from = b
              /\ tx[b][j].body.boot = boots[b]
              /\ tx[b][j].body.id + 1 = count[b]
              /\ NextNibble(tx[b][j].seq) = sequence[b]
        BY DEF TxInv
      <4> DEFINE j == i + 1
      <4>3. j \in 1..Len(tx[b]) /\ tx'[b][i] = tx[b][j]
        BY <4>1
      <4> HIDE DEF j
      <4> QED BY <4>2, <4>3
    <3> QED BY <2>0, <2>1, <3>1, <3>2
  <2>2. CASE c # b
    BY <1>4, <2>0, <2>2 DEF TxInv
  <2> QED BY <2>1, <2>2
<1>7. tx'[b] # <<>> => Len(tx[b]) = 2 /\ tx'[b][1] = tx[b][2]
  <2> SUFFICES ASSUME tx'[b] # <<>>
               PROVE  Len(tx[b]) = 2 /\ tx'[b][1] = tx[b][2]
    OBVIOUS
  <2>1. Len(tx'[b]) # 0
    BY <1>3, <1>4
  <2> QED BY <1>1, <1>3, <1>4, <1>5, <2>1
<1> QED BY <1>2, <1>3, <1>4, <1>6, <1>7

(* The frame a board has just sent, once held, satisfies HeldInv; a half   *)
(* that was already held still does.                                       *)
LEMMA HeldAfterFrameGone ==
    ASSUME AirInv, NEW b \in Boards, tx[b] # <<>>, FrameGone(b),
           held' \subseteq held \/ held' \subseteq {Head(tx[b])}
    PROVE  HeldInv'
<1> USE DEF AirInv
<1> SUFFICES ASSUME NEW f \in held', f.body.from \in Boards
             PROVE  LET c == f.body.from IN
                    /\ f.body.boot <= boots[c]
                    /\ f.body.boot = boots[c] =>
                         /\ f.body.id < count[c]
                         /\ f.body.id + 1 = count[c] => NextNibble(f.seq) = sequence[c]
                         /\ f.body.id + 2 = count[c] =>
                               NextNibble(NextNibble(f.seq)) = sequence[c]
                         /\ f.body.id + 1 = count[c] /\ tx'[c] # <<>> =>
                               /\ Len(tx'[c]) = 1
                               /\ f.body.half = 1 /\ tx'[c][1].body.half = 2
                               /\ f.body.len + tx'[c][1].body.len = f.body.of
  BY DEF HeldInv, FrameGone, NextNibble
<1> DEFINE c == f.body.from
<1>1. /\ tx'[b] # <<>> => Len(tx[b]) = 2 /\ tx'[b][1] = tx[b][2]
      /\ Len(tx'[b]) = Len(tx[b]) - 1
      /\ \A d \in Boards : d # b => tx'[d] = tx[d]
      /\ Head(tx[b]) = tx[b][1] /\ Head(tx[b]) \in Frame
  BY FrameGoneFacts
<1>2. CASE f = Head(tx[b])
  <2>1. 1 \in 1..Len(tx[b])
    BY DEF AirTypeOK, TxInv
  <2>2. /\ f.body.from = b /\ f.body.boot = boots[b]
        /\ f.body.id + 1 = count[b] /\ NextNibble(f.seq) = sequence[b]
    BY <1>1, <1>2, <2>1 DEF TxInv
  <2>3. f.body.id \in Nat /\ count[b] \in Nat /\ boots[b] \in Nat
    BY <1>1, <1>2 DEF Frame, Part, AirTypeOK
  <2>4. tx'[b] # <<>> =>
          /\ Len(tx'[b]) = 1
          /\ f.body.half = 1 /\ tx'[b][1].body.half = 2
          /\ f.body.len + tx'[b][1].body.len = f.body.of
    BY <1>1, <1>2 DEF TxInv
  <2> QED BY <2>2, <2>3, <2>4
<1>3. CASE f \in held /\ c = b
  <2>1. Len(tx[b]) = 1 => tx'[b] = <<>>
    BY <1>1
  <2>2. f.body.boot = boots[b] /\ f.body.id + 1 = count[b] => tx'[b] = <<>>
    BY <1>3, <2>1 DEF HeldInv
  <2> QED BY <1>3, <2>2 DEF HeldInv
<1>4. CASE f \in held /\ c # b
  BY <1>1, <1>4 DEF HeldInv
<1> QED BY <1>2, <1>3, <1>4

(* The step that matters: what is handed up when a board's frame is heard. *)
LEMMA HeardJoin ==
    ASSUME AirInv, NEW b \in Boards, Heard(b)
    PROVE  ConsecutiveNeverJoined'
<1> USE DEF AirInv
<1> DEFINE f == Head(tx[b])
<1>1. f \in Frame /\ f = tx[b][1] /\ 1 \in 1..Len(tx[b])
  BY FrameGoneFacts DEF Heard, TxInv, AirTypeOK
<1>2. /\ f.body.from = b /\ f.body.boot = boots[b]
      /\ f.body.id + 1 = count[b] /\ NextNibble(f.seq) = sequence[b]
  BY <1>1 DEF TxInv
<1> SUFFICES ASSUME Len(out') = 2, SameBoot(out'[1], out'[2])
             PROVE  /\ out'[2].id # out'[1].id + 1
                    /\ out'[1].id # out'[2].id + 1
                    /\ out'[1].id = out'[2].id =>
                          /\ out'[1].half = 1 /\ out'[2].half = 2
                          /\ out'[1].len + out'[2].len = out'[1].of
  BY DEF ConsecutiveNeverJoined, SameBoot
<1>3. PICK p \in held : p.seq = f.seq /\ out' = <<p.body, f.body>>
  BY <1>1, FeedFacts DEF Heard
<1>4. /\ p.body.from = b /\ p.body.boot = boots[b]
  BY <1>2, <1>3 DEF SameBoot
<1>5. /\ p.body.id < count[b]
      /\ p.body.id + 2 = count[b] => NextNibble(NextNibble(p.seq)) = sequence[b]
      /\ p.body.id + 1 = count[b] =>
           /\ p.body.half = 1 /\ f.body.half = 2
           /\ p.body.len + f.body.len = p.body.of
  BY <1>1, <1>4 DEF HeldInv, Heard
<1>6. p \in Frame /\ p.body.id \in Nat /\ f.body.id \in Nat /\ count[b] \in Nat
  BY <1>1 DEF AirTypeOK, Frame, Part
<1>7. p.body.id + 2 # count[b]
  <2>1. p.seq \in Nibble /\ NextNibble(p.seq) \in Nibble
    BY <1>6, NextNibbleFacts DEF Frame
  <2>2. NextNibble(NextNibble(p.seq)) # NextNibble(p.seq)
    BY <2>1, NextNibbleFacts
  <2> QED BY <1>2, <1>3, <1>5, <2>2
<1> QED BY <1>2, <1>3, <1>5, <1>6, <1>7

----------------------------------------------------------------------------
(* Numbering a packet moves the nibble on: a half of the packet before is  *)
(* now two steps behind.                                                   *)
LEMMA OfferInv ==
    ASSUME AirInv, NEW b \in Boards, NEW len \in Lengths, Offer(b, len)
    PROVE  AirInv'
<1> USE DEF AirInv
<1>1. len \in Nat
  BY AirAssumption
<1>2. /\ sequence' = [sequence EXCEPT ![b] = NextNibble(sequence[b])]
      /\ count' = [count EXCEPT ![b] = count[b] + 1]
      /\ tx' = [tx EXCEPT ![b] = Split(b, len)]
      /\ tx[b] = <<>>
      /\ gap' = [gap EXCEPT ![b] = 0]
      /\ UNCHANGED <<boots, held, age, out, heard, swallowed>>
  BY DEF Offer
<1>3. sequence[b] \in Nibble /\ NextNibble(sequence[b]) \in Nibble
  BY NextNibbleFacts DEF AirTypeOK
<1>4. AirTypeOK'
  BY <1>1, <1>2, <1>3, SplitFrames DEF AirTypeOK
<1>5. TxInv'
  <2> SUFFICES ASSUME NEW c \in Boards
               PROVE  /\ Len(tx'[c]) \in 0..2
                      /\ \A i \in 1..Len(tx'[c]) :
                           /\ tx'[c][i].body.from = c
                           /\ tx'[c][i].body.boot = boots'[c]
                           /\ tx'[c][i].body.id + 1 = count'[c]
                           /\ NextNibble(tx'[c][i].seq) = sequence'[c]
                      /\ Len(tx'[c]) = 2 =>
                           /\ tx'[c][1].body.half = 1
                           /\ tx'[c][2].body.half = 2
                           /\ tx'[c][1].body.len + tx'[c][2].body.len
                                = tx'[c][1].body.of
    BY Zenon DEF TxInv
  <2>1. CASE c = b
    <3>1. /\ tx'[b] = Split(b, len) /\ boots'[b] = boots[b]
          /\ count'[b] = count[b] + 1 /\ sequence'[b] = NextNibble(sequence[b])
      BY <1>2 DEF AirTypeOK
    <3> QED BY <1>1, <2>1, <3>1, SplitFrames
  <2>2. CASE c # b
    BY <1>2, <2>2 DEF TxInv, AirTypeOK
  <2> QED BY <2>1, <2>2
<1>6. HeldInv'
  <2> SUFFICES ASSUME NEW f \in held, f.body.from \in Boards
               PROVE  LET c == f.body.from IN
                      /\ f.body.boot <= boots'[c]
                      /\ f.body.boot = boots'[c] =>
                           /\ f.body.id < count'[c]
                           /\ f.body.id + 1 = count'[c] => NextNibble(f.seq) = sequence'[c]
                           /\ f.body.id + 2 = count'[c] =>
                                 NextNibble(NextNibble(f.seq)) = sequence'[c]
                           /\ f.body.id + 1 = count'[c] /\ tx'[c] # <<>> =>
                                 /\ Len(tx'[c]) = 1
                                 /\ f.body.half = 1 /\ tx'[c][1].body.half = 2
                                 /\ f.body.len + tx'[c][1].body.len = f.body.of
    BY <1>2, Zenon DEF HeldInv
  <2>1. f.body.id \in Nat /\ f.body.boot \in Nat
    BY DEF AirTypeOK, Frame, Part
  <2>2. CASE f.body.from = b
    <3>1. /\ count'[b] = count[b] + 1 /\ sequence'[b] = NextNibble(sequence[b])
          /\ boots'[b] = boots[b] /\ count[b] \in Nat
      BY <1>2 DEF AirTypeOK
    <3>2. /\ f.body.boot <= boots[b]
          /\ f.body.boot = boots[b] =>
               /\ f.body.id < count[b]
               /\ f.body.id + 1 = count[b] => NextNibble(f.seq) = sequence[b]
      BY <2>2 DEF HeldInv
    <3> QED BY <2>1, <2>2, <3>1, <3>2
  <2>3. CASE f.body.from # b
    <3> DEFINE c == f.body.from
    <3>1. /\ count'[c] = count[c] /\ sequence'[c] = sequence[c]
          /\ boots'[c] = boots[c] /\ tx'[c] = tx[c]
      BY <1>2, <2>3 DEF AirTypeOK
    <3> QED BY <3>1 DEF HeldInv
  <2> QED BY <2>2, <2>3
<1>7. ConsecutiveNeverJoined'
  BY <1>2 DEF ConsecutiveNeverJoined, SameBoot
<1> QED BY <1>4, <1>5, <1>6, <1>7

(* A frame that is lost is only taken off the board's queue. *)
LEMMA LostInv ==
    ASSUME AirInv, NEW b \in Boards, Lost(b)
    PROVE  AirInv'
<1> USE DEF AirInv
<1>1. tx[b] # <<>> /\ FrameGone(b) /\ UNCHANGED <<held, age, out, heard, swallowed>>
  BY DEF Lost
<1>2. TxInv' /\ HeldInv'
  BY <1>1, FrameGoneFacts, HeldAfterFrameGone
<1>3. AirTypeOK'
  BY <1>1, FrameGoneFacts DEF FrameGone, AirTypeOK
<1>4. ConsecutiveNeverJoined'
  BY <1>1 DEF ConsecutiveNeverJoined, SameBoot
<1> QED BY <1>2, <1>3, <1>4

(* A frame that is heard. *)
LEMMA HeardInv ==
    ASSUME AirInv, NEW b \in Boards, Heard(b)
    PROVE  AirInv'
<1> USE DEF AirInv
<1>1. tx[b] # <<>> /\ FrameGone(b) /\ Feed(Head(tx[b]))
  BY DEF Heard
<1>2. Head(tx[b]) \in Frame
  BY <1>1, FrameGoneFacts
<1>3. /\ held' \subseteq {Head(tx[b])} /\ age' = 0
      /\ out' \in Seq(Part) /\ Len(out') <= 2
      /\ heard' \in Seq(Part) /\ Len(heard') <= 2
  BY <1>1, <1>2, FeedFacts
<1>4. TxInv' /\ HeldInv'
  BY <1>1, <1>3, FrameGoneFacts, HeldAfterFrameGone
<1>5. AirTypeOK'
  <2>1. tx' \in [Boards -> Seq(Frame)] /\ gap' \in [Boards -> Nat]
    BY <1>1, FrameGoneFacts
  <2>2. UNCHANGED <<sequence, count, boots>>
    BY <1>1 DEF FrameGone
  <2>3. held' \subseteq Frame /\ \A f, g \in held' : f = g
    BY <1>2, <1>3
  <2>4. age' \in 0..(MaxAge + 1)
    BY <1>3, AirAssumption
  <2>5. swallowed' \in BOOLEAN
    BY <1>1, Zenon DEF Feed
  <2> QED BY <1>3, <2>1, <2>2, <2>3, <2>4, <2>5 DEF AirTypeOK
<1>6. ConsecutiveNeverJoined'
  BY HeardJoin
<1> QED BY <1>4, <1>5, <1>6

(* Giving up and resetting empty the queue; a reset starts a new boot, so  *)
(* that what is held belongs to an earlier one.                            *)
LEMMA GiveUpRebootInv ==
    ASSUME AirInv, NEW b \in Boards, GiveUp(b) \/ Reboot(b)
    PROVE  AirInv'
<1> USE DEF AirInv
<1>1. /\ tx' = [tx EXCEPT ![b] = <<>>]
      /\ gap' = [gap EXCEPT ![b] = 0]
      /\ UNCHANGED <<held, age, out, heard, swallowed>>
      /\ \/ UNCHANGED <<sequence, count, boots>>
         \/ /\ boots' = [boots EXCEPT ![b] = boots[b] + 1]
            /\ sequence' = [sequence EXCEPT ![b] = Seed[b]]
            /\ count' = [count EXCEPT ![b] = 0]
  BY DEF GiveUp, Reboot
<1>2. AirTypeOK'
  <2>1. /\ tx' \in [Boards -> Seq(Frame)]
        /\ gap' \in [Boards -> Nat]
    BY <1>1 DEF AirTypeOK
  <2>2. /\ sequence' \in [Boards -> Nibble]
        /\ count' \in [Boards -> Nat] /\ boots' \in [Boards -> Nat]
    <3>0. Seed[b] \in Nibble /\ boots[b] + 1 \in Nat
      BY AirAssumption DEF AirTypeOK, Nibble
    <3>1. CASE UNCHANGED <<sequence, count, boots>>
      BY <3>1 DEF AirTypeOK
    <3>2. CASE /\ boots' = [boots EXCEPT ![b] = boots[b] + 1]
               /\ sequence' = [sequence EXCEPT ![b] = Seed[b]]
               /\ count' = [count EXCEPT ![b] = 0]
      BY <3>0, <3>2 DEF AirTypeOK
    <3> QED BY <1>1, <3>1, <3>2
  <2> QED BY <1>1, <2>1, <2>2 DEF AirTypeOK
<1>3. TxInv'
  <2> SUFFICES ASSUME NEW c \in Boards
               PROVE  /\ Len(tx'[c]) \in 0..2
                      /\ \A i \in 1..Len(tx'[c]) :
                           /\ tx'[c][i].body.from = c
                           /\ tx'[c][i].body.boot = boots'[c]
                           /\ tx'[c][i].body.id + 1 = count'[c]
                           /\ NextNibble(tx'[c][i].seq) = sequence'[c]
                      /\ Len(tx'[c]) = 2 =>
                           /\ tx'[c][1].body.half = 1
                           /\ tx'[c][2].body.half = 2
                           /\ tx'[c][1].body.len + tx'[c][2].body.len
                                = tx'[c][1].body.of
    BY Zenon DEF TxInv
  <2>1. CASE c = b
    <3>1. tx'[b] = <<>> /\ Len(tx'[b]) = 0
      BY <1>1 DEF AirTypeOK
    <3> QED BY <2>1, <3>1
  <2>2. CASE c # b
    BY <1>1, <2>2 DEF TxInv, AirTypeOK
  <2> QED BY <2>1, <2>2
<1>4. HeldInv'
  <2> SUFFICES ASSUME NEW f \in held, f.body.from \in Boards
               PROVE  LET c == f.body.from IN
                      /\ f.body.boot <= boots'[c]
                      /\ f.body.boot = boots'[c] =>
                           /\ f.body.id < count'[c]
                           /\ f.body.id + 1 = count'[c] => NextNibble(f.seq) = sequence'[c]
                           /\ f.body.id + 2 = count'[c] =>
                                 NextNibble(NextNibble(f.seq)) = sequence'[c]
                           /\ f.body.id + 1 = count'[c] /\ tx'[c] # <<>> =>
                                 /\ Len(tx'[c]) = 1
                                 /\ f.body.half = 1 /\ tx'[c][1].body.half = 2
                                 /\ f.body.len + tx'[c][1].body.len = f.body.of
    BY <1>1, Zenon DEF HeldInv
  <2>1. f.body.boot \in Nat /\ boots[f.body.from] \in Nat
    BY DEF AirTypeOK, Frame, Part
  <2>2. CASE f.body.from = b
    <3>1. tx'[b] = <<>> /\ f.body.boot <= boots[b]
      BY <1>1, <2>2 DEF AirTypeOK, HeldInv
    <3>2. CASE UNCHANGED <<sequence, count, boots>>
      BY <2>2, <3>1, <3>2 DEF HeldInv
    <3>3. CASE boots' = [boots EXCEPT ![b] = boots[b] + 1]
      <4>1. boots'[b] = boots[b] + 1
        BY <3>3 DEF AirTypeOK
      <4> QED BY <2>1, <2>2, <3>1, <4>1
    <3> QED BY <1>1, <3>2, <3>3
  <2>3. CASE f.body.from # b
    <3> DEFINE c == f.body.from
    <3>1. /\ count'[c] = count[c] /\ sequence'[c] = sequence[c]
          /\ boots'[c] = boots[c] /\ tx'[c] = tx[c]
      BY <1>1, <2>3 DEF AirTypeOK
    <3> QED BY <3>1 DEF HeldInv
  <2> QED BY <2>2, <2>3
<1>5. ConsecutiveNeverJoined'
  BY <1>1 DEF ConsecutiveNeverJoined, SameBoot
<1> QED BY <1>2, <1>3, <1>4, <1>5

(* A stock RNode's frame is no board's, whatever its nibble. *)
LEMMA StockFrameInv ==
    ASSUME AirInv, NEW n \in Nibble, NEW split \in BOOLEAN, NEW len \in Nat,
           StockFrame(n, split, len)
    PROVE  AirInv'
<1> USE DEF AirInv
<1> DEFINE f == [seq |-> n, split |-> split,
                 body |-> [from |-> Stock, boot |-> 0, id |-> 0,
                           half |-> 1, len |-> len, of |-> len]]
<1>1. f \in Frame /\ f.body.from = Stock /\ Stock \notin Boards
  BY AirAssumption DEF Frame, Part
<1>2. Feed(f) /\ UNCHANGED <<sequence, count, boots, tx, gap>>
  BY DEF StockFrame
<1> HIDE DEF f
<1>3. /\ held' \subseteq {f} /\ age' = 0
      /\ out' \in Seq(Part) /\ Len(out') <= 2
      /\ heard' \in Seq(Part) /\ Len(heard') <= 2
      /\ Len(out') = 2 => \E p \in held : out' = <<p.body, f.body>>
  BY <1>1, <1>2, FeedFacts
<1>4. AirTypeOK'
  <2>1. held' \subseteq Frame /\ \A g, h \in held' : g = h
    BY <1>1, <1>3
  <2>2. age' \in 0..(MaxAge + 1)
    BY <1>3, AirAssumption
  <2>3. swallowed' \in BOOLEAN
    BY <1>2, Zenon DEF Feed
  <2> QED BY <1>2, <1>3, <2>1, <2>2, <2>3 DEF AirTypeOK
<1>5. TxInv'
  BY <1>2 DEF TxInv, NextNibble
<1>6. HeldInv'
  BY <1>1, <1>3 DEF HeldInv
<1>7. ConsecutiveNeverJoined'
  BY <1>1, <1>3 DEF ConsecutiveNeverJoined, SameBoot
<1> QED BY <1>4, <1>5, <1>6, <1>7

(* Clearing the receiver and the passing of time. *)
LEMMA ClearTickInv ==
    ASSUME AirInv, Clear \/ AirTick \/ UNCHANGED airVars
    PROVE  AirInv'
<1> USE DEF AirInv
<1>1. UNCHANGED <<sequence, count, boots, tx>>
  BY DEF Clear, AirTick, airVars
<1>2. /\ held' \subseteq held
      /\ out' = out \/ out' = <<>>
      /\ heard' = heard \/ heard' = <<>>
  BY DEF Clear, AirTick, airVars
<1>3. AirTypeOK'
  <2>1. age' \in 0..(MaxAge + 1) /\ gap' \in [Boards -> Nat]
    <3>1. CASE Clear
      BY <3>1, AirAssumption DEF Clear, AirTypeOK
    <3>2. CASE AirTick
      BY <3>2, AirAssumption DEF AirTick, AirTypeOK
    <3>3. CASE UNCHANGED airVars
      BY <3>3 DEF airVars, AirTypeOK
    <3> QED BY <3>1, <3>2, <3>3
  <2>2. out' \in Seq(Part) /\ Len(out') <= 2
    <3>1. CASE out' = out
      BY <3>1 DEF AirTypeOK
    <3>2. CASE out' = <<>>
      BY <3>2
    <3> QED BY <1>2, <3>1, <3>2
  <2>3. heard' \in Seq(Part) /\ Len(heard') <= 2
    <3>1. CASE heard' = heard
      BY <3>1 DEF AirTypeOK
    <3>2. CASE heard' = <<>>
      BY <3>2
    <3> QED BY <1>2, <3>1, <3>2
  <2>4. swallowed' \in BOOLEAN
    BY Zenon DEF Clear, AirTick, airVars, AirTypeOK
  <2> QED BY <1>1, <1>2, <2>1, <2>2, <2>3, <2>4 DEF AirTypeOK
<1>4. TxInv'
  BY <1>1 DEF TxInv, NextNibble
<1>5. HeldInv'
  BY <1>1, <1>2 DEF HeldInv, NextNibble
<1>6. ConsecutiveNeverJoined'
  <2>1. CASE out' = out
    BY <2>1 DEF ConsecutiveNeverJoined, SameBoot
  <2>2. CASE out' = <<>>
    <3>1. Len(out') = 0
      BY <2>2
    <3> QED BY <3>1 DEF ConsecutiveNeverJoined
  <2> QED BY <1>2, <2>1, <2>2
<1> QED BY <1>3, <1>4, <1>5, <1>6

(* Every step of the boards, the stock RNode and the receiver keeps the    *)
(* inductive invariant.                                                    *)
LEMMA AirNextInv == AirInv /\ [AirNext]_airVars => AirInv'
<1> SUFFICES ASSUME AirInv, [AirNext]_airVars
             PROVE  AirInv'
  OBVIOUS
<1>1. ASSUME NEW b \in Boards, NEW len \in Lengths, Offer(b, len)
      PROVE  AirInv'
  BY <1>1, OfferInv
<1>2. ASSUME NEW b \in Boards, Heard(b)
      PROVE  AirInv'
  BY <1>2, HeardInv
<1>3. ASSUME NEW b \in Boards, Lost(b)
      PROVE  AirInv'
  BY <1>3, LostInv
<1>4. ASSUME NEW b \in Boards, GiveUp(b) \/ Reboot(b)
      PROVE  AirInv'
  BY <1>4, GiveUpRebootInv
<1>5. ASSUME NEW n \in Nibble, NEW split \in BOOLEAN, NEW len \in {0, FramePayload},
             StockFrame(n, split, len)
      PROVE  AirInv'
  <2>1. len \in Nat
    BY AirAssumption
  <2> QED BY <1>5, <2>1, StockFrameInv
<1>6. CASE Clear \/ AirTick \/ UNCHANGED airVars
  BY <1>6, ClearTickInv
<1> QED BY <1>1, <1>2, <1>3, <1>4, <1>5, <1>6 DEF AirNext

(* The states of the model are well formed: nibbles stay nibbles, at most  *)
(* one half is held, and its age never passes the limit by more than one.  *)
THEOREM AirTypeCorrect == AirSpec => []AirTypeOK
<1>1. AirInv => AirTypeOK
  BY DEF AirInv
<1> QED BY <1>1, AirInitInv, AirNextInv, PTL DEF AirSpec

(* The claim of Sequence's documentation, for every number of boards and   *)
(* every loss pattern: consecutive packets of one board are never joined,  *)
(* and the two halves of one packet are joined in order and in full.       *)
THEOREM ConsecutivePacketsNeverJoined == AirSpec => []ConsecutiveNeverJoined
<1>1. AirInv => ConsecutiveNeverJoined
  BY DEF AirInv
<1> QED BY <1>1, AirInitInv, AirNextInv, PTL DEF AirSpec

----------------------------------------------------------------------------
(* What HalvesMatch rests on.  The n-th packet of a boot takes the nibble  *)
(* n steps on from where the board counts: the same, but for whole turns.  *)
Turn(b, n, s) == \E k \in 0..(Seed[b] + n) : Seed[b] + n = s + k * NSeq

Counted ==
    /\ \A b \in Boards :
         /\ count[b] <= MaxPackets
         /\ Turn(b, count[b], sequence[b])
         /\ \A i \in 1..Len(tx[b]) : Turn(b, tx[b][i].body.id, tx[b][i].seq)
    /\ \A f \in held : f.body.from \in Boards => Turn(f.body.from, f.body.id, f.seq)

(* The second of two frames is marked as split, like the first. *)
Marked ==
    \A b \in Boards :
        /\ Len(tx[b]) = 2 => tx[b][1].split
        /\ \A i \in 1..Len(tx[b]) : tx[b][i].body.half = 2 => tx[b][i].split

(* A half whose second is still to come is no older than the gap between   *)
(* the two may be.                                                         *)
InTime ==
    \A b \in Boards : SecondHalfDue(b) =>
        /\ gap[b] <= Gap
        /\ \A f \in held :
             f.body.from = b /\ f.body.boot = boots[b] /\ f.body.id + 1 = count[b]
                => age <= gap[b]

(* The last frame heard, if it is of a packet a board is still sending, is *)
(* its first half; and it is held, or it completed some other packet.      *)
LastHeardOf(p) ==
    p.from \in Boards =>
        /\ p.boot <= boots[p.from]
        /\ p.boot = boots[p.from] =>
             /\ p.id < count[p.from]
             /\ p.id + 1 = count[p.from] /\ tx[p.from] # <<>> =>
                   /\ Len(tx[p.from]) = 1 /\ tx[p.from][1].body.half = 2
                   /\ p.half = 1
                   /\ Len(out) = 2 \/ \E f \in held : f.body = p

LastInv == heard # <<>> => LastHeardOf(heard[Len(heard)])

MatchInv ==
    /\ Counted /\ Marked /\ InTime /\ LastInv
    /\ JoinedAWholeTurnApart /\ BothHalvesHeard /\ HeldIsLastHeard

LEMMA TurnNext ==
    ASSUME NEW b \in Boards, NEW n \in Nat, NEW s \in Nibble, Turn(b, n, s)
    PROVE  Turn(b, n + 1, NextNibble(s))
<1>1. PICK k \in 0..(Seed[b] + n) : Seed[b] + n = s + k * NSeq
  BY DEF Turn
<1>2. NSeq \in Nat /\ NSeq >= 2 /\ Seed[b] \in Nat /\ s \in Nat /\ k \in Nat
  BY AirAssumption DEF Nibble
<1>3. CASE s = NSeq - 1
  <2>1. (k + 1) * NSeq = k * NSeq + NSeq
    BY <1>2
  <2>2. NextNibble(s) = 0 /\ k + 1 \in 0..(Seed[b] + (n + 1))
    BY <1>2, <1>3 DEF NextNibble
  <2>3. Seed[b] + (n + 1) = 0 + (k + 1) * NSeq
    BY <1>1, <1>2, <1>3, <2>1
  <2> QED
    BY <2>2, <2>3 DEF Turn
<1>4. CASE s # NSeq - 1
  <2>1. NextNibble(s) = s + 1 /\ k \in 0..(Seed[b] + (n + 1))
    BY <1>2, <1>4 DEF NextNibble
  <2>2. k * NSeq \in Nat
    BY <1>2
  <2>3. Seed[b] + (n + 1) = (s + 1) + k * NSeq
    BY <1>1, <1>2, <2>2
  <2> QED
    BY <2>1, <2>3 DEF Turn
<1> QED
  BY <1>3, <1>4

(* Two packets that took the same nibble are whole turns apart. *)
LEMMA TurnsApart ==
    ASSUME NEW b \in Boards, NEW m \in Nat, NEW n \in Nat, NEW s \in Nibble,
           Turn(b, m, s), Turn(b, n, s), m <= n, n <= MaxPackets
    PROVE  \E k \in 0..MaxPackets : n = m + k * NSeq
<1>1. PICK j \in 0..(Seed[b] + m) : Seed[b] + m = s + j * NSeq
  BY DEF Turn
<1>2. PICK k \in 0..(Seed[b] + n) : Seed[b] + n = s + k * NSeq
  BY DEF Turn
<1>3. /\ NSeq \in Nat /\ NSeq >= 2 /\ Seed[b] \in Nat /\ s \in Nat
      /\ j \in Nat /\ k \in Nat /\ MaxPackets \in Nat
  BY AirAssumption DEF Nibble
<1>4. j * NSeq \in Nat /\ k * NSeq \in Nat
  BY <1>3
<1>5. j <= k
  <2> SUFFICES ASSUME k < j PROVE FALSE
    BY <1>3
  <2>1. PICK d \in Nat : j = k + d /\ d >= 1
    <3>1. j - k \in Nat /\ j = k + (j - k) /\ j - k >= 1
      BY <1>3
    <3> QED
      BY <3>1
  <2>2. j * NSeq = k * NSeq + d * NSeq /\ d * NSeq >= NSeq
    BY <1>3, <2>1
  <2> QED
    BY <1>1, <1>2, <1>3, <1>4, <2>2
<1>6. PICK d \in Nat : k = j + d
  <2>1. k - j \in Nat /\ k = j + (k - j)
    BY <1>3, <1>5
  <2> QED
    BY <2>1
<1>7. k * NSeq = j * NSeq + d * NSeq /\ d * NSeq \in Nat /\ d <= d * NSeq
  BY <1>3, <1>6
<1>8. n = m + d * NSeq /\ d <= MaxPackets
  BY <1>1, <1>2, <1>3, <1>4, <1>7
<1>9. d \in 0..MaxPackets
  BY <1>3, <1>8
<1> QED
  BY <1>8, <1>9

(* What feed leaves, in more detail. *)
LEMMA FeedMore ==
    ASSUME AirTypeOK, NEW f \in Frame, Feed(f)
    PROVE  /\ held' = IF ~f.split \/ Joins(f) THEN {} ELSE {f}
           /\ f.split /\ Joins(f) => Len(out') = 2
           /\ heard' # <<>> /\ heard'[Len(heard')] = f.body
           /\ Len(heard') = 2 =>
                heard # <<>> /\ heard' = <<heard[Len(heard)], f.body>>
           /\ swallowed' <=> Len(out) = 2
           /\ HeldIsLastHeard'
<1>1. held' = IF ~f.split \/ Joins(f) THEN {} ELSE {f}
  BY DEF Feed, HeldAfter
<1>2. f.split /\ Joins(f) => Len(out') = 2
  BY DEF Feed, PacketOf
<1>3. /\ heard' # <<>> /\ heard'[Len(heard')] = f.body
      /\ Len(heard') = 2 => heard # <<>> /\ heard' = <<heard[Len(heard)], f.body>>
  BY DEF Feed
<1>4. swallowed' <=> Len(out) = 2
  BY Zenon DEF Feed
<1>5. HeldIsLastHeard'
  BY <1>1, <1>3 DEF HeldIsLastHeard
<1> QED
  BY <1>1, <1>2, <1>3, <1>4, <1>5

(* A frame leaving a board's queue, whether it is heard or lost. *)
LEMMA FrameGoneMatch ==
    ASSUME AirInv, MatchInv, NEW b \in Boards, tx[b] # <<>>, FrameGone(b),
           \/ held' \subseteq held /\ age' = age
           \/ held' \subseteq {Head(tx[b])} /\ age' = 0
    PROVE  Counted' /\ Marked' /\ InTime'
<1> USE DEF AirInv, MatchInv
<1>1. /\ Head(tx[b]) \in Frame /\ Head(tx[b]) = tx[b][1]
      /\ \A c \in Boards : c # b => tx'[c] = tx[c]
      /\ Len(tx'[b]) = Len(tx[b]) - 1
      /\ tx'[b] # <<>> => Len(tx[b]) = 2 /\ tx'[b][1] = tx[b][2]
      /\ tx' \in [Boards -> Seq(Frame)]
  BY FrameGoneFacts
<1>2. UNCHANGED <<sequence, count, boots>> /\ gap' = [gap EXCEPT ![b] = 0]
  BY DEF FrameGone
<1>3. Len(tx[b]) \in 1..2 /\ Len(tx'[b]) \in 0..1
  <2>1. tx[b] \in Seq(Frame) /\ Len(tx[b]) # 0
    BY DEF AirTypeOK
  <2> QED
    BY <1>1, <2>1 DEF TxInv
<1>4. \A i \in 1..Len(tx'[b]) : i = 1 /\ Len(tx[b]) = 2 /\ tx'[b][i] = tx[b][2]
  <2> SUFFICES ASSUME NEW i \in 1..Len(tx'[b])
               PROVE  i = 1 /\ Len(tx[b]) = 2 /\ tx'[b][i] = tx[b][2]
    OBVIOUS
  <2> DEFINE n == Len(tx'[b])
  <2>0. n \in 0..1 /\ i \in 1..n
    BY <1>3
  <2> HIDE DEF n
  <2>1. i = 1 /\ n = 1
    BY <2>0
  <2>2. tx'[b] # <<>>
    BY <2>1 DEF n
  <2> QED
    BY <1>1, <2>1, <2>2
<1>5. Counted'
  <2>1. ASSUME NEW c \in Boards
        PROVE  /\ count'[c] <= MaxPackets
               /\ Turn(c, count'[c], sequence'[c])
               /\ \A i \in 1..Len(tx'[c]) : Turn(c, tx'[c][i].body.id, tx'[c][i].seq)
    <3>1. count'[c] <= MaxPackets /\ Turn(c, count'[c], sequence'[c])
      BY <1>2 DEF Counted
    <3>2. CASE c = b
      BY <1>4, <3>1, <3>2 DEF Counted
    <3>3. CASE c # b
      BY <1>1, <3>1, <3>3 DEF Counted
    <3> QED
      BY <3>2, <3>3
  <2>2. ASSUME NEW f \in held', f.body.from \in Boards
        PROVE  Turn(f.body.from, f.body.id, f.seq)
    <3>1. CASE f \in held
      BY <2>2, <3>1 DEF Counted
    <3>2. CASE f = Head(tx[b])
      <4>1. f = tx[b][1] /\ 1 \in 1..Len(tx[b]) /\ f.body.from = b
        BY <1>1, <1>3, <3>2 DEF TxInv
      <4> QED
        BY <4>1 DEF Counted
    <3> QED
      BY <3>1, <3>2
  <2> QED
    BY <2>1, <2>2 DEF Counted, Turn
<1>6. Marked'
  <2> SUFFICES ASSUME NEW c \in Boards
               PROVE  /\ Len(tx'[c]) = 2 => tx'[c][1].split
                      /\ \A i \in 1..Len(tx'[c]) : tx'[c][i].body.half = 2 => tx'[c][i].split
    BY DEF Marked
  <2>1. CASE c = b
    BY <1>3, <1>4, <2>1 DEF Marked
  <2>2. CASE c # b
    BY <1>1, <2>2 DEF Marked
  <2> QED
    BY <2>1, <2>2
<1>7. InTime'
  <2> SUFFICES ASSUME NEW c \in Boards, SecondHalfDue(c)'
               PROVE  /\ gap'[c] <= Gap
                      /\ \A f \in held' :
                           f.body.from = c /\ f.body.boot = boots'[c] /\ f.body.id + 1 = count'[c]
                              => age' <= gap'[c]
    BY DEF InTime, SecondHalfDue
  <2>1. CASE c = b
    <3>1. gap'[c] = 0 /\ Gap >= 0 /\ tx'[b] # <<>>
      BY <1>2, <2>1, AirAssumption DEF AirTypeOK, SecondHalfDue
    <3>2. CASE held' \subseteq held
      <4>1. ASSUME NEW f \in held, f.body.from = b, f.body.boot = boots[b],
                   f.body.id + 1 = count[b]
            PROVE  FALSE
        <5>1. Len(tx[b]) = 1
          BY <4>1 DEF HeldInv
        <5> QED
          BY <1>1, <3>1, <5>1
      <4> QED
        BY <1>2, <2>1, <3>1, <3>2, <4>1
    <3> QED
      BY <3>1, <3>2
  <2>2. CASE c # b
    <3>1. gap'[c] = gap[c] /\ tx'[c] = tx[c] /\ SecondHalfDue(c)
      BY <1>1, <1>2, <2>2 DEF AirTypeOK, SecondHalfDue
    <3>2. Head(tx[b]).body.from = b
      BY <1>1, <1>3 DEF TxInv
    <3> QED
      BY <1>2, <2>2, <3>1, <3>2 DEF InTime
  <2> QED
    BY <2>1, <2>2
<1> QED
  BY <1>5, <1>6, <1>7

(* The step that matters: a frame of a board's is heard. *)
LEMMA HeardMatch ==
    ASSUME AirInv, MatchInv, NEW b \in Boards, Heard(b)
    PROVE  MatchInv'
<1> USE DEF AirInv, MatchInv
<1>0. PICK f : f = Head(tx[b])
  OBVIOUS
<1>1. tx[b] # <<>> /\ FrameGone(b) /\ Feed(f)
  BY <1>0 DEF Heard
<1>2. /\ f \in Frame /\ f = tx[b][1]
      /\ Len(tx'[b]) = Len(tx[b]) - 1
      /\ \A c \in Boards : c # b => tx'[c] = tx[c]
      /\ tx'[b] # <<>> => Len(tx[b]) = 2 /\ tx'[b][1] = tx[b][2]
      /\ UNCHANGED <<sequence, count, boots>>
  BY <1>0, <1>1, FrameGoneFacts DEF FrameGone
<1>3. /\ f.body.from = b /\ f.body.boot = boots[b]
      /\ f.body.id + 1 = count[b] /\ NextNibble(f.seq) = sequence[b]
      /\ Turn(b, f.body.id, f.seq)
      /\ f.body.half = 2 => f.split
  <2>1. 1 \in 1..Len(tx[b])
    BY <1>1 DEF AirTypeOK, TxInv
  <2> QED
    BY <1>2, <2>1 DEF TxInv, Counted, Marked
<1>4. /\ f.body.id \in Nat /\ count[b] \in Nat /\ boots[b] \in Nat
      /\ f.seq \in Nibble /\ f.body \in Part
  BY <1>2 DEF Frame, Part, AirTypeOK
<1>5. /\ held' = IF ~f.split \/ Joins(f) THEN {} ELSE {f}
      /\ f.split /\ Joins(f) => Len(out') = 2
      /\ heard' # <<>> /\ heard'[Len(heard')] = f.body
      /\ Len(heard') = 2 =>
           heard # <<>> /\ heard' = <<heard[Len(heard)], f.body>>
      /\ swallowed' <=> Len(out) = 2
      /\ HeldIsLastHeard'
  BY <1>1, <1>2, FeedMore
<1>6. Counted' /\ Marked' /\ InTime'
  <2>1. held' \subseteq {f} /\ age' = 0
    BY <1>1, <1>5 DEF Feed
  <2> QED
    BY <1>0, <1>1, <2>1, FrameGoneMatch
<1>7. LastInv'
  <2> SUFFICES LastHeardOf(f.body)'
    BY <1>5 DEF LastInv, LastHeardOf
  <2>1. ASSUME tx'[b] # <<>>
        PROVE  /\ Len(tx'[b]) = 1 /\ tx'[b][1].body.half = 2
               /\ f.body.half = 1
               /\ Len(out') = 2 \/ \E g \in held' : g.body = f.body
    <3>1. Len(tx[b]) = 2 /\ tx'[b][1] = tx[b][2]
      BY <1>2, <2>1
    <3>2. f.split /\ f.body.half = 1 /\ tx[b][2].body.half = 2
      BY <1>2, <3>1 DEF Marked, TxInv
    <3> QED
      BY <1>2, <1>5, <3>1, <3>2
  <2>2. f.body.boot <= boots'[b] /\ f.body.id < count'[b]
    BY <1>2, <1>3, <1>4
  <2>3. PICK p : p = f.body
    OBVIOUS
  <2>4. LastHeardOf(p)'
    BY <1>3, <2>1, <2>2, <2>3 DEF LastHeardOf
  <2> QED
    BY <2>3, <2>4
<1>8. JoinedAWholeTurnApart'
  <2> SUFFICES ASSUME Len(out') = 2, SameBoot(out'[1], out'[2])
               PROVE  \E k \in 0..MaxPackets : out'[2].id = out'[1].id + k * NSeq
    BY DEF JoinedAWholeTurnApart, SameBoot
  <2>1. PICK p \in held : p.seq = f.seq /\ out' = <<p.body, f.body>>
    BY <1>1, <1>2, FeedFacts
  <2>2. p.body.from = b /\ p.body.boot = boots[b]
    BY <1>3, <2>1 DEF SameBoot
  <2>3. p.body.id < count[b] /\ Turn(b, p.body.id, f.seq)
    BY <2>1, <2>2 DEF HeldInv, Counted
  <2>4. p.body.id \in Nat
    BY DEF AirTypeOK, Frame, Part
  <2>5. p.body.id <= f.body.id /\ f.body.id <= MaxPackets
    BY <1>3, <1>4, <2>3, <2>4, AirAssumption DEF Counted
  <2>6. \E k \in 0..MaxPackets : f.body.id = p.body.id + k * NSeq
    BY <1>3, <1>4, <2>3, <2>4, <2>5, TurnsApart
  <2> QED
    BY <2>1, <2>6
<1>9. BothHalvesHeard'
  <2> SUFFICES ASSUME Len(heard') = 2, SamePacket(heard'[1], heard'[2]),
                      heard'[1].half = 1, heard'[2].half = 2, ~swallowed'
               PROVE  out' = heard'
    BY DEF BothHalvesHeard, SamePacket, SameBoot
  <2> DEFINE p == heard[Len(heard)]
  <2>1. heard # <<>> /\ heard' = <<p, f.body>> /\ Len(out) # 2
    BY <1>5
  <2>2. p.from = b /\ p.boot = boots[b] /\ p.id + 1 = count[b] /\ f.body.half = 2
    BY <1>3, <2>1 DEF SamePacket, SameBoot
  <2>3. LastHeardOf(p)
    BY <2>1 DEF LastInv
  <2> HIDE DEF p
  <2>4. Len(tx[b]) = 1 /\ tx[b][1].body.half = 2 /\ \E g \in held : g.body = p
    BY <1>1, <2>1, <2>2, <2>3 DEF LastHeardOf
  <2>5. PICK g \in held : g.body = p
    BY <2>4
  <2>6. g.seq = f.seq
    <3>1. NextNibble(g.seq) = sequence[b] /\ g.seq \in Nibble
      BY <2>2, <2>5 DEF HeldInv, AirTypeOK, Frame
    <3> QED
      BY <1>3, <1>4, <3>1, NextNibbleFacts
  <2>7. Fresh = held
    <3>1. SecondHalfDue(b)
      BY <1>0, <1>1, <1>2, <2>4 DEF SecondHalfDue
    <3>2. age <= gap[b] /\ gap[b] <= Gap
      BY <2>2, <2>5, <3>1 DEF InTime
    <3>3. age \in Nat /\ gap[b] \in Nat /\ Gap \in Nat /\ MaxAge \in Nat /\ Gap <= MaxAge
      BY AirAssumption DEF AirTypeOK
    <3> QED
      BY <3>2, <3>3 DEF Fresh
  <2>8. f.split /\ Joins(f)
    BY <1>3, <2>2, <2>5, <2>6, <2>7 DEF Joins
  <2>9. (CHOOSE q \in Fresh : TRUE) = g
    <3>1. (CHOOSE q \in held : TRUE) \in held
      BY <2>5
    <3> QED
      BY <2>5, <2>7, <3>1 DEF AirTypeOK
  <2>10. out' = <<g.body, f.body>>
    BY <1>1, <2>8, <2>9 DEF Feed, PacketOf
  <2> QED
    BY <2>1, <2>5, <2>10
<1> QED
  BY <1>5, <1>6, <1>7, <1>8, <1>9

(* A frame that is lost: of a packet whose first half was never heard. *)
LEMMA LostMatch ==
    ASSUME AirInv, MatchInv, NEW b \in Boards, Lost(b)
    PROVE  MatchInv'
<1> USE DEF AirInv, MatchInv
<1>1. tx[b] # <<>> /\ FrameGone(b) /\ UNCHANGED <<held, age, out, heard, swallowed>>
  BY DEF Lost
<1>2. /\ \A c \in Boards : c # b => tx'[c] = tx[c]
      /\ tx'[b] # <<>> => Len(tx[b]) = 2
      /\ UNCHANGED <<sequence, count, boots>>
  BY <1>1, FrameGoneFacts DEF FrameGone
<1>3. Counted' /\ Marked' /\ InTime'
  BY <1>1, FrameGoneMatch
<1>4. LastInv'
  <2> SUFFICES ASSUME heard # <<>>, NEW p, p = heard[Len(heard)]
               PROVE  LastHeardOf(p)'
    BY <1>1 DEF LastInv, LastHeardOf
  <2>1. LastHeardOf(p)
    BY DEF LastInv
  <2>2. CASE p.from = b
    <3>1. p.boot = boots[b] /\ p.id + 1 = count[b] => tx'[b] = <<>>
      BY <1>1, <1>2, <2>1, <2>2 DEF LastHeardOf
    <3> QED
      BY <1>1, <1>2, <2>1, <2>2, <3>1 DEF LastHeardOf
  <2>3. CASE p.from # b
    BY <1>1, <1>2, <2>1, <2>3 DEF LastHeardOf
  <2> QED
    BY <2>2, <2>3
<1>5. JoinedAWholeTurnApart' /\ BothHalvesHeard' /\ HeldIsLastHeard'
  BY <1>1 DEF JoinedAWholeTurnApart, BothHalvesHeard, HeldIsLastHeard, SamePacket, SameBoot
<1> QED
  BY <1>3, <1>4, <1>5

(* A new packet: its number is one no half heard or held can have yet. *)
LEMMA OfferMatch ==
    ASSUME AirInv, MatchInv, NEW b \in Boards, NEW len \in Lengths, Offer(b, len)
    PROVE  MatchInv'
<1> USE DEF AirInv, MatchInv
<1>1. len \in Nat
  BY AirAssumption
<1>2. /\ sequence' = [sequence EXCEPT ![b] = NextNibble(sequence[b])]
      /\ count' = [count EXCEPT ![b] = count[b] + 1] /\ count[b] < MaxPackets
      /\ tx' = [tx EXCEPT ![b] = Split(b, len)] /\ tx[b] = <<>>
      /\ gap' = [gap EXCEPT ![b] = 0]
      /\ UNCHANGED <<boots, held, age, out, heard, swallowed>>
  BY DEF Offer
<1>3. /\ count[b] \in Nat /\ MaxPackets \in Nat /\ sequence[b] \in Nibble
      /\ boots[b] \in Nat
  BY AirAssumption DEF AirTypeOK
<1>4. /\ sequence'[b] = NextNibble(sequence[b]) /\ count'[b] = count[b] + 1
      /\ tx'[b] = Split(b, len)
      /\ \A c \in Boards : c # b => /\ sequence'[c] = sequence[c] /\ count'[c] = count[c]
                                    /\ tx'[c] = tx[c] /\ gap'[c] = gap[c]
  BY <1>2 DEF AirTypeOK
<1>5. /\ Len(Split(b, len)) \in 0..2
      /\ \A i \in 1..Len(Split(b, len)) :
           Split(b, len)[i].body.id = count[b] /\ Split(b, len)[i].seq = sequence[b]
      /\ Len(Split(b, len)) = 2 => Split(b, len)[1].split
      /\ \A i \in 1..Len(Split(b, len)) :
           Split(b, len)[i].body.half = 2 => Split(b, len)[i].split /\ i = 2
  <2>1. CASE len > PacketMax
    BY <2>1 DEF Split
  <2>2. CASE len > FramePayload /\ len <= PacketMax
    <3>1. Split(b, len) = <<FrameOf(b, len, 1), FrameOf(b, len, 2)>>
      BY <1>1, <2>2, AirAssumption DEF Split, PacketMax
    <3>2. \A h \in {1, 2} :
            /\ FrameOf(b, len, h).body.id = count[b] /\ FrameOf(b, len, h).seq = sequence[b]
            /\ FrameOf(b, len, h).split /\ FrameOf(b, len, h).body.half = h
      BY <2>2 DEF FrameOf
    <3>3. /\ Len(Split(b, len)) = 2
          /\ \A i \in 1..2 : i \in {1, 2} /\ Split(b, len)[i] = FrameOf(b, len, i)
      BY <3>1
    <3> QED
      BY <3>2, <3>3
  <2>3. CASE len <= FramePayload
    <3>1. Split(b, len) = <<FrameOf(b, len, 1)>>
      BY <1>1, <2>3, AirAssumption DEF Split, PacketMax
    <3> QED
      BY <3>1 DEF FrameOf
  <2>4. \/ len > PacketMax
        \/ len > FramePayload /\ len <= PacketMax
        \/ len <= FramePayload
    BY <1>1, AirAssumption DEF PacketMax
  <2> QED
    BY ONLY <2>1, <2>2, <2>3, <2>4
<1>6. Counted'
  <2>1. ASSUME NEW c \in Boards
        PROVE  /\ count'[c] <= MaxPackets
               /\ Turn(c, count'[c], sequence'[c])
               /\ \A i \in 1..Len(tx'[c]) : Turn(c, tx'[c][i].body.id, tx'[c][i].seq)
    <3>1. CASE c = b
      <4>1. Turn(b, count[b], sequence[b])
        BY DEF Counted
      <4>2. Turn(b, count[b] + 1, NextNibble(sequence[b]))
        BY <1>3, <4>1, TurnNext
      <4>3. count'[b] <= MaxPackets
        BY <1>2, <1>3, <1>4
      <4>4. \A i \in 1..Len(tx'[b]) : Turn(b, tx'[b][i].body.id, tx'[b][i].seq)
        BY <1>4, <1>5, <4>1
      <4> QED
        BY <1>4, <3>1, <4>2, <4>3, <4>4
    <3>2. CASE c # b
      BY <1>4, <3>2 DEF Counted
    <3> QED
      BY <3>1, <3>2
  <2>2. \A f \in held' : f.body.from \in Boards => Turn(f.body.from, f.body.id, f.seq)
    BY <1>2 DEF Counted
  <2> QED
    BY <2>1, <2>2 DEF Counted, Turn
<1>7. Marked'
  <2> SUFFICES ASSUME NEW c \in Boards
               PROVE  /\ Len(tx'[c]) = 2 => tx'[c][1].split
                      /\ \A i \in 1..Len(tx'[c]) : tx'[c][i].body.half = 2 => tx'[c][i].split
    BY DEF Marked
  <2> QED
    BY <1>4, <1>5 DEF Marked
<1>8. InTime'
  <2> SUFFICES ASSUME NEW c \in Boards, SecondHalfDue(c)'
               PROVE  /\ gap'[c] <= Gap
                      /\ \A f \in held' :
                           f.body.from = c /\ f.body.boot = boots'[c] /\ f.body.id + 1 = count'[c]
                              => age' <= gap'[c]
    BY DEF InTime, SecondHalfDue
  <2>1. c # b
    <3> SUFFICES ASSUME c = b PROVE FALSE
      OBVIOUS
    <3>1. tx'[b] # <<>> /\ Head(tx'[b]).body.half = 2
      BY DEF SecondHalfDue
    <3>2. tx'[b] \in Seq(Frame)
      BY <1>1, <1>4, SplitFrames
    <3>3. 1 \in 1..Len(tx'[b]) /\ Head(tx'[b]) = tx'[b][1]
      BY <3>1, <3>2
    <3> QED
      BY <1>4, <1>5, <3>1, <3>3
  <2>2. SecondHalfDue(c)
    BY <1>4, <2>1 DEF SecondHalfDue
  <2> QED
    BY <1>2, <1>4, <2>1, <2>2 DEF InTime
<1>9. LastInv'
  <2> SUFFICES ASSUME heard # <<>>, NEW p, p = heard[Len(heard)]
               PROVE  LastHeardOf(p)'
    BY <1>2 DEF LastInv, LastHeardOf
  <2>1. LastHeardOf(p) /\ p \in Part
    BY DEF LastInv, AirTypeOK
  <2>2. p.id \in Nat /\ p.boot \in Nat
    BY <2>1 DEF Part
  <2>3. CASE p.from = b
    BY <1>2, <1>3, <1>4, <2>1, <2>2, <2>3 DEF LastHeardOf
  <2>4. CASE p.from # b
    BY <1>2, <1>4, <2>1, <2>4 DEF LastHeardOf
  <2> QED
    BY <2>3, <2>4
<1>10. JoinedAWholeTurnApart' /\ BothHalvesHeard' /\ HeldIsLastHeard'
  BY <1>2 DEF JoinedAWholeTurnApart, BothHalvesHeard, HeldIsLastHeard, SamePacket, SameBoot
<1> QED
  BY <1>6, <1>7, <1>8, <1>9, <1>10

(* Giving up or resetting leaves a board nothing to send. *)
LEMMA GiveUpRebootMatch ==
    ASSUME AirInv, MatchInv, NEW b \in Boards, GiveUp(b) \/ Reboot(b)
    PROVE  MatchInv'
<1> USE DEF AirInv, MatchInv
<1>1. /\ tx' = [tx EXCEPT ![b] = <<>>]
      /\ gap' = [gap EXCEPT ![b] = 0]
      /\ UNCHANGED <<held, age, out, heard, swallowed>>
      /\ \/ UNCHANGED <<sequence, count, boots>>
         \/ /\ boots' = [boots EXCEPT ![b] = boots[b] + 1]
            /\ sequence' = [sequence EXCEPT ![b] = Seed[b]]
            /\ count' = [count EXCEPT ![b] = 0]
  BY DEF GiveUp, Reboot
<1>2. /\ tx'[b] = <<>>
      /\ \/ sequence'[b] = sequence[b] /\ count'[b] = count[b] /\ boots'[b] = boots[b]
         \/ sequence'[b] = Seed[b] /\ count'[b] = 0 /\ boots'[b] = boots[b] + 1
      /\ \A c \in Boards : c # b =>
            /\ sequence'[c] = sequence[c] /\ count'[c] = count[c] /\ boots'[c] = boots[c]
            /\ tx'[c] = tx[c] /\ gap'[c] = gap[c]
  BY <1>1 DEF AirTypeOK
<1>3. boots[b] \in Nat /\ MaxPackets \in Nat /\ Seed[b] \in Nat /\ NSeq \in Nat
  BY AirAssumption DEF AirTypeOK
<1>4. Counted'
  <2>1. Turn(b, 0, Seed[b])
    <3>1. 0 \in 0..(Seed[b] + 0) /\ Seed[b] + 0 = Seed[b] + 0 * NSeq
      BY <1>3
    <3> QED
      BY <3>1 DEF Turn
  <2>2. ASSUME NEW c \in Boards
        PROVE  /\ count'[c] <= MaxPackets
               /\ Turn(c, count'[c], sequence'[c])
               /\ \A i \in 1..Len(tx'[c]) : Turn(c, tx'[c][i].body.id, tx'[c][i].seq)
    <3>1. CASE c = b
      <4>1. count'[b] <= MaxPackets /\ Turn(b, count'[b], sequence'[b])
        BY <1>2, <1>3, <2>1 DEF Counted
      <4>2. Len(tx'[b]) = 0
        BY <1>2
      <4>3. \A i \in 1..Len(tx'[b]) : FALSE
        BY <4>2
      <4> QED
        BY <3>1, <4>1, <4>3
    <3>2. CASE c # b
      BY <1>2, <3>2 DEF Counted
    <3> QED
      BY <3>1, <3>2
  <2>3. \A f \in held' : f.body.from \in Boards => Turn(f.body.from, f.body.id, f.seq)
    BY <1>1 DEF Counted
  <2> QED
    BY <2>2, <2>3 DEF Counted, Turn
<1>5. Marked'
  <2> SUFFICES ASSUME NEW c \in Boards
               PROVE  /\ Len(tx'[c]) = 2 => tx'[c][1].split
                      /\ \A i \in 1..Len(tx'[c]) : tx'[c][i].body.half = 2 => tx'[c][i].split
    BY DEF Marked
  <2>1. CASE c = b
    <3>1. Len(tx'[b]) = 0
      BY <1>2
    <3>2. \A i \in 1..Len(tx'[b]) : FALSE
      BY <3>1
    <3> QED
      BY <2>1, <3>1, <3>2
  <2>2. CASE c # b
    BY <1>2, <2>2 DEF Marked
  <2> QED
    BY <2>1, <2>2
<1>6. InTime'
  <2> SUFFICES ASSUME NEW c \in Boards, SecondHalfDue(c)'
               PROVE  /\ gap'[c] <= Gap
                      /\ \A f \in held' :
                           f.body.from = c /\ f.body.boot = boots'[c] /\ f.body.id + 1 = count'[c]
                              => age' <= gap'[c]
    BY DEF InTime, SecondHalfDue
  <2>1. c # b /\ SecondHalfDue(c)
    BY <1>2 DEF SecondHalfDue
  <2> QED
    BY <1>1, <1>2, <2>1 DEF InTime
<1>7. LastInv'
  <2> SUFFICES ASSUME heard # <<>>, NEW p, p = heard[Len(heard)]
               PROVE  LastHeardOf(p)'
    BY <1>1 DEF LastInv, LastHeardOf
  <2>1. LastHeardOf(p) /\ p \in Part
    BY DEF LastInv, AirTypeOK
  <2>2. p.boot \in Nat
    BY <2>1 DEF Part
  <2>3. CASE p.from = b
    <3>1. p.boot <= boots[b]
      BY <2>1, <2>3 DEF LastHeardOf
    <3> QED
      BY <1>1, <1>2, <1>3, <2>1, <2>2, <2>3, <3>1 DEF LastHeardOf
  <2>4. CASE p.from # b
    BY <1>1, <1>2, <2>1, <2>4 DEF LastHeardOf
  <2> QED
    BY <2>3, <2>4
<1>8. JoinedAWholeTurnApart' /\ BothHalvesHeard' /\ HeldIsLastHeard'
  BY <1>1 DEF JoinedAWholeTurnApart, BothHalvesHeard, HeldIsLastHeard, SamePacket, SameBoot
<1> QED
  BY <1>4, <1>5, <1>6, <1>7, <1>8

(* A frame from a stock RNode may join any half that is held, but it is no *)
(* board's packet.                                                         *)
LEMMA StockMatch ==
    ASSUME AirInv, MatchInv, NEW n \in Nibble, NEW split \in BOOLEAN,
           NEW len \in {0, FramePayload}, StockFrame(n, split, len)
    PROVE  MatchInv'
<1> USE DEF AirInv, MatchInv
<1>1. PICK f : f = [seq |-> n, split |-> split,
                    body |-> [from |-> Stock, boot |-> 0, id |-> 0,
                              half |-> 1, len |-> len, of |-> len]]
  OBVIOUS
<1>2. Feed(f) /\ UNCHANGED <<sequence, count, boots, tx, gap>>
  BY <1>1, Zenon DEF StockFrame
<1>3. f \in Frame /\ f.body.from = Stock /\ Stock \notin Boards
  BY <1>1, AirAssumption DEF Frame, Part
<1>4. /\ held' = IF ~f.split \/ Joins(f) THEN {} ELSE {f}
      /\ heard' # <<>> /\ heard'[Len(heard')] = f.body
      /\ Len(heard') = 2 =>
           heard # <<>> /\ heard' = <<heard[Len(heard)], f.body>>
      /\ HeldIsLastHeard'
  BY <1>2, <1>3, FeedMore
<1>5. \A g \in held' : g.body.from \notin Boards
  BY <1>3, <1>4
<1>6. Counted' /\ Marked' /\ InTime'
  BY <1>2, <1>5 DEF Counted, Marked, InTime, SecondHalfDue, Turn
<1>7. LastInv'
  BY <1>3, <1>4 DEF LastInv, LastHeardOf
<1>8. JoinedAWholeTurnApart' /\ BothHalvesHeard'
  <2>1. Len(out') = 2 => out'[2] = f.body
    BY <1>2, <1>3, FeedFacts
  <2>2. Len(heard') = 2 => heard'[2] = f.body
    BY <1>4
  <2> QED
    BY <1>3, <2>1, <2>2 DEF JoinedAWholeTurnApart, BothHalvesHeard, SamePacket, SameBoot
<1> QED
  BY <1>4, <1>6, <1>7, <1>8

LEMMA ClearMatch ==
    ASSUME AirInv, MatchInv, Clear
    PROVE  MatchInv'
<1> USE DEF AirInv, MatchInv
<1>1. /\ held' = {} /\ out' = <<>> /\ heard' = <<>>
      /\ UNCHANGED <<sequence, count, boots, tx, gap>>
  BY DEF Clear
<1>2. Len(out') = 0 /\ Len(heard') = 0
  BY <1>1
<1>3. Counted' /\ Marked' /\ InTime'
  BY <1>1 DEF Counted, Marked, InTime, SecondHalfDue, Turn
<1>4. LastInv' /\ JoinedAWholeTurnApart' /\ BothHalvesHeard' /\ HeldIsLastHeard'
  BY <1>1, <1>2 DEF LastInv, JoinedAWholeTurnApart, BothHalvesHeard, HeldIsLastHeard
<1> QED
  BY <1>3, <1>4

(* A tick makes a held half as much older as the gap to its second. *)
LEMMA TickMatch ==
    ASSUME AirInv, MatchInv, AirTick
    PROVE  MatchInv'
<1> USE DEF AirInv, MatchInv
<1>1. /\ \A b \in Boards : SecondHalfDue(b) => gap[b] < Gap
      /\ age' = age + 1
      /\ gap' = [b \in Boards |-> IF SecondHalfDue(b) THEN gap[b] + 1 ELSE gap[b]]
      /\ UNCHANGED <<sequence, count, boots, tx, held, out, heard, swallowed>>
  BY DEF AirTick
<1>2. Counted' /\ Marked'
  BY <1>1 DEF Counted, Marked, Turn
<1>3. InTime'
  <2> SUFFICES ASSUME NEW c \in Boards, SecondHalfDue(c)
               PROVE  /\ gap'[c] <= Gap
                      /\ \A f \in held :
                           f.body.from = c /\ f.body.boot = boots[c] /\ f.body.id + 1 = count[c]
                              => age' <= gap'[c]
    BY <1>1 DEF InTime, SecondHalfDue
  <2>1. gap'[c] = gap[c] + 1 /\ gap[c] < Gap /\ age' = age + 1
    BY <1>1
  <2>2. gap[c] \in Nat /\ Gap \in Nat /\ age \in Nat
    BY AirAssumption DEF AirTypeOK
  <2>3. \A f \in held :
           f.body.from = c /\ f.body.boot = boots[c] /\ f.body.id + 1 = count[c]
              => age <= gap[c]
    BY DEF InTime
  <2> QED
    BY <2>1, <2>2, <2>3
<1>4. LastInv' /\ JoinedAWholeTurnApart' /\ BothHalvesHeard' /\ HeldIsLastHeard'
  BY <1>1 DEF LastInv, LastHeardOf, JoinedAWholeTurnApart, BothHalvesHeard,
              HeldIsLastHeard, SamePacket, SameBoot
<1> QED
  BY <1>2, <1>3, <1>4

LEMMA InitMatch == AirInit => MatchInv
<1> SUFFICES ASSUME AirInit PROVE MatchInv
  OBVIOUS
<1>1. /\ sequence = Seed /\ held = {} /\ out = <<>> /\ heard = <<>>
      /\ \A b \in Boards : tx[b] = <<>> /\ count[b] = 0
  BY DEF AirInit
<1>2. \A b \in Boards : Len(tx[b]) = 0
  BY <1>1
<1>3. Counted
  <2>1. ASSUME NEW b \in Boards
        PROVE  count[b] <= MaxPackets /\ Turn(b, count[b], sequence[b])
    <3>1. Seed[b] \in Nat /\ NSeq \in Nat /\ MaxPackets \in Nat
      BY AirAssumption
    <3>2. 0 \in 0..(Seed[b] + 0) /\ Seed[b] + 0 = Seed[b] + 0 * NSeq
      BY <3>1
    <3> QED
      BY <1>1, <3>1, <3>2 DEF Turn
  <2>2. \A b \in Boards : \A i \in 1..Len(tx[b]) : FALSE
    BY <1>2
  <2> QED
    BY <1>1, <2>1, <2>2 DEF Counted
<1>4. Marked /\ InTime
  <2>1. \A b \in Boards : \A i \in 1..Len(tx[b]) : FALSE
    BY <1>2
  <2> QED
    BY <1>1, <1>2, <2>1 DEF Marked, InTime, SecondHalfDue
<1>5. LastInv /\ JoinedAWholeTurnApart /\ BothHalvesHeard /\ HeldIsLastHeard
  <2>1. Len(out) = 0 /\ Len(heard) = 0
    BY <1>1
  <2> QED
    BY <1>1, <2>1 DEF LastInv, JoinedAWholeTurnApart, BothHalvesHeard, HeldIsLastHeard
<1> QED
  BY <1>3, <1>4, <1>5 DEF MatchInv

LEMMA NextMatch ==
    ASSUME AirInv, MatchInv, [AirNext]_airVars
    PROVE  MatchInv'
<1>1. CASE UNCHANGED airVars
  BY <1>1 DEF airVars, MatchInv, Counted, Marked, InTime, SecondHalfDue, LastInv, LastHeardOf,
              JoinedAWholeTurnApart, BothHalvesHeard, HeldIsLastHeard, SamePacket,
              SameBoot, Turn
<1> QED
  BY <1>1, OfferMatch, HeardMatch, LostMatch, GiveUpRebootMatch, StockMatch, ClearMatch,
     TickMatch DEF AirNext

(* For every number of boards, every size of the nibble, every age limit   *)
(* the gap between two halves keeps within and every loss pattern: a       *)
(* packet whose halves are heard one after the other is handed up whole    *)
(* unless its first was taken for another's second; two packets of one     *)
(* boot that are joined are whole turns of the nibble apart, in the order  *)
(* they were sent; and what is held is the last frame heard.               *)
THEOREM HalvesAreMatched == AirSpec => []HalvesMatch
<1>1. AirInit => AirInv /\ MatchInv
  BY AirInitInv, InitMatch
<1>2. AirInv /\ MatchInv /\ [AirNext]_airVars => (AirInv /\ MatchInv)'
  BY AirNextInv, NextMatch
<1>3. AirInv /\ MatchInv => HalvesMatch
  BY DEF AirInv, MatchInv, HalvesMatch
<1> QED
  BY <1>1, <1>2, <1>3, PTL DEF AirSpec
=============================================================================
