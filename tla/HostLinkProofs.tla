---------------------------- MODULE HostLinkProofs ---------------------------
(***************************************************************************)
(* Proofs about HostLink, for pipes, outboxes and frames of any size and   *)
(* any number of hosts and frames.                                         *)
(*                                                                         *)
(* All there is between a writer and a reader is a line: what the reader   *)
(* was fed last, and the bytes that are on their way to it.  On a line a   *)
(* byte comes after the one that was written before it, or a FEND comes    *)
(* after a byte whose frame was cut short; and the frames of a line are in *)
(* their order.  Every action adds a whole frame to the end of a line, has *)
(* the reader take some of its beginning, drops some of its beginning, or  *)
(* cuts off its end.                                                       *)
(***************************************************************************)
EXTENDS HostLink, TLAPS, SequenceTheorems, FiniteSetTheorems, WellFoundedInduction

USE LinkAssumption

Pair == Nat \X Nat
State == {"idle", "command", "payload", "escaped", "poisoned"}
Reader == [state : State, bytes : Seq(Pair)]

\* A byte of the first n frames, or a FEND
Wire(n, b) == b = FEND \/ (b[1] \in 1..n /\ b[2] \in 1..Len(Body(b[1])))

\* b can come after a, where the frames in `cut` may end early.
After(a, b, cut) ==
    IF b = FEND THEN a = FEND \/ a[2] = Len(Body(a[1])) \/ a[1] \in cut
    ELSE IF b[2] = 1 THEN a = FEND ELSE a = <<b[1], b[2] - 1>>

\* Once a frame is over, what comes is of later ones.
InOrder(z) ==
    \A i, j, k \in 1..Len(z) :
        i < j /\ j < k /\ z[i] # FEND /\ z[j] = FEND /\ z[k] # FEND => z[i][1] < z[k][1]

Line(z, cut, n) ==
    /\ z \in Seq(Pair) /\ Len(z) > 0 /\ \A i \in 1..Len(z) : Wire(n, z[i])
    /\ \A i \in 1..(Len(z) - 1) : After(z[i], z[i + 1], cut)
    /\ After(z[Len(z)], FEND, cut)
    /\ InOrder(z)

\* s has the bytes a reader keeps of the first k of frame f.
Holds(s, f, k) ==
    /\ {s[i] : i \in 1..Len(s)} = {<<f, i>> : i \in Kept(f, k)}
    /\ Len(s) = Cardinality(Kept(f, k))
    /\ \A i, j \in 1..Len(s) : i < j => s[i][2] < s[j][2]

\* Where a reader is that was fed b last
Stands(d, b) ==
    \/ d.state \in {"idle", "poisoned"}
    \/ d.state = "command" /\ d.bytes = <<>> /\ b = FEND
    \/ /\ b # FEND /\ Holds(d.bytes, b[1], b[2])
       /\ d.state = IF Body(b[1])[b[2]] = "fesc" THEN "escaped" ELSE "payload"

\* s is a frame that ended with b.
Frame(s, b, cut) ==
    b # FEND /\ Holds(s, b[1], b[2]) /\ (b[2] = Len(Body(b[1])) \/ b[1] \in cut)

\* The frames in s were over before z.
Passed(s, z) ==
    \A i \in 1..Len(s) : \A k \in 1..Len(z) : z[k] # FEND => s[i][1][1] < z[k][1]

Owned(z, owner, t) == \A i \in 1..Len(z) : z[i] # FEND => owner[z[i][1]] = t

\* The line z that begins where d stands, and its frames those of t
InGood(z, d, cut, n, owner, t) ==
    \E b \in Pair : /\ Stands(d, b)
                    /\ Line(<<b>> \o z, cut, n)
                    /\ Owned(<<b>> \o z, owner, t)

\* The same for a reader that may not be there, and has read s
OutGood(z, open, d, s, cut, n) ==
    \E b \in Pair : /\ Line(<<b>> \o z, cut, n)
                    /\ open => Stands(d, b) /\ Passed(s, <<b>> \o z)

\* The frames in s are beginnings of t's frames, whole unless cut.
Heeded(s, cut, n, owner, t) ==
    \A i \in 1..Len(s) :
        \E f \in 1..n : /\ BeginningOf(s[i], f) /\ owner[f] = t
                        /\ WholeFrame(s[i], f) \/ f \in cut

\* And here of the board's, in their order.
Told(s, cut, n) ==
    \A i \in 1..Len(s) :
        \E f \in 1..n :
            /\ BeginningOf(s[i], f)
            /\ WholeFrame(s[i], f) \/ f \in cut
            /\ \A j \in 1..(i - 1) : s[j][1][1] < f

-----------------------------------------------------------------------------
(* The invariant *)

\* Only the phone's way out has a pipe.
Notifying(t) == IF t = "ble" THEN notifying ELSE <<>>
Piped(t) == IF t = "ble" THEN outp ELSE <<>>

InLine(t) == (inp[t] \o hand[t]) \o typing[t]
OutLine(t) == (Notifying(t) \o Piped(t)) \o outbox[t]

InInv(t) == InGood(InLine(t), dec[t], broken, nin, fromOf, t)
OutInv(t) == OutGood(OutLine(t), there[t], hdec[t], shown[t], torn, nout)

\* What is left of a frame being written is of the newest from there.
NewestOf(t, f) == f \in 1..nin /\ fromOf[f] = t /\ \A g \in (f + 1)..nin : fromOf[g] # t

TypingInv(t) == \A i \in 1..Len(typing[t]) : typing[t][i] # FEND => NewestOf(t, typing[t][i][1])

Control ==
    /\ phase \in {"read", "work", "flush", "push"} /\ attended \in BOOLEAN
    /\ connected \in BOOLEAN /\ there \in [Transport -> BOOLEAN]

InTypes ==
    /\ inp \in [Transport -> Seq(Pair)] /\ hand \in [Transport -> Seq(Pair)]
    /\ typing \in [Transport -> Seq(Pair)]
    /\ dec \in [Transport -> Reader] /\ got \in [Transport -> Seq(Seq(Pair))]
    /\ nin \in 0..MaxIn /\ broken \subseteq 1..MaxIn /\ fromOf \in [1..MaxIn -> Transport]
    /\ \A t \in Transport : /\ Len(inp[t]) <= PipeIn /\ Len(hand[t]) <= Piece
                            /\ Len(dec[t].bytes) <= Buffer + 1

OutTypes ==
    /\ outbox \in [Transport -> Seq(Pair)] /\ outp \in Seq(Pair) /\ notifying \in Seq(Pair)
    /\ hdec \in [Transport -> Reader] /\ shown \in [Transport -> Seq(Seq(Pair))]
    /\ nout \in 0..MaxOut /\ torn \subseteq 1..MaxOut
    /\ Len(outp) <= PipeOut /\ \A t \in Transport : Len(outbox[t]) <= Room

Inward ==
    /\ InTypes
    /\ \A t \in Transport :
          InInv(t) /\ TypingInv(t) /\ Heeded(got[t], broken, nin, fromOf, t)

Outward ==
    /\ OutTypes
    /\ \A t \in Transport : OutInv(t) /\ Told(shown[t], torn, nout)

LinkInv == Control /\ Inward /\ Outward

-----------------------------------------------------------------------------
(* Least elements, and induction up to a number *)

LEMMA FirstThere ==
    ASSUME NEW S, S \subseteq Nat, S # {}
    PROVE  \E i \in S : \A j \in S : i <= j
<1> DEFINE R == OpToRel(<, Nat)
<1>1. IsWellFoundedOn(R, Nat)
  BY NatLessThanWellFounded
<1>2. \A x, y \in Nat : y < x => <<y, x>> \in R
  BY DEF OpToRel
<1> HIDE DEF R
<1>3. PICK i \in S : \A j \in S : <<j, i>> \notin R
  BY <1>1, WFMin
<1>4. ASSUME NEW j \in S PROVE i <= j
  <2>1. i \in Nat /\ j \in Nat /\ ~(j < i)
    BY <1>2, <1>3
  <2> QED
    BY <2>1
<1> QED
  BY <1>4

LEMMA UpTo ==
    ASSUME NEW n \in Nat, NEW S, 0 \in S, \A i \in 0..(n - 1) : i \in S => i + 1 \in S
    PROVE  \A i \in 0..n : i \in S
<1> DEFINE T == {i \in 0..n : i \notin S}
<1>1. SUFFICES ASSUME T # {} PROVE FALSE
  OBVIOUS
<1>2. T \subseteq Nat
  OBVIOUS
<1> HIDE DEF T
<1>3. PICK m \in T : \A j \in T : m <= j
  BY <1>1, <1>2, FirstThere
<1>4. m \in 0..n /\ m # 0 /\ m \notin S
  BY <1>3 DEF T
<1>5. m - 1 \in 0..(n - 1) /\ m - 1 \notin T
  BY <1>3, <1>4 DEF T
<1>6. m - 1 \in S /\ (m - 1) + 1 = m
  BY <1>4, <1>5 DEF T
<1> QED
  BY <1>4, <1>5, <1>6

(* A recursive function whose steps stay in a set exists. *)
Runs(n, X, d, step) ==
    {g \in [0..n -> X] : g[0] = d /\ \A i \in 1..n : g[i] = step[i][g[i - 1]]}

LEMMA RunExists ==
    ASSUME NEW n \in Nat, NEW X, NEW d \in X, NEW step \in [1..n -> [X -> X]]
    PROVE  Runs(n, X, d, step) # {}
<1> DEFINE S == {m \in 0..n : Runs(m, X, d, step) # {}}
<1>1. 0 \in S
  <2> DEFINE g == [i \in 0..0 |-> d]
  <2>1. g \in [0..0 -> X] /\ g[0] = d
    OBVIOUS
  <2>2. \A i \in 1..0 : FALSE
    OBVIOUS
  <2> HIDE DEF g
  <2>3. g \in Runs(0, X, d, step)
    BY <2>1, <2>2 DEF Runs
  <2> QED
    BY <2>3
<1>2. ASSUME NEW m \in 0..(n - 1), m \in S PROVE m + 1 \in S
  <2>1. PICK g \in [0..m -> X] : g[0] = d /\ \A i \in 1..m : g[i] = step[i][g[i - 1]]
    BY <1>2 DEF Runs
  <2> DEFINE last == step[m + 1][g[m]]
             h == [i \in 0..(m + 1) |-> IF i = m + 1 THEN last ELSE g[i]]
  <2>2. g[m] \in X /\ m + 1 \in 1..n /\ last \in X
    OBVIOUS
  <2> HIDE DEF last
  <2>3. h \in [0..(m + 1) -> X] /\ h[0] = d
    BY <2>1, <2>2
  <2>4. ASSUME NEW i \in 1..(m + 1) PROVE h[i] = step[i][h[i - 1]]
    <3>1. CASE i = m + 1
      <4>1. h[i] = last /\ h[i - 1] = g[m] /\ i - 1 = m
        BY <3>1
      <4> HIDE DEF h
      <4> QED
        BY <3>1, <4>1 DEF last
    <3>2. CASE i # m + 1
      <4>1. i \in 1..m /\ h[i] = g[i] /\ h[i - 1] = g[i - 1]
        BY <3>2
      <4> HIDE DEF h
      <4> QED
        BY <2>1, <4>1
    <3> QED
      BY <3>1, <3>2
  <2> HIDE DEF h
  <2>5. h \in Runs(m + 1, X, d, step)
    BY <2>3, <2>4 DEF Runs
  <2>6. m + 1 \in 0..n
    OBVIOUS
  <2> QED
    BY <2>5, <2>6
<1>3. \A i \in 0..(n - 1) : i \in S => i + 1 \in S
  BY <1>2
<1> HIDE DEF S
<1>4. \A i \in 0..n : i \in S
  BY <1>1, <1>3, UpTo
<1>5. n \in S
  BY <1>4
<1> QED
  BY <1>5 DEF S

-----------------------------------------------------------------------------
(* What a decoder makes of a run of bytes *)

LEMMA FedType ==
    ASSUME NEW d \in Reader, NEW b \in Pair, NEW room \in Nat
    PROVE  /\ Fed(d, b, room) \in Reader /\ d.bytes \in Seq(Pair)
           /\ Len(d.bytes) <= room + 1 => Len(Fed(d, b, room).bytes) <= room + 1
<1>1. d.bytes \in Seq(Pair) /\ d.state \in State
  BY DEF Reader
<1>2. /\ Append(d.bytes, b) \in Seq(Pair) /\ Len(Append(d.bytes, b)) = Len(d.bytes) + 1
      /\ Len(d.bytes) \in Nat /\ <<>> \in Seq(Pair) /\ Len(<<>>) = 0
  BY <1>1
<1>3. \A s \in State, q \in Seq(Pair) :
        [state |-> s, bytes |-> q] \in Reader /\ [state |-> s, bytes |-> q].bytes = q
  BY DEF Reader
<1>4. \E s \in State, q \in Seq(Pair) :
        /\ Fed(d, b, room) = [state |-> s, bytes |-> q]
        /\ Len(d.bytes) <= room + 1 => Len(q) <= room + 1
  <2>1. /\ "command" \in State /\ "poisoned" \in State /\ "payload" \in State
        /\ "escaped" \in State
    BY DEF State
  <2>2. \E s \in State, q \in Seq(Pair) :
          /\ Push(d, b, room) = [state |-> s, bytes |-> q]
          /\ Len(d.bytes) <= room + 1 => Len(q) <= room + 1
    <3>1. CASE Len(d.bytes) = room + 1
      <4>1. Push(d, b, room) = [state |-> "poisoned", bytes |-> <<>>]
        BY <3>1 DEF Push
      <4>2. Len(<<>>) <= room + 1
        BY <1>2
      <4> QED
        BY <1>2, <2>1, <4>1, <4>2
    <3>2. CASE Len(d.bytes) # room + 1
      <4>1. Len(d.bytes) <= room + 1 => Len(Append(d.bytes, b)) <= room + 1
        BY <1>2, <3>2
      <4> QED
        BY <1>2, <2>1, <3>2, <4>1 DEF Push
    <3> QED
      BY <3>1, <3>2
  <2>3. d = [state |-> d.state, bytes |-> d.bytes]
        /\ [d EXCEPT !.state = "escaped"] = [state |-> "escaped", bytes |-> d.bytes]
    BY DEF Reader
  <2>4. CASE b = FEND
    <3>1. Fed(d, b, room) = [state |-> "command", bytes |-> <<>>]
      BY <2>4 DEF Fed
    <3>2. Len(<<>>) <= room + 1
      BY <1>2
    <3> QED
      BY <1>2, <2>1, <3>1, <3>2
  <2>5. CASE b # FEND /\ d.state \in {"idle", "poisoned"}
    <3>1. Fed(d, b, room) = d
      BY <2>5 DEF Fed
    <3> QED
      BY <1>1, <2>3, <3>1
  <2>6. CASE b # FEND /\ d.state \notin {"idle", "poisoned"}
    <3>1. \/ Fed(d, b, room) = [state |-> "poisoned", bytes |-> <<>>]
          \/ Fed(d, b, room) = [d EXCEPT !.state = "escaped"]
          \/ Fed(d, b, room) = Push(d, b, room)
      BY <2>6 DEF Fed
    <3> QED
      <4>1. Len(<<>>) <= room + 1
        BY <1>2
      <4>2. CASE Fed(d, b, room) = [state |-> "poisoned", bytes |-> <<>>]
        BY <1>2, <2>1, <4>1, <4>2
      <4>3. CASE Fed(d, b, room) = [d EXCEPT !.state = "escaped"]
        BY <1>1, <2>1, <2>3, <4>3
      <4>4. CASE Fed(d, b, room) = Push(d, b, room)
        BY <2>2, <4>4
      <4> QED
        BY <3>1, <4>2, <4>3, <4>4
  <2> QED
    BY <2>4, <2>5, <2>6
<1> QED
  BY <1>1, <1>3, <1>4

\* g and h are what Reads computes of the decoder and the frames, byte by byte.
ReadingOf(d, bytes, room, g, h) ==
    /\ g[0] = d /\ h[0] = <<>>
    /\ \A i \in 1..Len(bytes) :
         /\ g[i] = Fed(g[i - 1], bytes[i], room)
         /\ h[i] = IF Closes(g[i - 1], bytes[i])
                   THEN Append(h[i - 1], g[i - 1].bytes) ELSE h[i - 1]
    /\ Reads(d, bytes, room) = [dec |-> g[Len(bytes)], frames |-> h[Len(bytes)]]

LEMMA ReadsRun ==
    ASSUME NEW d \in Reader, NEW bytes \in Seq(Pair), NEW room \in Nat
    PROVE  \E g \in [0..Len(bytes) -> Reader], h \in [0..Len(bytes) -> Seq(Seq(Pair))] :
               ReadingOf(d, bytes, room, g, h)
<1> DEFINE n == Len(bytes)
           G(g) == g = [i \in 0..n |-> IF i = 0 THEN d ELSE Fed(g[i-1], bytes[i], room)]
           g1 == CHOOSE g : G(g)
           H(h) == h = [i \in 0..n |->
                          IF i = 0 THEN <<>>
                          ELSE IF Closes(g1[i-1], bytes[i])
                               THEN Append(h[i-1], g1[i-1].bytes) ELSE h[i-1]]
           h1 == CHOOSE h : H(h)
<1>1. Reads(d, bytes, room) = [dec |-> g1[n], frames |-> h1[n]]
  BY DEF Reads
<1>2. n \in Nat /\ \A i \in 1..n : bytes[i] \in Pair
  OBVIOUS
<1>3. g1 \in [0..n -> Reader] /\ g1[0] = d
      /\ \A i \in 1..n : g1[i] = Fed(g1[i - 1], bytes[i], room)
  <2> DEFINE step == [i \in 1..n |-> [r \in Reader |-> Fed(r, bytes[i], room)]]
  <2>1. \A i \in 1..n, r \in Reader : Fed(r, bytes[i], room) \in Reader
    BY <1>2, FedType
  <2>2. step \in [1..n -> [Reader -> Reader]]
    BY <2>1
  <2>3. \A i \in 1..n, r \in Reader : step[i][r] = Fed(r, bytes[i], room)
    OBVIOUS
  <2> HIDE DEF step, n
  <2>4. PICK g \in [0..n -> Reader] :
            g[0] = d /\ \A i \in 1..n : g[i] = step[i][g[i - 1]]
    <3>1. Runs(n, Reader, d, step) # {}
      BY <1>2, <2>2, RunExists
    <3> QED
      BY <3>1 DEF Runs
  <2>5. \A i \in 1..n : i - 1 \in 0..n /\ i \in 0..n
    BY <1>2
  <2>6. \A i \in 1..n : g[i] = Fed(g[i - 1], bytes[i], room)
    BY <2>3, <2>4, <2>5
  <2> DEFINE w == [i \in 0..n |-> IF i = 0 THEN d ELSE Fed(g[i-1], bytes[i], room)]
  <2>7. \A i \in 0..n : g[i] = w[i]
    BY <1>2, <2>4, <2>6
  <2>8. G(g)
    BY <2>4, <2>7
  <2>9. G(g1)
    BY <2>8
  <2> HIDE DEF g1
  <2>10. /\ DOMAIN g1 = 0..n /\ g1[0] = d
         /\ \A i \in 1..n : g1[i] = Fed(g1[i - 1], bytes[i], room)
    BY <1>2, <2>9
  <2> DEFINE S == {i \in 0..n : g1[i] \in Reader}
  <2>11. 0 \in S
    BY <1>2, <2>10
  <2>12. \A i \in 0..(n - 1) : i \in S => i + 1 \in S
    <3> TAKE i \in 0..(n - 1)
    <3> HAVE i \in S
    <3>1. i + 1 \in 1..n /\ (i + 1) - 1 = i /\ i + 1 \in 0..n
      BY <1>2
    <3>2. g1[i + 1] = Fed(g1[i], bytes[i + 1], room)
      BY <2>10, <3>1
    <3>3. g1[i] \in Reader /\ bytes[i + 1] \in Pair
      BY <1>2, <3>1
    <3>4. g1[i + 1] \in Reader
      BY <3>2, <3>3, FedType
    <3> QED
      BY <3>1, <3>4
  <2> HIDE DEF S
  <2>13. \A i \in 0..n : i \in S
    BY <1>2, <2>11, <2>12, UpTo
  <2>14. \A i \in 0..n : g1[i] \in Reader
    BY <2>13 DEF S
  <2>15. g1 = [i \in 0..n |-> IF i = 0 THEN d ELSE Fed(g1[i-1], bytes[i], room)]
    BY <2>9
  <2>16. g1 \in [0..n -> Reader]
    BY <2>14, <2>15
  <2> QED
    BY <2>10, <2>16
<1> HIDE DEF g1
<1>4. h1 \in [0..n -> Seq(Seq(Pair))] /\ h1[0] = <<>>
      /\ \A i \in 1..n :
            h1[i] = IF Closes(g1[i - 1], bytes[i])
                    THEN Append(h1[i - 1], g1[i - 1].bytes) ELSE h1[i - 1]
  <2> DEFINE F == Seq(Seq(Pair))
             Had(i, v) == IF Closes(g1[i - 1], bytes[i]) THEN Append(v, g1[i - 1].bytes) ELSE v
             step == [i \in 1..n |-> [v \in F |-> Had(i, v)]]
  <2>1. \A i \in 1..n, v \in F : Had(i, v) \in F
    <3> TAKE i \in 1..n, v \in F
    <3>1. i - 1 \in 0..n
      BY <1>2
    <3>2. g1[i - 1].bytes \in Seq(Pair)
      BY <1>3, <3>1 DEF Reader
    <3>3. Append(v, g1[i - 1].bytes) \in F
      BY <3>2
    <3> QED
      BY <3>3
  <2> HIDE DEF Had
  <2>2. step \in [1..n -> [F -> F]]
    BY <2>1
  <2>3. \A i \in 1..n, v \in F : step[i][v] = Had(i, v)
    OBVIOUS
  <2>4. <<>> \in F
    OBVIOUS
  <2> HIDE DEF step, n, F
  <2>5. PICK g \in [0..n -> F] :
            g[0] = <<>> /\ \A i \in 1..n : g[i] = step[i][g[i - 1]]
    <3>1. Runs(n, F, <<>>, step) # {}
      BY <1>2, <2>2, <2>4, RunExists
    <3> QED
      BY <3>1 DEF Runs
  <2>6. \A i \in 1..n : i - 1 \in 0..n /\ i \in 0..n
    BY <1>2
  <2>7. \A i \in 1..n : g[i] = Had(i, g[i - 1])
    BY <2>3, <2>5, <2>6
  <2> DEFINE w == [i \in 0..n |-> IF i = 0 THEN <<>> ELSE Had(i, g[i - 1])]
  <2>8. \A i \in 0..n : g[i] = w[i]
    BY <1>2, <2>5, <2>7, SMTT(30)
  <2>9. g = w
    BY <2>5, <2>8
  <2>10. H(g)
    BY <2>9, Zenon DEF Had
  <2>11. H(h1)
    BY <2>10, Zenon
  <2> HIDE DEF h1
  <2>12. h1 = [i \in 0..n |-> IF i = 0 THEN <<>> ELSE Had(i, h1[i - 1])]
    BY <2>11 DEF Had
  <2>13. /\ DOMAIN h1 = 0..n /\ h1[0] = <<>>
         /\ \A i \in 1..n : h1[i] = Had(i, h1[i - 1])
    BY <1>2, <2>12
  <2> DEFINE S == {i \in 0..n : h1[i] \in F}
  <2>14. 0 \in S
    BY <1>2, <2>4, <2>13
  <2>15. \A i \in 0..(n - 1) : i \in S => i + 1 \in S
    <3> TAKE i \in 0..(n - 1)
    <3> HAVE i \in S
    <3>1. i + 1 \in 1..n /\ (i + 1) - 1 = i /\ i + 1 \in 0..n
      BY <1>2
    <3>2. h1[i + 1] = Had(i + 1, h1[i])
      BY <2>13, <3>1
    <3>3. h1[i] \in F
      OBVIOUS
    <3>4. h1[i + 1] \in F
      BY <2>1, <3>1, <3>2, <3>3
    <3> QED
      BY <3>1, <3>4
  <2> HIDE DEF S
  <2>16. \A i \in 0..n : i \in S
    BY <1>2, <2>14, <2>15, UpTo
  <2>17. \A i \in 0..n : h1[i] \in F
    BY <2>16 DEF S
  <2>18. h1 \in [0..n -> F]
    BY <2>12, <2>17
  <2> QED
    BY <2>13, <2>18 DEF Had, F
<1> HIDE DEF h1
<1>5. ReadingOf(d, bytes, room, g1, h1)
  BY <1>1, <1>3, <1>4 DEF ReadingOf
<1> QED
  BY <1>3, <1>4, <1>5

-----------------------------------------------------------------------------
(* Frames *)

LEMMA BodyFacts ==
    ASSUME NEW f \in Nat
    PROVE  Body(f) \in Seq(ByteKind) /\ Len(Body(f)) \in Nat \ {0} /\ Body(f)[1] = "plain"
<1>1. Len(Bodies) \in Nat /\ Len(Bodies) > 0
  OBVIOUS
<1>2. f % Len(Bodies) \in 0..(Len(Bodies) - 1)
  BY <1>1
<1>3. 1 + (f % Len(Bodies)) \in 1..Len(Bodies)
  BY <1>1, <1>2
<1> DEFINE b == 1 + (f % Len(Bodies))
<1> HIDE DEF b
<1>4. \A c \in 1..Len(Bodies) :
        Bodies[c] \in Seq(ByteKind) /\ Len(Bodies[c]) > 0 /\ Bodies[c][1] = "plain"
  OBVIOUS
<1>5. b \in 1..Len(Bodies) /\ Body(f) = Bodies[b]
  BY <1>3 DEF b, Body
<1>6. Body(f) \in Seq(ByteKind) /\ Len(Body(f)) > 0 /\ Body(f)[1] = "plain"
  BY <1>4, <1>5
<1> QED
  BY <1>6

LEMMA EncodeFacts ==
    ASSUME NEW f \in Nat
    PROVE  /\ Encode(f) \in Seq(Pair) /\ Len(Encode(f)) = Len(Body(f)) + 2
           /\ Encode(f)[1] = FEND /\ Encode(f)[Len(Body(f)) + 2] = FEND
           /\ \A i \in 1..Len(Body(f)) : Encode(f)[i + 1] = <<f, i>>
<1> DEFINE m == Len(Body(f))
           s == [i \in 1..m |-> <<f, i>>]
<1>1. m \in Nat
  BY BodyFacts
<1>2. FEND \in Pair /\ <<FEND>> \in Seq(Pair) /\ Len(<<FEND>>) = 1 /\ <<FEND>>[1] = FEND
  BY DEF FEND, Pair
<1>3. s \in Seq(Pair) /\ Len(s) = m /\ \A i \in 1..m : s[i] = <<f, i>>
  <2>1. \A i \in 1..m : <<f, i>> \in Pair
    BY <1>1 DEF Pair
  <2> HIDE DEF m
  <2> QED
    BY <1>1, <2>1
<1> HIDE DEF m, s
<1> DEFINE u == <<FEND>> \o s
<1>4. /\ u \in Seq(Pair) /\ Len(u) = m + 1
      /\ u[1] = FEND /\ \A i \in 1..m : u[i + 1] = <<f, i>>
  <2>1. /\ u \in Seq(Pair) /\ Len(u) = 1 + m
        /\ \A i \in 1..(1 + m) : u[i] = IF i <= 1 THEN <<FEND>>[i] ELSE s[i - 1]
    BY <1>2, <1>3, ConcatProperties
  <2> HIDE DEF u
  <2>2. \A i \in 1..m : i + 1 \in 1..(1 + m) /\ ~(i + 1 <= 1) /\ (i + 1) - 1 = i
    BY <1>1
  <2>3. 1 \in 1..(1 + m) /\ 1 + m = m + 1 /\ 1 <= 1
    BY <1>1
  <2>4. u[1] = FEND
    BY <1>2, <2>1, <2>3
  <2>5. \A i \in 1..m : u[i + 1] = <<f, i>>
    <3> TAKE i \in 1..m
    <3>1. u[i + 1] = s[(i + 1) - 1] /\ (i + 1) - 1 = i
      BY <2>1, <2>2
    <3> QED
      BY <1>3, <3>1
  <2> QED
    BY <2>1, <2>3, <2>4, <2>5
<1> HIDE DEF u
<1> DEFINE e == u \o <<FEND>>
<1>5. /\ e \in Seq(Pair) /\ Len(e) = m + 2
      /\ \A i \in 1..(m + 1) : e[i] = u[i]
      /\ e[m + 2] = FEND
  <2>1. /\ e \in Seq(Pair) /\ Len(e) = (m + 1) + 1
        /\ \A i \in 1..((m + 1) + 1) : e[i] = IF i <= m + 1 THEN u[i] ELSE <<FEND>>[i - (m + 1)]
    BY <1>2, <1>4, ConcatProperties
  <2> HIDE DEF e
  <2>2. m + 2 \in 1..((m + 1) + 1) /\ ~(m + 2 <= m + 1) /\ (m + 2) - (m + 1) = 1
    BY <1>1
  <2>3. \A i \in 1..(m + 1) : i \in 1..((m + 1) + 1) /\ i <= m + 1
    BY <1>1
  <2> QED
    BY <1>1, <1>2, <2>1, <2>2, <2>3
<1>6. Encode(f) = e
  BY DEF Encode, e, u, s, m
<1> HIDE DEF e
<1>7. 1 \in 1..(m + 1) /\ \A i \in 1..m : i + 1 \in 1..(m + 1)
  BY <1>1
<1> QED
  BY <1>4, <1>5, <1>6, <1>7 DEF m

LEMMA KeptFacts ==
    ASSUME NEW f \in Nat, NEW k \in 1..Len(Body(f))
    PROVE  /\ Kept(f, k) \subseteq 1..k /\ 1 \in Kept(f, k)
           /\ IsFiniteSet(Kept(f, k)) /\ Cardinality(Kept(f, k)) \in Nat \ {0}
           /\ Kept(f, 1) = {1} /\ Cardinality(Kept(f, 1)) = 1
<1>1. Len(Body(f)) \in Nat /\ Body(f)[1] = "plain"
  BY BodyFacts
<1>2. Kept(f, k) \subseteq 1..k /\ 1 \in Kept(f, k)
  BY <1>1 DEF Kept
<1>3. IsFiniteSet(1..k)
  BY <1>1, FS_Interval
<1>4. IsFiniteSet(Kept(f, k))
  BY <1>2, <1>3, FS_Subset
<1>5. Cardinality(Kept(f, k)) \in Nat /\ Cardinality(Kept(f, k)) # 0
  BY <1>2, <1>4, FS_CardinalityType, FS_EmptySet
<1>6. Kept(f, 1) = {1}
  BY <1>1 DEF Kept
<1>7. Cardinality(Kept(f, 1)) = 1
  BY <1>6, FS_Singleton
<1> QED
  BY <1>2, <1>4, <1>5, <1>6, <1>7

LEMMA KeptMore ==
    ASSUME NEW f \in Nat, NEW k \in 1..Len(Body(f)), k + 1 <= Len(Body(f))
    PROVE  /\ Body(f)[k + 1] = "fesc" => Kept(f, k + 1) = Kept(f, k)
           /\ Body(f)[k + 1] # "fesc" =>
                /\ Kept(f, k + 1) = Kept(f, k) \cup {k + 1}
                /\ Cardinality(Kept(f, k + 1)) = Cardinality(Kept(f, k)) + 1
<1>1. Len(Body(f)) \in Nat /\ k \in Nat
  BY BodyFacts
<1>2. \A i \in 1..(k + 1) : i \in 1..k \/ i = k + 1
  BY <1>1
<1>3. \A i \in 1..k : i \in 1..(k + 1)
  BY <1>1
<1>3a. k + 1 \in 1..(k + 1) /\ k + 1 \notin 1..k
  BY <1>1
<1>4. Body(f)[k + 1] = "fesc" => Kept(f, k + 1) = Kept(f, k)
  BY <1>2, <1>3, <1>3a DEF Kept
<1>5. Body(f)[k + 1] # "fesc" => Kept(f, k + 1) = Kept(f, k) \cup {k + 1}
  BY <1>2, <1>3, <1>3a DEF Kept
<1>6. IsFiniteSet(Kept(f, k)) /\ k + 1 \notin Kept(f, k)
  BY <1>3a, KeptFacts
<1>7. Cardinality(Kept(f, k) \cup {k + 1}) = Cardinality(Kept(f, k)) + 1
  BY <1>6, FS_AddElement
<1> QED
  BY <1>4, <1>5, <1>7

LEMMA HoldsFacts ==
    ASSUME NEW s \in Seq(Pair), NEW f \in Nat, NEW k \in 1..Len(Body(f)), Holds(s, f, k)
    PROVE  Len(s) >= 1 /\ s[1][1] = f /\ \A i \in 1..Len(s) : s[i][1] = f /\ s[i][2] \in 1..k
<1>1. Len(s) >= 1
  BY KeptFacts DEF Holds
<1>2. \A i \in 1..Len(s) : s[i] \in {<<f, j>> : j \in Kept(f, k)}
  BY DEF Holds
<1>3. \A i \in 1..Len(s) : s[i][1] = f /\ s[i][2] \in Kept(f, k)
  BY <1>2
<1>4. Kept(f, k) \subseteq 1..k
  BY KeptFacts
<1> QED
  BY <1>1, <1>3, <1>4

LEMMA HoldsFirst ==
    ASSUME NEW f \in Nat
    PROVE  Holds(<< <<f, 1>> >>, f, 1)
<1> DEFINE s == << <<f, 1>> >>
<1>1. Len(s) = 1 /\ s[1] = <<f, 1>>
  OBVIOUS
<1>2. 1 \in 1..Len(Body(f))
  BY BodyFacts
<1>3. Kept(f, 1) = {1} /\ Cardinality(Kept(f, 1)) = 1
  BY <1>2, KeptFacts
<1> HIDE DEF s
<1>4. {s[i] : i \in 1..Len(s)} = {<<f, i>> : i \in Kept(f, 1)}
  <2>1. 1..Len(s) = {1}
    BY <1>1
  <2>2. {s[i] : i \in {1}} = {<<f, i>> : i \in {1}}
    BY <1>1
  <2> QED
    BY <1>3, <2>1, <2>2
<1>5. \A i, j \in 1..Len(s) : ~(i < j)
  BY <1>1
<1> QED
  BY <1>1, <1>3, <1>4, <1>5 DEF Holds, s

LEMMA HoldsMore ==
    ASSUME NEW s \in Seq(Pair), NEW f \in Nat, NEW k \in 1..Len(Body(f)),
           k + 1 <= Len(Body(f)), Holds(s, f, k)
    PROVE  /\ Body(f)[k + 1] = "fesc" => Holds(s, f, k + 1)
           /\ Body(f)[k + 1] # "fesc" => Holds(Append(s, <<f, k + 1>>), f, k + 1)
<1>1. Body(f)[k + 1] = "fesc" => Holds(s, f, k + 1)
  BY KeptMore DEF Holds
<1>2. ASSUME Body(f)[k + 1] # "fesc" PROVE Holds(Append(s, <<f, k + 1>>), f, k + 1)
  <2> DEFINE b == <<f, k + 1>>
             t == Append(s, b)
  <2>1. k \in Nat /\ b \in Pair /\ b[2] = k + 1
    <3>1. Len(Body(f)) \in Nat
      BY BodyFacts
    <3>2. k \in Nat /\ k + 1 \in Nat
      BY <3>1
    <3> QED
      BY <3>2 DEF Pair
  <2>2. /\ Kept(f, k + 1) = Kept(f, k) \cup {k + 1}
        /\ Cardinality(Kept(f, k + 1)) = Cardinality(Kept(f, k)) + 1
    BY <1>2, KeptMore
  <2>3. \A i \in 1..Len(s) : s[i][1] = f /\ s[i][2] \in 1..k
    BY HoldsFacts
  <2> HIDE DEF b
  <2>4. /\ t \in Seq(Pair) /\ Len(t) = Len(s) + 1 /\ Len(s) \in Nat
        /\ \A i \in 1..Len(s) : t[i] = s[i]
        /\ t[Len(s) + 1] = b
    BY <2>1, AppendProperties
  <2> HIDE DEF t
  <2>5. {t[i] : i \in 1..Len(t)} = {s[i] : i \in 1..Len(s)} \cup {b}
    <3>1. \A i \in 1..Len(t) : i \in 1..Len(s) \/ i = Len(s) + 1
      BY <2>4
    <3>2. \A i \in 1..Len(s) : i \in 1..Len(t)
      BY <2>4
    <3>3. Len(s) + 1 \in 1..Len(t)
      BY <2>4
    <3>4. \A i \in 1..Len(t) : t[i] \in {s[j] : j \in 1..Len(s)} \cup {b}
      BY <2>4, <3>1
    <3>5. \A i \in 1..Len(s) : s[i] \in {t[j] : j \in 1..Len(t)}
      BY <2>4, <3>2
    <3>6. b \in {t[j] : j \in 1..Len(t)}
      BY <2>4, <3>3
    <3> QED
      BY <3>4, <3>5, <3>6
  <2>6. {<<f, i>> : i \in Kept(f, k + 1)} = {<<f, i>> : i \in Kept(f, k)} \cup {b}
    BY <2>2 DEF b
  <2>7. {t[i] : i \in 1..Len(t)} = {<<f, i>> : i \in Kept(f, k + 1)}
    BY <2>5, <2>6 DEF Holds
  <2>8. Len(t) = Cardinality(Kept(f, k + 1))
    BY <2>2, <2>4 DEF Holds
  <2>9. ASSUME NEW i \in 1..Len(t), NEW j \in 1..Len(t), i < j PROVE t[i][2] < t[j][2]
    <3>0. i \in 1..(Len(s) + 1) /\ j \in 1..(Len(s) + 1)
      BY <2>4
    <3>1. i \in 1..Len(s) /\ t[i] = s[i]
      BY <2>4, <2>9, <3>0
    <3>2. CASE j = Len(s) + 1
      BY <2>1, <2>3, <2>4, <3>1, <3>2
    <3>3. CASE j # Len(s) + 1
      <4>1. j \in 1..Len(s) /\ t[j] = s[j]
        BY <2>4, <3>3
      <4> QED
        BY <2>9, <3>1, <4>1 DEF Holds
    <3> QED
      BY <3>2, <3>3
  <2> QED
    BY <2>7, <2>8, <2>9 DEF Holds, t, b
<1> QED
  BY <1>1, <1>2

(* A reader fed what comes next stands where it was fed last, and what it  *)
(* takes for a frame is one that is over.                                  *)
LEMMA FedStands ==
    ASSUME NEW d \in Reader, NEW x \in Pair, NEW b \in Pair, NEW room \in Nat,
           NEW cut, NEW n \in Nat,
           Wire(n, x), Wire(n, b), Stands(d, x), After(x, b, cut)
    PROVE  /\ Stands(Fed(d, b, room), b)
           /\ Closes(d, b) => Frame(d.bytes, x, cut)
<1>1. d.bytes \in Seq(Pair) /\ d.state \in State
  BY DEF Reader
<1>2. ASSUME Closes(d, b) PROVE Frame(d.bytes, x, cut)
  <2>1. b = FEND /\ d.state = "payload"
    BY <1>2 DEF Closes
  <2>2. x # FEND /\ Holds(d.bytes, x[1], x[2])
    BY <2>1 DEF Stands
  <2>3. x[2] = Len(Body(x[1])) \/ x[1] \in cut
    BY <2>1, <2>2 DEF After
  <2> QED
    BY <2>2, <2>3 DEF Frame
<1>3. CASE b = FEND
  <2>1. Fed(d, b, room) = [state |-> "command", bytes |-> <<>>]
    BY <1>3 DEF Fed
  <2>2. Stands([state |-> "command", bytes |-> <<>>], b)
    BY <1>3 DEF Stands
  <2> QED
    BY <1>2, <2>1, <2>2
<1>4. CASE b # FEND /\ d.state \in {"idle", "poisoned"}
  <2>1. Fed(d, b, room) = d
    BY <1>4 DEF Fed
  <2>2. Stands(d, b)
    BY <1>4 DEF Stands
  <2> QED
    BY <1>2, <2>1, <2>2
<1>5. CASE b # FEND /\ d.state \notin {"idle", "poisoned"}
  <2> DEFINE f == b[1]
             k == b[2]
  <2>1. f \in 1..n /\ k \in 1..Len(Body(f)) /\ b = <<f, k>> /\ f \in Nat
    <3>1. b[1] \in 1..n /\ b[2] \in 1..Len(Body(b[1]))
      BY <1>5 DEF Wire
    <3> QED
      BY <3>1 DEF Pair
  <2>2. Len(Body(f)) \in Nat /\ Body(f)[1] = "plain" /\ k \in Nat
    <3>1. Len(Body(f)) \in Nat /\ Body(f)[1] = "plain"
      BY <2>1, BodyFacts
    <3> QED
      BY <2>1, <3>1
  <2>3. KindOf(b) = Body(f)[k]
    BY DEF KindOf
  <2> HIDE DEF f, k
  <2>4. \A s : s = [state |-> "poisoned", bytes |-> <<>>] => Stands(s, b)
    BY DEF Stands
  <2>5. CASE k = 1
    <3>1. x = FEND
      BY <1>5, <2>5 DEF After, k
    <3>2. d.state = "command" /\ d.bytes = <<>>
      BY <1>5, <3>1 DEF Stands
    <3>3. Fed(d, b, room) = [state |-> "payload", bytes |-> Append(<<>>, b)]
      <4>1. Len(d.bytes) # room + 1
        BY <3>2
      <4>2. Fed(d, b, room) = Push(d, b, room)
        BY <1>5, <3>2 DEF Fed
      <4> QED
        BY <3>2, <4>1, <4>2 DEF Push
    <3>4. Append(<<>>, b) = << <<f, 1>> >>
      BY <2>1, <2>5
    <3>5. Holds(<< <<f, 1>> >>, f, 1)
      BY <2>1, HoldsFirst
    <3>6. Holds(Append(<<>>, b), b[1], b[2])
      BY <2>5, <3>4, <3>5 DEF f, k
    <3>7. Body(b[1])[b[2]] # "fesc"
      BY <2>2, <2>5 DEF f, k
    <3>8. \A s : s.state = "payload" /\ s.bytes = Append(<<>>, b) => Stands(s, b)
      BY <1>5, <3>6, <3>7 DEF Stands
    <3>9. Stands([state |-> "payload", bytes |-> Append(<<>>, b)], b)
      BY <3>8
    <3> QED
      BY <1>2, <3>3, <3>9
  <2>6. CASE k # 1
    <3>1. x = <<f, k - 1>>
      BY <1>5, <2>6 DEF After, f, k
    <3>2. x # FEND /\ x[1] = f /\ x[2] = k - 1
      BY <2>1, <3>1 DEF FEND
    <3>3. /\ Holds(d.bytes, f, k - 1)
          /\ d.state = IF Body(f)[k - 1] = "fesc" THEN "escaped" ELSE "payload"
      BY <1>5, <3>2 DEF Stands
    <3>4. k - 1 \in 1..Len(Body(f)) /\ (k - 1) + 1 <= Len(Body(f)) /\ (k - 1) + 1 = k
      BY <2>1, <2>2, <2>6
    <3>5. /\ Body(f)[k] = "fesc" => Holds(d.bytes, f, k)
          /\ Body(f)[k] # "fesc" => Holds(Append(d.bytes, b), f, k)
      BY <1>1, <2>1, <3>3, <3>4, HoldsMore
    <3>6. Holds(d.bytes, f, k) /\ Body(f)[k] = "fesc" =>
            \A s : s.state = "escaped" /\ s.bytes = d.bytes => Stands(s, b)
      BY <1>5 DEF Stands, f, k
    <3>7. Holds(Append(d.bytes, b), f, k) /\ Body(f)[k] # "fesc" =>
            \A s : s = [state |-> "payload", bytes |-> Append(d.bytes, b)] => Stands(s, b)
      BY <1>5 DEF Stands, f, k
    <3>8. \/ Push(d, b, room) = [state |-> "poisoned", bytes |-> <<>>]
          \/ Push(d, b, room) = [state |-> "payload", bytes |-> Append(d.bytes, b)]
      BY DEF Push
    <3>9. CASE d.state = "escaped" /\ KindOf(b) # "tf"
      <4>1. Fed(d, b, room) = [state |-> "poisoned", bytes |-> <<>>]
        BY <1>5, <3>9 DEF Fed
      <4> QED
        BY <1>2, <2>4, <4>1
    <3>10. CASE d.state = "escaped" /\ KindOf(b) = "tf"
      <4>1. Fed(d, b, room) = Push(d, b, room)
        BY <1>5, <3>10 DEF Fed
      <4>2. Body(f)[k] # "fesc"
        BY <2>3, <3>10
      <4> QED
        BY <1>2, <2>4, <3>5, <3>7, <3>8, <4>1, <4>2
    <3>11. CASE d.state = "payload" /\ KindOf(b) = "fesc"
      <4>1. Fed(d, b, room) = [d EXCEPT !.state = "escaped"]
        BY <1>5, <3>11 DEF Fed
      <4>2. [d EXCEPT !.state = "escaped"].state = "escaped"
            /\ [d EXCEPT !.state = "escaped"].bytes = d.bytes
        BY DEF Reader
      <4>3. Body(f)[k] = "fesc"
        BY <2>3, <3>11
      <4>4. Stands([d EXCEPT !.state = "escaped"], b)
        BY <3>5, <3>6, <4>2, <4>3
      <4> QED
        BY <1>2, <4>1, <4>4
    <3>12. CASE d.state = "payload" /\ KindOf(b) # "fesc"
      <4>1. Fed(d, b, room) = Push(d, b, room)
        BY <1>5, <3>12 DEF Fed
      <4>2. Body(f)[k] # "fesc"
        BY <2>3, <3>12
      <4> QED
        BY <1>2, <2>4, <3>5, <3>7, <3>8, <4>1, <4>2
    <3> QED
      BY <3>3, <3>9, <3>10, <3>11, <3>12
  <2> QED
    BY <1>2, <2>5, <2>6
<1> QED
  BY <1>2, <1>3, <1>4, <1>5

-----------------------------------------------------------------------------
(* Lines *)

LEMMA LineFacts ==
    ASSUME NEW b \in Pair, NEW s \in Seq(Pair), NEW r \in Seq(Pair)
    PROVE  /\ <<b>> \o (s \o r) \in Seq(Pair)
           /\ Len(<<b>> \o (s \o r)) = (1 + Len(s)) + Len(r)
           /\ (<<b>> \o (s \o r))[1] = b
           /\ \A i \in 1..Len(s) : (<<b>> \o (s \o r))[i + 1] = s[i]
           /\ \A i \in 1..Len(r) : (<<b>> \o (s \o r))[(1 + Len(s)) + i] = r[i]
           /\ Len(s) \in Nat /\ Len(r) \in Nat
<1>1. Len(s) \in Nat /\ Len(r) \in Nat
  OBVIOUS
<1>2. <<b>> \in Seq(Pair) /\ Len(<<b>>) = 1 /\ <<b>>[1] = b
  OBVIOUS
<1> DEFINE u == s \o r
<1>3. /\ u \in Seq(Pair) /\ Len(u) = Len(s) + Len(r)
      /\ \A i \in 1..(Len(s) + Len(r)) : u[i] = IF i <= Len(s) THEN s[i] ELSE r[i - Len(s)]
  BY ConcatProperties
<1> HIDE DEF u
<1> DEFINE z == <<b>> \o u
<1>4. /\ z \in Seq(Pair) /\ Len(z) = 1 + Len(u)
      /\ \A i \in 1..(1 + Len(u)) : z[i] = IF i <= 1 THEN <<b>>[i] ELSE u[i - 1]
  BY <1>2, <1>3, ConcatProperties
<1> HIDE DEF z
<1>5. z[1] = b
  BY <1>1, <1>2, <1>3, <1>4
<1>6. ASSUME NEW i \in 1..Len(s) PROVE z[i + 1] = s[i]
  <2>1. i + 1 \in 1..(1 + Len(u)) /\ ~(i + 1 <= 1) /\ (i + 1) - 1 = i
        /\ i \in 1..(Len(s) + Len(r)) /\ i <= Len(s)
    BY <1>1, <1>3
  <2> QED
    BY <1>3, <1>4, <2>1
<1>7. ASSUME NEW i \in 1..Len(r) PROVE z[(1 + Len(s)) + i] = r[i]
  <2> DEFINE j == (1 + Len(s)) + i
  <2>1. /\ j \in 1..(1 + Len(u)) /\ ~(j <= 1) /\ j - 1 = Len(s) + i
        /\ Len(s) + i \in 1..(Len(s) + Len(r)) /\ ~(Len(s) + i <= Len(s))
        /\ (Len(s) + i) - Len(s) = i
    BY <1>1, <1>3
  <2> HIDE DEF j
  <2>2. z[j] = u[Len(s) + i] /\ u[Len(s) + i] = r[i]
    BY <1>3, <1>4, <2>1
  <2> QED
    BY <2>2 DEF j
<1>8. Len(z) = (1 + Len(s)) + Len(r)
  BY <1>1, <1>3, <1>4
<1> QED
  BY <1>1, <1>4, <1>5, <1>6, <1>7, <1>8 DEF z, u

LEMMA JoinFacts ==
    ASSUME NEW b \in Pair, NEW s \in Seq(Pair)
    PROVE  /\ <<b>> \o s \in Seq(Pair) /\ Len(<<b>> \o s) = 1 + Len(s) /\ Len(s) \in Nat
           /\ (<<b>> \o s)[1] = b /\ \A i \in 1..Len(s) : (<<b>> \o s)[i + 1] = s[i]
<1>1. Len(s) \in Nat /\ <<b>> \in Seq(Pair) /\ Len(<<b>>) = 1 /\ <<b>>[1] = b
  OBVIOUS
<1> DEFINE z == <<b>> \o s
<1>2. /\ z \in Seq(Pair) /\ Len(z) = 1 + Len(s)
      /\ \A i \in 1..(1 + Len(s)) : z[i] = IF i <= 1 THEN <<b>>[i] ELSE s[i - 1]
  BY <1>1, ConcatProperties
<1> HIDE DEF z
<1>3. 1 \in 1..(1 + Len(s))
      /\ \A i \in 1..Len(s) : i + 1 \in 1..(1 + Len(s)) /\ ~(i + 1 <= 1) /\ (i + 1) - 1 = i
  BY <1>1
<1>4. z[1] = b /\ \A i \in 1..Len(s) : z[i + 1] = s[i]
  BY <1>1, <1>2, <1>3
<1> QED
  BY <1>1, <1>2, <1>4 DEF z

(* The end of a line is a line. *)
LEMMA Ending ==
    ASSUME NEW z, NEW y \in Seq(Pair), NEW k \in Nat, NEW cut, NEW n,
           Line(z, cut, n), Len(y) > 0, Len(z) = k + Len(y),
           \A i \in 1..Len(y) : y[i] = z[k + i]
    PROVE  Line(y, cut, n)
<1>1. Len(y) \in Nat /\ \A i \in 1..Len(y) : k + i \in 1..Len(z)
  OBVIOUS
<1>2. \A i \in 1..Len(y) : Wire(n, y[i])
  BY <1>1 DEF Line
<1>3. ASSUME NEW i \in 1..(Len(y) - 1) PROVE After(y[i], y[i + 1], cut)
  <2>1. /\ k + i \in 1..(Len(z) - 1) /\ k + (i + 1) = (k + i) + 1
        /\ i \in 1..Len(y) /\ i + 1 \in 1..Len(y)
    BY <1>1
  <2>2. After(z[k + i], z[(k + i) + 1], cut)
    BY <2>1 DEF Line
  <2>3. y[i] = z[k + i] /\ y[i + 1] = z[k + (i + 1)]
    BY <2>1
  <2> QED
    BY <2>1, <2>2, <2>3
<1>4. After(y[Len(y)], FEND, cut)
  <2>1. y[Len(y)] = z[Len(z)]
    BY <1>1
  <2> QED
    BY <2>1 DEF Line
<1>5. InOrder(y)
  <2>1. InOrder(z)
    BY DEF Line
  <2>2. ASSUME NEW i \in 1..Len(y), NEW j \in 1..Len(y), NEW l \in 1..Len(y),
               i < j, j < l, y[i] # FEND, y[j] = FEND, y[l] # FEND
        PROVE  y[i][1] < y[l][1]
    <3>1. /\ k + i \in 1..Len(z) /\ k + j \in 1..Len(z) /\ k + l \in 1..Len(z)
          /\ k + i < k + j /\ k + j < k + l
      <4>1. k + i \in 1..Len(z) /\ k + j \in 1..Len(z) /\ k + l \in 1..Len(z)
        BY <1>1
      <4>2. k + i < k + j /\ k + j < k + l
        BY <1>1, <2>2
      <4> QED
        BY <4>1, <4>2
    <3>2. y[i] = z[k + i] /\ y[j] = z[k + j] /\ y[l] = z[k + l]
      OBVIOUS
    <3> QED
      BY <2>1, <2>2, <3>1, <3>2 DEF InOrder
  <2> QED
    BY <2>2 DEF InOrder
<1> QED
  BY <1>2, <1>3, <1>4, <1>5 DEF Line

(* So is its beginning, where the frame it ends in may be cut short. *)
LEMMA Beginning ==
    ASSUME NEW z, NEW y \in Seq(Pair), NEW cut, NEW cut2, NEW n,
           Line(z, cut, n), cut \subseteq cut2, Len(y) > 0, Len(y) <= Len(z),
           \A i \in 1..Len(y) : y[i] = z[i],
           After(y[Len(y)], FEND, cut2)
    PROVE  Line(y, cut2, n)
<1>1. Len(y) \in Nat /\ Len(z) \in Nat /\ \A i \in 1..Len(y) : i \in 1..Len(z)
  BY DEF Line
<1>2. \A i \in 1..Len(y) : Wire(n, y[i])
  BY <1>1 DEF Line
<1>3. \A a, b : After(a, b, cut) => After(a, b, cut2)
  BY DEF After
<1>4. ASSUME NEW i \in 1..(Len(y) - 1) PROVE After(y[i], y[i + 1], cut2)
  <2>1. i \in 1..(Len(z) - 1) /\ i \in 1..Len(y) /\ i + 1 \in 1..Len(y)
    BY <1>1
  <2>2. After(z[i], z[i + 1], cut)
    BY <2>1 DEF Line
  <2>3. y[i] = z[i] /\ y[i + 1] = z[i + 1]
    BY <2>1
  <2> QED
    BY <1>3, <2>2, <2>3
<1>5. InOrder(y)
  <2>1. InOrder(z)
    BY DEF Line
  <2>2. ASSUME NEW i \in 1..Len(y), NEW j \in 1..Len(y), NEW l \in 1..Len(y),
               i < j, j < l, y[i] # FEND, y[j] = FEND, y[l] # FEND
        PROVE  y[i][1] < y[l][1]
    <3>1. i \in 1..Len(z) /\ j \in 1..Len(z) /\ l \in 1..Len(z)
      BY <1>1
    <3>2. y[i] = z[i] /\ y[j] = z[j] /\ y[l] = z[l]
      OBVIOUS
    <3> QED
      BY <2>1, <2>2, <3>1, <3>2 DEF InOrder
  <2> QED
    BY <2>2 DEF InOrder
<1> QED
  BY <1>2, <1>4, <1>5 DEF Line

(* And a line stays one as more frames are written and more are cut. *)
LEMMA LineGrows ==
    ASSUME NEW z, NEW cut, NEW cut2, NEW n \in Nat, NEW m \in Nat,
           Line(z, cut, n), cut \subseteq cut2, n <= m
    PROVE  Line(z, cut2, m)
<1>1. \A a, b : After(a, b, cut) => After(a, b, cut2)
  BY DEF After
<1>2. \A b : Wire(n, b) => Wire(m, b)
  BY DEF Wire
<1>3. /\ z \in Seq(Pair) /\ Len(z) > 0 /\ InOrder(z)
      /\ \A i \in 1..Len(z) : Wire(m, z[i])
  BY <1>2 DEF Line
<1>4. \A i \in 1..(Len(z) - 1) : After(z[i], z[i + 1], cut2)
  BY <1>1 DEF Line
<1>5. After(z[Len(z)], FEND, cut2)
  BY <1>1 DEF Line
<1> QED
  BY <1>3, <1>4, <1>5 DEF Line

(* What is left to read, once s has been read or dropped. *)
LEMMA LeftOver ==
    ASSUME NEW b \in Pair, NEW s \in Seq(Pair), NEW r \in Seq(Pair), NEW cut, NEW n,
           Line(<<b>> \o (s \o r), cut, n)
    PROVE  LET z == <<b>> \o (s \o r)
               c == z[Len(s) + 1]
               y == <<c>> \o r
           IN  /\ c \in Pair /\ Line(y, cut, n) /\ Wire(n, c)
               /\ Len(z) = Len(s) + Len(y)
               /\ \A i \in 1..Len(y) : Len(s) + i \in 1..Len(z) /\ y[i] = z[Len(s) + i]
<1> DEFINE z == <<b>> \o (s \o r)
           c == z[Len(s) + 1]
<1>1. /\ z \in Seq(Pair) /\ Len(z) = (1 + Len(s)) + Len(r)
      /\ \A i \in 1..Len(r) : z[(1 + Len(s)) + i] = r[i]
      /\ Len(s) \in Nat /\ Len(r) \in Nat
  BY LineFacts
<1>2. Line(z, cut, n)
  OBVIOUS
<1> HIDE DEF z
<1>3. Len(s) + 1 \in 1..Len(z)
  BY <1>1
<1>4. c \in Pair
  BY <1>1, <1>3
<1>5. Wire(n, c)
  BY <1>2, <1>3 DEF Line
<1>6. c = z[Len(s) + 1]
  OBVIOUS
<1> HIDE DEF c
<1> DEFINE y == <<c>> \o r
<1>7. /\ y \in Seq(Pair) /\ Len(y) = 1 + Len(r)
      /\ y[1] = c /\ \A i \in 1..Len(r) : y[i + 1] = r[i]
  BY <1>4, JoinFacts
<1> HIDE DEF y
<1>8. Len(z) = Len(s) + Len(y) /\ Len(y) > 0 /\ Len(y) \in Nat
  BY <1>1, <1>7
<1>9. ASSUME NEW i \in 1..Len(y) PROVE Len(s) + i \in 1..Len(z) /\ y[i] = z[Len(s) + i]
  <2>1. Len(s) + i \in 1..Len(z)
    BY <1>1, <1>8
  <2>2. CASE i = 1
    BY <1>6, <1>7, <2>1, <2>2
  <2>3. CASE i # 1
    <3>1. i - 1 \in 1..Len(r) /\ (i - 1) + 1 = i /\ (1 + Len(s)) + (i - 1) = Len(s) + i
      BY <1>1, <1>7, <2>3
    <3>2. y[i] = r[i - 1] /\ z[Len(s) + i] = r[i - 1]
      BY <1>1, <1>7, <3>1
    <3> QED
      BY <2>1, <3>2
  <2> QED
    BY <2>2, <2>3
<1>10. Line(y, cut, n)
  BY <1>1, <1>2, <1>7, <1>8, <1>9, Ending
<1> QED
  BY <1>4, <1>5, <1>8, <1>9, <1>10 DEF y, c, z

(* A line whose end is dropped, where the frame it was dropped in counts   *)
(* as cut short.                                                           *)
LEMMA CutOff ==
    ASSUME NEW b \in Pair, NEW s \in Seq(Pair), NEW r \in Seq(Pair),
           NEW cut, NEW cut2, NEW n \in Nat,
           Line(<<b>> \o (s \o r), cut, n), cut \subseteq cut2,
           Len(r) > 0 /\ r[1] # FEND => r[1][1] \in cut2
    PROVE  /\ Line(<<b>> \o s, cut2, n)
           /\ \A i \in 1..Len(<<b>> \o s) :
                /\ i \in 1..Len(<<b>> \o (s \o r))
                /\ (<<b>> \o s)[i] = (<<b>> \o (s \o r))[i]
<1> DEFINE z == <<b>> \o (s \o r)
           y == <<b>> \o s
<1>1. /\ z \in Seq(Pair) /\ Len(z) = (1 + Len(s)) + Len(r) /\ z[1] = b
      /\ \A i \in 1..Len(s) : z[i + 1] = s[i]
      /\ \A i \in 1..Len(r) : z[(1 + Len(s)) + i] = r[i]
      /\ Len(s) \in Nat /\ Len(r) \in Nat
  BY LineFacts
<1>2. /\ y \in Seq(Pair) /\ Len(y) = 1 + Len(s) /\ y[1] = b
      /\ \A i \in 1..Len(s) : y[i + 1] = s[i]
  BY JoinFacts
<1>3. Line(z, cut, n)
  OBVIOUS
<1> HIDE DEF z, y
<1>4. ASSUME NEW i \in 1..Len(y) PROVE i \in 1..Len(z) /\ y[i] = z[i]
  <2>1. i \in 1..Len(z)
    BY <1>1, <1>2
  <2>2. CASE i = 1
    BY <1>1, <1>2, <2>1, <2>2
  <2>3. CASE i # 1
    <3>1. i - 1 \in 1..Len(s) /\ (i - 1) + 1 = i
      BY <1>1, <1>2, <2>3
    <3>2. y[i] = s[i - 1] /\ z[i] = s[i - 1]
      BY <1>1, <1>2, <3>1
    <3> QED
      BY <2>1, <3>2
  <2> QED
    BY <2>2, <2>3
<1>5. After(y[Len(y)], FEND, cut2)
  <2>1. Len(y) \in 1..Len(y) /\ Len(y) \in 1..Len(z) /\ y[Len(y)] = z[Len(y)]
    BY <1>1, <1>2, <1>4
  <2>2. CASE Len(r) = 0
    <3>1. Len(y) = Len(z)
      BY <1>1, <1>2, <2>2
    <3>2. After(z[Len(z)], FEND, cut)
      BY <1>3 DEF Line
    <3> QED
      BY <2>1, <3>1, <3>2 DEF After
  <2>3. CASE Len(r) > 0
    <3>1. Len(y) \in 1..(Len(z) - 1) /\ z[Len(y) + 1] = r[1]
      BY <1>1, <1>2, <2>3
    <3>2. After(z[Len(y)], r[1], cut)
      BY <1>3, <3>1 DEF Line
    <3>3. CASE r[1] = FEND
      BY <2>1, <3>2, <3>3 DEF After
    <3>4. CASE r[1] # FEND
      <4>1. z[Len(y)] = FEND \/ z[Len(y)] = <<r[1][1], r[1][2] - 1>>
        BY <3>2, <3>4 DEF After
      <4>2. r[1][1] \in cut2
        BY <2>3, <3>4
      <4> QED
        BY <2>1, <4>1, <4>2 DEF After
    <3> QED
      BY <3>3, <3>4
  <2> QED
    BY <1>1, <2>2, <2>3
<1>6. Len(y) > 0 /\ Len(y) <= Len(z)
  BY <1>1, <1>2
<1>7. Line(y, cut2, n)
  BY <1>2, <1>3, <1>4, <1>5, <1>6, Beginning
<1> QED
  BY <1>4, <1>7 DEF y, z

(* A whole frame, the newest, at the end of a line *)
LEMMA OneMore ==
    ASSUME NEW b \in Pair, NEW s \in Seq(Pair), NEW cut, NEW n \in Nat,
           Line(<<b>> \o s, cut, n)
    PROVE  /\ Line(<<b>> \o (s \o Encode(n + 1)), cut, n + 1)
           /\ \A i \in 1..Len(<<b>> \o (s \o Encode(n + 1))) :
                LET w == (<<b>> \o (s \o Encode(n + 1)))[i]
                IN  \/ i \in 1..Len(<<b>> \o s) /\ w = (<<b>> \o s)[i]
                    \/ w = FEND \/ w[1] = n + 1
<1> DEFINE f == n + 1
           e == Encode(f)
           m == Len(Body(f))
           z == <<b>> \o s
           w == <<b>> \o (s \o e)
           k == Len(z)
<1>1. f \in Nat /\ f \in 1..(n + 1) /\ f # 0
  OBVIOUS
<1>2. /\ e \in Seq(Pair) /\ Len(e) = m + 2 /\ e[1] = FEND /\ e[m + 2] = FEND
      /\ \A i \in 1..m : e[i + 1] = <<f, i>>
  BY <1>1, EncodeFacts
<1>3. m \in Nat /\ m # 0
  BY <1>1, BodyFacts
<1>4. /\ z \in Seq(Pair) /\ k = 1 + Len(s) /\ k \in Nat /\ z[1] = b
      /\ \A i \in 1..Len(s) : z[i + 1] = s[i]
      /\ Len(s) \in Nat
  BY JoinFacts
<1> HIDE DEF e, m
<1>5. /\ w \in Seq(Pair) /\ Len(w) = (1 + Len(s)) + Len(e) /\ w[1] = b
      /\ \A i \in 1..Len(s) : w[i + 1] = s[i]
      /\ \A i \in 1..Len(e) : w[(1 + Len(s)) + i] = e[i]
  <2>1. e \in Seq(Pair)
    BY <1>2
  <2> QED
    BY <2>1, LineFacts
<1>6. Line(z, cut, n)
  OBVIOUS
<1> HIDE DEF f, z, w, k
<1>7. Len(w) = k + (m + 2)
  BY <1>2, <1>3, <1>4, <1>5
<1>8. \A i \in 1..k : i \in 1..Len(w) /\ w[i] = z[i]
  <2> TAKE i \in 1..k
  <2>1. i \in 1..Len(w)
    BY <1>3, <1>4, <1>7
  <2>2. CASE i = 1
    BY <1>4, <1>5, <2>1, <2>2
  <2>3. CASE i # 1
    <3>1. i - 1 \in 1..Len(s) /\ (i - 1) + 1 = i
      BY <1>4, <2>3
    <3>2. w[i] = s[i - 1] /\ z[i] = s[i - 1]
      BY <1>4, <1>5, <3>1
    <3> QED
      BY <2>1, <3>2
  <2> QED
    BY <2>2, <2>3
<1>9. \A i \in 1..m : w[(k + 1) + i] = <<f, i>>
  <2> TAKE i \in 1..m
  <2>1. i + 1 \in 1..Len(e) /\ (1 + Len(s)) + (i + 1) = (k + 1) + i
    BY <1>2, <1>3, <1>4
  <2> QED
    BY <1>2, <1>5, <2>1
<1>10. w[k + 1] = FEND /\ w[k + (m + 2)] = FEND
  <2>1. /\ 1 \in 1..Len(e) /\ (1 + Len(s)) + 1 = k + 1
        /\ m + 2 \in 1..Len(e) /\ (1 + Len(s)) + (m + 2) = k + (m + 2)
    BY <1>2, <1>3, <1>4
  <2> QED
    BY <1>2, <1>5, <2>1
<1>11. ASSUME NEW i \in 1..Len(w)
       PROVE  i \in 1..k \/ i = k + 1 \/ (\E j \in 1..m : i = (k + 1) + j) \/ i = k + (m + 2)
  <2>1. CASE i <= k + 1
    BY <1>4, <2>1
  <2>2. CASE i > k + 1
    <3> DEFINE j == i - (k + 1)
    <3>1. i = (k + 1) + j /\ j \in 1..(m + 1)
      BY <1>3, <1>4, <1>7, <2>2
    <3>2. j \in 1..m \/ j = m + 1
      BY <1>3, <3>1
    <3> HIDE DEF j
    <3>3. j = m + 1 => i = k + (m + 2)
      BY <1>3, <1>4, <3>1
    <3> QED
      BY <3>1, <3>2, <3>3
  <2> QED
    BY <1>4, <2>1, <2>2
<1>12. <<f, 1>> # FEND /\ \A i \in 1..m : <<f, i>> # FEND /\ <<f, i>>[1] = f /\ <<f, i>>[2] = i
  BY <1>1 DEF FEND
<1>13. \A i \in 1..Len(w) : Wire(n + 1, w[i])
  <2> TAKE i \in 1..Len(w)
  <2>1. CASE i \in 1..k
    <3>1. Wire(n, z[i]) /\ w[i] = z[i]
      BY <1>6, <1>8, <2>1 DEF Line, k
    <3> QED
      BY <3>1 DEF Wire
  <2>2. CASE i = k + 1 \/ i = k + (m + 2)
    BY <1>10, <2>2 DEF Wire
  <2>3. CASE \E j \in 1..m : i = (k + 1) + j
    BY <1>1, <1>9, <1>12, <2>3 DEF Wire, m, f
  <2> QED
    BY <1>11, <2>1, <2>2, <2>3
<1>14. \A i \in 1..(Len(w) - 1) : After(w[i], w[i + 1], cut)
  <2> TAKE i \in 1..(Len(w) - 1)
  <2>0. i \in 1..Len(w) /\ Len(w) - 1 = k + (m + 1)
    BY <1>3, <1>4, <1>7
  <2>1. CASE i \in 1..(k - 1)
    <3>1. i \in 1..k /\ i + 1 \in 1..k
      BY <1>4, <2>1
    <3>2. After(z[i], z[i + 1], cut)
      BY <1>6, <2>1 DEF Line, k
    <3> QED
      BY <1>8, <3>1, <3>2
  <2>2. CASE i = k
    <3>1. k \in 1..k
      BY <1>4
    <3>2. w[k] = z[k] /\ w[k + 1] = FEND
      BY <1>8, <1>10, <3>1
    <3>3. After(z[k], FEND, cut)
      BY <1>6 DEF Line, k
    <3> QED
      BY <2>2, <3>2, <3>3
  <2>3. CASE i = k + 1
    <3>1. 1 \in 1..m /\ i + 1 = (k + 1) + 1
      BY <1>3, <1>4, <2>3
    <3>2. w[i + 1] = <<f, 1>> /\ w[i] = FEND
      BY <1>9, <1>10, <2>3, <3>1
    <3> QED
      BY <1>12, <3>1, <3>2 DEF After
  <2>4. CASE \E j \in 1..m : i = (k + 1) + j
    <3>1. PICK j \in 1..m : i = (k + 1) + j
      BY <2>4
    <3>2. w[i] = <<f, j>>
      BY <1>9, <3>1
    <3>3. CASE j = m
      <4>1. i + 1 = k + (m + 2)
        BY <1>3, <1>4, <3>1, <3>3
      <4>2. w[i + 1] = FEND
        BY <1>10, <4>1
      <4> QED
        BY <1>12, <3>2, <3>3, <4>2 DEF After, m
    <3>4. CASE j # m
      <4>0. j \in Nat /\ j <= m /\ j >= 1 /\ i = (k + 1) + j
        BY <1>3, <3>1
      <4>1. j + 1 \in 1..m /\ i + 1 = (k + 1) + (j + 1) /\ (j + 1) - 1 = j /\ j + 1 # 1
        BY <1>3, <1>4, <3>4, <4>0
      <4>2. w[i + 1] = <<f, j + 1>>
        BY <1>9, <4>1
      <4>3. <<f, j + 1>> # FEND /\ <<f, j + 1>>[1] = f /\ <<f, j + 1>>[2] = j + 1
        BY <1>12, <4>1
      <4> QED
        BY <3>2, <4>1, <4>2, <4>3 DEF After
    <3> QED
      BY <3>3, <3>4
  <2>5. i # k + (m + 2)
    BY <1>3, <1>4, <2>0
  <2>6. i \in 1..k => i \in 1..(k - 1) \/ i = k
    BY <1>4
  <2> QED
    BY <1>11, <2>0, <2>1, <2>2, <2>3, <2>4, <2>5, <2>6
<1>15. After(w[Len(w)], FEND, cut)
  BY <1>7, <1>10 DEF After
<1>16. ASSUME NEW i \in 1..Len(w)
       PROVE  \/ i \in 1..k /\ w[i] = z[i]
              \/ w[i] = FEND /\ i > k
              \/ w[i] # FEND /\ w[i][1] = f /\ i > k + 1 /\ i < k + (m + 2)
  <2>1. CASE i \in 1..k
    BY <1>8, <2>1
  <2>2. CASE i = k + 1 \/ i = k + (m + 2)
    <3>1. i > k
      BY <1>3, <1>4, <2>2
    <3> QED
      BY <1>10, <2>2, <3>1
  <2>3. CASE \E j \in 1..m : i = (k + 1) + j
    <3>1. PICK j \in 1..m : i = (k + 1) + j
      BY <2>3
    <3>2. i > k + 1 /\ i < k + (m + 2)
      BY <1>3, <1>4, <3>1
    <3>3. w[i] = <<f, j>>
      BY <1>9, <3>1
    <3> QED
      BY <1>12, <3>2, <3>3
  <2> QED
    BY <1>11, <2>1, <2>2, <2>3
<1>17. InOrder(w)
  <2>1. ASSUME NEW i \in 1..Len(w), NEW j \in 1..Len(w), NEW l \in 1..Len(w),
               i < j, j < l, w[i] # FEND, w[j] = FEND, w[l] # FEND
        PROVE  w[i][1] < w[l][1]
    <3>1. CASE l \in 1..k
      <4>1. i \in 1..k /\ j \in 1..k
        BY <1>4, <2>1, <3>1
      <4>2. w[i] = z[i] /\ w[j] = z[j] /\ w[l] = z[l]
        BY <1>8, <3>1, <4>1
      <4> QED
        BY <1>6, <2>1, <3>1, <4>1, <4>2 DEF Line, InOrder, k
    <3>2. CASE l \notin 1..k
      <4>1. w[l][1] = f /\ l < k + (m + 2)
        BY <1>16, <2>1, <3>2
      <4>2. CASE i \in 1..k
        <5>1. Wire(n, z[i]) /\ w[i] = z[i]
          BY <1>6, <1>8, <4>2 DEF Line, k
        <5>2. w[i][1] \in 1..n
          BY <2>1, <5>1 DEF Wire
        <5> QED
          BY <4>1, <5>2 DEF f
      <4>3. CASE i \notin 1..k
        <5>1. i > k + 1
          BY <1>16, <2>1, <4>3
        <5>2. j > k + 1 /\ j < k + (m + 2) /\ j \notin 1..k
          BY <1>3, <1>4, <2>1, <4>1, <5>1
        <5>3. \E jj \in 1..m : j = (k + 1) + jj
          <6>1. j # k + 1 /\ j # k + (m + 2)
            BY <1>3, <1>4, <5>2
          <6> QED
            BY <1>11, <5>2, <6>1
        <5>4. PICK jj \in 1..m : j = (k + 1) + jj
          BY <5>3
        <5>5. w[j] = <<f, jj>>
          BY <1>9, <5>4
        <5>6. w[j] # FEND
          BY <1>12, <5>5
        <5> QED
          BY <2>1, <5>6
      <4> QED
        BY <4>2, <4>3
    <3> QED
      BY <3>1, <3>2
  <2> QED
    BY <2>1 DEF InOrder
<1>18. Line(w, cut, n + 1)
  <2>1. Len(w) > 0
    BY <1>3, <1>4, <1>7
  <2> QED
    BY <1>5, <1>13, <1>14, <1>15, <1>17, <2>1 DEF Line
<1>19. \A i \in 1..Len(w) : (i \in 1..Len(z) /\ w[i] = z[i]) \/ w[i] = FEND \/ w[i][1] = n + 1
  BY <1>16 DEF f, k
<1> QED
  BY <1>18, <1>19 DEF w, z, e, f

-----------------------------------------------------------------------------
(* Reading and writing *)

(* The frames a reader has had out of the first i bytes of z. *)
HadOf(h, z, i, cut) ==
    /\ \A j \in 1..Len(h) : \E k \in 1..Len(z) : Frame(h[j], z[k], cut)
    /\ \A j \in 1..Len(h) : \A k \in i..Len(z) : z[k] # FEND => h[j][1][1] < z[k][1]
    /\ \A j \in 1..Len(h) : \A l \in 1..(j - 1) : h[l][1][1] < h[j][1][1]

LEMMA OneByte ==
    ASSUME NEW z, NEW cut, NEW n \in Nat, Line(z, cut, n),
           NEW i \in 1..(Len(z) - 1), NEW g \in Reader, Stands(g, z[i]),
           NEW h \in Seq(Seq(Pair)), HadOf(h, z, i, cut), NEW room \in Nat
    PROVE  /\ Stands(Fed(g, z[i + 1], room), z[i + 1])
           /\ HadOf(IF Closes(g, z[i + 1]) THEN Append(h, g.bytes) ELSE h, z, i + 1, cut)
<1>1. z \in Seq(Pair) /\ Len(z) \in Nat /\ i \in 1..Len(z) /\ i + 1 \in 1..Len(z) /\ i \in Nat
  BY DEF Line
<1>2. z[i] \in Pair /\ z[i + 1] \in Pair
  BY <1>1
<1>3. Wire(n, z[i]) /\ Wire(n, z[i + 1]) /\ After(z[i], z[i + 1], cut)
  BY <1>1 DEF Line
<1>4. /\ Stands(Fed(g, z[i + 1], room), z[i + 1])
      /\ Closes(g, z[i + 1]) => Frame(g.bytes, z[i], cut)
  BY <1>2, <1>3, FedStands
<1>5. HadOf(h, z, i + 1, cut)
  <2>1. \A k \in (i + 1)..Len(z) : k \in i..Len(z)
    BY <1>1
  <2> QED
    BY <2>1 DEF HadOf
<1>6. ASSUME Closes(g, z[i + 1]) PROVE HadOf(Append(h, g.bytes), z, i + 1, cut)
  <2> DEFINE s == g.bytes
             t == Append(h, s)
  <2>1. s \in Seq(Pair)
    BY DEF Reader
  <2>2. Frame(s, z[i], cut) /\ z[i + 1] = FEND
    BY <1>4, <1>6 DEF Closes
  <2>3. s[1][1] = z[i][1] /\ z[i] # FEND
    <3>1. /\ z[i] # FEND /\ Holds(s, z[i][1], z[i][2])
          /\ z[i][1] \in 1..n /\ z[i][2] \in 1..Len(Body(z[i][1]))
      BY <1>3, <2>2 DEF Frame, Wire
    <3>2. z[i][1] \in Nat
      BY <3>1
    <3> QED
      BY <2>1, <3>1, <3>2, HoldsFacts
  <2> HIDE DEF s
  <2>4. /\ Len(t) = Len(h) + 1 /\ Len(h) \in Nat
        /\ \A j \in 1..Len(h) : t[j] = h[j]
        /\ t[Len(h) + 1] = s
    BY <2>1, AppendProperties
  <2> HIDE DEF t
  <2>b. \A p \in Nat : \A j \in 1..(p + 1) : j \in 1..p \/ j = p + 1
    OBVIOUS
  <2>5. \A j \in 1..(Len(h) + 1) : j \in 1..Len(h) \/ j = Len(h) + 1
    BY <2>4, <2>b
  <2>a. Len(t) = Len(h) + 1
    BY <2>4
  <2>6. \A j \in 1..Len(t) : \E k \in 1..Len(z) : Frame(t[j], z[k], cut)
    BY <1>1, <2>2, <2>4, <2>5, <2>a DEF HadOf
  <2>7. ASSUME NEW j \in 1..Len(t), NEW k \in (i + 1)..Len(z), z[k] # FEND
        PROVE  t[j][1][1] < z[k][1]
    <3>1. CASE j \in 1..Len(h)
      BY <1>5, <2>4, <2>7, <3>1 DEF HadOf
    <3>2. CASE j = Len(h) + 1
      <4>1. k \in 1..Len(z) /\ i < i + 1 /\ i + 1 < k
        <5>1. k # i + 1
          BY <2>2, <2>7
        <5> QED
          BY <1>1, <5>1
      <4>2. InOrder(z)
        BY DEF Line
      <4>3. z[i][1] < z[k][1]
        BY <1>1, <2>2, <2>3, <2>7, <4>1, <4>2 DEF InOrder
      <4> QED
        BY <2>3, <2>4, <3>2, <4>3
    <3> QED
      BY <2>5, <2>a, <3>1, <3>2
  <2>8. ASSUME NEW j \in 1..Len(t), NEW l \in 1..(j - 1) PROVE t[l][1][1] < t[j][1][1]
    <3>0. j \in 1..(Len(h) + 1)
      BY <2>a
    <3>1. l \in 1..Len(h)
      BY <2>4, <2>8, <3>0
    <3>a. t[l] = h[l]
      BY <2>4, <3>1
    <3>2. CASE j \in 1..Len(h)
      BY <2>4, <3>1, <3>a, <3>2 DEF HadOf
    <3>3. CASE j = Len(h) + 1
      <4>1. i \in i..Len(z)
        BY <1>1
      <4>2. h[l][1][1] < z[i][1]
        BY <2>3, <3>1, <4>1 DEF HadOf
      <4> QED
        BY <2>3, <2>4, <3>a, <3>3, <4>2
    <3> QED
      BY <2>5, <2>a, <3>2, <3>3
  <2>9. HadOf(t, z, i + 1, cut)
    BY <2>6, <2>7, <2>8 DEF HadOf
  <2> QED
    BY <2>9 DEF t, s
<1> QED
  BY <1>4, <1>5, <1>6

LEMMA ReadsLine ==
    ASSUME NEW d \in Reader, NEW b \in Pair, NEW s \in Seq(Pair), NEW r \in Seq(Pair),
           NEW room \in Nat, NEW cut, NEW n \in Nat,
           Stands(d, b), Line(<<b>> \o (s \o r), cut, n), Len(d.bytes) <= room + 1
    PROVE  LET z == <<b>> \o (s \o r)
               q == Reads(d, s, room)
           IN  /\ q.dec \in Reader /\ Stands(q.dec, z[Len(s) + 1])
               /\ Len(q.dec.bytes) <= room + 1 /\ q.frames \in Seq(Seq(Pair))
               /\ HadOf(q.frames, z, Len(s) + 1, cut)
<1> DEFINE z == <<b>> \o (s \o r)
           m == Len(s)
<1>1. /\ z \in Seq(Pair) /\ Len(z) = (1 + m) + Len(r) /\ z[1] = b
      /\ \A i \in 1..m : z[i + 1] = s[i]
      /\ m \in Nat /\ Len(r) \in Nat
  BY LineFacts
<1>2. Line(z, cut, n)
  OBVIOUS
<1>a. PICK g \in [0..Len(s) -> Reader], h \in [0..Len(s) -> Seq(Seq(Pair))] :
          ReadingOf(d, s, room, g, h)
  BY ReadsRun
<1>3. /\ g \in [0..m -> Reader] /\ h \in [0..m -> Seq(Seq(Pair))]
      /\ g[0] = d /\ h[0] = <<>>
      /\ \A i \in 1..m :
            /\ g[i] = Fed(g[i - 1], s[i], room)
            /\ h[i] = IF Closes(g[i - 1], s[i])
                      THEN Append(h[i - 1], g[i - 1].bytes) ELSE h[i - 1]
      /\ Reads(d, s, room) = [dec |-> g[m], frames |-> h[m]]
  BY <1>a DEF ReadingOf
<1> HIDE DEF z, m
<1> DEFINE S == {i \in 0..m : /\ Stands(g[i], z[i + 1]) /\ Len(g[i].bytes) <= room + 1
                              /\ HadOf(h[i], z, i + 1, cut)}
<1>4. 0 \in S
  <2>1. HadOf(<<>>, z, 1, cut)
    BY DEF HadOf
  <2>2. 0 \in 0..m /\ 0 + 1 = 1
    BY <1>1
  <2> QED
    BY <1>1, <1>3, <2>1, <2>2
<1>5. ASSUME NEW i \in 0..(m - 1), i \in S PROVE i + 1 \in S
  <2>0. i \in Nat /\ i < m /\ m + 1 <= Len(z)
    <3>1. i \in Nat /\ i < m
      BY <1>1
    <3>2. m + 1 <= Len(z)
      BY <1>1
    <3> QED
      BY <3>1, <3>2
  <2>1. /\ i + 1 \in 1..m /\ (i + 1) - 1 = i /\ i + 1 \in 0..m /\ i \in 0..m
        /\ i + 1 \in 1..(Len(z) - 1)
    <3>1. i + 1 \in 1..m /\ (i + 1) - 1 = i /\ i + 1 \in 0..m /\ i \in 0..m
      BY <1>1, <2>0
    <3>2. Len(z) \in Nat
      BY <1>1
    <3>3. i + 1 \in 1..(Len(z) - 1)
      BY <1>1, <2>0, <3>2
    <3> QED
      BY <3>1, <3>3
  <2>2. g[i] \in Reader /\ h[i] \in Seq(Seq(Pair)) /\ s[i + 1] = z[(i + 1) + 1]
        /\ s[i + 1] \in Pair
    <3>1. g[i] \in Reader /\ h[i] \in Seq(Seq(Pair))
      BY <1>3, <2>1
    <3>2. s[i + 1] = z[(i + 1) + 1]
      BY <1>1, <2>1
    <3>3. s[i + 1] \in Pair
      BY <2>1 DEF m
    <3> QED
      BY <3>1, <3>2, <3>3
  <2>3. /\ Stands(g[i], z[i + 1]) /\ Len(g[i].bytes) <= room + 1
        /\ HadOf(h[i], z, i + 1, cut)
    BY <1>5
  <2>4. /\ g[i + 1] = Fed(g[i], z[(i + 1) + 1], room)
        /\ h[i + 1] = IF Closes(g[i], z[(i + 1) + 1])
                      THEN Append(h[i], g[i].bytes) ELSE h[i]
    BY <1>3, <2>1, <2>2
  <2>5. /\ Stands(Fed(g[i], z[(i + 1) + 1], room), z[(i + 1) + 1])
        /\ HadOf(IF Closes(g[i], z[(i + 1) + 1]) THEN Append(h[i], g[i].bytes) ELSE h[i],
                 z, (i + 1) + 1, cut)
    BY <1>2, <2>1, <2>2, <2>3, OneByte
  <2>6. Len(g[i + 1].bytes) <= room + 1
    <3>1. z[(i + 1) + 1] \in Pair
      BY <2>2
    <3> QED
      BY <2>2, <2>3, <2>4, <3>1, FedType
  <2> QED
    BY <2>1, <2>4, <2>5, <2>6
<1>6. \A i \in 0..(m - 1) : i \in S => i + 1 \in S
  BY <1>5
<1> HIDE DEF S
<1>7. \A i \in 0..m : i \in S
  BY <1>1, <1>4, <1>6, UpTo
<1>8. m \in 0..m
  BY <1>1
<1>9. /\ Stands(g[m], z[m + 1]) /\ Len(g[m].bytes) <= room + 1
      /\ HadOf(h[m], z, m + 1, cut)
  BY <1>7, <1>8 DEF S
<1>10. g[m] \in Reader /\ h[m] \in Seq(Seq(Pair))
  BY <1>3, <1>8
<1>11. Reads(d, s, room).dec = g[m] /\ Reads(d, s, room).frames = h[m]
  BY <1>3
<1> QED
  BY <1>9, <1>10, <1>11 DEF z, m

LEMMA QueuedFacts ==
    ASSUME NEW o \in Seq(Pair), NEW f \in Nat
    PROVE  /\ Queued(o, f) \in Seq(Pair)
           /\ Len(o) <= Room => Len(Queued(o, f)) <= Room
           /\ Queued(o, f) = o \/ Queued(o, f) = o \o Encode(f)
<1>1. Encode(f) \in Seq(Pair)
  BY EncodeFacts
<1> DEFINE e == Encode(f)
           w == o \o e
<1>2. w \in Seq(Pair) /\ Len(w) = Len(o) + Len(e)
  BY <1>1, ConcatProperties
<1>3. Queued(o, f) = IF Len(o) + Len(e) <= Room THEN w ELSE o
  BY DEF Queued
<1> HIDE DEF w, e
<1>4. CASE Len(o) + Len(e) <= Room
  BY <1>2, <1>3, <1>4 DEF w, e
<1>5. CASE ~(Len(o) + Len(e) <= Room)
  BY <1>3, <1>5
<1> QED
  BY <1>4, <1>5

(* What an outbox holds after each of k frames the board has to say. *)
Sayings(o, m, k) ==
    {g \in [0..k -> Seq(Pair)] :
        g[0] = o /\ \A i \in 1..k : g[i] = Queued(g[i - 1], m + i)}

LEMMA SaysRun ==
    ASSUME NEW t \in Transport, NEW k \in Nat, outbox[t] \in Seq(Pair), nout \in Nat,
           Says(t, k)
    PROVE  /\ nout' = nout + k /\ nout + k <= MaxOut
           /\ \E g \in Sayings(outbox[t], nout, k) : outbox' = [outbox EXCEPT ![t] = g[k]]
<1> DEFINE o == outbox[t]
           G(g) == g = [i \in 0..k |-> IF i = 0 THEN outbox[t] ELSE Queued(g[i-1], nout + i)]
           g1 == CHOOSE g : G(g)
<1>1. /\ nout + k <= MaxOut /\ nout' = nout + k
      /\ outbox' = [outbox EXCEPT ![t] = g1[k]]
  BY DEF Says
<1>2. g1 \in Sayings(o, nout, k)
  <2> DEFINE X == Seq(Pair)
             step == [i \in 1..k |-> [r \in X |-> Queued(r, nout + i)]]
  <2>1. \A i \in 1..k : nout + i \in Nat
    OBVIOUS
  <2>2. \A i \in 1..k, r \in X : Queued(r, nout + i) \in X
    BY <2>1, QueuedFacts
  <2>3. step \in [1..k -> [X -> X]]
    BY <2>2
  <2>4. \A i \in 1..k, r \in X : step[i][r] = Queued(r, nout + i)
    OBVIOUS
  <2>5. o \in X
    OBVIOUS
  <2> HIDE DEF step, X
  <2>6. PICK g \in [0..k -> X] : g[0] = o /\ \A i \in 1..k : g[i] = step[i][g[i - 1]]
    <3>1. Runs(k, X, o, step) # {}
      BY <2>3, <2>5, RunExists
    <3> QED
      BY <3>1 DEF Runs
  <2>7. \A i \in 1..k : i - 1 \in 0..k /\ i \in 0..k
    OBVIOUS
  <2>8. \A i \in 1..k : g[i] = Queued(g[i - 1], nout + i)
    BY <2>4, <2>6, <2>7
  <2> DEFINE w == [i \in 0..k |-> IF i = 0 THEN outbox[t] ELSE Queued(g[i-1], nout + i)]
  <2>9. \A i \in 0..k : g[i] = w[i]
    BY <2>6, <2>8
  <2>10. G(g)
    BY <2>6, <2>9
  <2>11. G(g1)
    BY <2>10
  <2> HIDE DEF g1
  <2>12. /\ DOMAIN g1 = 0..k /\ g1[0] = o
         /\ \A i \in 1..k : g1[i] = Queued(g1[i - 1], nout + i)
    BY <2>11
  <2> DEFINE S == {i \in 0..k : g1[i] \in X}
  <2>13. 0 \in S
    BY <2>5, <2>12
  <2>14. \A i \in 0..(k - 1) : i \in S => i + 1 \in S
    <3> TAKE i \in 0..(k - 1)
    <3> HAVE i \in S
    <3>1. i + 1 \in 1..k /\ (i + 1) - 1 = i /\ i + 1 \in 0..k
      OBVIOUS
    <3>2. g1[i + 1] = Queued(g1[i], nout + (i + 1))
      BY <2>12, <3>1
    <3>3. g1[i] \in X
      OBVIOUS
    <3>4. g1[i + 1] \in X
      BY <2>2, <3>1, <3>2, <3>3
    <3> QED
      BY <3>1, <3>4
  <2> HIDE DEF S
  <2>15. \A i \in 0..k : i \in S
    BY <2>13, <2>14, UpTo
  <2>16. \A i \in 0..k : g1[i] \in X
    BY <2>15 DEF S
  <2>17. g1 = [i \in 0..k |-> IF i = 0 THEN outbox[t] ELSE Queued(g1[i-1], nout + i)]
    BY <2>11
  <2>18. g1 \in [0..k -> X]
    BY <2>16, <2>17
  <2> QED
    BY <2>12, <2>18 DEF Sayings, X
<1> HIDE DEF g1
<1> QED
  BY <1>1, <1>2

LEMMA Joined ==
    \A u, v \in Seq(Pair) : u \o v \in Seq(Pair) /\ Len(u \o v) = Len(u) + Len(v)
<1> TAKE u, v \in Seq(Pair)
<1> QED
  BY ConcatProperties

LEMMA Regrouped ==
    \A u, v, w \in Seq(Pair) : (u \o v) \o w = u \o (v \o w)
<1> TAKE u, v, w \in Seq(Pair)
<1> QED
  BY ConcatAssociative

LEMMA WithNothing ==
    <<>> \in Seq(Pair) /\ \A u \in Seq(Pair) : <<>> \o u = u /\ u \o <<>> = u
<1>1. ASSUME NEW u \in Seq(Pair) PROVE <<>> \o u = u /\ u \o <<>> = u
  BY ConcatEmptySeq
<1> QED
  BY <1>1, EmptySeq

(* Every byte of w is one of z, or newer than n. *)
Adds(w, z, n) ==
    \A x \in 1..Len(w) : w[x] = FEND \/ w[x][1] > n \/ \E y \in 1..Len(z) : w[x] = z[y]

LEMMA MoreToSay ==
    ASSUME NEW b \in Pair, NEW p \in Seq(Pair), NEW o \in Seq(Pair), NEW cut,
           NEW n \in Nat, NEW k \in Nat, NEW g \in Sayings(o, n, k),
           Line(<<b>> \o (p \o o), cut, n), Len(o) <= Room
    PROVE  /\ g[k] \in Seq(Pair) /\ Len(g[k]) <= Room
           /\ Line(<<b>> \o (p \o g[k]), cut, n + k)
           /\ Adds(<<b>> \o (p \o g[k]), <<b>> \o (p \o o), n)
<1> DEFINE z == <<b>> \o (p \o o)
           W(q) == <<b>> \o (p \o q)
           Good(q, m) == Len(q) <= Room /\ Line(W(q), cut, m) /\ Adds(W(q), z, n)
           S == {i \in 0..k : Good(g[i], n + i)}
<1>1. /\ g \in [0..k -> Seq(Pair)] /\ g[0] = o
      /\ \A i \in 1..k : g[i] = Queued(g[i - 1], n + i)
  BY DEF Sayings
<1>2. Good(o, n)
  <2>1. Adds(z, z, n)
    BY DEF Adds
  <2> QED
    BY <2>1
<1>3. ASSUME NEW q \in Seq(Pair), NEW m \in Nat, n <= m, Good(q, m)
      PROVE  Good(Queued(q, m + 1), m + 1)
  <2>1. Good(q, m + 1)
    <3>1. Line(W(q), cut, m) /\ cut \subseteq cut /\ m <= m + 1 /\ m + 1 \in Nat
      BY <1>3
    <3> HIDE DEF W
    <3>2. Line(W(q), cut, m + 1)
      BY <3>1, LineGrows
    <3> QED
      BY <1>3, <3>2
  <2>2. CASE Queued(q, m + 1) = q
    BY <2>1, <2>2
  <2>3. CASE Queued(q, m + 1) = q \o Encode(m + 1)
    <3> DEFINE e == Encode(m + 1)
               r == q \o e
               s == p \o q
    <3>1. e \in Seq(Pair) /\ r \in Seq(Pair) /\ s \in Seq(Pair)
      <4>1. e \in Seq(Pair)
        BY EncodeFacts
      <4> QED
        BY <4>1, ConcatProperties
    <3>2. p \o r = s \o e
      <4>1. \A a, c, d \in Seq(Pair) : (a \o c) \o d = a \o (c \o d)
        BY Regrouped, Zenon
      <4>2. e \in Seq(Pair)
        BY <3>1
      <4> HIDE DEF e
      <4>3. (p \o q) \o e = p \o (q \o e)
        BY <4>1, <4>2, Zenon
      <4> QED
        BY <4>3
    <3>3. /\ Line(<<b>> \o (s \o e), cut, m + 1)
          /\ \A i \in 1..Len(<<b>> \o (s \o e)) :
                LET w == (<<b>> \o (s \o e))[i]
                IN  \/ i \in 1..Len(<<b>> \o s) /\ w = (<<b>> \o s)[i]
                    \/ w = FEND \/ w[1] = m + 1
      <4>1. Line(<<b>> \o s, cut, m)
        BY <1>3
      <4> QED
        BY <3>1, <4>1, OneMore
    <3> DEFINE y == <<b>> \o (s \o e)
    <3>4. y = W(r)
      BY <3>2
    <3>5. /\ Line(y, cut, m + 1)
          /\ \A i \in 1..Len(y) : \/ i \in 1..Len(W(q)) /\ y[i] = W(q)[i]
                                  \/ y[i] = FEND \/ y[i][1] = m + 1
      BY <3>3
    <3>6. Adds(W(q), z, n)
      BY <1>3
    <3> HIDE DEF y, z, W, r
    <3>7. Adds(y, z, n)
      <4> SUFFICES ASSUME NEW i \in 1..Len(y)
                   PROVE  y[i] = FEND \/ y[i][1] > n \/ \E j \in 1..Len(z) : y[i] = z[j]
        BY DEF Adds
      <4>1. CASE i \in 1..Len(W(q)) /\ y[i] = W(q)[i]
        BY <3>6, <4>1 DEF Adds
      <4>2. CASE y[i] = FEND
        BY <4>2
      <4>3. CASE y[i][1] = m + 1
        BY <1>3, <4>3
      <4> QED
        BY <3>5, <4>1, <4>2, <4>3
    <3>8. Len(Queued(q, m + 1)) <= Room
      BY <1>3, QueuedFacts
    <3>9. Queued(q, m + 1) = r
      BY <2>3 DEF r
    <3> QED
      BY <3>4, <3>5, <3>7, <3>8, <3>9
  <2>4. m + 1 \in Nat
    OBVIOUS
  <2>5. Queued(q, m + 1) = q \/ Queued(q, m + 1) = q \o Encode(m + 1)
    BY <2>4, QueuedFacts
  <2> QED
    BY <2>2, <2>3, <2>5
<1> HIDE DEF z, W, Good
<1>4. 0 \in S
  BY <1>1, <1>2
<1>5. \A i \in 0..(k - 1) : i \in S => i + 1 \in S
  <2> TAKE i \in 0..(k - 1)
  <2> HAVE i \in S
  <2>1. /\ i + 1 \in 1..k /\ (i + 1) - 1 = i /\ i + 1 \in 0..k /\ i \in 0..k
        /\ n + i \in Nat /\ n <= n + i /\ n + (i + 1) = (n + i) + 1
    OBVIOUS
  <2>2. g[i + 1] = Queued(g[i], (n + i) + 1) /\ g[i] \in Seq(Pair)
    BY <1>1, <2>1
  <2>3. Good(g[i], n + i)
    OBVIOUS
  <2>4. Good(g[i + 1], n + (i + 1))
    BY <1>3, <2>1, <2>2, <2>3
  <2> QED
    BY <2>1, <2>4
<1> HIDE DEF S
<1>6. \A i \in 0..k : i \in S
  BY <1>4, <1>5, UpTo
<1>7. k \in S /\ g[k] \in Seq(Pair)
  BY <1>1, <1>6
<1>8. Good(g[k], n + k)
  BY <1>7 DEF S
<1> QED
  BY <1>7, <1>8 DEF Good, W, z

LEMMA FirstRest ==
    ASSUME NEW s \in Seq(Pair), NEW k \in Nat
    PROVE  /\ First(s, k) \in Seq(Pair) /\ Rest(s, Least(k, Len(s))) \in Seq(Pair)
           /\ First(s, k) \o Rest(s, Least(k, Len(s))) = s
           /\ Len(First(s, k)) = Least(k, Len(s))
           /\ Least(k, Len(s)) \in 0..Len(s) /\ Least(k, Len(s)) <= k
           /\ Len(Rest(s, Least(k, Len(s)))) = Len(s) - Least(k, Len(s))
           /\ \A i \in 1..Len(Rest(s, Least(k, Len(s)))) :
                 \E j \in 1..Len(s) : Rest(s, Least(k, Len(s)))[i] = s[j]
<1> DEFINE l == Len(s)
           n == Least(k, l)
<1>1. l \in Nat /\ n \in 0..l /\ n <= k
  BY DEF Least
<1>2. \A i \in 1..l : s[i] \in Pair
  OBVIOUS
<1>3. First(s, k) = SubSeq(s, 1, n) /\ Rest(s, n) = SubSeq(s, n + 1, l)
  BY DEF First, Rest
<1> HIDE DEF n, l
<1>4. SubSeq(s, 1, n) \in Seq(Pair) /\ Len(SubSeq(s, 1, n)) = n
  <2>1. \A i \in 1..n : s[i] \in Pair
    BY <1>1, <1>2
  <2>2. 1 \in Int /\ n \in Int
    BY <1>1
  <2>3. /\ SubSeq(s, 1, n) \in Seq(Pair)
        /\ Len(SubSeq(s, 1, n)) = IF 1 <= n THEN (n - 1) + 1 ELSE 0
    BY <2>1, <2>2, SubSeqProperties
  <2> QED
    BY <1>1, <2>3
<1>5. /\ SubSeq(s, n + 1, l) \in Seq(Pair) /\ Len(SubSeq(s, n + 1, l)) = l - n
      /\ \A i \in 1..(l - n) : SubSeq(s, n + 1, l)[i] = s[n + i]
  <2>1. \A i \in (n + 1)..l : s[i] \in Pair
    BY <1>1, <1>2
  <2>2. n + 1 \in Int /\ l \in Int
    BY <1>1
  <2>3. /\ SubSeq(s, n + 1, l) \in Seq(Pair)
        /\ Len(SubSeq(s, n + 1, l)) = IF n + 1 <= l THEN (l - (n + 1)) + 1 ELSE 0
        /\ \A i \in 1..((l - (n + 1)) + 1) : SubSeq(s, n + 1, l)[i] = s[((n + 1) + i) - 1]
    BY <2>1, <2>2, SubSeqProperties
  <2>4. (l - (n + 1)) + 1 = l - n /\ \A i \in 1..(l - n) : ((n + 1) + i) - 1 = n + i
    BY <1>1
  <2>5. Len(SubSeq(s, n + 1, l)) = l - n
    BY <1>1, <2>3
  <2> QED
    BY <2>3, <2>4, <2>5
<1>6. SubSeq(s, 1, n) \o SubSeq(s, n + 1, l) = s
  <2>1. 1 \in 1..(Len(s) + 1) /\ n \in (1 - 1)..Len(s) /\ Len(s) \in n..Len(s)
    BY <1>1 DEF l
  <2>2. SubSeq(s, 1, n) \o SubSeq(s, n + 1, Len(s)) = SubSeq(s, 1, Len(s))
    BY <2>1, ConcatAdjacentSubSeq
  <2>3. SubSeq(s, 1, Len(s)) = s
    BY SubSeqFull
  <2> QED
    BY <2>2, <2>3 DEF l
<1>7. \A i \in 1..(l - n) : n + i \in 1..l
  BY <1>1
<1>8. \A i \in 1..Len(Rest(s, n)) : \E j \in 1..l : Rest(s, n)[i] = s[j]
  BY <1>3, <1>5, <1>7
<1> QED
  BY <1>1, <1>3, <1>4, <1>5, <1>6, <1>8 DEF n, l

-----------------------------------------------------------------------------
(* The hosts' lines *)

LEMMA InKeeps ==
    ASSUME NEW z \in Seq(Pair), NEW d, NEW cut, NEW cut2, NEW n \in Nat, NEW m \in Nat,
           NEW o, NEW o2, NEW t, InGood(z, d, cut, n, o, t),
           cut \subseteq cut2, n <= m, \A f \in 1..n : o2[f] = o[f]
    PROVE  InGood(z, d, cut2, m, o2, t)
<1>1. PICK b \in Pair : /\ Stands(d, b) /\ Line(<<b>> \o z, cut, n)
                        /\ Owned(<<b>> \o z, o, t)
  BY DEF InGood
<1> DEFINE y == <<b>> \o z
<1>2. Line(y, cut, n) /\ Owned(y, o, t)
  BY <1>1
<1> HIDE DEF y
<1>3. Line(y, cut2, m)
  BY <1>2, LineGrows
<1>4. \A i \in 1..Len(y) : Wire(n, y[i])
  BY <1>2 DEF Line
<1>5. Owned(y, o2, t)
  BY <1>2, <1>4 DEF Owned, Wire
<1> QED
  BY <1>1, <1>3, <1>5 DEF InGood, y

LEMMA HeededKeeps ==
    ASSUME NEW s, NEW cut, NEW cut2, NEW n \in Nat, NEW m \in Nat,
           NEW o, NEW o2, NEW t, Heeded(s, cut, n, o, t),
           cut \subseteq cut2, n <= m, \A f \in 1..n : o2[f] = o[f]
    PROVE  Heeded(s, cut2, m, o2, t)
<1>1. \A f \in 1..n : f \in 1..m
  OBVIOUS
<1> QED
  BY <1>1 DEF Heeded

LEMMA FrameIsBeginning ==
    ASSUME NEW s \in Seq(Pair), NEW x, NEW cut, NEW n \in Nat, Wire(n, x), Frame(s, x, cut)
    PROVE  /\ x[1] \in 1..n /\ BeginningOf(s, x[1]) /\ s[1][1] = x[1]
           /\ WholeFrame(s, x[1]) \/ x[1] \in cut
<1>1. x[1] \in 1..n /\ x[2] \in 1..Len(Body(x[1])) /\ x[1] \in Nat
  BY DEF Wire, Frame
<1>2. Holds(s, x[1], x[2]) /\ (x[2] = Len(Body(x[1])) \/ x[1] \in cut)
  BY DEF Frame
<1>3. BeginningOf(s, x[1])
  BY <1>1, <1>2 DEF BeginningOf, Holds
<1>4. WholeFrame(s, x[1]) \/ x[1] \in cut
  BY <1>2 DEF WholeFrame, Holds
<1>5. s[1][1] = x[1]
  BY <1>1, <1>2, HoldsFacts
<1> QED
  BY <1>1, <1>3, <1>4, <1>5

LEMMA InReads ==
    ASSUME NEW d \in Reader, NEW s \in Seq(Pair), NEW r \in Seq(Pair), NEW room \in Nat,
           NEW cut, NEW n \in Nat, NEW o, NEW t,
           InGood(s \o r, d, cut, n, o, t), Len(d.bytes) <= room + 1
    PROVE  LET q == Reads(d, s, room)
           IN  /\ q.dec \in Reader /\ Len(q.dec.bytes) <= room + 1
               /\ q.frames \in Seq(Seq(Pair))
               /\ InGood(r, q.dec, cut, n, o, t) /\ Heeded(q.frames, cut, n, o, t)
<1>1. PICK b \in Pair : /\ Stands(d, b) /\ Line(<<b>> \o (s \o r), cut, n)
                        /\ Owned(<<b>> \o (s \o r), o, t)
  BY DEF InGood
<1> DEFINE z == <<b>> \o (s \o r)
           q == Reads(d, s, room)
           c == z[Len(s) + 1]
           y == <<c>> \o r
<1>2. /\ q.dec \in Reader /\ Stands(q.dec, c)
      /\ Len(q.dec.bytes) <= room + 1 /\ q.frames \in Seq(Seq(Pair))
      /\ HadOf(q.frames, z, Len(s) + 1, cut)
  BY <1>1, ReadsLine
<1>3. /\ c \in Pair /\ Line(y, cut, n)
      /\ \A i \in 1..Len(y) : Len(s) + i \in 1..Len(z) /\ y[i] = z[Len(s) + i]
  BY <1>1, LeftOver
<1>4. Line(z, cut, n) /\ Owned(z, o, t)
  BY <1>1
<1> HIDE DEF z, q
<1>5. InGood(r, q.dec, cut, n, o, t)
  <2>1. Owned(y, o, t)
    <3> HIDE DEF y
    <3> QED
      BY <1>3, <1>4 DEF Owned
  <2> QED
    BY <1>2, <1>3, <2>1 DEF InGood
<1> HIDE DEF c, y
<1>6. Heeded(q.frames, cut, n, o, t)
  <2> SUFFICES ASSUME NEW j \in 1..Len(q.frames)
               PROVE  \E f \in 1..n : /\ BeginningOf(q.frames[j], f) /\ o[f] = t
                                      /\ WholeFrame(q.frames[j], f) \/ f \in cut
    BY DEF Heeded
  <2>1. PICK k \in 1..Len(z) : Frame(q.frames[j], z[k], cut)
    BY <1>2 DEF HadOf
  <2>2. Wire(n, z[k]) /\ q.frames[j] \in Seq(Pair)
    BY <1>2, <1>4 DEF Line
  <2>3. /\ z[k][1] \in 1..n /\ BeginningOf(q.frames[j], z[k][1])
        /\ WholeFrame(q.frames[j], z[k][1]) \/ z[k][1] \in cut
    BY <2>1, <2>2, FrameIsBeginning
  <2>4. o[z[k][1]] = t
    BY <1>4, <2>1 DEF Owned, Frame
  <2> QED
    BY <2>3, <2>4
<1> QED
  BY <1>2, <1>5, <1>6 DEF q

(* What holds of the elements of two sequences does of the two together. *)
LEMMA JoinedElements ==
    ASSUME NEW X, NEW s \in Seq(X), NEW r \in Seq(X)
    PROVE  /\ s \o r \in Seq(X) /\ Len(s) \in Nat /\ Len(r) \in Nat
           /\ Len(s \o r) = Len(s) + Len(r)
           /\ \A i \in 1..Len(s \o r) :
                \/ i \in 1..Len(s) /\ (s \o r)[i] = s[i]
                \/ \E j \in 1..Len(r) : i = Len(s) + j /\ (s \o r)[i] = r[j]
           /\ \A i \in 1..Len(s) : (s \o r)[i] = s[i]
<1> DEFINE u == s \o r
<1>1. /\ u \in Seq(X) /\ Len(u) = Len(s) + Len(r) /\ Len(s) \in Nat /\ Len(r) \in Nat
      /\ \A i \in 1..(Len(s) + Len(r)) : u[i] = IF i <= Len(s) THEN s[i] ELSE r[i - Len(s)]
  BY ConcatProperties
<1> HIDE DEF u
<1>2. ASSUME NEW i \in 1..Len(u)
      PROVE  \/ i \in 1..Len(s) /\ u[i] = s[i]
             \/ \E j \in 1..Len(r) : i = Len(s) + j /\ u[i] = r[j]
  <2>0. i \in 1..(Len(s) + Len(r))
    BY <1>1
  <2>1. CASE i <= Len(s)
    BY <1>1, <2>0, <2>1
  <2>2. CASE ~(i <= Len(s))
    <3>1. i - Len(s) \in 1..Len(r) /\ i = Len(s) + (i - Len(s))
      BY <1>1, <2>0, <2>2
    <3> QED
      BY <1>1, <2>0, <2>2, <3>1
  <2> QED
    BY <2>1, <2>2
<1>3. \A i \in 1..Len(s) : u[i] = s[i]
  <2> TAKE i \in 1..Len(s)
  <2>1. i \in 1..(Len(s) + Len(r)) /\ i <= Len(s)
    BY <1>1
  <2> QED
    BY <1>1, <2>1
<1> QED
  BY <1>1, <1>2, <1>3 DEF u

LEMMA HeededJoined ==
    ASSUME NEW s \in Seq(Seq(Pair)), NEW r \in Seq(Seq(Pair)), NEW cut, NEW n, NEW o, NEW t,
           Heeded(s, cut, n, o, t), Heeded(r, cut, n, o, t)
    PROVE  Heeded(s \o r, cut, n, o, t) /\ s \o r \in Seq(Seq(Pair))
<1> DEFINE u == s \o r
<1>1. /\ u \in Seq(Seq(Pair))
      /\ \A i \in 1..Len(u) : \/ i \in 1..Len(s) /\ u[i] = s[i]
                              \/ \E j \in 1..Len(r) : i = Len(s) + j /\ u[i] = r[j]
  BY JoinedElements
<1> HIDE DEF u
<1>2. \A i \in 1..Len(u) : \/ \E j \in 1..Len(s) : u[i] = s[j]
                           \/ \E j \in 1..Len(r) : u[i] = r[j]
  BY <1>1
<1>3. Heeded(u, cut, n, o, t)
  BY <1>2 DEF Heeded
<1> QED
  BY <1>1, <1>3 DEF u

LEMMA InWrites ==
    ASSUME NEW z \in Seq(Pair), NEW d, NEW cut, NEW n \in Nat,
           NEW o, NEW o2, NEW t, InGood(z, d, cut, n, o, t),
           \A f \in 1..n : o2[f] = o[f], o2[n + 1] = t
    PROVE  InGood(z \o Encode(n + 1), d, cut, n + 1, o2, t)
<1>1. PICK b \in Pair : /\ Stands(d, b) /\ Line(<<b>> \o z, cut, n)
                        /\ Owned(<<b>> \o z, o, t)
  BY DEF InGood
<1> DEFINE y == <<b>> \o z
           w == <<b>> \o (z \o Encode(n + 1))
<1>2. /\ Line(w, cut, n + 1)
      /\ \A i \in 1..Len(w) : \/ i \in 1..Len(y) /\ w[i] = y[i]
                              \/ w[i] = FEND \/ w[i][1] = n + 1
  BY <1>1, OneMore
<1>3. Owned(y, o, t) /\ \A i \in 1..Len(y) : Wire(n, y[i])
  BY <1>1 DEF Line
<1> HIDE DEF y, w
<1>4. Owned(w, o2, t)
  BY <1>2, <1>3 DEF Owned, Wire
<1> QED
  BY <1>1, <1>2, <1>4 DEF InGood, w

LEMMA InCut ==
    ASSUME NEW s \in Seq(Pair), NEW r \in Seq(Pair), NEW d, NEW cut, NEW cut2,
           NEW n \in Nat, NEW o, NEW t, InGood(s \o r, d, cut, n, o, t), cut \subseteq cut2,
           Len(r) > 0 /\ r[1] # FEND => r[1][1] \in cut2
    PROVE  InGood(s, d, cut2, n, o, t)
<1>1. PICK b \in Pair : /\ Stands(d, b) /\ Line(<<b>> \o (s \o r), cut, n)
                        /\ Owned(<<b>> \o (s \o r), o, t)
  BY DEF InGood
<1> DEFINE z == <<b>> \o (s \o r)
           y == <<b>> \o s
<1>2. /\ Line(y, cut2, n)
      /\ \A i \in 1..Len(y) : i \in 1..Len(z) /\ y[i] = z[i]
  BY <1>1, CutOff
<1>3. Owned(z, o, t)
  BY <1>1
<1> HIDE DEF z, y
<1>4. Owned(y, o, t)
  BY <1>2, <1>3 DEF Owned
<1> QED
  BY <1>1, <1>2, <1>4 DEF InGood, y

-----------------------------------------------------------------------------
(* The board's lines *)

LEMMA OutKeeps ==
    ASSUME NEW z \in Seq(Pair), NEW open, NEW open2, NEW d, NEW s, NEW cut, NEW cut2,
           NEW n \in Nat, NEW m \in Nat, OutGood(z, open, d, s, cut, n),
           cut \subseteq cut2, n <= m, open2 => open
    PROVE  OutGood(z, open2, d, s, cut2, m)
<1>1. PICK b \in Pair : /\ Line(<<b>> \o z, cut, n)
                        /\ open => Stands(d, b) /\ Passed(s, <<b>> \o z)
  BY DEF OutGood
<1> DEFINE y == <<b>> \o z
<1>2. Line(y, cut, n)
  BY <1>1
<1> HIDE DEF y
<1>3. Line(y, cut2, m)
  BY <1>2, LineGrows
<1> QED
  BY <1>1, <1>3 DEF OutGood, y

LEMMA ToldKeeps ==
    ASSUME NEW s, NEW cut, NEW cut2, NEW n \in Nat, NEW m \in Nat,
           Told(s, cut, n), cut \subseteq cut2, n <= m
    PROVE  Told(s, cut2, m)
<1>1. \A f \in 1..n : f \in 1..m
  OBVIOUS
<1> QED
  BY <1>1 DEF Told

(* Somebody comes, with a reader that has read nothing. *)
LEMMA OutComes ==
    ASSUME NEW z \in Seq(Pair), NEW open, NEW d, NEW s, NEW cut, NEW n,
           OutGood(z, open, d, s, cut, n)
    PROVE  OutGood(z, TRUE, Fresh, <<>>, cut, n)
<1>1. PICK b \in Pair : Line(<<b>> \o z, cut, n)
  BY DEF OutGood
<1>2. Passed(<<>>, <<b>> \o z)
  BY DEF Passed
<1>3. Stands(Fresh, b)
  BY DEF Stands, Fresh
<1> QED
  BY <1>1, <1>2, <1>3 DEF OutGood

(* Some of the line is dropped, and nobody is there. *)
LEMMA OutDrops ==
    ASSUME NEW s \in Seq(Pair), NEW r \in Seq(Pair), NEW open, NEW d, NEW h, NEW cut, NEW n,
           OutGood(s \o r, open, d, h, cut, n)
    PROVE  OutGood(r, FALSE, d, h, cut, n)
<1>1. PICK b \in Pair : Line(<<b>> \o (s \o r), cut, n)
  BY DEF OutGood
<1> DEFINE c == (<<b>> \o (s \o r))[Len(s) + 1]
<1>2. c \in Pair /\ Line(<<c>> \o r, cut, n)
  BY <1>1, LeftOver
<1> QED
  BY <1>2 DEF OutGood

LEMMA OutCut ==
    ASSUME NEW s \in Seq(Pair), NEW r \in Seq(Pair), NEW open, NEW d, NEW h,
           NEW cut, NEW cut2, NEW n \in Nat, OutGood(s \o r, open, d, h, cut, n),
           cut \subseteq cut2, Len(r) > 0 /\ r[1] # FEND => r[1][1] \in cut2
    PROVE  OutGood(s, open, d, h, cut2, n)
<1>1. PICK b \in Pair : /\ Line(<<b>> \o (s \o r), cut, n)
                        /\ open => Stands(d, b) /\ Passed(h, <<b>> \o (s \o r))
  BY DEF OutGood
<1> DEFINE z == <<b>> \o (s \o r)
           y == <<b>> \o s
<1>2. /\ Line(y, cut2, n)
      /\ \A i \in 1..Len(y) : i \in 1..Len(z) /\ y[i] = z[i]
  BY <1>1, CutOff
<1>3. open => Passed(h, z)
  BY <1>1
<1> HIDE DEF z, y
<1>4. open => Passed(h, y)
  BY <1>2, <1>3 DEF Passed
<1> QED
  BY <1>1, <1>2, <1>4 DEF OutGood, y

LEMMA OutReads ==
    ASSUME NEW d \in Reader, NEW s \in Seq(Pair), NEW r \in Seq(Pair), NEW room \in Nat,
           NEW h \in Seq(Seq(Pair)), NEW cut, NEW n \in Nat,
           OutGood(s \o r, TRUE, d, h, cut, n), Told(h, cut, n), Len(d.bytes) <= room + 1
    PROVE  LET q == Reads(d, s, room)
           IN  /\ q.dec \in Reader /\ h \o q.frames \in Seq(Seq(Pair))
               /\ OutGood(r, TRUE, q.dec, h \o q.frames, cut, n)
               /\ Told(h \o q.frames, cut, n)
<1>1. PICK b \in Pair : /\ Line(<<b>> \o (s \o r), cut, n) /\ Stands(d, b)
                        /\ Passed(h, <<b>> \o (s \o r))
  BY DEF OutGood
<1> DEFINE z == <<b>> \o (s \o r)
           q == Reads(d, s, room)
           c == z[Len(s) + 1]
           y == <<c>> \o r
           fr == q.frames
           u == h \o fr
<1>2. /\ q.dec \in Reader /\ Stands(q.dec, c) /\ fr \in Seq(Seq(Pair))
      /\ HadOf(fr, z, Len(s) + 1, cut)
  BY <1>1, ReadsLine
<1>3. /\ c \in Pair /\ Line(y, cut, n)
      /\ \A i \in 1..Len(y) : Len(s) + i \in 1..Len(z) /\ y[i] = z[Len(s) + i]
  BY <1>1, LeftOver
<1>4. Line(z, cut, n) /\ Passed(h, z)
  BY <1>1
<1> HIDE DEF fr
<1>5. /\ u \in Seq(Seq(Pair)) /\ Len(h) \in Nat /\ Len(fr) \in Nat
      /\ Len(u) = Len(h) + Len(fr)
      /\ \A i \in 1..Len(u) : \/ i \in 1..Len(h) /\ u[i] = h[i]
                              \/ \E j \in 1..Len(fr) : i = Len(h) + j /\ u[i] = fr[j]
      /\ \A i \in 1..Len(h) : u[i] = h[i]
  BY <1>2, JoinedElements
<1> HIDE DEF z, q, c, y, u
<1>6. Passed(u, y)
  <2> SUFFICES ASSUME NEW i \in 1..Len(u), NEW k \in 1..Len(y), y[k] # FEND
               PROVE  u[i][1][1] < y[k][1]
    BY DEF Passed
  <2>1. Len(s) + k \in 1..Len(z) /\ y[k] = z[Len(s) + k]
    BY <1>3
  <2>2. Len(s) + k \in (Len(s) + 1)..Len(z)
    <3>1. Len(s) \in Nat /\ Len(y) \in Nat
      BY <1>3 DEF Line
    <3> QED
      BY <2>1, <3>1
  <2>3. CASE i \in 1..Len(h) /\ u[i] = h[i]
    BY <1>4, <2>1, <2>3 DEF Passed
  <2>4. CASE \E j \in 1..Len(fr) : i = Len(h) + j /\ u[i] = fr[j]
    BY <1>2, <2>1, <2>2, <2>4 DEF HadOf
  <2> QED
    BY <1>5, <2>3, <2>4
<1>7. Told(u, cut, n)
  <2> SUFFICES ASSUME NEW i \in 1..Len(u)
               PROVE  \E f \in 1..n : /\ BeginningOf(u[i], f)
                                      /\ WholeFrame(u[i], f) \/ f \in cut
                                      /\ \A j \in 1..(i - 1) : u[j][1][1] < f
    BY DEF Told
  <2>1. CASE i \in 1..Len(h) /\ u[i] = h[i]
    <3>1. PICK f \in 1..n : /\ BeginningOf(h[i], f)
                            /\ WholeFrame(h[i], f) \/ f \in cut
                            /\ \A j \in 1..(i - 1) : h[j][1][1] < f
      BY <2>1 DEF Told
    <3>2. \A j \in 1..(i - 1) : j \in 1..Len(h)
      BY <1>5, <2>1
    <3>3. \A j \in 1..(i - 1) : u[j][1][1] < f
      BY <1>5, <3>1, <3>2
    <3> QED
      BY <2>1, <3>1, <3>3
  <2>2. CASE \E j \in 1..Len(fr) : i = Len(h) + j /\ u[i] = fr[j]
    <3>1. PICK j \in 1..Len(fr) : i = Len(h) + j /\ u[i] = fr[j]
      BY <2>2
    <3>2. PICK k \in 1..Len(z) : Frame(fr[j], z[k], cut)
      BY <1>2 DEF HadOf
    <3> DEFINE f == z[k][1]
    <3>3. Wire(n, z[k]) /\ fr[j] \in Seq(Pair) /\ z[k] # FEND
      BY <1>2, <1>4, <3>2 DEF Line, Frame
    <3>4. /\ f \in 1..n /\ BeginningOf(fr[j], f) /\ fr[j][1][1] = f
          /\ WholeFrame(fr[j], f) \/ f \in cut
      BY <3>2, <3>3, FrameIsBeginning
    <3>5. \A l \in 1..Len(h) : h[l][1][1] < f
      BY <1>4, <3>3 DEF Passed
    <3>6. \A l \in 1..(j - 1) : fr[l][1][1] < f
      BY <1>2, <3>4 DEF HadOf
    <3> HIDE DEF f
    <3>7. ASSUME NEW l \in 1..(i - 1) PROVE u[l][1][1] < f
      <4>1. l \in 1..Len(u)
        BY <1>5, <3>1
      <4>2. CASE l \in 1..Len(h) /\ u[l] = h[l]
        BY <3>5, <4>2
      <4>3. CASE \E m \in 1..Len(fr) : l = Len(h) + m /\ u[l] = fr[m]
        <5>1. PICK m \in 1..Len(fr) : l = Len(h) + m /\ u[l] = fr[m]
          BY <4>3
        <5>2. m \in 1..(j - 1)
          <6>1. j \in Nat /\ m \in Nat /\ l <= i - 1
            BY <1>5, <3>1
          <6> QED
            BY <1>5, <3>1, <3>7, <5>1, <6>1
        <5> QED
          BY <3>6, <5>1, <5>2
      <4> QED
        BY <1>5, <4>1, <4>2, <4>3
    <3> QED
      BY <3>1, <3>4, <3>7
  <2> QED
    BY <1>5, <2>1, <2>2
<1>8. OutGood(r, TRUE, q.dec, u, cut, n)
  BY <1>2, <1>3, <1>6 DEF OutGood, y
<1> QED
  BY <1>2, <1>5, <1>7, <1>8 DEF q, u, fr

LEMMA OutSays ==
    ASSUME NEW p \in Seq(Pair), NEW o \in Seq(Pair), NEW open, NEW d,
           NEW h \in Seq(Seq(Pair)), NEW cut, NEW n \in Nat, NEW k \in Nat,
           NEW g \in Sayings(o, n, k), OutGood(p \o o, open, d, h, cut, n),
           Told(h, cut, n), Len(o) <= Room
    PROVE  /\ g[k] \in Seq(Pair) /\ Len(g[k]) <= Room
           /\ OutGood(p \o g[k], open, d, h, cut, n + k)
<1>1. PICK b \in Pair : /\ Line(<<b>> \o (p \o o), cut, n)
                        /\ open => Stands(d, b) /\ Passed(h, <<b>> \o (p \o o))
  BY DEF OutGood
<1> DEFINE z == <<b>> \o (p \o o)
           w == <<b>> \o (p \o g[k])
<1>2. /\ g[k] \in Seq(Pair) /\ Len(g[k]) <= Room
      /\ Line(w, cut, n + k) /\ Adds(w, z, n)
  BY <1>1, MoreToSay
<1>3. open => Passed(h, z)
  BY <1>1
<1> HIDE DEF z, w
<1>4. \A i \in 1..Len(h) : h[i][1][1] \in 1..n
  <2> TAKE i \in 1..Len(h)
  <2>1. PICK f \in 1..n : BeginningOf(h[i], f)
    BY DEF Told
  <2>2. PICK j \in 1..Len(Body(f)) : Holds(h[i], f, j)
    BY <2>1 DEF BeginningOf, Holds
  <2>3. h[i] \in Seq(Pair) /\ f \in Nat
    OBVIOUS
  <2>4. h[i][1][1] = f
    BY <2>2, <2>3, HoldsFacts
  <2> QED
    BY <2>4
<1>5. ASSUME open PROVE Passed(h, w)
  <2> SUFFICES ASSUME NEW i \in 1..Len(h), NEW x \in 1..Len(w), w[x] # FEND
               PROVE  h[i][1][1] < w[x][1]
    BY DEF Passed
  <2>1. CASE w[x][1] > n
    <3>1. w[x] \in Pair
      BY <1>2 DEF Line
    <3>2. w[x][1] \in Nat
      BY <3>1 DEF Pair
    <3>3. h[i][1][1] \in 1..n
      BY <1>4
    <3>4. \A a \in 1..n, v \in Nat : v > n => a < v
      OBVIOUS
    <3> QED
      BY <2>1, <3>2, <3>3, <3>4
  <2>2. CASE \E j \in 1..Len(z) : w[x] = z[j]
    BY <1>3, <1>5, <2>2 DEF Passed
  <2> QED
    BY <1>2, <2>1, <2>2 DEF Adds
<1> QED
  BY <1>1, <1>2, <1>5 DEF OutGood, w

-----------------------------------------------------------------------------
(* The invariant, where nothing it is about changes *)

LEMMA InTyped ==
    ASSUME InTypes, NEW t \in Transport
    PROVE  /\ inp[t] \in Seq(Pair) /\ hand[t] \in Seq(Pair) /\ typing[t] \in Seq(Pair)
           /\ dec[t] \in Reader /\ got[t] \in Seq(Seq(Pair)) /\ nin \in Nat
           /\ inp[t] \o hand[t] \in Seq(Pair) /\ InLine(t) \in Seq(Pair)
           /\ InLine(t) = inp[t] \o (hand[t] \o typing[t])
<1>1. /\ inp[t] \in Seq(Pair) /\ hand[t] \in Seq(Pair) /\ typing[t] \in Seq(Pair)
      /\ dec[t] \in Reader /\ got[t] \in Seq(Seq(Pair)) /\ nin \in Nat
  BY DEF InTypes
<1>2. inp[t] \o hand[t] \in Seq(Pair)
  BY <1>1, Joined
<1>3. InLine(t) \in Seq(Pair)
  BY <1>1, <1>2, Joined DEF InLine
<1>4. InLine(t) = inp[t] \o (hand[t] \o typing[t])
  <2>1. inp[t] \in Seq(Pair) /\ hand[t] \in Seq(Pair) /\ typing[t] \in Seq(Pair)
    BY <1>1
  <2> QED
    BY <2>1, Regrouped, Zenon DEF InLine
<1> QED
  BY <1>1, <1>2, <1>3, <1>4

LEMMA OutTyped ==
    ASSUME OutTypes, NEW t \in Transport
    PROVE  /\ outbox[t] \in Seq(Pair) /\ hdec[t] \in Reader /\ shown[t] \in Seq(Seq(Pair))
           /\ Notifying(t) \in Seq(Pair) /\ Piped(t) \in Seq(Pair) /\ nout \in Nat
           /\ Notifying(t) \o Piped(t) \in Seq(Pair) /\ OutLine(t) \in Seq(Pair)
           /\ OutLine(t) = Notifying(t) \o (Piped(t) \o outbox[t])
<1>1. /\ outbox[t] \in Seq(Pair) /\ hdec[t] \in Reader /\ shown[t] \in Seq(Seq(Pair))
      /\ nout \in Nat
  BY DEF OutTypes
<1>2. Notifying(t) \in Seq(Pair) /\ Piped(t) \in Seq(Pair)
  BY WithNothing DEF OutTypes, Notifying, Piped
<1>3. Notifying(t) \o Piped(t) \in Seq(Pair)
  BY <1>2, Joined
<1>4. OutLine(t) \in Seq(Pair)
  BY <1>1, <1>3, Joined DEF OutLine
<1>5. OutLine(t) = Notifying(t) \o (Piped(t) \o outbox[t])
  <2>1. Notifying(t) \in Seq(Pair) /\ Piped(t) \in Seq(Pair) /\ outbox[t] \in Seq(Pair)
    BY <1>1, <1>2
  <2> QED
    BY <2>1, Regrouped, Zenon DEF OutLine
<1> QED
  BY <1>1, <1>2, <1>3, <1>4, <1>5

LEMMA InStays ==
    ASSUME Inward, UNCHANGED <<typing, nin, fromOf, broken, hand, inp, dec, got>>
    PROVE  Inward'
<1>1. InTypes'
  BY DEF Inward, InTypes
<1>2. ASSUME NEW t \in Transport
      PROVE  InInv(t)' /\ TypingInv(t)' /\ Heeded(got[t], broken, nin, fromOf, t)'
  <2>1. InInv(t) /\ TypingInv(t) /\ Heeded(got[t], broken, nin, fromOf, t)
    BY DEF Inward
  <2>2. InInv(t)'
    BY <2>1 DEF InInv, InLine
  <2>3. TypingInv(t)'
    BY <2>1 DEF TypingInv, NewestOf
  <2>4. Heeded(got[t], broken, nin, fromOf, t)'
    BY <2>1
  <2> QED
    BY <2>2, <2>3, <2>4
<1> QED
  BY <1>1, <1>2 DEF Inward

LEMMA OutStays ==
    ASSUME Outward, UNCHANGED <<outbox, outp, notifying, hdec, shown, nout, torn, there>>
    PROVE  Outward'
<1>1. OutTypes'
  BY DEF Outward, OutTypes
<1>2. ASSUME NEW t \in Transport PROVE OutInv(t)' /\ Told(shown[t], torn, nout)'
  BY DEF Outward, OutInv, OutLine, Notifying, Piped
<1> QED
  BY <1>1, <1>2 DEF Outward

-----------------------------------------------------------------------------
(* What the board reads, and the tasks that bring it *)

LEMMA ReadPipeIn ==
    ASSUME Inward, NEW t \in Transport, ReadPipe(t)
    PROVE  Inward'
<1> DEFINE q == Reads(dec[t], inp[t], Buffer)
<1>1. /\ inp' = [inp EXCEPT ![t] = <<>>] /\ dec' = [dec EXCEPT ![t] = q.dec]
      /\ got' = [got EXCEPT ![t] = got[t] \o q.frames]
      /\ UNCHANGED <<typing, nin, fromOf, broken, hand>>
  BY DEF ReadPipe, host
<1>2. InTypes /\ InInv(t) /\ TypingInv(t) /\ Heeded(got[t], broken, nin, fromOf, t)
  BY DEF Inward
<1>3. /\ inp[t] \in Seq(Pair) /\ hand[t] \in Seq(Pair) /\ typing[t] \in Seq(Pair)
      /\ dec[t] \in Reader /\ got[t] \in Seq(Seq(Pair)) /\ nin \in Nat
      /\ InLine(t) = inp[t] \o (hand[t] \o typing[t])
  BY <1>2, InTyped
<1> DEFINE r == hand[t] \o typing[t]
<1>4. r \in Seq(Pair)
  BY <1>3, Joined
<1>5. InGood(inp[t] \o r, dec[t], broken, nin, fromOf, t) /\ Len(dec[t].bytes) <= Buffer + 1
      /\ Buffer \in Nat
  BY <1>2, <1>3 DEF InInv, InTypes
<1>6. /\ q.dec \in Reader /\ Len(q.dec.bytes) <= Buffer + 1 /\ q.frames \in Seq(Seq(Pair))
      /\ InGood(r, q.dec, broken, nin, fromOf, t) /\ Heeded(q.frames, broken, nin, fromOf, t)
  <2> HIDE DEF r
  <2> QED
    BY <1>3, <1>4, <1>5, InReads
<1> HIDE DEF q
<1>7. /\ got[t] \o q.frames \in Seq(Seq(Pair))
      /\ Heeded(got[t] \o q.frames, broken, nin, fromOf, t)
  BY <1>2, <1>3, <1>6, HeededJoined
<1>8. InTypes'
  <2>1. /\ inp' \in [Transport -> Seq(Pair)] /\ dec' \in [Transport -> Reader]
        /\ got' \in [Transport -> Seq(Seq(Pair))]
    BY <1>1, <1>2, <1>6, <1>7, WithNothing DEF InTypes
  <2>2. ASSUME NEW u \in Transport
        PROVE  Len(inp'[u]) <= PipeIn /\ Len(dec'[u].bytes) <= Buffer + 1
    <3>1. Len(<<>>) = 0 /\ PipeIn \in Nat
      BY EmptySeq
    <3>2. Len(inp'[u]) <= PipeIn
      BY <1>1, <1>2, <3>1 DEF InTypes
    <3>3. Len(dec'[u].bytes) <= Buffer + 1
      BY <1>1, <1>2, <1>6 DEF InTypes
    <3> QED
      BY <3>2, <3>3
  <2> QED
    BY <1>1, <1>2, <2>1, <2>2 DEF InTypes
<1>9. ASSUME NEW u \in Transport
      PROVE  InInv(u)' /\ TypingInv(u)' /\ Heeded(got[u], broken, nin, fromOf, u)'
  <2>1. InInv(u) /\ TypingInv(u) /\ Heeded(got[u], broken, nin, fromOf, u)
    BY DEF Inward
  <2>2. TypingInv(u)'
    BY <1>1, <2>1 DEF TypingInv, NewestOf
  <2>3. CASE u = t
    <3>1. inp'[t] = <<>> /\ dec'[t] = q.dec /\ got'[t] = got[t] \o q.frames
      BY <1>1, <1>2 DEF InTypes
    <3>2. InLine(t)' = r
      <4>1. <<>> \o hand[t] = hand[t]
        BY <1>3, WithNothing
      <4> QED
        BY <1>1, <3>1, <4>1 DEF InLine
    <3>3. InInv(t)'
      BY <1>1, <1>6, <3>1, <3>2 DEF InInv
    <3>4. Heeded(got[t], broken, nin, fromOf, t)'
      BY <1>1, <1>7, <3>1
    <3> QED
      BY <2>2, <2>3, <3>3, <3>4
  <2>4. CASE u # t
    <3>1. inp'[u] = inp[u] /\ dec'[u] = dec[u] /\ got'[u] = got[u]
      BY <1>1, <1>2, <2>4 DEF InTypes
    <3>2. InLine(u)' = InLine(u)
      BY <1>1, <3>1 DEF InLine
    <3> QED
      BY <1>1, <2>1, <2>2, <3>1, <3>2 DEF InInv
  <2> QED
    BY <2>3, <2>4
<1> QED
  BY <1>8, <1>9 DEF Inward

LEMMA FeedPipeIn ==
    ASSUME Inward, NEW t \in Transport, FeedPipe(t)
    PROVE  Inward'
<1> DEFINE k == PipeIn - Len(inp[t])
           n == Least(k, Len(hand[t]))
           a == First(hand[t], n)
           c == Rest(hand[t], n)
<1>1. /\ inp' = [inp EXCEPT ![t] = inp[t] \o a] /\ hand' = [hand EXCEPT ![t] = c]
      /\ UNCHANGED <<typing, nin, fromOf, broken, dec, got>> /\ Len(inp[t]) < PipeIn
  BY DEF FeedPipe, host
<1>2. InTypes
  BY DEF Inward
<1>3. /\ inp[t] \in Seq(Pair) /\ hand[t] \in Seq(Pair) /\ typing[t] \in Seq(Pair)
      /\ Len(hand[t]) <= Piece /\ Len(inp[t]) \in Nat /\ Len(hand[t]) \in Nat /\ PipeIn \in Nat
  <2>1. inp[t] \in Seq(Pair) /\ hand[t] \in Seq(Pair) /\ typing[t] \in Seq(Pair)
    BY <1>2, InTyped
  <2>2. Len(hand[t]) <= Piece
    BY <1>2 DEF InTypes
  <2> QED
    BY <2>1, <2>2
<1>4. k \in Nat /\ n \in Nat /\ n <= k /\ n <= Len(hand[t]) /\ Least(n, Len(hand[t])) = n
  <2>1. k \in Nat
    BY <1>1, <1>3
  <2> HIDE DEF k
  <2>2. n \in Nat /\ n <= k /\ n <= Len(hand[t])
    BY <1>3, <2>1 DEF Least
  <2> HIDE DEF n
  <2> QED
    BY <1>3, <2>1, <2>2 DEF Least
<1> HIDE DEF k, n
<1>5. /\ a \in Seq(Pair) /\ c \in Seq(Pair) /\ a \o c = hand[t] /\ Len(a) = n
      /\ Len(c) = Len(hand[t]) - n
  <2> DEFINE s == hand[t]
  <2>1. s \in Seq(Pair) /\ n \in Nat /\ Least(n, Len(s)) = n
    BY <1>3, <1>4
  <2>2. a = First(s, n) /\ c = Rest(s, n)
    OBVIOUS
  <2> HIDE DEF s, a, c
  <2>3. /\ First(s, n) \in Seq(Pair) /\ Rest(s, Least(n, Len(s))) \in Seq(Pair)
        /\ First(s, n) \o Rest(s, Least(n, Len(s))) = s
        /\ Len(First(s, n)) = Least(n, Len(s))
        /\ Len(Rest(s, Least(n, Len(s)))) = Len(s) - Least(n, Len(s))
    BY <2>1, FirstRest
  <2> QED
    BY <2>1, <2>2, <2>3 DEF s
<1> HIDE DEF a, c
<1>6. inp[t] \o a \in Seq(Pair) /\ Len(inp[t] \o a) <= PipeIn /\ Len(c) <= Piece
  <2>1. inp[t] \o a \in Seq(Pair) /\ Len(inp[t] \o a) = Len(inp[t]) + n
    BY <1>3, <1>5, Joined
  <2>2. Len(inp[t]) + n <= PipeIn
    BY <1>3, <1>4 DEF k
  <2>3. Len(c) <= Piece
    BY <1>3, <1>4, <1>5
  <2> QED
    BY <2>1, <2>2, <2>3
<1>7. InTypes'
  <2>1. inp' \in [Transport -> Seq(Pair)] /\ hand' \in [Transport -> Seq(Pair)]
    BY <1>1, <1>2, <1>5, <1>6 DEF InTypes
  <2>2. ASSUME NEW u \in Transport PROVE Len(inp'[u]) <= PipeIn /\ Len(hand'[u]) <= Piece
    BY <1>1, <1>2, <1>6 DEF InTypes
  <2> QED
    BY <1>1, <1>2, <2>1, <2>2 DEF InTypes
<1>8. ASSUME NEW u \in Transport
      PROVE  InInv(u)' /\ TypingInv(u)' /\ Heeded(got[u], broken, nin, fromOf, u)'
  <2>1. InInv(u) /\ TypingInv(u) /\ Heeded(got[u], broken, nin, fromOf, u)
    BY DEF Inward
  <2>2. TypingInv(u)'
    BY <1>1, <2>1 DEF TypingInv, NewestOf
  <2>3. InLine(u)' = InLine(u)
    <3>1. CASE u = t
      <4>1. inp'[t] = inp[t] \o a /\ hand'[t] = c
        BY <1>1, <1>2 DEF InTypes
      <4>2. (inp[t] \o a) \o c = inp[t] \o (a \o c)
        <5>1. inp[t] \in Seq(Pair) /\ a \in Seq(Pair) /\ c \in Seq(Pair)
          BY <1>3, <1>5
        <5> QED
          BY <5>1, Regrouped, Zenon
      <4> QED
        BY <1>1, <1>5, <3>1, <4>1, <4>2 DEF InLine
    <3>2. CASE u # t
      BY <1>1, <1>2, <3>2 DEF InLine, InTypes
    <3> QED
      BY <3>1, <3>2
  <2> QED
    BY <1>1, <2>1, <2>2, <2>3 DEF InInv
<1> QED
  BY <1>7, <1>8 DEF Inward

-----------------------------------------------------------------------------
(* What the hosts do *)

LEMMA LeavesIn ==
    ASSUME Inward, NEW t \in Transport, Leaves(t), UNCHANGED <<hand, inp, dec, got>>
    PROVE  Inward'
<1>1. /\ typing' = [typing EXCEPT ![t] = <<>>] /\ broken' = broken \cup Writing(t)
      /\ UNCHANGED <<nin, fromOf, hand, inp, dec, got>>
  BY DEF Leaves
<1>2. InTypes /\ InInv(t) /\ TypingInv(t)
  BY DEF Inward
<1>3. Writing(t) \subseteq 1..MaxIn /\ broken \subseteq broken' /\ nin \in Nat
  <2>1. nin \in 0..MaxIn /\ MaxIn \in Nat
    BY <1>2 DEF InTypes
  <2>2. Writing(t) \subseteq 1..nin
    BY DEF Writing
  <2>3. 1..nin \subseteq 1..MaxIn
    BY <2>1
  <2> QED
    BY <1>1, <2>1, <2>2, <2>3
<1>4. InTypes'
  <2>1. typing' \in [Transport -> Seq(Pair)]
    BY <1>1, <1>2, WithNothing DEF InTypes
  <2>2. broken' \subseteq 1..MaxIn
    BY <1>1, <1>2, <1>3 DEF InTypes
  <2> QED
    BY <1>1, <1>2, <2>1, <2>2 DEF InTypes
<1>5. Len(typing[t]) > 0 /\ typing[t][1] # FEND => typing[t][1][1] \in broken'
  <2>1. SUFFICES ASSUME Len(typing[t]) > 0, typing[t][1] # FEND
                 PROVE  typing[t][1][1] \in Writing(t)
    BY <1>1
  <2>a. typing[t] \in Seq(Pair)
    BY <1>2, InTyped
  <2>2. Len(typing[t]) \in Nat
    BY <2>a
  <2>3. 1 \in 1..Len(typing[t]) /\ typing[t] # <<>>
    BY <2>1, <2>2
  <2>4. NewestOf(t, typing[t][1][1])
    BY <1>2, <2>1, <2>3 DEF TypingInv
  <2> QED
    BY <2>3, <2>4 DEF NewestOf, Writing
<1>6. ASSUME NEW u \in Transport
      PROVE  InInv(u)' /\ TypingInv(u)' /\ Heeded(got[u], broken, nin, fromOf, u)'
  <2>1. InInv(u) /\ TypingInv(u) /\ Heeded(got[u], broken, nin, fromOf, u)
    BY DEF Inward
  <2>2. /\ InLine(u) \in Seq(Pair) /\ inp[u] \o hand[u] \in Seq(Pair)
        /\ typing[u] \in Seq(Pair)
    BY <1>2, InTyped
  <2>3. Heeded(got[u], broken, nin, fromOf, u)'
    <3>1. Heeded(got[u], broken', nin, fromOf, u)
      BY <1>3, <2>1, HeededKeeps
    <3> QED
      BY <1>1, <3>1
  <2>4. CASE u = t
    <3>1. typing'[t] = <<>>
      BY <1>1, <1>2 DEF InTypes
    <3> DEFINE s == inp[t] \o hand[t]
    <3>2. s \in Seq(Pair) /\ InGood(s \o typing[t], dec[t], broken, nin, fromOf, t)
      BY <1>2, <2>2, <2>4 DEF InInv, InLine
    <3>3. InLine(t)' = s
      <4>1. s \o <<>> = s
        BY <3>2, WithNothing
      <4> QED
        BY <1>1, <3>1, <4>1 DEF InLine
    <3> HIDE DEF s
    <3>4. InGood(s, dec[t], broken', nin, fromOf, t)
      BY <1>3, <1>5, <2>2, <2>4, <3>2, InCut
    <3>5. InInv(t)'
      BY <1>1, <3>3, <3>4 DEF InInv
    <3>6. TypingInv(t)'
      <4>1. Len(typing'[t]) = 0
        BY <3>1
      <4> QED
        BY <4>1 DEF TypingInv
    <3> QED
      BY <2>3, <2>4, <3>5, <3>6
  <2>5. CASE u # t
    <3>1. typing'[u] = typing[u]
      BY <1>1, <1>2, <2>5 DEF InTypes
    <3>2. InLine(u)' = InLine(u) /\ TypingInv(u)'
      BY <1>1, <2>1, <3>1 DEF InLine, TypingInv, NewestOf
    <3>3. InGood(InLine(u), dec[u], broken, nin, fromOf, u)
      BY <2>1 DEF InInv
    <3>4. InGood(InLine(u), dec[u], broken', nin, fromOf, u)
      BY <1>3, <2>2, <3>3, InKeeps
    <3> QED
      BY <1>1, <2>3, <3>2, <3>4 DEF InInv
  <2> QED
    BY <2>4, <2>5
<1> QED
  BY <1>4, <1>6 DEF Inward

LEMMA StartFrameIn ==
    ASSUME Inward, NEW t \in Transport, StartFrame(t)
    PROVE  Inward'
<1>0. PICK n : n = nin + 1
  OBVIOUS
<1>1. /\ typing[t] = <<>> /\ typing' = [typing EXCEPT ![t] = Encode(n)]
      /\ nin' = n /\ fromOf' = [fromOf EXCEPT ![n] = t] /\ nin < MaxIn
      /\ UNCHANGED <<broken, hand, inp, dec, got>>
  BY <1>0 DEF StartFrame, inward
<1>2. InTypes
  BY DEF Inward
<1>3. /\ nin \in Nat /\ n \in Nat /\ n \in 1..MaxIn /\ nin <= n
      /\ \A f \in 1..nin : f \in 1..MaxIn /\ f # n
  <2>1. nin \in 0..MaxIn /\ MaxIn \in Nat
    BY <1>2 DEF InTypes
  <2> QED
    BY <1>0, <1>1, <2>1
<1>4. Encode(n) \in Seq(Pair)
  BY <1>3, EncodeFacts
<1>5. fromOf'[n] = t /\ \A f \in 1..MaxIn : f # n => fromOf'[f] = fromOf[f]
  BY <1>1, <1>2, <1>3 DEF InTypes
<1>6. \A f \in 1..nin : fromOf'[f] = fromOf[f]
  BY <1>3, <1>5
<1>7. InTypes'
  <2>1. typing' \in [Transport -> Seq(Pair)]
    BY <1>1, <1>2, <1>4 DEF InTypes
  <2>2. fromOf' \in [1..MaxIn -> Transport]
    BY <1>1, <1>2 DEF InTypes
  <2>3. nin' \in 0..MaxIn
    BY <1>1, <1>3
  <2> QED
    BY <1>1, <1>2, <2>1, <2>2, <2>3 DEF InTypes
<1>8. ASSUME NEW u \in Transport
      PROVE  InInv(u)' /\ TypingInv(u)' /\ Heeded(got[u], broken, nin, fromOf, u)'
  <2>1. InInv(u) /\ TypingInv(u) /\ Heeded(got[u], broken, nin, fromOf, u)
    BY DEF Inward
  <2>2. /\ InLine(u) \in Seq(Pair) /\ inp[u] \o hand[u] \in Seq(Pair)
        /\ typing[u] \in Seq(Pair)
    BY <1>2, InTyped
  <2>3. Heeded(got[u], broken, nin, fromOf, u)'
    <3>1. Heeded(got[u], broken, n, fromOf', u)
      <4> QED
        BY <1>3, <1>6, <2>1, HeededKeeps
    <3> QED
      BY <1>1, <3>1
  <2>4. CASE u = t
    <3>1. typing'[t] = Encode(n)
      BY <1>1, <1>2 DEF InTypes
    <3> DEFINE s == inp[t] \o hand[t]
    <3>2. s \in Seq(Pair) /\ s \o <<>> = s
      BY <2>2, <2>4, WithNothing
    <3>3. InGood(s, dec[t], broken, nin, fromOf, t)
      BY <1>1, <2>1, <2>4, <3>2 DEF InInv, InLine
    <3>4. InLine(t)' = s \o Encode(n)
      BY <1>1, <3>1 DEF InLine
    <3> HIDE DEF s
    <3>5. InGood(s \o Encode(n), dec[t], broken, n, fromOf', t)
      <4> DEFINE o2 == fromOf'
      <4>1. o2[nin + 1] = t /\ \A f \in 1..nin : o2[f] = fromOf[f]
        BY <1>0, <1>5, <1>6
      <4> HIDE DEF o2
      <4>2. InGood(s \o Encode(nin + 1), dec[t], broken, nin + 1, o2, t)
        <5> DEFINE d == dec[t]
                   z == s
        <5>1. z \in Seq(Pair) /\ nin \in Nat /\ InGood(z, d, broken, nin, fromOf, t)
          BY <1>3, <3>2, <3>3
        <5> HIDE DEF d, z
        <5>2. InGood(z \o Encode(nin + 1), d, broken, nin + 1, o2, t)
          <6>1. o2[nin + 1] = t
            BY <4>1
          <6>2. \A f \in 1..nin : o2[f] = fromOf[f]
            BY <4>1
          <6> QED
            BY <5>1, <6>1, <6>2, InWrites, ZenonT(60)
        <5> QED
          BY <5>2 DEF d, z
      <4> QED
        BY <1>0, <4>2 DEF o2
    <3>6. InInv(t)'
      BY <1>1, <3>4, <3>5 DEF InInv
    <3>7. TypingInv(t)'
      <4>1. NewestOf(t, n)'
        <5>1. \A g \in (n + 1)..n : FALSE
          BY <1>3
        <5>2. n \in 1..n
          BY <1>3
        <5> QED
          BY <1>1, <1>5, <5>1, <5>2 DEF NewestOf
      <4>2. /\ Len(Encode(n)) = Len(Body(n)) + 2 /\ Encode(n)[1] = FEND
            /\ Encode(n)[Len(Body(n)) + 2] = FEND
            /\ \A i \in 1..Len(Body(n)) : Encode(n)[i + 1] = <<n, i>>
            /\ Len(Body(n)) \in Nat
        BY <1>3, EncodeFacts, BodyFacts
      <4> DEFINE e == Encode(n)
                 m == Len(Body(n))
      <4>3. Len(e) = m + 2 /\ e[1] = FEND /\ e[m + 2] = FEND /\ m \in Nat
            /\ \A i \in 1..m : e[i + 1] = <<n, i>>
        BY <4>2
      <4>4. typing'[t] = e
        BY <3>1
      <4> HIDE DEF e, m
      <4>5. ASSUME NEW i \in 1..Len(e), e[i] # FEND PROVE e[i][1] = n
        <5>1. i # 1 /\ i # m + 2
          BY <4>3, <4>5
        <5>2. i - 1 \in 1..m /\ (i - 1) + 1 = i
          BY <4>3, <5>1
        <5> QED
          BY <4>3, <5>2
      <4> QED
        BY <4>1, <4>4, <4>5 DEF TypingInv
    <3> QED
      BY <2>3, <2>4, <3>6, <3>7
  <2>5. CASE u # t
    <3>1. typing'[u] = typing[u]
      BY <1>1, <1>2, <2>5 DEF InTypes
    <3>2. InLine(u)' = InLine(u)
      BY <1>1, <3>1 DEF InLine
    <3>3. InGood(InLine(u), dec[u], broken, nin, fromOf, u)
      BY <2>1 DEF InInv
    <3>4. InGood(InLine(u), dec[u], broken, n, fromOf', u)
      <4> QED
        BY <1>3, <1>6, <2>2, <3>3, InKeeps
    <3>5. TypingInv(u)'
      <4> SUFFICES ASSUME NEW i \in 1..Len(typing[u]), typing[u][i] # FEND
                   PROVE  NewestOf(u, typing[u][i][1])'
        BY <3>1 DEF TypingInv
      <4>0. PICK f : f = typing[u][i][1]
        OBVIOUS
      <4>1. NewestOf(u, f)
        BY <2>1, <4>0 DEF TypingInv
      <4>2. f \in 1..nin /\ fromOf[f] = u /\ \A g \in (f + 1)..nin : fromOf[g] # u
        BY <4>1 DEF NewestOf
      <4>3. f \in 1..n /\ fromOf'[f] = u
        BY <1>3, <1>6, <4>2
      <4>4. ASSUME NEW g \in (f + 1)..n PROVE fromOf'[g] # u
        <5>1. CASE g = n
          BY <1>5, <2>5, <5>1
        <5>2. CASE g # n
          <6>1. g \in (f + 1)..nin /\ g \in 1..nin
            <7>1. f \in Nat /\ 1 <= f
              BY <1>3, <4>2
            <7>2. g \in Nat /\ f + 1 <= g /\ g <= nin
              BY <1>0, <1>3, <5>2, <7>1
            <7> QED
              BY <1>3, <7>1, <7>2
          <6> QED
            BY <1>6, <4>2, <6>1
        <5> QED
          BY <5>1, <5>2
      <4>5. NewestOf(u, f)'
        <5>2. f \in 1..nin' /\ fromOf'[f] = u /\ \A g \in (f + 1)..nin' : fromOf'[g] # u
          BY <1>1, <4>3, <4>4
        <5> QED
          BY <5>2 DEF NewestOf
      <4> QED
        BY <4>0, <4>5, <1>1, <3>1 DEF NewestOf
    <3> QED
      BY <1>1, <2>3, <3>2, <3>4, <3>5 DEF InInv
  <2> QED
    BY <2>4, <2>5
<1> QED
  BY <1>7, <1>8 DEF Inward

LEMMA WriteIn ==
    ASSUME Inward, NEW t \in Transport, Write(t)
    PROVE  Inward'
<1> DEFINE s == typing[t]
           a == First(s, Piece)
           c == Rest(s, Least(Piece, Len(s)))
<1>1. /\ hand[t] = <<>> /\ hand' = [hand EXCEPT ![t] = a] /\ typing' = [typing EXCEPT ![t] = c]
      /\ UNCHANGED <<nin, fromOf, broken, inp, dec, got>>
  BY DEF Write, Takes
<1>2. InTypes
  BY DEF Inward
<1>3. s \in Seq(Pair) /\ inp[t] \in Seq(Pair) /\ Piece \in Nat
  BY <1>2, InTyped
<1>4. /\ a \in Seq(Pair) /\ c \in Seq(Pair) /\ a \o c = s /\ Len(a) <= Piece
      /\ \A i \in 1..Len(c) : \E j \in 1..Len(s) : c[i] = s[j]
  <2> HIDE DEF s
  <2> QED
    BY <1>3, FirstRest
<1> HIDE DEF a, c
<1>5. InTypes'
  <2>1. hand' \in [Transport -> Seq(Pair)] /\ typing' \in [Transport -> Seq(Pair)]
    BY <1>1, <1>2, <1>4 DEF InTypes
  <2>2. ASSUME NEW u \in Transport PROVE Len(hand'[u]) <= Piece
    BY <1>1, <1>2, <1>4 DEF InTypes
  <2> QED
    BY <1>1, <1>2, <2>1, <2>2 DEF InTypes
<1>6. ASSUME NEW u \in Transport
      PROVE  InInv(u)' /\ TypingInv(u)' /\ Heeded(got[u], broken, nin, fromOf, u)'
  <2>1. InInv(u) /\ TypingInv(u) /\ Heeded(got[u], broken, nin, fromOf, u)
    BY DEF Inward
  <2>2. InLine(u)' = InLine(u) /\ TypingInv(u)'
    <3>1. CASE u = t
      <4>1. hand'[t] = a /\ typing'[t] = c
        BY <1>1, <1>2 DEF InTypes
      <4>2. (inp[t] \o a) \o c = inp[t] \o s
        <5> HIDE DEF s
        <5>1. (inp[t] \o a) \o c = inp[t] \o (a \o c)
          <6>1. inp[t] \in Seq(Pair) /\ a \in Seq(Pair) /\ c \in Seq(Pair)
            BY <1>3, <1>4
          <6> QED
            BY <6>1, Regrouped, Zenon
        <5> QED
          BY <1>4, <5>1
      <4>3. inp[t] \o <<>> = inp[t]
        BY <1>3, WithNothing
      <4>4. InLine(t)' = InLine(t)
        BY <1>1, <4>1, <4>2, <4>3 DEF InLine
      <4>5. TypingInv(t)'
        <5>1. \A i \in 1..Len(s) : s[i] # FEND => NewestOf(t, s[i][1])
          BY <2>1, <3>1 DEF TypingInv
        <5>2. \A i \in 1..Len(c) : c[i] # FEND => NewestOf(t, c[i][1])
          BY <1>4, <5>1
        <5>3. \A f : NewestOf(t, f) => NewestOf(t, f)'
          BY <1>1 DEF NewestOf
        <5> QED
          BY <4>1, <5>2, <5>3 DEF TypingInv
      <4> QED
        BY <3>1, <4>4, <4>5
    <3>2. CASE u # t
      <4>1. hand'[u] = hand[u] /\ typing'[u] = typing[u]
        BY <1>1, <1>2, <3>2 DEF InTypes
      <4> QED
        BY <1>1, <2>1, <4>1 DEF InLine, TypingInv, NewestOf
    <3> QED
      BY <3>1, <3>2
  <2> QED
    BY <1>1, <2>1, <2>2 DEF InInv
<1> QED
  BY <1>5, <1>6 DEF Inward

-----------------------------------------------------------------------------
(* What the board says, and what becomes of it *)

(* A step that is about one transport *)
LEMMA OutStep ==
    ASSUME Outward, OutTypes', NEW t \in Transport,
           torn \subseteq torn', nout <= nout',
           \A u \in Transport \ {t} :
               /\ OutLine(u)' = OutLine(u) /\ there'[u] = there[u]
               /\ hdec'[u] = hdec[u] /\ shown'[u] = shown[u],
           OutInv(t)', Told(shown'[t], torn', nout')
    PROVE  Outward'
<1>1. ASSUME NEW u \in Transport, u # t PROVE OutInv(u)' /\ Told(shown'[u], torn', nout')
  <2>1. OutInv(u) /\ Told(shown[u], torn, nout) /\ OutTypes
    BY DEF Outward
  <2>2. /\ OutLine(u)' = OutLine(u) /\ there'[u] = there[u]
        /\ hdec'[u] = hdec[u] /\ shown'[u] = shown[u]
    BY <1>1
  <2>3. nout \in Nat /\ nout' \in Nat /\ OutLine(u) \in Seq(Pair)
    <3>1. nout \in Nat /\ OutLine(u) \in Seq(Pair)
      BY <2>1, OutTyped
    <3>2. nout' \in Nat
      BY DEF OutTypes
    <3> QED
      BY <3>1, <3>2
  <2>4. OutGood(OutLine(u), there[u], hdec[u], shown[u], torn, nout)
    BY <2>1 DEF OutInv
  <2>5. PICK c : c = torn'
    OBVIOUS
  <2>6. PICK m : m = nout'
    OBVIOUS
  <2>7. OutGood(OutLine(u), there[u], hdec[u], shown[u], c, m)
    <3>1. torn \subseteq c /\ m \in Nat /\ nout <= m
      BY <2>3, <2>5, <2>6
    <3> QED
      BY <2>3, <2>4, <3>1, OutKeeps
  <2>8. Told(shown[u], c, m)
    <3>1. torn \subseteq c /\ m \in Nat /\ nout <= m
      BY <2>3, <2>5, <2>6
    <3> QED
      BY <2>1, <2>3, <3>1, ToldKeeps
  <2>9. OutInv(u)'
    BY <2>2, <2>5, <2>6, <2>7 DEF OutInv
  <2> QED
    BY <2>2, <2>5, <2>6, <2>8, <2>9
<1>2. \A u \in Transport : OutInv(u)' /\ Told(shown'[u], torn', nout')
  BY <1>1
<1> QED
  BY <1>2 DEF Outward

LEMMA SaysOut ==
    ASSUME Outward, NEW t \in Transport, NEW k \in Nat, Says(t, k),
           UNCHANGED <<outp, notifying, hdec, shown, torn, there>>
    PROVE  Outward'
<1>1. OutTypes /\ OutInv(t) /\ Told(shown[t], torn, nout)
  BY DEF Outward
<1>2. /\ outbox[t] \in Seq(Pair) /\ shown[t] \in Seq(Seq(Pair)) /\ nout \in Nat
      /\ Notifying(t) \o Piped(t) \in Seq(Pair)
  BY <1>1, OutTyped
<1>3. nout' = nout + k /\ nout + k <= MaxOut
      /\ \E g \in Sayings(outbox[t], nout, k) : outbox' = [outbox EXCEPT ![t] = g[k]]
  BY <1>2, SaysRun
<1>4. PICK g \in Sayings(outbox[t], nout, k) : outbox' = [outbox EXCEPT ![t] = g[k]]
  BY <1>3
<1>a. PICK p : p = Notifying(t) \o Piped(t)
  OBVIOUS
<1>5. /\ g[k] \in Seq(Pair) /\ Len(g[k]) <= Room
      /\ OutGood(p \o g[k], there[t], hdec[t], shown[t], torn, nout + k)
  <2>1. OutGood(p \o outbox[t], there[t], hdec[t], shown[t], torn, nout)
    BY <1>1, <1>a DEF OutInv, OutLine
  <2>2. Len(outbox[t]) <= Room /\ p \in Seq(Pair)
    BY <1>1, <1>2, <1>a DEF OutTypes
  <2> QED
    BY <1>1, <1>2, <2>1, <2>2, OutSays
<1>6. outbox'[t] = g[k] /\ \A u \in Transport \ {t} : outbox'[u] = outbox[u]
  BY <1>1, <1>4 DEF OutTypes
<1>7. OutTypes'
  <2>1. outbox' \in [Transport -> Seq(Pair)]
    BY <1>1, <1>4, <1>5 DEF OutTypes
  <2>2. \A u \in Transport : Len(outbox'[u]) <= Room
    BY <1>1, <1>5, <1>6 DEF OutTypes
  <2>3. nout' \in 0..MaxOut
    BY <1>2, <1>3
  <2> QED
    BY <1>1, <2>1, <2>2, <2>3 DEF OutTypes
<1>8. \A u \in Transport \ {t} : OutLine(u)' = OutLine(u)
  BY <1>6 DEF OutLine, Notifying, Piped
<1>9. OutInv(t)'
  <2>1. OutLine(t)' = p \o g[k]
    BY <1>a, <1>6 DEF OutLine, Notifying, Piped
  <2> QED
    BY <1>3, <1>5, <2>1 DEF OutInv
<1>10. nout <= nout' /\ nout + k \in Nat /\ nout <= nout + k
  BY <1>2, <1>3
<1>11. Told(shown'[t], torn', nout')
  <2>1. Told(shown[t], torn, nout + k)
    BY <1>1, <1>2, <1>10, ToldKeeps
  <2> QED
    BY <1>3, <2>1
<1> QED
  BY <1>7, <1>8, <1>9, <1>10, <1>11, OutStep

LEMMA DeliveredOut ==
    ASSUME Outward, NEW t \in Transport, NEW s \in Seq(Pair), NEW r \in Seq(Pair),
           there[t], OutLine(t) = s \o r, Delivered(t, s), OutLine(t)' = r,
           \A u \in Transport \ {t} : OutLine(u)' = OutLine(u),
           UNCHANGED <<there, torn, nout>>,
           outbox' \in [Transport -> Seq(Pair)], \A u \in Transport : Len(outbox'[u]) <= Room,
           outp' \in Seq(Pair), notifying' \in Seq(Pair), Len(outp') <= PipeOut
    PROVE  Outward'
<1> DEFINE room == Len(s) + Len(hdec[t].bytes)
           q == Reads(hdec[t], s, room)
           h == shown[t] \o q.frames
<1>1. OutTypes /\ OutInv(t) /\ Told(shown[t], torn, nout)
  BY DEF Outward
<1>2. shown[t] \in Seq(Seq(Pair)) /\ hdec[t] \in Reader /\ nout \in Nat
  BY <1>1, OutTyped
<1>3. hdec' = [hdec EXCEPT ![t] = q.dec] /\ shown' = [shown EXCEPT ![t] = h]
  BY DEF Delivered
<1>4. room \in Nat /\ Len(hdec[t].bytes) <= room + 1
  <2>1. hdec[t].bytes \in Seq(Pair)
    BY <1>2 DEF Reader
  <2>2. Len(hdec[t].bytes) \in Nat /\ Len(s) \in Nat
    BY <2>1
  <2> QED
    BY <2>2
<1>5. OutGood(s \o r, TRUE, hdec[t], shown[t], torn, nout)
  <2>1. there[t] \in BOOLEAN => there[t] = TRUE
    OBVIOUS
  <2>2. OutGood(s \o r, there[t], hdec[t], shown[t], torn, nout)
    BY <1>1 DEF OutInv
  <2> QED
    BY <2>2 DEF OutGood
<1>6. /\ q.dec \in Reader /\ h \in Seq(Seq(Pair))
      /\ OutGood(r, TRUE, q.dec, h, torn, nout) /\ Told(h, torn, nout)
  <2> HIDE DEF room
  <2> QED
    BY <1>1, <1>2, <1>4, <1>5, OutReads
<1> HIDE DEF h, q
<1>7. /\ hdec'[t] = q.dec /\ shown'[t] = h
      /\ \A u \in Transport \ {t} : hdec'[u] = hdec[u] /\ shown'[u] = shown[u]
  BY <1>1, <1>3 DEF OutTypes
<1>8. OutTypes'
  <2>1. hdec' \in [Transport -> Reader] /\ shown' \in [Transport -> Seq(Seq(Pair))]
    BY <1>1, <1>3, <1>6 DEF OutTypes
  <2> QED
    BY <1>1, <2>1 DEF OutTypes
<1>9. OutInv(t)'
  <2>1. OutGood(r, there[t], q.dec, h, torn, nout)
    BY <1>6 DEF OutGood
  <2> QED
    BY <1>7, <2>1 DEF OutInv
<1>10. torn \subseteq torn' /\ nout <= nout' /\ Told(shown'[t], torn', nout')
  BY <1>2, <1>6, <1>7
<1> QED
  BY <1>7, <1>8, <1>9, <1>10, OutStep

LEMMA AbandonedOut ==
    ASSUME Outward, NEW t \in Transport, outbox' = Abandoned(t),
           torn' = torn \cup Begun(outbox[t]),
           UNCHANGED <<outp, notifying, hdec, shown, nout, there>>
    PROVE  Outward'
<1>1. OutTypes /\ OutInv(t) /\ Told(shown[t], torn, nout)
  BY DEF Outward
<1>a. PICK p : p = Notifying(t) \o Piped(t)
  OBVIOUS
<1>b. PICK o : o = outbox[t]
  OBVIOUS
<1>2. o \in Seq(Pair) /\ p \in Seq(Pair) /\ nout \in Nat /\ Len(o) \in Nat
  <2>1. outbox[t] \in Seq(Pair) /\ Notifying(t) \o Piped(t) \in Seq(Pair) /\ nout \in Nat
    BY <1>1, OutTyped
  <2>2. o \in Seq(Pair) /\ p \in Seq(Pair)
    BY <1>a, <1>b, <2>1
  <2>3. Len(o) \in Nat
    BY <2>2
  <2> QED
    BY <2>1, <2>2, <2>3
<1>3. outbox'[t] = <<>> /\ \A u \in Transport \ {t} : outbox'[u] = outbox[u]
  BY <1>1 DEF Abandoned, OutTypes
<1>4. OutGood(p \o o, there[t], hdec[t], shown[t], torn, nout)
  BY <1>1, <1>a, <1>b DEF OutInv, OutLine
<1>5. Begun(o) \subseteq 1..MaxOut
  <2>1. SUFFICES ASSUME o # <<>>, o[1] # FEND PROVE o[1][1] \in 1..MaxOut
    BY DEF Begun
  <2>2. PICK b \in Pair : Line(<<b>> \o (p \o o), torn, nout)
    BY <1>4 DEF OutGood
  <2> DEFINE z == <<b>> \o (p \o o)
  <2>3. /\ Len(z) = (1 + Len(p)) + Len(o) /\ Len(p) \in Nat
        /\ \A i \in 1..Len(o) : z[(1 + Len(p)) + i] = o[i]
    BY <1>2, LineFacts
  <2>4. \A i \in 1..Len(z) : Wire(nout, z[i])
    BY <2>2 DEF Line
  <2> HIDE DEF z
  <2>5. Len(o) > 0
    BY <1>2, <2>1, EmptySeq
  <2>6. 1 \in 1..Len(o) /\ (1 + Len(p)) + 1 \in 1..Len(z)
    BY <1>2, <2>3, <2>5
  <2>7. Wire(nout, o[1])
    BY <2>3, <2>4, <2>6
  <2>8. nout \in 0..MaxOut /\ MaxOut \in Nat
    BY <1>1 DEF OutTypes
  <2>9. o[1][1] \in 1..nout
    BY <2>1, <2>7 DEF Wire
  <2> QED
    BY <2>8, <2>9
<1>6. OutTypes'
  <2>1. outbox' \in [Transport -> Seq(Pair)]
    BY <1>1, WithNothing DEF Abandoned, OutTypes
  <2>2. \A u \in Transport : Len(outbox'[u]) <= Room
    <3>1. Len(<<>>) <= Room
      BY EmptySeq
    <3> QED
      BY <1>1, <1>3, <3>1 DEF OutTypes
  <2>3. torn' \subseteq 1..MaxOut
    BY <1>1, <1>5, <1>b DEF OutTypes
  <2> QED
    BY <1>1, <2>1, <2>2, <2>3 DEF OutTypes
<1>7. \A u \in Transport \ {t} : OutLine(u)' = OutLine(u)
  BY <1>3 DEF OutLine, Notifying, Piped
<1>c. PICK c : c = torn'
  OBVIOUS
<1>8. OutGood(p, there[t], hdec[t], shown[t], c, nout)
  <2>1. torn \subseteq c
    BY <1>c
  <2>2. Len(o) > 0 /\ o[1] # FEND => o[1][1] \in c
    <3>1. SUFFICES ASSUME Len(o) > 0, o[1] # FEND PROVE o[1][1] \in Begun(o)
      BY <1>b, <1>c
    <3>2. o # <<>>
      BY <3>1, EmptySeq
    <3> QED
      BY <3>1, <3>2 DEF Begun
  <2> QED
    BY <1>2, <1>4, <2>1, <2>2, OutCut
<1>9. OutInv(t)'
  <2>1. p \o <<>> = p
    BY <1>2, WithNothing
  <2>2. OutLine(t)' = p
    BY <1>a, <1>3, <2>1 DEF OutLine, Notifying, Piped
  <2> QED
    BY <1>c, <1>8, <2>2 DEF OutInv
<1>10. torn \subseteq torn' /\ nout <= nout' /\ Told(shown'[t], torn', nout')
  <2>1. torn \subseteq c
    BY <1>c
  <2>2. Told(shown[t], c, nout)
    BY <1>1, <1>2, <2>1, ToldKeeps
  <2> QED
    BY <1>2, <1>c, <2>1, <2>2
<1> QED
  BY <1>6, <1>7, <1>9, <1>10, OutStep

LEMMA FlushPacketOut ==
    ASSUME Outward, FlushPacket
    PROVE  Outward'
<1>t. PICK t \in Transport : t = "usb"
  BY DEF Transport
<1>1. OutTypes
  BY DEF Outward
<1>a. PICK o : o = outbox[t]
  OBVIOUS
<1>b. PICK s : s = First(o, Piece)
  OBVIOUS
<1>c. PICK r : r = Rest(o, Least(Piece, Len(o)))
  OBVIOUS
<1>2. o \in Seq(Pair) /\ Piece \in Nat /\ Len(o) <= Room
  BY <1>1, <1>a DEF OutTypes
<1>3. /\ s \in Seq(Pair) /\ r \in Seq(Pair) /\ s \o r = o /\ Len(r) <= Room
  <2>1. /\ s \in Seq(Pair) /\ r \in Seq(Pair) /\ s \o r = o
        /\ Len(r) = Len(o) - Least(Piece, Len(o)) /\ Least(Piece, Len(o)) \in 0..Len(o)
    BY <1>2, <1>b, <1>c, FirstRest
  <2>2. Len(o) \in Nat
    BY <1>2
  <2> QED
    BY <1>2, <2>1, <2>2
<1>4. /\ there[t] /\ Delivered(t, s) /\ outbox' = [outbox EXCEPT ![t] = r]
      /\ UNCHANGED <<there, torn, nout, outp, notifying>>
  BY <1>t, <1>a, <1>b, <1>c DEF FlushPacket, host
<1>5. outbox'[t] = r /\ \A u \in Transport \ {t} : outbox'[u] = outbox[u]
  BY <1>1, <1>4 DEF OutTypes
<1>6. OutLine(t) = s \o r /\ OutLine(t)' = r
  <2>1. Notifying(t) = <<>> /\ Piped(t) = <<>> /\ Notifying(t)' = <<>> /\ Piped(t)' = <<>>
    BY <1>t DEF Notifying, Piped
  <2>2. <<>> \o <<>> = <<>> /\ <<>> \o o = o /\ <<>> \o r = r
    BY <1>2, <1>3, WithNothing
  <2>3. OutLine(t) = o
    BY <1>a, <2>1, <2>2 DEF OutLine
  <2>4. OutLine(t)' = r
    BY <1>5, <2>1, <2>2 DEF OutLine
  <2> QED
    BY <1>3, <2>3, <2>4
<1>7. \A u \in Transport \ {t} : OutLine(u)' = OutLine(u)
  BY <1>4, <1>5 DEF OutLine, Notifying, Piped
<1>8. /\ outbox' \in [Transport -> Seq(Pair)] /\ \A u \in Transport : Len(outbox'[u]) <= Room
      /\ outp' \in Seq(Pair) /\ notifying' \in Seq(Pair) /\ Len(outp') <= PipeOut
  BY <1>1, <1>3, <1>4, <1>5 DEF OutTypes
<1> QED
  BY <1>3, <1>4, <1>6, <1>7, <1>8, DeliveredOut

LEMMA NotifyOut ==
    ASSUME Outward, Notify
    PROVE  Outward'
<1>t. PICK t \in Transport : t = "ble"
  BY DEF Transport
<1>1. OutTypes
  BY DEF Outward
<1>a. PICK s : s = First(notifying, Piece)
  OBVIOUS
<1>b. PICK c : c = Rest(notifying, Least(Piece, Len(notifying)))
  OBVIOUS
<1>c. PICK r : r = (c \o outp) \o outbox[t]
  OBVIOUS
<1>2. notifying \in Seq(Pair) /\ outp \in Seq(Pair) /\ outbox[t] \in Seq(Pair) /\ Piece \in Nat
  BY <1>1 DEF OutTypes
<1>3. s \in Seq(Pair) /\ c \in Seq(Pair) /\ s \o c = notifying
  BY <1>2, <1>a, <1>b, FirstRest
<1>4. c \o outp \in Seq(Pair) /\ r \in Seq(Pair)
  BY <1>2, <1>3, <1>c, Joined
<1>5. /\ there[t] /\ Delivered(t, s) /\ notifying' = c
      /\ UNCHANGED <<there, torn, nout, outp, outbox>>
  BY <1>t, <1>a, <1>b DEF Notify, host
<1>6. OutLine(t) = s \o r /\ OutLine(t)' = r
  <2>1. OutLine(t) = (notifying \o outp) \o outbox[t]
    BY <1>t DEF OutLine, Notifying, Piped
  <2>2. OutLine(t)' = (c \o outp) \o outbox[t]
    BY <1>t, <1>5 DEF OutLine, Notifying, Piped
  <2>3. (s \o c) \o outp = s \o (c \o outp)
    <3>1. s \in Seq(Pair) /\ c \in Seq(Pair) /\ outp \in Seq(Pair)
      BY <1>2, <1>3
    <3> QED
      BY <3>1, Regrouped, Zenon
  <2>a. PICK v \in Seq(Pair) : v = c \o outp
    BY <1>4
  <2>b. PICK w \in Seq(Pair) : w = outbox[t]
    BY <1>2
  <2>4. (s \o v) \o w = s \o (v \o w)
    <3>1. s \in Seq(Pair) /\ v \in Seq(Pair) /\ w \in Seq(Pair)
      BY <1>3
    <3> QED
      BY <3>1, Regrouped, Zenon
  <2> QED
    BY <1>c, <1>3, <2>1, <2>2, <2>3, <2>a, <2>b, <2>4
<1>7. \A u \in Transport \ {t} : OutLine(u)' = OutLine(u)
  BY <1>t, <1>5 DEF OutLine, Notifying, Piped
<1>8. /\ outbox' \in [Transport -> Seq(Pair)] /\ \A u \in Transport : Len(outbox'[u]) <= Room
      /\ outp' \in Seq(Pair) /\ notifying' \in Seq(Pair) /\ Len(outp') <= PipeOut
  BY <1>1, <1>3, <1>5 DEF OutTypes
<1> QED
  BY <1>3, <1>4, <1>5, <1>6, <1>7, <1>8, DeliveredOut

(* The bytes on their way to the phone move on, and stay in their order. *)
LEMMA MovedOut ==
    ASSUME Outward, OutTypes', NEW t \in Transport, OutLine(t)' = OutLine(t),
           \A u \in Transport \ {t} : OutLine(u)' = OutLine(u),
           UNCHANGED <<hdec, shown, nout, torn, there>>
    PROVE  Outward'
<1>1. OutInv(t) /\ Told(shown[t], torn, nout) /\ OutTypes
  BY DEF Outward
<1>2. OutInv(t)'
  BY <1>1 DEF OutInv
<1>3. nout <= nout'
  BY <1>1 DEF OutTypes
<1> QED
  BY <1>1, <1>2, <1>3, OutStep

LEMMA PumpReadOut ==
    ASSUME Outward, PumpRead
    PROVE  Outward'
<1>t. PICK t \in Transport : t = "ble"
  BY DEF Transport
<1>1. OutTypes
  BY DEF Outward
<1>2. /\ notifying = <<>> /\ notifying' = outp /\ outp' = <<>>
      /\ UNCHANGED <<outbox, hdec, shown, nout, torn, there>>
  BY DEF PumpRead, PumpIdle, host
<1>3. OutTypes'
  <2>1. <<>> \in Seq(Pair) /\ Len(<<>>) <= PipeOut
    BY EmptySeq
  <2> QED
    BY <1>1, <1>2, <2>1 DEF OutTypes
<1>4. OutLine(t)' = OutLine(t)
  <2>1. outp \in Seq(Pair)
    BY <1>1 DEF OutTypes
  <2>2. <<>> \o outp = outp /\ outp \o <<>> = outp
    BY <2>1, WithNothing
  <2>3. OutLine(t) = (notifying \o outp) \o outbox[t]
    BY <1>t DEF OutLine, Notifying, Piped
  <2>4. OutLine(t)' = (notifying' \o outp') \o outbox'[t]
    BY <1>t DEF OutLine, Notifying, Piped
  <2> QED
    BY <1>2, <2>2, <2>3, <2>4
<1>5. \A u \in Transport \ {t} : OutLine(u)' = OutLine(u)
  BY <1>t, <1>2 DEF OutLine, Notifying, Piped
<1> QED
  BY <1>2, <1>3, <1>4, <1>5, MovedOut

LEMMA PushToBleOut ==
    ASSUME Outward, PushToBle
    PROVE  Outward'
<1>t. PICK t \in Transport : t = "ble"
  BY DEF Transport
<1>0. UNCHANGED <<notifying, hdec, shown, nout, there>>
  BY DEF PushToBle, host
<1>1. CASE ~connected
  <2>1. outbox' = Abandoned(t) /\ torn' = torn \cup Begun(outbox[t]) /\ outp' = outp
    BY <1>t, <1>1 DEF PushToBle
  <2> QED
    BY <1>0, <2>1, AbandonedOut
<1>2. CASE connected
  <2>1. OutTypes
    BY DEF Outward
  <2>a. PICK o : o = outbox[t]
    OBVIOUS
  <2>b. PICK k : k = PipeOut - Len(outp)
    OBVIOUS
  <2>c. PICK n : n = Least(k, Len(o))
    OBVIOUS
  <2>d. PICK a : a = First(o, n)
    OBVIOUS
  <2>e. PICK c : c = Rest(o, n)
    OBVIOUS
  <2>2. outp' = outp \o a /\ outbox' = [outbox EXCEPT ![t] = c] /\ torn' = torn
    BY <1>t, <1>2, <2>a, <2>b, <2>c, <2>d, <2>e DEF PushToBle
  <2>3. outp \in Seq(Pair) /\ o \in Seq(Pair) /\ Len(o) <= Room /\ Len(outp) <= PipeOut
    BY <2>1, <2>a DEF OutTypes
  <2>4. Len(outp) \in Nat /\ Len(o) \in Nat /\ PipeOut \in Nat
    BY <2>3
  <2>5. k \in Nat /\ Len(outp) + k = PipeOut
    BY <2>b, <2>3, <2>4
  <2>6. n \in Nat /\ n <= k /\ n <= Len(o)
    BY <2>c, <2>4, <2>5 DEF Least
  <2>7. Least(n, Len(o)) = n
    BY <2>4, <2>6 DEF Least
  <2>8. /\ a \in Seq(Pair) /\ c \in Seq(Pair) /\ a \o c = o
        /\ Len(a) = n /\ Len(c) = Len(o) - n
    <3>1. /\ First(o, n) \in Seq(Pair) /\ Rest(o, Least(n, Len(o))) \in Seq(Pair)
          /\ First(o, n) \o Rest(o, Least(n, Len(o))) = o
          /\ Len(First(o, n)) = Least(n, Len(o))
          /\ Len(Rest(o, Least(n, Len(o)))) = Len(o) - Least(n, Len(o))
      BY <2>3, <2>6, FirstRest
    <3> QED
      BY <2>d, <2>e, <2>7, <3>1
  <2>9. outp \o a \in Seq(Pair) /\ Len(outp \o a) <= PipeOut /\ Len(c) <= Room
    <3>1. outp \o a \in Seq(Pair) /\ Len(outp \o a) = Len(outp) + n
      BY <2>3, <2>8, Joined
    <3>2. Len(outp) + n <= PipeOut
      BY <2>4, <2>5, <2>6
    <3>3. Len(c) <= Room
      BY <2>3, <2>4, <2>6, <2>8
    <3> QED
      BY <3>1, <3>2, <3>3
  <2>10. outbox'[t] = c /\ \A u \in Transport \ {t} : outbox'[u] = outbox[u]
    BY <2>1, <2>2 DEF OutTypes
  <2>11. OutTypes'
    <3>1. outbox' \in [Transport -> Seq(Pair)]
      BY <2>1, <2>2, <2>8 DEF OutTypes
    <3>2. \A u \in Transport : Len(outbox'[u]) <= Room
      BY <2>1, <2>9, <2>10 DEF OutTypes
    <3> QED
      BY <1>0, <2>1, <2>2, <2>9, <3>1, <3>2 DEF OutTypes
  <2>12. OutLine(t)' = OutLine(t)
    <3>1. OutLine(t) = (notifying \o outp) \o o
      BY <1>t, <2>a DEF OutLine, Notifying, Piped
    <3>2. OutLine(t)' = (notifying \o (outp \o a)) \o c
      BY <1>t, <1>0, <2>2, <2>10 DEF OutLine, Notifying, Piped
    <3>3. notifying \in Seq(Pair)
      BY <2>1 DEF OutTypes
    <3>4. notifying \o outp \in Seq(Pair)
      BY <2>3, <3>3, Joined
    <3>5. (notifying \o outp) \o a = notifying \o (outp \o a)
      <4>1. notifying \in Seq(Pair) /\ outp \in Seq(Pair) /\ a \in Seq(Pair)
        BY <2>3, <2>8, <3>3
      <4> QED
        BY <4>1, Regrouped, Zenon
    <3>6. ((notifying \o outp) \o a) \o c = (notifying \o outp) \o (a \o c)
      <4>1. notifying \o outp \in Seq(Pair) /\ a \in Seq(Pair) /\ c \in Seq(Pair)
        BY <2>8, <3>4
      <4> QED
        BY <4>1, Regrouped, Zenon
    <3> QED
      BY <2>8, <3>1, <3>2, <3>5, <3>6
  <2>13. \A u \in Transport \ {t} : OutLine(u)' = OutLine(u)
    BY <1>t, <2>10 DEF OutLine, Notifying, Piped
  <2> QED
    BY <1>0, <2>2, <2>11, <2>12, <2>13, MovedOut
<1> QED
  BY <1>1, <1>2

LEMMA StalledOut ==
    ASSUME Control, Outward, Stalled
    PROVE  Outward'
<1>t. PICK t \in Transport : t = "ble"
  BY DEF Transport
<1>1. OutTypes /\ OutInv(t) /\ Told(shown[t], torn, nout)
  BY DEF Outward
<1>2. /\ notifying' = <<>> /\ there' = [there EXCEPT ![t] = FALSE]
      /\ UNCHANGED <<outbox, outp, hdec, shown, nout, torn>>
  BY <1>t DEF Stalled, Leaves
<1>3. there'[t] = FALSE /\ \A u \in Transport \ {t} : there'[u] = there[u]
  BY <1>2 DEF Control
<1>4. OutTypes'
  BY <1>1, <1>2, WithNothing DEF OutTypes
<1>a. PICK r : r = outp \o outbox[t]
  OBVIOUS
<1>5. notifying \in Seq(Pair) /\ outp \in Seq(Pair) /\ outbox[t] \in Seq(Pair)
  BY <1>1 DEF OutTypes
<1>6. r \in Seq(Pair)
  BY <1>5, <1>a, Joined
<1>7. OutLine(t) = notifying \o r /\ OutLine(t)' = r
  <2>1. OutLine(t) = (notifying \o outp) \o outbox[t]
    BY <1>t DEF OutLine, Notifying, Piped
  <2>2. OutLine(t)' = (<<>> \o outp) \o outbox[t]
    BY <1>t, <1>2 DEF OutLine, Notifying, Piped
  <2>3. (notifying \o outp) \o outbox[t] = notifying \o r
    BY <1>5, <1>a, Regrouped, Zenon
  <2>4. <<>> \o outp = outp
    BY <1>5, WithNothing
  <2> QED
    BY <1>a, <2>1, <2>2, <2>3, <2>4
<1>8. OutInv(t)'
  <2>1. OutGood(notifying \o r, there[t], hdec[t], shown[t], torn, nout)
    BY <1>1, <1>7 DEF OutInv
  <2>2. OutGood(r, FALSE, hdec[t], shown[t], torn, nout)
    BY <1>5, <1>6, <2>1, OutDrops
  <2> QED
    BY <1>2, <1>3, <1>7, <2>2 DEF OutInv
<1>9. \A u \in Transport \ {t} : OutLine(u)' = OutLine(u)
  BY <1>t, <1>2 DEF OutLine, Notifying, Piped
<1>10. nout <= nout'
  BY <1>1, <1>2 DEF OutTypes
<1> QED
  BY <1>1, <1>2, <1>3, <1>4, <1>8, <1>9, <1>10, OutStep

LEMMA ComesOut ==
    ASSUME Control, Outward, NEW t \in Transport, Comes(t)
    PROVE  Outward'
<1>1. OutTypes /\ OutInv(t) /\ Told(shown[t], torn, nout)
  BY DEF Outward
<1>2. /\ there' = [there EXCEPT ![t] = TRUE]
      /\ hdec' = [hdec EXCEPT ![t] = Fresh] /\ shown' = [shown EXCEPT ![t] = <<>>]
      /\ UNCHANGED <<outbox, outp, notifying, nout, torn>>
  BY DEF Comes
<1>3. /\ there'[t] = TRUE /\ hdec'[t] = Fresh /\ shown'[t] = <<>>
      /\ \A u \in Transport \ {t} :
            there'[u] = there[u] /\ hdec'[u] = hdec[u] /\ shown'[u] = shown[u]
  BY <1>1, <1>2 DEF Control, OutTypes
<1>4. OutTypes'
  <2>1. Fresh \in Reader
    BY WithNothing DEF Fresh, Reader, State
  <2>2. <<>> \in Seq(Seq(Pair))
    BY EmptySeq
  <2> QED
    BY <1>1, <1>2, <2>1, <2>2 DEF OutTypes
<1>5. \A u \in Transport : OutLine(u)' = OutLine(u)
  BY <1>2 DEF OutLine, Notifying, Piped
<1>6. OutInv(t)'
  <2>1. OutLine(t) \in Seq(Pair)
    BY <1>1, OutTyped
  <2>2. OutGood(OutLine(t), TRUE, Fresh, <<>>, torn, nout)
    BY <1>1, <2>1, OutComes DEF OutInv
  <2> QED
    BY <1>2, <1>3, <1>5, <2>2 DEF OutInv
<1>7. Told(shown'[t], torn', nout')
  BY <1>3 DEF Told
<1>8. nout <= nout'
  BY <1>1, <1>2 DEF OutTypes
<1> QED
  BY <1>2, <1>3, <1>4, <1>5, <1>6, <1>7, <1>8, OutStep

LEMMA GoesOut ==
    ASSUME Control, Outward, NEW t \in Transport, Goes(t)
    PROVE  Outward'
<1>1. OutTypes /\ OutInv(t) /\ Told(shown[t], torn, nout)
  BY DEF Outward
<1>2. there' = [there EXCEPT ![t] = FALSE]
      /\ UNCHANGED <<outbox, outp, notifying, hdec, shown, nout, torn>>
  BY DEF Goes, Leaves, outward
<1>3. there'[t] = FALSE /\ \A u \in Transport \ {t} : there'[u] = there[u]
  BY <1>2 DEF Control
<1>4. OutTypes'
  BY <1>1, <1>2 DEF OutTypes
<1>5. \A u \in Transport : OutLine(u)' = OutLine(u)
  BY <1>2 DEF OutLine, Notifying, Piped
<1>6. OutInv(t)'
  <2>1. OutLine(t) \in Seq(Pair) /\ nout \in Nat
    BY <1>1, OutTyped
  <2>2. OutGood(OutLine(t), FALSE, hdec[t], shown[t], torn, nout)
    BY <1>1 DEF OutInv, OutGood
  <2> QED
    BY <1>2, <1>3, <1>5, <2>2 DEF OutInv
<1>7. nout <= nout'
  BY <1>1, <1>2 DEF OutTypes
<1> QED
  BY <1>1, <1>2, <1>3, <1>4, <1>5, <1>6, <1>7, OutStep

-----------------------------------------------------------------------------
(* The theorem *)

LEMMA LinkInit == Init => LinkInv
<1> SUFFICES ASSUME Init PROVE LinkInv
  OBVIOUS
<1>0. <<>> \in Seq(Pair) /\ <<>> \in Seq(Seq(Pair)) /\ Len(<<>>) = 0
  BY EmptySeq
<1>1. Control
  BY DEF Init, Control
<1>2. Fresh \in Reader /\ Fresh.bytes = <<>>
  BY <1>0 DEF Fresh, Reader, State
<1>3. FEND \in Pair /\ <<FEND>> \in Seq(Pair) /\ Len(<<FEND>>) = 1 /\ <<FEND>>[1] = FEND
  BY DEF FEND, Pair
<1>4. <<FEND>> \o <<>> = <<FEND>>
  BY <1>3, WithNothing
<1>5. Line(<<FEND>>, {}, 0)
  <2>1. \A i \in 1..Len(<<FEND>>) : <<FEND>>[i] = FEND
    BY <1>3
  <2>2. \A i \in 1..(Len(<<FEND>>) - 1) : FALSE
    BY <1>3
  <2>3. After(<<FEND>>[Len(<<FEND>>)], FEND, {})
    BY <1>3 DEF After
  <2> DEFINE z == <<FEND>>
  <2> HIDE DEF z
  <2>4. InOrder(z)
    BY <2>1 DEF InOrder, z
  <2> QED
    BY <1>3, <2>1, <2>2, <2>3, <2>4 DEF Line, Wire, z
<1>6. Stands(Fresh, FEND)
  BY DEF Stands, Fresh
<1>7. InTypes
  <2>1. Nothing \in [Transport -> Seq(Pair)] /\ Nothing \in [Transport -> Seq(Seq(Pair))]
    BY <1>0 DEF Nothing
  <2>2. \A t \in Transport : Nothing[t] = <<>>
    BY DEF Nothing
  <2>3. [f \in 1..MaxIn |-> "usb"] \in [1..MaxIn -> Transport]
    BY DEF Transport
  <2>4. \A t \in Transport : /\ Len(inp[t]) <= PipeIn /\ Len(hand[t]) <= Piece
                             /\ Len(dec[t].bytes) <= Buffer + 1
    BY <1>0, <1>2, <2>2 DEF Init
  <2> QED
    BY <1>2, <2>1, <2>3, <2>4 DEF Init, InTypes
<1>8. OutTypes
  <2>1. Nothing \in [Transport -> Seq(Pair)] /\ Nothing \in [Transport -> Seq(Seq(Pair))]
    BY <1>0 DEF Nothing
  <2>2. \A t \in Transport : Nothing[t] = <<>>
    BY DEF Nothing
  <2>3. Len(outp) <= PipeOut /\ \A t \in Transport : Len(outbox[t]) <= Room
    BY <1>0, <2>2 DEF Init
  <2> QED
    BY <1>0, <1>2, <2>1, <2>3 DEF Init, OutTypes
<1>9. ASSUME NEW t \in Transport
      PROVE  /\ InInv(t) /\ TypingInv(t) /\ Heeded(got[t], broken, nin, fromOf, t)
             /\ OutInv(t) /\ Told(shown[t], torn, nout)
  <2>1. /\ inp[t] = <<>> /\ hand[t] = <<>> /\ typing[t] = <<>> /\ outbox[t] = <<>>
        /\ outp = <<>> /\ notifying = <<>> /\ got[t] = <<>> /\ shown[t] = <<>>
        /\ dec[t] = Fresh /\ there[t] = FALSE /\ nin = 0 /\ nout = 0
        /\ broken = {} /\ torn = {}
    BY DEF Init, Nothing
  <2>2. (<<>> \o <<>>) \o <<>> = <<>>
    BY WithNothing
  <2>3. InLine(t) = <<>> /\ OutLine(t) = <<>>
    BY <2>1, <2>2 DEF InLine, OutLine, Notifying, Piped
  <2>4. InInv(t)
    <3>1. Owned(<<FEND>>, fromOf, t)
      BY <1>3 DEF Owned
    <3>2. InGood(<<>>, Fresh, {}, 0, fromOf, t)
      BY <1>3, <1>4, <1>5, <1>6, <3>1 DEF InGood
    <3> QED
      BY <2>1, <2>3, <3>2 DEF InInv
  <2>5. OutInv(t)
    <3>1. OutGood(<<>>, FALSE, hdec[t], <<>>, {}, 0)
      BY <1>3, <1>4, <1>5 DEF OutGood
    <3> QED
      BY <2>1, <2>3, <3>1 DEF OutInv
  <2>6. TypingInv(t) /\ Heeded(got[t], broken, nin, fromOf, t) /\ Told(shown[t], torn, nout)
    BY <2>1 DEF TypingInv, Heeded, Told
  <2> QED
    BY <2>4, <2>5, <2>6
<1> QED
  BY <1>1, <1>7, <1>8, <1>9 DEF LinkInv, Inward, Outward

LEMMA ControlNext ==
    ASSUME Control, [Next]_vars
    PROVE  Control'
<1> USE DEF Control
<1>1. ASSUME NEW t \in Transport, ReadPipe(t) PROVE Control'
  BY <1>1 DEF ReadPipe, host
<1>2. CASE ReadNothing
  BY <1>2 DEF ReadNothing, host
<1>3. CASE Work
  BY <1>3 DEF Work, host
<1>4. CASE FlushPacket
  BY <1>4 DEF FlushPacket, host
<1>5. CASE FlushFails
  BY <1>5 DEF FlushFails, host
<1>6. CASE Flushed
  BY <1>6 DEF Flushed, host
<1>7. CASE PushToBle
  <2>1. phase' = "read" /\ attended' = (connected \/ there["usb"]) /\ there' = there
        /\ connected' = connected
    BY <1>7 DEF PushToBle, NextPass, host
  <2>2. there["usb"] \in BOOLEAN
    BY DEF Transport
  <2> QED
    BY <2>1, <2>2
<1>8. CASE PumpRead
  BY <1>8 DEF PumpRead, host
<1>9. CASE Notify
  BY <1>9 DEF Notify, host
<1>10. CASE Stalled
  BY <1>10 DEF Stalled, Leaves
<1>11. CASE Disconnected
  BY <1>11 DEF Disconnected, host
<1>12. ASSUME NEW t \in Transport, FeedPipe(t) PROVE Control'
  BY <1>12 DEF FeedPipe, host
<1>13. ASSUME NEW t \in Transport, Comes(t) PROVE Control'
  <2>1. /\ there' = [there EXCEPT ![t] = TRUE] /\ connected' = (connected \/ t = "ble")
        /\ phase' = phase /\ attended' = attended
    BY <1>13 DEF Comes
  <2> QED
    BY <2>1
<1>14. ASSUME NEW t \in Transport, Goes(t) PROVE Control'
  BY <1>14 DEF Goes, Leaves
<1>15. ASSUME NEW t \in Transport, StartFrame(t) PROVE Control'
  BY <1>15 DEF StartFrame
<1>16. ASSUME NEW t \in Transport, Write(t) PROVE Control'
  BY <1>16 DEF Write
<1>17. CASE UNCHANGED vars
  BY <1>17 DEF vars
<1> QED
  BY <1>1, <1>2, <1>3, <1>4, <1>5, <1>6, <1>7, <1>8, <1>9, <1>10, <1>11, <1>12, <1>13,
     <1>14, <1>15, <1>16, <1>17 DEF Next, Loop, Pump

LEMMA InwardNext ==
    ASSUME Inward, [Next]_vars
    PROVE  Inward'
<1>1. ASSUME NEW t \in Transport, ReadPipe(t) PROVE Inward'
  BY <1>1, ReadPipeIn
<1>2. CASE ReadNothing
  BY <1>2, InStays DEF ReadNothing, host, inward
<1>3. CASE Work
  BY <1>3, InStays DEF Work, host, inward
<1>4. CASE FlushPacket
  BY <1>4, InStays DEF FlushPacket, host, inward
<1>5. CASE FlushFails
  BY <1>5, InStays DEF FlushFails, host, inward
<1>6. CASE Flushed
  BY <1>6, InStays DEF Flushed, host, inward
<1>7. CASE PushToBle
  BY <1>7, InStays DEF PushToBle, host, inward
<1>8. CASE PumpRead
  BY <1>8, InStays DEF PumpRead, host, inward
<1>9. CASE Notify
  BY <1>9, InStays DEF Notify, host, inward
<1>10. CASE Stalled
  <2>1. "ble" \in Transport
    BY DEF Transport
  <2>2. Leaves("ble") /\ UNCHANGED <<hand, inp, dec, got>>
    BY <1>10 DEF Stalled, inward
  <2> QED
    BY <2>1, <2>2, LeavesIn
<1>11. CASE Disconnected
  BY <1>11, InStays DEF Disconnected, host, inward
<1>12. ASSUME NEW t \in Transport, FeedPipe(t) PROVE Inward'
  BY <1>12, FeedPipeIn
<1>13. ASSUME NEW t \in Transport, Comes(t) PROVE Inward'
  BY <1>13, InStays DEF Comes, inward
<1>14. ASSUME NEW t \in Transport, Goes(t) PROVE Inward'
  <2>1. Leaves(t) /\ UNCHANGED <<hand, inp, dec, got>>
    BY <1>14 DEF Goes, inward
  <2> QED
    BY <2>1, LeavesIn
<1>15. ASSUME NEW t \in Transport, StartFrame(t) PROVE Inward'
  BY <1>15, StartFrameIn
<1>16. ASSUME NEW t \in Transport, Write(t) PROVE Inward'
  BY <1>16, WriteIn
<1>17. CASE UNCHANGED vars
  BY <1>17, InStays DEF vars
<1> QED
  BY <1>1, <1>2, <1>3, <1>4, <1>5, <1>6, <1>7, <1>8, <1>9, <1>10, <1>11, <1>12, <1>13,
     <1>14, <1>15, <1>16, <1>17 DEF Next, Loop, Pump

LEMMA OutwardNext ==
    ASSUME Control, Inward, Outward, [Next]_vars
    PROVE  Outward'
<1>1. ASSUME NEW t \in Transport, ReadPipe(t) PROVE Outward'
  <2> DEFINE r == Reads(dec[t], inp[t], Buffer)
  <2>1. PICK k \in 0..Len(r.frames) : Says(t, k)
    BY <1>1 DEF ReadPipe
  <2>2. UNCHANGED <<outp, notifying, hdec, shown, torn, there>>
    BY <1>1 DEF ReadPipe, host
  <2>3. k \in Nat
    OBVIOUS
  <2> QED
    BY <2>1, <2>2, <2>3, SaysOut
<1>2. CASE ReadNothing
  BY <1>2, OutStays DEF ReadNothing, host, outward
<1>3. CASE Work
  <2>1. UNCHANGED <<outp, notifying, hdec, shown, torn, there>>
    BY <1>3 DEF Work, host
  <2>2. CASE Says(Listener, 1)
    <3>1. Listener \in Transport
      BY DEF Listener, Transport
    <3> QED
      BY <2>1, <2>2, <3>1, SaysOut
  <2>3. CASE UNCHANGED <<outbox, nout>>
    BY <2>1, <2>3, OutStays
  <2> QED
    BY <1>3, <2>2, <2>3 DEF Work
<1>4. CASE FlushPacket
  BY <1>4, FlushPacketOut
<1>5. CASE FlushFails
  <2>1. "usb" \in Transport
    BY DEF Transport
  <2>2. /\ outbox' = Abandoned("usb") /\ torn' = torn \cup Begun(outbox["usb"])
        /\ UNCHANGED <<outp, notifying, hdec, shown, nout, there>>
    BY <1>5 DEF FlushFails, host
  <2> QED
    BY <2>1, <2>2, AbandonedOut
<1>6. CASE Flushed
  BY <1>6, OutStays DEF Flushed, host, outward
<1>7. CASE PushToBle
  BY <1>7, PushToBleOut
<1>8. CASE PumpRead
  BY <1>8, PumpReadOut
<1>9. CASE Notify
  BY <1>9, NotifyOut
<1>10. CASE Stalled
  BY <1>10, StalledOut
<1>11. CASE Disconnected
  BY <1>11, OutStays DEF Disconnected, host, outward
<1>12. ASSUME NEW t \in Transport, FeedPipe(t) PROVE Outward'
  BY <1>12, OutStays DEF FeedPipe, host, outward
<1>13. ASSUME NEW t \in Transport, Comes(t) PROVE Outward'
  BY <1>13, ComesOut
<1>14. ASSUME NEW t \in Transport, Goes(t) PROVE Outward'
  BY <1>14, GoesOut
<1>15. ASSUME NEW t \in Transport, StartFrame(t) PROVE Outward'
  BY <1>15, OutStays DEF StartFrame, outward
<1>16. ASSUME NEW t \in Transport, Write(t) PROVE Outward'
  BY <1>16, OutStays DEF Write, outward
<1>17. CASE UNCHANGED vars
  BY <1>17, OutStays DEF vars
<1> QED
  BY <1>1, <1>2, <1>3, <1>4, <1>5, <1>6, <1>7, <1>8, <1>9, <1>10, <1>11, <1>12, <1>13,
     <1>14, <1>15, <1>16, <1>17 DEF Next, Loop, Pump

LEMMA LinkNext == LinkInv /\ [Next]_vars => LinkInv'
BY ControlNext, InwardNext, OutwardNext DEF LinkInv

LEMMA LinkCorrect == LinkInv => HostLinkCorrect
<1> SUFFICES ASSUME LinkInv PROVE HostLinkCorrect
  OBVIOUS
<1>1. TypeOK
  BY DEF LinkInv, Control, Inward, Outward, InTypes, OutTypes, TypeOK
<1>2. CommandsAreOneHosts
  BY DEF LinkInv, Inward, Heeded, CommandsAreOneHosts
<1>3. HostsReadFrames
  BY DEF LinkInv, Outward, Told, HostsReadFrames
<1> QED
  BY <1>1, <1>2, <1>3 DEF HostLinkCorrect

(* What the board takes for a command is one host's frame, on the          *)
(* transport that host wrote it on, and whole unless that host went before *)
(* its end; what a host reads are the board's frames, in their order, each *)
(* whole unless the rest was abandoned: whatever the sizes of the pipes,   *)
(* the outboxes and the frames, and however hosts come, go, stop reading   *)
(* and take over from each other.                                          *)
THEOREM NothingIsMixedUp == Spec => []HostLinkCorrect
<1>1. Init => LinkInv
  BY LinkInit
<1>2. LinkInv /\ [Next]_vars => LinkInv'
  BY LinkNext
<1>3. LinkInv => HostLinkCorrect
  BY LinkCorrect
<1> QED
  BY <1>1, <1>2, <1>3, PTL DEF Spec
=============================================================================
