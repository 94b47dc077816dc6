---------------------------- MODULE MailboxProofs ----------------------------
(***************************************************************************)
(* Proofs about Mailbox, for any number of senders and messages and lists  *)
(* of any length.  What is said of the messages and the peers is not       *)
(* inductive as it stands: that a sender's key settles what it wrote needs *)
(* that a table with no room for it never has room again, and that nothing *)
(* is kept twice, that the hashes remembered are the last of the log.      *)
(***************************************************************************)
EXTENDS Mailbox, TLAPS, WellFoundedInduction, FiniteSetTheorems

USE MailboxAssumption, NoneAssumption

Entry == [packet : Packet, at : 0..MaxTime]
Slot == [who : Peers, last : 0..MaxTime, conversation : BOOLEAN]
Kept == [hash : Hashes, good : BOOLEAN, trust : Trust, unread : BOOLEAN]
Sent == ({"proof"} \X Hashes) \cup ({"ask"} \X Peers)
News == [hash : Hashes, at : 0..MaxTime, rang : BOOLEAN]

Types ==
    /\ running \in BOOLEAN /\ now \in 0..MaxTime /\ heard \in 0..MaxHeard
    /\ inbox \in Seq(Entry) /\ Len(inbox) <= Inbox
    /\ peers \in Seq(Slot) /\ Len(peers) <= Table
    /\ kept \in Seq(Kept) /\ Len(kept) <= Capacity
    /\ seen \in Seq(Hashes) /\ Len(seen) <= Seen
    /\ queue \in Seq(Sent) /\ Len(queue) <= Queue
    /\ told \in {None} \cup [s : Nat, at : 0..MaxTime]
    /\ alert \in [on : BOOLEAN, last : {None} \cup 0..MaxTime]
    /\ log \in Seq(News) /\ written \subseteq Peers

(* Who is in a table, and who with a conversation. *)
Has(t, p) == \E i \in 1..Len(t) : t[i].who = p
Talks(t, p) == \E i \in 1..Len(t) : t[i].who = p /\ t[i].conversation

\* A slot for each peer
Single(t) == \A i, j \in 1..Len(t) : t[i].who = t[j].who => i = j

\* No room for a stranger, now or ever
Full(t) == Len(t) = Table /\ \A i \in 1..Len(t) : t[i].conversation

Believed(k, t) ==
    \A i \in 1..Len(k) :
        /\ k[i].trust = "Verified" => k[i].good
        /\ k[i].trust = "Failed" => ~k[i].good
        /\ Has(t, From[k[i].hash]) => k[i].trust # "Unverified"

Correspond(k, t, w) ==
    /\ \A i \in 1..Len(k) : Has(t, From[k[i].hash]) => Talks(t, From[k[i].hash])
    /\ \A p \in w : Talks(t, p)

\* A sender whose message was settled is a peer, unless there was no room.
SettledHasRoom(k, t) ==
    \A i \in 1..Len(k) :
        k[i].trust # "Unverified" /\ ~Has(t, From[k[i].hash]) => Full(t)

PeopleInv ==
    /\ Single(peers) /\ Believed(kept, peers) /\ Correspond(kept, peers, written)
    /\ SettledHasRoom(kept, peers)

\* The hashes remembered are the last of the log.
Remembers ==
    /\ Len(seen) = IF Len(log) < Seen THEN Len(log) ELSE Seen
    /\ \A i \in 1..Len(seen) : seen[i] = log[Len(log) - Len(seen) + i].hash

\* What was told and alerted is ahead of every message of the log.
TimesInv ==
    /\ \A i \in 1..Len(inbox) : inbox[i].at <= now
    /\ told # None => told.at <= now
    /\ \A i \in 1..Len(log) :
        /\ told # None /\ Stamp[log[i].hash] <= told.s
        /\ alert.last # None /\ log[i].at <= alert.last

LogInv == Remembers /\ OnceWithinSeen /\ ProvedWasKept /\ TimesInv /\ OneAlertForALot

MailboxInv == Types /\ PeopleInv /\ LogInv

-----------------------------------------------------------------------------
(* Least elements *)

LEMMA FirstThere ==
    ASSUME NEW S, S \subseteq Nat, S # {}
    PROVE  \E i \in S : \A j \in S : i <= j
<1> DEFINE R == OpToRel(<, Nat)
<1>1. IsWellFoundedOn(R, Nat)
  BY NatLessThanWellFounded
<1>2. \A x, y \in Nat : y < x => <<y, x>> \in R
  BY DEF OpToRel
<1> HIDE DEF R
<1>3. PICK i \in S : \A j \in S : <<j, i>> \notin R
  BY <1>1, WFMin
<1>4. ASSUME NEW j \in S PROVE i <= j
  <2>1. i \in Nat /\ j \in Nat /\ ~(j < i)
    BY <1>2, <1>3
  <2> QED
    BY <2>1
<1> QED
  BY <1>4

(* The slot a stranger takes is one without a conversation. *)
LEMMA OldestFacts ==
    ASSUME NEW t \in Seq(Slot), Evictable(t) # {}
    PROVE  Oldest(t) \in 1..Len(t) /\ ~t[Oldest(t)].conversation
<1> DEFINE E == Evictable(t)
           L == {t[i].last : i \in E}
<1>1. E \subseteq 1..Len(t) /\ \A i \in E : t[i] \in Slot
  BY DEF Evictable
<1>2. \A i \in E : t[i].last \in Nat
  BY <1>1 DEF Slot
<1>3. L \subseteq Nat /\ L # {}
  BY <1>2
<1> HIDE DEF L
<1>4. PICK m \in L : \A x \in L : m <= x
  BY <1>3, FirstThere
<1> DEFINE F == {i \in E : t[i].last = m}
<1>5. F \subseteq Nat /\ F # {}
  BY <1>1, <1>4 DEF L
<1> HIDE DEF F
<1>6. PICK k \in F : \A j \in F : k <= j
  BY <1>5, FirstThere
<1>7. k \in E /\ t[k].last = m
  BY <1>6 DEF F
<1>8. ASSUME NEW j \in E PROVE t[k].last < t[j].last \/ (t[k].last = t[j].last /\ k <= j)
  <2>1. m <= t[j].last /\ m \in Nat /\ t[j].last \in Nat
    BY <1>2, <1>3, <1>4 DEF L
  <2>2. CASE t[j].last = m
    BY <1>6, <1>7, <2>2 DEF F
  <2>3. CASE t[j].last # m
    BY <1>7, <2>1, <2>3
  <2> QED
    BY <2>2, <2>3
<1>9. Oldest(t) \in E
  BY <1>7, <1>8 DEF Oldest
<1> QED
  BY <1>9 DEF Evictable

-----------------------------------------------------------------------------
(* The table *)

LEMMA KnowsFacts ==
    ASSUME NEW t, NEW p
    PROVE  Knows(t, p) <=> Has(t, p)
BY DEF Knows, SlotsOf, Has

LEMMA ConversationFacts ==
    ASSUME NEW t \in Seq(Slot), NEW p
    PROVE  LET u == set_conversation(t, p)
           IN  /\ u \in Seq(Slot) /\ Len(u) = Len(t)
               /\ Single(t) => Single(u)
               /\ \A q : Has(u, q) <=> Has(t, q)
               /\ \A q : Talks(t, q) => Talks(u, q)
               /\ Has(t, p) => Talks(u, p)
               /\ Full(t) => Full(u)
<1> DEFINE u == set_conversation(t, p)
<1>1. \A i \in 1..Len(t) : t[i] \in Slot
  OBVIOUS
<1>2. ASSUME NEW i \in 1..Len(t)
      PROVE  [t[i] EXCEPT !.conversation = TRUE] \in Slot
             /\ [t[i] EXCEPT !.conversation = TRUE].who = t[i].who
             /\ [t[i] EXCEPT !.conversation = TRUE].conversation
  BY <1>1 DEF Slot
<1>3. /\ DOMAIN u = 1..Len(t)
      /\ \A i \in 1..Len(t) :
            u[i] = IF t[i].who = p THEN [t[i] EXCEPT !.conversation = TRUE] ELSE t[i]
  BY DEF set_conversation
<1>4. \A i \in 1..Len(t) : u[i] \in Slot
  BY <1>1, <1>2, <1>3
<1>5. u \in Seq(Slot) /\ Len(u) = Len(t)
  BY <1>4 DEF set_conversation
<1>6. \A i \in 1..Len(t) :
        /\ u[i].who = t[i].who
        /\ t[i].conversation => u[i].conversation
        /\ t[i].who = p => u[i].conversation
  BY <1>2, <1>3
<1> HIDE DEF u
<1>7. Single(t) => Single(u)
  BY <1>5, <1>6 DEF Single
<1>8. \A q : Has(u, q) <=> Has(t, q)
  BY <1>5, <1>6 DEF Has
<1>9. \A q : Talks(t, q) => Talks(u, q)
  BY <1>5, <1>6 DEF Talks
<1>10. Has(t, p) => Talks(u, p)
  BY <1>5, <1>6 DEF Has, Talks
<1>11. Full(t) => Full(u)
  BY <1>5, <1>6 DEF Full
<1> QED
  BY <1>5, <1>7, <1>8, <1>9, <1>10, <1>11 DEF u

(* An announce adds its sender or nobody; who talks stays; and a table with *)
(* no room for the sender has none for anybody, now and after any other.    *)
LearnedKeeps(t, a, u) ==
    /\ u \in Seq(Slot) /\ Len(u) <= Table /\ Single(u)
    /\ \A q : Has(u, q) => Has(t, q) \/ (a.lxmf /\ q = a.from)
    /\ \A q : Talks(t, q) => Talks(u, q)
    /\ Full(t) => Full(u)
    /\ a.lxmf /\ ~Has(u, a.from) => Full(u)

LEMMA LearnedFacts ==
    ASSUME NEW t \in Seq(Slot), Len(t) <= Table, Single(t),
           NEW a, a.from \in Peers, a.lxmf \in BOOLEAN,
           NEW at \in 0..MaxTime
    PROVE  LearnedKeeps(t, a, Learned(t, a, at))
<1> DEFINE u == Learned(t, a, at)
           peer == [who |-> a.from, last |-> at, conversation |-> FALSE]
<1>0. peer \in Slot /\ peer.who = a.from /\ ~peer.conversation
  BY DEF Slot
<1>1. \A i \in 1..Len(t) : t[i] \in Slot
  OBVIOUS
<1>2. Table \in Nat \ {0} /\ Len(t) \in Nat
  OBVIOUS
<1>3. CASE ~a.lxmf
  <2>1. u = t
    BY <1>3 DEF Learned
  <2> HIDE DEF u
  <2> QED
    BY <2>1, <1>3 DEF u, LearnedKeeps
<1>4. CASE a.lxmf /\ Knows(t, a.from)
  <2> DEFINE w == [i \in 1..Len(t) |-> IF t[i].who = a.from
                                       THEN [t[i] EXCEPT !.last = at] ELSE t[i]]
  <2>1. u = w
    BY <1>4 DEF Learned
  <2>2. ASSUME NEW i \in 1..Len(t)
        PROVE  /\ [t[i] EXCEPT !.last = at] \in Slot
               /\ [t[i] EXCEPT !.last = at].who = t[i].who
               /\ [t[i] EXCEPT !.last = at].conversation = t[i].conversation
    BY <1>1 DEF Slot
  <2>3. \A i \in 1..Len(t) :
          w[i] \in Slot /\ w[i].who = t[i].who /\ w[i].conversation = t[i].conversation
    BY <1>1, <2>2
  <2>4. w \in Seq(Slot) /\ Len(w) = Len(t)
    BY <2>3
  <2> HIDE DEF w, u
  <2>5. Single(w) /\ \A q : (Has(w, q) <=> Has(t, q)) /\ (Talks(t, q) => Talks(w, q))
    BY <2>3, <2>4 DEF Single, Has, Talks
  <2>6. Full(t) => Full(w)
    BY <2>3, <2>4 DEF Full
  <2>7. Has(w, a.from)
    BY <1>4, <2>5, KnowsFacts
  <2>8. LearnedKeeps(t, a, w)
    BY <2>4, <2>5, <2>6, <2>7 DEF LearnedKeeps
  <2> QED
    BY <2>1, <2>8 DEF u
<1>5. CASE a.lxmf /\ ~Knows(t, a.from) /\ Len(t) < Table
  <2> DEFINE w == Append(t, peer)
  <2>1. u = w
    BY <1>5 DEF Learned
  <2>2. /\ w \in Seq(Slot) /\ Len(w) = Len(t) + 1 /\ w[Len(t) + 1] = peer
        /\ \A i \in 1..Len(t) : w[i] = t[i]
    BY <1>0
  <2>3. ~Has(t, a.from)
    BY <1>5, KnowsFacts
  <2> HIDE DEF w, u, peer
  <2>4. 1..Len(w) = 1..Len(t) \cup {Len(t) + 1}
    BY <1>2, <2>2
  <2>5. Single(w)
    BY <1>0, <2>2, <2>3, <2>4 DEF Single, Has
  <2>6. \A q : Has(w, q) <=> Has(t, q) \/ q = a.from
    BY <1>0, <2>2, <2>4 DEF Has
  <2>7. \A q : Talks(t, q) => Talks(w, q)
    BY <2>2, <2>4 DEF Talks
  <2>8. ~Full(t) /\ Len(w) <= Table
    BY <1>2, <1>5, <2>2 DEF Full
  <2>9. LearnedKeeps(t, a, w)
    BY <1>5, <2>2, <2>5, <2>6, <2>7, <2>8 DEF LearnedKeeps
  <2> QED
    BY <2>1, <2>9 DEF u
<1>6. CASE a.lxmf /\ ~Knows(t, a.from) /\ ~(Len(t) < Table)
  <2>1. ~Has(t, a.from) /\ Len(t) = Table
    BY <1>2, <1>6, KnowsFacts
  <2>2. CASE Evictable(t) = {}
    <3>1. u = t
      BY <1>6, <2>2 DEF Learned
    <3>2. Full(t)
      BY <2>1, <2>2 DEF Full, Evictable
    <3> HIDE DEF u
    <3> QED
      BY <3>1, <3>2 DEF u, LearnedKeeps
  <2>3. CASE Evictable(t) # {}
    <3> DEFINE o == Oldest(t)
               w == [t EXCEPT ![o] = peer]
    <3>1. u = w
      BY <1>6, <2>3 DEF Learned
    <3>2. o \in 1..Len(t) /\ ~t[o].conversation
      BY <2>3, OldestFacts
    <3> HIDE DEF o
    <3>3. /\ w \in Seq(Slot) /\ Len(w) = Len(t) /\ w[o] = peer
          /\ \A i \in 1..Len(t) : i # o => w[i] = t[i]
      BY <1>0, <3>2
    <3> HIDE DEF w, u, peer
    <3>4. Single(w)
      BY <1>0, <2>1, <3>2, <3>3 DEF Single, Has
    <3>5. \A q : Has(w, q) => Has(t, q) \/ q = a.from
      BY <1>0, <3>3 DEF Has
    <3>6. Has(w, a.from)
      BY <1>0, <3>2, <3>3 DEF Has
    <3>7. \A q : Talks(t, q) => Talks(w, q)
      BY <3>2, <3>3 DEF Talks
    <3>8. ~Full(t)
      BY <3>2 DEF Full
    <3>9. LearnedKeeps(t, a, w)
      BY <1>6, <3>3, <3>4, <3>5, <3>6, <3>7, <3>8 DEF LearnedKeeps
    <3> QED
      BY <3>1, <3>9 DEF u
  <2> QED
    BY <2>2, <2>3
<1> QED
  BY <1>3, <1>4, <1>5, <1>6

-----------------------------------------------------------------------------
(* The messages *)

(* A sender's key settles the messages that wait for it, and rightly. *)
LEMMA SettledFacts ==
    ASSUME NEW k \in Seq(Kept), NEW a, a.lxmf \in BOOLEAN
    PROVE  LET v == Settled(k, a)
           IN  /\ v \in Seq(Kept) /\ Len(v) = Len(k)
               /\ \A i \in 1..Len(k) :
                    /\ v[i].hash = k[i].hash /\ v[i].good = k[i].good
                    /\ v[i].unread = k[i].unread
                    /\ ~Waiting(k[i], a) => v[i] = k[i]
                    /\ Waiting(k[i], a) => v[i].trust = IF k[i].good THEN "Verified" ELSE "Failed"
<1> DEFINE v == Settled(k, a)
           new(i) == [k[i] EXCEPT !.trust = IF k[i].good THEN "Verified" ELSE "Failed"]
<1>1. \A i \in 1..Len(k) : k[i] \in Kept
  OBVIOUS
<1>2. ASSUME NEW i \in 1..Len(k)
      PROVE  /\ new(i) \in Kept /\ new(i).hash = k[i].hash /\ new(i).good = k[i].good
             /\ new(i).unread = k[i].unread
             /\ new(i).trust = IF k[i].good THEN "Verified" ELSE "Failed"
  BY <1>1 DEF Kept, Trust
<1>3. /\ v = [i \in 1..Len(k) |-> IF Waiting(k[i], a) THEN new(i) ELSE k[i]]
  BY DEF Settled
<1> HIDE DEF v, new
<1>4. \A i \in 1..Len(k) : v[i] = IF Waiting(k[i], a) THEN new(i) ELSE k[i]
  BY <1>3
<1>5. \A i \in 1..Len(k) : v[i] \in Kept
  BY <1>1, <1>2, <1>4
<1>6. v \in Seq(Kept) /\ Len(v) = Len(k)
  BY <1>3, <1>5
<1> QED
  BY <1>2, <1>4, <1>6 DEF v

\* What is believed and who is a peer, said of the next kept and peers
PeopleNext ==
    /\ peers' \in Seq(Slot) /\ Len(peers') <= Table
    /\ kept' \in Seq(Kept) /\ Len(kept') <= Capacity
    /\ PeopleInv'

LEMMA AnnouncePeople ==
    ASSUME Types, PeopleInv, NEW a, a.from \in Peers, a.lxmf \in BOOLEAN,
           NEW at \in 0..MaxTime, TakeAnnounce(a, at), written' = written
    PROVE  PeopleNext
<1> DEFINE k == kept  t == peers  v == Settled(k, a)  u == Learned(t, a, at)
           w == set_conversation(u, a.from)
<1>1. k \in Seq(Kept) /\ Len(k) <= Capacity /\ t \in Seq(Slot) /\ Len(t) <= Table
  BY DEF Types
<1>2. Single(t) /\ Believed(k, t) /\ Correspond(k, t, written) /\ SettledHasRoom(k, t)
  BY DEF PeopleInv
<1>3. kept' = v /\ peers' = IF v # k THEN w ELSE u
  BY DEF TakeAnnounce
<1>4. /\ v \in Seq(Kept) /\ Len(v) = Len(k)
      /\ \A i \in 1..Len(k) :
            /\ v[i].hash = k[i].hash /\ v[i].good = k[i].good
            /\ ~Waiting(k[i], a) => v[i] = k[i]
            /\ Waiting(k[i], a) => v[i].trust = IF k[i].good THEN "Verified" ELSE "Failed"
  BY <1>1, SettledFacts
<1>5. LearnedKeeps(t, a, u)
  BY <1>1, <1>2, LearnedFacts
<1> HIDE DEF v, u
<1>6. /\ w \in Seq(Slot) /\ Len(w) = Len(u) /\ Single(w)
      /\ \A q : Has(w, q) <=> Has(u, q)
      /\ \A q : Talks(u, q) => Talks(w, q)
      /\ Has(u, a.from) => Talks(w, a.from)
      /\ Full(u) => Full(w)
  BY <1>5, ConversationFacts DEF LearnedKeeps
<1> HIDE DEF w, k, t
<1> DEFINE x == IF v # k THEN w ELSE u
<1>7. /\ x \in Seq(Slot) /\ Len(x) <= Table /\ Single(x)
      /\ \A q : Has(x, q) => Has(t, q) \/ (a.lxmf /\ q = a.from)
      /\ \A q : Talks(t, q) => Talks(x, q)
      /\ Full(t) => Full(x)
      /\ a.lxmf /\ ~Has(x, a.from) => Full(x)
      /\ v # k /\ Has(x, a.from) => Talks(x, a.from)
  BY <1>5, <1>6 DEF LearnedKeeps
<1> HIDE DEF x
<1>8. \A i \in 1..Len(k) :
        Waiting(k[i], a) => v[i].trust # "Unverified" /\ k[i].trust = "Unverified"
                            /\ a.lxmf /\ From[k[i].hash] = a.from
  BY <1>4 DEF Waiting
<1>9. \A i \in 1..Len(k) : Waiting(k[i], a) => v # k
  BY <1>8
<1>10. \A q : Has(t, q) /\ Talks(t, q) => Has(x, q)
  BY <1>7 DEF Talks, Has
<1>11. \A q : Full(x) /\ Has(x, q) => Talks(x, q)
  BY DEF Full, Has, Talks
<1>12. Believed(v, x)
  <2> SUFFICES ASSUME NEW i \in 1..Len(k)
               PROVE  /\ v[i].trust = "Verified" => v[i].good
                      /\ v[i].trust = "Failed" => ~v[i].good
                      /\ Has(x, From[v[i].hash]) => v[i].trust # "Unverified"
    BY <1>4 DEF Believed
  <2>1. CASE Waiting(k[i], a)
    BY <1>4, <1>8, <2>1
  <2>2. CASE ~Waiting(k[i], a)
    <3>1. v[i] = k[i]
      BY <1>4, <2>2
    <3>2. Has(x, From[k[i].hash]) /\ k[i].trust = "Unverified" => Has(t, From[k[i].hash])
      BY <1>7, <2>2 DEF Waiting
    <3> QED
      BY <1>2, <3>1, <3>2 DEF Believed
  <2> QED
    BY <2>1, <2>2
<1>13. Correspond(v, x, written)
  <2>1. \A p \in written : Talks(x, p)
    BY <1>2, <1>7 DEF Correspond
  <2>2. ASSUME NEW i \in 1..Len(k), Has(x, From[k[i].hash])
        PROVE  Talks(x, From[k[i].hash])
    <3> DEFINE q == From[k[i].hash]
    <3>1. CASE Has(t, q)
      BY <1>2, <1>7, <3>1 DEF Correspond
    <3>2. CASE ~Has(t, q)
      <4>1. a.lxmf /\ q = a.from
        BY <1>7, <2>2, <3>2
      <4>2. CASE k[i].trust = "Unverified"
        <5>1. Waiting(k[i], a)
          BY <4>1, <4>2 DEF Waiting
        <5> QED
          BY <1>7, <1>9, <2>2, <4>1, <5>1
      <4>3. CASE k[i].trust # "Unverified"
        <5>1. Full(x)
          BY <1>2, <1>7, <3>2, <4>3 DEF SettledHasRoom
        <5> QED
          BY <1>11, <2>2, <5>1
      <4> QED
        BY <4>2, <4>3
    <3> QED
      BY <3>1, <3>2
  <2> QED
    BY <1>4, <2>1, <2>2 DEF Correspond
<1>14. SettledHasRoom(v, x)
  <2> SUFFICES ASSUME NEW i \in 1..Len(k), v[i].trust # "Unverified",
                      ~Has(x, From[k[i].hash])
               PROVE  Full(x)
    BY <1>4 DEF SettledHasRoom
  <2>1. CASE Waiting(k[i], a)
    BY <1>7, <1>8, <2>1
  <2>2. CASE ~Waiting(k[i], a)
    <3>1. v[i] = k[i]
      BY <1>4, <2>2
    <3>2. ~Has(t, From[k[i].hash])
      BY <1>2, <1>10 DEF Correspond
    <3>3. Full(t)
      BY <1>2, <3>1, <3>2 DEF SettledHasRoom
    <3> QED
      BY <1>7, <3>3
  <2> QED
    BY <2>1, <2>2
<1>15. kept' = v /\ peers' = x
  BY <1>3 DEF x, k
<1> QED
  BY <1>1, <1>4, <1>7, <1>12, <1>13, <1>14, <1>15 DEF PeopleNext, PeopleInv

(* One place fewer, and what was before and after it *)
LEMMA RemovedFacts ==
    ASSUME NEW S, NEW k \in Seq(S), NEW n \in 1..Len(k)
    PROVE  LET m == RemoveAt(k, n)
           IN  /\ m \in Seq(S) /\ Len(m) = Len(k) - 1
               /\ \A i \in 1..Len(m) : m[i] = IF i < n THEN k[i] ELSE k[i + 1]
<1> DEFINE b == SubSeq(k, 1, n - 1)
           c == SubSeq(k, n + 1, Len(k))
<1>1. b \in Seq(S) /\ Len(b) = n - 1 /\ \A i \in 1..Len(b) : b[i] = k[i]
  OBVIOUS
<1>2. c \in Seq(S) /\ Len(c) = Len(k) - n /\ \A i \in 1..Len(c) : c[i] = k[n + i]
  OBVIOUS
<1>3. RemoveAt(k, n) = b \o c
  BY DEF RemoveAt
<1> HIDE DEF b, c
<1> DEFINE m == b \o c
<1>4. /\ m \in Seq(S) /\ Len(m) = Len(k) - 1
      /\ \A i \in 1..Len(m) : m[i] = IF i <= Len(b) THEN b[i] ELSE c[i - Len(b)]
  BY <1>1, <1>2
<1> HIDE DEF m
<1>5. ASSUME NEW i \in 1..Len(m)
      PROVE  m[i] = IF i < n THEN k[i] ELSE k[i + 1]
  <2>1. CASE i < n
    BY <1>1, <1>4, <2>1
  <2>2. CASE ~(i < n)
    <3>1. i - Len(b) \in 1..Len(c) /\ n + (i - Len(b)) = i + 1 /\ ~(i <= Len(b))
      BY <1>1, <1>2, <1>4, <2>2
    <3> QED
      BY <1>2, <1>4, <2>2, <3>1
  <2> QED
    BY <2>1, <2>2
<1> QED
  BY <1>3, <1>4, <1>5 DEF m

(* Room for one more; and if something unread went, nothing kept was read. *)
LEMMA RoomFacts ==
    ASSUME NEW k \in Seq(Kept), Len(k) <= Capacity
    PROVE  LET m == Room(k)
           IN  /\ m \in Seq(Kept) /\ Len(m) < Capacity
               /\ \A i \in 1..Len(m) : \E j \in 1..Len(k) : m[i] = k[j]
               /\ (\E i \in 1..Len(k) : ~k[i].unread)
                  => \A j \in 1..Len(k) : k[j].unread => \E i \in 1..Len(m) : m[i] = k[j]
<1> DEFINE read == {i \in 1..Len(k) : ~k[i].unread}
           goes == IF read = {} THEN 1
                   ELSE CHOOSE i \in read : \A j \in read : i <= j
           m == Room(k)
<1>1. m = IF Len(k) = Capacity THEN RemoveAt(k, goes) ELSE k
  BY DEF Room
<1>2. Capacity \in Nat \ {0} /\ Len(k) \in Nat
  OBVIOUS
<1>3. CASE Len(k) # Capacity
  <2>1. m = k
    BY <1>1, <1>3
  <2> HIDE DEF m
  <2>2. Len(m) < Capacity
    BY <1>2, <1>3, <2>1
  <2> QED
    BY <2>1, <2>2 DEF m
<1>4. CASE Len(k) = Capacity
  <2>1. m = RemoveAt(k, goes)
    BY <1>1, <1>4
  <2>2. goes \in 1..Len(k) /\ (read # {} => goes \in read)
    <3>1. CASE read = {}
      BY <1>2, <1>4, <3>1
    <3>2. CASE read # {}
      <4> HIDE DEF read
      <4>0. read \subseteq Nat
        BY DEF read
      <4>1. \E i \in read : \A j \in read : i <= j
        BY <3>2, <4>0, FirstThere
      <4>2. goes \in read
        BY <3>2, <4>1
      <4> QED
        BY <4>2 DEF read
    <3> QED
      BY <3>1, <3>2
  <2> HIDE DEF goes, m
  <2>3. /\ m \in Seq(Kept) /\ Len(m) = Len(k) - 1
        /\ \A i \in 1..Len(m) : m[i] = IF i < goes THEN k[i] ELSE k[i + 1]
    BY <2>1, <2>2, RemovedFacts
  <2>4. \A i \in 1..Len(m) : i \in 1..Len(k) /\ i + 1 \in 1..Len(k)
    BY <1>2, <2>3
  <2>5. \A i \in 1..Len(m) : \E j \in 1..Len(k) : m[i] = k[j]
    BY <2>3, <2>4
  <2>6. ASSUME NEW j \in 1..Len(k), j # goes
        PROVE  \E i \in 1..Len(m) : m[i] = k[j]
    <3>1. CASE j < goes
      <4>1. j \in 1..Len(m)
        BY <1>2, <2>2, <2>3, <3>1
      <4> QED
        BY <2>3, <3>1, <4>1
    <3>2. CASE ~(j < goes)
      <4>1. j - 1 \in 1..Len(m) /\ ~(j - 1 < goes) /\ (j - 1) + 1 = j
        BY <1>2, <2>2, <2>3, <2>6, <3>2
      <4> QED
        BY <2>3, <4>1
    <3> QED
      BY <3>1, <3>2
  <2>7. (\E i \in 1..Len(k) : ~k[i].unread) => ~k[goes].unread
    BY <2>2
  <2>8. Len(m) < Capacity
    BY <1>2, <1>4, <2>3
  <2> QED
    BY <2>3, <2>5, <2>6, <2>7, <2>8 DEF m
<1> QED
  BY <1>3, <1>4

(* A message that is kept: nobody enters the table for it, and what is      *)
(* believed of it is what the table allows.                                 *)
LEMMA MessagePeople ==
    ASSUME Types, PeopleInv, NEW p, p.hash \in Hashes, p.good \in BOOLEAN,
           NEW at \in 0..MaxTime, TakeMessage(p, at), written' = written
    PROVE  PeopleNext
<1> DEFINE k == kept  t == peers  f == From[p.hash]
           m == Room(k)
           r == [hash |-> p.hash, good |-> p.good, trust |-> TrustOf(p), unread |-> TRUE]
           v == Append(m, r)
           w == set_conversation(t, f)
<1>1. k \in Seq(Kept) /\ Len(k) <= Capacity /\ t \in Seq(Slot) /\ Len(t) <= Table
  BY DEF Types
<1>2. Single(t) /\ Believed(k, t) /\ Correspond(k, t, written) /\ SettledHasRoom(k, t)
  BY DEF PeopleInv
<1>3. CASE Arrival(p) # "New"
  <2>1. kept' = kept /\ peers' = peers
    BY <1>3 DEF TakeMessage
  <2> QED
    BY <1>1, <1>2, <2>1 DEF PeopleNext, PeopleInv
<1>4. CASE Arrival(p) = "New"
  <2>1. kept' = v /\ peers' = w
    BY <1>4 DEF TakeMessage
  <2>2. /\ w \in Seq(Slot) /\ Len(w) = Len(t) /\ Single(w)
        /\ \A q : Has(w, q) <=> Has(t, q)
        /\ \A q : Talks(t, q) => Talks(w, q)
        /\ Has(t, f) => Talks(w, f)
        /\ Full(t) => Full(w)
    BY <1>1, <1>2, ConversationFacts
  <2>3. /\ m \in Seq(Kept) /\ Len(m) < Capacity
        /\ \A i \in 1..Len(m) : \E j \in 1..Len(k) : m[i] = k[j]
    BY <1>1, RoomFacts
  <2>4. Has(t, f) => p.good
    BY <1>4, KnowsFacts DEF Arrival
  <2>5. TrustOf(p) = IF Has(t, f) THEN "Verified" ELSE "Unverified"
    BY <1>4, KnowsFacts DEF TrustOf
  <2>6. /\ r \in Kept /\ r.hash = p.hash /\ r.good = p.good
        /\ r.trust = IF Has(t, f) THEN "Verified" ELSE "Unverified"
    BY <2>5 DEF Kept, Trust
  <2> HIDE DEF m, r, w, k, t
  <2>7. /\ v \in Seq(Kept) /\ Len(v) = Len(m) + 1
        /\ \A i \in 1..Len(v) : v[i] = r \/ \E j \in 1..Len(k) : v[i] = k[j]
    <3>1. /\ v \in Seq(Kept) /\ Len(v) = Len(m) + 1 /\ v[Len(m) + 1] = r
          /\ \A i \in 1..Len(m) : v[i] = m[i]
      BY <2>3, <2>6
    <3>2. \A i \in 1..(Len(m) + 1) : i \in 1..Len(m) \/ i = Len(m) + 1
      BY <2>3
    <3> HIDE DEF v
    <3>3. \A i \in 1..Len(v) : v[i] = r \/ \E j \in 1..Len(k) : v[i] = k[j]
      BY <2>3, <3>1, <3>2
    <3> QED
      BY <3>1, <3>3
  <2> HIDE DEF v
  <2>8. Believed(v, w)
    BY <1>2, <2>2, <2>4, <2>6, <2>7 DEF Believed
  <2>9. Correspond(v, w, written)
    BY <1>2, <2>2, <2>6, <2>7 DEF Correspond
  <2>10. SettledHasRoom(v, w)
    BY <1>2, <2>2, <2>6, <2>7 DEF SettledHasRoom
  <2>11. Len(v) <= Capacity /\ Len(w) <= Table
    BY <1>1, <2>2, <2>3, <2>7
  <2> QED
    BY <2>1, <2>2, <2>7, <2>8, <2>9, <2>10, <2>11 DEF PeopleNext, PeopleInv
<1> QED
  BY <1>3, <1>4

-----------------------------------------------------------------------------
(* The log, and what goes back on the air *)

(* A hash that is remembered was logged; and what was logged within SEEN is *)
(* remembered.                                                              *)
LEMMA RememberedFacts ==
    ASSUME Types, Remembers, NEW h
    PROVE  /\ Contains(seen, h) => \E j \in 1..Len(log) : log[j].hash = h
           /\ \A i \in 1..Len(log) :
                log[i].hash = h /\ ~Contains(seen, h) => Len(log) + 1 - i > Seen
<1>1. Len(log) \in Nat /\ Len(seen) \in Nat /\ Seen \in Nat \ {0}
  BY DEF Types
<1>2. Contains(seen, h) => \E j \in 1..Len(log) : log[j].hash = h
  <2> SUFFICES ASSUME NEW i \in 1..Len(seen), seen[i] = h
               PROVE  \E j \in 1..Len(log) : log[j].hash = h
    BY DEF Contains
  <2>1. Len(log) - Len(seen) + i \in 1..Len(log)
    BY <1>1 DEF Remembers
  <2> QED
    BY <2>1 DEF Remembers
<1>3. ASSUME NEW i \in 1..Len(log), log[i].hash = h, ~Contains(seen, h)
      PROVE  Len(log) + 1 - i > Seen
  <2>1. CASE i > Len(log) - Len(seen)
    <3> DEFINE j == i - (Len(log) - Len(seen))
    <3>1. j \in 1..Len(seen) /\ Len(log) - Len(seen) + j = i
      BY <1>1, <2>1
    <3>2. seen[j] = log[i].hash
      BY <3>1 DEF Remembers
    <3> QED
      BY <1>3, <3>1, <3>2 DEF Contains
  <2>2. CASE ~(i > Len(log) - Len(seen))
    BY <1>1, <2>2 DEF Remembers
  <2> QED
    BY <2>1, <2>2
<1> QED
  BY <1>2, <1>3

(* One more at the end of a list of n places, the oldest going *)
Onto(q, x, n) == Append(IF Len(q) = n THEN Tail(q) ELSE q, x)

EndsWith(u, q, x, n, S) ==
    /\ u \in Seq(S) /\ Len(u) <= n
    /\ Len(u) = IF Len(q) = n THEN n ELSE Len(q) + 1
    /\ u[Len(u)] = x
    /\ \A i \in 1..Len(u) :
         i # Len(u) => LET j == i + (Len(q) + 1 - Len(u))
                       IN  j \in 1..Len(q) /\ u[i] = q[j]

LEMMA PushedFacts ==
    ASSUME NEW S, NEW q \in Seq(S), NEW x \in S, NEW n \in Nat \ {0}, Len(q) <= n
    PROVE  EndsWith(Onto(q, x, n), q, x, n, S)
<1> DEFINE u == Onto(q, x, n)
<1>1. CASE Len(q) = n
  <2> DEFINE z == Tail(q)
  <2>1. z \in Seq(S) /\ Len(z) = Len(q) - 1 /\ \A i \in 1..Len(z) : z[i] = q[i + 1]
    BY <1>1
  <2>2. u = Append(z, x)
    BY <1>1 DEF Onto
  <2> HIDE DEF z, u
  <2>3. u \in Seq(S) /\ Len(u) = n /\ u[n] = x /\ \A i \in 1..Len(z) : u[i] = z[i]
    BY <1>1, <2>1, <2>2
  <2>4. ASSUME NEW i \in 1..Len(u), i # Len(u)
        PROVE  LET j == i + (Len(q) + 1 - Len(u))
               IN  j \in 1..Len(q) /\ u[i] = q[j]
    <3>1. i \in 1..Len(z) /\ i + (Len(q) + 1 - Len(u)) = i + 1 /\ i + 1 \in 1..Len(q)
      BY <1>1, <2>1, <2>3, <2>4
    <3>2. u[i] = q[i + 1]
      BY <2>1, <2>3, <3>1
    <3> QED
      BY <3>1, <3>2
  <2> QED
    BY <1>1, <2>3, <2>4 DEF u, EndsWith
<1>2. CASE Len(q) # n
  <2>1. u = Append(q, x)
    BY <1>2 DEF Onto
  <2> HIDE DEF u
  <2>2. u \in Seq(S) /\ Len(u) = Len(q) + 1 /\ u[Len(q) + 1] = x
        /\ \A i \in 1..Len(q) : u[i] = q[i]
    BY <2>1
  <2>3. ASSUME NEW i \in 1..Len(u), i # Len(u)
        PROVE  LET j == i + (Len(q) + 1 - Len(u))
               IN  j \in 1..Len(q) /\ u[i] = q[j]
    <3>1. i \in 1..Len(q) /\ i + (Len(q) + 1 - Len(u)) = i
      BY <2>2, <2>3
    <3> QED
      BY <2>2, <3>1
  <2>4. Len(u) <= n
    BY <1>2, <2>2
  <2> QED
    BY <1>2, <2>2, <2>3, <2>4 DEF u, EndsWith
<1> QED
  BY <1>1, <1>2

\* The node's queue after what answers a packet
QueueNext ==
    /\ queue' \in Seq(Sent) /\ Len(queue') <= Queue
    /\ ProvedWasKept'

LEMMA AnsweredFacts ==
    ASSUME Types, Remembers, ProvedWasKept, NEW p, p.hash \in Hashes,
           NEW at, TakeMessage(p, at)
    PROVE  QueueNext
<1> DEFINE Logged(h) == \E j \in 1..Len(log) : log[j].hash = h
           Logged2(h) == \E j \in 1..Len(log') : log'[j].hash = h
           Fine(q) == /\ q \in Seq(Sent) /\ Len(q) <= Queue
                      /\ \A i \in 1..Len(q) : q[i][1] = "proof" => Logged2(q[i][2])
           x == <<"proof", p.hash>>
           y == <<"ask", From[p.hash]>>
           pushed == Pushed(queue, x)
           q1 == IF prove(p) THEN pushed ELSE queue
           q2 == IF ask_for_key(p) THEN Pushed(q1, y) ELSE q1
<1>0. queue \in Seq(Sent) /\ Len(queue) <= Queue /\ Queue \in Nat \ {0}
  BY DEF Types
<1>1. /\ x \in Sent /\ x[1] = "proof" /\ x[2] = p.hash
      /\ y \in Sent /\ y[1] = "ask"
  BY DEF Sent
<1> HIDE DEF x, y
<1>2. log \in Seq(News) /\ Len(log) \in Nat
  BY DEF Types
<1>3. Arrival(p) = "New" => \E e : e.hash = p.hash /\ log' = Append(log, e)
  BY DEF TakeMessage
<1>4. Arrival(p) # "New" => log' = log
  BY DEF TakeMessage
<1>5. ASSUME NEW h, Logged(h) PROVE Logged2(h)
  <2>1. CASE Arrival(p) = "New"
    <3>1. PICK e : log' = Append(log, e)
      BY <1>3, <2>1
    <3>2. /\ Len(log') = Len(log) + 1
          /\ \A i \in 1..Len(log) : i \in 1..Len(log') /\ log'[i] = log[i]
      BY <1>2, <3>1
    <3> QED
      BY <1>5, <3>2
  <2>2. CASE Arrival(p) # "New"
    BY <1>4, <1>5, <2>2
  <2> QED
    BY <2>1, <2>2
<1>6. prove(p) => Logged2(p.hash)
  <2>1. CASE Arrival(p) = "New"
    <3>1. PICK e : e.hash = p.hash /\ log' = Append(log, e)
      BY <1>3, <2>1
    <3>2. Len(log) + 1 \in 1..Len(log') /\ log'[Len(log) + 1] = e
      BY <1>2, <3>1
    <3> QED
      BY <3>1, <3>2
  <2>2. CASE Arrival(p) = "Duplicate"
    <3>1. Contains(seen, p.hash)
      BY <2>2 DEF Arrival
    <3>2. Logged(p.hash)
      BY <3>1, RememberedFacts
    <3> QED
      BY <1>5, <3>2
  <2>3. Arrival(p) \in {"New", "Duplicate", "Forged"}
    BY DEF Arrival
  <2> QED
    BY <2>1, <2>2, <2>3 DEF prove
<1>7. Fine(queue)
  BY <1>0, <1>5 DEF ProvedWasKept
<1> HIDE DEF Logged, Logged2
<1>8. ASSUME NEW q, Fine(q), NEW z \in Sent,
             z[1] = "proof" => Logged2(z[2])
      PROVE  Fine(Pushed(q, z))
  <2> DEFINE u == Pushed(q, z)
  <2>1. u = Onto(q, z, Queue)
    BY DEF Pushed, Onto
  <2>2. q \in Seq(Sent) /\ Len(q) <= Queue /\ z \in Sent
    BY <1>8
  <2>3. EndsWith(u, q, z, Queue, Sent)
    BY <1>0, <2>1, <2>2, PushedFacts
  <2> HIDE DEF u
  <2>4. ASSUME NEW i \in 1..Len(u), u[i][1] = "proof" PROVE Logged2(u[i][2])
    <3>1. CASE i = Len(u)
      BY <1>8, <2>3, <2>4, <3>1 DEF EndsWith
    <3>2. CASE i # Len(u)
      BY <1>8, <2>3, <2>4, <3>2 DEF EndsWith
    <3> QED
      BY <3>1, <3>2
  <2> QED
    BY <2>3, <2>4 DEF u, EndsWith
<1> HIDE DEF Fine
<1>9. Fine(q1)
  BY <1>1, <1>6, <1>7, <1>8
<1>10. Fine(q2)
  BY <1>1, <1>8, <1>9
<1>11. queue' = q2
  BY DEF TakeMessage, Answered, x, y
<1> HIDE DEF q2
<1> QED
  BY <1>10, <1>11 DEF QueueNext, ProvedWasKept, Fine, Logged2

\* The log, and what is said of it, after an action
LogNext ==
    /\ seen' \in Seq(Hashes) /\ Len(seen') <= Seen
    /\ told' \in {None} \cup [s : Nat, at : 0..MaxTime]
    /\ alert' \in [on : BOOLEAN, last : {None} \cup 0..MaxTime]
    /\ log' \in Seq(News)
    /\ Remembers' /\ OnceWithinSeen' /\ OneAlertForALot'
    /\ told' # None => told'.at <= now
    /\ \A i \in 1..Len(log') :
        /\ told' # None /\ Stamp[log'[i].hash] <= told'.s
        /\ alert'.last # None /\ log'[i].at <= alert'.last

LEMMA ToldFacts ==
    ASSUME Types, TimesInv, NEW h \in Hashes, NEW at \in 0..MaxTime, at <= now
    PROVE  LET new == Told(h, at)
           IN  /\ new \in [s : Nat, at : 0..MaxTime] /\ new.at <= now
               /\ Stamp[h] <= new.s
               /\ told # None => told.s <= new.s
<1> DEFINE n == [s |-> Stamp[h], at |-> at]
<1>1. n \in [s : Nat, at : 0..MaxTime] /\ n.s = Stamp[h] /\ n.at = at /\ Stamp[h] \in Nat
  OBVIOUS
<1>2. told # None => told \in [s : Nat, at : 0..MaxTime] /\ told.s \in Nat /\ told.at <= now
  BY DEF Types, TimesInv
<1>3. Told(h, at) = IF told = None \/ Stamp[h] > told.s THEN n ELSE told
  BY DEF Told
<1> HIDE DEF n
<1>4. CASE told = None \/ Stamp[h] > told.s
  <2>1. Told(h, at) = n
    BY <1>3, <1>4
  <2> QED
    BY <1>1, <1>2, <1>4, <2>1
<1>5. CASE ~(told = None \/ Stamp[h] > told.s)
  <2>1. Told(h, at) = told
    BY <1>3, <1>5
  <2> QED
    BY <1>1, <1>2, <1>5, <2>1
<1> QED
  BY <1>4, <1>5

LEMMA AlertedFacts ==
    ASSUME Types, NEW at \in 0..MaxTime
    PROVE  LET new == Alerted(at)
           IN  /\ new \in [on : BOOLEAN, last : {None} \cup 0..MaxTime]
               /\ new.last \in 0..MaxTime /\ at <= new.last
               /\ alert.last # None => alert.last <= new.last
<1> DEFINE l == IF alert.last = None \/ at > alert.last THEN at ELSE alert.last
<1>1. alert \in [on : BOOLEAN, last : {None} \cup 0..MaxTime]
  BY DEF Types
<1>2. l \in 0..MaxTime /\ at <= l /\ (alert.last # None => alert.last <= l)
  <2>1. alert.last \in {None} \cup 0..MaxTime
    BY <1>1
  <2>2. CASE alert.last = None
    BY <2>2
  <2>3. CASE alert.last # None
    BY <2>1, <2>3
  <2> QED
    BY <2>2, <2>3
<1>3. Alerted(at) = [alert EXCEPT !.last = l]
  BY DEF Alerted
<1> HIDE DEF l
<1>4. [alert EXCEPT !.last = l] \in [on : BOOLEAN, last : {None} \cup 0..MaxTime]
      /\ [alert EXCEPT !.last = l].last = l
  BY <1>1, <1>2
<1> QED
  BY <1>2, <1>3, <1>4

LEMMA MessageLog ==
    ASSUME Types, Remembers, OnceWithinSeen, OneAlertForALot, TimesInv,
           NEW p, p.hash \in Hashes, NEW at \in 0..MaxTime, at <= now,
           TakeMessage(p, at)
    PROVE  LogNext
<1> DEFINE h == p.hash
           e == [hash |-> h, at |-> at, rang |-> Sounds(at)]
           n == Len(log)
           new == Append(log, e)
           known == Remembered(h)
           clock == Told(h, at)
           bell == Alerted(at)
<1>0. /\ log \in Seq(News) /\ n \in Nat /\ now \in Nat
      /\ seen \in Seq(Hashes) /\ Len(seen) <= Seen /\ Seen \in Nat \ {0}
      /\ told \in {None} \cup [s : Nat, at : 0..MaxTime]
      /\ alert \in [on : BOOLEAN, last : {None} \cup 0..MaxTime]
  BY DEF Types
<1>1. CASE Arrival(p) # "New"
  <2>1. seen' = seen /\ told' = told /\ alert' = alert /\ log' = log
    BY <1>1 DEF TakeMessage
  <2>2. /\ Remembers' /\ OnceWithinSeen' /\ OneAlertForALot'
        /\ \A i \in 1..Len(log') :
            /\ told' # None /\ Stamp[log'[i].hash] <= told'.s
            /\ alert'.last # None /\ log'[i].at <= alert'.last
        /\ told' # None => told'.at <= now
    BY <2>1 DEF Remembers, OnceWithinSeen, OneAlertForALot, TimesInv
  <2> QED
    BY <1>0, <2>1, <2>2 DEF LogNext
<1>2. CASE Arrival(p) = "New"
  <2>1. seen' = known /\ told' = clock /\ alert' = bell /\ log' = new
    BY <1>2 DEF TakeMessage
  <2>2. e \in News /\ e.hash = h /\ e.at = at /\ e.rang = Sounds(at)
    BY DEF News, Sounds, Together
  <2>3. ~Contains(seen, h)
    BY <1>2 DEF Arrival
  <2>4. clock \in [s : Nat, at : 0..MaxTime] /\ clock.at <= now /\ Stamp[h] <= clock.s
        /\ (told # None => told.s <= clock.s)
    BY ToldFacts
  <2>5. bell \in [on : BOOLEAN, last : {None} \cup 0..MaxTime]
        /\ bell.last \in 0..MaxTime /\ at <= bell.last
        /\ (alert.last # None => alert.last <= bell.last)
    BY AlertedFacts
  <2>6. EndsWith(known, seen, h, Seen, Hashes)
    <3>1. known = Onto(seen, h, Seen)
      BY DEF Remembered, Onto
    <3> QED
      BY <1>0, <3>1, PushedFacts
  <2> HIDE DEF e, clock, bell, known
  <2>7. /\ known \in Seq(Hashes) /\ Len(known) <= Seen
        /\ Len(known) = IF Len(seen) = Seen THEN Seen ELSE Len(seen) + 1
        /\ known[Len(known)] = h
        /\ \A i \in 1..Len(known) :
              i # Len(known) => LET j == i + (Len(seen) + 1 - Len(known))
                                IN  j \in 1..Len(seen) /\ known[i] = seen[j]
    BY <2>6 DEF EndsWith
  <2>8. /\ new \in Seq(News) /\ Len(new) = n + 1 /\ new[n + 1] = e
        /\ \A i \in 1..n : new[i] = log[i]
    BY <1>0, <2>2
  <2>9. \A i \in 1..Len(new) : i \in 1..n \/ i = n + 1
    BY <1>0, <2>8
  <2> HIDE DEF new
  <2>10. Remembers'
    <3>1. Len(known) = IF Len(new) < Seen THEN Len(new) ELSE Seen
      BY <1>0, <2>7, <2>8 DEF Remembers
    <3>2. ASSUME NEW i \in 1..Len(known)
          PROVE  known[i] = new[Len(new) - Len(known) + i].hash
      <4>1. CASE i = Len(known)
        <5>1. Len(new) - Len(known) + i = n + 1
          BY <1>0, <2>7, <2>8, <4>1
        <5> QED
          BY <2>2, <2>7, <2>8, <4>1, <5>1
      <4>2. CASE i # Len(known)
        <5> DEFINE j == i + (Len(seen) + 1 - Len(known))
        <5>1. j \in 1..Len(seen) /\ known[i] = seen[j]
          BY <2>7, <4>2
        <5>2. seen[j] = log[n - Len(seen) + j].hash
          BY <5>1 DEF Remembers
        <5>3. /\ Len(seen) \in Nat /\ Len(known) \in Nat /\ Len(seen) <= n
          BY <1>0, <2>7 DEF Remembers
        <5>4. Len(new) - Len(known) + i = n - Len(seen) + j
          BY <1>0, <2>8, <5>3
        <5> HIDE DEF j
        <5>5. n - Len(seen) + j \in 1..n
          BY <1>0, <5>1, <5>3
        <5> QED
          BY <2>8, <5>1, <5>2, <5>4, <5>5
      <4> QED
        BY <4>1, <4>2
    <3> QED
      BY <2>1, <3>1, <3>2 DEF Remembers
  <2>11. OnceWithinSeen'
    <3>1. ASSUME NEW i \in 1..Len(new), NEW j \in 1..Len(new), i < j,
                 new[i].hash = new[j].hash
          PROVE  j - i > Seen
      <4>1. i \in 1..n
        BY <1>0, <2>8, <3>1
      <4>2. CASE j = n + 1
        <5>1. log[i].hash = h
          BY <2>2, <2>8, <3>1, <4>1, <4>2
        <5> QED
          BY <2>3, <4>1, <4>2, <5>1, RememberedFacts
      <4>3. CASE j \in 1..n
        BY <2>8, <3>1, <4>1, <4>3 DEF OnceWithinSeen
      <4> QED
        BY <2>9, <4>2, <4>3
    <3> QED
      BY <2>1, <3>1 DEF OnceWithinSeen
  <2>12. OneAlertForALot'
    <3>1. ASSUME NEW i \in 2..Len(new), new[i].rang
          PROVE  new[i].at >= new[i - 1].at + Merge
      <4>0. i - 1 \in 1..n
        BY <1>0, <2>8
      <4>1. i - 1 \in 1..n /\ new[i - 1] = log[i - 1]
        BY <2>8, <4>0
      <4>2. CASE i = n + 1
        <5>1. Sounds(at) /\ new[i].at = at
          BY <2>2, <2>8, <3>1, <4>2
        <5>2. alert.last # None /\ log[n].at <= alert.last /\ n \in 1..n
          BY <4>1, <4>2 DEF TimesInv
        <5>3. ~(at < alert.last + Merge)
          BY <5>1, <5>2 DEF Sounds, Together
        <5>4. /\ log[n].at \in Nat /\ alert.last \in Nat /\ Merge \in Nat
              /\ at \in Nat
          <6>1. log[n] \in News
            BY <1>0, <5>2
          <6>2. alert.last \in 0..MaxTime
            BY <1>0, <5>2
          <6> QED
            BY <6>1, <6>2 DEF News
        <5>5. at >= log[n].at + Merge
          BY <5>2, <5>3, <5>4
        <5>6. i - 1 = n
          BY <1>0, <4>2
        <5> QED
          BY <4>1, <5>1, <5>5, <5>6
      <4>3. CASE i \in 1..n
        <5>1. i \in 2..n
          BY <1>0, <4>3
        <5> QED
          BY <2>8, <3>1, <4>1, <4>3, <5>1 DEF OneAlertForALot
      <4>4. i \in 1..Len(new)
        BY <1>0, <2>8
      <4> QED
        BY <2>9, <4>2, <4>3, <4>4
    <3> QED
      BY <2>1, <3>1 DEF OneAlertForALot
  <2>13. ASSUME NEW i \in 1..Len(new)
         PROVE  /\ clock # None /\ Stamp[new[i].hash] <= clock.s
                /\ bell.last # None /\ new[i].at <= bell.last
    <3>1. clock # None /\ bell.last # None
      BY <2>4, <2>5
    <3>2. CASE i = n + 1
      BY <2>2, <2>4, <2>5, <2>8, <3>1, <3>2
    <3>3. CASE i \in 1..n
      <4>1. /\ told # None /\ Stamp[log[i].hash] <= told.s
            /\ alert.last # None /\ log[i].at <= alert.last
        BY <3>3 DEF TimesInv
      <4>2. log[i] \in News
        BY <1>0, <3>3
      <4>3. Stamp[log[i].hash] \in Nat /\ log[i].at \in Nat
        BY <4>2 DEF News
      <4>4. told.s \in Nat /\ alert.last \in Nat
        BY <1>0, <4>1
      <4>5. clock.s \in Nat /\ bell.last \in Nat
        BY <2>4, <2>5
      <4> DEFINE s == Stamp[log[i].hash]
                 l == log[i].at
      <4>6. s <= told.s /\ told.s <= clock.s /\ l <= alert.last /\ alert.last <= bell.last
        BY <2>4, <2>5, <4>1
      <4>7. s \in Nat /\ l \in Nat
        BY <4>3
      <4> HIDE DEF s, l
      <4>8. \A x, y, z \in Nat : x <= y /\ y <= z => x <= z
        OBVIOUS
      <4>9. s <= clock.s /\ l <= bell.last
        BY <4>4, <4>5, <4>6, <4>7, <4>8, Zenon
      <4> QED
        BY <2>8, <3>1, <3>3, <4>9 DEF s, l
    <3> QED
      BY <2>9, <3>2, <3>3
  <2> QED
    BY <2>1, <2>4, <2>5, <2>7, <2>8, <2>10, <2>11, <2>12, <2>13 DEF LogNext
<1> QED
  BY <1>1, <1>2

-----------------------------------------------------------------------------
(* The invariant *)

LEMMA MailboxInvInit == MailboxInit => MailboxInv
<1> SUFFICES ASSUME MailboxInit PROVE MailboxInv
  OBVIOUS
<1>1. Types
  BY DEF MailboxInit, Types
<1>2. PeopleInv
  BY DEF MailboxInit, PeopleInv, Single, Believed, Correspond, SettledHasRoom
<1>3. LogInv
  BY DEF MailboxInit, LogInv, Remembers, OnceWithinSeen, ProvedWasKept, TimesInv,
         OneAlertForALot
<1> QED
  BY <1>1, <1>2, <1>3 DEF MailboxInv

(* What stays as it is when nothing of it moves *)
LEMMA SamePeople ==
    ASSUME PeopleInv, UNCHANGED <<peers, kept, written>>
    PROVE  PeopleInv'
BY DEF PeopleInv, Single, Believed, Correspond, SettledHasRoom, Has, Talks, Full

LEMMA SameLog ==
    ASSUME LogInv, Types, UNCHANGED <<seen, told, log>>, alert'.last = alert.last,
           now' \in Nat, now <= now',
           \A i \in 1..Len(inbox') : inbox'[i].at <= now',
           \A i \in 1..Len(queue') : \E j \in 1..Len(queue) : queue'[i] = queue[j]
    PROVE  LogInv'
<1>1. Remembers' /\ OnceWithinSeen' /\ OneAlertForALot'
  BY DEF LogInv, Remembers, OnceWithinSeen, OneAlertForALot
<1>2. ProvedWasKept'
  <2> SUFFICES ASSUME NEW i \in 1..Len(queue'), queue'[i][1] = "proof"
               PROVE  \E j \in 1..Len(log) : log[j].hash = queue'[i][2]
    BY DEF ProvedWasKept
  <2>1. PICK j \in 1..Len(queue) : queue'[i] = queue[j]
    OBVIOUS
  <2>2. queue[j][1] = "proof"
    BY <2>1
  <2> QED
    BY <2>1, <2>2 DEF LogInv, ProvedWasKept
<1>3. told # None => told.at \in Nat /\ told.at <= now /\ now \in Nat
  BY DEF LogInv, TimesInv, Types
<1>4. told' # None => told'.at <= now'
  BY <1>3
<1>5. TimesInv'
  BY <1>4 DEF LogInv, TimesInv
<1> QED
  BY <1>1, <1>2, <1>5 DEF LogInv

LEMMA HeardKeeps ==
    ASSUME MailboxInv, Heard
    PROVE  MailboxInv'
<1>0. Types /\ LogInv /\ PeopleInv
  BY DEF MailboxInv
<1>1. PICK p \in Packet :
        inbox' = Append(IF Len(inbox) = Inbox THEN Tail(inbox) ELSE inbox,
                        [packet |-> p, at |-> now])
  BY DEF Heard
<1> DEFINE e == [packet |-> p, at |-> now]
<1>2. e \in Entry /\ e.at = now
  BY <1>0 DEF Entry, Types
<1>3. /\ inbox \in Seq(Entry) /\ Len(inbox) <= Inbox /\ Inbox \in Nat \ {0}
      /\ now \in Nat
  BY <1>0 DEF Types
<1>4. inbox' = Onto(inbox, e, Inbox)
  BY <1>1 DEF Onto
<1> HIDE DEF e
<1>5. EndsWith(inbox', inbox, e, Inbox, Entry)
  BY <1>2, <1>3, <1>4, PushedFacts
<1>6. inbox' \in Seq(Entry) /\ Len(inbox') <= Inbox
  BY <1>5 DEF EndsWith
<1>7. ASSUME NEW i \in 1..Len(inbox') PROVE inbox'[i].at <= now
  <2>1. \A j \in 1..Len(inbox) : inbox[j].at <= now
    BY <1>0 DEF LogInv, TimesInv
  <2>2. CASE i = Len(inbox')
    BY <1>2, <1>3, <1>5, <2>2 DEF EndsWith
  <2>3. CASE i # Len(inbox')
    <3>1. \E j \in 1..Len(inbox) : inbox'[i] = inbox[j]
      BY <1>5, <2>3 DEF EndsWith
    <3> QED
      BY <2>1, <3>1
  <2> QED
    BY <2>2, <2>3
<1>8. Types'
  <2>1. UNCHANGED <<running, now, peers, kept, seen, queue, told, alert, log, written>>
    BY DEF Heard
  <2>2. heard' \in 0..MaxHeard
    BY <1>0 DEF Heard, Types
  <2> QED
    BY <1>0, <1>6, <2>1, <2>2 DEF Types
<1>9. PeopleInv'
  BY <1>0, SamePeople DEF Heard
<1>10. LogInv'
  <2>1. UNCHANGED <<seen, told, log, alert, queue, now>>
    BY DEF Heard
  <2> QED
    BY <1>0, <1>3, <1>7, <2>1, SameLog
<1> QED
  BY <1>8, <1>9, <1>10 DEF MailboxInv

LEMMA TickKeeps ==
    ASSUME MailboxInv, Tick
    PROVE  MailboxInv'
<1>0. Types /\ LogInv /\ PeopleInv
  BY DEF MailboxInv
<1> DEFINE p == inbox[1].packet
           at == inbox[1].at
<1>1. /\ inbox \in Seq(Entry) /\ Len(inbox) <= Inbox /\ inbox # << >>
      /\ inbox' = Tail(inbox)
      /\ UNCHANGED <<running, now, written, heard>>
  BY <1>0 DEF Types, Tick
<1>2. inbox[1] \in Entry /\ Len(inbox) \in Nat \ {0}
  BY <1>1
<1>3. p \in Packet /\ at \in 0..MaxTime /\ at <= now
  BY <1>0, <1>2 DEF Entry, LogInv, TimesInv
<1>4. /\ inbox' \in Seq(Entry) /\ Len(inbox') <= Inbox
      /\ \A i \in 1..Len(inbox') : inbox'[i].at <= now
  <2>1. /\ inbox' \in Seq(Entry) /\ Len(inbox') = Len(inbox) - 1
        /\ \A i \in 1..Len(inbox') : inbox'[i] = inbox[i + 1] /\ i + 1 \in 1..Len(inbox)
    BY <1>1, <1>2
  <2>2. \A i \in 1..Len(inbox') : inbox'[i].at <= now
    BY <1>0, <2>1 DEF LogInv, TimesInv
  <2> QED
    BY <1>1, <1>2, <2>1, <2>2
<1>5. \/ p.kind = "announce" /\ TakeAnnounce(p, at)
      \/ p.kind = "message" /\ TakeMessage(p, at)
      \/ p.kind = "unreadable" /\ UNCHANGED <<peers, kept, seen, queue, told, alert, log>>
  BY DEF Tick
<1> HIDE DEF p, at
<1>6. CASE p.kind = "announce" /\ TakeAnnounce(p, at)
  <2>1. p.from \in Peers /\ p.lxmf \in BOOLEAN
    BY <1>3, <1>6 DEF Packet
  <2>2. PeopleNext
    BY <1>0, <1>1, <1>3, <1>6, <2>1, AnnouncePeople
  <2>3. UNCHANGED <<seen, queue, told, alert, log>>
    BY <1>6 DEF TakeAnnounce
  <2>4. Types'
    BY <1>0, <1>1, <1>4, <2>2, <2>3 DEF Types, PeopleNext
  <2>5. LogInv'
    <3>1. now \in Nat /\ queue \in Seq(Sent)
      BY <1>0 DEF Types
    <3> QED
      BY <1>0, <1>1, <1>4, <2>3, <3>1, SameLog
  <2> QED
    BY <2>2, <2>4, <2>5 DEF MailboxInv, PeopleNext
<1>7. CASE p.kind = "message" /\ TakeMessage(p, at)
  <2>1. p.hash \in Hashes /\ p.good \in BOOLEAN
    BY <1>3, <1>7 DEF Packet
  <2>2. PeopleNext
    BY <1>0, <1>1, <1>3, <1>7, <2>1, MessagePeople
  <2>3. QueueNext
    BY <1>0, <1>7, <2>1, AnsweredFacts DEF LogInv
  <2>4. LogNext
    BY <1>0, <1>3, <1>7, <2>1, MessageLog DEF LogInv
  <2>5. Types'
    BY <1>0, <1>1, <1>4, <2>2, <2>3, <2>4 DEF Types, PeopleNext, QueueNext, LogNext
  <2>6. LogInv'
    <3>1. TimesInv'
      BY <1>1, <1>4, <2>4 DEF LogNext, TimesInv
    <3> QED
      BY <2>3, <2>4, <3>1 DEF LogInv, LogNext, QueueNext
  <2> QED
    BY <2>2, <2>5, <2>6 DEF MailboxInv, PeopleNext
<1>8. CASE p.kind = "unreadable" /\ UNCHANGED <<peers, kept, seen, queue, told, alert, log>>
  <2>1. Types'
    BY <1>0, <1>1, <1>4, <1>8 DEF Types
  <2>2. PeopleInv'
    BY <1>0, <1>1, <1>8, SamePeople
  <2>3. LogInv'
    <3>1. now \in Nat /\ queue \in Seq(Sent)
      BY <1>0 DEF Types
    <3> QED
      BY <1>0, <1>1, <1>4, <1>8, <3>1, SameLog
  <2> QED
    BY <2>1, <2>2, <2>3 DEF MailboxInv
<1> QED
  BY <1>5, <1>6, <1>7, <1>8

(* The panel has shown some: who sent what, and what is believed, stays. *)
LEMMA ReadKeeps ==
    ASSUME MailboxInv, NEW p \in Peers, NEW n \in 1..Capacity, Read(p, n)
    PROVE  /\ MailboxInv'
           /\ \A i \in 1..Len(kept) : i \in 1..Len(kept') /\ kept'[i].hash = kept[i].hash
<1>0. Types /\ LogInv /\ PeopleInv
  BY DEF MailboxInv
<1> DEFINE k == kept
           v == kept'
<1>1. PICK shown : v = [i \in 1..Len(k) |-> IF i \in shown
                                            THEN [k[i] EXCEPT !.unread = FALSE] ELSE k[i]]
  BY DEF Read
<1>2. k \in Seq(Kept) /\ Len(k) <= Capacity /\ \A i \in 1..Len(k) : k[i] \in Kept
  BY <1>0 DEF Types
<1>3. ASSUME NEW i \in 1..Len(k)
      PROVE  LET r == [k[i] EXCEPT !.unread = FALSE]
             IN  /\ r \in Kept /\ r.hash = k[i].hash /\ r.good = k[i].good
                 /\ r.trust = k[i].trust
  BY <1>2 DEF Kept
<1>4. \A i \in 1..Len(k) :
        v[i] \in Kept /\ v[i].hash = k[i].hash /\ v[i].good = k[i].good
                      /\ v[i].trust = k[i].trust
  BY <1>1, <1>2, <1>3
<1>5. v \in Seq(Kept) /\ Len(v) = Len(k)
  BY <1>1, <1>4
<1>6. UNCHANGED <<running, now, inbox, peers, seen, queue, told, alert, log, written, heard>>
  BY DEF Read
<1>7. Types'
  BY <1>0, <1>2, <1>5, <1>6 DEF Types
<1>8. PeopleInv'
  <2>1. Single(peers) /\ Believed(k, peers) /\ Correspond(k, peers, written)
        /\ SettledHasRoom(k, peers)
    BY <1>0 DEF PeopleInv
  <2> HIDE DEF k, v
  <2>2. Believed(v, peers)
    BY <1>4, <1>5, <2>1 DEF Believed
  <2>3. Correspond(v, peers, written)
    BY <1>4, <1>5, <2>1 DEF Correspond
  <2>4. SettledHasRoom(v, peers)
    BY <1>4, <1>5, <2>1 DEF SettledHasRoom
  <2> QED
    BY <1>6, <2>1, <2>2, <2>3, <2>4 DEF PeopleInv, v
<1>9. LogInv'
  <2>1. /\ now \in Nat /\ queue \in Seq(Sent)
        /\ \A i \in 1..Len(inbox) : inbox[i].at <= now
    BY <1>0 DEF Types, LogInv, TimesInv
  <2>2. /\ UNCHANGED <<seen, told, log>> /\ alert'.last = alert.last /\ now' = now
        /\ inbox' = inbox /\ queue' = queue
    BY <1>6
  <2> QED
    BY <1>0, <2>1, <2>2, SameLog
<1> QED
  BY <1>4, <1>5, <1>7, <1>8, <1>9 DEF MailboxInv

(* A message to somebody gives a conversation, if there is one to give. *)
LEMMA ComposeKeeps ==
    ASSUME MailboxInv, NEW p \in Peers, Compose(p)
    PROVE  MailboxInv'
<1>0. Types /\ LogInv /\ PeopleInv
  BY DEF MailboxInv
<1> DEFINE k == kept  t == peers  u == set_conversation(t, p)
           w == IF Knows(t, p) THEN written \cup {p} ELSE written
<1>1. peers' = u /\ written' = w
      /\ UNCHANGED <<running, now, inbox, kept, seen, queue, told, alert, log, heard>>
  BY DEF Compose
<1>2. k \in Seq(Kept) /\ t \in Seq(Slot) /\ Len(t) <= Table /\ written \subseteq Peers
  BY <1>0 DEF Types
<1>3. Single(t) /\ Believed(k, t) /\ Correspond(k, t, written) /\ SettledHasRoom(k, t)
  BY <1>0 DEF PeopleInv
<1>4. /\ u \in Seq(Slot) /\ Len(u) = Len(t) /\ Single(u)
      /\ \A q : Has(u, q) <=> Has(t, q)
      /\ \A q : Talks(t, q) => Talks(u, q)
      /\ Has(t, p) => Talks(u, p)
      /\ Full(t) => Full(u)
  BY <1>2, <1>3, ConversationFacts
<1>5. \A q \in w : q \in written \/ (q = p /\ Has(t, p))
  BY KnowsFacts
<1>6. w \subseteq Peers
  BY <1>2
<1> HIDE DEF u, w, t, k
<1>7. Believed(k, u)
  BY <1>3, <1>4 DEF Believed
<1>8. Correspond(k, u, w)
  BY <1>3, <1>4, <1>5 DEF Correspond
<1>9. SettledHasRoom(k, u)
  BY <1>3, <1>4 DEF SettledHasRoom
<1>10. PeopleInv'
  BY <1>1, <1>4, <1>7, <1>8, <1>9 DEF PeopleInv, k
<1>11. Types'
  BY <1>0, <1>1, <1>2, <1>4, <1>6 DEF Types
<1>12. LogInv'
  <2>1. /\ now \in Nat /\ queue \in Seq(Sent)
        /\ \A i \in 1..Len(inbox) : inbox[i].at <= now
    BY <1>0 DEF Types, LogInv, TimesInv
  <2> QED
    BY <1>0, <1>1, <2>1, SameLog
<1> QED
  BY <1>10, <1>11, <1>12 DEF MailboxInv

(* What touches neither the messages nor the peers *)
LEMMA OthersKeep ==
    ASSUME MailboxInv, NextPacket \/ Stop \/ Start \/ set_alert \/ Time
    PROVE  MailboxInv'
<1>0. Types /\ LogInv /\ PeopleInv
  BY DEF MailboxInv
<1>1. UNCHANGED <<peers, kept, written, seen, told, log, heard>>
  BY DEF NextPacket, Stop, Start, set_alert, Time
<1>2. PeopleInv'
  BY <1>0, <1>1, SamePeople
<1>3. /\ now \in Nat /\ MaxTime \in Nat /\ now \in 0..MaxTime
      /\ queue \in Seq(Sent) /\ Len(queue) <= Queue /\ Queue \in Nat
      /\ inbox \in Seq(Entry) /\ Len(inbox) <= Inbox /\ Inbox \in Nat
      /\ alert \in [on : BOOLEAN, last : {None} \cup 0..MaxTime]
      /\ \A i \in 1..Len(inbox) : inbox[i].at <= now
  BY <1>0 DEF Types, LogInv, TimesInv
<1>4. /\ now' \in 0..MaxTime /\ now <= now'
      /\ inbox' = inbox \/ inbox' = << >>
  BY <1>3 DEF NextPacket, Stop, Start, set_alert, Time
<1>5. queue' = queue \/ queue' = << >> \/ (queue # << >> /\ queue' = Tail(queue))
  BY DEF NextPacket, Stop, Start, set_alert, Time
<1>6. /\ queue' \in Seq(Sent) /\ Len(queue') <= Queue
      /\ \A i \in 1..Len(queue') : \E j \in 1..Len(queue) : queue'[i] = queue[j]
  <2>1. CASE queue' = queue
    BY <1>3, <2>1
  <2>2. CASE queue' = << >>
    BY <1>3, <2>2
  <2>3. CASE queue # << >> /\ queue' = Tail(queue)
    <3>1. /\ queue' \in Seq(Sent) /\ Len(queue') = Len(queue) - 1
          /\ \A i \in 1..Len(queue') : queue'[i] = queue[i + 1] /\ i + 1 \in 1..Len(queue)
      BY <1>3, <2>3
    <3> QED
      BY <1>3, <3>1
  <2> QED
    BY <1>5, <2>1, <2>2, <2>3
<1>7. /\ inbox' \in Seq(Entry) /\ Len(inbox') <= Inbox
      /\ \A i \in 1..Len(inbox') : inbox'[i].at <= now'
  <2>1. CASE inbox' = inbox
    <3>0. \A i \in 1..Len(inbox) : inbox[i] \in Entry
      BY <1>3
    <3>1. \A i \in 1..Len(inbox) : inbox[i].at \in Nat
      BY <3>0 DEF Entry
    <3> QED
      BY <1>3, <1>4, <2>1, <3>1
  <2>2. CASE inbox' = << >>
    BY <1>3, <2>2
  <2> QED
    BY <1>4, <2>1, <2>2
<1>8. alert' \in [on : BOOLEAN, last : {None} \cup 0..MaxTime] /\ alert'.last = alert.last
  BY <1>3 DEF NextPacket, Stop, Start, set_alert, Time
<1>9. running' \in BOOLEAN
  BY <1>0 DEF Types, NextPacket, Stop, Start, set_alert, Time
<1>10. Types'
  BY <1>0, <1>1, <1>4, <1>6, <1>7, <1>8, <1>9 DEF Types
<1>11. LogInv'
  BY <1>0, <1>1, <1>4, <1>6, <1>7, <1>8, SameLog
<1> QED
  BY <1>2, <1>10, <1>11 DEF MailboxInv

LEMMA StutterKeeps ==
    ASSUME MailboxInv, UNCHANGED mailboxVars
    PROVE  MailboxInv'
<1>0. UNCHANGED <<running, now, inbox, peers, kept, seen, queue, told, alert, log,
                  written, heard>>
  BY DEF mailboxVars
<1>1. Types'
  BY <1>0 DEF MailboxInv, Types
<1>2. PeopleInv'
  BY <1>0, SamePeople DEF MailboxInv
<1>3. LogInv'
  <2>1. /\ now \in Nat /\ queue \in Seq(Sent)
        /\ \A i \in 1..Len(inbox) : inbox[i].at <= now
    BY DEF MailboxInv, Types, LogInv, TimesInv
  <2> QED
    BY <1>0, <2>1, SameLog DEF MailboxInv
<1> QED
  BY <1>1, <1>2, <1>3 DEF MailboxInv

LEMMA MailboxInvNext == MailboxInv /\ [MailboxNext]_mailboxVars => MailboxInv'
<1> SUFFICES ASSUME MailboxInv, [MailboxNext]_mailboxVars PROVE MailboxInv'
  OBVIOUS
<1>1. CASE UNCHANGED mailboxVars
  BY <1>1, StutterKeeps
<1>2. CASE Heard
  BY <1>2, HeardKeeps
<1>3. CASE Tick
  BY <1>3, TickKeeps
<1>4. CASE NextPacket \/ Stop \/ Start \/ set_alert \/ Time
  BY <1>4, OthersKeep
<1>5. ASSUME NEW p \in Peers, Compose(p) PROVE MailboxInv'
  BY <1>5, ComposeKeeps
<1>6. ASSUME NEW p \in Peers, NEW n \in 1..Capacity, Read(p, n) PROVE MailboxInv'
  BY <1>6, ReadKeeps
<1> QED
  BY <1>1, <1>2, <1>3, <1>4, <1>5, <1>6 DEF MailboxNext

LEMMA MailboxAlways == MailboxSpec => []MailboxInv
BY MailboxInvInit, MailboxInvNext, PTL DEF MailboxSpec

-----------------------------------------------------------------------------
(* What follows *)

LEMMA TypesAreOK == Types /\ Single(peers) => MailboxTypeOK
<1> SUFFICES ASSUME Types, Single(peers) PROVE MailboxTypeOK
  OBVIOUS
<1>1. ASSUME NEW S, NEW s \in Seq(S) PROVE ToSet(s) \subseteq S
  BY DEF ToSet
<1>2. ToSet(peers) \subseteq Slot
  BY <1>1 DEF Types
<1>3. ToSet(kept) \subseteq Kept
  BY <1>1 DEF Types
<1>4. ToSet(seen) \subseteq Hashes
  BY <1>1 DEF Types
<1>5. ASSUME NEW p \in Peers PROVE Cardinality(SlotsOf(peers, p)) <= 1
  <2> DEFINE T == SlotsOf(peers, p)
  <2>1. \A i, j \in T : i = j
    BY DEF SlotsOf, Single
  <2> HIDE DEF T
  <2>2. CASE T = {}
    <3>1. Cardinality(T) = 0
      BY <2>2, FS_EmptySet
    <3> QED
      BY <3>1 DEF T
  <2>3. CASE T # {}
    <3>1. PICK i : i \in T
      BY <2>3
    <3>2. T = {i}
      BY <2>1, <3>1
    <3>3. Cardinality(T) = 1
      BY <3>2, FS_Singleton
    <3> QED
      BY <3>3 DEF T
  <2> QED
    BY <2>2, <2>3
<1> QED
  BY <1>2, <1>3, <1>4, <1>5 DEF Types, MailboxTypeOK, Slot, Kept

LEMMA InToSet ==
    ASSUME NEW S, NEW s \in Seq(S), NEW r \in ToSet(s)
    PROVE  \E i \in 1..Len(s) : r = s[i]
BY DEF ToSet

LEMMA MailboxInvGivesState ==
    MailboxInv => /\ MailboxTypeOK /\ OnceWithinSeen /\ BelievedIsSo
                  /\ CorrespondentsStay /\ ProvedWasKept /\ OneAlertForALot
                  /\ ClockNotBehind
<1> SUFFICES ASSUME MailboxInv
             PROVE  /\ MailboxTypeOK /\ OnceWithinSeen /\ BelievedIsSo
                    /\ CorrespondentsStay /\ ProvedWasKept /\ OneAlertForALot
                    /\ ClockNotBehind
  OBVIOUS
<1>0. Types /\ LogInv /\ PeopleInv
  BY DEF MailboxInv
<1>1. MailboxTypeOK
  BY <1>0, TypesAreOK DEF PeopleInv
<1>2. kept \in Seq(Kept)
  BY <1>0 DEF Types
<1>3. BelievedIsSo
  <2> SUFFICES ASSUME NEW r \in ToSet(kept)
               PROVE  /\ r.trust = "Verified" => r.good
                      /\ r.trust = "Failed" => ~r.good
                      /\ Knows(peers, From[r.hash]) => r.trust # "Unverified"
    BY DEF BelievedIsSo
  <2>1. PICK i \in 1..Len(kept) : r = kept[i]
    BY <1>2, InToSet
  <2> QED
    BY <1>0, <2>1, KnowsFacts DEF PeopleInv, Believed
<1>4. CorrespondentsStay
  <2> SUFFICES ASSUME NEW p \in Peers
               PROVE  /\ Knows(peers, p) /\ (\E r \in ToSet(kept) : From[r.hash] = p)
                            => \E i \in SlotsOf(peers, p) : peers[i].conversation
                      /\ p \in written => Knows(peers, p)
    BY DEF CorrespondentsStay
  <2>1. Correspond(kept, peers, written)
    BY <1>0 DEF PeopleInv
  <2>2. Talks(peers, p) <=> \E i \in SlotsOf(peers, p) : peers[i].conversation
    BY DEF Talks, SlotsOf
  <2>3. ASSUME Knows(peers, p), NEW r \in ToSet(kept), From[r.hash] = p
        PROVE  Talks(peers, p)
    <3>1. PICK i \in 1..Len(kept) : r = kept[i]
      BY <1>2, InToSet
    <3> QED
      BY <2>1, <2>3, <3>1, KnowsFacts DEF Correspond
  <2>4. p \in written => Knows(peers, p)
    BY <2>1, KnowsFacts DEF Correspond, Talks, Has
  <2> QED
    BY <2>2, <2>3, <2>4
<1>5. ClockNotBehind
  <2> SUFFICES ASSUME NEW i \in 1..Len(log)
               PROVE  clock_s >= Stamp[log[i].hash]
    BY DEF ClockNotBehind
  <2>1. told # None /\ Stamp[log[i].hash] <= told.s /\ told.at <= now
    BY <1>0 DEF LogInv, TimesInv
  <2>2. log[i] \in News
    BY <1>0 DEF Types
  <2>3. told \in [s : Nat, at : 0..MaxTime] /\ now \in Nat
    BY <1>0, <2>1 DEF Types
  <2>4. Stamp[log[i].hash] \in Nat
    BY <2>2 DEF News
  <2>5. clock_s = told.s + (now - told.at)
    BY <2>1 DEF clock_s
  <2> QED
    BY <2>1, <2>3, <2>4, <2>5
<1> QED
  BY <1>0, <1>1, <1>3, <1>4, <1>5 DEF LogInv

(* Only a message that is kept makes another go. *)
LEMMA UnreadGoLastStep ==
    ASSUME MailboxInv, [MailboxNext]_mailboxVars,
           NEW r \in ToSet(kept), r.unread,
           r.hash \notin {k.hash : k \in ToSet(kept')},
           NEW s \in ToSet(kept)
    PROVE  s.unread
<1>1. kept \in Seq(Kept) /\ Len(kept) <= Capacity /\ Types
  BY DEF MailboxInv, Types
<1>2. PICK i \in 1..Len(kept) : r = kept[i]
  BY <1>1, InToSet
<1>3. PICK j \in 1..Len(kept) : s = kept[j]
  BY <1>1, InToSet
<1>4. ASSUME NEW l \in 1..Len(kept'), kept' \in Seq(Kept), kept'[l].hash = kept[i].hash
      PROVE  FALSE
  <2>1. kept'[l] \in ToSet(kept')
    BY <1>4 DEF ToSet
  <2> QED
    BY <1>2, <1>4, <2>1
<1>5. CASE kept' = kept
  BY <1>1, <1>4, <1>5
<1>6. ASSUME NEW p \in Peers, NEW n \in 1..Capacity, Read(p, n) PROVE FALSE
  <2>1. MailboxInv' /\ i \in 1..Len(kept') /\ kept'[i].hash = kept[i].hash
    BY <1>6, ReadKeeps
  <2>2. kept' \in Seq(Kept)
    BY <2>1 DEF MailboxInv, Types
  <2> QED
    BY <1>4, <2>1, <2>2
<1>7. ASSUME NEW a, NEW at, a.lxmf \in BOOLEAN, TakeAnnounce(a, at) PROVE FALSE
  <2>1. kept' = Settled(kept, a)
    BY <1>7 DEF TakeAnnounce
  <2>2. kept' \in Seq(Kept) /\ Len(kept') = Len(kept) /\ kept'[i].hash = kept[i].hash
    BY <1>1, <1>7, <2>1, SettledFacts
  <2> QED
    BY <1>4, <2>2
<1>8. ASSUME NEW p, p.hash \in Hashes, p.good \in BOOLEAN, NEW at \in 0..MaxTime,
             TakeMessage(p, at), kept' # kept
      PROVE  s.unread
  <2> DEFINE e == [hash |-> p.hash, good |-> p.good, trust |-> TrustOf(p), unread |-> TRUE]
             m == Room(kept)
  <2>1. Arrival(p) = "New" /\ kept' = Append(m, e)
    BY <1>8 DEF TakeMessage
  <2>2. e \in Kept
    BY <1>8, <2>1 DEF TrustOf, Kept, Trust
  <2>3. /\ m \in Seq(Kept)
        /\ (\E x \in 1..Len(kept) : ~kept[x].unread)
           => \A x \in 1..Len(kept) : kept[x].unread => \E y \in 1..Len(m) : m[y] = kept[x]
    BY <1>1, RoomFacts
  <2> HIDE DEF e, m
  <2>4. kept' \in Seq(Kept) /\ \A y \in 1..Len(m) : y \in 1..Len(kept') /\ kept'[y] = m[y]
    BY <2>1, <2>2, <2>3
  <2>5. ASSUME ~kept[j].unread PROVE FALSE
    <3>1. PICK y \in 1..Len(m) : m[y] = kept[i]
      BY <1>2, <2>3, <2>5
    <3> QED
      BY <1>4, <2>4, <3>1
  <2> QED
    BY <1>3, <2>5
<1>9. CASE Tick
  <2> DEFINE p == inbox[1].packet
             at == inbox[1].at
  <2>1. inbox \in Seq(Entry) /\ inbox # << >>
    BY <1>1, <1>9 DEF Types, Tick
  <2>2. inbox[1] \in Entry
    BY <2>1
  <2>3. p \in Packet /\ at \in 0..MaxTime
    BY <2>2 DEF Entry
  <2>4. \/ p.kind = "announce" /\ TakeAnnounce(p, at)
        \/ p.kind = "message" /\ TakeMessage(p, at)
        \/ kept' = kept
    BY <1>9 DEF Tick
  <2> HIDE DEF p, at
  <2>5. p.kind = "announce" => p.lxmf \in BOOLEAN
    BY <2>3 DEF Packet
  <2>6. p.kind = "message" => p.hash \in Hashes /\ p.good \in BOOLEAN
    BY <2>3 DEF Packet
  <2> QED
    BY <1>5, <1>7, <1>8, <2>3, <2>4, <2>5, <2>6
<1>10. CASE Heard \/ NextPacket \/ Stop \/ Start \/ set_alert \/ Time
            \/ (\E p \in Peers : Compose(p)) \/ UNCHANGED mailboxVars
  <2>1. kept' = kept
    BY <1>10 DEF Heard, NextPacket, Stop, Start, set_alert, Time, Compose, mailboxVars
  <2> QED
    BY <1>5, <2>1
<1> QED
  BY <1>6, <1>9, <1>10 DEF MailboxNext

\* What a board keeps, believes and says of what it has heard: each message
\* once, believed as its sender's key allows, its correspondents never pushed
\* out, its proofs only for what was kept, one alert for a lot, a clock never
\* behind, and nothing unread let go before what was read.
THEOREM HeardAndKeptRightly == MailboxSpec => MailboxCorrect
<1> DEFINE State == /\ MailboxTypeOK /\ OnceWithinSeen /\ BelievedIsSo
                    /\ CorrespondentsStay /\ ProvedWasKept /\ OneAlertForALot
                    /\ ClockNotBehind
<1>1. MailboxInv => State
  BY MailboxInvGivesState
<1>2. MailboxInv /\ [MailboxNext]_mailboxVars
        => [(\E r \in ToSet(kept) : r.unread /\ r.hash \notin {k.hash : k \in ToSet(kept')})
            => \A r \in ToSet(kept) : r.unread]_mailboxVars
  BY UnreadGoLastStep
<1>3. MailboxSpec => []State
  BY <1>1, MailboxAlways, PTL
<1>4. MailboxSpec => UnreadGoLast
  BY <1>2, MailboxAlways, PTL DEF MailboxSpec, UnreadGoLast
<1> QED
  BY <1>3, <1>4, PTL DEF MailboxCorrect
=============================================================================
