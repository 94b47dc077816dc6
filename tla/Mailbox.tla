------------------------------- MODULE Mailbox -------------------------------
(***************************************************************************)
(* What the board hears as a node and makes of it: the inbox packets wait  *)
(* in (Inbox and Listener::heard and tick, core/src/node.rs and            *)
(* src/node.rs), the peers whose announces it has heard (node/peers.rs),   *)
(* the messages it has received and what it believes of each               *)
(* (node/messages.rs over node/lxmf.rs), the proofs and path requests that *)
(* answer them (Station::take and Queue), the clock it takes from their    *)
(* stamps, and the alert (alert.rs).  The Reticulum engine is external: it *)
(* hands over a verified announce, a message it could decrypt, or neither. *)
(*                                                                         *)
(* A message is its hash, which says who it is from and when it was        *)
(* stamped; a packet of it is signed by that sender or is not.  A peer's   *)
(* key goes with its address, so hearing the address is knowing the key.   *)
(***************************************************************************)
EXTENDS Naturals, Sequences, FiniteSets, SequencesExt

CONSTANTS
    Hashes,     \* the messages there are
    From,       \* From[h]: Message::source, the sender's address
    Stamp,      \* Stamp[h]: Message::sent_s
    Peers,      \* the addresses that announce themselves and write
    Inbox,      \* Inbox::CAPACITY
    Capacity,   \* Messages::CAPACITY
    Seen,       \* SEEN
    Table,      \* Table::CAPACITY
    Queue,      \* Queue::CAPACITY
    Merge,      \* MERGE_MS
    None,       \* no clock told, no message alerted for
    MaxHeard,   \* bound: packets heard
    MaxTime     \* bound: the board's clock

ASSUME MailboxAssumption ==
    /\ From \in [Hashes -> Peers] /\ Stamp \in [Hashes -> Nat]
    /\ {Inbox, Capacity, Seen, Table, Queue} \subseteq Nat \ {0}
    /\ {Merge, MaxHeard, MaxTime} \subseteq Nat

\* No instant, and no clock
ASSUME NoneAssumption == None \notin Nat /\ None \notin [s : Nat, at : Nat]

VARIABLES
    running,    \* the board is a node, and nobody is its host
    now,        \* milliseconds since boot, up to MaxTime
    inbox,      \* Inbox::packets: [packet, at]
    peers,      \* Table::peers: [who, last, conversation], as pushed
    kept,       \* Messages::kept: [hash, good, trust, unread], oldest first
    seen,       \* Messages::seen
    queue,      \* Queue::packets, the node's own
    told,       \* Station::told, or None
    alert,      \* Alert: [on, last]
    log,        \* every message that arrived as new: [hash, at, rang]
    written,    \* peers in the table when a message was written to them
    heard       \* packets heard so far, up to MaxHeard

mailboxVars == <<running, now, inbox, peers, kept, seen, queue, told, alert, log,
          written, heard>>

Packet == [kind : {"announce"}, from : Peers, lxmf : BOOLEAN]
     \cup [kind : {"message"}, hash : Hashes, good : BOOLEAN]
     \cup [kind : {"unreadable"}]

-----------------------------------------------------------------------------
(* The peer table *)

SlotsOf(t, p) == {i \in 1..Len(t) : t[i].who = p}
Knows(t, p) == SlotsOf(t, p) # {}

set_conversation(t, p) ==
    [i \in 1..Len(t) |->
        IF t[i].who = p THEN [t[i] EXCEPT !.conversation = TRUE] ELSE t[i]]

\* The slot a stranger takes: the first of those heard longest ago among the
\* peers without a conversation, or none
Evictable(t) == {i \in 1..Len(t) : ~t[i].conversation}
Oldest(t) ==
    CHOOSE i \in Evictable(t) :
        \A j \in Evictable(t) :
            t[i].last < t[j].last \/ (t[i].last = t[j].last /\ i <= j)

\* Table::heard: only an announce for lxmf.delivery is a peer's
Learned(t, a, at) ==
    LET peer == [who |-> a.from, last |-> at, conversation |-> FALSE]
    IN  CASE ~a.lxmf -> t
          [] a.lxmf /\ Knows(t, a.from) ->
                [i \in 1..Len(t) |-> IF t[i].who = a.from
                                     THEN [t[i] EXCEPT !.last = at] ELSE t[i]]
          [] a.lxmf /\ ~Knows(t, a.from) /\ Len(t) < Table -> Append(t, peer)
          [] OTHER -> IF Evictable(t) = {} THEN t
                      ELSE [t EXCEPT ![Oldest(t)] = peer]

-----------------------------------------------------------------------------
(* The messages received *)

\* An announce for something else than lxmf.delivery has another address.
Waiting(r, a) == r.trust = "Unverified" /\ a.lxmf /\ From[r.hash] = a.from

\* Mutation: the walk stops at the first message it settles.
Settled_First(k, a) ==
    LET w == {i \in 1..Len(k) : Waiting(k[i], a)}
    IN  [i \in 1..Len(k) |->
            IF i \in w /\ \A j \in w : i <= j
            THEN [k[i] EXCEPT !.trust = IF k[i].good THEN "Verified" ELSE "Failed"]
            ELSE k[i]]

\* Messages::heard: the key of a sender whose messages wait for it
Settled(k, a) ==
    [i \in 1..Len(k) |->
        IF Waiting(k[i], a)
        THEN [k[i] EXCEPT !.trust = IF k[i].good THEN "Verified" ELSE "Failed"]
        ELSE k[i]]

\* Arrival: a retry of one it has had, a forgery, or new
Arrival(p) ==
    CASE Contains(seen, p.hash) -> "Duplicate"
      [] ~Contains(seen, p.hash) /\ Knows(peers, From[p.hash]) /\ ~p.good
            -> "Forged"
      [] OTHER -> "New"
TrustOf(p) ==
    IF Arrival(p) = "New"
    THEN IF Knows(peers, From[p.hash]) THEN "Verified" ELSE "Unverified"
    ELSE LET had == {i \in 1..Len(kept) : kept[i].hash = p.hash}
         IN  IF had = {} THEN None
             ELSE kept[CHOOSE i \in had : \A j \in had : i <= j].trust

\* Mutation: a forgery is proved like any packet that decrypts.
prove_All(p) == TRUE

prove(p) == Arrival(p) # "Forged"

ask_for_key(p) == Arrival(p) # "Forged" /\ TrustOf(p) = "Unverified"

\* Mutation: a place in SEEN is never used.
Remembered_OneFewer(h) ==
    Append(IF Len(seen) = Seen - 1 THEN Tail(seen) ELSE seen, h)

Remembered(h) == Append(IF Len(seen) = Seen THEN Tail(seen) ELSE seen, h)

\* Mutation: the oldest goes, read or not.
Room_Oldest(k) == IF Len(k) = Capacity THEN Tail(k) ELSE k

\* Full, the oldest already read goes, or the oldest of all
Room(k) ==
    LET read == {i \in 1..Len(k) : ~k[i].unread}
        goes == IF read = {} THEN 1
                ELSE CHOOSE i \in read : \A j \in read : i <= j
    IN  IF Len(k) = Capacity THEN RemoveAt(k, goes) ELSE k

-----------------------------------------------------------------------------
(* What goes back on the air, in the node's queue: full, the oldest goes.  *)

\* Mutation: a full queue grows.
Pushed_NoLimit(q, x) == Append(q, x)

Pushed(q, x) == Append(IF Len(q) = Queue THEN Tail(q) ELSE q, x)

Answered(p) ==
    LET proved == IF prove(p) THEN Pushed(queue, <<"proof", p.hash>>) ELSE queue
    IN  IF ask_for_key(p) THEN Pushed(proved, <<"ask", From[p.hash]>>)
                          ELSE proved

(* The clock without a GPS, and the alert *)

\* Mutation: the last message is the clock.
Told_Last(h, at) == [s |-> Stamp[h], at |-> at]

Told(h, at) ==
    IF told = None \/ Stamp[h] > told.s THEN [s |-> Stamp[h], at |-> at]
                                        ELSE told

clock_s == IF told = None THEN 0 ELSE told.s + (now - told.at)

Together(at) == alert.last # None /\ at < alert.last + Merge
Sounds(at) == alert.on /\ ~Together(at)

\* Mutation: only a message that sounds is remembered.
Alerted_IfSounded(at) ==
    IF Sounds(at) THEN [alert EXCEPT !.last = at] ELSE alert

\* A message counts whether or not it sounds; the newest is kept.
Alerted(at) ==
    [alert EXCEPT !.last = IF @ = None \/ at > @ THEN at ELSE @]

-----------------------------------------------------------------------------
(* Station::take for the one thing a packet turns out to be.  A message    *)
(* settled, or kept, gives its sender a conversation.                      *)

\* Mutation: a sender whose messages are settled is left as a stranger.
TakeAnnounce_NoConversation(a, at) ==
    /\ peers' = Learned(peers, a, at)
    /\ kept' = Settled(kept, a)
    /\ UNCHANGED <<seen, queue, told, alert, log>>

TakeAnnounce(a, at) ==
    /\ kept' = Settled(kept, a)
    /\ peers' = IF kept' # kept THEN set_conversation(Learned(peers, a, at), a.from)
                                ELSE Learned(peers, a, at)
    /\ UNCHANGED <<seen, queue, told, alert, log>>

TakeMessage(p, at) ==
    /\ queue' = Answered(p)
    /\ IF Arrival(p) = "New"
       THEN /\ peers' = set_conversation(peers, From[p.hash])
            /\ seen' = Remembered(p.hash)
            /\ kept' = Append(Room(kept), [hash |-> p.hash, good |-> p.good,
                                           trust |-> TrustOf(p), unread |-> TRUE])
            /\ told' = Told(p.hash, at)
            /\ log' = Append(log, [hash |-> p.hash, at |-> at,
                                   rang |-> Sounds(at)])
            /\ alert' = Alerted(at)
       ELSE UNCHANGED <<peers, seen, kept, told, log, alert>>

-----------------------------------------------------------------------------
(* The listener *)

\* A packet off the air: queued, in place of the oldest when there is no room
Heard ==
    /\ running /\ heard < MaxHeard
    /\ heard' = heard + 1
    /\ \E p \in Packet :
        inbox' = Append(IF Len(inbox) = Inbox THEN Tail(inbox) ELSE inbox,
                        [packet |-> p, at |-> now])
    /\ UNCHANGED <<running, now, peers, kept, seen, queue, told, alert, log,
                   written>>

\* A pass on which the radio was quiet: one packet to the engine
Tick ==
    /\ running /\ inbox # << >>
    /\ inbox' = Tail(inbox)
    /\ LET p == inbox[1].packet
           at == inbox[1].at
       IN  \/ p.kind = "announce" /\ TakeAnnounce(p, at)
           \/ p.kind = "message" /\ TakeMessage(p, at)
           \/ /\ p.kind = "unreadable"
              /\ UNCHANGED <<peers, kept, seen, queue, told, alert, log>>
    /\ UNCHANGED <<running, now, written, heard>>

\* The next packet of the node's goes on the air, or is lost there.
NextPacket ==
    /\ running /\ queue # << >>
    /\ queue' = Tail(queue)
    /\ UNCHANGED <<running, now, inbox, peers, kept, seen, told, alert, log,
                   written, heard>>

\* A host comes: what waited, either way, is dropped.
Stop ==
    /\ running
    /\ running' = FALSE /\ inbox' = << >> /\ queue' = << >>
    /\ UNCHANGED <<now, peers, kept, seen, told, alert, log, written, heard>>

Start ==
    /\ ~running
    /\ running' = TRUE
    /\ UNCHANGED <<now, inbox, peers, kept, seen, queue, told, alert, log,
                   written, heard>>

\* The panel has shown a conversation as far as its first n messages.
Read(p, n) ==
    /\ LET mine == {i \in 1..Len(kept) : From[kept[i].hash] = p}
           shown == {i \in mine : Cardinality({j \in mine : j <= i}) <= n}
       IN  /\ \E i \in shown : kept[i].unread
           /\ kept' = [i \in 1..Len(kept) |->
                        IF i \in shown THEN [kept[i] EXCEPT !.unread = FALSE]
                                       ELSE kept[i]]
    /\ UNCHANGED <<running, now, inbox, peers, seen, queue, told, alert, log,
                   written, heard>>

\* Station::compose, to a peer the panel has a line for
Compose(p) ==
    /\ Knows(peers, p) \/ \E r \in ToSet(kept) : From[r.hash] = p
    /\ peers' = set_conversation(peers, p)
    /\ written' = IF Knows(peers, p) THEN written \cup {p} ELSE written
    /\ UNCHANGED <<running, now, inbox, kept, seen, queue, told, alert, log,
                   heard>>

set_alert ==
    /\ alert' = [alert EXCEPT !.on = ~@]
    /\ UNCHANGED <<running, now, inbox, peers, kept, seen, queue, told, log,
                   written, heard>>

Time ==
    /\ now < MaxTime
    /\ now' = now + 1
    /\ UNCHANGED <<running, inbox, peers, kept, seen, queue, told, alert, log,
                   written, heard>>

-----------------------------------------------------------------------------
MailboxInit ==
    /\ running = TRUE /\ now = 0 /\ heard = 0
    /\ inbox = << >> /\ peers = << >> /\ kept = << >> /\ seen = << >>
    /\ queue = << >> /\ told = None /\ alert = [on |-> TRUE, last |-> None]
    /\ log = << >> /\ written = {}

MailboxNext ==
    \/ Heard \/ Tick \/ NextPacket \/ Stop \/ Start \/ set_alert \/ Time
    \/ \E p \in Peers : Compose(p) \/ \E n \in 1..Capacity : Read(p, n)

MailboxSpec == MailboxInit /\ [][MailboxNext]_mailboxVars

-----------------------------------------------------------------------------
(* Properties *)

Trust == {"Verified", "Unverified", "Failed"}

\* Type correctness, and every list within its capacity: the inbox, the
\* table with one slot for each peer, the messages, their hashes and the
\* queue for the air.
MailboxTypeOK ==
    /\ running \in BOOLEAN /\ now \in 0..MaxTime /\ heard \in 0..MaxHeard
    /\ Len(inbox) <= Inbox
    /\ Len(peers) <= Table /\ \A p \in Peers : Cardinality(SlotsOf(peers, p)) <= 1
    /\ ToSet(peers) \subseteq [who : Peers, last : 0..MaxTime, conversation : BOOLEAN]
    /\ Len(kept) <= Capacity
    /\ ToSet(kept) \subseteq [hash : Hashes, good : BOOLEAN, trust : Trust, unread : BOOLEAN]
    /\ Len(seen) <= Seen /\ ToSet(seen) \subseteq Hashes
    /\ Len(queue) <= Queue
    /\ written \subseteq Peers

\* A message is kept, counted and told of once, however often its sender
\* repeats it and whether or not the board still has it, as long as fewer
\* than SEEN others have arrived since.
OnceWithinSeen ==
    \A i, j \in 1..Len(log) :
        i < j /\ log[i].hash = log[j].hash => j - i > Seen

\* What the board believes of a message is so: one it calls verified was
\* signed by its sender, one that failed was not, and none is left
\* unverified once its sender is a peer, whichever of the two came first.
BelievedIsSo ==
    \A r \in ToSet(kept) :
        /\ r.trust = "Verified" => r.good
        /\ r.trust = "Failed" => ~r.good
        /\ Knows(peers, From[r.hash]) => r.trust # "Unverified"

\* A peer in the table has a conversation if a message of its is kept, or if
\* one was written to it: no number of strangers pushes it out.
CorrespondentsStay ==
    \A p \in Peers :
        /\ Knows(peers, p) /\ (\E r \in ToSet(kept) : From[r.hash] = p)
            => \E i \in SlotsOf(peers, p) : peers[i].conversation
        /\ p \in written => Knows(peers, p)

\* A delivery proof goes out only for a message that was kept: never for a
\* forgery, so no sender is told that what the board refused was delivered.
ProvedWasKept ==
    \A i \in 1..Len(queue) :
        queue[i][1] = "proof" => \E j \in 1..Len(log) : log[j].hash = queue[i][2]

\* The alert sounds for the first message of a lot and for no other: never
\* for one that was heard within MERGE_MS of the one before it, sounded or
\* not, while the setting was on or off.
OneAlertForALot ==
    \A i \in 2..Len(log) :
        log[i].rang => log[i].at >= log[i - 1].at + Merge

\* Without a GPS the board's clock is never behind the stamp of a message
\* that it has received.
ClockNotBehind ==
    \A i \in 1..Len(log) : clock_s >= Stamp[log[i].hash]

\* A message nobody has read is let go only when no message kept has been
\* read: what was shown goes first.
UnreadGoLast ==
    [][(\E r \in ToSet(kept) : r.unread /\ r.hash \notin {k.hash : k \in ToSet(kept')})
        => \A r \in ToSet(kept) : r.unread]_mailboxVars

\* What the board has been told it keeps, believes and says rightly.
MailboxCorrect ==
    /\ [](MailboxTypeOK /\ OnceWithinSeen /\ BelievedIsSo /\ CorrespondentsStay
            /\ ProvedWasKept /\ OneAlertForALot /\ ClockNotBehind)
    /\ UnreadGoLast
=============================================================================
