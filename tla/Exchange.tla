------------------------------ MODULE Exchange -------------------------------
(***************************************************************************)
(* Several boards as nodes of one network (Node in core/src/node.rs, the   *)
(* station's take and step, the listener's report), and the air between    *)
(* them: announces, path requests, messages in one packet and the proofs   *)
(* of them.  A packet on the air may be lost, may come late, twice or out  *)
(* of order, and an announce may come by way of a relay; a board may lose  *)
(* its power.  What one board does with its own tables, its queues and its *)
(* time is NodeOutbox's, Mailbox's and NodeSending's.                      *)
(*                                                                         *)
(* Every attempt at a message is another packet, with a number of its own  *)
(* for its hash.  The Reticulum engine is external: it verifies announces, *)
(* decrypts, and may or may not hand over a packet it has had before.      *)
(***************************************************************************)
EXTENDS Naturals, FiniteSets

CONSTANTS
    Boards,       \* the boards, each its address and its identity
    Hashes,       \* the messages that may be written
    From, To,     \* From[h] writes message h, to To[h]
    Stranger,     \* a signer none of the boards knows
    Relay,        \* the radio of a transport node
    NoRadio,      \* no signal is shown
    MaxAttempts,  \* MAX_ATTEMPTS
    MaxHops,      \* bound: hops an announce comes by
    MaxSends,     \* bound: attempts that go, at all messages together
    MaxBoots      \* bound: boards that lose their power

ASSUME ExchangeAssumption ==
    /\ From \in [Hashes -> Boards] /\ To \in [Hashes -> Boards]
    /\ \A h \in Hashes : From[h] # To[h]
    /\ Stranger \notin Boards /\ Relay \notin Boards /\ NoRadio \notin Boards \union {Relay}
    /\ MaxAttempts \in Nat \ {0} /\ MaxHops \in Nat \ {0}
    /\ MaxSends \in Nat /\ MaxBoots \in Nat

VARIABLES
    air,        \* every packet sent so far: each may be heard now or never
    keys,       \* keys[b]: whose keys b has, from their announces
    signal,     \* signal[b][p]: the radio whose signal b shows as p's
    due,        \* due[b]: an announce is due
    delivery,   \* delivery[h]: the sender's Delivery, or "none"
    tries,      \* tries[h]: attempts that went since it was queued
    packets,    \* packets[h]: the hashes of the packets of h that went
    trust,      \* trust[h]: the recipient's Trust, or "none"
    sent,       \* attempts that went so far, up to MaxSends
    boots,      \* losses of power so far, up to MaxBoots
    composed,   \* messages ever written
    arrived,    \* messages their recipient has ever kept
    kept        \* kept[h]: how often it was kept since the recipient's boot

exchangeVars == <<air, keys, signal, due, delivery, tries, packets, trust, sent,
                  boots, composed, arrived, kept>>

Number == 1..MaxSends

Announce == [kind : {"announce"}, of : Boards, hops : 1..MaxHops, radio : Boards \union {Relay}]
Request == [kind : {"request"}, of : Boards]
Data == [kind : {"data"}, of : Hashes, number : Number]
Proof == [kind : {"proof"}, of : Hashes, number : Number, by : Boards \union {Stranger}]

\* What anyone may send at any time: a proof with some other signature
Stray == {p \in Proof : p.by = Stranger}

-----------------------------------------------------------------------------
(* What a board sends *)

Direct(b) == [kind |-> "announce", of |-> b, hops |-> 1, radio |-> b]
path_request(b) == [kind |-> "request", of |-> b]
prove(p) == [kind |-> "proof", of |-> p.of, number |-> p.number, by |-> To[p.of]]

\* Node::announce, when the schedule has one due: at the start, and when a
\* path to the board is asked for
Announces(b) ==
    /\ due[b]
    /\ due' = [due EXCEPT ![b] = FALSE]
    /\ air' = air \union {Direct(b)}
    /\ UNCHANGED <<keys, signal, delivery, tries, packets, trust, sent, boots,
                   composed, arrived, kept>>

\* Listener::reply: a message is packed and signed once, and queued.
Write(h) ==
    /\ h \notin composed
    /\ composed' = composed \union {h}
    /\ delivery' = [delivery EXCEPT ![h] = "turn"]
    /\ UNCHANGED <<air, keys, signal, due, tries, packets, trust, sent, boots,
                   arrived, kept>>

Known(h) == To[h] \in keys[From[h]]

\* Station::step, with no key to encrypt to
AskPath(h) ==
    /\ delivery[h] \in {"turn", "path", "sent"} /\ ~Known(h)
    /\ delivery[h] = "sent" => tries[h] < MaxAttempts
    /\ delivery' = [delivery EXCEPT ![h] = "path"]
    /\ air' = air \union {path_request(To[h])}
    /\ UNCHANGED <<keys, signal, due, tries, packets, trust, sent, boots,
                   composed, arrived, kept>>

\* Station::step, Node::attempt and what became of it: encrypted afresh, a
\* packet with a hash of its own, remembered for its proof
Attempt(h) ==
    /\ delivery[h] \in {"turn", "path", "sent"} /\ Known(h)
    /\ tries[h] < MaxAttempts /\ sent < MaxSends
    /\ sent' = sent + 1
    /\ tries' = [tries EXCEPT ![h] = @ + 1]
    /\ packets' = [packets EXCEPT ![h] = @ \union {sent'}]
    /\ delivery' = [delivery EXCEPT ![h] = "sent"]
    /\ air' = air \union {[kind |-> "data", of |-> h, number |-> sent']}
    /\ UNCHANGED <<keys, signal, due, trust, boots, composed, arrived, kept>>

\* No path came, or no proof after every try
Fail(h) ==
    /\ \/ delivery[h] = "path" /\ ~Known(h)
       \/ delivery[h] = "sent" /\ tries[h] = MaxAttempts
    /\ delivery' = [delivery EXCEPT ![h] = "failed"]
    /\ UNCHANGED <<air, keys, signal, due, tries, packets, trust, sent, boots,
                   composed, arrived, kept>>

\* Retry Failed; the packets that went before are still remembered.
Retry(h) ==
    /\ delivery[h] = "failed"
    /\ delivery' = [delivery EXCEPT ![h] = "turn"]
    /\ tries' = [tries EXCEPT ![h] = 0]
    /\ UNCHANGED <<air, keys, signal, due, packets, trust, sent, boots, composed,
                   arrived, kept>>

-----------------------------------------------------------------------------
(* What a board hears: Node::heard, then Station::take *)

\* Mutation: the signal of a relayed announce is taken for the peer's.
Measured_Always(a) == a.radio

Measured(a) == IF a.hops = 1 THEN a.radio ELSE NoRadio

\* Mutation: only a message with no trust yet is looked at again.
Waited_New(h, b, p) == To[h] = b /\ From[h] = p /\ trust[h] = "none" /\ kept[h] > 0

\* A message b keeps unverified, of the peer p
Waited(h, b, p) == To[h] = b /\ From[h] = p /\ trust[h] = "Unverified"

\* A peer's announce: into the table, and to the messages that waited for its
\* key; the board's own, relayed back to it, is none.
HearAnnounce(b, a) ==
    /\ a \in air /\ a.kind = "announce" /\ a.of # b
    /\ keys' = [keys EXCEPT ![b] = @ \union {a.of}]
    /\ signal' = [signal EXCEPT ![b][a.of] = Measured(a)]
    /\ trust' = [h \in Hashes |->
                    IF Waited(h, b, a.of) THEN "Verified" ELSE trust[h]]
    /\ UNCHANGED <<air, due, delivery, tries, packets, sent, boots, composed,
                   arrived, kept>>

\* A path request for the board's address: Listener::report wants an announce.
HearRequest(b, r) ==
    /\ r \in air /\ r.kind = "request" /\ r.of = b
    /\ due' = [due EXCEPT ![b] = TRUE]
    /\ UNCHANGED <<air, keys, signal, delivery, tries, packets, trust, sent, boots,
                   composed, arrived, kept>>

\* Mutation: what has been had before is known by its packet.
Had_ByPacket(p) == prove(p) \in air

\* A retry of a message the board has had since it started
Had(p) == kept[p.of] > 0

\* What is asked for after a message: its sender's key, while it is not there
asks(t, p) == IF t = "Unverified" THEN {path_request(p)} ELSE {}

\* A message: new or again, it is proved, and its sender's key is asked for
\* while the board has not got it.
HearData(p) ==
    LET b == To[p.of]
        t == IF From[p.of] \in keys[b] THEN "Verified" ELSE "Unverified"
    IN  /\ p \in air /\ p.kind = "data"
        /\ IF Had(p) THEN UNCHANGED <<trust, arrived, kept>>
           ELSE /\ trust' = [trust EXCEPT ![p.of] = t]
                /\ arrived' = arrived \union {p.of}
                /\ kept' = [kept EXCEPT ![p.of] = @ + 1]
        /\ air' = air \union {prove(p)}
                      \union asks(trust'[p.of], From[p.of])
        /\ UNCHANGED <<keys, signal, due, delivery, tries, packets, sent, boots,
                       composed>>

\* Mutation: the signature in a proof is not looked at.
Valid_Unsigned(p) == TRUE

\* A proof is the recipient's signature over the packet's hash.
Valid(p) == p.by = To[p.of]

\* Outbox::proved: for any packet of the message that went, at any time
\* later, as long as the peer's key is there to check it with
HearProof(p) ==
    /\ p \in air \union Stray /\ p.kind = "proof"
    /\ p.number \in packets[p.of] /\ delivery[p.of] # "delivered"
    /\ Known(p.of) /\ Valid(p)
    /\ delivery' = [delivery EXCEPT ![p.of] = "delivered"]
    /\ UNCHANGED <<air, keys, signal, due, tries, packets, trust, sent, boots,
                   composed, arrived, kept>>

-----------------------------------------------------------------------------
(* Around the boards *)

\* A transport node repeats an announce, a hop further on.
Repeat(a) ==
    /\ a \in air /\ a.kind = "announce" /\ a.hops < MaxHops
    /\ air' = air \union {[a EXCEPT !.hops = @ + 1, !.radio = Relay]}
    /\ UNCHANGED <<keys, signal, due, delivery, tries, packets, trust, sent, boots,
                   composed, arrived, kept>>

\* The power goes and comes back: everything but the identity was in memory.
Restart(b) ==
    /\ boots < MaxBoots
    /\ boots' = boots + 1
    /\ keys' = [keys EXCEPT ![b] = {}]
    /\ signal' = [signal EXCEPT ![b] = [p \in Boards |-> NoRadio]]
    /\ due' = [due EXCEPT ![b] = TRUE]
    /\ delivery' = [h \in Hashes |-> IF From[h] = b THEN "none" ELSE delivery[h]]
    /\ tries' = [h \in Hashes |-> IF From[h] = b THEN 0 ELSE tries[h]]
    /\ packets' = [h \in Hashes |-> IF From[h] = b THEN {} ELSE packets[h]]
    /\ trust' = [h \in Hashes |-> IF To[h] = b THEN "none" ELSE trust[h]]
    /\ kept' = [h \in Hashes |-> IF To[h] = b THEN 0 ELSE kept[h]]
    /\ UNCHANGED <<air, sent, composed, arrived>>

-----------------------------------------------------------------------------
ExchangeInit ==
    /\ air = {}
    /\ keys = [b \in Boards |-> {}]
    /\ signal = [b \in Boards |-> [p \in Boards |-> NoRadio]]
    /\ due = [b \in Boards |-> TRUE]
    /\ delivery = [h \in Hashes |-> "none"] /\ tries = [h \in Hashes |-> 0]
    /\ packets = [h \in Hashes |-> {}] /\ trust = [h \in Hashes |-> "none"]
    /\ sent = 0 /\ boots = 0
    /\ composed = {} /\ arrived = {} /\ kept = [h \in Hashes |-> 0]

Hears(b) == \E p \in air : HearAnnounce(b, p) \/ HearRequest(b, p)

ExchangeNext ==
    \/ \E b \in Boards : Announces(b) \/ Hears(b) \/ Restart(b)
    \/ \E h \in Hashes : Write(h) \/ AskPath(h) \/ Attempt(h) \/ Fail(h) \/ Retry(h)
    \/ \E p \in air \union Stray : HearData(p) \/ HearProof(p) \/ Repeat(p)

ExchangeSpec == ExchangeInit /\ [][ExchangeNext]_exchangeVars

-----------------------------------------------------------------------------
(* Properties *)

\* Type correctness.
ExchangeTypeOK ==
    /\ air \subseteq Announce \union Request \union Data \union Proof
    /\ keys \in [Boards -> SUBSET Boards]
    /\ signal \in [Boards -> [Boards -> Boards \union {Relay, NoRadio}]]
    /\ due \in [Boards -> BOOLEAN]
    /\ delivery \in [Hashes -> {"none", "turn", "path", "sent", "failed", "delivered"}]
    /\ tries \in [Hashes -> 0..MaxAttempts] /\ packets \in [Hashes -> SUBSET Number]
    /\ trust \in [Hashes -> {"none", "Unverified", "Verified"}]
    /\ sent \in 0..MaxSends /\ boots \in 0..MaxBoots
    /\ composed \subseteq Hashes /\ arrived \subseteq Hashes
    /\ kept \in [Hashes -> Nat]

\* However often a message is tried, and however late or often each of its
\* packets comes, its recipient keeps it once (Messages::receive); only a
\* restart makes it forget that it had it.
KeptOnce == \A h \in Hashes : kept[h] <= 1

\* A signal shown with a peer was measured on that peer's own radio, never on
\* the relay that repeated its announce (Node::heard), and no board is its
\* own peer.
SignalIsThePeers ==
    \A b \in Boards :
        /\ \A p \in Boards : signal[b][p] \in {p, NoRadio}
        /\ b \notin keys[b]

\* A message kept unverified does not stay so while its sender runs: the key
\* announced again comes, unless the recipient loses what it kept.
UnverifiedIsSettled ==
    \A h \in Hashes : (trust[h] = "Unverified") ~> (trust[h] # "Unverified")

Carried == INSTANCE Letter WITH
    written <- composed,
    told <- {h \in Hashes : delivery[h] = "delivered"}

\* A sender is told that its message was delivered only when the message has
\* arrived, whatever is lost, repeated, late, forged, failed and retried, on
\* either side of a restart.
ImplementsLetter == Carried!LetterSpec

\* The exchange does what it should: no message is kept twice, and no peer is
\* shown with a signal from another radio.
ExchangeCorrect == ExchangeTypeOK /\ KeptOnce /\ SignalIsThePeers
=============================================================================
