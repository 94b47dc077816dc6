----------------------------- MODULE NodeOutbox -----------------------------
(***************************************************************************)
(* The messages the board sends (core/src/node/outbox.rs), the station     *)
(* that builds an attempt at one (Station::compose and Station::step in    *)
(* core/src/node.rs) and the listener that hands the attempt to the radio  *)
(* and stops when a host arrives (src/node.rs).                            *)
(*                                                                         *)
(* A message is its hash, which determines its recipient.  Time is counted *)
(* down: a message's `next` is how many ticks are left before it needs     *)
(* looking at, and it is not `armed` while next_ms is u64::MAX.            *)
(***************************************************************************)
EXTENDS Naturals, Sequences, FiniteSets

CONSTANTS
    Peers,        \* the recipients
    Hashes,       \* the message hashes; Dest[h] is the recipient of h
    Dest,
    BadKeys,      \* recipients whose announced key cannot be encrypted to
    MaxAlike,     \* bound: messages that hash alike; 1 if the board knows
                  \* the time, which the hash is made of
    Capacity,     \* Outbox::CAPACITY
    MaxAttempts,  \* MAX_ATTEMPTS
    RetryTicks,   \* the wait after the first attempt
    AskTicks,     \* PATH_ASK_MS
    PathTicks,    \* PATH_TIMEOUT_MS
    AgainTicks,   \* AGAIN_MS
    MaxSends,     \* bound: attempts at one message that go
    MaxStops,     \* bound: times the node is stopped
    MaxRetries,   \* bound: uses of Retry Failed
    None          \* no attempt is ready

ASSUME OutboxAssumption ==
    /\ Dest \in [Hashes -> Peers]
    /\ BadKeys \subseteq Peers
    /\ MaxAlike \in Nat \ {0}
    /\ Capacity \in Nat \ {0}
    /\ MaxAttempts \in Nat \ {0} /\ MaxSends \in Nat
    /\ RetryTicks \in Nat \ {0} /\ AskTicks \in Nat \ {0}
    /\ PathTicks \in Nat /\ AgainTicks \in Nat \ {0}
    /\ MaxStops \in Nat /\ MaxRetries \in Nat
    /\ None \notin Hashes

VARIABLES
    kept,      \* the messages, oldest first
    known,     \* the recipients whose key the peer table has
    marked,    \* those of them marked as having a conversation
    mode,      \* "node", "host" (a host owns the radio) or "idle"
    ready,     \* the hash of the attempt built and not yet sent, or None
    written,   \* written[h]: messages written so far that hash to h
    stops,     \* how often the node has been stopped
    retries    \* how often Retry Failed has been used

vars == <<kept, known, marked, mode, ready, written, stops, retries>>

(* Delivery: Queued(Turn), Queued(Path), Queued(Host), Queued(Idle), Sent, *)
(* Delivered, Failed(NoPath), Failed(NoProof).                             *)
Held == {"host", "idle"}
Waiting == {"turn", "path"} \union Held \union {"sent"}
Failed == {"nopath", "noproof"}
Delivery == Waiting \union Failed \union {"delivered"}

Sending == [hash : Hashes, delivery : Delivery, attempts : Nat,
            armed : BOOLEAN, next : Nat, asked : Nat, aired : BOOLEAN,
            late : Nat]

Running == mode = "node"

(* Listener::held: why a message written now would wait. *)
HeldNow == IF Running THEN "turn" ELSE mode

Slots == DOMAIN kept

Shift == <<1, 2, 4, 8, 16, 32, 64, 128, 256>>

(* wait_ms: twice as long after each attempt, to a limit. *)
wait_ms(n) == RetryTicks * Shift[IF n < 9 THEN n ELSE 9]

Update(i, m) == [kept EXCEPT ![i] = m]

----------------------------------------------------------------------------
(* Definitions named X_Bug are X as a plausible mistake would have it; the *)
(* runs' properties are shown to notice each of them.                      *)

Without_NotRemoved(i) == kept

Without(i) ==
    [j \in 1..(Len(kept) - 1) |-> IF j < i THEN kept[j] ELSE kept[j + 1]]

Oldest(Kind) ==
    {i \in Slots : /\ kept[i].delivery \in Kind
                   /\ \A j \in Slots : kept[j].delivery \in Kind => i <= j}

Evictable_Sent == Oldest({"delivered", "sent"} \union Failed)

(* What a full outbox lets go: the oldest delivered message, else the      *)
(* oldest failed one; nothing when every message is still on its way.      *)
Evictable ==
    IF Oldest({"delivered"}) # {} THEN Oldest({"delivered"}) ELSE Oldest(Failed)

NewMessage(h) ==
    [hash |-> h, delivery |-> HeldNow, attempts |-> 0, armed |-> Running,
     next |-> 0, asked |-> 0, aired |-> FALSE, late |-> 0]

(* Listener::reply, Station::compose, Outbox::queue.  A hash is made of    *)
(* the recipient, the text and the time: with no clock, the same words to  *)
(* the same recipient make the same hash.                                  *)
Compose(h) ==
    /\ written[h] < MaxAlike
    /\ \/ /\ Len(kept) < Capacity
          /\ kept' = Append(kept, NewMessage(h))
       \/ /\ Len(kept) = Capacity
          /\ \E i \in Evictable : kept' = Append(Without(i), NewMessage(h))
    /\ written' = [written EXCEPT ![h] = @ + 1]
    /\ marked' = marked \union ({Dest[h]} \intersect known)
    /\ UNCHANGED <<known, mode, ready, stops, retries>>

----------------------------------------------------------------------------
(* What Outbox::due makes of one message at this moment. *)
Due(m) == m.armed /\ m.next = 0

Known(m) == Dest[m.hash] \in known

Spent_OffByOne(m) == m.attempts > MaxAttempts

Spent(m) == m.attempts >= MaxAttempts

TimesOut(m) ==
    \/ m.delivery = "path" /\ ~Known(m) /\ m.asked >= PathTicks
    \/ m.delivery = "sent" /\ Due(m) /\ Spent(m)

Goes(m) ==
    /\ Known(m)
    /\ \/ m.delivery = "turn" /\ Due(m)
       \/ m.delivery = "path"
       \/ m.delivery = "sent" /\ Due(m) /\ ~Spent(m)

Asks(m) ==
    /\ ~Known(m)
    /\ \/ m.delivery = "turn" /\ Due(m)
       \/ m.delivery = "path" /\ m.asked < PathTicks /\ Due(m)
       \/ m.delivery = "sent" /\ Due(m) /\ ~Spent(m)

(* An attempt that cannot be built at all fails the message. *)
Unbuildable(m) == Goes(m) /\ Dest[m.hash] \in BadKeys

Fails(m) == TimesOut(m) \/ Unbuildable(m)

(* The first message with something for the air; the step stops there. *)
First == {i \in Slots : /\ (Goes(kept[i]) /\ ~Unbuildable(kept[i])) \/ Asks(kept[i])
                        /\ \A j \in 1..(i - 1) :
                              ~Asks(kept[j]) /\ (Goes(kept[j]) => Unbuildable(kept[j]))}

HandedOut(m) ==
    [m EXCEPT !.armed = FALSE,
              !.delivery = IF @ = "path" THEN "turn" ELSE @]

Asked_WaitStartsAgain(m) ==
    [m EXCEPT !.asked = 0, !.delivery = "path", !.next = AskTicks, !.armed = TRUE]

Asked(m) ==
    [m EXCEPT !.asked = IF m.delivery = "path" THEN @ ELSE 0,
              !.delivery = "path", !.next = AskTicks, !.armed = TRUE]

FailedNow(m) ==
    [m EXCEPT !.delivery = IF m.delivery = "sent" /\ TimesOut(m)
                           THEN "noproof" ELSE "nopath",
              !.armed = IF m.delivery = "path" /\ TimesOut(m) THEN @ ELSE FALSE]

(* Station::step, on a pass of the modem loop when nothing was heard and   *)
(* no attempt is ready: messages that have run out of time fail until one  *)
(* has something for the air, which is asked for or handed out.            *)
Step ==
    /\ Running /\ ready = None
    /\ First # {} \/ \E i \in Slots : Fails(kept[i])
    /\ kept' = [i \in Slots |->
                  IF \E f \in First : f < i THEN kept[i]
                  ELSE IF Fails(kept[i]) THEN FailedNow(kept[i])
                  ELSE IF i \in First
                       THEN IF Goes(kept[i]) THEN HandedOut(kept[i]) ELSE Asked(kept[i])
                  ELSE kept[i]]
    /\ ready' = IF \E i \in First : Goes(kept[i])
                THEN kept[CHOOSE i \in First : TRUE].hash ELSE None
    /\ UNCHANGED <<known, marked, mode, written, stops, retries>>

----------------------------------------------------------------------------
(* The message Outbox finds by a hash: the first that has it. *)
Found(h) == {i \in Slots : /\ kept[i].hash = h
                           /\ \A j \in 1..(i - 1) : kept[j].hash # h}

Late(m) == IF m.delivery = "delivered" \/ m.late > 0 THEN m.late + 1 ELSE 0

Went_ProofUndone(m) ==
    [m EXCEPT !.attempts = @ + 1, !.delivery = "sent", !.aired = TRUE,
              !.armed = TRUE, !.next = wait_ms(m.attempts + 1), !.late = Late(m)]

(* Outbox::went, for an attempt that went and for one that did not.  One   *)
(* held or proved while it was ready stays what it is.                     *)
Went(m) ==
    IF m.delivery \in {"turn", "sent"}
    THEN [m EXCEPT !.attempts = @ + 1, !.delivery = "sent", !.aired = TRUE,
                   !.armed = TRUE, !.next = wait_ms(m.attempts + 1), !.late = Late(m)]
    ELSE [m EXCEPT !.aired = TRUE, !.late = Late(m)]

NotWent_NotAgain(m) == m

NotWent(m) ==
    IF m.delivery \in {"turn", "sent"}
    THEN [m EXCEPT !.armed = TRUE, !.next = AgainTicks]
    ELSE m

(* Listener::next_packet takes the ready attempt, the radio sends it, and  *)
(* Listener::sent says so.  Nothing else of the node runs meanwhile.       *)
Transmit ==
    /\ Running /\ ready # None
    /\ \A i \in Found(ready) : kept[i].attempts < MaxSends
    /\ kept' = [i \in Slots |-> IF i \in Found(ready) THEN Went(kept[i]) ELSE kept[i]]
    /\ ready' = None
    /\ UNCHANGED <<known, marked, mode, written, stops, retries>>

(* The radio refuses the attempt, or it is given up for a host that may be *)
(* about to speak.                                                         *)
Refuse ==
    /\ Running /\ ready # None
    /\ kept' = [i \in Slots |-> IF i \in Found(ready) THEN NotWent(kept[i]) ELSE kept[i]]
    /\ ready' = None
    /\ UNCHANGED <<known, marked, mode, written, stops, retries>>

(* Station::take hands a proof of one of message i's packets to            *)
(* Outbox::proved, which needs the recipient's key to check it.            *)
Proved(i) ==
    /\ Running
    /\ kept[i].aired /\ kept[i].delivery # "delivered"
    /\ Known(kept[i])
    /\ kept' = Update(i, [kept[i] EXCEPT !.delivery = "delivered", !.armed = FALSE])
    /\ UNCHANGED <<known, marked, mode, ready, written, stops, retries>>

(* The recipient is heard to announce.  Messages::heard marks it as having *)
(* a conversation if it settles a message from it that waited for its key. *)
Learn(p) ==
    /\ Running /\ p \notin known
    /\ known' = known \union {p}
    /\ marked' \in {marked, marked \union {p}}
    /\ UNCHANGED <<kept, mode, ready, written, stops, retries>>

(* A stranger is heard with the peer table full, and p, without a          *)
(* conversation, makes room for it.                                        *)
Forget(p) ==
    /\ Running /\ p \in known \ marked
    /\ known' = known \ {p}
    /\ UNCHANGED <<kept, marked, mode, ready, written, stops, retries>>

----------------------------------------------------------------------------
(* Outbox::hold. *)
Hold(why) ==
    [i \in Slots |-> IF kept[i].delivery \in Waiting
                     THEN [kept[i] EXCEPT !.delivery = why, !.armed = FALSE]
                     ELSE kept[i]]

Resume_OnlyHost ==
    [i \in Slots |-> IF kept[i].delivery = "host"
                     THEN [kept[i] EXCEPT !.delivery = "turn", !.armed = TRUE, !.next = 0]
                     ELSE kept[i]]

(* Outbox::resume. *)
Resume ==
    [i \in Slots |-> IF kept[i].delivery \in Held
                     THEN [kept[i] EXCEPT !.delivery = "turn", !.armed = TRUE, !.next = 0]
                     ELSE kept[i]]

(* Listener::observe sees a host arrive or the stored configuration go,    *)
(* and Listener::follow_mode stops the node in the same pass: the attempt  *)
(* that is ready is dropped and everything on its way is held.             *)
Stop(why) ==
    /\ Running /\ stops < MaxStops
    /\ mode' = why
    /\ kept' = Hold(why)
    /\ ready' = None
    /\ stops' = stops + 1
    /\ UNCHANGED <<known, marked, written, retries>>

(* The host leaves a board with a stored configuration, or one is stored. *)
Start ==
    /\ ~Running
    /\ mode' = "node"
    /\ kept' = Resume
    /\ UNCHANGED <<known, marked, ready, written, stops, retries>>

(* A host arrives at a board that is not a node, or leaves one with no     *)
(* configuration: the node does not run before or after, and nothing held  *)
(* changes.                                                                *)
Swap ==
    /\ ~Running
    /\ mode' \in Held \ {mode}
    /\ UNCHANGED <<kept, known, marked, ready, written, stops, retries>>

(* Listener::retry_failed, Outbox::retry. *)
Retry(p) ==
    /\ retries < MaxRetries
    /\ \E i \in Slots : kept[i].delivery \in Failed /\ Dest[kept[i].hash] = p
    /\ kept' = [i \in Slots |->
                  IF kept[i].delivery \in Failed /\ Dest[kept[i].hash] = p
                  THEN [kept[i] EXCEPT !.delivery = HeldNow, !.attempts = 0,
                                       !.armed = Running, !.next = 0, !.asked = 0]
                  ELSE kept[i]]
    /\ retries' = retries + 1
    /\ UNCHANGED <<known, marked, mode, ready, written, stops>>

Tick ==
    /\ \E i \in Slots : \/ kept[i].armed /\ kept[i].next > 0
                        \/ kept[i].delivery = "path" /\ kept[i].asked < PathTicks
    /\ kept' = [i \in Slots |->
                  [kept[i] EXCEPT
                     !.next = IF kept[i].armed /\ @ > 0 THEN @ - 1 ELSE @,
                     !.asked = IF kept[i].delivery = "path" /\ @ < PathTicks
                               THEN @ + 1 ELSE @]]
    /\ UNCHANGED <<known, marked, mode, ready, written, stops, retries>>

----------------------------------------------------------------------------
Init ==
    /\ kept = <<>>
    /\ known = {} /\ marked = {}
    /\ mode \in {"node", "idle"}
    /\ ready = None
    /\ written = [h \in Hashes |-> 0] /\ stops = 0 /\ retries = 0

Next ==
    \/ \E h \in Hashes : Compose(h)
    \/ Step \/ Transmit \/ Refuse
    \/ \E i \in Slots : Proved(i)
    \/ \E p \in Peers : Learn(p) \/ Forget(p) \/ Retry(p)
    \/ \E why \in Held : Stop(why)
    \/ Start \/ Swap \/ Tick

(* The modem loop keeps passing, so a step that is due is taken; time      *)
(* passes; and a radio that is tried again and again sends sooner or later.*)
Fairness == WF_vars(Step) /\ WF_vars(Tick) /\ SF_vars(Transmit)

Spec == Init /\ [][Next]_vars

FairSpec == Spec /\ Fairness

----------------------------------------------------------------------------
TypeOK ==
    /\ kept \in Seq(Sending) /\ Len(kept) <= Capacity
    /\ known \subseteq Peers /\ marked \subseteq known
    /\ mode \in {"node", "host", "idle"}
    /\ ready \in Hashes \union {None}
    /\ written \in [Hashes -> Nat]
    /\ stops \in 0..MaxStops /\ retries \in 0..MaxRetries

(* While the node runs, a message that is waiting for no time to come is   *)
(* the one whose attempt is ready: due never hands one out that nobody     *)
(* then answers for, through every hold, resume, proof and eviction.       *)
NoLimbo ==
    Running => \A i \in Slots :
        kept[i].delivery \in {"turn", "sent"} /\ ~kept[i].armed => kept[i].hash = ready

(* While the node is stopped nothing is on its way: every unfinished       *)
(* message is held and no attempt is ready; while it runs, none is held.   *)
HeldExactlyWhenStopped ==
    /\ ~Running => ready = None
    /\ \A i \in Slots :
         kept[i].delivery \in Waiting => (kept[i].delivery \in Held <=> ~Running)

(* Once proved, a message goes at most once more, in the attempt that was  *)
(* built before the proof was read; and having gone it is still delivered. *)
OnceMoreAfterProof ==
    \A i \in Slots :
        /\ kept[i].late <= 1
        /\ kept[i].late = 1 => kept[i].delivery = "delivered"

(* A message makes at most MAX_ATTEMPTS attempts, and one more for each    *)
(* time it was held after its last.                                        *)
AttemptsPerRun == \A i \in Slots : kept[i].attempts <= MaxAttempts + stops

(* The outbox keeps to its bounds: of messages, of attempts at one, and of *)
(* attempts after a proof.                                                 *)
AttemptsBounded == TypeOK /\ AttemptsPerRun /\ OnceMoreAfterProof

(* Only a message that is delivered or failed is let go for a new one, and *)
(* a failed one only when none is delivered.                               *)
NothingUnderwayIsDropped ==
    [][\A i \in Slots :
          \/ \E j \in DOMAIN kept' : kept'[j].hash = kept[i].hash
          \/ kept[i].delivery = "delivered"
          \/ /\ kept[i].delivery \in Failed
             /\ \A j \in Slots : kept[j].delivery # "delivered"]_vars

Finished(h) ==
    \A i \in Slots : kept[i].hash = h => kept[i].delivery \notin Waiting

(* A message is never held forever: if the node goes on running, every     *)
(* message written is sooner or later delivered, failed or let go.         *)
NeverHeldForever ==
    \A h \in Hashes : []<>(Running => Finished(h))
=============================================================================
