----------------------------- MODULE NodeSending -----------------------------
(***************************************************************************)
(* What the node has to send besides its messages: the announce schedule   *)
(* and its budget (core/src/node/announce.rs), the queue and the inbox and *)
(* the rule that ties them to the mode (Inbox, Queue and Sending in        *)
(* core/src/node.rs), and the passes of the modem loop that drive them     *)
(* (Listener::tick, next_packet and sent in src/node.rs).                  *)
(*                                                                         *)
(* A packet is what it is for: an announce, a path response, or one of the *)
(* engine's own.  Times are counted down: `quiet` is what is left of the   *)
(* silence the last announce bought, `interval` what is left before the    *)
(* next regular one.  A tick is TICK_MS, the housekeeping's own.           *)
(***************************************************************************)
EXTENDS Naturals, Sequences, FiniteSets

CONSTANTS
    Capacity,       \* Queue::CAPACITY
    InboxCapacity,  \* Inbox::CAPACITY
    Interval,       \* INTERVAL_MS
    Gaps,           \* gap_ms of what an announce takes at some configuration
    MaxOwn,         \* bound: the engine's own packets queued in all
    None            \* nothing is pending, no interval runs

ASSUME SendingAssumption ==
    /\ Capacity \in Nat \ {0} /\ InboxCapacity \in Nat \ {0}
    /\ Interval \in Nat \ {0}
    /\ Gaps \subseteq Nat \ {0}
    /\ MaxOwn \in Nat
    /\ None \notin Nat \union {"announce", "path"}

VARIABLES
    phase,      \* where the pass is: "observe", "work", "keep", "due",
                \* "send" or "panel"
    running,    \* Sending::running
    line,       \* a port is open or a phone is linked
    deaf,       \* the radio is not receiving, or not configured
    inbox,      \* how many heard packets wait for the engine
    queue,      \* the packets waiting for the air
    pending,    \* Schedule::pending
    quiet,      \* until Schedule::allowed_from
    interval,   \* until Schedule::next_interval_ms, or None
    elapsed,    \* TICK_MS has passed since the last housekeeping
    own,        \* the engine's packets queued so far, up to MaxOwn
    announced,  \* an announce has gone since the node started
    pushed,     \* an announce was pushed out of a full queue since then
    burst       \* announces gone, each within the quiet of the one before

vars == <<phase, running, line, deaf, inbox, queue, pending, quiet, interval,
          elapsed, own, announced, pushed, burst>>

Kind == {"announce", "path"}

schedule == <<pending, quiet, interval>>
record == <<announced, pushed, burst>>
outside == <<line, deaf>>

----------------------------------------------------------------------------
(* Definitions named X_Bug are X as a plausible mistake would have it; the *)
(* runs' properties are shown to notice each of them.                      *)

(* Schedule::want: an ordinary announce covers a path response. *)
Stronger(k) == IF pending = "announce" THEN "announce" ELSE k

Pushed_NoLimit(q, p) == Append(q, p)

(* Queue::push: the oldest makes room. *)
Pushed(q, p) == Append(IF Len(q) = Capacity THEN Tail(q) ELSE q, p)

PushesOut(q) == Len(q) = Capacity /\ Head(q) \in Kind

(* Sending::follow, on a pass that finds the mode changed: starting asks   *)
(* for an announce and stopping drops what was waiting, with the packets   *)
(* heard and not looked at.                                                *)
Started ==
    /\ ~running /\ running' = TRUE
    /\ pending' = "announce" /\ interval' = Interval
    /\ announced' = FALSE /\ pushed' = FALSE
    /\ UNCHANGED <<inbox, queue, quiet, burst>>

Stopped_IntervalRuns ==
    /\ running /\ running' = FALSE
    /\ pending' = None
    /\ queue' = <<>> /\ inbox' = 0
    /\ UNCHANGED <<interval, quiet, record>>

Stopped ==
    /\ running /\ running' = FALSE
    /\ pending' = None /\ interval' = None
    /\ queue' = <<>> /\ inbox' = 0
    /\ UNCHANGED <<quiet, record>>

(* Listener::observe and follow_mode.  A host that comes or goes starts    *)
(* the housekeeping's clock again; a configuration stored or deleted does  *)
(* not.                                                                    *)
Follow ==
    /\ phase = "observe" /\ phase' = "work"
    /\ Started \/ Stopped
    /\ elapsed' \in {elapsed, FALSE}
    /\ UNCHANGED <<own, outside>>

Same ==
    /\ phase = "observe" /\ phase' = IF running THEN "work" ELSE "panel"
    /\ UNCHANGED <<running, inbox, queue, schedule, elapsed, own, record, outside>>

(* A packet the engine has for the air: an answer, a proof, a path asked   *)
(* for.                                                                    *)
OwnPackets(n) ==
    /\ own + n <= MaxOwn /\ own' = own + n
    /\ queue' = IF n = 0 THEN queue
                ELSE IF n = 1 THEN Pushed(queue, "own")
                ELSE Pushed(Pushed(queue, "own"), "own")
    /\ pushed' = (pushed \/ (n > 0 /\ PushesOut(queue))
                         \/ (n > 1 /\ PushesOut(Pushed(queue, "own"))))

(* Listener::tick on a quiet pass: one packet that was heard goes to the   *)
(* engine, which may ask for a path response and have packets to send.     *)
Look(n) ==
    /\ phase = "work" /\ phase' = "keep"
    /\ running /\ inbox > 0
    /\ inbox' = inbox - 1
    /\ OwnPackets(n)
    /\ pending' \in {pending, Stronger("path")}
    /\ UNCHANGED <<running, quiet, interval, elapsed, announced, burst, outside>>

(* Or, with nothing heard, the outbox takes a step, which may ask for a    *)
(* path.                                                                   *)
Ask(n) ==
    /\ phase = "work" /\ phase' = "keep"
    /\ running /\ inbox = 0
    /\ OwnPackets(n)
    /\ UNCHANGED <<running, inbox, schedule, elapsed, announced, burst, outside>>

(* The radio had something on this pass, or the node does not run. *)
NoWork ==
    /\ phase = "work" /\ phase' = IF running THEN "keep" ELSE "panel"
    /\ UNCHANGED <<running, inbox, queue, schedule, elapsed, own, record, outside>>

Allowed_AnyTime == TRUE

(* Schedule::due compares with allowed_from. *)
Allowed == quiet = 0

IntervalAsks == interval = 0

Wanted == IF IntervalAsks THEN "announce" ELSE pending

NextInterval_Once == IF IntervalAsks THEN None ELSE interval

NextInterval == IF IntervalAsks THEN Interval ELSE interval

(* The engine's housekeeping, once a tick, which may have a packet to send *)
(* and a path request to answer.                                           *)
Housekeeping(n) ==
    /\ phase = "keep" /\ phase' = "due"
    /\ running /\ elapsed /\ elapsed' = FALSE
    /\ OwnPackets(n)
    /\ pending' \in {pending, Stronger("path")}
    /\ UNCHANGED <<running, inbox, quiet, interval, announced, burst, outside>>

(* After it, the interval asks when it has run out, and what is pending is *)
(* built and queued if the budget allows it.  Building cannot fail: the    *)
(* identity has its key and the name fits in a packet.                     *)
Due ==
    /\ phase = "due" /\ phase' = "send"
    /\ interval' = NextInterval
    /\ IF Allowed /\ Wanted # None
       THEN /\ pending' = None
            /\ queue' = Pushed(queue, Wanted)
            /\ pushed' = (pushed \/ PushesOut(queue))
       ELSE /\ pending' = Wanted
            /\ UNCHANGED <<queue, pushed>>
    /\ UNCHANGED <<running, inbox, quiet, elapsed, own, announced, burst, outside>>

NotYet ==
    /\ phase = "keep" /\ phase' = "send"
    /\ ~elapsed
    /\ UNCHANGED <<running, inbox, queue, schedule, elapsed, own, record, outside>>

----------------------------------------------------------------------------
(* Listener::next_packet hands the oldest packet to the radio, if nobody   *)
(* is on the line.                                                         *)
MaySend == running /\ ~line /\ ~deaf /\ queue # <<>>

(* It goes, and Sending::sent spends the budget if it is an announce. *)
Went ==
    /\ phase = "send" /\ phase' = "panel"
    /\ MaySend
    /\ queue' = Tail(queue)
    /\ IF Head(queue) \in Kind
       THEN /\ quiet' \in Gaps
            /\ announced' = TRUE
            /\ burst' = IF quiet > 0 THEN burst + 1 ELSE 1
       ELSE UNCHANGED <<quiet, announced, burst>>
    /\ UNCHANGED <<running, inbox, pending, interval, elapsed, own, pushed, outside>>

NotSent_Forgotten(k) == pending

(* Sending::sent asks again for an announce that did not go. *)
NotSent(k) == IF k \in Kind THEN Stronger(k) ELSE pending

(* The radio refuses it, or the wait for the channel is given up because   *)
(* somebody has opened the port.                                           *)
Refused ==
    /\ phase = "send" /\ phase' = "panel"
    /\ MaySend
    /\ queue' = Tail(queue)
    /\ pending' = NotSent(Head(queue))
    /\ UNCHANGED <<running, inbox, quiet, interval, elapsed, own, record, outside>>

NothingToSend ==
    /\ phase = "send" /\ phase' = "panel"
    /\ ~MaySend
    /\ UNCHANGED <<running, inbox, queue, schedule, elapsed, own, record, outside>>

(* A packet comes off the air, between packets or during the wait for the  *)
(* channel: Inbox::push, with the oldest making room.                      *)
Hear ==
    /\ running /\ phase \in {"observe", "send"}
    /\ inbox' = IF inbox = InboxCapacity THEN inbox ELSE inbox + 1
    /\ UNCHANGED <<phase, running, queue, schedule, elapsed, own, record, outside>>

(* Announce Now, which the panel does not offer with a host on the line. *)
AnnounceNow ==
    /\ phase = "panel" /\ running /\ ~line
    /\ pending' = Stronger("announce")
    /\ UNCHANGED <<phase, running, inbox, queue, quiet, interval, elapsed, own, record, outside>>

EndPass ==
    /\ phase = "panel" /\ phase' = "observe"
    /\ UNCHANGED <<running, inbox, queue, schedule, elapsed, own, record, outside>>

(* The end of a pass a tick later. *)
Tick ==
    /\ phase = "panel" /\ phase' = "observe"
    /\ elapsed' = TRUE
    /\ quiet' = IF quiet = 0 THEN 0 ELSE quiet - 1
    /\ interval' = IF interval = None \/ interval = 0 THEN interval ELSE interval - 1
    /\ UNCHANGED <<running, inbox, queue, pending, own, record, outside>>

(* Somebody opens or closes the port, a phone links or goes. *)
Line ==
    /\ line' = ~line
    /\ UNCHANGED <<phase, running, inbox, queue, schedule, elapsed, own, record, deaf>>

(* The radio is switched off or on, or stops receiving. *)
Radio ==
    /\ deaf' = ~deaf
    /\ UNCHANGED <<phase, running, inbox, queue, schedule, elapsed, own, record, line>>

----------------------------------------------------------------------------
Init ==
    /\ phase = "observe" /\ running = FALSE
    /\ line = FALSE /\ deaf \in BOOLEAN
    /\ inbox = 0 /\ queue = <<>>
    /\ pending = None /\ quiet = 0 /\ interval = None
    /\ elapsed = FALSE /\ own = 0
    /\ announced = FALSE /\ pushed = FALSE /\ burst = 0

(* A pass of the modem loop, which nothing but the radio and a host hold   *)
(* up, and those not for ever.                                             *)
Pass ==
    \/ Follow \/ Same
    \/ \E n \in 0..2 : Look(n)
    \/ \E n \in 0..1 : Ask(n) \/ Housekeeping(n)
    \/ NoWork \/ Due \/ NotYet
    \/ Went \/ Refused \/ NothingToSend
    \/ EndPass \/ Tick

Next == Pass \/ Hear \/ AnnounceNow \/ Line \/ Radio

Spec == Init /\ [][Next]_vars

AnnounceGoes == Went /\ Head(queue) \in Kind

(* The loop goes on passing, ticks go by, and an announce that is tried    *)
(* again and again is sent sooner or later.  The engine's own packets are  *)
(* finitely many: a flood of them that never ended could push every        *)
(* announce out of the queue.                                              *)
Fairness == WF_vars(Pass) /\ SF_vars(Tick) /\ SF_vars(AnnounceGoes)

FairSpec == Spec /\ Fairness

----------------------------------------------------------------------------
TypeOK ==
    /\ phase \in {"observe", "work", "keep", "due", "send", "panel"}
    /\ running \in BOOLEAN /\ line \in BOOLEAN /\ deaf \in BOOLEAN
    /\ inbox \in 0..InboxCapacity
    /\ queue \in Seq(Kind \union {"own"}) /\ Len(queue) <= Capacity
    /\ pending \in Kind \union {None}
    /\ quiet \in Nat /\ interval \in Nat \union {None}
    /\ elapsed \in BOOLEAN /\ own \in 0..MaxOwn
    /\ announced \in BOOLEAN /\ pushed \in BOOLEAN /\ burst \in Nat

(* Nothing the node wanted to say is sent under somebody else's RNode, nor *)
(* kept for afterwards: while it is stopped nothing is queued, pending,    *)
(* waiting to be looked at or going to be asked for.                       *)
NothingWaitsUnderAHost ==
    ~running => queue = <<>> /\ pending = None /\ interval = None /\ inbox = 0

(* A node that has started and not announced is going to: an announce is   *)
(* asked for or queued, through every refusal, budget and stop, unless a   *)
(* full queue pushed one out.                                              *)
StartingAnnounces ==
    running /\ ~announced /\ ~pushed =>
        pending # None \/ \E i \in DOMAIN queue : queue[i] \in Kind

(* No more announces than the queue holds go without their quiet time      *)
(* between them.                                                           *)
BurstBounded == burst <= Capacity

(* A node that goes on running, with nobody on the line and a radio that   *)
(* receives, goes on announcing.                                           *)
AnnouncesAgain ==
    <>[](running /\ ~line /\ ~deaf) => []<><<AnnounceGoes>>_vars

(* The node keeps to its bounds: of packets queued and heard, and of        *)
(* announces without a quiet time between them.                             *)
SendsWithinBounds == TypeOK /\ BurstBounded
=============================================================================
