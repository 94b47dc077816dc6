--------------------------------- MODULE Pad ---------------------------------
(***************************************************************************)
(* One switch of the pad from the contact to the queue of gestures: the    *)
(* debouncing and repeating of core/src/pad.rs, and the task of            *)
(* src/pad.rs that reads the pins, polls, queues what came of it, arms     *)
(* each pin for the opposite of the level it has by then, and sleeps until *)
(* an edge or the deadline.  The six switches share the wakes of the task  *)
(* and the queue: another one's edge (Elsewhere) and another one's gesture *)
(* (AnotherGesture) come at any time.                                      *)
(*                                                                         *)
(* The finger comes and goes; at each the contact bounces for at most      *)
(* Bounce ticks.  The executor is cooperative: the task runs up to Late    *)
(* ticks after what woke it.  A time is kept as the ticks to or from it.   *)
(***************************************************************************)
EXTENDS Integers, Sequences

CONSTANTS
    Debounce,   \* DEBOUNCE_MS
    Period,     \* REPEAT_PERIOD_MS
    Delay,      \* REPEAT_DELAY_MS
    PadQueue,   \* QUEUE
    Bounce,     \* ticks a contact bounces at most
    Late,       \* ticks the task may be late
    Never       \* no repeat scheduled

\* The source asserts the order of the three at compile time; the parts'
\* specification puts the bounce under the debounce.  Two debounces fit between
\* two repeats, of 10 ms and 125 ms, with room for a bounce and a late task.
ASSUME PadAssumption ==
    /\ {Debounce, Period, Delay, Late} \subseteq Nat /\ Bounce \in Nat \ {0}
    /\ Bounce < Debounce /\ Debounce < Period /\ Period < Delay
    /\ Bounce + 2 * Debounce + Late <= Period + 1
    /\ PadQueue \in Nat \ {0} /\ Never \notin Int

VARIABLES
    direction,  \* Key::repeats
    finger,     \* a finger holds the switch
    contact,    \* is_low: what the pin reads
    bouncing,   \* ticks the contact may still bounce
    switch,     \* Switch: [settled, raw, unstable, age, next]
    padTask,    \* "read": to run, "arm": polled, "asleep"
    armed,      \* the level the sleeping task waits for
    overdue,    \* ticks since the task was woken
    gestures,   \* the channel: kinds of this switch's, or "Other"
    presses,    \* presses reported since the finger came
    since       \* repeats reported with the contact open, since the finger left

padVars == <<direction, finger, contact, bouncing, switch, padTask, armed,
             overdue, gestures, presses, since>>

RELEASED == [settled |-> FALSE, raw |-> FALSE, unstable |-> FALSE, age |-> 0,
             next |-> Never]

-----------------------------------------------------------------------------
(* Switch *)

level(s, p) ==
    IF p = s.raw THEN s
    ELSE [s EXCEPT !.raw = p, !.unstable = TRUE, !.age = 0]

\* Mutation: a level is believed as soon as it is seen.
Held_AtOnce(s) == s.unstable

\* The level has held for as long as it takes to be believed
Held(s) == s.unstable /\ s.age >= Debounce

Repeats(s) == s.next # Never /\ s.next <= 0

\* Mutation: a bounce that came back leaves the switch unstable.
Settle_Unstable(s) ==
    IF Held(s) /\ s.raw # s.settled
    THEN [s EXCEPT !.unstable = FALSE, !.age = 0, !.settled = s.raw,
                   !.next = IF s.raw /\ direction THEN Delay ELSE Never]
    ELSE s

\* Mutation: a release leaves the repeat scheduled.
Settle_Repeating(s) ==
    CASE ~Held(s) -> s
      [] Held(s) /\ s.raw = s.settled ->
            [s EXCEPT !.unstable = FALSE, !.age = 0]
      [] OTHER -> [s EXCEPT !.unstable = FALSE, !.age = 0, !.settled = s.raw,
                            !.next = IF s.raw /\ direction THEN Delay ELSE @]

Settle(s) ==
    CASE ~Held(s) -> s
      [] Held(s) /\ s.raw = s.settled ->
            [s EXCEPT !.unstable = FALSE, !.age = 0]
      [] OTHER -> [s EXCEPT !.unstable = FALSE, !.age = 0, !.settled = s.raw,
                            !.next = IF s.raw /\ direction THEN Delay ELSE Never]

\* Switch::poll, the new state and the kinds of event: a repeat is put off by
\* a period from now, however late it is
Polled(s) ==
    LET t == Settle(s) IN IF Repeats(t) THEN [t EXCEPT !.next = Period] ELSE t
Reports(s) ==
    LET t == Settle(s)
    IN  IF Repeats(t) THEN <<"Repeat">>
        ELSE IF t.settled /\ ~s.settled THEN <<"Press">> ELSE <<>>

\* Mutation: the repeat is not waited for.
DeadlineIn_Debounce(s) == s.unstable /\ s.age >= Debounce

\* The deadline is now, or past
DeadlineIn(s) == (s.unstable /\ s.age >= Debounce) \/ Repeats(s)

-----------------------------------------------------------------------------
(* The finger and the contact *)

Touch ==
    /\ finger' = ~finger
    /\ bouncing' = Bounce
    /\ presses' = IF finger' THEN 0 ELSE presses
    /\ since' = 0
    /\ UNCHANGED <<direction, contact, switch, padTask, armed, overdue, gestures>>

\* An edge; the pin's sense wakes the task that waits for its level.
Edge ==
    /\ bouncing > 0
    /\ contact' = ~contact
    /\ padTask' = IF padTask = "asleep" /\ contact' = armed THEN "read" ELSE padTask
    /\ UNCHANGED <<direction, finger, bouncing, switch, armed, overdue,
                   gestures, presses, since>>

\* Time: none passes inside the task, and the contact is still in the end.  A
\* repeat is never overdue by more than Late.
PadTick ==
    /\ padTask # "arm"
    /\ padTask = "read" => overdue < Late
    /\ bouncing = 0 => contact = finger
    /\ bouncing' = IF bouncing = 0 THEN 0 ELSE bouncing - 1
    /\ contact' = IF bouncing' = 0 THEN finger ELSE contact
    /\ switch' = [switch EXCEPT
            !.age = IF switch.unstable /\ @ < Debounce THEN @ + 1 ELSE @,
            !.next = IF @ \in {Never, -Late} THEN @ ELSE @ - 1]
    /\ padTask' = IF /\ padTask = "asleep"
                     /\ contact' = armed \/ DeadlineIn(switch')
                  THEN "read" ELSE padTask
    /\ overdue' = IF padTask = "read" THEN overdue + 1 ELSE 0
    /\ UNCHANGED <<direction, finger, armed, gestures, presses, since>>

-----------------------------------------------------------------------------
(* The task *)

\* Mutation: a full channel grows.
Sent_NoLimit(q, x) == q \o x

\* try_send: the newest is dropped
Sent(q, x) == IF Len(q) < PadQueue THEN q \o x ELSE q

\* The levels are read, then the pad is polled.
Poll ==
    LET s == level(switch, contact)
    IN  /\ padTask = "read"
        /\ switch' = Polled(s)
        /\ gestures' = Sent(gestures, Reports(s))
        /\ presses' = IF Reports(s) = <<"Press">> THEN presses + 1 ELSE presses
        /\ since' = IF ~contact /\ Reports(s) = <<"Repeat">>
                    THEN since + 1 ELSE since
        /\ padTask' = "arm"
        /\ overdue' = 0
        /\ UNCHANGED <<direction, finger, contact, bouncing, armed>>

\* The pin is read again: an edge since the poll is not seen.
Arm ==
    /\ padTask = "arm"
    /\ armed' = ~contact
    /\ padTask' = IF DeadlineIn(switch) THEN "read" ELSE "asleep"
    /\ UNCHANGED <<direction, finger, contact, bouncing, switch, overdue,
                   gestures, presses, since>>

Elsewhere ==
    /\ padTask = "asleep"
    /\ padTask' = "read"
    /\ UNCHANGED <<direction, finger, contact, bouncing, switch, armed,
                   overdue, gestures, presses, since>>

AnotherGesture ==
    /\ padTask = "read"
    /\ gestures' = Sent(gestures, <<"Other">>)
    /\ UNCHANGED <<direction, finger, contact, bouncing, switch, padTask,
                   armed, overdue, presses, since>>

\* The render loop takes every gesture that waits.
drain ==
    /\ gestures' = <<>>
    /\ UNCHANGED <<direction, finger, contact, bouncing, switch, padTask,
                   armed, overdue, presses, since>>

PadInit ==
    /\ direction \in BOOLEAN
    /\ finger = FALSE /\ contact = FALSE /\ bouncing = 0
    /\ switch = RELEASED
    /\ padTask = "read" /\ armed = TRUE /\ overdue = 0
    /\ gestures = <<>> /\ presses = 0 /\ since = 0

PadNext ==
    \/ Touch \/ Edge \/ PadTick \/ Poll \/ Arm \/ Elsewhere \/ AnotherGesture
    \/ drain

PadSpec == PadInit /\ [][PadNext]_padVars

-----------------------------------------------------------------------------
(* The types of the state: the channel holds PadQueue gestures, a repeat   *)
(* is scheduled for a direction only.                                      *)
PadTypeOK ==
    /\ {direction, finger, contact, armed} \subseteq BOOLEAN
    /\ bouncing \in 0..Bounce /\ overdue \in 0..Late
    /\ switch \in [settled : BOOLEAN, raw : BOOLEAN, unstable : BOOLEAN,
                   age : 0..Debounce, next : ((-Late)..Delay) \cup {Never}]
    /\ switch.next # Never => direction /\ switch.settled
    /\ padTask \in {"read", "arm", "asleep"}
    /\ gestures \in Seq({"Press", "Repeat", "Other"}) /\ Len(gestures) <= PadQueue
    /\ {presses, since} \subseteq Nat

(* However the contact bounces and however late the task, one touch of the *)
(* switch is one press at most (Switch::level and poll).                   *)
OnePressPerTouch == presses <= 1

(* A held direction stops when the finger goes: one more repeat at most is *)
(* reported once the contact is open, a release the pin waits missed       *)
(* included (the header of src/pad.rs, on doing things after the finger    *)
(* has left).                                                              *)
OneAfterTheFinger == since <= 1

(* Each poll leaves the deadline in the future: the task does not go round *)
(* without sleeping (Pad::deadline and the select over it).                *)
PollMovesTheDeadline == padTask = "arm" => ~DeadlineIn(switch)

(* A direction whose finger has gone is believed released in the end, even *)
(* when the edge fell between the read and the arm: the repeat's deadline  *)
(* has the pins read again.  (OK and Back, that do not repeat, have no     *)
(* such deadline, and are left believed pressed until another edge.)       *)
RepeatsEnd == []<>(direction /\ ~finger => ~switch.settled)

(* What a touch of a switch comes to: at most one press, repeats while and  *)
(* only while the finger is there, and a task that sleeps in between.       *)
PadCorrect ==
    PadTypeOK /\ OnePressPerTouch /\ OneAfterTheFinger /\ PollMovesTheDeadline
=============================================================================
