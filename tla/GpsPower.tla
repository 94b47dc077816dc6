------------------------------ MODULE GpsPower ------------------------------
(***************************************************************************)
(* The GPS task (src/gps.rs): it follows the three-way switch and the      *)
(* menu (Control, core/src/gps.rs; Mode::decode, core/src/pad.rs), powers  *)
(* the module, looks for the pin and the rate it talks at, and publishes   *)
(* for the screen what the receiver says of itself.  What the sentences    *)
(* say is Nmea.                                                            *)
(*                                                                         *)
(* Time is in ticks of TICK.  The tick of a listening task is one in which *)
(* nothing arrived: bytes that come closer together than TICK put it off.  *)
(***************************************************************************)
EXTENDS Naturals

CONSTANTS
    Attempts,       \* how many pairs of pin order and rate there are
    Window,         \* PROBE_WINDOW_MS
    Silent,         \* SILENT_AFTER_MS
    Stale,          \* FIX_STALE_AFTER_MS
    Unheard,        \* no sentence, no fix, the switch not read
    MaxMoves,       \* bound: movements of the switch
    MaxToggles      \* bound: GPS On/Off chosen on the menu

ASSUME GpsAssumption ==
    /\ Attempts \in Nat \ {0}
    /\ {Window, Silent, Stale, MaxMoves, MaxToggles} \subseteq Nat
    /\ Unheard \notin Nat

VARIABLES
    lever,      \* the switch: its two lines, <<P1.09 high, P0.12 high>>
    control,    \* Control: [on, switch]
    signalled,  \* TOGGLE
    gpsOn,      \* the load switch is high and the task is listening
    attempt,    \* the one the UART is open on
    waited,     \* ticks since it was opened
    heardAge,   \* ticks since Receiver::heard_at
    fixAge,     \* ticks since Receiver::fix_at
    shown,      \* POSITION's status
    talks,      \* the attempt the module can be heard at, 0 for no module
    located,    \* a fix was read since the power went on
    moves, toggles

gpsVars == <<lever, control, signalled, gpsOn, attempt, waited, heardAge,
             fixAge, shown, talks, located, moves, toggles>>

-----------------------------------------------------------------------------
(* The switch and the menu *)

decode(l) ==
    CASE l = <<TRUE, FALSE>> -> "PowerOn"
      [] l = <<FALSE, TRUE>> -> "GpsOn"
      [] l = <<FALSE, FALSE>> -> "Neither"
      [] l = <<TRUE, TRUE>> -> "Invalid"

\* Mutation: the switch is compared with the state it asks for only.
Switched_Always(c) ==
    LET mode == decode(lever)
    IN  [c EXCEPT !.switch = mode,
            !.on = IF mode \in {"GpsOn", "PowerOn"} THEN mode = "GpsOn" ELSE @]

\* Control::switch: followed when it moves, and not between its positions
Switched(c) ==
    LET mode == decode(lever)
    IN  IF mode = c.switch THEN c
        ELSE [c EXCEPT !.switch = mode,
                !.on = IF mode \in {"GpsOn", "PowerOn"} THEN mode = "GpsOn" ELSE @]

\* Control::toggle
Toggled(c) == [c EXCEPT !.on = ~@]

-----------------------------------------------------------------------------
(* The receiver, as the task sees it *)

\* Mutation: the receiver keeps what it heard.
power_Keeps == UNCHANGED <<heardAge, fixAge>>

\* Receiver::power: everything is forgotten
power == heardAge' = Unheard /\ fixAge' = Unheard

heard == heardAge # Unheard

Older(age, n) == IF age = Unheard THEN Unheard ELSE age + n

\* Receiver::position, its status
StatusOf(h, f) ==
    CASE h = Unheard -> "Silent"
      [] h # Unheard /\ h >= Silent -> "Silent"
      [] OTHER -> IF f # Unheard /\ f < Stale THEN "Fix" ELSE "Searching"

\* Ages past the limits are all one.
Capped(age) == IF age # Unheard /\ age > Silent + Stale THEN Silent + Stale
                                                        ELSE age

Ages(n) ==
    /\ heardAge' = Capped(Older(heardAge, n))
    /\ fixAge' = Capped(Older(fixAge, n))

-----------------------------------------------------------------------------
(* The module, the switch and the menu's side *)

Move ==
    /\ moves < MaxMoves
    /\ moves' = moves + 1
    /\ lever' \in (BOOLEAN \X BOOLEAN) \ {lever}
    /\ UNCHANGED <<control, signalled, gpsOn, attempt, waited, heardAge,
                   fixAge, shown, talks, located, toggles>>

\* gps::toggle: a second one before the task looks is the same one
toggle ==
    /\ toggles < MaxToggles
    /\ toggles' = toggles + 1
    /\ signalled' = TRUE
    /\ UNCHANGED <<lever, control, gpsOn, attempt, waited, heardAge, fixAge,
                   shown, talks, located, moves>>

-----------------------------------------------------------------------------
(* The task *)

Listen ==
    /\ gpsOn' = TRUE /\ attempt' = 1 /\ waited' = 0
    /\ power /\ shown' = "Silent" /\ located' = FALSE

StayOff ==
    /\ Ages(1)
    /\ UNCHANGED <<gpsOn, attempt, waited, shown, located>>

Cut ==
    /\ gpsOn' = FALSE /\ attempt' = 1 /\ waited' = 0
    /\ power /\ shown' = "Off" /\ located' = FALSE

\* Off, the tick: the switch is read.
OffTick ==
    /\ ~gpsOn
    /\ control' = Switched(control)
    /\ IF control'.on THEN Listen ELSE StayOff
    /\ UNCHANGED <<lever, signalled, talks, moves, toggles>>

OffToggle ==
    /\ ~gpsOn /\ signalled
    /\ signalled' = FALSE
    /\ control' = Toggled(control)
    /\ IF control'.on THEN Listen ELSE StayOff
    /\ UNCHANGED <<lever, talks, moves, toggles>>

\* Bytes, on the terms the module talks at: a sentence, with a fix or
\* without.  n ticks have passed since the task last went round.
ReadSentence ==
    /\ gpsOn /\ talks = attempt
    /\ \E fix \in BOOLEAN, n \in {0, 1} :
        /\ heardAge' = 0
        /\ fixAge' = IF fix THEN 0 ELSE Capped(Older(fixAge, n))
        /\ located' = (located \/ fix)
        /\ shown' = StatusOf(heardAge', fixAge')
        /\ waited' = IF waited > Window THEN waited ELSE waited + n
    /\ UNCHANGED <<lever, control, signalled, gpsOn, attempt, talks, moves, toggles>>

\* Bytes that make no sentence, or that were lost in the ring
ReadNoise ==
    /\ gpsOn /\ talks # 0
    /\ \E n \in {0, 1} :
        /\ Ages(n)
        /\ waited' = IF waited > Window THEN waited ELSE waited + n
    /\ shown' = StatusOf(heardAge', fixAge')
    /\ UNCHANGED <<lever, control, signalled, gpsOn, attempt, talks, located,
                   moves, toggles>>

\* Mutation: after the other pin order there is none.
Following_Stops(a) == IF a < Attempts THEN a + 1 ELSE a

\* Mutation: the walk does not start over.
Following_Beyond(a) == a + 1

\* attempts, over and over
Following(a) == IF a < Attempts THEN a + 1 ELSE 1

\* Mutation: a listening task looks at the switch only between attempts.
Look_Probing(c) == IF heard THEN c ELSE Switched(c)

Look(c) == Switched(c)

\* On, the tick: the switch moved to Power ON ends it; an attempt that has
\* heard nothing for its window gives way to the next.
OnTick ==
    /\ gpsOn
    /\ control' = Look(control)
    /\ CASE control'.on # control.on /\ ~control'.on -> Cut
         [] OTHER ->
            IF ~heard /\ waited + 1 > Window
            THEN /\ attempt' = Following(attempt) /\ waited' = 0
                 /\ power
                 /\ UNCHANGED <<gpsOn, shown, located>>
            ELSE /\ waited' = IF waited > Window THEN waited ELSE waited + 1
                 /\ Ages(1) /\ shown' = StatusOf(heardAge', fixAge')
                 /\ UNCHANGED <<gpsOn, attempt, located>>
    /\ UNCHANGED <<lever, signalled, talks, moves, toggles>>

OnToggle ==
    /\ gpsOn /\ signalled
    /\ signalled' = FALSE
    /\ control' = Toggled(control)
    /\ IF control'.on
       THEN /\ Ages(0) /\ shown' = StatusOf(heardAge', fixAge')
            /\ UNCHANGED <<gpsOn, attempt, waited, located>>
       ELSE Cut
    /\ UNCHANGED <<lever, talks, moves, toggles>>

\* serve: the switch is read once before anything else.
GpsInit ==
    /\ lever \in BOOLEAN \X BOOLEAN
    /\ control = Switched([on |-> FALSE, switch |-> Unheard])
    /\ signalled = FALSE
    /\ gpsOn = FALSE /\ attempt = 1 /\ waited = 0
    /\ heardAge = Unheard /\ fixAge = Unheard /\ shown = "Off"
    /\ talks \in 0..Attempts
    /\ located = FALSE /\ moves = 0 /\ toggles = 0

\* The off loop is not entered by a control that is on.
OnAtOnce ==
    /\ ~gpsOn /\ control.on
    /\ Listen
    /\ UNCHANGED <<lever, control, signalled, talks, moves, toggles>>

GpsNext ==
    \/ Move \/ toggle \/ OnAtOnce
    \/ ~control.on /\ (OffTick \/ OffToggle)
    \/ ReadSentence \/ ReadNoise \/ OnTick \/ OnToggle

GpsSpec == GpsInit /\ [][GpsNext]_gpsVars

-----------------------------------------------------------------------------
(* The types of the state. *)
GpsTypeOK ==
    /\ lever \in BOOLEAN \X BOOLEAN
    /\ control \in [on : BOOLEAN,
            switch : {"PowerOn", "GpsOn", "Neither", "Invalid", Unheard}]
    /\ {signalled, gpsOn, located} \subseteq BOOLEAN
    /\ gpsOn => control.on
    /\ attempt \in 1..Attempts /\ talks \in 0..Attempts
    /\ waited \in 0..(Window + 1)
    /\ {heardAge, fixAge} \subseteq 0..(Silent + Stale) \cup {Unheard}
    /\ shown \in {"Off", "Silent", "Searching", "Fix"}
    /\ moves \in 0..MaxMoves /\ toggles \in 0..MaxToggles

(* The screen says the board has a fix only when the module said so since  *)
(* it was last powered: nothing of an earlier power-on is shown as where   *)
(* the board is now (Receiver::power, POSITION).                           *)
FixIsThisPowers == shown = "Fix" => gpsOn /\ located

(* What the menu chose stands until the switch is moved: the receiver's    *)
(* power changes with a toggle, or with the first look at a switch that is *)
(* somewhere else than at the last look (Control::switch).                 *)
ChoiceStands ==
    [][control'.on # control.on =>
            (signalled /\ ~signalled') \/ decode(lever) # control.switch]_gpsVars

(* Without the menu the power is where the switch says in the end, while   *)
(* probing and while listening; it needs a gap between the module's bytes, *)
(* for the switch is looked at only in one.                                *)
SwitchObeyed ==
    /\ []<>(toggles = 0 /\ decode(lever) = "PowerOn" => ~gpsOn)
    /\ []<>(toggles = 0 /\ decode(lever) = "GpsOn" => gpsOn)

(* A module that talks is heard in the end, whichever pin and rate it      *)
(* talks at and however late it starts, if it is left powered.             *)
ProbeFinds == []<>(gpsOn /\ talks # 0 => heard)

(* The receiver is powered as it was last asked to be, and believed for     *)
(* this power-on only.                                                      *)
GpsCorrect == [](GpsTypeOK /\ FixIsThisPowers) /\ ChoiceStands
=============================================================================
