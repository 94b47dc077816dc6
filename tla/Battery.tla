------------------------------- MODULE Battery -------------------------------
(***************************************************************************)
(* The cell as the screen shows it: the ADC's count undone through the     *)
(* divider, the state of charge by the table (core/src/battery.rs), and    *)
(* the average that is shown only when it has moved (Smoothed, fed by      *)
(* Sense::read of src/battery.rs at each redraw).                          *)
(***************************************************************************)
EXTENDS Integers, Sequences

CONSTANTS
    Counts,     \* the counts the ADC may read, a cell or none
    DeadBand,   \* DEAD_BAND_MV
    Scale,      \* SCALE
    NoCell,     \* None
    MaxChanges  \* bound: changes of the count

OCV_MV == <<4050, 4010, 3990, 3930, 3870, 3820, 3740, 3630, 3550, 3450, 3100>>
NO_CELL_BELOW_MV == 2500

ASSUME BatteryAssumption ==
    /\ Counts \subseteq (-2048)..4095 /\ DeadBand \in Nat
    /\ Scale \in Nat \ {0} /\ MaxChanges \in Nat
    /\ NoCell \notin Int /\ NoCell \notin [millivolts : Int, percent : Int]

VARIABLES
    count,      \* what the ADC reads
    average,    \* Smoothed::average, or NoCell
    display,    \* Smoothed::shown, millivolts and percent, or NoCell
    changes,
    ramp        \* a voltage the table is walked at

RampFrom == OCV_MV[11] - 2

batteryVars == <<count, average, display, changes, ramp>>

-----------------------------------------------------------------------------
\* Division towards zero
Quotient(a, b) == IF a >= 0 THEN a \div b ELSE -((-a) \div b)

pin_millivolts(c) == ((IF c < 0 THEN 0 ELSE c) * 3600) \div 4096
cell_millivolts(c) == (pin_millivolts(c) * (806 + 1500)) \div 1500

\* Mutation: a step's line is drawn with the span of the step above it.
StepPercent_Above(i, mv) ==
    LET high == OCV_MV[i]  low == OCV_MV[i + 1]
        span == IF i = 1 THEN high - low ELSE OCV_MV[i - 1] - high
    IN  100 - 10 * (i - 1) - 10 + ((mv - low) * 10 + span \div 2) \div span

\* The straight line between two points of the table, to the nearest
StepPercent(i, mv) ==
    LET high == OCV_MV[i]  low == OCV_MV[i + 1]  span == high - low
    IN  100 - 10 * (i - 1) - 10 + ((mv - low) * 10 + span \div 2) \div span

percent(mv) ==
    LET steps == {i \in 1..10 : mv >= OCV_MV[i + 1]}
    IN  CASE mv >= OCV_MV[1] -> 100
          [] mv < OCV_MV[11] -> 0
          [] OTHER -> StepPercent(CHOOSE i \in steps : \A j \in steps : i <= j, mv)

\* battery::reading, its millivolts
reading(c) ==
    IF cell_millivolts(c) < NO_CELL_BELOW_MV THEN NoCell ELSE cell_millivolts(c)

\* Mutation: the average is kept in whole millivolts.
Closer_Coarse(avg, target) ==
    Scale * (avg \div Scale + Quotient(target \div Scale - avg \div Scale, 4))

\* A quarter of the gap is closed, towards zero.
Closer(avg, target) == avg + Quotient(target - avg, 4)

Distance(a, b) == IF a < b THEN b - a ELSE a - b

\* Mutation: no cell is shown, and the average goes on.
update_Averaged ==
    LET mv == reading(count)
        avg == IF average = NoCell THEN mv * Scale ELSE Closer(average, mv * Scale)
        value == avg \div Scale
    IN  IF mv = NoCell THEN display' = NoCell /\ UNCHANGED average
        ELSE /\ average' = avg
             /\ display' = IF display = NoCell
                              \/ Distance(display.millivolts, value) >= DeadBand
                           THEN [millivolts |-> value, percent |-> percent(value)]
                           ELSE display

\* Smoothed::update: no cell starts it again
update ==
    LET mv == reading(count)
        avg == IF average = NoCell THEN mv * Scale ELSE Closer(average, mv * Scale)
        value == avg \div Scale
    IN  IF mv = NoCell THEN display' = NoCell /\ average' = NoCell
        ELSE /\ average' = avg
             /\ display' = IF \/ display = NoCell
                              \/ Distance(display.millivolts, value) >= DeadBand
                           THEN [millivolts |-> value, percent |-> percent(value)]
                           ELSE display

-----------------------------------------------------------------------------
\* Sense::read
ReadCell ==
    /\ update
    /\ UNCHANGED <<count, changes, ramp>>

\* The cell, the charger or the noise
Changed ==
    /\ changes < MaxChanges /\ ramp = RampFrom
    /\ changes' = changes + 1
    /\ count' \in Counts \ {count}
    /\ UNCHANGED <<average, display, ramp>>

\* Instead, the table is walked a millivolt at a time, to check percent.
Walk ==
    /\ changes = 0 /\ average = NoCell
    /\ ramp < OCV_MV[1]
    /\ ramp' = ramp + 1
    /\ UNCHANGED <<count, average, display, changes>>

BatteryInit ==
    /\ count = 0 /\ average = NoCell /\ display = NoCell /\ changes = 0
    /\ ramp = RampFrom

BatteryNext == ReadCell \/ Changed \/ Walk

BatterySpec == BatteryInit /\ [][BatteryNext]_batteryVars

-----------------------------------------------------------------------------
(* The types of the state: what is shown is a cell's, full to empty. *)
BatteryTypeOK ==
    /\ count \in Counts \cup {0}
    /\ average = NoCell \/ average >= NO_CELL_BELOW_MV * Scale
    /\ \/ display = NoCell
       \/ display.millivolts >= NO_CELL_BELOW_MV /\ display.percent \in 0..100
    /\ (average = NoCell) = (display = NoCell)
    /\ changes \in 0..MaxChanges

(* A higher voltage is never a lower charge, over the joints of the table  *)
(* too, and one millivolt is never more than a few percent (percent).      *)
ChargeIsMonotone ==
    /\ percent(ramp) <= percent(ramp + 1)
    /\ percent(ramp + 1) <= percent(ramp) + 1

\* The screen shows what the ADC reads, to the dead band.
ShowsTheCell ==
    \/ reading(count) = NoCell /\ display = NoCell
    \/ /\ reading(count) # NoCell /\ display # NoCell
       /\ Distance(display.millivolts, reading(count)) <= DeadBand

(* A cell that stays where it is is shown within the dead band in the end: *)
(* the average does not stop short of it, and the band does not hold the   *)
(* screen at an older value (Smoothed::update).                            *)
SettlesOnTheCell == []<>(changes = MaxChanges => ShowsTheCell)

(* The charge shown follows the cell, and never the wrong way.              *)
BatteryCorrect == BatteryTypeOK /\ ChargeIsMonotone
=============================================================================
