-------------------------------- MODULE Bench --------------------------------
(***************************************************************************)
(* The radio bring-up image (src/bin/radio.rs): the LR1121 brought up in   *)
(* steps, each behind the evidence of the one before, and then a console   *)
(* whose keys key a carrier, restart the radio, transmit and listen.       *)
(*                                                                         *)
(* The chip is what the image sees of it: BUSY, the version it answers,    *)
(* its mode, and what a reset clears.  A command may be refused, or leave  *)
(* BUSY high for good; the console is one task, so a key is one step.      *)
(***************************************************************************)
EXTENDS Integers, Sequences

CONSTANTS
    Burst,      \* CW_MAX_BURST_MS, in wakes of the console
    TopStep,    \* the steps of FREQUENCY_STEP_HZ across a band
    MaxRefused,  \* bound: commands that fail
    MaxPressed  \* bound: keys

ASSUME BenchAssumption ==
    {Burst, MaxRefused, MaxPressed} \subseteq Nat /\ TopStep \in Nat \ {0}

VARIABLES
    board,      \* [pin, part, line]: how BUSY behaves, which chip answers,
                \* and whether P1.08 is stuck high
    step,       \* where the bring-up has got to
    verdict,    \* ResetVerdict::of
    attached,   \* the console has a radio
    wedged,     \* BUSY is high for good
    mode,       \* the chip's: "standby" or "carrier"
    typed,      \* it has a packet type
    told,       \* SetTcxoMode has run since its reset
    calibrated, \* and Calibrate since that
    switched,   \* SetDioAsRfSwitch has run
    routed,     \* DIO9 has its mask
    converter,  \* the DC-DC converter is selected
    limit,      \* cw_until: wakes left, or -1
    cfg,        \* [band, step, dbm] of the RadioConfig
    follows,    \* the last `j` said that the line follows the chip
    radioFaults, pressed

benchVars == <<board, step, verdict, attached, wedged, mode, typed, told,
               calibrated, switched, routed, converter, limit, cfg, follows,
               radioFaults, pressed>>

chip == <<mode, typed, told, calibrated, switched, routed, converter>>

Steps == {"terminal", "reset", "version", "attach", "regulator", "tcxo", "switch",
          "irq", "console"}
POWER_LADDER == <<-17, -10, 0, 7, 14, 17, 20>>
DEFAULT == [band |-> "sub", step |-> TopStep \div 2, dbm |-> 14]
BENCH_2G4 == [band |-> "2g4", step |-> TopStep, dbm |-> 11]
LONG_FAST == [DEFAULT EXCEPT !.step = 1]

-----------------------------------------------------------------------------
(* A command, with a timeout round it *)

Served == ~wedged /\ UNCHANGED <<wedged, radioFaults>>

Failed ==
    \/ wedged /\ UNCHANGED <<wedged, radioFaults>>
    \/ /\ ~wedged /\ radioFaults < MaxRefused
       /\ radioFaults' = radioFaults + 1 /\ wedged' \in BOOLEAN

\* What a sequence that failed on the way leaves: x, or what it was.
Perhaps(x, old) == IF wedged THEN {old} ELSE {x, old}

\* Standby RC: nothing is transmitted.
Standby == mode' = "standby"

-----------------------------------------------------------------------------
(* The bring-up *)

NextStep(from, to) ==
    /\ step = from /\ step' = to
    /\ UNCHANGED <<board, cfg, limit, follows, pressed>>

Terminal == NextStep("terminal", "reset") /\ UNCHANGED <<verdict, attached, wedged, radioFaults>> /\ UNCHANGED chip

\* ResetVerdict::of: BUSY seen high and low, only low, or never low
VerdictOf(rose, fell) ==
    IF ~fell THEN "Failed" ELSE IF rose THEN "Ready" ELSE "Inconclusive"

\* cycle; a startup may end before the first sample.
ResetRadio ==
    /\ \E rose \in BOOLEAN :
          /\ (board.pin = "low") => ~rose
          /\ (board.pin = "high") => rose
          /\ verdict' = VerdictOf(rose, board.pin # "high")
    /\ NextStep("reset", IF verdict' = "Failed" THEN "console" ELSE "version")
    /\ UNCHANGED <<attached, wedged, radioFaults>> /\ UNCHANGED chip

\* Mutation: any reply is good enough.
Expected_Any(reply) == reply # "nothing"

\* VersionVerdict::is_expected
Expected(reply) == reply = "LR1121"

\* probe_version: a reply read while the chip is busy is not one.
Version ==
    /\ \E reply \in IF board.pin = "low" THEN {"nothing", "noise"} ELSE {board.part} :
          \/ NextStep("version", "attach") /\ Expected(reply)
          \/ NextStep("version", "console") /\ ~Expected(reply)
    /\ UNCHANGED <<verdict, attached, wedged, radioFaults>> /\ UNCHANGED chip

\* The probe's own waits run out.
VersionFails ==
    /\ NextStep("version", "console")
    /\ Failed
    /\ UNCHANGED <<verdict, attached>> /\ UNCHANGED chip

\* Lr11xx::new, without a timeout
AttachDriver ==
    /\ Served
    /\ NextStep("attach", "regulator")
    /\ attached' = TRUE
    /\ UNCHANGED verdict /\ UNCHANGED chip

AttachFails ==
    /\ ~wedged /\ Failed
    /\ NextStep("attach", IF wedged' THEN "attach" ELSE "console")
    /\ UNCHANGED <<verdict, attached>> /\ UNCHANGED chip

Same == UNCHANGED <<board, verdict, attached>>
BenchKeyed == step = "console" /\ pressed < MaxPressed /\ pressed' = pressed + 1 /\ UNCHANGED step

\* Mutation: the converter is chosen in whatever mode the chip is in.
InStandby_AsItIs == UNCHANGED mode

\* SetRegMode is taken only in standby RC.
InStandby == Standby

\* set_regulator
SetRegulator(dcdc) ==
    \/ Served /\ InStandby /\ converter' = (IF mode' = "standby" THEN dcdc ELSE converter)
    \/ Failed /\ mode' \in Perhaps("standby", mode) /\ converter' = converter

Regulator ==
    /\ NextStep("regulator", "tcxo")
    /\ SetRegulator(TRUE)
    /\ UNCHANGED <<verdict, attached, typed, told, calibrated, switched, routed>>

\* Mutation: the errors alone are read, which the calibration has cleared.
Believed_Errors(errors, plausible) == ~errors

\* errors clear, and GetTemp plausible
Believed(errors, plausible) == ~errors /\ plausible

(* start_tcxo: a stopped oscillator may leave no error, and always an      *)
(* absurd temperature.                                                     *)
StartTcxo(useTcxo, good, bad) ==
    \/ /\ Served
       /\ told' = (told \/ useTcxo)
       /\ calibrated' = (told' /\ mode = "standby")
       /\ \E errors \in BOOLEAN :
             /\ calibrated' => ~errors
             /\ IF Believed(errors, calibrated') THEN good ELSE bad
    \/ /\ Failed /\ bad
       /\ told' \in Perhaps(told \/ useTcxo, told) /\ UNCHANGED calibrated

\* Mutation: the sequence has no timeout round it.
GivenUp_Never == step' = IF wedged' THEN "tcxo" ELSE "console"

GivenUp == step' = "console"

Tcxo ==
    /\ step = "tcxo"
    /\ StartTcxo(TRUE, step' = "switch", GivenUp)
    /\ UNCHANGED <<board, cfg, limit, follows, pressed, verdict, attached, mode,
                   typed, switched, routed, converter>>

RfSwitch ==
    /\ NextStep("switch", "irq")
    /\ \/ Served /\ switched' = TRUE
       \/ Failed /\ switched' \in Perhaps(TRUE, switched)
    /\ UNCHANGED <<verdict, attached, mode, typed, told, calibrated, routed, converter>>

\* route_interrupts
Route(mask) ==
    \/ Served /\ routed' = mask
    \/ Failed /\ routed' \in Perhaps(mask, routed)

Irq ==
    /\ NextStep("irq", "console")
    /\ Route(TRUE)
    /\ UNCHANGED <<verdict, attached, mode, typed, told, calibrated, switched, converter>>

-----------------------------------------------------------------------------
(* The console *)

\* ValidConfig::new of what the keys can make
Usable(c) == c.dbm <= (IF c.band = "sub" THEN 20 ELSE 11)
Shifted(c, offset) == c.step + offset \in 0..TopStep

\* `1` `2` `3` `v` `n`: start_cw; what comes after SetTxCw may fail too.
StartCw ==
    /\ BenchKeyed /\ attached
    /\ \/ Served /\ mode' = "carrier" /\ typed' = TRUE /\ limit' = Burst
       \/ /\ Failed /\ UNCHANGED limit
          /\ \E reached \in BOOLEAN :
                /\ wedged => ~reached
                /\ IF reached THEN mode' = "carrier" /\ typed' = TRUE
                   ELSE UNCHANGED mode /\ typed' \in Perhaps(TRUE, typed)
    /\ Same
    /\ UNCHANGED <<told, calibrated, switched, routed, converter, cfg, follows>>

stop_cw ==
    \/ Served /\ Standby
    \/ Failed /\ mode' \in Perhaps("standby", mode)

\* `0` `s`
StopCw ==
    /\ BenchKeyed /\ limit' = -1
    /\ IF attached THEN stop_cw ELSE UNCHANGED <<mode, wedged, radioFaults>>
    /\ Same
    /\ UNCHANGED <<typed, told, calibrated, switched, routed, converter, cfg, follows>>

\* A wake of the loop, every 200 ms at least
WakeRadio ==
    /\ step = "console" /\ limit # -1
    /\ IF limit > 0 THEN limit' = limit - 1 /\ UNCHANGED <<mode, wedged, radioFaults>>
       ELSE limit' = -1 /\ stop_cw
    /\ Same /\ UNCHANGED <<step, pressed>>
    /\ UNCHANGED <<typed, told, calibrated, switched, routed, converter, cfg, follows>>

\* `r` `x` `g`: reinit; after it DIO9 has no mask.
Reinit(useTcxo) ==
    /\ BenchKeyed /\ attached /\ limit' = -1
    /\ \/ /\ Served /\ Standby
          /\ typed' = FALSE /\ routed' = FALSE
          /\ told' = useTcxo /\ calibrated' = useTcxo /\ converter' = TRUE
          /\ \E errors \in BOOLEAN :
                /\ useTcxo => ~errors
                /\ switched' = Believed(errors, useTcxo)
       \/ /\ Failed
          /\ \/ UNCHANGED chip
             \/ /\ ~wedged /\ Standby
                /\ typed' = FALSE /\ routed' = FALSE /\ switched' = FALSE
                /\ told' \in {FALSE, useTcxo} /\ calibrated' = FALSE
                /\ converter' \in BOOLEAN
    /\ Same /\ UNCHANGED <<cfg, follows>>

\* What apply_with and the rest leave: standby, and LoRa
Applied ==
    \/ Served /\ Standby /\ typed' = TRUE
    \/ Failed /\ mode' \in Perhaps("standby", mode) /\ typed' \in Perhaps(TRUE, typed)

\* A configuration that is refused, or an offset out of the band, leaves the
\* chip alone.
Use(offset) ==
    /\ BenchKeyed /\ limit' = -1
    /\ IF attached /\ Usable(cfg) /\ Shifted(cfg, offset) THEN Applied
       ELSE UNCHANGED <<mode, typed, wedged, radioFaults>>
    /\ Same /\ UNCHANGED <<told, calibrated, switched, routed, converter, cfg, follows>>

\* `p`
tx_packet == Use(0)

\* `y`, and `h` and `i` to either side of it
rx_listen == \E offset \in {-1, 0, 1} : Use(offset)

\* `z` `E`: over the plan's offsets; one out of the band is passed over.
rx_sweep == \E offset \in {-1, 1} : Use(offset)

\* `A`
Apply ==
    /\ BenchKeyed /\ attached /\ Usable(cfg)
    /\ Applied
    /\ Same
    /\ UNCHANGED <<told, calibrated, switched, routed, converter, limit, cfg, follows>>

\* `m` `u`
Choose(dcdc) ==
    /\ BenchKeyed /\ attached /\ limit' = -1
    /\ SetRegulator(dcdc)
    /\ Same /\ UNCHANGED <<typed, told, calibrated, switched, routed, cfg, follows>>

\* `k` `l`
RouteKey(mask) ==
    /\ BenchKeyed /\ attached
    /\ Route(mask)
    /\ Same
    /\ UNCHANGED <<mode, typed, told, calibrated, switched, converter, limit, cfg, follows>>

\* Mutation: that it rose is enough.
Follows_Rose(before, rose, after) == rose

\* provoke_irq: low when cleared, high when provoked, low when cleared again
Follows(before, rose, after) == ~before /\ rose /\ ~after

\* The flag SetTxCw latches when it is refused, seen on P1.08
IrqHigh(flagged) == board.line = "stuck" \/ (routed /\ flagged)

\* `j`: with a packet type SetTxCw is not refused.
provoke_irq ==
    /\ BenchKeyed /\ attached
    /\ \/ /\ Served
          /\ follows' = Follows(IrqHigh(FALSE), IrqHigh(~typed), IrqHigh(FALSE))
          /\ mode' = IF typed /\ ~IrqHigh(FALSE) THEN "carrier" ELSE mode
       \/ /\ Failed /\ follows' = FALSE
          /\ mode' \in Perhaps(IF typed THEN "carrier" ELSE mode, mode)
    /\ Same
    /\ UNCHANGED <<typed, told, calibrated, switched, routed, converter, limit, cfg>>

\* The next of the ladder, or its first
NextPower(dbm) ==
    LET at == {i \in 1..Len(POWER_LADDER) : POWER_LADDER[i] = dbm}
    IN  IF at = {} THEN POWER_LADDER[1]
        ELSE POWER_LADDER[((CHOOSE i \in at : TRUE) % Len(POWER_LADDER)) + 1]

\* Mutation: the frequency key does not stop at the band's edge.
StepDown_Wrapping(c) == [c EXCEPT !.step = @ - 1]

StepDown(c) == [c EXCEPT !.step = IF @ > 0 THEN @ - 1 ELSE 0]

StepUp(c) == [c EXCEPT !.step = IF @ < TopStep THEN @ + 1 ELSE TopStep]

\* edit_config
Edit ==
    /\ BenchKeyed
    /\ cfg' \in {[cfg EXCEPT !.dbm = NextPower(@)], StepDown(cfg), StepUp(cfg), DEFAULT,
                 BENCH_2G4, LONG_FAST}
    /\ Same /\ UNCHANGED chip /\ UNCHANGED <<wedged, limit, follows, radioFaults>>

BenchBoards ==
    [pin : {"follows", "low", "high"}, part : {"LR1121", "LR1120", "nothing"},
     line : {"free", "stuck"}]

BenchInit ==
    /\ board \in BenchBoards /\ step = "terminal" /\ verdict = "none"
    /\ attached = FALSE /\ wedged = FALSE /\ mode = "standby" /\ typed = FALSE
    /\ told = FALSE /\ calibrated = FALSE /\ switched = FALSE /\ routed = FALSE
    /\ converter = FALSE /\ limit = -1 /\ cfg = DEFAULT /\ follows = FALSE
    /\ radioFaults = 0 /\ pressed = 0

BenchStep ==
    \/ Terminal \/ ResetRadio \/ Version \/ VersionFails \/ AttachDriver \/ AttachFails
    \/ Regulator \/ Tcxo \/ RfSwitch \/ Irq

BenchKey ==
    \/ StartCw \/ StopCw \/ Apply \/ provoke_irq \/ Edit
    \/ tx_packet \/ rx_listen \/ rx_sweep
    \/ \E on \in BOOLEAN : Reinit(on) \/ Choose(on) \/ RouteKey(on)

BenchNext == BenchStep \/ BenchKey \/ WakeRadio

BenchSpec == BenchInit /\ [][BenchNext]_benchVars

-----------------------------------------------------------------------------
(* The types of the state; an edit stays in the band it is in. *)
BenchTypeOK ==
    /\ board \in BenchBoards /\ step \in Steps
    /\ {attached, wedged, typed, told, calibrated, switched, routed, converter,
        follows} \subseteq BOOLEAN
    /\ mode \in {"standby", "carrier"} /\ limit \in -1..Burst
    /\ cfg.band \in {"sub", "2g4"} /\ cfg.step \in 0..TopStep
    /\ radioFaults \in 0..MaxRefused /\ pressed \in 0..MaxPressed

(* The driver, which waits for BUSY without a limit, is given the pins of  *)
(* an LR1121 that BUSY follows, and no other (ResetVerdict, probe_version, *)
(* VersionVerdict).                                                        *)
AttachedIsTheChip ==
    attached => (board.pin = "follows" /\ board.part = "LR1121" /\ verdict # "Failed")

(* The antenna switch is configured only on a chip whose oscillator runs,  *)
(* though a stopped one may report no error (start_tcxo, reinit).          *)
SwitchedWhenRunning == switched => (told /\ calibrated)

(* `j` says that P1.08 follows the chip only of a line that is routed and  *)
(* not stuck (provoke_irq).                                                *)
ProvedIsRouted ==
    [][follows' /\ pressed' # pressed /\ ~follows => routed /\ board.line = "free"]_benchVars

(* A carrier's limit is given up only with the carrier, but when the chip  *)
(* fails, or the configuration asked for is refused (console).             *)
LimitGoesWithIt ==
    [][(limit # -1 /\ limit' = -1 /\ radioFaults = 0 /\ radioFaults' = 0 /\ mode = "carrier"
            /\ Usable(cfg) /\ cfg.step \notin {0, TopStep})
       => mode' # "carrier"]_benchVars

InConsole == step = "console" \/ (step = "attach" /\ wedged)

(* The image gets to its console, whatever the chip does but one thing: it *)
(* leaves BUSY high while the driver attaches (main's bring_up).           *)
ReachesTheConsole == []<>(step # "terminal" => InConsole)

(* A carrier has a limit the console enforces: none outlives what asked    *)
(* for it (the comment in console, src/bin/radio.rs).                      *)
CarrierHasALimit ==
    (step = "console" /\ radioFaults = 0 /\ mode = "carrier") => limit # -1

(* The bench attaches to the chip only, and switches the antenna of one that *)
(* runs (bring_up, start_tcxo).                                             *)
BenchCorrect == BenchTypeOK /\ AttachedIsTheChip /\ SwitchedWhenRunning
=============================================================================
