------------------------------ MODULE MCBoard -------------------------------
(***************************************************************************)
(* The tasks of the board around the modem and the node, together: the     *)
(* pad, the screen, the GPS, the battery, the buzzer, the log on USB, the  *)
(* start of the firmware, and the two bring-up images of the flash chip    *)
(* and of the radio.                                                       *)
(*                                                                         *)
(* They share no variable, as the tasks share none: what passes between    *)
(* them passes through channels whose two ends are in the one module or    *)
(* the other.  So nothing is gained by interleaving them, and a behaviour  *)
(* of this module moves one of them, chosen at the start, while the others *)
(* keep their initial state.                                               *)
(***************************************************************************)
EXTENDS Pad, Glass, GpsPower, Nmea, Battery, Buzzer, HostLog, Startup, Flash, Bench

VARIABLE part   \* the one that moves

Parts == {"pad", "glass", "gps", "nmea", "battery", "buzzer", "log", "startup",
          "flash", "bench"}

boardVars == <<part, padVars, glassVars, gpsVars, nmeaVars, batteryVars,
               buzzerVars, hostLogVars, startupVars, flashVars, benchVars>>

\* A part that does not move has one initial state.
Resting ==
    /\ part = "pad" \/ ~direction
    /\ part = "gps" \/ (lever = <<FALSE, FALSE>> /\ talks = 0)
    /\ part = "startup" \/ image = "rnode"
    /\ part = "flash" \/ doing = "wake"
    /\ part = "bench" \/ board = [pin |-> "follows", part |-> "LR1121", line |-> "free"]

Init ==
    /\ part \in Parts
    /\ PadInit /\ GlassInit /\ GpsInit /\ NmeaInit /\ BatteryInit /\ BuzzerInit
    /\ HostLogInit /\ StartupInit /\ FlashInit /\ BenchInit
    /\ Resting

Others(p) ==
    /\ part = p /\ UNCHANGED part
    /\ IF p = "pad" THEN TRUE ELSE UNCHANGED padVars
    /\ IF p = "glass" THEN TRUE ELSE UNCHANGED glassVars
    /\ IF p = "gps" THEN TRUE ELSE UNCHANGED gpsVars
    /\ IF p = "nmea" THEN TRUE ELSE UNCHANGED nmeaVars
    /\ IF p = "battery" THEN TRUE ELSE UNCHANGED batteryVars
    /\ IF p = "buzzer" THEN TRUE ELSE UNCHANGED buzzerVars
    /\ IF p = "log" THEN TRUE ELSE UNCHANGED hostLogVars
    /\ IF p = "startup" THEN TRUE ELSE UNCHANGED startupVars
    /\ IF p = "flash" THEN TRUE ELSE UNCHANGED flashVars
    /\ IF p = "bench" THEN TRUE ELSE UNCHANGED benchVars

Next ==
    \/ part = "pad" /\ PadNext /\ Others("pad")
    \/ part = "glass" /\ GlassNext /\ Others("glass")
    \/ part = "gps" /\ GpsNext /\ Others("gps")
    \/ part = "nmea" /\ NmeaNext /\ Others("nmea")
    \/ part = "battery" /\ BatteryNext /\ Others("battery")
    \/ part = "buzzer" /\ BuzzerNext /\ Others("buzzer")
    \/ part = "log" /\ HostLogNext /\ Others("log")
    \/ part = "startup" /\ StartupNext /\ Others("startup")
    \/ part = "flash" /\ FlashNext /\ Others("flash")
    \/ part = "bench" /\ BenchNext /\ Others("bench")

-----------------------------------------------------------------------------
(* The fairness each part's scheduling gives it: an executor that runs      *)
(* every task woken, timers that ring, interrupts that are taken.  A part   *)
(* that does not move owes nothing.                                         *)

\* Time passes though the finger moves; the timer rings between the bursts of
\* the module, however closely they come.
Ticks ==
    \/ part = "pad" /\ PadTick /\ UNCHANGED gpsVars
    \/ part = "gps" /\ (OnTick \/ OffTick) /\ UNCHANGED padVars

\* A woken task runs.
PadFair == WF_padVars(part = "pad" /\ (Poll \/ Arm))

\* The loop goes round.
GlassFair == WF_glassVars(part = "glass" /\ Pass)

\* The GPS is switched at once when it is asked to be, and a module that talks
\* is read.
GpsFair ==
    /\ WF_gpsVars(part = "gps" /\ OnAtOnce)
    /\ SF_gpsVars(part = "gps" /\ ReadSentence)

\* The pump's task runs, its timers ring, and a host that polls, collects.
LogFair ==
    /\ WF_hostLogVars(part = "log" /\ (Connected \/ Shut \/ TimedOut \/ Refused \/ Waits))
    /\ WF_hostLogVars(part = "log" /\ TakeChunk /\ pump' = "send")
    /\ WF_hostLogVars(part = "log" /\ (Collected \/ CollectedEnd))

\* An interrupt that is raised is taken: CLOCK_POWER, and the guard's timer.
StartupFair ==
    /\ WF_startupVars(part = "startup" /\ Handler)
    /\ WF_startupVars(part = "startup" /\ StallCapture)

Fairness ==
    /\ SF_<<padVars, gpsVars>>(Ticks)
    /\ PadFair /\ GlassFair /\ GpsFair /\ LogFair /\ StartupFair
    /\ WF_batteryVars(part = "battery" /\ ReadCell)
    /\ WF_buzzerVars(part = "buzzer" /\ (Begin \/ Over))
    /\ WF_benchVars(part = "bench" /\ BenchStep)

Spec == Init /\ [][Next]_boardVars /\ Fairness

-----------------------------------------------------------------------------
(* What a person handles, sees and hears: a touch is one press, the glass   *)
(* shows what was drawn, the charge shown follows the cell, and no sound is *)
(* made unasked.                                                            *)
HandsCorrect == PadCorrect /\ GlassCorrect /\ BatteryCorrect /\ BuzzerCorrect

(* What bytes are made of: a stream of sentences with losses in it, and a   *)
(* flash chip used awake and believed right only when whole.               *)
BytesCorrect == NmeaCorrect /\ FlashCorrect

(* What the firmware and the bring-up image of the radio learn of the board *)
(* is so: a start goes by the last runs and by the detector's level, and a *)
(* step called proved has its evidence.                                    *)
BringUpCorrect ==
    [](StartupCorrect /\ BenchCorrect) /\ ProvedIsRouted /\ LimitGoesWithIt

(* None of the tasks stops for good: a repeat ends with the finger, a page *)
(* drawn is sent, the charge settles, a sound is made, the GPS is found    *)
(* and switched, a reader gets the log, and a start gets out of interrupts,*)
(* of a spin and of a bring-up.                                            *)
TasksGoOn ==
    /\ RepeatsEnd /\ ShownInTheEnd /\ SettlesOnTheCell /\ EverySoundIsHeard
    /\ SwitchObeyed /\ ProbeFinds /\ ReaderGetsTheLog
    /\ LineGoesLow /\ SpinIsLeft /\ ReachesTheConsole

-----------------------------------------------------------------------------
(* A panel of four columns and three pages, a battery around a step of its *)
(* table, and a calendar walked across a leap year, the last year of the   *)
(* module's two digits, and the ordinary year before them.                 *)
MCScreens == {{<<0, 0>>, <<1, 5>>}, {<<2, 3>>}}
MCCounts == {-3, 2730, 2742, 2790}
MCFirstDays == {<<2000, 10957>>, <<2099, 47117>>, <<1999, 10592>>}
=============================================================================
