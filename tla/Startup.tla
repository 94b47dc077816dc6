------------------------------- MODULE Startup -------------------------------
(***************************************************************************)
(* A start of the board (main of src/bin/rnode.rs and src/bin/ble.rs): the *)
(* verdict of the previous run read from what a reset does not clear       *)
(* (fault and stall, src/ble.rs), the POWER half of an interrupt shared    *)
(* with the radio's clock taken over from the bootloader (Vbus), and the   *)
(* controller brought up under a timer that restarts a board that hangs.   *)
(*                                                                         *)
(* MPSL and the controller are binary: bring_up returns, fails, or never   *)
(* comes back.  Handlers run whenever their line is high, and thread mode  *)
(* only when it is low.  The registers: the latched events, the word of    *)
(* enables, and the vector's mask.                                         *)
(***************************************************************************)
EXTENDS Naturals

CONSTANTS
    MaxRuns,        \* bound: starts
    MaxPlugs        \* bound: cable movements

ASSUME StartupAssumption == {MaxRuns, MaxPlugs} \subseteq Nat

VARIABLES
    image,      \* "rnode", or "bench": src/bin/ble.rs
    stage,      \* where main has got to
    hung,       \* "no", "spinning", or "masked": with interrupts off
    reg2,       \* GPREGRET2
    kept,       \* RECORD, the uninitialised RAM: "noise" or "stall"
    lastFault, lastStall,   \* what main took of them
    ended,      \* how the previous run ended, and in which stage
    cable,      \* the VBUS comparator
    events,     \* latched: "Detected", "Removed", "Clock"
    enables,    \* INTENSET: "Usb", "Clock"
    vector,     \* CLOCK_POWER is unmasked
    detector,   \* SoftwareVbusDetect: a cable is detected
    guarded,    \* TIMER1 is armed
    runs, plugs

startupVars == <<image, stage, hung, reg2, kept, lastFault, lastStall, ended,
                 cable, events, enables, vector, detector, guarded, runs, plugs>>

Early == {"reset", "init", "quiet"}
Stages == Early \cup {"dfu", "status", "unmask", "key", "arm", "mpsl", "sdc",
                      "disarm", "up", "usbOnly"}
Codes == {"NONE", "HARD_FAULT", "UNHANDLED", "BRINGUP"}
USB_INTS == {"Detected", "Removed"}

Enabled(e) == IF e = "Clock" THEN "Clock" \in enables ELSE "Usb" \in enables
LineHigh == vector /\ \E e \in events : Enabled(e)

\* MPSL has initialised: its handler services CLOCK.
Mpsl == stage \in {"sdc", "disarm", "up"}

Thread == ~LineHigh /\ hung = "no"

verdictVars == <<reg2, kept, lastFault, lastStall, ended>>
vbusVars == <<cable, events, enables, vector, detector>>

-----------------------------------------------------------------------------
(* The previous run's verdict *)

\* Mutation: the register is read and left.
Cleared_Not(code) == code

Cleared(code) == "NONE"

\* fault::take and stall::take, before anything else
VbusTake ==
    /\ stage = "reset" /\ Thread
    /\ lastFault' = reg2 /\ reg2' = Cleared(reg2)
    /\ lastStall' = (kept = "stall") /\ kept' = "noise"
    /\ stage' = "init"
    /\ UNCHANGED <<image, hung, ended, guarded, runs, plugs, vbusVars>>

\* A reset of the chip: POWER latches the cable that is there; the registers
\* are the reset's, but for the two kept.  A run that had not read its verdict
\* yet leaves it to the next.
Restart(how, into) ==
    /\ runs < MaxRuns
    /\ runs' = runs + 1
    /\ stage' = into /\ hung' = "no" /\ guarded' = FALSE
    /\ ended' = IF stage = "reset" /\ how # "power" THEN ended
                               ELSE [how |-> how, stage |-> stage]
    /\ events' = IF cable THEN {"Detected"} ELSE {}
    /\ enables' = {} /\ vector' = FALSE /\ detector' = FALSE
    /\ UNCHANGED <<image, lastFault, lastStall, cable, plugs>>

Running == stage \notin {"reset", "dfu"}

\* HardFault and DefaultHandler: record_and_reboot.  A handler runs in the
\* middle of anything, a spin with interrupts off included.
Fault ==
    /\ Running
    /\ \E code \in {"HARD_FAULT", "UNHANDLED"} :
        /\ code = "UNHANDLED" => hung # "masked"
        /\ reg2' = code /\ Restart(code, "dfu")
    /\ UNCHANGED kept

\* The panic handler, and the 1200-baud touch or key that asks for it
Bootloader ==
    /\ Running /\ Thread
    /\ Restart("bootloader", "dfu")
    /\ UNCHANGED <<reg2, kept>>

\* reboot, from the host or the console; the reset button
RestartChip ==
    /\ stage # "dfu"
    /\ Restart("reset", "reset")
    /\ UNCHANGED <<reg2, kept>>

PowerCycle ==
    /\ reg2' = "NONE" /\ kept' = "noise"
    /\ Restart("power", "reset")

\* The bootloader jumps to the application with its own enables and events
\* left, and has used the RAM.
FromDfu ==
    /\ stage = "dfu"
    /\ stage' = "reset"
    /\ enables' = {"Usb", "Clock"} /\ events' = events \cup {"Clock"}
    /\ kept' = "noise"
    /\ UNCHANGED <<image, hung, reg2, lastFault, lastStall, ended, cable,
                   vector, detector, guarded, runs, plugs>>

-----------------------------------------------------------------------------
(* Vbus *)

\* The comparator.  Once the events are cleared a movement comes after the last
\* one was serviced.
Plug ==
    /\ plugs < MaxPlugs
    /\ stage \in Early \cup {"dfu"} \/ events \cap USB_INTS = {}
    /\ plugs' = plugs + 1
    /\ cable' = ~cable
    /\ events' = events \cup {IF cable' THEN "Detected" ELSE "Removed"}
    /\ UNCHANGED <<image, stage, hung, enables, vector, detector, guarded, runs,
                   verdictVars>>

\* embassy_nrf::init starts the clocks and leaves their events.
Init_Clocks ==
    /\ stage = "init" /\ Thread
    /\ stage' = "quiet"
    /\ events' = events \cup {"Clock"}
    /\ UNCHANGED <<image, hung, cable, enables, vector, detector, guarded, runs,
                   plugs, verdictVars>>

\* Mutation: only the POWER half of the word is cleared.
Disabled_Power(w) == w \ {"Usb"}

\* INTENCLR, the whole word
Disabled(w) == {}

\* Vbus::take: enables and events cleared,
ClearEvents ==
    /\ stage = "quiet" /\ Thread
    /\ stage' = "status"
    /\ enables' = Disabled(enables) /\ events' = events \ USB_INTS
    /\ UNCHANGED <<image, hung, cable, vector, detector, guarded, runs, plugs,
                   verdictVars>>

\* the detector seeded from the live register,
ReadStatus ==
    /\ stage = "status" /\ Thread
    /\ stage' = "unmask"
    /\ detector' = cable
    /\ UNCHANGED <<image, hung, cable, events, enables, vector, guarded, runs,
                   plugs, verdictVars>>

\* Mutation: the events are cleared after the register is read.
Unmask_Clearing ==
    /\ stage = "unmask" /\ Thread
    /\ stage' = IF image = "bench" THEN "key" ELSE "arm"
    /\ enables' = enables \cup {"Usb"} /\ vector' = TRUE
    /\ events' = events \ USB_INTS
    /\ UNCHANGED <<image, hung, cable, detector, guarded, runs, plugs, verdictVars>>

\* and the three events enabled and the vector unmasked.
Unmask ==
    /\ stage = "unmask" /\ Thread
    /\ stage' = IF image = "bench" THEN "key" ELSE "arm"
    /\ enables' = enables \cup {"Usb"} /\ vector' = TRUE
    /\ UNCHANGED <<image, hung, cable, events, detector, guarded, runs, plugs,
                   verdictVars>>

\* PowerAndClockHandler: POWER's events folded into the detector in this
\* order, then MPSL's handler, that has nothing to do before mpsl_init.
Handler ==
    /\ LineHigh /\ hung # "masked"
    /\ detector' = CASE "Removed" \in events -> FALSE
                     [] events \cap USB_INTS = {"Detected"} -> TRUE
                     [] OTHER -> detector
    /\ events' = events \ (USB_INTS \cup IF Mpsl THEN {"Clock"} ELSE {})
    /\ UNCHANGED <<image, stage, hung, cable, enables, vector, guarded, runs,
                   plugs, verdictVars>>

\* The clocks MPSL starts and stops
ClockEvent ==
    /\ stage = "up" /\ "Clock" \notin events
    /\ events' = events \cup {"Clock"}
    /\ UNCHANGED <<image, stage, hung, cable, enables, vector, detector,
                   guarded, runs, plugs, verdictVars>>

-----------------------------------------------------------------------------
(* The bring-up *)

\* START: the bench waits for a key.
TypedKey ==
    /\ stage = "key" /\ Thread
    /\ stage' = "arm"
    /\ UNCHANGED <<image, hung, guarded, runs, plugs, verdictVars, vbusVars>>

\* Mutation: the timer is armed when the call has returned.
Guarded_After(s) == s = "disarm"

\* TIMER1 is armed in a stage of the bring-up
Guarded(s) == s \in {"mpsl", "sdc", "disarm"}

\* fault::mark, on the bench; stall::arm
ArmStall ==
    /\ stage = "arm" /\ Thread
    /\ stage' = "mpsl" /\ guarded' = Guarded("mpsl")
    /\ reg2' = IF image = "bench" THEN "BRINGUP" ELSE reg2
    /\ UNCHANGED <<image, hung, kept, lastFault, lastStall, ended, runs, plugs,
                   vbusVars>>

\* mpsl_init returns, having enabled the clock's interrupts, or an error, or not
MpslInit ==
    /\ stage = "mpsl" /\ Thread
    /\ \/ stage' = "sdc" /\ enables' = enables \cup {"Clock"} /\ UNCHANGED hung
       \/ stage' = "disarm" /\ UNCHANGED <<enables, hung>>
       \/ hung' \in {"spinning", "masked"} /\ UNCHANGED <<stage, enables>>
    /\ guarded' = Guarded(stage')
    /\ UNCHANGED <<image, cable, events, vector, detector, runs, plugs, verdictVars>>

\* build_controller, that may not start either
SdcBuild ==
    /\ stage = "sdc" /\ Thread
    /\ \/ stage' = "disarm" /\ UNCHANGED hung
       \/ hung' \in {"spinning", "masked"} /\ UNCHANGED stage
    /\ guarded' = Guarded(stage')
    /\ UNCHANGED <<image, runs, plugs, vbusVars, verdictVars>>

\* Mutation: the timer is left armed.
Disarmed_Not == UNCHANGED guarded

Disarmed == guarded' = FALSE

\* stall::disarm; the bench's mark taken off
Disarm ==
    /\ stage = "disarm" /\ Thread
    /\ stage' \in {"up", "usbOnly"} /\ (stage' = "up" => "Clock" \in enables)
    /\ Disarmed
    /\ reg2' = IF image = "bench" THEN "NONE" ELSE reg2
    /\ UNCHANGED <<image, hung, kept, lastFault, lastStall, ended, runs, plugs,
                   vbusVars>>

\* oxinode_stall_capture, after STALL_AFTER_MS of a spin that can be
\* interrupted
StallCapture ==
    /\ hung = "spinning" /\ guarded
    /\ kept' = "stall"
    /\ Restart("stall", "reset")
    /\ UNCHANGED reg2

StartupInit ==
    /\ image \in {"rnode", "bench"}
    /\ stage = "reset" /\ hung = "no"
    /\ reg2 = "NONE" /\ kept = "noise" /\ lastFault = "NONE" /\ lastStall = FALSE
    /\ ended = [how |-> "power", stage |-> "up"]
    /\ cable = FALSE /\ events = {} /\ enables = {} /\ vector = FALSE
    /\ detector = FALSE /\ guarded = FALSE /\ runs = 0 /\ plugs = 0

StartupNext ==
    \/ VbusTake \/ Fault \/ Bootloader \/ RestartChip \/ PowerCycle \/ FromDfu
    \/ Plug \/ Init_Clocks \/ ClearEvents \/ ReadStatus \/ Unmask \/ Handler
    \/ ClockEvent \/ TypedKey \/ ArmStall \/ MpslInit \/ SdcBuild \/ Disarm \/ StallCapture

StartupSpec == StartupInit /\ [][StartupNext]_startupVars

-----------------------------------------------------------------------------
(* The types of the state; the timer is armed inside the bring-up only. *)
StartupTypeOK ==
    /\ image \in {"rnode", "bench"} /\ stage \in Stages
    /\ hung \in {"no", "spinning", "masked"}
    /\ reg2 \in Codes /\ lastFault \in Codes /\ kept \in {"noise", "stall"}
    /\ events \subseteq USB_INTS \cup {"Clock"} /\ enables \subseteq {"Usb", "Clock"}
    /\ {lastStall, cable, vector, detector, guarded} \subseteq BOOLEAN
    /\ guarded => stage \in {"mpsl", "sdc", "disarm"}
    /\ runs \in 0..MaxRuns /\ plugs \in 0..MaxPlugs

InBringUp(s) == s \in {"mpsl", "sdc", "disarm"}

(* What the board says of the previous run is how that run ended: a fault  *)
(* by its code, a bring-up the bench did not come back from by its mark, a *)
(* spin by the captured address, and nothing of the runs before it, through*)
(* resets, the bootloader and power cycles (fault, stall).                 *)
VerdictIsTheLastRuns ==
    Running =>
        /\ lastStall = (ended.how = "stall")
        /\ lastFault =
            IF ended.how \in {"HARD_FAULT", "UNHANDLED"} THEN ended.how
            ELSE IF image = "bench" /\ InBringUp(ended.stage) /\ ended.how # "power"
                 THEN "BRINGUP" ELSE "NONE"

(* USB is told of the cable that is there, whatever moved while the board  *)
(* started: the detector has the comparator's state once no movement is    *)
(* still to be serviced (Vbus::take and on_interrupt).                     *)
DetectorFollows ==
    (vector /\ events \cap USB_INTS = {}) => detector = cable

(* The shared line is not left high by what the bootloader enabled, nor by *)
(* the other half's events: thread mode runs again (Vbus; the first image  *)
(* took 841,653 interrupts in two seconds).                                *)
LineGoesLow == []<>(LineHigh => hung = "masked")

(* A bring-up that spins is left by a restart (stall::arm).                *)
SpinIsLeft == []<>(hung = "spinning" => runs = MaxRuns)

(* A start that says truly how the last run ended, with a detector that     *)
(* knows the cable.                                                         *)
StartupCorrect == StartupTypeOK /\ VerdictIsTheLastRuns /\ DetectorFollows
=============================================================================
