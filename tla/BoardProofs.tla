---------------------------- MODULE BoardProofs ----------------------------
(***************************************************************************)
(* Proofs about the tasks and images around the modem and the node: the    *)
(* start of the board (Startup), the GPS task (GpsPower), the bring-up     *)
(* image of the radio (Bench), the buzzer, the screen (Glass), the battery,*)
(* the pad, the log on its way to the host (HostLog), the flash chip, and  *)
(* what is made of the module's bytes (Nmea), each by an invariant of its  *)
(* own; at the end, that the board of MCBoard runs each of them.           *)
(***************************************************************************)
EXTENDS MCBoard, SequenceTheorems, TLAPS

-----------------------------------------------------------------------------
(* Startup.  The verdict of a run is what its predecessor leaves in the    *)
(* two places a reset keeps, so the invariant follows them: between the    *)
(* reset and the reading they hold the verdict, and after the reading what *)
(* this run would leave if it ended now.                                   *)

\* What the register holds when a run has ended so.
FaultOf(e) ==
    IF e.how \in {"HARD_FAULT", "UNHANDLED"} THEN e.how
    ELSE IF image = "bench" /\ InBringUp(e.stage) /\ e.how # "power"
         THEN "BRINGUP" ELSE "NONE"

Kept ==
    /\ stage \in {"reset", "dfu"} => reg2 = FaultOf(ended)
    /\ stage = "reset" => (kept = "stall") = (ended.how = "stall")
    /\ stage = "dfu" => ended.how # "stall" /\ kept = "noise"
    /\ Running =>
        /\ kept = "noise"
        /\ reg2 = IF image = "bench" /\ InBringUp(stage) THEN "BRINGUP" ELSE "NONE"

\* One movement of the cable at a time is latched, once the bootloader's
\* events have been cleared.
Latched ==
    /\ vector => stage \notin Early \cup {"dfu", "status", "unmask"}
    /\ stage \notin Early \cup {"dfu"} =>
        events \cap USB_INTS \subseteq {IF cable THEN "Detected" ELSE "Removed"}
    /\ stage \notin Early \cup {"dfu", "status"} /\ events \cap USB_INTS = {} =>
        detector = cable

\* A spin is under the guard.
HangIsGuarded == hung # "no" => guarded

StartupInv ==
    /\ StartupTypeOK /\ HangIsGuarded
    /\ Kept /\ VerdictIsTheLastRuns /\ Latched

LEMMA StartupBounds == MaxRuns \in Nat /\ MaxPlugs \in Nat
BY StartupAssumption DEF StartupAssumption

LEMMA StartupInitInv == StartupInit => StartupInv
<1> SUFFICES ASSUME StartupInit
             PROVE  StartupInv
  OBVIOUS
<1>1. StartupTypeOK /\ HangIsGuarded
  <2>1. runs \in 0..MaxRuns /\ plugs \in 0..MaxPlugs
    BY StartupBounds DEF StartupInit
  <2> QED
    BY <2>1 DEF StartupInit, StartupTypeOK, HangIsGuarded, Stages, Early, Codes
<1>2. Kept /\ VerdictIsTheLastRuns
  BY DEF StartupInit, Kept, VerdictIsTheLastRuns, Running, FaultOf
<1>3. Latched
  BY DEF StartupInit, Latched, Early
<1> QED
  BY <1>1, <1>2, <1>3 DEF StartupInv

(* A restart hands the verdict on: of this run, if it had read the last    *)
(* one's.                                                                  *)
LEMMA RestartInv ==
    ASSUME StartupInv, NEW how \in {"HARD_FAULT", "UNHANDLED", "bootloader", "reset",
                                    "power", "stall"},
           NEW into \in {"reset", "dfu"}, Restart(how, into),
           reg2' \in Codes, kept' \in {"noise", "stall"},
           reg2' = FaultOf(ended)', 
           into = "reset" => (kept' = "stall") = (ended'.how = "stall"),
           into = "dfu" => how # "stall" /\ kept' = "noise" /\ ended'.how = how
    PROVE  StartupInv'
<1>1. StartupTypeOK' /\ HangIsGuarded'
  <2>1. runs' \in 0..MaxRuns /\ plugs' \in 0..MaxPlugs
    BY StartupBounds DEF Restart, StartupInv, StartupTypeOK
  <2>2. /\ image' = image /\ stage' = into /\ hung' = "no" /\ guarded' = FALSE
        /\ lastFault' = lastFault /\ lastStall' = lastStall /\ cable' = cable
        /\ vector' = FALSE /\ detector' = FALSE /\ enables' = {}
        /\ events' \subseteq {"Detected"}
    BY DEF Restart
  <2>3. /\ image \in {"rnode", "bench"} /\ lastFault \in Codes
        /\ lastStall \in BOOLEAN /\ cable \in BOOLEAN
    BY DEF StartupInv, StartupTypeOK
  <2> QED
    BY <2>1, <2>2, <2>3 DEF StartupTypeOK, HangIsGuarded, Stages, Early, USB_INTS
<1>2. Kept' /\ VerdictIsTheLastRuns'
  BY DEF Kept, VerdictIsTheLastRuns, Running, Restart
<1>3. Latched'
  BY DEF Restart, Latched, Early
<1> QED
  BY <1>1, <1>2, <1>3 DEF StartupInv

LEMMA RestartsInv ==
    ASSUME StartupInv,
           Fault \/ Bootloader \/ RestartChip \/ PowerCycle \/ StallCapture
    PROVE  StartupInv'
<1>1. CASE Fault
  <2>1. PICK code \in {"HARD_FAULT", "UNHANDLED"} : reg2' = code /\ Restart(code, "dfu")
    BY <1>1 DEF Fault
  <2>2. Running /\ kept' = kept /\ kept = "noise"
    BY <1>1 DEF Fault, StartupInv, Kept
  <2>3. ended' = [how |-> code, stage |-> stage]
    BY <2>1, <2>2 DEF Restart, Running
  <2> QED
    BY <2>1, <2>2, <2>3, RestartInv DEF FaultOf, Codes
<1>2. CASE Bootloader
  <2>1. Running /\ Restart("bootloader", "dfu") /\ reg2' = reg2 /\ kept' = kept
    BY <1>2 DEF Bootloader
  <2>2. ended' = [how |-> "bootloader", stage |-> stage] /\ image' = image
    BY <2>1 DEF Restart, Running
  <2>3. kept = "noise" /\ reg2 = (IF image = "bench" /\ InBringUp(stage)
                                 THEN "BRINGUP" ELSE "NONE")
    BY <2>1 DEF StartupInv, Kept
  <2>4. reg2' = FaultOf(ended)'
    BY <2>1, <2>2, <2>3 DEF FaultOf
  <2> QED
    BY <2>1, <2>2, <2>3, <2>4, RestartInv DEF Codes
<1>3. CASE RestartChip
  <2>1. stage # "dfu" /\ Restart("reset", "reset") /\ reg2' = reg2 /\ kept' = kept
    BY <1>3 DEF RestartChip
  <2>2. reg2 \in Codes /\ kept \in {"noise", "stall"} /\ image' = image
    BY <2>1 DEF StartupInv, StartupTypeOK, Restart
  <2>3. CASE stage = "reset"
    <3>1. ended' = ended /\ reg2 = FaultOf(ended) /\ (kept = "stall") = (ended.how = "stall")
      BY <2>1, <2>3 DEF Restart, StartupInv, Kept
    <3>2. reg2' = FaultOf(ended)'
      BY <2>1, <2>2, <3>1 DEF FaultOf
    <3> QED
      BY <2>1, <2>2, <3>1, <3>2, RestartInv
  <2>4. CASE stage # "reset"
    <3>1. Running
      BY <2>1, <2>4 DEF Running
    <3>2. /\ kept = "noise" /\ ended' = [how |-> "reset", stage |-> stage]
          /\ reg2 = IF image = "bench" /\ InBringUp(stage) THEN "BRINGUP" ELSE "NONE"
      BY <2>1, <2>4, <3>1 DEF Restart, StartupInv, Kept
    <3>3. reg2' = FaultOf(ended)'
      BY <2>1, <2>2, <3>2 DEF FaultOf
    <3> QED
      BY <2>1, <2>2, <3>2, <3>3, RestartInv
  <2> QED
    BY <2>3, <2>4
<1>4. CASE PowerCycle
  <2>1. Restart("power", "reset") /\ reg2' = "NONE" /\ kept' = "noise"
    BY <1>4 DEF PowerCycle
  <2>2. ended' = [how |-> "power", stage |-> stage]
    BY <2>1 DEF Restart
  <2> QED
    BY <2>1, <2>2, RestartInv DEF FaultOf, Codes
<1>5. CASE StallCapture
  <2>1. Restart("stall", "reset") /\ reg2' = reg2 /\ kept' = "stall" /\ guarded
    BY <1>5 DEF StallCapture
  <2>2. Running /\ stage # "reset"
    BY <2>1 DEF StartupInv, StartupTypeOK, Running
  <2>3. /\ ended' = [how |-> "stall", stage |-> stage] /\ image' = image
        /\ reg2 = IF image = "bench" /\ InBringUp(stage) THEN "BRINGUP" ELSE "NONE"
    BY <2>1, <2>2 DEF Restart, StartupInv, Kept
  <2>4. reg2' = FaultOf(ended)'
    BY <2>1, <2>3 DEF FaultOf
  <2> QED
    BY <2>1, <2>3, <2>4, RestartInv DEF Codes
<1> QED
  BY <1>1, <1>2, <1>3, <1>4, <1>5

(* What main does on the way up, and the bootloader's jump.                *)
LEMMA MainInv ==
    ASSUME StartupInv,
           \/ VbusTake \/ FromDfu \/ Init_Clocks \/ TypedKey \/ ArmStall
           \/ MpslInit \/ SdcBuild \/ Disarm
    PROVE  StartupInv'
<1> USE StartupAssumption DEF StartupInv, StartupTypeOK, HangIsGuarded, Kept,
        VerdictIsTheLastRuns, Latched, Running, Stages, Early, Codes, USB_INTS,
        FaultOf, InBringUp, Thread, verdictVars, vbusVars
<1>1. CASE VbusTake
  BY <1>1 DEF VbusTake, Cleared
<1>2. CASE FromDfu
  BY <1>2 DEF FromDfu
<1>3. CASE Init_Clocks
  BY <1>3 DEF Init_Clocks
<1>4. CASE TypedKey
  BY <1>4 DEF TypedKey
<1>5. CASE ArmStall
  BY <1>5 DEF ArmStall, Guarded
<1>6. CASE MpslInit
  BY <1>6 DEF MpslInit, Guarded
<1>7. CASE SdcBuild
  BY <1>7 DEF SdcBuild, Guarded
<1>8. CASE Disarm
  BY <1>8 DEF Disarm, Disarmed
<1> QED
  BY <1>1, <1>2, <1>3, <1>4, <1>5, <1>6, <1>7, <1>8

(* The cable, and the detector that follows it.                            *)
LEMMA CableInv ==
    ASSUME StartupInv,
           Plug \/ ClearEvents \/ ReadStatus \/ Unmask \/ Handler \/ ClockEvent
    PROVE  StartupInv'
<1> USE StartupAssumption DEF StartupInv, StartupTypeOK, HangIsGuarded, Kept,
        VerdictIsTheLastRuns, Latched, Running, Stages, Early, Codes, USB_INTS,
        FaultOf, InBringUp, Thread, verdictVars
<1>1. CASE Plug
  BY <1>1 DEF Plug
<1>2. CASE ClearEvents
  BY <1>2 DEF ClearEvents, Disabled
<1>3. CASE ReadStatus
  BY <1>3 DEF ReadStatus
<1>4. CASE Unmask
  BY <1>4 DEF Unmask
<1>5. CASE Handler
  <2>1. stage \notin Early \cup {"dfu", "status", "unmask"} /\ vector
    BY <1>5 DEF Handler, LineHigh
  <2>2. events \cap USB_INTS \subseteq {IF cable THEN "Detected" ELSE "Removed"}
    BY <2>1
  <2>3. detector' = cable
    <3>1. CASE "Removed" \in events
      BY <1>5, <2>2, <3>1 DEF Handler
    <3>2. CASE "Removed" \notin events /\ "Detected" \in events
      <4>1. events \cap USB_INTS = {"Detected"}
        BY <3>2
      <4>2. detector' = TRUE
        BY <1>5, <3>2, <4>1 DEF Handler
      <4>3. cable = TRUE
        BY <2>2, <4>1
      <4> QED
        BY <4>2, <4>3
    <3>3. CASE "Removed" \notin events /\ "Detected" \notin events
      BY <1>5, <2>1, <3>3 DEF Handler
    <3> QED
      BY <3>1, <3>2, <3>3
  <2>4. events' \cap USB_INTS = {} /\ events' \subseteq events
    BY <1>5 DEF Handler
  <2>5. UNCHANGED <<image, stage, hung, cable, enables, vector, guarded, runs, plugs,
                    verdictVars>>
    BY <1>5 DEF Handler
  <2>6. StartupTypeOK' /\ HangIsGuarded'
    BY <2>3, <2>4, <2>5
  <2>7. Kept' /\ VerdictIsTheLastRuns'
    BY <2>5
  <2>8. Latched'
    BY <2>1, <2>3, <2>4, <2>5
  <2> QED
    BY <2>6, <2>7, <2>8
<1>6. CASE ClockEvent
  BY <1>6 DEF ClockEvent
<1> QED
  BY <1>1, <1>2, <1>3, <1>4, <1>5, <1>6

(* However a run ends, and wherever in its start, the next says so of it,  *)
(* and of no earlier one; and the USB detector knows the cable once no     *)
(* movement is waiting (main, fault, stall, Vbus).                         *)
LEMMA StartupAlways == StartupSpec => []StartupCorrect
<1>1. ASSUME StartupInv, [StartupNext]_startupVars
      PROVE  StartupInv'
  <2>1. CASE UNCHANGED startupVars
    BY <1>1, <2>1 DEF startupVars, StartupInv, StartupTypeOK, HangIsGuarded, Kept,
       VerdictIsTheLastRuns, Latched, Running, FaultOf
  <2> QED
    BY <1>1, <2>1, RestartsInv, MainInv, CableInv DEF StartupNext
<1>2. StartupInv => StartupTypeOK /\ VerdictIsTheLastRuns /\ DetectorFollows
  BY DEF StartupInv, Latched, DetectorFollows, Early
<1> QED
  BY StartupInitInv, <1>1, <1>2, PTL DEF StartupSpec, StartupCorrect

-----------------------------------------------------------------------------
(* GpsPower.  A fix has an age only while the receiver that said it is     *)
(* powered.                                                                *)

AgeSet == 0..(Silent + Stale) \cup {Unheard}

GpsInv ==
    /\ GpsTypeOK /\ FixIsThisPowers
    /\ fixAge # Unheard => gpsOn /\ located

LEMMA GpsBounds ==
    /\ Attempts \in Nat \ {0} /\ Window \in Nat /\ Silent \in Nat /\ Stale \in Nat
    /\ MaxMoves \in Nat /\ MaxToggles \in Nat /\ Unheard \notin Nat
    /\ 1 \in 1..Attempts /\ 0 \in 0..(Window + 1)
BY GpsAssumption DEF GpsAssumption

(* An age grows to its cap; what was never heard stays so.                 *)
LEMMA AgeGrows ==
    ASSUME NEW age \in AgeSet, NEW n \in {0, 1}
    PROVE  /\ Capped(Older(age, n)) \in AgeSet
           /\ (Capped(Older(age, n)) = Unheard) = (age = Unheard)
BY GpsBounds DEF AgeSet, Capped, Older

LEMMA StatusFacts ==
    ASSUME NEW h, NEW f
    PROVE  /\ StatusOf(h, f) \in {"Silent", "Searching", "Fix"}
           /\ StatusOf(h, f) = "Fix" => f # Unheard
BY DEF StatusOf

ModeSet == {"PowerOn", "GpsOn", "Neither", "Invalid", Unheard}
ControlSet == [on : BOOLEAN, switch : ModeSet]

LEMMA decodeType == lever \in BOOLEAN \X BOOLEAN => decode(lever) \in ModeSet
<1> SUFFICES ASSUME NEW a \in BOOLEAN, NEW b \in BOOLEAN
             PROVE  decode(<<a, b>>) \in ModeSet
  OBVIOUS
<1>1. CASE a /\ b
  BY <1>1 DEF decode, ModeSet
<1>2. CASE a /\ ~b
  BY <1>2 DEF decode, ModeSet
<1>3. CASE ~a /\ b
  BY <1>3 DEF decode, ModeSet
<1>4. CASE ~a /\ ~b
  BY <1>4 DEF decode, ModeSet
<1> QED
  BY <1>1, <1>2, <1>3, <1>4

LEMMA ControlType ==
    ASSUME lever \in BOOLEAN \X BOOLEAN, NEW c \in ControlSet
    PROVE  Switched(c) \in ControlSet /\ Toggled(c) \in ControlSet
BY decodeType DEF Switched, Toggled, ControlSet

(* What the task does with its ages: counts them on, or forgets them.      *)
LEMMA AgesInv ==
    ASSUME heardAge \in AgeSet, fixAge \in AgeSet, NEW n \in {0, 1}, Ages(n)
    PROVE  /\ heardAge' \in AgeSet /\ fixAge' \in AgeSet
           /\ (fixAge' = Unheard) = (fixAge = Unheard)
BY AgeGrows DEF Ages

LEMMA PowerInv ==
    ASSUME power
    PROVE  heardAge' \in AgeSet /\ fixAge' = Unheard /\ fixAge' \in AgeSet
BY DEF power, AgeSet

\* The types that do not depend on what is heard.
GpsRest ==
    /\ lever \in BOOLEAN \X BOOLEAN /\ control \in ControlSet
    /\ signalled \in BOOLEAN /\ talks \in 0..Attempts
    /\ moves \in 0..MaxMoves /\ toggles \in 0..MaxToggles

\* The receiver
GpsRun ==
    /\ gpsOn \in BOOLEAN /\ located \in BOOLEAN /\ attempt \in 1..Attempts
    /\ waited \in 0..(Window + 1)
    /\ heardAge \in AgeSet /\ fixAge \in AgeSet
    /\ shown \in {"Off", "Silent", "Searching", "Fix"}
    /\ shown = "Fix" => gpsOn /\ located
    /\ fixAge # Unheard => gpsOn /\ located

LEMMA GpsInvParts == GpsInv <=> GpsRest /\ GpsRun /\ (gpsOn => control.on)
BY DEF GpsInv, GpsTypeOK, FixIsThisPowers, GpsRest, GpsRun, AgeSet, ControlSet, ModeSet

LEMMA GpsInvNext == GpsRest' /\ GpsRun' /\ (gpsOn' => control'.on) => GpsInv'
BY DEF GpsInv, GpsTypeOK, FixIsThisPowers, GpsRest, GpsRun, AgeSet, ControlSet, ModeSet

LEMMA ReceiverInv ==
    ASSUME GpsRun,
           \/ Listen \/ Cut \/ StayOff
    PROVE  GpsRun'
<1>1. CASE Listen
  BY <1>1, PowerInv, GpsBounds DEF Listen, GpsRun
<1>2. CASE Cut
  BY <1>2, PowerInv, GpsBounds DEF Cut, GpsRun
<1>3. CASE StayOff
  <2>1. heardAge' \in AgeSet /\ fixAge' \in AgeSet /\ (fixAge' = Unheard) = (fixAge = Unheard)
    BY <1>3, AgesInv DEF StayOff, GpsRun
  <2> QED
    BY <1>3, <2>1 DEF StayOff, GpsRun
<1> QED
  BY <1>1, <1>2, <1>3

LEMMA GpsStepInv ==
    ASSUME GpsInv, GpsNext
    PROVE  GpsInv'
<1>0. GpsRest /\ GpsRun /\ (gpsOn => control.on)
  BY GpsInvParts
<1>a. lever \in BOOLEAN \X BOOLEAN /\ control \in ControlSet
  BY <1>0 DEF GpsRest
<1>b. Switched(control) \in ControlSet /\ Toggled(control) \in ControlSet
  BY <1>a, ControlType
<1>1. CASE Move
  BY <1>0, <1>1, GpsBounds, GpsInvNext DEF Move, GpsRest, GpsRun, GpsInv, GpsTypeOK,
     FixIsThisPowers
<1>2. CASE toggle
  BY <1>0, <1>2, GpsBounds DEF toggle, GpsRest, GpsRun, GpsInv, GpsTypeOK,
     FixIsThisPowers
<1>3. CASE OnAtOnce
  <2>1. GpsRun'
    BY <1>0, <1>3, ReceiverInv DEF OnAtOnce
  <2>2. GpsRest' /\ control'.on
    BY <1>0, <1>3 DEF OnAtOnce, GpsRest
  <2> QED
    BY <2>1, <2>2, GpsInvNext
<1>4. CASE ~control.on /\ (OffTick \/ OffToggle)
  <2>1. GpsRun'
    BY <1>0, <1>4, ReceiverInv DEF OffTick, OffToggle
  <2>2. GpsRest'
    BY <1>0, <1>b, <1>4 DEF OffTick, OffToggle, GpsRest
  <2>3. gpsOn' => control'.on
    BY <1>4 DEF OffTick, OffToggle, Listen, StayOff
  <2> QED
    BY <2>1, <2>2, <2>3, GpsInvNext
<1>5. CASE ReadSentence
  <2>1. PICK fix \in BOOLEAN, n \in {0, 1} :
            /\ heardAge' = 0
            /\ fixAge' = IF fix THEN 0 ELSE Capped(Older(fixAge, n))
            /\ located' = (located \/ fix)
            /\ shown' = StatusOf(heardAge', fixAge')
            /\ waited' = IF waited > Window THEN waited ELSE waited + n
    BY <1>5 DEF ReadSentence
  <2>2. gpsOn /\ UNCHANGED <<lever, control, signalled, gpsOn, attempt, talks, moves, toggles>>
    BY <1>5 DEF ReadSentence
  <2>3. heardAge' \in AgeSet /\ fixAge' \in AgeSet /\ (fixAge' # Unheard => located')
    BY <1>0, <2>1, AgeGrows, GpsBounds DEF AgeSet, GpsRun
  <2>4. waited' \in 0..(Window + 1)
    BY <1>0, <2>1, GpsBounds DEF GpsRun
  <2>5. /\ shown' \in {"Off", "Silent", "Searching", "Fix"}
        /\ shown' = "Fix" => fixAge' # Unheard
    BY <2>1, StatusFacts
  <2>6. GpsRun'
    BY <1>0, <2>1, <2>2, <2>3, <2>4, <2>5 DEF GpsRun
  <2> QED
    BY <1>0, <2>2, <2>6, GpsInvNext DEF GpsRest
<1>6. CASE ReadNoise
  <2>1. PICK n \in {0, 1} :
            Ages(n) /\ waited' = IF waited > Window THEN waited ELSE waited + n
    BY <1>6 DEF ReadNoise
  <2>2. /\ gpsOn /\ shown' = StatusOf(heardAge', fixAge')
        /\ UNCHANGED <<lever, control, signalled, gpsOn, attempt, talks, located, moves, toggles>>
    BY <1>6 DEF ReadNoise
  <2>3. heardAge' \in AgeSet /\ fixAge' \in AgeSet /\ (fixAge' = Unheard) = (fixAge = Unheard)
    BY <1>0, <2>1, AgesInv DEF GpsRun
  <2>4. waited' \in 0..(Window + 1)
    BY <1>0, <2>1, GpsBounds DEF GpsRun
  <2>5. /\ shown' \in {"Off", "Silent", "Searching", "Fix"}
        /\ shown' = "Fix" => fixAge' # Unheard
    BY <2>2, StatusFacts
  <2>6. GpsRun'
    BY <1>0, <2>2, <2>3, <2>4, <2>5 DEF GpsRun
  <2> QED
    BY <1>0, <2>2, <2>6, GpsInvNext DEF GpsRest
<1>7. CASE OnTick
  <2>1. /\ gpsOn /\ control' = Switched(control)
        /\ UNCHANGED <<lever, signalled, talks, moves, toggles>>
    BY <1>7 DEF OnTick, Look
  <2>2. GpsRest'
    BY <1>0, <1>b, <2>1 DEF GpsRest
  <2>3. CASE control'.on # control.on /\ ~control'.on
    <3>1. Cut
      BY <1>7, <2>3 DEF OnTick
    <3>2. GpsRun' /\ ~gpsOn'
      BY <1>0, <3>1, ReceiverInv DEF Cut
    <3> QED
      BY <2>2, <3>2, GpsInvNext
  <2>4. CASE ~(control'.on # control.on /\ ~control'.on)
    <3>1. control'.on
      BY <1>0, <1>b, <2>1, <2>4 DEF ControlSet
    <3>2. CASE ~heard /\ waited + 1 > Window
      <4>1. /\ attempt' = Following(attempt) /\ waited' = 0 /\ power
            /\ UNCHANGED <<gpsOn, shown, located>>
        BY <1>7, <2>4, <3>2 DEF OnTick
      <4>2. attempt' \in 1..Attempts
        BY <1>0, <4>1, GpsBounds DEF Following, GpsRun
      <4>3. GpsRun'
        BY <1>0, <4>1, <4>2, PowerInv, GpsBounds DEF GpsRun
      <4> QED
        BY <2>2, <3>1, <4>3, GpsInvNext
    <3>3. CASE ~(~heard /\ waited + 1 > Window)
      <4>1. /\ waited' = IF waited > Window THEN waited ELSE waited + 1
            /\ Ages(1) /\ shown' = StatusOf(heardAge', fixAge')
            /\ UNCHANGED <<gpsOn, attempt, located>>
        BY <1>7, <2>4, <3>3 DEF OnTick
      <4>2. /\ heardAge' \in AgeSet /\ fixAge' \in AgeSet
            /\ (fixAge' = Unheard) = (fixAge = Unheard)
        BY <1>0, <4>1, AgesInv DEF GpsRun
      <4>3. waited' \in 0..(Window + 1)
        BY <1>0, <4>1, GpsBounds DEF GpsRun
      <4>4. /\ shown' \in {"Off", "Silent", "Searching", "Fix"}
            /\ shown' = "Fix" => fixAge' # Unheard
        BY <4>1, StatusFacts
      <4>5. GpsRun'
        BY <1>0, <4>1, <4>2, <4>3, <4>4 DEF GpsRun
      <4> QED
        BY <2>2, <3>1, <4>5, GpsInvNext
    <3> QED
      BY <3>2, <3>3
  <2> QED
    BY <2>3, <2>4
<1>8. CASE OnToggle
  <2>1. /\ gpsOn /\ control' = Toggled(control) /\ signalled' = FALSE
        /\ UNCHANGED <<lever, talks, moves, toggles>>
    BY <1>8 DEF OnToggle
  <2>2. GpsRest'
    BY <1>0, <1>b, <2>1 DEF GpsRest
  <2>3. CASE control'.on
    <3>1. Ages(0) /\ shown' = StatusOf(heardAge', fixAge')
          /\ UNCHANGED <<gpsOn, attempt, waited, located>>
      BY <1>8, <2>3 DEF OnToggle
    <3>2. heardAge' \in AgeSet /\ fixAge' \in AgeSet /\ (fixAge' = Unheard) = (fixAge = Unheard)
      BY <1>0, <3>1, AgesInv DEF GpsRun
    <3>3. /\ shown' \in {"Off", "Silent", "Searching", "Fix"}
          /\ shown' = "Fix" => fixAge' # Unheard
      BY <3>1, StatusFacts
    <3>4. GpsRun'
      BY <1>0, <3>1, <3>2, <3>3 DEF GpsRun
    <3> QED
      BY <2>2, <2>3, <3>4, GpsInvNext
  <2>4. CASE ~control'.on
    <3>1. Cut
      BY <1>8, <2>4 DEF OnToggle
    <3>2. GpsRun' /\ ~gpsOn'
      BY <1>0, <3>1, ReceiverInv DEF Cut
    <3> QED
      BY <2>2, <3>2, GpsInvNext
  <2> QED
    BY <2>3, <2>4
<1> QED
  BY <1>1, <1>2, <1>3, <1>4, <1>5, <1>6, <1>7, <1>8 DEF GpsNext

(* A position shown is one the module gave since it was last powered, and  *)
(* the receiver is switched only by the menu or by a switch that moved     *)
(* (Receiver::power, Control::switch).                                     *)
LEMMA GpsAlways == GpsSpec => GpsCorrect
<1>1. GpsInit => GpsInv
  <2> SUFFICES ASSUME GpsInit
               PROVE  GpsRest /\ GpsRun /\ (gpsOn => control.on)
    BY GpsInvParts
  <2>1. [on |-> FALSE, switch |-> Unheard] \in ControlSet
    BY DEF ControlSet, ModeSet
  <2>2. control \in ControlSet
    BY <2>1, ControlType DEF GpsInit
  <2>3. moves \in 0..MaxMoves /\ toggles \in 0..MaxToggles
    BY GpsBounds DEF GpsInit
  <2>4. GpsRest /\ ~gpsOn
    <3>1. lever \in BOOLEAN \X BOOLEAN /\ signalled \in BOOLEAN /\ talks \in 0..Attempts
      BY DEF GpsInit
    <3>2. ~gpsOn
      BY DEF GpsInit
    <3> QED
      BY <2>2, <2>3, <3>1, <3>2 DEF GpsRest
  <2>5. GpsRun
    BY GpsBounds DEF GpsInit, GpsRun, AgeSet
  <2> QED
    BY <2>4, <2>5
<1>2. ASSUME GpsInv, [GpsNext]_gpsVars
      PROVE  GpsInv'
  <2>1. CASE UNCHANGED gpsVars
    BY <1>2, <2>1 DEF gpsVars, GpsInv, GpsTypeOK, FixIsThisPowers
  <2> QED
    BY <1>2, <2>1, GpsStepInv
<1>3. GpsInv => GpsTypeOK /\ FixIsThisPowers
  BY DEF GpsInv
<1>4. ASSUME [GpsNext]_gpsVars
      PROVE  [control'.on # control.on =>
                (signalled /\ ~signalled') \/ decode(lever) # control.switch]_gpsVars
  BY <1>4 DEF GpsNext, Move, toggle, OnAtOnce, OffTick, OffToggle, ReadSentence,
     ReadNoise, OnTick, OnToggle, Look, Switched, gpsVars
<1> QED
  BY <1>1, <1>2, <1>3, <1>4, PTL DEF GpsSpec, GpsCorrect, ChoiceStands

-----------------------------------------------------------------------------
(* Bench.  Each step of the bring-up has the evidence of those before it,  *)
(* and a carrier is keyed by an attached driver.                           *)

ConfigSet == [band : {"sub", "2g4"}, step : 0..TopStep, dbm : Int]

\* What has been seen of the chip by the step the bring-up is in
Evidence ==
    /\ step = "version" => verdict # "Failed" /\ board.pin # "high"
    /\ step \in {"attach", "regulator", "tcxo", "switch", "irq"} =>
        board.pin = "follows" /\ board.part = "LR1121" /\ verdict # "Failed"
    /\ step \in {"terminal", "reset", "version", "attach", "regulator", "tcxo"} =>
        ~switched
    /\ step = "switch" => told /\ calibrated

\* What the chip and the command that may have failed are
ChipOK ==
    /\ {attached, typed, told, calibrated, switched, routed, converter, follows}
        \subseteq BOOLEAN
    /\ mode \in {"standby", "carrier"}
    /\ mode = "carrier" => attached
    /\ step \in {"regulator", "tcxo", "switch", "irq"} => attached
    /\ step \in {"terminal", "reset", "version", "attach"} => ~attached

FaultsOK ==
    /\ wedged \in BOOLEAN /\ radioFaults \in 0..MaxRefused
    /\ wedged => radioFaults # 0

ConsoleOK ==
    /\ board \in BenchBoards /\ step \in Steps /\ limit \in -1..Burst
    /\ cfg \in ConfigSet /\ pressed \in 0..MaxPressed

BenchInv ==
    /\ ConsoleOK /\ ChipOK /\ FaultsOK /\ Evidence
    /\ AttachedIsTheChip /\ SwitchedWhenRunning

LEMMA BenchBounds ==
    /\ Burst \in Nat /\ TopStep \in Nat /\ TopStep # 0
    /\ MaxRefused \in Nat /\ MaxPressed \in Nat
BY BenchAssumption DEF BenchAssumption

(* A command that was served or that failed: a chip that is stuck has      *)
(* failed at least once.                                                   *)
LEMMA AnsweredFacts ==
    ASSUME FaultsOK,
           Served \/ Failed
    PROVE  FaultsOK' /\ (Failed => radioFaults' # 0)
BY BenchBounds DEF FaultsOK, Served, Failed

LEMMA NextPowerType == ASSUME NEW dbm \in Int PROVE NextPower(dbm) \in Int
<1> DEFINE at == {i \in 1..Len(POWER_LADDER) : POWER_LADDER[i] = dbm}
<1>1. Len(POWER_LADDER) = 7 /\ \A i \in 1..7 : POWER_LADDER[i] \in Int
  BY DEF POWER_LADDER
<1>2. CASE at = {}
  BY <1>1, <1>2 DEF NextPower
<1>3. CASE at # {}
  <2>1. (CHOOSE i \in at : TRUE) \in 1..7
    BY <1>1, <1>3
  <2>2. \A k \in 1..7 : ((k % 7) + 1) \in 1..7
    OBVIOUS
  <2> QED
    BY <1>1, <1>3, <2>1, <2>2 DEF NextPower
<1> QED
  BY <1>2, <1>3

(* The bring-up's steps.                                                   *)
LEMMA BenchStepInv ==
    ASSUME BenchInv, BenchStep
    PROVE  BenchInv'
<1> USE DEF BenchInv, NextStep, chip
<1>1. CASE Terminal
  BY <1>1 DEF Terminal, ConsoleOK, ChipOK, FaultsOK, Evidence, AttachedIsTheChip,
     SwitchedWhenRunning, Steps
<1>2. CASE ResetRadio
  <2>1. /\ step = "reset" /\ step' \in {"console", "version"}
        /\ verdict' = "Failed" => step' = "console"
        /\ board.pin = "high" => verdict' = "Failed"
        /\ UNCHANGED <<board, cfg, limit, follows, pressed, attached, wedged, radioFaults>>
        /\ UNCHANGED chip
    BY <1>2 DEF ResetRadio, VerdictOf
  <2>2. ~attached
    BY <2>1 DEF ChipOK
  <2> QED
    BY <2>1, <2>2 DEF ConsoleOK, ChipOK, FaultsOK, Evidence, AttachedIsTheChip,
       SwitchedWhenRunning, Steps
<1>3. CASE Version
  <2>1. /\ step = "version" /\ step' \in {"attach", "console"}
        /\ UNCHANGED <<board, cfg, limit, follows, pressed, verdict, attached, wedged,
                       radioFaults>>
        /\ UNCHANGED chip
    BY <1>3 DEF Version
  <2>2. step' = "attach" => board.part = "LR1121" /\ board.pin # "low"
    BY <1>3 DEF Version, Expected
  <2>3. board.pin \in {"follows", "low", "high"}
    BY DEF ConsoleOK, BenchBoards
  <2> QED
    BY <2>1, <2>2, <2>3 DEF FaultsOK, ConsoleOK, ChipOK, Evidence,
       AttachedIsTheChip, SwitchedWhenRunning, Steps
<1>4. CASE VersionFails
  <2>1. FaultsOK'
    BY <1>4, AnsweredFacts DEF VersionFails
  <2> QED
    BY <1>4, <2>1 DEF VersionFails, ConsoleOK, ChipOK, Evidence,
       AttachedIsTheChip, SwitchedWhenRunning, Steps
<1>5. CASE AttachDriver
  <2>1. FaultsOK'
    BY <1>5, AnsweredFacts DEF AttachDriver
  <2> QED
    BY <1>5, <2>1 DEF AttachDriver, ConsoleOK, ChipOK, Evidence,
       AttachedIsTheChip, SwitchedWhenRunning, Steps
<1>6. CASE AttachFails
  <2>1. FaultsOK'
    BY <1>6, AnsweredFacts DEF AttachFails
  <2> QED
    BY <1>6, <2>1 DEF AttachFails, ConsoleOK, ChipOK, Evidence,
       AttachedIsTheChip, SwitchedWhenRunning, Steps
<1>7. CASE Regulator
  <2>1. FaultsOK'
    BY <1>7, AnsweredFacts DEF Regulator, SetRegulator
  <2>2. mode' \in {"standby", mode} /\ converter' \in {TRUE, converter}
    BY <1>7 DEF Regulator, SetRegulator, Perhaps, InStandby, Standby
  <2> QED
    BY <1>7, <2>1, <2>2 DEF Regulator, ConsoleOK, ChipOK, Evidence,
       AttachedIsTheChip, SwitchedWhenRunning, Steps
<1>8. CASE Tcxo
  <2>1. FaultsOK'
    BY <1>8, AnsweredFacts DEF Tcxo, StartTcxo
  <2>2. /\ step = "tcxo" /\ step' \in {"switch", "console"}
        /\ step' = "switch" => told' /\ calibrated'
        /\ told' \in {told, TRUE} /\ calibrated' \in BOOLEAN
    BY <1>8 DEF Tcxo, StartTcxo, GivenUp, Believed, Perhaps, ChipOK
  <2> QED
    BY <1>8, <2>1, <2>2 DEF Tcxo, ConsoleOK, ChipOK, Evidence,
       AttachedIsTheChip, SwitchedWhenRunning, Steps
<1>9. CASE RfSwitch
  <2>1. FaultsOK'
    BY <1>9, AnsweredFacts DEF RfSwitch
  <2>2. switched' \in {TRUE, switched}
    BY <1>9 DEF RfSwitch, Perhaps
  <2> QED
    BY <1>9, <2>1, <2>2 DEF RfSwitch, ConsoleOK, ChipOK, Evidence,
       AttachedIsTheChip, SwitchedWhenRunning, Steps
<1>10. CASE Irq
  <2>1. FaultsOK'
    BY <1>10, AnsweredFacts DEF Irq, Route
  <2>2. routed' \in {TRUE, routed}
    BY <1>10 DEF Irq, Route, Perhaps
  <2> QED
    BY <1>10, <2>1, <2>2 DEF Irq, ConsoleOK, ChipOK, Evidence,
       AttachedIsTheChip, SwitchedWhenRunning, Steps
<1> QED
  BY <1>1, <1>2, <1>3, <1>4, <1>5, <1>6, <1>7, <1>8, <1>9, <1>10 DEF BenchStep

(* In the console nothing is attached, and the antenna switch is set up by *)
(* a restart of the radio only.                                            *)
LEMMA ConsoleKeyInv ==
    ASSUME BenchInv, step = "console", step' = "console",
           UNCHANGED <<board, verdict, attached>>,
           FaultsOK',
           {typed', told', calibrated', switched', routed', converter', follows'}
               \subseteq BOOLEAN,
           mode' \in {"standby", "carrier"}, mode' = "carrier" => attached,
           switched' => told' /\ calibrated',
           limit' \in -1..Burst, cfg' \in ConfigSet, pressed' \in 0..MaxPressed
    PROVE  BenchInv'
BY DEF BenchInv, ConsoleOK, ChipOK, Evidence, AttachedIsTheChip, SwitchedWhenRunning

LEMMA BenchKeyInv ==
    ASSUME BenchInv, BenchKey \/ WakeRadio
    PROVE  BenchInv'
<1> USE DEF Same, chip
<1>0. /\ FaultsOK /\ mode \in {"standby", "carrier"} /\ (mode = "carrier" => attached)
      /\ {attached, typed, told, calibrated, switched, routed, converter, follows}
            \subseteq BOOLEAN
      /\ (switched => told /\ calibrated)
      /\ limit \in -1..Burst /\ cfg \in ConfigSet /\ pressed \in 0..MaxPressed
  BY DEF BenchInv, ConsoleOK, ChipOK, SwitchedWhenRunning
<1>a. -1 \in -1..Burst /\ Burst \in -1..Burst
  BY BenchBounds
<1>b. ASSUME BenchKeyed
      PROVE  step = "console" /\ step' = "console" /\ pressed' \in 0..MaxPressed
  BY <1>0, <1>b, BenchBounds DEF BenchKeyed
<1>1. CASE StartCw
  <2>1. FaultsOK'
    BY <1>0, <1>1, AnsweredFacts DEF StartCw
  <2>2. mode' \in {mode, "carrier"} /\ typed' \in {TRUE, typed} /\ limit' \in {limit, Burst}
    BY <1>1 DEF StartCw, Perhaps
  <2> QED
    BY <1>0, <1>a, <1>b, <1>1, <2>1, <2>2, ConsoleKeyInv DEF StartCw
<1>2. CASE StopCw
  <2>1. FaultsOK' /\ mode' \in {mode, "standby"}
    BY <1>0, <1>2, AnsweredFacts DEF StopCw, stop_cw, Standby, Perhaps, FaultsOK
  <2> QED
    BY <1>0, <1>a, <1>b, <1>2, <2>1, ConsoleKeyInv DEF StopCw
<1>3. CASE Apply
  <2>1. FaultsOK' /\ mode' \in {mode, "standby"} /\ typed' \in {TRUE, typed}
    BY <1>0, <1>3, AnsweredFacts DEF Apply, Applied, Standby, Perhaps
  <2> QED
    BY <1>0, <1>a, <1>b, <1>3, <2>1, ConsoleKeyInv DEF Apply
<1>4. CASE provoke_irq
  <2>1. FaultsOK'
    BY <1>0, <1>4, AnsweredFacts DEF provoke_irq
  <2>2. mode' \in {mode, "carrier"} /\ follows' \in BOOLEAN
    BY <1>4 DEF provoke_irq, Perhaps, Follows
  <2> QED
    BY <1>0, <1>a, <1>b, <1>4, <2>1, <2>2, ConsoleKeyInv DEF provoke_irq
<1>5. CASE Edit
  <2>1. cfg' \in ConfigSet
    <3>1. [cfg EXCEPT !.dbm = NextPower(@)] \in ConfigSet
      BY <1>0, NextPowerType DEF ConfigSet
    <3>2. StepDown(cfg) \in ConfigSet /\ StepUp(cfg) \in ConfigSet
      BY <1>0, BenchBounds DEF ConfigSet, StepDown, StepUp
    <3>3. DEFAULT \in ConfigSet /\ BENCH_2G4 \in ConfigSet /\ LONG_FAST \in ConfigSet
      BY BenchBounds DEF ConfigSet, DEFAULT, BENCH_2G4, LONG_FAST
    <3> QED
      BY <1>5, <3>1, <3>2, <3>3 DEF Edit
  <2>2. FaultsOK'
    BY <1>0, <1>5 DEF Edit, FaultsOK
  <2> QED
    BY <1>0, <1>b, <1>5, <2>1, <2>2, ConsoleKeyInv DEF Edit
<1>6. ASSUME NEW offset, Use(offset)
      PROVE  BenchInv'
  <2>1. FaultsOK' /\ mode' \in {mode, "standby"} /\ typed' \in {TRUE, typed}
    BY <1>0, <1>6, AnsweredFacts DEF Use, Applied, Standby, Perhaps, FaultsOK
  <2> QED
    BY <1>0, <1>a, <1>b, <1>6, <2>1, ConsoleKeyInv DEF Use
<1>7. ASSUME NEW on \in BOOLEAN, Reinit(on)
      PROVE  BenchInv'
  <2>1. FaultsOK'
    BY <1>0, <1>7, AnsweredFacts DEF Reinit
  <2>2. mode' \in {mode, "standby"} /\ (switched' => told' /\ calibrated')
    <3>1. CASE /\ mode' = "standby" /\ told' = on /\ calibrated' = on
               /\ \E errors \in BOOLEAN :
                    (on => ~errors) /\ switched' = Believed(errors, on)
      <4>1. switched' => on
        BY <3>1 DEF Believed
      <4> QED
        BY <3>1, <4>1
    <3>2. CASE UNCHANGED <<mode, typed, told, calibrated, switched, routed, converter>>
      BY <1>0, <3>2
    <3>3. CASE mode' = "standby" /\ switched' = FALSE
      BY <3>3
    <3> QED
      BY <1>7, <3>1, <3>2, <3>3 DEF Reinit, Standby
  <2>3. {typed', told', calibrated', switched', routed', converter'} \subseteq BOOLEAN
    <3>1. {typed', told', calibrated', routed', converter'} \subseteq BOOLEAN
      BY <1>0, <1>7 DEF Reinit
    <3>2. switched' \in BOOLEAN
      BY <1>0, <1>7 DEF Reinit, Believed
    <3> QED
      BY <3>1, <3>2
  <2> QED
    BY <1>0, <1>a, <1>b, <1>7, <2>1, <2>2, <2>3, ConsoleKeyInv DEF Reinit
<1>8. ASSUME NEW on \in BOOLEAN, Choose(on)
      PROVE  BenchInv'
  <2>1. FaultsOK'
    BY <1>0, <1>8, AnsweredFacts DEF Choose, SetRegulator
  <2>2. mode' \in {mode, "standby"} /\ converter' \in {on, converter}
    BY <1>8 DEF Choose, SetRegulator, InStandby, Standby, Perhaps
  <2> QED
    BY <1>0, <1>a, <1>b, <1>8, <2>1, <2>2, ConsoleKeyInv DEF Choose
<1>9. ASSUME NEW on \in BOOLEAN, RouteKey(on)
      PROVE  BenchInv'
  <2>1. FaultsOK' /\ routed' \in {on, routed}
    BY <1>0, <1>9, AnsweredFacts DEF RouteKey, Route, Perhaps
  <2> QED
    BY <1>0, <1>a, <1>b, <1>9, <2>1, ConsoleKeyInv DEF RouteKey
<1>10. CASE WakeRadio
  <2>1. FaultsOK' /\ mode' \in {mode, "standby"}
    BY <1>0, <1>10, AnsweredFacts DEF WakeRadio, stop_cw, Standby, Perhaps, FaultsOK
  <2>2. limit' \in -1..Burst
    BY <1>0, <1>a, <1>10, BenchBounds DEF WakeRadio
  <2> QED
    BY <1>0, <1>10, <2>1, <2>2, ConsoleKeyInv DEF WakeRadio
<1> QED
  BY <1>1, <1>2, <1>3, <1>4, <1>5, <1>6, <1>7, <1>8, <1>9, <1>10
     DEF BenchKey, tx_packet, rx_listen, rx_sweep

LEMMA BenchAlways == BenchSpec => []BenchInv
<1>1. BenchInit => BenchInv
  <2> SUFFICES ASSUME BenchInit
               PROVE  BenchInv
    OBVIOUS
  <2>1. DEFAULT \in ConfigSet /\ -1 \in -1..Burst
    BY BenchBounds DEF ConfigSet, DEFAULT
  <2>2. pressed \in 0..MaxPressed /\ radioFaults \in 0..MaxRefused
    BY BenchBounds DEF BenchInit
  <2>3. ConsoleOK
    BY <2>1, <2>2 DEF BenchInit, ConsoleOK, Steps
  <2> QED
    BY <2>2, <2>3 DEF BenchInit, BenchInv, ChipOK, FaultsOK, Evidence,
       AttachedIsTheChip, SwitchedWhenRunning
<1>2. ASSUME BenchInv, [BenchNext]_benchVars
      PROVE  BenchInv'
  <2>1. CASE UNCHANGED benchVars
    BY <1>2, <2>1 DEF benchVars, BenchInv, ConsoleOK, ChipOK, FaultsOK, Evidence,
       AttachedIsTheChip, SwitchedWhenRunning
  <2> QED
    BY <1>2, <2>1, BenchStepInv, BenchKeyInv DEF BenchNext
<1> QED
  BY <1>1, <1>2, PTL DEF BenchSpec

(* `j` is right about the line, whatever state the chip is in.             *)
LEMMA ProvedStep ==
    ASSUME BenchInv, [BenchNext]_benchVars, follows', pressed' # pressed, ~follows
    PROVE  routed /\ board.line = "free"
<1>1. provoke_irq
  BY DEF BenchNext, BenchStep, BenchKey, WakeRadio, Terminal, ResetRadio, Version,
     VersionFails, AttachDriver, AttachFails, Regulator, Tcxo, RfSwitch, Irq,
     NextStep, StartCw, StopCw, Apply, Edit, tx_packet, rx_listen, rx_sweep, Use,
     Reinit, Choose, RouteKey, benchVars
<1>2. ~IrqHigh(FALSE) /\ IrqHigh(~typed)
  BY <1>1 DEF provoke_irq, Follows
<1>3. board.line \in {"free", "stuck"}
  BY DEF BenchInv, ConsoleOK, BenchBoards
<1> QED
  BY <1>2, <1>3 DEF IrqHigh

(* What takes the limit away takes the carrier away.                       *)
LEMMA LimitStep ==
    ASSUME BenchInv, [BenchNext]_benchVars,
           limit # -1, limit' = -1, radioFaults = 0, radioFaults' = 0,
           mode = "carrier", Usable(cfg), cfg.step \notin {0, TopStep}
    PROVE  mode' # "carrier"
<1>1. attached /\ ~wedged /\ FaultsOK
  BY DEF BenchInv, ChipOK, FaultsOK
<1>2. ~Failed
  BY <1>1, AnsweredFacts
<1>3. \A offset \in {-1, 0, 1} : Shifted(cfg, offset)
  BY BenchBounds DEF BenchInv, ConsoleOK, ConfigSet, Shifted
<1>4. ASSUME NEW offset \in {-1, 0, 1}, Use(offset)
      PROVE  mode' # "carrier"
  BY <1>1, <1>2, <1>3, <1>4 DEF Use, Applied, Standby
<1>5. CASE StopCw \/ WakeRadio
  <2>1. stop_cw
    BY <1>1, <1>5, BenchBounds DEF StopCw, WakeRadio, BenchInv, ConsoleOK
  <2> QED
    BY <1>2, <2>1 DEF stop_cw, Standby
<1>6. ASSUME NEW on \in BOOLEAN, Reinit(on) \/ Choose(on)
      PROVE  mode' # "carrier"
  BY <1>2, <1>6 DEF Reinit, Choose, SetRegulator, InStandby, Standby
<1>7. CASE StartCw
  <2>1. limit' = Burst
    BY <1>2, <1>7 DEF StartCw
  <2> QED
    BY <2>1, BenchBounds
<1>8. CASE \/ BenchStep \/ Apply \/ provoke_irq \/ Edit \/ UNCHANGED benchVars
           \/ \E on \in BOOLEAN : RouteKey(on)
  BY <1>8 DEF BenchStep, Terminal, ResetRadio, Version, VersionFails, AttachDriver,
     AttachFails, Regulator, Tcxo, RfSwitch, Irq, NextStep, Apply, provoke_irq, Edit,
     RouteKey, benchVars
<1> QED
  BY <1>4, <1>5, <1>6, <1>7, <1>8 DEF BenchNext, BenchKey, tx_packet, rx_listen, rx_sweep

(* The driver, that waits for BUSY without a limit, is given an LR1121     *)
(* whose BUSY works and nothing else, the antenna switch is set on a chip  *)
(* whose oscillator runs, the line is called good only when it is, and     *)
(* a carrier's limit is given up with the carrier (bring_up, start_tcxo,   *)
(* provoke_irq, console).                                                  *)
LEMMA BenchIsRight == BenchSpec => []BenchCorrect /\ ProvedIsRouted /\ LimitGoesWithIt
<1>1. BenchInv => BenchTypeOK /\ AttachedIsTheChip /\ SwitchedWhenRunning
  BY DEF BenchInv, BenchTypeOK, ConsoleOK, ChipOK, FaultsOK, ConfigSet
<1>2. ASSUME BenchInv, [BenchNext]_benchVars
      PROVE  [follows' /\ pressed' # pressed /\ ~follows =>
                routed /\ board.line = "free"]_benchVars
  BY <1>2, ProvedStep
<1>3. ASSUME BenchInv, [BenchNext]_benchVars
      PROVE  [(limit # -1 /\ limit' = -1 /\ radioFaults = 0 /\ radioFaults' = 0
                /\ mode = "carrier" /\ Usable(cfg) /\ cfg.step \notin {0, TopStep})
              => mode' # "carrier"]_benchVars
  BY <1>3, LimitStep
<1> QED
  BY BenchAlways, <1>1, <1>2, <1>3, PTL
     DEF BenchSpec, BenchCorrect, ProvedIsRouted, LimitGoesWithIt

-----------------------------------------------------------------------------
(* Buzzer.                                                                 *)

LEMMA BuzzerAlways == BuzzerSpec => []BuzzerCorrect
<1> DEFINE Inv == BuzzerTypeOK /\ sounds \in Nat /\ patterns \in Nat
                  /\ (asked => patterns < sounds)
<1>0. Pattern \in Nat /\ Pattern # 0 /\ MaxSounds \in Nat
  BY BuzzerAssumption DEF BuzzerAssumption
<1>1. BuzzerInit => Inv
  <2> SUFFICES ASSUME BuzzerInit
               PROVE  Inv
    OBVIOUS
  <2>1. 0 % 2 = 0 /\ sounds \in 0..MaxSounds /\ playing \in 0..Pattern
    BY <1>0 DEF BuzzerInit
  <2>2. pin = (IF playing % 2 = 1 THEN "tone" ELSE "low") /\ patterns <= sounds
    BY <2>1 DEF BuzzerInit
  <2>3. asked \in BOOLEAN /\ ~asked /\ sounds \in Nat /\ patterns \in Nat
    BY DEF BuzzerInit
  <2> QED
    BY <2>1, <2>2, <2>3 DEF BuzzerTypeOK
<1>2. ASSUME Inv, [BuzzerNext]_buzzerVars
      PROVE  Inv'
  <2>1. CASE sound
    BY <1>0, <1>2, <2>1 DEF sound, BuzzerTypeOK
  <2>2. CASE Begin
    <3>1. asked /\ asked' = FALSE /\ playing' = 1 /\ pin' = PinAt(1)
          /\ patterns' = patterns + 1 /\ sounds' = sounds
      BY <2>2 DEF Begin
    <3>2. patterns + 1 <= sounds /\ patterns + 1 \in Nat
      BY <1>2, <3>1
    <3>3. 1 \in 0..Pattern /\ 1 % 2 = 1
      BY <1>0
    <3> QED
      BY <1>2, <3>1, <3>2, <3>3 DEF PinAt, BuzzerTypeOK
  <2>3. CASE Over
    BY <1>0, <1>2, <2>3 DEF Over, PinAt, Taken, BuzzerTypeOK
  <2>4. CASE UNCHANGED buzzerVars
    BY <1>2, <2>4 DEF buzzerVars, BuzzerTypeOK
  <2> QED
    BY <1>2, <2>1, <2>2, <2>3, <2>4 DEF BuzzerNext
<1>3. Inv => BuzzerTypeOK
  OBVIOUS
<1> QED
  BY <1>1, <1>2, <1>3, PTL DEF BuzzerSpec, BuzzerCorrect

-----------------------------------------------------------------------------
(* Glass.                                                                  *)

GlassInv == GlassTypeOK /\ CleanIsShown /\ PictureComesBack

LEMMA GlassBounds ==
    /\ Width \in Nat /\ Height \in Nat /\ PageHeight \in Nat /\ PageHeight # 0
    /\ Interval \in Nat /\ MaxFaults \in Nat /\ MaxGestures \in Nat /\ MaxLines \in Nat
    /\ Height = 2 * FB_HEIGHT /\ Width = 2 * FB_WIDTH
    /\ FB_HEIGHT \in Nat /\ FB_WIDTH \in Nat
BY GlassAssumption DEF GlassAssumption, FB_HEIGHT, FB_WIDTH

LEMMA ScreenOnPanel == \A s \in Screens : s \subseteq Panel
BY GlassAssumption DEF GlassAssumption, Panel

(* Of what is to be sent: the pages sent are shown, and those broken off    *)
(* are still to be sent.                                                   *)
LEMMA FlushFacts ==
    ASSUME NEW f \in SUBSET Panel, NEW d \in SUBSET Pages,
           \A p \in Pages \ d : memory[p] = page(f, p),
           \A p \in Pages : memory[p] = Torn \/ memory[p] \in SUBSET Panel,
           faults \in 0..MaxFaults,
           flush_pages(f, d)
    PROVE  /\ faults' \in 0..MaxFaults /\ dirty' \subseteq Pages
           /\ \A p \in Pages : memory'[p] = Torn \/ memory'[p] \in SUBSET Panel
           /\ \A p \in Pages \ dirty' : memory'[p] = page(f, p)
<1> DEFINE reached(n) == FirstOf(Batch(d), n)
           fails(n) == n < Cardinality(Batch(d))
           failed(n) == FirstOf(Batch(d), n + 1) \ reached(n)
<1>1. PICK n \in 0..Cardinality(Batch(d)), torn \in SUBSET d :
        /\ fails(n) => faults < MaxFaults
        /\ faults' = IF fails(n) THEN faults + 1 ELSE faults
        /\ dirty' = d \ reached(n) /\ torn \cap reached(n) = {}
        /\ memory' = [p \in Pages |-> IF p \in reached(n) THEN page(f, p)
                                      ELSE IF p \in torn THEN Torn ELSE memory[p]]
  <2>1. PICK n \in 0..Cardinality(Batch(d)) :
        /\ fails(n) => faults < MaxFaults
        /\ faults' = IF fails(n) THEN faults + 1 ELSE faults
        /\ dirty' = d \ reached(n)
        /\ \E torn \in {{}, failed(n)} :
            memory' = [p \in Pages |-> IF p \in reached(n) THEN page(f, p)
                                       ELSE IF p \in torn THEN Torn ELSE memory[p]]
    BY DEF flush_pages, MarkedSent
  <2>2. Batch(d) \subseteq d /\ failed(n) \subseteq Batch(d) /\ failed(n) \cap reached(n) = {}
    BY DEF Batch, FirstOf
  <2> QED
    BY <2>1, <2>2
<1>2. \A p \in Pages : page(f, p) \in SUBSET Panel
  BY DEF page
<1>3. reached(n) \subseteq d
  BY DEF FirstOf, Batch
<1> HIDE DEF reached
<1>4. faults' \in 0..MaxFaults
  BY <1>1, GlassBounds
<1>5. dirty' \subseteq Pages
  BY <1>1
<1>6. \A p \in Pages : memory'[p] = Torn \/ memory'[p] \in SUBSET Panel
  BY <1>1, <1>2
<1>7. \A p \in Pages \ dirty' : memory'[p] = page(f, p)
  BY <1>1, <1>3
<1> QED
  BY <1>4, <1>5, <1>6, <1>7

(* Drawn over the panel and folded back, a picture is itself, its columns  *)
(* doubled.                                                                *)
LEMMA DrawnComesBack ==
    read_display(draw) =
        {px \in (0..(Width - 1)) \X (0..(FB_HEIGHT - 1)) : <<px[1] \div 2, px[2]>> \in picture}
<1> SUFFICES ASSUME NEW x \in 0..(Width - 1), NEW y \in 0..(FB_HEIGHT - 1)
             PROVE  (\E dy \in {0, 1} : <<x, y * 2 + dy>> \in draw)
                        <=> <<x \div 2, y>> \in picture
  BY DEF read_display
<1>1. ASSUME NEW dy \in {0, 1}
      PROVE  y * 2 + dy \in 0..(Height - 1) /\ (y * 2 + dy) \div 2 = y
  BY GlassBounds
<1>2. ASSUME NEW dy \in {0, 1}
      PROVE  <<x, y * 2 + dy>> \in draw <=> <<x \div 2, y>> \in picture
  BY <1>1 DEF draw, Panel
<1> QED
  BY <1>2

LEMMA PassInv ==
    ASSUME GlassInv, Pass
    PROVE  GlassInv'
<1>1. PICK s \in Screens :
        LET scratch == IF enabled THEN draw ELSE s
            marked == IF due THEN dirty \cup Differ(live, scratch) ELSE dirty
        IN  /\ live' = IF due THEN scratch ELSE live
            /\ committed' = IF due THEN IF enabled THEN picture ELSE NoPicture
                                   ELSE committed
            /\ IF screenAsleep \/ marked = {}
               THEN dirty' = marked /\ UNCHANGED <<memory, faults>>
               ELSE flush_pages(live', marked)
  BY DEF Pass
<1> DEFINE scratch == IF enabled THEN draw ELSE s
           marked == IF due THEN dirty \cup Differ(live, scratch) ELSE dirty
<1>2. /\ elapsed' = IF due THEN 0 ELSE elapsed + 1
      /\ UNCHANGED <<panel, lit, screenAsleep, picture, enabled, touched, lines>>
  BY DEF Pass
<1>3. live' = (IF due THEN scratch ELSE live) /\ live' \in SUBSET Panel
  BY <1>1, ScreenOnPanel DEF GlassInv, GlassTypeOK, draw
<1>4. /\ marked \in SUBSET Pages
      /\ \A p \in Pages \ marked : memory[p] = page(live', p)
  BY <1>3 DEF GlassInv, GlassTypeOK, CleanIsShown, Differ
<1>5. /\ faults' \in 0..MaxFaults /\ dirty' \subseteq Pages
      /\ \A p \in Pages : memory'[p] = Torn \/ memory'[p] \in SUBSET Panel
      /\ \A p \in Pages \ dirty' : memory'[p] = page(live', p)
  <2>1. CASE screenAsleep \/ marked = {}
    BY <1>1, <1>4, <2>1 DEF GlassInv, GlassTypeOK
  <2>2. CASE ~(screenAsleep \/ marked = {})
    <3>1. flush_pages(live', marked)
      BY <1>1, <2>2
    <3> HIDE DEF marked
    <3> QED
      BY <1>3, <1>4, <3>1, FlushFacts DEF GlassInv, GlassTypeOK
  <2> QED
    BY <2>1, <2>2
<1>6. elapsed' \in 0..Interval
  BY <1>2, GlassBounds DEF due, GlassInv, GlassTypeOK
<1>7. GlassTypeOK'
  BY <1>2, <1>3, <1>5, <1>6 DEF GlassInv, GlassTypeOK
<1>8. PictureComesBack'
  <2>1. CASE due /\ enabled
    <3>1. live' = draw /\ committed' = picture
      BY <1>1, <2>1
    <3> QED
      BY <3>1, DrawnComesBack DEF PictureComesBack, read_display
  <2>2. CASE due /\ ~enabled
    <3>1. committed' = NoPicture
      BY <1>1, <2>2
    <3> QED
      BY <3>1 DEF PictureComesBack
  <2>3. CASE ~due
    <3>1. live' = live /\ committed' = committed
      BY <1>1, <2>3
    <3> QED
      BY <3>1 DEF GlassInv, PictureComesBack, read_display
  <2> QED
    BY <2>1, <2>2, <2>3
<1> QED
  BY <1>5, <1>7, <1>8 DEF GlassInv, CleanIsShown

LEMMA GlassAlways == GlassSpec => []GlassCorrect
<1>1. GlassInit => GlassInv
  <2> SUFFICES ASSUME GlassInit
               PROVE  GlassInv
    OBVIOUS
  <2>1. /\ elapsed \in 0..Interval /\ faults \in 0..MaxFaults
        /\ touched \in 0..MaxGestures /\ lines \in 0..MaxLines
    BY GlassBounds DEF GlassInit
  <2>2. \A p \in Pages : memory[p] = Torn
    BY DEF GlassInit
  <2>3. /\ panel = "off" /\ lit = FALSE /\ screenAsleep = FALSE /\ enabled = FALSE
        /\ live = {} /\ dirty = Pages /\ picture = {} /\ committed = NoPicture
    BY DEF GlassInit
  <2> HIDE DEF GlassInit
  <2>4. GlassTypeOK
    BY <2>1, <2>2, <2>3 DEF GlassTypeOK
  <2> QED
    BY <2>3, <2>4 DEF GlassInv, CleanIsShown, PictureComesBack
<1>2. ASSUME GlassInv, [GlassNext]_glassVars
      PROVE  GlassInv'
  <2>1. CASE Pass
    BY <1>2, <2>1, PassInv
  <2>2. CASE PanelUp \/ UNCHANGED glassVars
    BY <1>2, <2>2 DEF PanelUp, glassVars, GlassInv, GlassTypeOK, CleanIsShown,
       PictureComesBack, read_display
  <2>3. CASE Woken \/ PanelSleep
    <3>a. faults \in 0..MaxFaults /\ elapsed \in 0..Interval /\ touched \in 0..MaxGestures
          /\ lit \in BOOLEAN
      BY <1>2 DEF GlassInv, GlassTypeOK
    <3>b. \/ UNCHANGED <<lit, faults>>
          \/ lit' \in BOOLEAN /\ faults' = faults
          \/ lit' = lit /\ faults < MaxFaults /\ faults' = faults + 1
      BY <2>3 DEF Woken, PanelSleep, PowerPanel
    <3>c. faults' \in 0..MaxFaults
      BY <3>a, <3>b, GlassBounds
    <3>d. lit' \in BOOLEAN
      BY <3>a, <3>b
    <3>1. faults' \in 0..MaxFaults /\ lit' \in BOOLEAN
      BY <3>c, <3>d
    <3>e. /\ elapsed' \in {Interval, elapsed} /\ screenAsleep' \in BOOLEAN
          /\ touched' = touched \/ (touched < MaxGestures /\ touched' = touched + 1)
      BY <2>3 DEF Woken, PanelSleep
    <3>f. elapsed' \in 0..Interval /\ touched' \in 0..MaxGestures
      BY <3>a, <3>e, GlassBounds
    <3>2. elapsed' \in 0..Interval /\ touched' \in 0..MaxGestures /\ screenAsleep' \in BOOLEAN
      BY <3>e, <3>f
    <3>3. UNCHANGED <<panel, memory, live, dirty, picture, enabled, committed, lines>>
      BY <2>3 DEF Woken, PanelSleep
    <3> QED
      BY <1>2, <3>1, <3>2, <3>3 DEF GlassInv, GlassTypeOK, CleanIsShown,
         PictureComesBack, read_display
  <2>4. CASE mark_all_dirty
    BY <1>2, <2>4, GlassBounds DEF mark_all_dirty, GlassInv, GlassTypeOK, CleanIsShown,
       PictureComesBack, read_display
  <2>5. CASE write_line
    <3>1. picture' \subseteq (0..(FB_WIDTH - 1)) \X (0..(FB_HEIGHT - 1))
      BY <1>2, <2>5, GlassBounds DEF write_line, Stored, GlassInv, GlassTypeOK
    <3>2. lines' \in 0..MaxLines
      BY <1>2, <2>5, GlassBounds DEF write_line, GlassInv, GlassTypeOK
    <3> QED
      BY <1>2, <2>5, <3>1, <3>2 DEF write_line, GlassInv, GlassTypeOK, CleanIsShown,
         PictureComesBack, read_display
  <2>6. CASE set_enabled
    BY <1>2, <2>6, GlassBounds DEF set_enabled, GlassInv, GlassTypeOK, CleanIsShown,
       PictureComesBack, read_display
  <2> QED
    BY <1>2, <2>1, <2>2, <2>3, <2>4, <2>5, <2>6 DEF GlassNext
<1> QED
  BY <1>1, <1>2, PTL DEF GlassSpec, GlassCorrect, GlassInv

-----------------------------------------------------------------------------
(* Battery.                                                                *)

LEMMA BatteryBounds ==
    /\ Scale \in Nat /\ Scale # 0 /\ MaxChanges \in Nat /\ DeadBand \in Nat
    /\ \A c \in Counts : c \in Int
    /\ NoCell \notin Int /\ NoCell \notin [millivolts : Int, percent : Int]
BY BatteryAssumption DEF BatteryAssumption

LEMMA Table ==
    /\ OCV_MV[1] = 4050 /\ OCV_MV[2] = 4010 /\ OCV_MV[3] = 3990 /\ OCV_MV[4] = 3930
    /\ OCV_MV[5] = 3870 /\ OCV_MV[6] = 3820 /\ OCV_MV[7] = 3740 /\ OCV_MV[8] = 3630
    /\ OCV_MV[9] = 3550 /\ OCV_MV[10] = 3450 /\ OCV_MV[11] = 3100
BY DEF OCV_MV

Spans == {40, 20, 60, 50, 80, 110, 100, 350}

LEMMA TableFalls ==
    /\ \A i \in 1..11 : OCV_MV[i] \in Int
    /\ \A i \in 1..10 : OCV_MV[i] - OCV_MV[i + 1] \in Spans /\ OCV_MV[i + 1] < OCV_MV[i]
    /\ \A i, j \in 1..11 : i <= j => OCV_MV[j] <= OCV_MV[i]
<1>1. \A i \in 1..11 : i = 1 \/ i = 2 \/ i = 3 \/ i = 4 \/ i = 5 \/ i = 6 \/ i = 7
                          \/ i = 8 \/ i = 9 \/ i = 10 \/ i = 11
  OBVIOUS
<1>2. \A i \in 1..11 : OCV_MV[i] \in Int
  BY <1>1, Table
<1>3. \A i \in 1..10 : OCV_MV[i] - OCV_MV[i + 1] \in Spans /\ OCV_MV[i + 1] < OCV_MV[i]
  BY <1>1, Table DEF Spans
<1>4. \A i, j \in 1..11 : i <= j => OCV_MV[j] <= OCV_MV[i]
  BY <1>1, Table
<1> QED
  BY <1>2, <1>3, <1>4

\* A step's line, from 0 to 10
Line(x, span) == (x * 10 + span \div 2) \div span

LEMMA LineFacts ==
    ASSUME NEW span \in Spans, NEW x \in 0..(span - 1)
    PROVE  /\ Line(0, span) = 0 /\ Line(span, span) = 10
           /\ Line(x, span) \in 0..10 /\ Line(x + 1, span) \in 0..10
           /\ Line(x, span) <= Line(x + 1, span)
           /\ Line(x + 1, span) <= Line(x, span) + 1
<1>1. CASE span = 40
  BY <1>1 DEF Line
<1>2. CASE span = 20
  BY <1>2 DEF Line
<1>3. CASE span = 60
  BY <1>3 DEF Line
<1>4. CASE span = 50
  BY <1>4 DEF Line
<1>5. CASE span = 80
  BY <1>5 DEF Line
<1>6. CASE span = 110
  BY <1>6 DEF Line
<1>7. CASE span = 100
  BY <1>7 DEF Line
<1>8. CASE span = 350
  BY <1>8 DEF Line
<1> QED
  BY <1>1, <1>2, <1>3, <1>4, <1>5, <1>6, <1>7, <1>8 DEF Spans

LEMMA LineStart == \A span \in Spans : Line(0, span) = 0
<1> SUFFICES ASSUME NEW span \in Spans
             PROVE  Line(0, span) = 0
  OBVIOUS
<1>1. 0 \in 0..(span - 1)
  BY DEF Spans
<1> QED
  BY <1>1, LineFacts

(* Between two points of the table the charge is on the line between them. *)
LEMMA PercentAt ==
    ASSUME NEW mv \in Int, NEW i \in 1..10, OCV_MV[i + 1] <= mv, mv < OCV_MV[i]
    PROVE  percent(mv) = 90 - 10 * (i - 1)
                            + Line(mv - OCV_MV[i + 1], OCV_MV[i] - OCV_MV[i + 1])
<1> DEFINE steps == {k \in 1..10 : mv >= OCV_MV[k + 1]}
           first == CHOOSE k \in steps : \A j \in steps : k <= j
<1>1. i \in steps /\ \A j \in steps : i <= j
  BY TableFalls
<1>2. first \in steps /\ \A j \in steps : first <= j
  BY <1>1
<1>3. first = i
  BY <1>1, <1>2
<1>4. mv < OCV_MV[1] /\ mv >= OCV_MV[11]
  BY TableFalls
<1>5. percent(mv) = StepPercent(first, mv)
  BY <1>4, Table DEF percent
<1> HIDE DEF first
<1>6. percent(mv) = 100 - 10 * (i - 1) - 10
                        + Line(mv - OCV_MV[i + 1], OCV_MV[i] - OCV_MV[i + 1])
  BY <1>3, <1>5 DEF StepPercent, Line
<1>7. Line(mv - OCV_MV[i + 1], OCV_MV[i] - OCV_MV[i + 1]) \in Int
  BY TableFalls, LineFacts
<1> QED
  BY <1>6, <1>7

LEMMA OutsideTable ==
    ASSUME NEW mv \in Int
    PROVE  /\ mv >= OCV_MV[1] => percent(mv) = 100
           /\ mv < OCV_MV[11] => percent(mv) = 0
           /\ OCV_MV[11] <= mv /\ mv < OCV_MV[1] =>
                \E i \in 1..10 : OCV_MV[i + 1] <= mv /\ mv < OCV_MV[i]
BY Table DEF percent

LEMMA PercentRange == \A mv \in Int : percent(mv) \in 0..100
<1> SUFFICES ASSUME NEW mv \in Int
             PROVE  percent(mv) \in 0..100
  OBVIOUS
<1>1. ASSUME NEW i \in 1..10, OCV_MV[i + 1] <= mv, mv < OCV_MV[i]
      PROVE  percent(mv) \in 0..100
  <2>1. Line(mv - OCV_MV[i + 1], OCV_MV[i] - OCV_MV[i + 1]) \in 0..10
    BY <1>1, TableFalls, LineFacts
  <2> QED
    BY <1>1, <2>1, PercentAt
<1> QED
  BY <1>1, OutsideTable, TableFalls

(* One millivolt up, the charge is the same or one percent up, on a step   *)
(* of the table and from one to the next.                                  *)
LEMMA NextMillivolt ==
    ASSUME NEW mv \in Int, NEW up \in Int, up = mv + 1
    PROVE  percent(mv) <= percent(up) /\ percent(up) <= percent(mv) + 1
<1>1. CASE mv >= OCV_MV[1]
  BY <1>1, OutsideTable, TableFalls
<1>2. CASE up < OCV_MV[11]
  BY <1>2, OutsideTable, TableFalls
<1>3. CASE up = OCV_MV[11]
  <2>1. percent(mv) = 0
    BY <1>3, OutsideTable, TableFalls
  <2>2. percent(up) = 90 - 10 * 9 + Line(up - OCV_MV[11], OCV_MV[10] - OCV_MV[11])
    BY <1>3, PercentAt, Table
  <2>3. Line(0, 350) = 0
    BY LineStart DEF Spans
  <2> QED
    BY <1>3, <2>1, <2>2, <2>3, Table
<1>4. ASSUME NEW i \in 1..10, OCV_MV[i + 1] <= mv, mv < OCV_MV[i]
      PROVE  percent(mv) <= percent(up) /\ percent(up) <= percent(mv) + 1
  <2> DEFINE span == OCV_MV[i] - OCV_MV[i + 1]
             x == mv - OCV_MV[i + 1]
             base == 90 - 10 * (i - 1)
  <2>2. span \in Spans /\ x \in 0..(span - 1) /\ span \in Int
    BY <1>4, TableFalls
  <2>3. percent(mv) = base + Line(x, span)
    BY <1>4, PercentAt
  <2>4. percent(up) = base + Line(x + 1, span)
    <3>1. CASE up < OCV_MV[i]
      <4>1. OCV_MV[i + 1] <= up
        BY <1>4, TableFalls
      <4>2. percent(up) = base + Line(up - OCV_MV[i + 1], span)
        BY <3>1, <4>1, PercentAt
      <4>3. up - OCV_MV[i + 1] = x + 1
        BY TableFalls
      <4> QED
        BY <4>2, <4>3
    <3>2. CASE up >= OCV_MV[i]
      <4>1. up = OCV_MV[i] /\ x + 1 = span
        BY <1>4, <3>2, TableFalls
      <4>2. Line(x + 1, span) = 10
        BY <2>2, <4>1, LineFacts
      <4>3. CASE i = 1
        BY <4>1, <4>2, <4>3, OutsideTable, TableFalls
      <4>4. ASSUME NEW k \in 1..10, k + 1 = i
            PROVE  percent(up) = base + Line(x + 1, span)
        <5>1. /\ OCV_MV[k + 1] = up /\ up < OCV_MV[k]
              /\ OCV_MV[k] - OCV_MV[k + 1] \in Spans
          BY <4>1, <4>4, TableFalls
        <5>2. percent(up) = 90 - 10 * (k - 1)
                                + Line(up - OCV_MV[k + 1], OCV_MV[k] - OCV_MV[k + 1])
          BY <5>1, PercentAt
        <5>3. Line(0, OCV_MV[k] - OCV_MV[k + 1]) = 0
          BY <5>1, LineStart
        <5>4. up - OCV_MV[k + 1] = 0
          BY <5>1
        <5>5. percent(up) = 90 - 10 * (k - 1) + 0
          BY <5>2, <5>3, <5>4
        <5>6. base + 10 = 90 - 10 * (k - 1) + 0
          BY <4>4
        <5> QED
          BY <4>2, <5>5, <5>6
      <4>5. i = 1 \/ \E k \in 1..10 : k + 1 = i
        <5>1. i = 1 \/ (i - 1 \in 1..10 /\ (i - 1) + 1 = i)
          OBVIOUS
        <5> QED
          BY <5>1
      <4> QED
        BY <4>3, <4>4, <4>5
    <3> QED
      BY <3>1, <3>2, TableFalls
  <2>5. /\ Line(x, span) \in 0..10 /\ Line(x + 1, span) \in 0..10
        /\ Line(x, span) <= Line(x + 1, span) /\ Line(x + 1, span) <= Line(x, span) + 1
    <3> HIDE DEF span, x
    <3> QED
      BY <2>2, LineFacts
  <2>6. base \in Int
    OBVIOUS
  <2> HIDE DEF span, x, base
  <2> QED
    BY <2>3, <2>4, <2>5, <2>6
<1> QED
  BY <1>1, <1>2, <1>3, <1>4, OutsideTable, TableFalls

\* What is averaged and what is shown.
ReadingOf(d) == d \in [millivolts : Int, percent : 0..100] /\ d.millivolts >= NO_CELL_BELOW_MV
Averaged(a) == a \in Int /\ a >= NO_CELL_BELOW_MV * Scale

BatteryInv ==
    /\ count \in Counts \cup {0} /\ changes \in 0..MaxChanges
    /\ average = NoCell \/ Averaged(average)
    /\ display = NoCell \/ ReadingOf(display)
    /\ (average = NoCell) = (display = NoCell)
    /\ ramp \in Int

LEMMA ScaleFacts ==
    /\ NO_CELL_BELOW_MV * Scale \in Nat
    /\ \A v \in Int : v >= NO_CELL_BELOW_MV => Averaged(v * Scale)
    /\ \A a \in Int : Averaged(a) => a \div Scale \in Int /\ a \div Scale >= NO_CELL_BELOW_MV
<1>1. Scale \in Nat /\ Scale > 0
  BY BatteryBounds
<1>2. \A v \in Int : v * Scale \in Int
  BY <1>1
<1>3. \A v \in Int : v >= 2500 => v * Scale >= 2500 * Scale
  BY <1>1
<1>4. \A a \in Int : a >= 2500 * Scale => a \div Scale >= 2500
  BY <1>1
<1>5. \A a \in Int : a \div Scale \in Int
  BY <1>1
<1> QED
  BY <1>1, <1>2, <1>3, <1>4, <1>5 DEF Averaged, NO_CELL_BELOW_MV

LEMMA CloserFacts ==
    ASSUME NEW a \in Int, NEW t \in Int, Averaged(a), Averaged(t)
    PROVE  Averaged(Closer(a, t))
<1> DEFINE b == NO_CELL_BELOW_MV * Scale
<1>1. b \in Int /\ a >= b /\ t >= b
  BY ScaleFacts DEF Averaged
<1> HIDE DEF b
<1>2. Closer(a, t) \in Int /\ Closer(a, t) >= b
  <2>1. CASE t - a >= 0
    BY <1>1, <2>1 DEF Closer, Quotient
  <2>2. CASE ~(t - a >= 0)
    BY <1>1, <2>2 DEF Closer, Quotient
  <2> QED
    BY <2>1, <2>2
<1> QED
  BY <1>2 DEF Averaged, b

LEMMA ReadingFacts ==
    ASSUME NEW c \in Int
    PROVE  reading(c) = NoCell \/ (reading(c) \in Int /\ reading(c) >= NO_CELL_BELOW_MV)
<1>1. cell_millivolts(c) \in Int
  BY DEF cell_millivolts, pin_millivolts
<1> QED
  BY <1>1 DEF reading, NO_CELL_BELOW_MV

LEMMA ReadCellInv ==
    ASSUME BatteryInv, ReadCell
    PROVE  BatteryInv'
<1> DEFINE mv == reading(count)
           avg == IF average = NoCell THEN mv * Scale ELSE Closer(average, mv * Scale)
           value == avg \div Scale
<1>1. UNCHANGED <<count, changes, ramp>> /\ update
  BY DEF ReadCell
<1>2. count \in Int
  BY BatteryBounds DEF BatteryInv
<1>3. CASE mv = NoCell
  <2>1. display' = NoCell /\ average' = NoCell
    BY <1>1, <1>3 DEF update
  <2> QED
    BY <1>1, <2>1 DEF BatteryInv
<1>4. CASE mv # NoCell
  <2>1. mv \in Int /\ mv >= NO_CELL_BELOW_MV
    BY <1>2, <1>4, ReadingFacts
  <2>2. Averaged(mv * Scale) /\ mv * Scale \in Int
    BY <2>1, ScaleFacts DEF Averaged
  <2>3. Averaged(avg) /\ avg \in Int
    <3>1. CASE average = NoCell
      BY <2>2, <3>1
    <3>2. CASE average # NoCell
      <4>1. Averaged(average) /\ average \in Int
        BY <3>2 DEF BatteryInv, Averaged
      <4>2. Averaged(Closer(average, mv * Scale))
        BY <2>2, <4>1, CloserFacts
      <4> QED
        BY <3>2, <4>2 DEF Averaged
    <3> QED
      BY <3>1, <3>2
  <2>4. value \in Int /\ value >= NO_CELL_BELOW_MV
    BY <2>3, ScaleFacts
  <2>5. ReadingOf([millivolts |-> value, percent |-> percent(value)])
    BY <2>4, PercentRange DEF ReadingOf
  <2>6. /\ average' = avg
        /\ display' = [millivolts |-> value, percent |-> percent(value)]
             \/ (display # NoCell /\ display' = display)
    BY <1>1, <1>4 DEF update
  <2> HIDE DEF value, avg, mv
  <2>7. average' # NoCell /\ Averaged(average')
    BY <2>3, <2>6, BatteryBounds
  <2>8. ReadingOf(display')
    BY <2>5, <2>6 DEF BatteryInv
  <2>9. display' # NoCell
    BY <2>8, BatteryBounds DEF ReadingOf
  <2> QED
    BY <1>1, <2>7, <2>8, <2>9 DEF BatteryInv
<1> QED
  BY <1>3, <1>4

LEMMA BatteryAlways == BatterySpec => []BatteryCorrect
<1>1. BatteryInit => BatteryInv
  BY BatteryBounds, Table DEF BatteryInit, BatteryInv, RampFrom
<1>2. ASSUME BatteryInv, [BatteryNext]_batteryVars
      PROVE  BatteryInv'
  <2>1. CASE ReadCell
    BY <1>2, <2>1, ReadCellInv
  <2>2. CASE Changed
    BY <1>2, <2>2, BatteryBounds DEF Changed, BatteryInv
  <2>3. CASE Walk
    BY <1>2, <2>3 DEF Walk, BatteryInv
  <2>4. CASE UNCHANGED batteryVars
    BY <1>2, <2>4 DEF batteryVars, BatteryInv
  <2> QED
    BY <1>2, <2>1, <2>2, <2>3, <2>4 DEF BatteryNext
<1>3. BatteryInv => BatteryTypeOK /\ ChargeIsMonotone
  <2> SUFFICES ASSUME BatteryInv
               PROVE  BatteryTypeOK /\ ChargeIsMonotone
    OBVIOUS
  <2>1. BatteryTypeOK
    BY DEF BatteryInv, BatteryTypeOK, Averaged, ReadingOf
  <2>2. ramp \in Int /\ ramp + 1 \in Int
    BY DEF BatteryInv
  <2> QED
    BY <2>1, <2>2, NextMillivolt DEF ChargeIsMonotone
<1> QED
  BY <1>1, <1>2, <1>3, PTL DEF BatterySpec, BatteryCorrect

-----------------------------------------------------------------------------
(* Pad.  A level that is not the finger's was seen no longer ago than the  *)
(* finger moved, while the contact may still bounce, and that is too short *)
(* to be believed.                                                         *)

\* Since the finger moved.
Young == bouncing > 0 => switch.age <= Bounce - bouncing

SwitchOK ==
    /\ switch \in [settled : BOOLEAN, raw : BOOLEAN, unstable : BOOLEAN,
                   age : 0..Debounce, next : ((-Late)..Delay) \cup {Never}]
    /\ switch.next # Never => direction /\ switch.settled
    /\ switch.raw # switch.settled => switch.unstable

\* The task: what it armed the pin for, and what it has been woken by
TaskOK ==
    /\ padTask # "read" => overdue = 0
    /\ padTask \in {"arm", "asleep"} => ~DeadlineIn(switch)
    /\ padTask = "arm" /\ bouncing = 0 => switch.raw = contact

\* After a press, the switch stays pressed while the finger does, and is not
\* pressed again once it has gone.
PressOnce ==
    /\ presses \in {0, 1}
    /\ presses = 1 /\ (finger \/ ~switch.settled) /\ switch.raw # finger => Young
    /\ presses = 1 /\ finger => switch.settled

(* After a repeat with the contact open: the next is a period away.  In    *)
(* that time the release is believed, though the pin's edge fell between   *)
(* the poll and the arm and the last level read was of a bounce.           *)
RepeatOnce ==
    /\ since \in {0, 1}
    /\ since = 1 /\ bouncing > 0 /\ switch.next # Never =>
        switch.next >= Period - (Bounce - bouncing)
    /\ since = 1 /\ ~finger /\ switch.raw => switch.unstable /\ Young
    /\ since = 1 /\ ~finger /\ bouncing = 0 /\ switch.next # Never =>
        IF switch.raw
        THEN switch.next >= Period - Bounce + 1 -
                (IF padTask = "asleep" THEN switch.age ELSE Debounce + overdue)
        ELSE switch.unstable
             /\ (switch.age < Debounce => switch.next >= Debounce - switch.age)

PadInv ==
    /\ {direction, finger, contact, armed} \subseteq BOOLEAN
    /\ bouncing \in 0..Bounce /\ overdue \in 0..Late
    /\ padTask \in {"read", "arm", "asleep"}
    /\ gestures \in Seq({"Press", "Repeat", "Other"}) /\ Len(gestures) <= PadQueue
    /\ bouncing = 0 => contact = finger
    /\ SwitchOK /\ TaskOK /\ PressOnce /\ RepeatOnce

LEMMA PadBounds ==
    /\ Debounce \in Nat /\ Period \in Nat /\ Delay \in Nat /\ Late \in Nat
    /\ Bounce \in Nat /\ Bounce # 0 /\ Bounce < Debounce /\ Debounce < Period
    /\ Period < Delay /\ Bounce + 2 * Debounce + Late <= Period + 1
    /\ PadQueue \in Nat /\ PadQueue # 0 /\ Never \notin Int
BY PadAssumption DEF PadAssumption

NextSet == ((-Late)..Delay) \cup {Never}
SwitchSet == [settled : BOOLEAN, raw : BOOLEAN, unstable : BOOLEAN,
              age : 0..Debounce, next : NextSet]

\* What a poll reads of the switch, its level included
Unstable == switch.unstable \/ contact # switch.raw
Age == IF contact = switch.raw THEN switch.age ELSE 0
Believed_Now == Unstable /\ Age >= Debounce

(* A poll believes a level, or repeats, or does neither.                   *)
LEMMA PollOutcome ==
    ASSUME PadInv, Poll
    PROVE  /\ switch' \in SwitchSet /\ switch'.raw = contact
           /\ \/ /\ Believed_Now /\ contact # switch.settled
                 /\ switch'.settled = contact /\ ~switch'.unstable /\ switch'.age = 0
                 /\ switch'.next = IF contact /\ direction THEN Delay ELSE Never
                 /\ presses' = (IF contact THEN presses + 1 ELSE presses) /\ since' = since
              \/ /\ ~(Believed_Now /\ contact # switch.settled)
                 /\ switch'.settled = switch.settled
                 /\ switch'.unstable = (Unstable /\ ~Believed_Now)
                 /\ switch'.age = IF Believed_Now THEN 0 ELSE Age
                 /\ presses' = presses
                 /\ \/ /\ switch.next = Never \/ switch.next > 0
                       /\ switch'.next = switch.next /\ since' = since
                    \/ /\ switch.next # Never /\ switch.next <= 0
                       /\ switch'.next = Period
                       /\ since' = IF ~contact THEN since + 1 ELSE since
           /\ Reports(level(switch, contact)) \in {<<>>, <<"Press">>, <<"Repeat">>}
<1> DEFINE s == level(switch, contact)
           t == Settle(s)
<1>1. switch \in SwitchSet /\ contact \in BOOLEAN
  BY DEF PadInv, SwitchOK, SwitchSet, NextSet
<1>2. /\ s \in SwitchSet /\ s.settled = switch.settled /\ s.raw = contact
      /\ s.unstable = Unstable /\ s.age = Age /\ s.next = switch.next
  <2>1. CASE contact = switch.raw
    BY <1>1, <2>1 DEF level, SwitchSet, Unstable, Age
  <2>2. CASE contact # switch.raw
    <3>1. s = [switch EXCEPT !.raw = contact, !.unstable = TRUE, !.age = 0]
      BY <2>2 DEF level
    <3>2. s = [settled |-> switch.settled, raw |-> contact, unstable |-> TRUE,
               age |-> 0, next |-> switch.next]
      BY <1>1, <3>1 DEF SwitchSet
    <3>3. /\ switch.settled \in BOOLEAN /\ 0 \in 0..Debounce /\ switch.next \in NextSet
          /\ Unstable = TRUE /\ Age = 0
      BY <1>1, <2>2, PadBounds DEF SwitchSet, Unstable, Age
    <3> HIDE DEF s
    <3> QED
      BY <1>1, <3>2, <3>3 DEF SwitchSet
  <2> QED
    BY <2>1, <2>2
<1>3. Held(s) = Believed_Now
  BY <1>2 DEF Held, Believed_Now
<1>4. /\ switch' = IF Repeats(t) THEN [t EXCEPT !.next = Period] ELSE t
      /\ Reports(s) = IF Repeats(t) THEN <<"Repeat">>
                      ELSE IF t.settled /\ ~s.settled THEN <<"Press">> ELSE <<>>
      /\ presses' = IF Reports(s) = <<"Press">> THEN presses + 1 ELSE presses
      /\ since' = IF ~contact /\ Reports(s) = <<"Repeat">> THEN since + 1 ELSE since
  BY DEF Poll, Polled, Reports
<1>5. <<"Press">> # <<"Repeat">> /\ <<"Press">> # <<>> /\ <<"Repeat">> # <<>>
  OBVIOUS
<1>6. CASE Believed_Now /\ contact # switch.settled
  <2>1. t = [s EXCEPT !.unstable = FALSE, !.age = 0, !.settled = s.raw,
                      !.next = IF s.raw /\ direction THEN Delay ELSE Never]
    BY <1>2, <1>3, <1>6 DEF Settle
  <2>2. /\ t \in SwitchSet /\ t.settled = contact /\ ~t.unstable /\ t.age = 0
        /\ t.raw = contact /\ t.next = IF contact /\ direction THEN Delay ELSE Never
    <3> HIDE DEF s, t
    <3>1. t = [settled |-> contact, raw |-> contact, unstable |-> FALSE, age |-> 0,
               next |-> IF contact /\ direction THEN Delay ELSE Never]
      BY <1>2, <2>1 DEF SwitchSet
    <3>2. 0 \in 0..Debounce /\ Delay \in NextSet /\ Never \in NextSet
      BY PadBounds DEF NextSet
    <3> QED
      BY <1>1, <3>1, <3>2 DEF SwitchSet
  <2>3. ~Repeats(t)
    BY <2>2, PadBounds DEF Repeats
  <2> HIDE DEF t, s
  <2>4. switch' = t /\ Reports(s) = IF contact THEN <<"Press">> ELSE <<>>
    BY <1>1, <1>2, <1>4, <1>6, <2>2, <2>3 DEF SwitchSet
  <2>5. presses' = (IF contact THEN presses + 1 ELSE presses) /\ since' = since
    BY <1>4, <1>5, <2>4
  <2> QED
    BY <1>6, <2>2, <2>4, <2>5 DEF s
<1>7. CASE ~(Believed_Now /\ contact # switch.settled)
  <2>1. t = IF Believed_Now THEN [s EXCEPT !.unstable = FALSE, !.age = 0] ELSE s
    BY <1>2, <1>3, <1>7 DEF Settle
  <2>2. /\ t \in SwitchSet /\ t.settled = switch.settled /\ t.raw = contact
        /\ t.unstable = (Unstable /\ ~Believed_Now)
        /\ t.age = (IF Believed_Now THEN 0 ELSE Age) /\ t.next = switch.next
    <3> HIDE DEF s, t
    <3>1. CASE Believed_Now
      <4>1. t = [settled |-> switch.settled, raw |-> contact, unstable |-> FALSE,
                 age |-> 0, next |-> switch.next]
        BY <1>2, <2>1, <3>1 DEF SwitchSet
      <4>2. switch.settled \in BOOLEAN /\ 0 \in 0..Debounce /\ switch.next \in NextSet
        BY <1>1, PadBounds DEF SwitchSet
      <4> QED
        BY <1>1, <3>1, <4>1, <4>2 DEF SwitchSet
    <3>2. CASE ~Believed_Now
      <4>1. t = s /\ Unstable = (Unstable /\ ~Believed_Now)
        BY <2>1, <3>2 DEF Unstable
      <4> QED
        BY <1>2, <3>2, <4>1
    <3> QED
      BY <3>1, <3>2
  <2> HIDE DEF t, s
  <2>3. CASE switch.next = Never \/ switch.next > 0
    <3>1. ~Repeats(t)
      BY <2>2, <2>3, <1>1, PadBounds DEF Repeats, SwitchSet, NextSet
    <3>2. switch' = t /\ Reports(s) = <<>>
      BY <1>2, <1>4, <2>2, <3>1
    <3>3. presses' = presses /\ since' = since
      BY <1>4, <1>5, <3>2
    <3> QED
      BY <1>7, <2>2, <2>3, <3>2, <3>3 DEF s
  <2>4. CASE switch.next # Never /\ switch.next <= 0
    <3>1. Repeats(t)
      BY <2>2, <2>4 DEF Repeats
    <3>2. switch' = [t EXCEPT !.next = Period] /\ Reports(s) = <<"Repeat">>
      BY <1>4, <3>1
    <3>3. presses' = presses /\ since' = IF ~contact THEN since + 1 ELSE since
      BY <1>4, <1>5, <3>2
    <3>4. /\ switch' \in SwitchSet /\ switch'.settled = t.settled /\ switch'.raw = t.raw
          /\ switch'.unstable = t.unstable /\ switch'.age = t.age /\ switch'.next = Period
      BY <2>2, <3>2, PadBounds DEF SwitchSet, NextSet
    <3> QED
      BY <1>7, <2>2, <2>4, <3>2, <3>3, <3>4 DEF s
  <2>5. switch.next = Never \/ switch.next > 0 \/ (switch.next # Never /\ switch.next <= 0)
    BY <1>1 DEF SwitchSet, NextSet
  <2> QED
    BY <2>3, <2>4, <2>5
<1> QED
  BY <1>6, <1>7

(* The same, one conclusion at a time.                                     *)
LEMMA PollBelieves ==
    ASSUME PadInv, Poll, Believed_Now, contact # switch.settled
    PROVE  /\ switch'.settled = contact /\ ~switch'.unstable /\ switch'.age = 0
           /\ switch'.next = IF contact /\ direction THEN Delay ELSE Never
           /\ presses' = (IF contact THEN presses + 1 ELSE presses) /\ since' = since
<1>1. Believed_Now /\ contact # switch.settled
  OBVIOUS
<1> QED
  BY ONLY <1>1, PadInv, Poll, PollOutcome

LEMMA PollKeeps ==
    ASSUME PadInv, Poll, ~(Believed_Now /\ contact # switch.settled)
    PROVE  /\ switch'.settled = switch.settled /\ presses' = presses
           /\ switch'.unstable = (Unstable /\ ~Believed_Now)
           /\ switch'.age = IF Believed_Now THEN 0 ELSE Age
           /\ switch.next = Never \/ switch.next > 0 =>
                switch'.next = switch.next /\ since' = since
           /\ switch.next # Never /\ switch.next <= 0 =>
                /\ switch'.next = Period
                /\ since' = IF ~contact THEN since + 1 ELSE since
<1> DEFINE early == switch.next = Never \/ switch.next > 0
           late == switch.next # Never /\ switch.next <= 0
<1>1. ~(early /\ late)
  BY PadBounds DEF PadInv, SwitchOK
<1>2. \/ early /\ switch'.next = switch.next /\ since' = since
      \/ late /\ switch'.next = Period /\ since' = IF ~contact THEN since + 1 ELSE since
  BY PollOutcome
<1>3. /\ switch'.settled = switch.settled /\ presses' = presses
      /\ switch'.unstable = (Unstable /\ ~Believed_Now)
      /\ switch'.age = IF Believed_Now THEN 0 ELSE Age
  BY PollOutcome
<1> HIDE DEF early, late
<1>4. /\ early => switch'.next = switch.next /\ since' = since
      /\ late => switch'.next = Period /\ since' = IF ~contact THEN since + 1 ELSE since
  BY <1>1, <1>2
<1> QED
  BY <1>3, <1>4 DEF early, late

\* What is left when only the finger, the contact, the task or the queue moves.
PadTypes ==
    /\ {direction, finger, contact, armed} \subseteq BOOLEAN
    /\ bouncing \in 0..Bounce /\ overdue \in 0..Late
    /\ padTask \in {"read", "arm", "asleep"}
    /\ gestures \in Seq({"Press", "Repeat", "Other"}) /\ Len(gestures) <= PadQueue

LEMMA SentType ==
    ASSUME NEW q \in Seq({"Press", "Repeat", "Other"}), Len(q) <= PadQueue,
           NEW x \in {<<>>, <<"Press">>, <<"Repeat">>, <<"Other">>}
    PROVE  /\ Sent(q, x) \in Seq({"Press", "Repeat", "Other"})
           /\ Len(Sent(q, x)) <= PadQueue
<1>1. x \in Seq({"Press", "Repeat", "Other"}) /\ Len(x) <= 1
  <2>1. CASE x = <<>>
    BY <2>1
  <2>2. CASE x = <<"Press">>
    BY <2>2
  <2>3. CASE x = <<"Repeat">>
    BY <2>3
  <2>4. CASE x = <<"Other">>
    BY <2>4
  <2> QED
    BY <2>1, <2>2, <2>3, <2>4
<1>2. q \o x \in Seq({"Press", "Repeat", "Other"}) /\ Len(q \o x) = Len(q) + Len(x)
  BY <1>1
<1>3. Len(q) \in Nat /\ Len(x) \in Nat
  BY <1>1
<1> QED
  BY <1>1, <1>2, <1>3, PadBounds DEF Sent

LEMMA SwitchTypes ==
    ASSUME switch \in SwitchSet
    PROVE  /\ {switch.settled, switch.raw, switch.unstable} \subseteq BOOLEAN
           /\ switch.age \in Nat /\ switch.age <= Debounce
           /\ switch.next = Never \/ (switch.next \in Int /\ -Late <= switch.next)
BY PadBounds DEF SwitchSet, NextSet

(* The repeat, over a poll.                                                *)
LEMMA PollRepeat ==
    ASSUME PadInv, Poll
    PROVE  RepeatOnce'
<1>0. /\ switch \in SwitchSet /\ switch' \in SwitchSet /\ switch'.raw = contact
      /\ (switch.next # Never => switch.settled)
      /\ (switch.raw # switch.settled => switch.unstable)
  BY PollOutcome DEF PadInv, SwitchOK, SwitchSet, NextSet
<1>1. /\ {switch.settled, switch.raw, switch.unstable, finger, contact} \subseteq BOOLEAN
      /\ switch.age \in Nat /\ switch.age <= Debounce
      /\ switch.next = Never \/ (switch.next \in Int /\ -Late <= switch.next)
  BY <1>0, SwitchTypes DEF PadInv
<1>2. /\ padTask = "read" /\ padTask' = "arm" /\ overdue' = 0
      /\ UNCHANGED <<direction, finger, contact, bouncing, armed>>
  BY DEF Poll
<1>3. /\ bouncing \in 0..Bounce /\ overdue \in 0..Late
      /\ (bouncing = 0 => contact = finger)
      /\ RepeatOnce
  BY DEF PadInv
<1>4. CASE since = 0
  <2>1. since' \in {0, 1} /\ (since' = 1 => /\ ~contact /\ switch'.next = Period
                                          /\ switch'.settled = switch.settled
                                          /\ switch.next # Never)
    BY <1>4, PollOutcome
  <2>2. CASE since' = 0
    BY <2>2 DEF RepeatOnce
  <2>3. CASE since' = 1
    <3>1. ~contact /\ switch'.next = Period /\ switch'.settled /\ ~switch'.raw
      BY <1>0, <2>1, <2>3
    <3>2. switch'.unstable
      BY <1>0, <1>1, <1>4, <2>3, <3>1, PollOutcome DEF Unstable, Believed_Now
    <3>3. switch'.age \in Nat
      BY <1>0, PadBounds DEF SwitchSet
    <3>4. Period >= Period - (Bounce - bouncing) /\ Period >= Debounce - switch'.age
      BY <1>3, <3>3, PadBounds
    <3> QED
      BY <1>2, <2>3, <3>1, <3>2, <3>4 DEF RepeatOnce
  <2> QED
    BY <2>1, <2>2, <2>3
<1>5. CASE since = 1
  <2>1. CASE bouncing > 0
    <3>1. switch.next = Never \/ (switch.next >= Period - (Bounce - bouncing) /\ switch.next > 0)
      BY <1>1, <1>3, <1>5, <2>1, PadBounds DEF RepeatOnce
    <3>2. since' = 1 /\ switch'.next \in {switch.next, Delay, Never}
      <4>1. CASE Believed_Now /\ contact # switch.settled
        BY <1>5, <4>1, PollBelieves
      <4>2. CASE ~(Believed_Now /\ contact # switch.settled)
        BY <1>5, <3>1, <4>2, PollKeeps
      <4> QED
        BY <4>1, <4>2
    <3>3. switch'.next # Never => switch'.next >= Period - (Bounce - bouncing)
      <4>1. switch'.next \in {switch.next, Delay, Never}
        BY <3>2
      <4>2. Delay >= Period - (Bounce - bouncing)
        BY <1>3, PadBounds
      <4> QED
        BY <3>1, <4>1, <4>2
    <3>4. ~finger /\ switch'.raw => switch'.unstable /\ Young'
      <4> SUFFICES ASSUME ~finger, contact
                   PROVE  switch'.unstable /\ Young'
        BY <1>0
      <4>1. Unstable /\ Age \in Nat /\ Age <= Bounce - bouncing
        <5>1. CASE switch.raw
          BY <1>1, <1>3, <1>5, <2>1, <5>1 DEF RepeatOnce, Young, Unstable, Age
        <5>2. CASE ~switch.raw
          <6>1. Unstable /\ Age = 0
            BY <5>2 DEF Unstable, Age
          <6>2. 0 \in Nat /\ 0 <= Bounce - bouncing
            BY <1>3, PadBounds
          <6> QED
            BY <6>1, <6>2
        <5> QED
          BY <5>1, <5>2
      <4>2. ~Believed_Now
        BY <1>3, <4>1, PadBounds DEF Believed_Now
      <4>3. switch'.unstable /\ switch'.age = Age
        BY <4>1, <4>2, PollKeeps
      <4> QED
        BY <1>2, <4>1, <4>3 DEF Young
    <3> QED
      BY <1>2, <2>1, <3>2, <3>3, <3>4 DEF RepeatOnce
  <2>2. CASE bouncing = 0 /\ finger
    <3>1. since' = 1
      BY <1>3, <1>5, <2>2, PollOutcome
    <3> QED
      BY <1>2, <2>2, <3>1 DEF RepeatOnce
  <2>3. CASE bouncing = 0 /\ ~finger
    <3>1. ~contact /\ ~switch'.raw
      BY <1>0, <1>3, <2>3
    <3>2. CASE switch.next = Never
      <4>1. since' = 1 /\ switch'.next = Never
        BY <1>5, <3>1, <3>2, PollOutcome
      <4> QED
        BY <1>2, <2>3, <3>1, <4>1 DEF RepeatOnce
    <3>3. CASE switch.next # Never
      <4>1. switch.settled /\ switch.next \in Int
        BY <1>0, <1>1, <3>3
      <4>2. CASE Believed_Now
        <5>1. since' = 1 /\ switch'.next = Never
          BY <1>5, <3>1, <4>1, <4>2, PollOutcome
        <5> QED
          BY <1>2, <2>3, <3>1, <5>1 DEF RepeatOnce
      <4>3. CASE ~Believed_Now
        <5>1. Unstable /\ Age \in Nat
          BY <1>0, <1>1, <3>1, <4>1, PadBounds DEF Unstable, Age
        <5>2. Age < Debounce
          BY <4>3, <5>1, PadBounds DEF Believed_Now
        <5>3. switch.next >= Debounce - Age /\ switch.next > 0
          <6>1. CASE switch.raw
            <7>1. switch.next >= Period - Bounce + 1 - (Debounce + overdue)
              BY <1>2, <1>3, <1>5, <2>3, <3>3, <6>1 DEF RepeatOnce
            <7>2. Age = 0
              BY <3>1, <6>1 DEF Age
            <7> QED
              BY <1>3, <4>1, <7>1, <7>2, PadBounds
          <6>2. CASE ~switch.raw
            <7>1. Age = switch.age
              BY <1>1, <3>1, <6>2 DEF Age
            <7>2. switch.age < Debounce => switch.next >= Debounce - switch.age
              BY <1>3, <1>5, <2>3, <3>3, <6>2 DEF RepeatOnce
            <7> QED
              BY <4>1, <5>1, <5>2, <7>1, <7>2, PadBounds
          <6> QED
            BY <6>1, <6>2
        <5>4. since' = 1 /\ switch'.next = switch.next /\ switch'.unstable /\ switch'.age = Age
          BY <1>5, <4>3, <5>1, <5>3, PollKeeps
        <5> QED
          BY <1>2, <2>3, <3>1, <5>3, <5>4 DEF RepeatOnce
      <4> QED
        BY <4>2, <4>3
    <3> QED
      BY <3>2, <3>3
  <2> QED
    BY <1>3, <2>1, <2>2, <2>3, PadBounds
<1> QED
  BY <1>3, <1>4, <1>5 DEF RepeatOnce

(* The press, over a poll: a level that is not the finger's is too young.  *)
LEMMA PollPress ==
    ASSUME PadInv, Poll
    PROVE  PressOnce'
<1>0. /\ switch \in SwitchSet /\ switch'.raw = contact
      /\ (switch.raw # switch.settled => switch.unstable)
  BY PollOutcome DEF PadInv, SwitchOK, SwitchSet, NextSet
<1>1. /\ {switch.settled, switch.raw, switch.unstable, finger, contact} \subseteq BOOLEAN
      /\ switch.age \in Nat /\ switch.age <= Debounce
  BY <1>0, SwitchTypes DEF PadInv
<1>2. /\ bouncing' = bouncing /\ finger' = finger
  BY DEF Poll
<1>3. /\ bouncing \in 0..Bounce /\ (bouncing = 0 => contact = finger) /\ PressOnce
  BY DEF PadInv
<1>4. ASSUME contact # finger, presses = 1, finger \/ ~switch.settled
      PROVE  bouncing > 0 /\ Age \in Nat /\ Age <= Bounce - bouncing
  <2>1. bouncing > 0 /\ 0 <= Bounce - bouncing
    BY <1>3, <1>4, PadBounds
  <2>2. CASE contact = switch.raw
    <3>1. Young /\ Age = switch.age
      BY <1>3, <1>4, <2>2 DEF PressOnce, Age
    <3> QED
      BY <1>1, <2>1, <3>1 DEF Young
  <2>3. CASE contact # switch.raw
    BY <2>1, <2>3 DEF Age
  <2> QED
    BY <2>1, <2>2, <2>3
<1>5. ASSUME contact # finger, presses = 1, finger \/ ~switch.settled
      PROVE  ~Believed_Now
  BY <1>3, <1>4, <1>5, PadBounds DEF Believed_Now
<1>6. CASE Believed_Now /\ contact # switch.settled
  <2>1. /\ switch'.settled = contact
        /\ presses' = (IF contact THEN presses + 1 ELSE presses)
    BY <1>6, PollBelieves
  <2>2. CASE contact
    <3>1. presses = 0
      <4> SUFFICES ASSUME presses = 1 PROVE FALSE
        BY <1>3 DEF PressOnce
      <4>1. ~switch.settled /\ ~finger
        BY <1>1, <1>3, <1>6, <2>2 DEF PressOnce
      <4> QED
        BY <1>5, <1>6, <2>2, <4>1
    <3>2. presses' = 1 /\ switch'.settled /\ switch'.raw
      BY <1>0, <2>1, <2>2, <3>1
    <3> QED
      BY <1>1, <1>2, <3>2 DEF PressOnce
  <2>3. CASE ~contact
    <3>1. presses' = presses
      BY <2>1, <2>3
    <3>2. presses = 1 => finger' = FALSE /\ switch'.raw = finger'
      <4>1. presses = 1 => ~finger
        BY <1>5, <1>6, <2>3
      <4> QED
        BY <1>0, <1>1, <1>2, <2>3, <4>1
    <3>3. presses \in {0, 1}
      BY <1>3 DEF PressOnce
    <3> QED
      BY <3>1, <3>2, <3>3 DEF PressOnce
  <2> QED
    BY <2>2, <2>3
<1>7. CASE ~(Believed_Now /\ contact # switch.settled)
  <2>1. /\ switch'.settled = switch.settled /\ presses' = presses
        /\ switch'.age = IF Believed_Now THEN 0 ELSE Age
    BY <1>7, PollKeeps
  <2>2. presses = 1 /\ (finger \/ ~switch.settled) /\ contact # finger => Young'
    <3> SUFFICES ASSUME presses = 1, finger \/ ~switch.settled, contact # finger
                 PROVE  switch'.age <= Bounce - bouncing
      BY <1>2 DEF Young
    <3> QED
      BY <1>4, <1>5, <2>1
  <2> QED
    BY <1>0, <1>2, <1>3, <2>1, <2>2 DEF PressOnce
<1> QED
  BY <1>6, <1>7

(* What a poll leaves of the switch, and the task before its arming.       *)
LEMMA PollSwitch ==
    ASSUME PadInv, Poll
    PROVE  SwitchOK' /\ TaskOK'
<1>0. /\ switch \in SwitchSet /\ switch' \in SwitchSet /\ switch'.raw = contact
      /\ (switch.next # Never => direction /\ switch.settled)
      /\ (switch.raw # switch.settled => switch.unstable)
  BY PollOutcome DEF PadInv, SwitchOK, SwitchSet, NextSet
<1>1. /\ {switch.settled, switch.raw, switch.unstable, contact, direction} \subseteq BOOLEAN
      /\ switch.age \in Nat
      /\ switch.next = Never \/ (switch.next \in Int /\ -Late <= switch.next)
  BY <1>0, SwitchTypes DEF PadInv
<1>2. padTask' = "arm" /\ overdue' = 0 /\ contact' = contact /\ direction' = direction
  BY DEF Poll
<1>3. /\ switch'.next # Never => direction /\ switch'.settled /\ switch'.next > 0
      /\ contact # switch'.settled => switch'.unstable
      /\ switch'.unstable => switch'.age < Debounce
  <2>1. CASE Believed_Now /\ contact # switch.settled
    <3>1. /\ switch'.settled = contact /\ ~switch'.unstable
          /\ switch'.next = IF contact /\ direction THEN Delay ELSE Never
      BY <2>1, PollBelieves
    <3>2. Delay > 0
      BY PadBounds
    <3> QED
      BY <1>1, <3>1, <3>2
  <2>2. CASE ~(Believed_Now /\ contact # switch.settled)
    <3>1. /\ switch'.settled = switch.settled
          /\ switch'.unstable = (Unstable /\ ~Believed_Now)
          /\ switch'.age = IF Believed_Now THEN 0 ELSE Age
          /\ switch.next = Never \/ switch.next > 0 => switch'.next = switch.next
          /\ switch.next # Never /\ switch.next <= 0 => switch'.next = Period
      BY <2>2, PollKeeps
    <3>2. switch'.next # Never => switch.next # Never /\ switch'.next > 0
      BY <1>1, <3>1, PadBounds
    <3>3. contact # switch'.settled => switch'.unstable
      BY <1>0, <1>1, <2>2, <3>1 DEF Unstable
    <3>4. switch'.unstable => switch'.age = Age /\ Age < Debounce
      <4>1. Age \in Nat
        BY <1>1 DEF Age
      <4>2. Unstable /\ ~Believed_Now => Age < Debounce
        BY <4>1, PadBounds DEF Believed_Now
      <4> QED
        BY <3>1, <4>2
    <3> QED
      BY <1>0, <3>1, <3>2, <3>3, <3>4
  <2> QED
    BY <2>1, <2>2
<1>4. ~DeadlineIn(switch')
  <2>1. switch'.age \in Nat /\ (switch'.next # Never => switch'.next \in Int)
    BY <1>0, PadBounds DEF SwitchSet, NextSet
  <2>2. ~(switch'.unstable /\ switch'.age >= Debounce)
    BY <1>3, <2>1, PadBounds
  <2>3. ~(switch'.next # Never /\ switch'.next <= 0)
    BY <1>3, <2>1
  <2> QED
    BY <2>2, <2>3 DEF DeadlineIn, Repeats
<1>5. SwitchOK'
  BY <1>0, <1>2, <1>3 DEF SwitchOK, SwitchSet, NextSet
<1>6. TaskOK'
  BY <1>0, <1>2, <1>4 DEF TaskOK, DeadlineIn, Repeats
<1> QED
  BY <1>5, <1>6

(* A step of the pad's task keeps its invariant.                           *)
LEMMA PollInv ==
    ASSUME PadInv, Poll
    PROVE  PadInv'
<1>1. /\ padTask' = "arm" /\ overdue' = 0
      /\ UNCHANGED <<direction, finger, contact, bouncing, armed>>
      /\ gestures' = Sent(gestures, Reports(level(switch, contact)))
  BY DEF Poll
<1>2. /\ gestures' \in Seq({"Press", "Repeat", "Other"})
      /\ Len(gestures') <= PadQueue
  BY <1>1, PollOutcome, SentType DEF PadInv
<1>3. 0 \in 0..Late
  BY PadBounds
<1> QED
  BY <1>1, <1>2, <1>3, PollSwitch, PollPress, PollRepeat DEF PadInv

LEMMA ArmInv ==
    ASSUME PadInv, Arm
    PROVE  PadInv'
<1>1. /\ padTask = "arm" /\ armed' = ~contact
      /\ padTask' = IF DeadlineIn(switch) THEN "read" ELSE "asleep"
      /\ UNCHANGED <<direction, finger, contact, bouncing, switch, overdue,
                     gestures, presses, since>>
  BY DEF Arm
<1>2. ~DeadlineIn(switch) /\ padTask' = "asleep" /\ overdue = 0
  BY <1>1 DEF PadInv, TaskOK
<1>3. SwitchOK' /\ PressOnce'
  BY <1>1 DEF PadInv, SwitchOK, PressOnce, Young
<1>4. TaskOK'
  BY <1>1, <1>2 DEF PadInv, TaskOK, DeadlineIn, Repeats
<1>5. RepeatOnce'
  <2>1. RepeatOnce /\ bouncing' = bouncing /\ since' = since /\ switch' = switch
        /\ finger' = finger /\ Young' = Young
    BY <1>1 DEF PadInv, Young
  <2>2. bouncing = 0 /\ ~finger => ~switch.raw
    BY <1>1 DEF PadInv, TaskOK
  <2> QED
    BY <2>1, <2>2 DEF RepeatOnce
<1> QED
  BY <1>1, <1>2, <1>3, <1>4, <1>5 DEF PadInv

(* The finger and the contact.  When the finger moves, what the switch saw *)
(* last was seen, at the latest, as it moved.                              *)
LEMMA TouchInv ==
    ASSUME PadInv, Touch
    PROVE  PadInv'
<1>1. /\ finger' = ~finger /\ bouncing' = Bounce /\ since' = 0
      /\ presses' = IF finger' THEN 0 ELSE presses
      /\ UNCHANGED <<direction, contact, switch, padTask, armed, overdue, gestures>>
  BY DEF Touch
<1>2. Bounce \in 0..Bounce /\ Bounce # 0
  BY PadBounds
<1>3. SwitchOK' /\ TaskOK'
  BY <1>1, <1>2 DEF PadInv, SwitchOK, TaskOK, DeadlineIn, Repeats
<1>4. PressOnce'
  <2>1. CASE finger'
    BY <1>1, <2>1 DEF PressOnce
  <2>2. CASE ~finger'
    <3>1. finger /\ finger' = FALSE /\ presses' = presses
      BY <1>1, <2>2 DEF PadInv
    <3>2. presses = 1 => switch.settled
      BY <3>1 DEF PadInv, PressOnce
    <3>3. presses \in {0, 1}
      BY DEF PadInv, PressOnce
    <3> QED
      BY <1>1, <3>1, <3>2, <3>3 DEF PressOnce
  <2> QED
    BY <2>1, <2>2
<1>5. RepeatOnce'
  BY <1>1 DEF RepeatOnce
<1>6. finger' \in BOOLEAN
  BY <1>1
<1> QED
  BY <1>1, <1>2, <1>3, <1>4, <1>5, <1>6 DEF PadInv

LEMMA EdgeInv ==
    ASSUME PadInv, Edge
    PROVE  PadInv'
<1>1. /\ bouncing > 0 /\ contact' = ~contact
      /\ padTask' \in {padTask, "read"} /\ (padTask' # padTask => padTask = "asleep")
      /\ UNCHANGED <<direction, finger, bouncing, switch, armed, overdue, gestures,
                     presses, since>>
  BY DEF Edge
<1>2. bouncing' # 0 /\ contact' \in BOOLEAN
  BY <1>1 DEF PadInv
<1>3. SwitchOK' /\ PressOnce'
  BY <1>1 DEF PadInv, SwitchOK, PressOnce, Young
<1>4. TaskOK'
  BY <1>1, <1>2 DEF PadInv, TaskOK, DeadlineIn, Repeats
<1>5. RepeatOnce'
  BY <1>1, <1>2 DEF PadInv, RepeatOnce, Young
<1> QED
  BY <1>1, <1>2, <1>3, <1>4, <1>5 DEF PadInv

LEMMA ElsewhereInv ==
    ASSUME PadInv, Elsewhere
    PROVE  PadInv'
<1>1. /\ padTask = "asleep" /\ padTask' = "read"
      /\ UNCHANGED <<direction, finger, contact, bouncing, switch, armed, overdue,
                     gestures, presses, since>>
  BY DEF Elsewhere
<1>2. SwitchOK' /\ PressOnce' /\ TaskOK'
  BY <1>1 DEF PadInv, SwitchOK, PressOnce, Young, TaskOK
<1>3. RepeatOnce'
  <2>1. /\ switch.age \in Nat /\ switch.age <= Debounce
        /\ (switch.next # Never => switch.next \in Int)
    BY SwitchTypes DEF PadInv, SwitchOK, SwitchSet, NextSet
  <2>2. /\ RepeatOnce /\ bouncing' = bouncing /\ since' = since /\ switch' = switch
        /\ finger' = finger /\ Young' = Young /\ overdue' = 0
    BY <1>1 DEF PadInv, Young, TaskOK
  <2>3. ASSUME switch.next # Never, switch.next >= Period - Bounce + 1 - switch.age
        PROVE  switch.next >= Period - Bounce + 1 - (Debounce + 0)
    BY <2>1, <2>3, PadBounds
  <2> QED
    BY <1>1, <2>1, <2>2, <2>3 DEF RepeatOnce
<1> QED
  BY <1>1, <1>2, <1>3 DEF PadInv

LEMMA QueueInv ==
    ASSUME PadInv, AnotherGesture \/ drain
    PROVE  PadInv'
<1>1. UNCHANGED <<direction, finger, contact, bouncing, switch, padTask, armed,
                  overdue, presses, since>>
  BY DEF AnotherGesture, drain
<1>2. /\ gestures' \in Seq({"Press", "Repeat", "Other"})
      /\ Len(gestures') <= PadQueue
  <2>1. CASE AnotherGesture
    BY <2>1, SentType DEF PadInv, AnotherGesture
  <2>2. CASE drain
    BY <2>2, PadBounds DEF drain
  <2> QED
    BY <2>1, <2>2
<1>3. SwitchOK' /\ TaskOK' /\ PressOnce'
  BY <1>1 DEF PadInv, SwitchOK, TaskOK, PressOnce, Young, DeadlineIn, Repeats
<1>4. RepeatOnce'
  BY <1>1 DEF PadInv, RepeatOnce, Young
<1> QED
  BY <1>1, <1>2, <1>3, <1>4 DEF PadInv

(* A tick adds one to the age of a level not believed, and takes one, at   *)
(* most, from the time to a repeat.                                        *)
LEMMA TickSwitch ==
    ASSUME PadInv, PadTick
    PROVE  /\ switch' \in SwitchSet /\ switch'.settled = switch.settled
           /\ switch'.raw = switch.raw /\ switch'.unstable = switch.unstable
           /\ switch'.age = IF switch.unstable /\ switch.age < Debounce
                            THEN switch.age + 1 ELSE switch.age
           /\ (switch'.next # Never <=> switch.next # Never)
           /\ (switch.next # Never =>
                /\ switch.next \in Int /\ switch'.next \in Int
                /\ switch'.next >= switch.next - 1)
<1> DEFINE a == IF switch.unstable /\ switch.age < Debounce THEN switch.age + 1 ELSE switch.age
           n == IF switch.next \in {Never, -Late} THEN switch.next ELSE switch.next - 1
<1>1. switch \in SwitchSet
  BY DEF PadInv, SwitchOK, SwitchSet, NextSet
<1>2. switch' = [switch EXCEPT !.age = a, !.next = n]
  BY DEF PadTick
<1>3. a \in 0..Debounce
  BY <1>1, PadBounds DEF SwitchSet
<1>4. n \in NextSet
  BY <1>1, PadBounds DEF SwitchSet, NextSet
<1>5. /\ n # Never <=> switch.next # Never
      /\ switch.next # Never => /\ switch.next \in Int /\ n \in Int /\ n >= switch.next - 1
  BY <1>1, PadBounds DEF SwitchSet, NextSet
<1> HIDE DEF n
<1>6. switch' = [settled |-> switch.settled, raw |-> switch.raw,
                 unstable |-> switch.unstable, age |-> a, next |-> n]
  BY <1>1, <1>2 DEF SwitchSet
<1>7. /\ switch'.settled = switch.settled /\ switch'.raw = switch.raw
      /\ switch'.unstable = switch.unstable /\ switch'.age = a /\ switch'.next = n
  BY <1>6
<1>8. switch' \in SwitchSet
  BY <1>1, <1>3, <1>4, <1>6 DEF SwitchSet
<1> QED
  BY <1>5, <1>7, <1>8

LEMMA TickRest ==
    ASSUME PadInv, PadTick
    PROVE  /\ padTask \in {"read", "asleep"} /\ UNCHANGED <<direction, finger, armed,
                                                            gestures, presses, since>>
           /\ bouncing' \in 0..Bounce /\ (bouncing > 0 => bouncing' = bouncing - 1)
           /\ (bouncing = 0 => bouncing' = 0) /\ contact' \in BOOLEAN
           /\ (bouncing' = 0 => contact' = finger)
           /\ (padTask = "read" => padTask' = "read" /\ overdue' = overdue + 1
                                   /\ overdue' <= Late)
           /\ (padTask = "asleep" => padTask' \in {"read", "asleep"} /\ overdue' = 0)
           /\ (padTask' = "asleep" => ~DeadlineIn(switch'))
<1>1. /\ padTask \in {"read", "asleep", "arm"} /\ overdue \in 0..Late
      /\ bouncing \in 0..Bounce /\ {contact, finger} \subseteq BOOLEAN
  BY DEF PadInv
<1>2. /\ padTask # "arm" /\ (padTask = "read" => overdue < Late)
      /\ bouncing' = (IF bouncing = 0 THEN 0 ELSE bouncing - 1)
      /\ contact' = (IF bouncing' = 0 THEN finger ELSE contact)
      /\ padTask' = (IF padTask = "asleep" /\ (contact' = armed \/ DeadlineIn(switch'))
                     THEN "read" ELSE padTask)
      /\ overdue' = IF padTask = "read" THEN overdue + 1 ELSE 0
      /\ UNCHANGED <<direction, finger, armed, gestures, presses, since>>
  BY DEF PadTick
<1>3. /\ bouncing' \in 0..Bounce /\ (bouncing > 0 => bouncing' = bouncing - 1)
      /\ (bouncing = 0 => bouncing' = 0)
  BY <1>1, <1>2, PadBounds
<1>4. contact' \in BOOLEAN /\ (bouncing' = 0 => contact' = finger)
  BY <1>1, <1>2
<1>5. padTask = "read" => padTask' = "read" /\ overdue' = overdue + 1 /\ overdue' <= Late
  BY <1>1, <1>2, PadBounds
<1>6. /\ padTask = "asleep" => padTask' \in {"read", "asleep"} /\ overdue' = 0
      /\ padTask' = "asleep" => ~DeadlineIn(switch')
  BY <1>2
<1> QED
  BY <1>1, <1>2, <1>3, <1>4, <1>5, <1>6

LEMMA TickYoung ==
    ASSUME PadInv, PadTick, Young
    PROVE  Young'
<1>1. switch.age \in Nat /\ bouncing \in 0..Bounce
  BY SwitchTypes DEF PadInv, SwitchOK, SwitchSet, NextSet
<1>2. switch'.age \in {switch.age, switch.age + 1}
  BY TickSwitch
<1>3. bouncing > 0 => bouncing' = bouncing - 1
  BY TickRest
<1>4. bouncing = 0 => bouncing' = 0
  BY TickRest
<1> QED
  BY <1>1, <1>2, <1>3, <1>4, PadBounds DEF Young

LEMMA TickRepeat ==
    ASSUME PadInv, PadTick
    PROVE  RepeatOnce'
<1>0. switch \in SwitchSet /\ (switch.next # Never => switch.settled)
      /\ (switch.raw # switch.settled => switch.unstable)
  BY DEF PadInv, SwitchOK, SwitchSet, NextSet
<1>1. /\ {switch.settled, switch.raw, switch.unstable, finger} \subseteq BOOLEAN
      /\ switch.age \in Nat
  BY <1>0, SwitchTypes DEF PadInv
<1>2. /\ bouncing \in 0..Bounce /\ overdue \in 0..Late /\ RepeatOnce
      /\ (padTask = "asleep" => ~DeadlineIn(switch))
  BY DEF PadInv, TaskOK
<1>3. /\ finger' = finger /\ since' = since /\ switch'.raw = switch.raw
      /\ switch'.unstable = switch.unstable /\ padTask \in {"read", "asleep"}
      /\ (switch'.next # Never => switch.next # Never)
  BY TickRest, TickSwitch
<1>4. since = 1 /\ bouncing' > 0 /\ switch'.next # Never =>
        switch'.next >= Period - (Bounce - bouncing')
  <2> SUFFICES ASSUME since = 1, bouncing' > 0, switch'.next # Never
               PROVE  switch'.next >= Period - (Bounce - bouncing')
    OBVIOUS
  <2>1. bouncing > 0 /\ bouncing' = bouncing - 1
    BY <1>2, TickRest
  <2>2. switch.next \in Int /\ switch'.next \in Int /\ switch'.next >= switch.next - 1
    BY <1>3, TickSwitch
  <2>3. switch.next >= Period - (Bounce - bouncing)
    BY <1>2, <1>3, <2>1 DEF RepeatOnce
  <2> QED
    BY <1>2, <2>1, <2>2, <2>3, PadBounds
<1>5. since = 1 /\ ~finger /\ switch.raw => switch.unstable /\ Young /\ Young'
  BY <1>2, TickYoung DEF RepeatOnce
<1>6. ASSUME since = 1, ~finger, bouncing' = 0, switch'.next # Never
      PROVE  IF switch.raw
             THEN switch'.next >= Period - Bounce + 1 -
                    (IF padTask' = "asleep" THEN switch'.age ELSE Debounce + overdue')
             ELSE switch.unstable
                  /\ (switch'.age < Debounce => switch'.next >= Debounce - switch'.age)
  <2>1. /\ switch.next # Never /\ switch.settled /\ switch.next \in Int
        /\ switch'.next \in Int /\ switch'.next >= switch.next - 1
    BY <1>0, <1>3, <1>6, TickSwitch
  <2>2. switch'.age = IF switch.unstable /\ switch.age < Debounce
                      THEN switch.age + 1 ELSE switch.age
    BY TickSwitch
  <2>3. CASE bouncing > 0
    <3>1. bouncing = 1
      BY <1>2, <1>6, <2>3, TickRest
    <3>2. switch.next >= Period - (Bounce - 1)
      BY <1>2, <1>6, <2>1, <3>1 DEF RepeatOnce
    <3>3. switch'.next >= Period - Bounce
      BY <2>1, <3>2, PadBounds
    <3>4. CASE switch.raw
      <4>1. switch.unstable /\ switch.age <= Bounce - 1
        BY <1>5, <1>6, <3>1, <3>4 DEF Young
      <4>2. switch'.age = switch.age + 1
        BY <1>1, <2>2, <4>1, PadBounds
      <4>3. overdue' \in Nat
        BY <1>2, <1>3, TickRest, PadBounds
      <4> QED
        BY <1>1, <2>1, <3>3, <3>4, <4>2, <4>3, PadBounds
    <3>5. CASE ~switch.raw
      <4>1. switch.unstable
        BY <1>0, <1>1, <2>1, <3>5
      <4>2. switch'.age \in Nat
        BY <1>1, <2>2
      <4>3. switch'.next >= Debounce - switch'.age
        BY <2>1, <3>3, <4>2, PadBounds
      <4> QED
        BY <3>5, <4>1, <4>3
    <3> QED
      BY <1>1, <3>4, <3>5
  <2>4. CASE bouncing = 0
    <3>1. IF switch.raw
          THEN switch.next >= Period - Bounce + 1 -
                 (IF padTask = "asleep" THEN switch.age ELSE Debounce + overdue)
          ELSE switch.unstable
               /\ (switch.age < Debounce => switch.next >= Debounce - switch.age)
      BY <1>2, <1>6, <2>1, <2>4 DEF RepeatOnce
    <3>2. CASE switch.raw
      <4>1. CASE padTask = "read"
        <5>1. padTask' = "read" /\ overdue' = overdue + 1
          BY <4>1, TickRest
        <5>2. switch.next >= Period - Bounce + 1 - (Debounce + overdue)
          BY <3>1, <3>2, <4>1
        <5>3. switch'.next >= Period - Bounce + 1 - (Debounce + overdue')
          BY <1>2, <2>1, <5>1, <5>2, PadBounds
        <5> QED
          BY <3>2, <5>1, <5>3
      <4>2. CASE padTask = "asleep"
        <5>1. switch.next >= Period - Bounce + 1 - switch.age
          BY <3>1, <3>2, <4>2
        <5>2. switch.unstable /\ switch.age < Debounce
          BY <1>1, <1>2, <1>5, <1>6, <3>2, <4>2, PadBounds DEF DeadlineIn
        <5>3. switch'.age = switch.age + 1 /\ overdue' = 0
          BY <2>2, <4>2, <5>2, TickRest
        <5>4. /\ switch'.next >= Period - Bounce + 1 - switch'.age
              /\ switch'.next >= Period - Bounce + 1 - (Debounce + overdue')
          BY <1>1, <2>1, <5>1, <5>2, <5>3, PadBounds
        <5> QED
          BY <3>2, <5>4
      <4> QED
        BY <1>3, <4>1, <4>2
    <3>3. CASE ~switch.raw
      <4>1. switch.unstable /\ (switch.age < Debounce => switch.next >= Debounce - switch.age)
        BY <3>1, <3>3
      <4>2. switch'.age < Debounce => switch'.next >= Debounce - switch'.age
        BY <1>1, <2>1, <2>2, <4>1, PadBounds
      <4> QED
        BY <3>3, <4>1, <4>2
    <3> QED
      BY <1>1, <3>2, <3>3
  <2> QED
    BY <1>2, <2>3, <2>4
<1> QED
  BY <1>2, <1>3, <1>4, <1>5, <1>6 DEF RepeatOnce

LEMMA TickInv ==
    ASSUME PadInv, PadTick
    PROVE  PadInv'
<1>1. SwitchOK'
  <2>1. /\ switch \in SwitchSet /\ (switch.next # Never => direction /\ switch.settled)
        /\ (switch.raw # switch.settled => switch.unstable)
    BY DEF PadInv, SwitchOK, SwitchSet, NextSet
  <2>2. direction' = direction
    BY TickRest
  <2> QED
    BY <2>1, <2>2, TickSwitch DEF SwitchOK, SwitchSet, NextSet
<1>2. TaskOK'
  <2>1. /\ padTask' \in {"read", "asleep"} /\ (padTask' = "asleep" => overdue' = 0)
        /\ (padTask' = "asleep" => ~DeadlineIn(switch'))
    BY TickRest
  <2> QED
    BY <2>1 DEF TaskOK, DeadlineIn, Repeats
<1>3. PressOnce'
  <2>1. PressOnce /\ UNCHANGED <<finger, presses>>
    BY TickRest DEF PadInv
  <2>2. switch'.settled = switch.settled /\ switch'.raw = switch.raw
    BY TickSwitch
  <2> QED
    BY <2>1, <2>2, TickYoung DEF PressOnce
<1>4. RepeatOnce'
  BY TickRepeat
<1>5. overdue' \in 0..Late
  BY TickRest, PadBounds DEF PadInv
<1>6. /\ {direction, finger, contact, armed}' \subseteq BOOLEAN /\ bouncing' \in 0..Bounce
      /\ padTask' \in {"read", "arm", "asleep"} /\ (bouncing' = 0 => contact' = finger')
  BY TickRest DEF PadInv
<1>7. gestures' = gestures
  BY TickRest
<1> QED
  BY <1>1, <1>2, <1>3, <1>4, <1>5, <1>6, <1>7 DEF PadInv

LEMMA PadAlways == PadSpec => []PadCorrect
<1>1. PadInit => PadInv
  <2> SUFFICES ASSUME PadInit
               PROVE  PadInv
    OBVIOUS
  <2>1. RELEASED \in SwitchSet
    BY PadBounds DEF RELEASED, SwitchSet, NextSet
  <2>2. /\ ~RELEASED.settled /\ ~RELEASED.raw /\ ~RELEASED.unstable
        /\ RELEASED.next = Never
    BY DEF RELEASED
  <2>3. SwitchOK /\ TaskOK
    BY <2>1, <2>2 DEF PadInit, SwitchOK, TaskOK, SwitchSet, NextSet
  <2>4. PressOnce /\ RepeatOnce
    BY <2>2 DEF PadInit, PressOnce, RepeatOnce
  <2>5. /\ {direction, finger, contact, armed} \subseteq BOOLEAN
        /\ padTask \in {"read", "arm", "asleep"} /\ contact = finger
    BY DEF PadInit
  <2>6. bouncing \in 0..Bounce /\ overdue \in 0..Late
    BY PadBounds DEF PadInit
  <2>7. /\ gestures \in Seq({"Press", "Repeat", "Other"}) /\ Len(gestures) <= PadQueue
    BY PadBounds DEF PadInit
  <2> QED
    BY <2>3, <2>4, <2>5, <2>6, <2>7 DEF PadInv
<1>2. PadInv /\ [PadNext]_padVars => PadInv'
  <2> SUFFICES ASSUME PadInv, [PadNext]_padVars
               PROVE  PadInv'
    OBVIOUS
  <2>1. CASE Touch \/ Edge
    BY <2>1, TouchInv, EdgeInv
  <2>2. CASE PadTick
    BY <2>2, TickInv
  <2>3. CASE Poll \/ Arm
    BY <2>3, PollInv, ArmInv
  <2>4. CASE Elsewhere
    BY <2>4, ElsewhereInv
  <2>5. CASE AnotherGesture \/ drain
    BY <2>5, QueueInv
  <2>6. CASE UNCHANGED padVars
    <3>1. UNCHANGED <<direction, finger, contact, bouncing, switch, padTask, armed,
                      overdue, gestures, presses, since>>
      BY <2>6 DEF padVars
    <3>2. SwitchOK' /\ TaskOK' /\ PressOnce'
      BY <3>1 DEF PadInv, SwitchOK, TaskOK, PressOnce, Young, DeadlineIn, Repeats
    <3>3. RepeatOnce'
      BY <3>1 DEF PadInv, RepeatOnce, Young
    <3> QED
      BY <3>1, <3>2, <3>3 DEF PadInv
  <2> QED
    BY <2>1, <2>2, <2>3, <2>4, <2>5, <2>6 DEF PadNext
<1>3. PadInv => PadTypeOK /\ OnePressPerTouch /\ OneAfterTheFinger /\ PollMovesTheDeadline
  <2> SUFFICES ASSUME PadInv
               PROVE  PadTypeOK /\ OnePressPerTouch /\ OneAfterTheFinger
                      /\ PollMovesTheDeadline
    OBVIOUS
  <2>1. presses \in {0, 1} /\ since \in {0, 1}
    BY DEF PadInv, PressOnce, RepeatOnce
  <2>2. PadTypeOK
    BY <2>1 DEF PadInv, SwitchOK, PadTypeOK
  <2>3. PollMovesTheDeadline
    BY DEF PadInv, TaskOK, PollMovesTheDeadline
  <2> QED
    BY <2>1, <2>2, <2>3 DEF OnePressPerTouch, OneAfterTheFinger
<1> QED
  BY <1>1, <1>2, <1>3, PTL DEF PadSpec, PadCorrect

-----------------------------------------------------------------------------
(* HostLog.  The log the host has read, what it holds of a transfer, the   *)
(* packet being written and the ring are one line of bytes: each action    *)
(* moves a part of it, drops a part, or adds the next byte at its end.     *)

RingSet == [buf : [0..(Capacity - 1) -> Nat], read : 0..(Capacity - 1),
            len : 0..Capacity, dropped : Nat]

Rising(s) == \A i, j \in 1..Len(s) : i < j => s[i] < s[j]
Ahead(s, t) == \A i \in 1..Len(s), j \in 1..Len(t) : s[i] < t[j]
Upto(s, n) == \A i \in 1..Len(s) : s[i] <= n

InLine(a, b, c, w, n) ==
    /\ Rising(a) /\ Rising(b) /\ Rising(c) /\ Rising(w)
    /\ Ahead(a, b) /\ Ahead(a, c) /\ Ahead(a, w)
    /\ Ahead(b, c) /\ Ahead(b, w) /\ Ahead(c, w)
    /\ Upto(a, n) /\ Upto(b, n) /\ Upto(c, n) /\ Upto(w, n)

LogKinds ==
    /\ bus \in {"down", "configured", "suspended"}
    /\ {listening, collecting} \subseteq BOOLEAN
    /\ listening => bus = "configured"
    /\ pump \in {"connect", "gate", "send", "zlp"}

\* The gate has not been waited at for longer than it was last seen closed.
LogClock ==
    /\ raised \in 0..OpenSettle \cup {NotRaised} /\ closed \in 0..OpenSettle
    /\ raised # NotRaised => raised <= closed

LogRing ==
    /\ ring \in RingSet /\ {written, rest, missing} \subseteq Nat
    /\ EveryByteIsSomewhere

LogBytes ==
    /\ got \in Seq(Nat) /\ partial \in Seq(Nat) /\ chunk \in Seq(Nat)
    /\ Len(chunk) <= Packet /\ (pump = "send" <=> chunk # <<>>)

LogLine == InLine(got, partial, chunk, Waiting(ring), written)

LogInv == LogKinds /\ LogClock /\ LogRing /\ LogBytes /\ LogLine

LEMMA LogBounds ==
    /\ Capacity \in Nat /\ Capacity # 0 /\ Packet \in Nat /\ Packet # 0
    /\ Packet <= Capacity /\ OpenSettle \in Nat /\ NotRaised \notin Nat
BY HostLogAssumption DEF HostLogAssumption

\* The place in the ring of the xth byte from its start
Turn(x) == x % Capacity

LEMMA TurnFacts ==
    \A x \in Nat : x < 2 * Capacity =>
        Turn(x) = IF x < Capacity THEN x ELSE x - Capacity
<1> SUFFICES ASSUME NEW x \in Nat, x < 2 * Capacity
             PROVE  x % Capacity = IF x < Capacity THEN x ELSE x - Capacity
  BY DEF Turn
<1>1. CASE x < Capacity
  BY <1>1, LogBounds
<1>2. CASE x >= Capacity
  <2>1. x - Capacity \in 0..(Capacity - 1)
    BY <1>2, LogBounds
  <2> QED
    BY <1>2, <2>1, LogBounds
<1> QED
  BY <1>1, <1>2, LogBounds

LEMMA RingTypes ==
    ASSUME NEW old \in RingSet
    PROVE  /\ old.len \in Nat /\ old.len <= Capacity
           /\ old.read \in Nat /\ old.read < Capacity
           /\ old.buf \in [0..(Capacity - 1) -> Nat] /\ old.dropped \in Nat
BY LogBounds DEF RingSet

\* The place of the ith byte that waits, in a ring read from r
At(r, i) == Turn(r + i - 1)

LEMMA AtFacts ==
    ASSUME NEW r \in Nat, r < Capacity, NEW i \in 1..(Capacity + 1)
    PROVE  /\ At(r, i) \in 0..(Capacity - 1)
           /\ At(r, i) = IF r + i <= Capacity THEN r + i - 1 ELSE r + i - 1 - Capacity
<1> DEFINE n == r + i - 1
<1>1. n \in Nat /\ n < 2 * Capacity /\ n = r + i - 1
  BY LogBounds
<1>2. At(r, i) = Turn(n)
  BY DEF At
<1> HIDE DEF n
<1>3. Turn(n) = IF n < Capacity THEN n ELSE n - Capacity
  BY <1>1, TurnFacts
<1> QED
  BY <1>1, <1>2, <1>3, LogBounds

LEMMA WaitingFacts ==
    ASSUME NEW old \in RingSet
    PROVE  /\ Waiting(old) \in Seq(Nat) /\ Len(Waiting(old)) = old.len
           /\ \A i \in 1..old.len : Waiting(old)[i] = old.buf[At(old.read, i)]
<1>1. Waiting(old) = [i \in 1..old.len |-> old.buf[At(old.read, i)]]
  BY DEF Waiting, At, Turn
<1>2. \A i \in 1..old.len : i \in 1..(Capacity + 1)
  BY RingTypes, LogBounds
<1>3. \A i \in 1..old.len : old.buf[At(old.read, i)] \in Nat
  <2>1. \A i \in 1..old.len : At(old.read, i) \in 0..(Capacity - 1)
    <3>1. old.read \in Nat /\ old.read < Capacity
      BY RingTypes
    <3> QED
      BY <1>2, <3>1, AtFacts
  <2> QED
    BY <2>1, RingTypes
<1>4. Waiting(old) \in [1..old.len -> Nat] /\ old.len \in Nat
  BY <1>1, <1>3, RingTypes
<1>5. Waiting(old) \in Seq(Nat) /\ Len(Waiting(old)) = old.len
  BY <1>4
<1> QED
  BY <1>1, <1>5

LEMMA PushedIs ==
    ASSUME NEW old \in RingSet, NEW x \in Nat
    PROVE  PushByte(old, x) =
             [buf |-> [old.buf EXCEPT ![At(old.read, old.len + 1)] = x],
              read |-> IF old.len = Capacity THEN At(old.read, 2) ELSE old.read,
              len |-> IF old.len = Capacity THEN Capacity ELSE old.len + 1,
              dropped |-> IF old.len = Capacity THEN old.dropped + 1 ELSE old.dropped]
<1>1. /\ old.read + (old.len + 1) - 1 = old.read + old.len
      /\ old.read + 2 - 1 = old.read + 1
  BY RingTypes
<1>2. /\ At(old.read, old.len + 1) = (old.read + old.len) % Capacity
      /\ At(old.read, 2) = (old.read + 1) % Capacity
  BY <1>1 DEF At, Turn
<1>3. old = [buf |-> old.buf, read |-> old.read, len |-> old.len, dropped |-> old.dropped]
  BY DEF RingSet
<1>4. CASE old.len = Capacity
  <2>1. PushByte(old, x) =
          [old EXCEPT !.buf = [old.buf EXCEPT ![At(old.read, old.len + 1)] = x],
                      !.read = At(old.read, 2), !.dropped = old.dropped + 1]
    BY <1>2, <1>3, <1>4, Zenon DEF PushByte
  <2> QED
    BY <1>3, <1>4, <2>1
<1>5. CASE old.len # Capacity
  <2>1. PushByte(old, x) =
          [old EXCEPT !.buf = [old.buf EXCEPT ![At(old.read, old.len + 1)] = x],
                      !.len = old.len + 1]
    BY <1>2, <1>3, <1>5, Zenon DEF PushByte
  <2> QED
    BY <1>3, <1>5, <2>1
<1> QED
  BY <1>4, <1>5

\* The place before a push of the byte that is jth after it
Before(old, new, j) == j + old.len + 1 - new.len

\* new waits as old does, with byte x behind
PutBehind(old, new, x) ==
    \A j \in 1..new.len :
        Waiting(new)[j] = IF j = new.len THEN x ELSE Waiting(old)[Before(old, new, j)]

(* A byte is put at the end; in a full ring the oldest goes.               *)
LEMMA PushedByte ==
    ASSUME NEW old \in RingSet, NEW x \in Nat, NEW new, new = PushByte(old, x)
    PROVE  /\ new \in RingSet /\ new.len + new.dropped = old.len + old.dropped + 1
           /\ new.len > 0 /\ new.len \in {old.len, old.len + 1}
           /\ PutBehind(old, new, x)
<1> DEFINE place == At(old.read, old.len + 1)
           buf == [old.buf EXCEPT ![place] = x]
<1>1. /\ old.len \in Nat /\ old.len <= Capacity /\ old.read \in Nat /\ old.read < Capacity
      /\ old.buf \in [0..(Capacity - 1) -> Nat] /\ old.dropped \in Nat
  BY RingTypes
<1>2. place \in 0..(Capacity - 1)
  BY <1>1, AtFacts, LogBounds
<1>3. buf \in [0..(Capacity - 1) -> Nat]
      /\ \A p \in 0..(Capacity - 1) : buf[p] = IF p = place THEN x ELSE old.buf[p]
  BY <1>1, <1>2
<1>4. CASE old.len < Capacity
  <2>1. new = [buf |-> buf, read |-> old.read, len |-> old.len + 1, dropped |-> old.dropped]
    BY <1>1, <1>4, PushedIs
  <2> HIDE DEF buf
  <2>2. old.len + 1 \in 0..Capacity /\ old.read \in 0..(Capacity - 1)
    BY <1>1, <1>4, LogBounds
  <2>3. new \in RingSet /\ new.buf = buf /\ new.read = old.read /\ new.len = old.len + 1
        /\ new.dropped = old.dropped
    BY <1>1, <1>3, <2>1, <2>2 DEF RingSet
  <2>4. ASSUME NEW j \in 1..(old.len + 1)
        PROVE  Waiting(new)[j] = IF j = old.len + 1 THEN x ELSE Waiting(old)[j]
    <3>1. Waiting(new)[j] = buf[At(old.read, j)]
      BY <2>3, WaitingFacts
    <3>2. j \in 1..(Capacity + 1)
      BY <1>1, <1>4, LogBounds
    <3>3. j # old.len + 1 => j \in 1..old.len
      BY <1>1
    <3>4. At(old.read, j) \in 0..(Capacity - 1)
          /\ At(old.read, j) = IF old.read + j <= Capacity THEN old.read + j - 1
                               ELSE old.read + j - 1 - Capacity
      BY <1>1, <3>2, AtFacts
    <3>5. place = IF old.read + (old.len + 1) <= Capacity THEN old.read + (old.len + 1) - 1
                  ELSE old.read + (old.len + 1) - 1 - Capacity
      <4>1. old.len + 1 \in 1..(Capacity + 1)
        BY <1>1, LogBounds
      <4> QED
        BY <1>1, <4>1, AtFacts
    <3>6. j # old.len + 1 => At(old.read, j) # place
      <4> DEFINE k == At(old.read, j)
                 l == old.len
                 first == old.read
      <4>1. /\ k = IF first + j <= Capacity THEN first + j - 1 ELSE first + j - 1 - Capacity
            /\ place = IF first + (l + 1) <= Capacity THEN first + (l + 1) - 1
                       ELSE first + (l + 1) - 1 - Capacity
            /\ first \in Nat /\ first < Capacity /\ l \in Nat /\ l < Capacity
            /\ j \in 1..(l + 1)
        BY <1>1, <1>4, <3>4, <3>5
      <4> HIDE DEF k, l, first, place
      <4>2. j # l + 1 => k # place
        BY <4>1, LogBounds
      <4> QED
        BY <4>2 DEF k, l
    <3>7. j # old.len + 1 => Waiting(old)[j] = old.buf[At(old.read, j)]
      BY <3>3, WaitingFacts
    <3> QED
      BY <1>3, <3>1, <3>4, <3>6, <3>7
  <2>5. \A j \in 1..new.len : Before(old, new, j) = j
    BY <1>1, <2>3 DEF Before
  <2>6. \A j \in 1..new.len : Waiting(new)[j] = IF j = new.len THEN x ELSE Waiting(old)[j]
    BY <2>3, <2>4
  <2> QED
    BY <1>1, <2>3, <2>5, <2>6 DEF PutBehind
<1>5. CASE old.len = Capacity
  <2> DEFINE next == At(old.read, 2)
  <2>1. new = [buf |-> buf, read |-> next, len |-> Capacity, dropped |-> old.dropped + 1]
    BY <1>1, <1>5, PushedIs
  <2>2. next \in 0..(Capacity - 1)
        /\ next = IF old.read + 1 < Capacity THEN old.read + 1 ELSE 0
    <3>1. 2 \in 1..(Capacity + 1)
      BY LogBounds
    <3>2. /\ next \in 0..(Capacity - 1)
          /\ next = IF old.read + 2 <= Capacity THEN old.read + 2 - 1
                    ELSE old.read + 2 - 1 - Capacity
      BY <1>1, <3>1, AtFacts
    <3> HIDE DEF next
    <3> QED
      BY <1>1, <3>2, LogBounds
  <2>3. place = old.read
    <3>1. Capacity + 1 \in 1..(Capacity + 1)
      BY LogBounds
    <3>2. place = IF old.read + (Capacity + 1) <= Capacity THEN old.read + (Capacity + 1) - 1
                  ELSE old.read + (Capacity + 1) - 1 - Capacity
      BY <1>1, <1>5, <3>1, AtFacts
    <3> HIDE DEF place
    <3> QED
      BY <1>1, <3>2, LogBounds
  <2> HIDE DEF buf, next, place
  <2>4. new \in RingSet /\ new.buf = buf /\ new.read = next /\ new.len = Capacity
        /\ new.dropped = old.dropped + 1
    <3>1. Capacity \in 0..Capacity /\ old.dropped + 1 \in Nat
      BY <1>1, LogBounds
    <3> QED
      BY <1>3, <2>1, <2>2, <3>1 DEF RingSet
  <2>5. ASSUME NEW j \in 1..Capacity
        PROVE  Waiting(new)[j] = IF j = Capacity THEN x ELSE Waiting(old)[j + 1]
    <3>1. Waiting(new)[j] = buf[At(next, j)]
      BY <2>4, WaitingFacts
    <3>2. j \in 1..(Capacity + 1) /\ (j # Capacity => j + 1 \in 1..Capacity)
      BY LogBounds
    <3>3. At(next, j) \in 0..(Capacity - 1)
          /\ At(next, j) = IF next + j <= Capacity THEN next + j - 1
                           ELSE next + j - 1 - Capacity
      BY <2>2, <3>2, AtFacts, LogBounds
    <3>4. j = Capacity => At(next, j) = place
      <4> DEFINE k == At(next, j)
                 first == old.read
      <4>1. /\ k = IF next + j <= Capacity THEN next + j - 1 ELSE next + j - 1 - Capacity
            /\ next = IF first + 1 < Capacity THEN first + 1 ELSE 0
            /\ place = first /\ first \in Nat /\ first < Capacity
        BY <1>1, <2>2, <2>3, <3>3
      <4> HIDE DEF k, first
      <4>2. j = Capacity => k = place
        BY <4>1, LogBounds
      <4> QED
        BY <4>2 DEF k
    <3>5. j # Capacity => At(next, j) # place /\ At(next, j) = At(old.read, j + 1)
      <4> SUFFICES ASSUME j # Capacity
                   PROVE  At(next, j) # place /\ At(next, j) = At(old.read, j + 1)
        OBVIOUS
      <4> DEFINE k == At(next, j)
                 m == At(old.read, j + 1)
                 first == old.read
      <4>1. j + 1 \in 1..(Capacity + 1)
        BY <3>2, LogBounds
      <4>2. m = IF first + (j + 1) <= Capacity THEN first + (j + 1) - 1
                ELSE first + (j + 1) - 1 - Capacity
        BY <1>1, <4>1, AtFacts
      <4>3. /\ k = IF next + j <= Capacity THEN next + j - 1 ELSE next + j - 1 - Capacity
            /\ next = IF first + 1 < Capacity THEN first + 1 ELSE 0
            /\ place = first /\ first \in Nat /\ first < Capacity
        BY <1>1, <2>2, <2>3, <3>3
      <4> HIDE DEF k, m, first
      <4>4. k # place /\ k = m
        BY <4>2, <4>3, LogBounds
      <4> QED
        BY <4>4 DEF k, m
    <3>6. j # Capacity => Waiting(old)[j + 1] = old.buf[At(old.read, j + 1)]
      BY <1>5, <3>2, WaitingFacts
    <3> QED
      BY <1>3, <3>1, <3>3, <3>4, <3>5, <3>6
  <2>6. \A j \in 1..new.len : Before(old, new, j) = j + 1
    BY <1>5, <2>4, LogBounds DEF Before
  <2>7. \A j \in 1..new.len : Waiting(new)[j] = IF j = new.len THEN x ELSE Waiting(old)[j + 1]
    BY <2>4, <2>5
  <2> QED
    BY <1>1, <1>5, <2>4, <2>6, <2>7, LogBounds DEF PutBehind
<1> QED
  BY <1>1, <1>4, <1>5, LogBounds

(* push, for as many bytes as are ever logged at once in the model.        *)
LEMMA PushFew ==
    ASSUME NEW old, NEW from \in Nat
    PROVE  /\ push(old, from, 0) = old
           /\ push(old, from, 1) = PushByte(old, from + 1)
           /\ push(old, from, 2) = PushByte(PushByte(old, from + 1), from + 2)
<1> DEFINE Goes(f, n) ==
               f = [i \in 0..n |-> IF i = 0 THEN old ELSE PushByte(f[i - 1], from + i)]
           after(n) == CHOOSE f : Goes(f, n)
<1>1. \A n : push(old, from, n) = after(n)[n]
  BY DEF push
<1>2. Goes([i \in 0..0 |-> old], 0)
  OBVIOUS
<1>3. Goes([i \in 0..1 |-> IF i = 0 THEN old ELSE PushByte(old, from + 1)], 1)
  <2> DEFINE g == [i \in 0..1 |-> IF i = 0 THEN old ELSE PushByte(old, from + 1)]
  <2>1. g[0] = old
    OBVIOUS
  <2>2. \A i \in 0..1 : i # 0 => i = 1 /\ i - 1 = 0
    OBVIOUS
  <2> QED
    BY <2>1, <2>2
<1>4. Goes([i \in 0..2 |-> IF i = 0 THEN old
                           ELSE IF i = 1 THEN PushByte(old, from + 1)
                           ELSE PushByte(PushByte(old, from + 1), from + 2)], 2)
  <2> DEFINE g == [i \in 0..2 |-> IF i = 0 THEN old
                                  ELSE IF i = 1 THEN PushByte(old, from + 1)
                                  ELSE PushByte(PushByte(old, from + 1), from + 2)]
  <2>1. g[0] = old /\ g[1] = PushByte(old, from + 1)
    OBVIOUS
  <2>2. \A i \in 0..2 : (i = 0 \/ i = 1 \/ i = 2) /\ 1 - 1 = 0 /\ 2 - 1 = 1
    OBVIOUS
  <2>3. \A i \in 0..2 : g[i] = IF i = 0 THEN old ELSE PushByte(g[i - 1], from + i)
    BY <2>1, <2>2
  <2> HIDE DEF g
  <2>4. g = [i \in 0..2 |-> g[i]]
    BY DEF g
  <2> QED
    BY <2>3, <2>4 DEF g
<1>5. Goes(after(0), 0) /\ Goes(after(1), 1) /\ Goes(after(2), 2)
  <2> HIDE DEF Goes
  <2> QED
    BY <1>2, <1>3, <1>4
<1> HIDE DEF after
<1>6. after(0)[0] = old /\ after(1)[0] = old /\ after(2)[0] = old
  BY <1>5
<1>7. after(1)[1] = PushByte(old, from + 1) /\ after(2)[1] = PushByte(old, from + 1)
  <2>1. 1 \in 0..1 /\ 1 \in 0..2 /\ 1 - 1 = 0 /\ 1 # 0
    OBVIOUS
  <2> QED
    BY <1>5, <1>6, <2>1
<1>8. after(2)[2] = PushByte(PushByte(old, from + 1), from + 2)
  <2>1. 2 \in 0..2 /\ 2 - 1 = 1 /\ 2 # 0
    OBVIOUS
  <2> QED
    BY <1>5, <1>7, <2>1
<1> QED
  BY <1>1, <1>6, <1>7, <1>8

(* What pop copies out is the front of what waits, and the rest waits on.  *)
LEMMA Popped ==
    ASSUME NEW old \in RingSet, NEW front, front = PacketOf(old), NEW new, new = pop(old)
    PROVE  /\ front \in Seq(Nat) /\ Len(front) <= Packet /\ Len(front) <= old.len
           /\ (old.len > 0 => Len(front) > 0)
           /\ \A i \in 1..Len(front) : front[i] = Waiting(old)[i]
           /\ new \in RingSet /\ new.len = old.len - Len(front) /\ new.dropped = old.dropped
           /\ \A j \in 1..new.len : Waiting(new)[j] = Waiting(old)[j + Len(front)]
<1> DEFINE n == IF old.len < Packet THEN old.len ELSE Packet
<1>1. /\ old.len \in Nat /\ old.len <= Capacity /\ old.read \in Nat /\ old.read < Capacity
      /\ old.buf \in [0..(Capacity - 1) -> Nat] /\ old.dropped \in Nat
  BY RingTypes
<1>2. n \in Nat /\ n <= Packet /\ n <= old.len /\ (old.len > 0 => n > 0)
  BY <1>1, LogBounds
<1>3. front = SubSeq(Waiting(old), 1, n)
  BY DEF PacketOf
<1> HIDE DEF n
<1>4. /\ front \in Seq(Nat) /\ Len(front) = n
      /\ \A i \in 1..n : front[i] = Waiting(old)[i]
  BY <1>1, <1>2, <1>3, WaitingFacts
<1>5. new = [buf |-> old.buf, read |-> At(old.read, n + 1), len |-> old.len - n,
             dropped |-> old.dropped]
  <2>1. old = [buf |-> old.buf, read |-> old.read, len |-> old.len, dropped |-> old.dropped]
    BY DEF RingSet
  <2>2. old.read + (n + 1) - 1 = old.read + n
    BY <1>1, <1>2
  <2>3. At(old.read, n + 1) = (old.read + n) % Capacity
    BY <2>2 DEF At, Turn
  <2>4. new = [old EXCEPT !.read = At(old.read, n + 1), !.len = old.len - n]
    BY <1>4, <2>3 DEF pop
  <2> QED
    BY <2>1, <2>4
<1>6. n + 1 \in 1..(Capacity + 1) /\ old.len - n \in 0..Capacity
  BY <1>1, <1>2, LogBounds
<1>7. At(old.read, n + 1) \in 0..(Capacity - 1)
      /\ At(old.read, n + 1) = IF old.read + (n + 1) <= Capacity THEN old.read + (n + 1) - 1
                               ELSE old.read + (n + 1) - 1 - Capacity
  BY <1>1, <1>6, AtFacts
<1>8. /\ new \in RingSet /\ new.buf = old.buf /\ new.read = At(old.read, n + 1)
      /\ new.len = old.len - n /\ new.dropped = old.dropped
  BY <1>1, <1>5, <1>6, <1>7 DEF RingSet
<1>9. ASSUME NEW j \in 1..(old.len - n)
      PROVE  Waiting(new)[j] = Waiting(old)[j + n]
  <2> DEFINE start == At(old.read, n + 1)
             origin == old.read
             k == At(start, j)
             m == At(origin, j + n)
  <2>1. j \in 1..(Capacity + 1) /\ j + n \in 1..(Capacity + 1) /\ j + n \in 1..old.len
    BY <1>1, <1>2, LogBounds
  <2>2. start \in Nat /\ start < Capacity
    BY <1>7, LogBounds
  <2>3. k = IF start + j <= Capacity THEN start + j - 1 ELSE start + j - 1 - Capacity
    <3> HIDE DEF start
    <3> QED
      BY <2>1, <2>2, AtFacts
  <2>4. m = IF origin + (j + n) <= Capacity THEN origin + (j + n) - 1
            ELSE origin + (j + n) - 1 - Capacity
    BY <1>1, <2>1, AtFacts
  <2>5. start = IF origin + (n + 1) <= Capacity THEN origin + (n + 1) - 1
                ELSE origin + (n + 1) - 1 - Capacity
    BY <1>7
  <2>6. origin \in Nat /\ origin < Capacity
    BY <1>1
  <2> HIDE DEF start, origin, k, m
  <2>7. k = m
    BY <1>2, <2>1, <2>3, <2>4, <2>5, <2>6, LogBounds
  <2>8. Waiting(new)[j] = old.buf[k]
    BY <1>8, WaitingFacts DEF k, start
  <2>9. Waiting(old)[j + n] = old.buf[m]
    BY <2>1, WaitingFacts DEF m, origin
  <2> QED
    BY <2>7, <2>8, <2>9
<1> QED
  BY <1>1, <1>2, <1>4, <1>8, <1>9

(* The line: two parts become one, one is dropped, one is cut in two, and  *)
(* the next byte is put at the end, with or without the oldest of the ring.*)
LEMMA Joined ==
    ASSUME NEW s \in Seq(Nat), NEW t \in Seq(Nat), Rising(s), Rising(t), Ahead(s, t)
    PROVE  Rising(s \o t)
<1>1. /\ Len(s \o t) = Len(s) + Len(t) /\ Len(s) \in Nat /\ Len(t) \in Nat
      /\ \A i \in 1..(Len(s) + Len(t)) :
            (s \o t)[i] = IF i <= Len(s) THEN s[i] ELSE t[i - Len(s)]
  OBVIOUS
<1> SUFFICES ASSUME NEW i \in 1..(Len(s) + Len(t)), NEW j \in 1..(Len(s) + Len(t)), i < j
             PROVE  (s \o t)[i] < (s \o t)[j]
  BY <1>1 DEF Rising
<1>2. CASE j <= Len(s)
  BY <1>1, <1>2 DEF Rising
<1>3. CASE i <= Len(s) /\ j > Len(s)
  <2>1. i \in 1..Len(s) /\ j - Len(s) \in 1..Len(t)
    BY <1>1, <1>3
  <2> QED
    BY <1>1, <1>3, <2>1 DEF Ahead
<1>4. CASE i > Len(s)
  <2> DEFINE p == i - Len(s)
             q == j - Len(s)
  <2>1. p \in 1..Len(t) /\ q \in 1..Len(t) /\ p < q
    BY <1>1, <1>4
  <2>2. (s \o t)[i] = t[p] /\ (s \o t)[j] = t[q]
    BY <1>1, <1>4
  <2> HIDE DEF p, q
  <2>3. t[p] < t[q]
    BY <2>1 DEF Rising
  <2> QED
    BY <2>2, <2>3
<1>5. (j <= Len(s)) \/ (i <= Len(s) /\ j > Len(s)) \/ (i > Len(s))
  <2>1. Len(s) \in Nat
    BY <1>1
  <2> QED
    BY <2>1
<1> QED
  BY <1>2, <1>3, <1>4, <1>5, Zenon

LEMMA JoinedAhead ==
    ASSUME NEW s \in Seq(Nat), NEW t \in Seq(Nat), NEW u \in Seq(Nat)
    PROVE  /\ Ahead(s, u) /\ Ahead(t, u) => Ahead(s \o t, u)
           /\ Ahead(u, s) /\ Ahead(u, t) => Ahead(u, s \o t)
<1>1. /\ Len(s \o t) = Len(s) + Len(t) /\ Len(s) \in Nat /\ Len(t) \in Nat
      /\ \A i \in 1..(Len(s) + Len(t)) :
            (s \o t)[i] = IF i <= Len(s) THEN s[i] ELSE t[i - Len(s)]
  OBVIOUS
<1>2. \A i \in 1..(Len(s) + Len(t)) : i <= Len(s) \/ i - Len(s) \in 1..Len(t)
  BY <1>1
<1>3. \A i \in 1..(Len(s) + Len(t)) : i <= Len(s) => i \in 1..Len(s)
  BY <1>1
<1> QED
  BY <1>1, <1>2, <1>3 DEF Ahead

LEMMA JoinedUpto ==
    ASSUME NEW s \in Seq(Nat), NEW t \in Seq(Nat), NEW n \in Nat, Upto(s, n), Upto(t, n)
    PROVE  Upto(s \o t, n)
<1>1. /\ Len(s \o t) = Len(s) + Len(t) /\ Len(s) \in Nat /\ Len(t) \in Nat
      /\ \A i \in 1..(Len(s) + Len(t)) :
            (s \o t)[i] = IF i <= Len(s) THEN s[i] ELSE t[i - Len(s)]
  OBVIOUS
<1>2. \A i \in 1..(Len(s) + Len(t)) : i <= Len(s) \/ i - Len(s) \in 1..Len(t)
  BY <1>1
<1>3. \A i \in 1..(Len(s) + Len(t)) : i <= Len(s) => i \in 1..Len(s)
  BY <1>1
<1> QED
  BY <1>1, <1>2, <1>3 DEF Upto

LEMMA NothingInLine ==
    /\ Rising(<<>>) /\ \A n : Upto(<<>>, n)
    /\ \A s : Ahead(<<>>, s) /\ Ahead(s, <<>>)
BY DEF Rising, Upto, Ahead

LEMMA LineMoves ==
    ASSUME NEW a \in Seq(Nat), NEW b \in Seq(Nat), NEW c \in Seq(Nat), NEW w \in Seq(Nat),
           NEW n \in Nat, InLine(a, b, c, w, n)
    PROVE  /\ InLine(a, <<>>, c, w, n) /\ InLine(a, b, <<>>, w, n)
           /\ InLine(a \o b, <<>>, c, w, n) /\ InLine(a, b \o c, <<>>, w, n)
           /\ InLine(a \o b \o c, <<>>, <<>>, w, n)
<1>1. InLine(a, <<>>, c, w, n) /\ InLine(a, b, <<>>, w, n)
  BY NothingInLine DEF InLine
<1>2. a \o b \in Seq(Nat) /\ b \o c \in Seq(Nat)
  OBVIOUS
<1>3. InLine(a \o b, <<>>, c, w, n)
  BY Joined, JoinedAhead, JoinedUpto, NothingInLine DEF InLine
<1>4. InLine(a, b \o c, <<>>, w, n)
  BY Joined, JoinedAhead, JoinedUpto, NothingInLine DEF InLine
<1> DEFINE ab == a \o b
<1>5. InLine(ab \o c, <<>>, <<>>, w, n)
  <2> HIDE DEF ab
  <2>1. ab \in Seq(Nat) /\ InLine(ab, <<>>, c, w, n)
    BY <1>2, <1>3 DEF ab
  <2> QED
    BY <2>1, Joined, JoinedAhead, JoinedUpto, NothingInLine DEF InLine
<1> QED
  BY <1>1, <1>3, <1>4, <1>5

LEMMA LineCut ==
    ASSUME NEW a \in Seq(Nat), NEW b \in Seq(Nat), NEW w \in Seq(Nat), NEW n \in Nat,
           NEW s \in Seq(Nat), NEW t \in Seq(Nat), InLine(a, b, <<>>, w, n),
           Len(w) = Len(s) + Len(t),
           \A i \in 1..Len(s) : s[i] = w[i],
           \A i \in 1..Len(t) : t[i] = w[i + Len(s)]
    PROVE  InLine(a, b, s, t, n)
<1>1. /\ \A i \in 1..Len(s) : i \in 1..Len(w)
      /\ \A i \in 1..Len(t) : i + Len(s) \in 1..Len(w)
      /\ Len(s) \in Nat /\ Len(t) \in Nat
  OBVIOUS
<1>2. Rising(s) /\ Ahead(a, s) /\ Ahead(b, s) /\ Upto(s, n)
  BY <1>1 DEF InLine, Rising, Ahead, Upto
<1>3. Ahead(a, t) /\ Ahead(b, t) /\ Upto(t, n)
  BY <1>1 DEF InLine, Ahead, Upto
<1>4. Rising(t)
  <2>1. \A i, j \in 1..Len(t) : i < j => i + Len(s) < j + Len(s)
    BY <1>1
  <2> QED
    BY <1>1, <2>1 DEF InLine, Rising
<1>5. Ahead(s, t)
  <2>1. \A i \in 1..Len(s), j \in 1..Len(t) : i < j + Len(s)
    BY <1>1
  <2> QED
    BY <1>1, <2>1 DEF InLine, Rising, Ahead
<1> QED
  BY <1>2, <1>3, <1>4, <1>5 DEF InLine

LEMMA LineGrows ==
    ASSUME NEW a \in Seq(Nat), NEW b \in Seq(Nat), NEW c \in Seq(Nat), NEW n \in Nat,
           NEW old \in RingSet, NEW new, new = PushByte(old, n + 1),
           InLine(a, b, c, Waiting(old), n)
    PROVE  InLine(a, b, c, Waiting(new), n + 1)
<1> DEFINE w == Waiting(old)
           v == Waiting(new)
           gap == old.len + 1 - new.len
<1>1. /\ new \in RingSet /\ new.len > 0 /\ new.len \in {old.len, old.len + 1}
      /\ \A j \in 1..new.len : v[j] = IF j = new.len THEN n + 1 ELSE w[j + gap]
  <2>1. n + 1 \in Nat
    OBVIOUS
  <2>2. /\ new \in RingSet /\ new.len > 0 /\ new.len \in {old.len, old.len + 1}
        /\ \A j \in 1..new.len :
              v[j] = IF j = new.len THEN n + 1 ELSE w[Before(old, new, j)]
    <3> DEFINE x == n + 1
    <3>1. x \in Nat /\ new = PushByte(old, x)
      BY <2>1
    <3> HIDE DEF x, gap
    <3>2. new \in RingSet /\ new.len > 0 /\ new.len \in {old.len, old.len + 1}
      BY <3>1, PushedByte
    <3>3. PutBehind(old, new, x)
      BY <3>1, PushedByte
    <3> QED
      BY <3>2, <3>3, Zenon DEF x, PutBehind
  <2>3. old.len \in Nat /\ new.len \in Nat
    BY <2>2, RingTypes
  <2>4. \A j \in 1..new.len : Before(old, new, j) = j + gap
    BY <2>3 DEF Before
  <2> HIDE DEF gap
  <2> QED
    BY <2>2, <2>4
<1>2. /\ v \in Seq(Nat) /\ Len(v) = new.len /\ w \in Seq(Nat) /\ Len(w) = old.len
      /\ old.len \in Nat /\ new.len \in Nat
  BY <1>1, WaitingFacts, RingTypes
<1>3. gap \in {0, 1} /\ \A j \in 1..new.len : j # new.len => j + gap \in 1..old.len
  <2> DEFINE lo == old.len
             ln == new.len
  <2>1. lo \in Nat /\ ln \in Nat /\ ln > 0 /\ (ln = lo \/ ln = lo + 1) /\ gap = lo + 1 - ln
    BY <1>1, <1>2
  <2> HIDE DEF lo, ln, gap
  <2>2. gap = 0 \/ gap = 1
    BY <2>1
  <2>3. \A j \in 1..ln : j # ln => j + gap \in 1..lo
    BY <2>1
  <2> QED
    BY <2>2, <2>3 DEF lo, ln
<1> DEFINE l == new.len
<1>4. /\ l \in Nat /\ l > 0 /\ Len(v) = l
      /\ \A j \in 1..l : v[j] = IF j = l THEN n + 1 ELSE w[j + gap]
      /\ \A j \in 1..l : j # l => j + gap \in 1..Len(w)
  BY <1>1, <1>2, <1>3
<1> HIDE DEF v, w, gap, l
<1>5. InLine(a, b, c, w, n)
  BY DEF w
<1>6. \A i \in 1..Len(w) : w[i] <= n /\ w[i] \in Nat
  BY <1>2, <1>5 DEF InLine, Upto
<1>7. Upto(a, n + 1) /\ Upto(b, n + 1) /\ Upto(c, n + 1) /\ Upto(v, n + 1)
  <2>1. \A s \in Seq(Nat) : Upto(s, n) => Upto(s, n + 1)
    BY DEF Upto
  <2>2. Upto(v, n + 1)
    <3>1. ASSUME NEW j \in 1..l
          PROVE  v[j] <= n + 1
      <4>1. CASE j = l
        BY <1>4, <4>1
      <4>2. CASE j # l
        <5>1. v[j] = w[j + gap] /\ w[j + gap] <= n /\ w[j + gap] \in Nat
          BY <1>4, <1>6, <4>2
        <5> QED
          BY <5>1
      <4> QED
        BY <4>1, <4>2
    <3> QED
      BY <1>4, <3>1 DEF Upto
  <2> QED
    BY <1>5, <2>1, <2>2 DEF InLine
<1>8. Rising(v)
  <2> SUFFICES ASSUME NEW i \in 1..l, NEW j \in 1..l, i < j
               PROVE  v[i] < v[j]
    BY <1>4 DEF Rising
  <2>1. i # l /\ v[i] = w[i + gap] /\ i + gap \in 1..Len(w)
    BY <1>4
  <2>2. CASE j = l
    BY <1>4, <1>6, <2>1, <2>2
  <2>3. CASE j # l
    <3>1. v[j] = w[j + gap] /\ j + gap \in 1..Len(w) /\ i + gap < j + gap
      BY <1>3, <1>4, <2>3
    <3> QED
      BY <1>5, <2>1, <3>1 DEF InLine, Rising
  <2> QED
    BY <2>2, <2>3
<1>9. \A s \in Seq(Nat) : Ahead(s, w) /\ Upto(s, n) => Ahead(s, v)
  <2> SUFFICES ASSUME NEW s \in Seq(Nat), Ahead(s, w), Upto(s, n),
                      NEW i \in 1..Len(s), NEW j \in 1..l
               PROVE  s[i] < v[j]
    BY <1>4 DEF Ahead
  <2>1. CASE j = l
    <3>1. s[i] \in Nat /\ s[i] <= n
      BY DEF Upto
    <3> QED
      BY <1>4, <2>1, <3>1
  <2>2. CASE j # l
    BY <1>4, <2>2 DEF Ahead
  <2> QED
    BY <2>1, <2>2
<1>10. InLine(a, b, c, v, n + 1)
  BY <1>5, <1>7, <1>8, <1>9 DEF InLine
<1> QED
  BY <1>10 DEF v

(* What Logger and the pump push is the next of the line, and is counted.   *)
LEMMA Pushed ==
    ASSUME NEW a \in Seq(Nat), NEW b \in Seq(Nat), NEW c \in Seq(Nat), NEW from \in Nat,
           NEW old \in RingSet, NEW n \in 0..2, NEW new, new = push(old, from, n),
           InLine(a, b, c, Waiting(old), from)
    PROVE  /\ new \in RingSet /\ new.len + new.dropped = old.len + old.dropped + n
           /\ InLine(a, b, c, Waiting(new), from + n)
<1>1. CASE n = 0
  <2>1. new = old /\ from + n = from /\ old.len + old.dropped + n = old.len + old.dropped
    BY <1>1, PushFew, RingTypes
  <2> QED
    BY <2>1
<1> DEFINE one == PushByte(old, from + 1)
<1>2. /\ one \in RingSet /\ one.len + one.dropped = old.len + old.dropped + 1
      /\ InLine(a, b, c, Waiting(one), from + 1)
  <2>1. from + 1 \in Nat
    OBVIOUS
  <2> DEFINE x == from + 1
  <2>2. x \in Nat /\ one = PushByte(old, x)
    BY <2>1
  <2> HIDE DEF one, x
  <2>3. one \in RingSet /\ one.len + one.dropped = old.len + old.dropped + 1
    BY <2>2, PushedByte
  <2>4. one = PushByte(old, from + 1)
    BY DEF one
  <2>5. InLine(a, b, c, Waiting(one), from + 1)
    BY <2>4, LineGrows
  <2> QED
    BY <2>3, <2>5
<1>3. CASE n = 1
  <2>1. new = one
    BY <1>3, PushFew
  <2> HIDE DEF one
  <2> QED
    BY <1>2, <1>3, <2>1
<1>4. CASE n = 2
  <2> DEFINE y == from + 1
  <2>1. y \in Nat /\ new = PushByte(one, y + 1) /\ y + 1 = from + 2
    <3>1. new = PushByte(one, from + 2)
      BY <1>4, PushFew
    <3>2. y + 1 = from + 2 /\ y \in Nat
      OBVIOUS
    <3> HIDE DEF y, one
    <3> QED
      BY <3>1, <3>2
  <2>2. InLine(a, b, c, Waiting(one), y)
    BY <1>2
  <2> HIDE DEF one, y
  <2>3. InLine(a, b, c, Waiting(new), y + 1)
    BY <1>2, <2>1, <2>2, LineGrows
  <2> DEFINE x == y + 1
  <2>4. x \in Nat /\ new = PushByte(one, x)
    BY <2>1
  <2> HIDE DEF x
  <2>5. new \in RingSet /\ new.len + new.dropped = one.len + one.dropped + 1
    BY <1>2, <2>4, PushedByte
  <2>6. new.len + new.dropped = old.len + old.dropped + 2
    BY <1>2, <2>5, RingTypes
  <2> QED
    BY <1>4, <2>1, <2>3, <2>5, <2>6
<1> QED
  BY <1>1, <1>3, <1>4

LEMMA LogStart == HostLogInit => LogInv
<1> SUFFICES ASSUME HostLogInit
             PROVE  LogInv
  OBVIOUS
<1>1. /\ ring.buf = [i \in 0..(Capacity - 1) |-> 0] /\ ring.read = 0 /\ ring.len = 0
      /\ ring.dropped = 0 /\ ring \in RingSet
  BY LogBounds DEF HostLogInit, RingSet
<1>2. Waiting(ring) = <<>>
  <2>1. Len(Waiting(ring)) = 0 /\ Waiting(ring) \in Seq(Nat)
    BY <1>1, WaitingFacts
  <2> QED
    BY <2>1
<1>3. LogLine
  BY <1>2, NothingInLine DEF InLine, HostLogInit, LogLine
<1>4. EveryByteIsSomewhere
  BY <1>1 DEF EveryByteIsSomewhere, HostLogInit
<1>5. LogRing
  BY <1>1, <1>4 DEF HostLogInit, LogRing
<1>6. LogKinds
  BY Zenon DEF HostLogInit, LogKinds
<1>7. LogClock
  BY LogBounds DEF HostLogInit, LogClock
<1>8. LogBytes
  BY LogBounds DEF HostLogInit, LogBytes
<1> QED
  BY <1>3, <1>5, <1>6, <1>7, <1>8 DEF LogInv

\* What the steps cite of the types
LEMMA LogLengths ==
    ASSUME LogInv
    PROVE  /\ Len(got) \in Nat /\ Len(partial) \in Nat /\ Len(chunk) \in Nat
           /\ ring.len \in Nat /\ ring.dropped \in Nat /\ missing \in Nat
           /\ written \in Nat /\ rest \in Nat /\ Waiting(ring) \in Seq(Nat)
           /\ got \in Seq(Nat) /\ partial \in Seq(Nat) /\ chunk \in Seq(Nat)
<1>1. ring \in RingSet
  BY DEF LogInv, LogRing
<1> QED
  BY <1>1, RingTypes, WaitingFacts DEF LogInv, LogRing, LogBytes

(* A reader that goes takes what it had of a transfer with it, and no more. *)
LEMMA LogLoses ==
    ASSUME LogInv, UNCHANGED <<ring, written, rest, chunk, got, pump>>,
           \/ UNCHANGED <<partial, missing>>
           \/ partial' = <<>> /\ missing' = missing + Len(partial)
    PROVE  LogRing' /\ LogBytes' /\ LogLine'
<1>1. CASE UNCHANGED <<partial, missing>>
  BY <1>1 DEF LogInv, LogRing, LogBytes, LogLine, EveryByteIsSomewhere, Waiting
<1>2. CASE partial' = <<>> /\ missing' = missing + Len(partial)
  <2>1. Waiting(ring)' = Waiting(ring)
    BY DEF Waiting
  <2>2. InLine(got, <<>>, chunk, Waiting(ring), written)
    BY LogLengths, LineMoves DEF LogInv, LogLine
  <2>3. LogLine'
    BY <1>2, <2>1, <2>2 DEF LogLine
  <2>4. Len(partial') = 0 /\ missing' \in Nat
    BY <1>2, LogLengths
  <2>5. EveryByteIsSomewhere'
    BY <1>2, <2>4, LogLengths DEF LogInv, LogRing, EveryByteIsSomewhere
  <2> QED
    BY <1>2, <2>3, <2>4, <2>5 DEF LogInv, LogRing, LogBytes
<1> QED
  BY <1>1, <1>2

LEMMA LogBus ==
    ASSUME LogInv, Bus \/ Attach
    PROVE  LogInv'
<1>1. LogKinds' /\ LogClock'
  <2>1. CASE Bus
    BY <2>1 DEF LogInv, LogKinds, LogClock, Bus, Gone
  <2>2. CASE Attach
    BY <2>2 DEF LogInv, LogKinds, LogClock, Attach, Gone, bus_active
  <2> QED
    BY <2>1, <2>2
<1>2. UNCHANGED <<ring, written, rest, chunk, got, pump>>
  BY DEF Bus, Attach
<1>3. \/ UNCHANGED <<partial, missing>>
      \/ partial' = <<>> /\ missing' = missing + Len(partial)
  BY DEF Bus, Attach, Gone
<1>4. LogRing' /\ LogBytes' /\ LogLine'
  BY <1>2, <1>3, LogLoses
<1> QED
  BY <1>1, <1>4 DEF LogInv

LEMMA LogClocks ==
    ASSUME LogInv, Connected \/ Shut \/ Waits
    PROVE  LogInv'
<1>1. LogClock'
  <2>1. CASE Connected
    BY <2>1, LogBounds DEF LogClock, Connected
  <2>2. CASE Shut
    BY <2>2, LogBounds DEF LogInv, LogClock, Shut, DrainGate, Open
  <2>3. CASE Waits
    BY <2>3, LogBounds DEF LogInv, LogClock, Waits
  <2> QED
    BY <2>1, <2>2, <2>3
<1>2. /\ UNCHANGED <<ring, written, rest, chunk, got, partial, missing>>
      /\ UNCHANGED <<bus, listening, collecting>>
      /\ (pump' = pump \/ (pump = "connect" /\ pump' = "gate"))
  <2>1. CASE Connected
    BY <2>1 DEF Connected
  <2>2. CASE Shut
    BY <2>2 DEF Shut
  <2>3. CASE Waits
    BY <2>3 DEF Waits
  <2> QED
    BY <2>1, <2>2, <2>3
<1>4. LogKinds'
  BY <1>2 DEF LogInv, LogKinds
<1>3. LogRing' /\ LogBytes' /\ LogLine'
  BY <1>2 DEF LogInv, LogRing, LogBytes, LogLine, EveryByteIsSomewhere, Waiting
<1> QED
  BY <1>1, <1>3, <1>4 DEF LogInv

LEMMA LogLogged ==
    ASSUME LogInv, Logged
    PROVE  LogInv'
<1>1. PICK n \in 1..2 : /\ rest' = rest + n /\ written' = written + n
                        /\ ring' = push(ring, written, n)
  BY DEF Logged
<1>2. UNCHANGED <<bus, listening, collecting, pump, raised, closed, chunk, partial, got, missing>>
  BY DEF Logged
<1>3. ring \in RingSet /\ n \in 0..2 /\ InLine(got, partial, chunk, Waiting(ring), written)
  BY DEF LogInv, LogRing, LogLine
<1> DEFINE new == ring'
<1>4. new = push(ring, written, n)
  BY <1>1
<1> HIDE DEF new
<1>5. /\ new \in RingSet /\ new.len + new.dropped = ring.len + ring.dropped + n
      /\ InLine(got, partial, chunk, Waiting(new), written + n)
  BY <1>3, <1>4, LogLengths, Pushed
<1>6. Waiting(new) = Waiting(ring)'
  BY DEF Waiting, new
<1>7. LogLine'
  BY <1>1, <1>2, <1>5, <1>6 DEF LogLine
<1>8. LogRing'
  <2>1. {written', rest', missing'} \subseteq Nat
    BY <1>1, <1>2, LogLengths
  <2> DEFINE collected == Len(got) + Len(partial) + Len(chunk)
             len == ring.len
             dropped == ring.dropped
  <2>2. new.len \in Nat /\ new.dropped \in Nat
    BY <1>5, RingTypes
  <2>3. collected \in Nat /\ len \in Nat /\ dropped \in Nat
        /\ written = collected + len + dropped + missing
    BY LogLengths DEF LogInv, LogRing, EveryByteIsSomewhere
  <2>4. collected' = collected
    BY <1>2
  <2> HIDE DEF collected, len, dropped
  <2>5. written' = collected + new.len + new.dropped + missing
    <3> DEFINE newlen == new.len
               newdropped == new.dropped
               counted == missing
               end == written
    <3>1. /\ newlen \in Nat /\ newdropped \in Nat /\ counted \in Nat /\ end \in Nat
          /\ newlen + newdropped = len + dropped + n
          /\ written' = end + n /\ end = collected + len + dropped + counted
      BY <1>1, <1>5, <2>2, <2>3, LogLengths DEF len, dropped
    <3> HIDE DEF newlen, newdropped, counted, end
    <3>2. written' = collected + newlen + newdropped + counted
      BY <2>3, <3>1
    <3> QED
      BY <3>2 DEF newlen, newdropped, counted
  <2>6. EveryByteIsSomewhere'
    BY <1>2, <2>4, <2>5 DEF EveryByteIsSomewhere, collected, new
  <2> QED
    BY <1>5, <2>1, <2>6 DEF LogRing, new
<1>9. LogKinds' /\ LogClock' /\ LogBytes'
  BY <1>2 DEF LogInv, LogKinds, LogClock, LogBytes
<1> QED
  BY <1>7, <1>8, <1>9 DEF LogInv

LEMMA LogGivenUp ==
    ASSUME LogInv, TimedOut \/ Refused
    PROVE  LogInv'
<1>1. /\ UNCHANGED <<ring, written, rest, bus, listening, collecting, raised, closed,
                      partial, got>>
      /\ chunk' = <<>> /\ missing' = missing + Len(chunk) /\ pump' \in {"gate", "connect"}
  BY DEF TimedOut, Refused
<1>2. Waiting(ring)' = Waiting(ring)
  BY <1>1 DEF Waiting
<1>3. InLine(got, partial, <<>>, Waiting(ring), written)
  BY LogLengths, LineMoves DEF LogInv, LogLine
<1>4. LogLine'
  BY <1>1, <1>2, <1>3 DEF LogLine
<1>5. Len(chunk') = 0 /\ missing' \in Nat
  BY <1>1, LogLengths
<1>6. EveryByteIsSomewhere'
  BY <1>1, <1>5, LogLengths DEF LogInv, LogRing, EveryByteIsSomewhere
<1>7. LogRing' /\ LogClock'
  BY <1>1, <1>5, <1>6 DEF LogInv, LogRing, LogClock
<1>8. LogKinds'
  BY <1>1 DEF LogInv, LogKinds
<1>9. LogBytes'
  BY <1>1, LogBounds DEF LogInv, LogBytes
<1> QED
  BY <1>4, <1>7, <1>8, <1>9 DEF LogInv

LEMMA LogCollected ==
    ASSUME LogInv, Collected \/ CollectedEnd
    PROVE  LogInv'
<1>1. /\ UNCHANGED <<ring, written, rest, bus, listening, collecting, raised, closed, missing>>
      /\ pump' \in {"zlp", "gate"}
  BY DEF Collected, CollectedEnd
<1>2. Waiting(ring)' = Waiting(ring)
  BY <1>1 DEF Waiting
<1>3. chunk' = <<>>
  <2>1. CASE Collected
    BY <2>1 DEF Collected
  <2>2. CASE CollectedEnd
    BY <2>2 DEF CollectedEnd, LogInv, LogBytes
  <2> QED
    BY <2>1, <2>2
<1>4. \/ partial' = partial \o chunk /\ got' = got
      \/ got' = got \o partial \o chunk /\ partial' = <<>>
  <2>1. CASE Collected
    BY <2>1 DEF Collected
  <2>2. CASE CollectedEnd
    <3>1. got' = got \o partial /\ partial' = <<>> /\ chunk = <<>>
      BY <2>2 DEF CollectedEnd, Ended, LogInv, LogBytes
    <3> DEFINE both == got \o partial
    <3>2. both \in Seq(Nat)
      BY LogLengths
    <3> HIDE DEF both
    <3>3. both \o <<>> = both
      BY <3>2
    <3> QED
      BY <3>1, <3>3 DEF both
  <2> QED
    BY <2>1, <2>2
<1>5. /\ InLine(got, partial \o chunk, <<>>, Waiting(ring), written)
      /\ InLine(got \o partial \o chunk, <<>>, <<>>, Waiting(ring), written)
  BY LogLengths, LineMoves DEF LogInv, LogLine
<1>6. LogLine'
  BY <1>1, <1>2, <1>3, <1>4, <1>5 DEF LogLine
<1>7. /\ got' \in Seq(Nat) /\ partial' \in Seq(Nat) /\ Len(chunk') = 0
      /\ Len(got') + Len(partial') = Len(got) + Len(partial) + Len(chunk)
      /\ Len(got') \in Nat /\ Len(partial') \in Nat
  <2>1. CASE partial' = partial \o chunk /\ got' = got
    <3>1. Len(partial') = Len(partial) + Len(chunk)
      BY <2>1, LogLengths
    <3> QED
      BY <1>3, <2>1, <3>1, LogLengths
  <2>2. CASE got' = got \o partial \o chunk /\ partial' = <<>>
    <3>1. got \o partial \in Seq(Nat) /\ Len(got \o partial) = Len(got) + Len(partial)
      BY LogLengths
    <3> DEFINE both == got \o partial
    <3>2. both \in Seq(Nat) /\ Len(both) = Len(got) + Len(partial) /\ got' = both \o chunk
      BY <2>2, <3>1
    <3> HIDE DEF both
    <3>3. got' \in Seq(Nat) /\ Len(got') = Len(both) + Len(chunk)
      <4>1. chunk \in Seq(Nat)
        BY LogLengths
      <4>2. ASSUME NEW s \in Seq(Nat), NEW t \in Seq(Nat)
            PROVE  s \o t \in Seq(Nat) /\ Len(s \o t) = Len(s) + Len(t)
        OBVIOUS
      <4> QED
        BY <3>2, <4>1, <4>2, Zenon
    <3> QED
      BY <1>3, <2>2, <3>2, <3>3, LogLengths
  <2> QED
    BY <1>4, <2>1, <2>2
<1>8. EveryByteIsSomewhere'
  <2> DEFINE g == Len(got')
             p == Len(partial')
             c == Len(chunk')
             g0 == Len(got)
             p0 == Len(partial)
             c0 == Len(chunk)
             len == ring.len
             dropped == ring.dropped
  <2>1. /\ g \in Nat /\ p \in Nat /\ c = 0 /\ g + p = g0 + p0 + c0
    BY <1>7
  <2>2. /\ g0 \in Nat /\ p0 \in Nat /\ c0 \in Nat /\ len \in Nat /\ dropped \in Nat
        /\ missing \in Nat /\ written = g0 + p0 + c0 + len + dropped + missing
    BY LogLengths DEF LogInv, LogRing, EveryByteIsSomewhere
  <2> HIDE DEF g, p, c, g0, p0, c0, len, dropped
  <2>3. written = g + p + c + len + dropped + missing
    BY <2>1, <2>2
  <2> QED
    BY <1>1, <2>3 DEF EveryByteIsSomewhere, g, p, c, len, dropped
<1>9. LogRing' /\ LogClock'
  BY <1>1, <1>8 DEF LogInv, LogRing, LogClock
<1>10. LogKinds'
  BY <1>1 DEF LogInv, LogKinds
<1>11. LogBytes'
  BY <1>1, <1>3, <1>7, LogBounds DEF LogInv, LogBytes
<1> QED
  BY <1>6, <1>9, <1>10, <1>11 DEF LogInv

(* The front of the ring becomes the packet, behind the report of a loss;   *)
(* the gate is open, so it was closed a settling time ago at the least.     *)
LEMMA LogTaken ==
    ASSUME LogInv, TakeChunk
    PROVE  LogInv' /\ closed >= OpenSettle
<1>1. LogClock' /\ closed >= OpenSettle
  BY LogBounds DEF LogInv, LogClock, TakeChunk, DrainGate, Open
<1> DEFINE report == IF ring.dropped > 0 THEN 1 ELSE 0
           old == [ring EXCEPT !.dropped = 0]
           new == push(old, written, report)
<1>2. /\ pump = "gate" /\ written' = written + report /\ missing' = missing + ring.dropped
      /\ chunk' = PacketOf(new) /\ ring' = pop(new)
      /\ pump' = IF PacketOf(new) = <<>> THEN "gate" ELSE "send"
      /\ UNCHANGED <<rest, bus, listening, collecting, closed, partial, got>>
  BY DEF TakeChunk
<1>3. chunk = <<>>
  BY <1>2 DEF LogInv, LogBytes
<1>4. /\ old \in RingSet /\ old.len = ring.len /\ old.dropped = 0
      /\ Waiting(old) = Waiting(ring) /\ report \in 0..2 /\ report \in Nat
  BY DEF LogInv, LogRing, RingSet, Waiting
<1>5. InLine(got, partial, <<>>, Waiting(old), written)
  BY <1>3, <1>4 DEF LogInv, LogLine
<1> HIDE DEF report, old, new
<1>6. /\ new \in RingSet /\ new.len + new.dropped = old.len + old.dropped + report
      /\ InLine(got, partial, <<>>, Waiting(new), written + report)
  <2>1. new = push(old, written, report)
    BY DEF new
  <2> DEFINE none == <<>>
  <2>2. /\ none \in Seq(Nat) /\ InLine(got, partial, none, Waiting(old), written)
        /\ got \in Seq(Nat) /\ partial \in Seq(Nat) /\ written \in Nat
        /\ old \in RingSet /\ report \in 0..2
    BY <1>4, <1>5, LogLengths
  <2> HIDE DEF none
  <2>3. /\ new \in RingSet /\ new.len + new.dropped = old.len + old.dropped + report
        /\ InLine(got, partial, none, Waiting(new), written + report)
    BY <2>1, <2>2, Pushed
  <2> QED
    BY <2>3 DEF none
<1> DEFINE front == PacketOf(new)
           left == pop(new)
<1>7. /\ front \in Seq(Nat) /\ Len(front) <= Packet /\ Len(front) <= new.len
      /\ \A i \in 1..Len(front) : front[i] = Waiting(new)[i]
      /\ left \in RingSet /\ left.len = new.len - Len(front) /\ left.dropped = new.dropped
      /\ \A j \in 1..left.len : Waiting(left)[j] = Waiting(new)[j + Len(front)]
  BY <1>6, Popped
<1>8. chunk' = front /\ ring' = left
  BY <1>2
<1> HIDE DEF front, left
<1>9. InLine(got, partial, front, Waiting(left), written + report)
  <2> DEFINE n == written + report
             w == Waiting(new)
             t == Waiting(left)
  <2>1. /\ n \in Nat /\ w \in Seq(Nat) /\ t \in Seq(Nat) /\ Len(w) = new.len
        /\ Len(t) = left.len /\ new.len \in Nat
    <3>1. n \in Nat
      BY <1>4, LogLengths
    <3>2. /\ w \in Seq(Nat) /\ Len(w) = new.len /\ new.len \in Nat
      BY <1>6, WaitingFacts, RingTypes
    <3>3. t \in Seq(Nat) /\ Len(t) = left.len
      BY <1>7, WaitingFacts
    <3> QED
      BY <3>1, <3>2, <3>3
  <2>2. /\ Len(w) = Len(front) + Len(t)
        /\ \A i \in 1..Len(front) : front[i] = w[i]
        /\ \A i \in 1..Len(t) : t[i] = w[i + Len(front)]
        /\ InLine(got, partial, <<>>, w, n)
    BY <1>6, <1>7, <2>1
  <2> HIDE DEF n, w, t
  <2>3. InLine(got, partial, front, t, n)
    BY <1>7, <2>1, <2>2, LogLengths, LineCut
  <2> QED
    BY <2>3 DEF n, t
<1>10. LogLine'
  <2>1. Waiting(ring)' = Waiting(left)
    BY <1>8 DEF Waiting
  <2> QED
    BY <1>2, <1>8, <1>9, <2>1 DEF LogLine
<1>11. EveryByteIsSomewhere'
  <2> DEFINE g == Len(got)
             p == Len(partial)
             c == Len(front)
             len == ring.len
             dropped == ring.dropped
             lenThen == new.len
             droppedThen == new.dropped
  <2>1. /\ g \in Nat /\ p \in Nat /\ len \in Nat /\ dropped \in Nat /\ missing \in Nat
        /\ written = g + p + 0 + len + dropped + missing
    BY <1>3, LogLengths DEF LogInv, LogRing, EveryByteIsSomewhere
  <2>2. /\ c \in Nat /\ lenThen \in Nat /\ droppedThen \in Nat
        /\ lenThen + droppedThen = len + 0 + report
    BY <1>4, <1>6, <1>7, RingTypes
  <2>3. left.len = lenThen - c /\ left.dropped = droppedThen
    BY <1>7
  <2>4. missing' = missing + dropped /\ written' = written + report /\ report \in Nat
    BY <1>2, <1>4
  <2>5. Len(got') = g /\ Len(partial') = p /\ Len(chunk') = c
    BY <1>2, <1>8
  <2> HIDE DEF g, p, c, len, dropped, lenThen, droppedThen
  <2>6. written + report = g + p + c + (lenThen - c) + droppedThen + (missing + dropped)
    BY <2>1, <2>2, <2>4
  <2> QED
    BY <1>8, <2>3, <2>4, <2>5, <2>6 DEF EveryByteIsSomewhere
<1>12. LogRing'
  <2>1. written' \in Nat /\ missing' \in Nat /\ rest' \in Nat
    BY <1>2, <1>4, LogLengths
  <2> QED
    BY <1>7, <1>8, <1>11, <2>1 DEF LogRing
<1>13. LogKinds'
  BY <1>2 DEF LogInv, LogKinds
<1>14. LogBytes'
  <2>1. pump' = IF front = <<>> THEN "gate" ELSE "send"
    BY <1>2 DEF front
  <2> QED
    BY <1>2, <1>7, <1>8, <2>1, LogLengths DEF LogBytes
<1> QED
  BY <1>1, <1>10, <1>12, <1>13, <1>14 DEF LogInv

LEMMA LogKept ==
    ASSUME LogInv, [HostLogNext]_hostLogVars
    PROVE  LogInv' /\ (chunk' # <<>> /\ chunk = <<>> => closed >= OpenSettle)
<1>1. CASE Logged
  BY <1>1, LogLogged DEF Logged
<1>2. CASE Bus \/ Attach
  BY <1>2, LogBus DEF Bus, Attach
<1>3. CASE Connected \/ Shut \/ Waits
  BY <1>3, LogClocks DEF Connected, Shut, Waits
<1>4. CASE TakeChunk
  BY <1>4, LogTaken
<1>5. CASE Collected \/ CollectedEnd
  BY <1>5, LogCollected DEF Collected, CollectedEnd
<1>6. CASE TimedOut \/ Refused
  BY <1>6, LogGivenUp DEF TimedOut, Refused
<1>7. CASE UNCHANGED hostLogVars
  BY <1>7 DEF hostLogVars, LogInv, LogKinds, LogClock, LogRing, LogBytes, LogLine,
              EveryByteIsSomewhere, Waiting
<1> QED
  BY <1>1, <1>2, <1>3, <1>4, <1>5, <1>6, <1>7 DEF HostLogNext

LEMMA LogReads ==
    ASSUME LogInv
    PROVE  HostLogTypeOK /\ EveryByteIsSomewhere /\ InOrder
<1>1. HostLogTypeOK
  <2>1. ring \in RingSet
    BY DEF LogInv, LogRing
  <2>2. /\ ring.read \in 0..(Capacity - 1) /\ ring.len \in 0..Capacity
        /\ {ring.dropped, written, missing} \subseteq Nat
    BY <2>1 DEF LogInv, LogRing, RingSet
  <2>3. Len(chunk) <= Packet /\ (pump = "send") = (chunk # <<>>)
    BY DEF LogInv, LogBytes
  <2> QED
    BY <2>2, <2>3 DEF HostLogTypeOK, LogInv, LogKinds, LogClock
<1>2. InOrder
  <2> DEFINE held == got \o partial \o chunk
             all == held \o Waiting(ring)
  <2>1. /\ InLine(held, <<>>, <<>>, Waiting(ring), written) /\ held \in Seq(Nat)
    <3>1. InLine(held, <<>>, <<>>, Waiting(ring), written)
      BY LogLengths, LineMoves DEF LogInv, LogLine
    <3>2. got \o partial \in Seq(Nat)
      BY LogLengths
    <3> QED
      BY <3>1, <3>2, LogLengths
  <2>2. all = got \o partial \o chunk \o Waiting(ring)
    OBVIOUS
  <2> HIDE DEF held
  <2>3. Rising(all) /\ all \in Seq(Nat)
    BY <2>1, LogLengths, Joined DEF InLine
  <2> HIDE DEF all
  <2>4. ASSUME NEW i \in 1..(Len(all) - 1)
        PROVE  all[i] < all[i + 1]
    <3>1. Len(all) \in Nat
      BY <2>3
    <3>2. i \in 1..Len(all) /\ i + 1 \in 1..Len(all) /\ i < i + 1
      BY <3>1
    <3> QED
      BY <2>3, <3>2 DEF Rising
  <2> QED
    BY <2>2, <2>4 DEF InOrder
<1> QED
  BY <1>1, <1>2 DEF LogInv, LogRing

LEMMA LogAlways == HostLogSpec => HostLogCorrect
<1>1. HostLogSpec => []LogInv
  BY LogStart, LogKept, PTL DEF HostLogSpec
<1>2. LogInv /\ [HostLogNext]_hostLogVars
        => [chunk' # <<>> /\ chunk = <<>> => closed >= OpenSettle]_hostLogVars
  BY LogKept
<1> QED
  BY <1>1, <1>2, LogReads, PTL DEF HostLogSpec, HostLogCorrect, ReadersSettle

-----------------------------------------------------------------------------
(* The flash chip.  What the chip is at, and what the image believes of it, *)
(* are kept together with where the image has got to: only from a reset, a *)
(* terminal or an erase on may the chip be busy, and the peripheral is     *)
(* reached only by an image that has woken it.  What a boot of the product *)
(* was answered says whether the chip was busy then.                       *)

FlashTypes ==
    /\ doing \in Product \cup Bench
    /\ resting \in BOOLEAN /\ latch \in BOOLEAN /\ asleep \in BOOLEAN
    /\ busy \in {"no", "erase", "program"}
    /\ sector \in [SectorPages -> Seeds \cup {"ff", "mixed"}]
    /\ sending \in 0..FlashPages /\ seed \in Seeds \cup {"none"}
    /\ boots \in 0..MaxBoots /\ keys \in 0..MaxKeys

\* Where the chip may still be at something, and what of.
AtWork ==
    /\ latch => busy # "no"
    /\ doing \in {"measure", "key", "erase", "settle", "look"} => busy = "no"
    /\ busy = "program" \/ doing = "program" => sending \in SectorPages /\ seed \in Seeds
    /\ doing = "w" => seed \in Seeds

\* The console's belief, and what was said of the sector.
BeliefKept ==
    /\ doing \in Peripheral => ~resting /\ ~asleep
    /\ doing = "terminal" => ~asleep
    /\ doing = "key" => resting = asleep
    /\ doing \in {"erase", "w", "x", "program", "settle"} => saidRight = "none"
    /\ RightIsWhole

\* park has asked as often as it has got on, and a chip that answered is no
\* longer busy.
Parking ==
    /\ doing \in Bench \cup {"wake", "jedec"} => answered = <<>>
    /\ doing \in {"sleep", "again"} =>
        /\ answered \in {<<"Silent">>, <<"W25q128">>}
        /\ answered = <<"W25q128">> => busy = "no" /\ (resting <=> doing = "again")
    /\ doing = "parked" => Len(answered) = 2 /\ ParkedIfThere

FlashInv == FlashTypes /\ AtWork /\ BeliefKept /\ Parking

LEMMA FlashBounds ==
    /\ FlashPages \in Nat \ {0} /\ MaxBoots \in Nat /\ MaxKeys \in Nat
    /\ "ff" \notin Seeds /\ "mixed" \notin Seeds /\ "none" \notin Seeds
BY FlashAssumption

LEMMA FlashStart == FlashInit => FlashInv
<1> SUFFICES ASSUME FlashInit PROVE FlashInv
  OBVIOUS
<1>1. FlashTypes
  <2>1. sector \in [SectorPages -> Seeds \cup {"ff", "mixed"}]
    BY DEF FlashInit, Holds
  <2>2. sending \in 0..FlashPages /\ boots \in 0..MaxBoots /\ keys \in 0..MaxKeys
    BY FlashBounds DEF FlashInit
  <2>3. doing \in Product \cup Bench
    BY DEF FlashInit, Product, Bench
  <2>4. busy \in {"no", "erase", "program"} /\ seed \in Seeds \cup {"none"}
        /\ resting \in BOOLEAN /\ latch \in BOOLEAN /\ asleep \in BOOLEAN
    BY DEF FlashInit
  <2> QED
    BY <2>1, <2>2, <2>3, <2>4 DEF FlashTypes
<1>2. AtWork
  BY DEF FlashInit, AtWork
<1>3. BeliefKept
  BY DEF FlashInit, BeliefKept, RightIsWhole, Peripheral
<1>4. Parking
  BY DEF FlashInit, Parking
<1> QED
  BY <1>1, <1>2, <1>3, <1>4 DEF FlashInv

(* What the chip finishes by itself. *)
LEMMA StepDoneInv == FlashInv /\ StepDone => FlashInv'
<1> SUFFICES ASSUME FlashInv, StepDone PROVE FlashInv'
  OBVIOUS
<1>1. FlashTypes'
  <2>1. sector' \in [SectorPages -> Seeds \cup {"ff", "mixed"}]
    <3>1. CASE busy = "erase"
      BY <3>1 DEF StepDone, Holds
    <3>2. CASE busy = "program"
      <4>1. seed \in Seeds /\ sector \in [SectorPages -> Seeds \cup {"ff", "mixed"}]
        BY <3>2 DEF FlashInv, FlashTypes, AtWork
      <4>2. sector' = [sector EXCEPT ![sending] = IF @ = "ff" THEN seed ELSE "mixed"]
        BY <3>2 DEF StepDone
      <4> QED
        BY <4>1, <4>2
    <3> QED
      BY <3>1, <3>2 DEF StepDone, FlashInv, FlashTypes
  <2>2. sending' \in 0..FlashPages
    BY FlashBounds DEF FlashInv, FlashTypes, StepDone
  <2> QED
    BY <2>1, <2>2 DEF FlashInv, FlashTypes, StepDone
<1>2. AtWork'
  BY DEF FlashInv, FlashTypes, AtWork, StepDone
<1>3. BeliefKept'
  BY DEF FlashInv, FlashTypes, AtWork, BeliefKept, StepDone, RightIsWhole
<1>4. Parking'
  BY DEF FlashInv, Parking, StepDone, ParkedIfThere
<1> QED
  BY <1>1, <1>2, <1>3, <1>4 DEF FlashInv

(* A reset and a power loss. *)
LEMMA CutInv ==
    ASSUME FlashInv, NEW first \in {"wake", "terminal"}, ResetInto(first) \/ PowerLost(first)
    PROVE  FlashInv'
<1>1. FlashTypes'
  <2>0. /\ doing' = first /\ boots < MaxBoots /\ boots' = boots + 1
        /\ asleep' = FALSE /\ seed' = seed /\ keys' = keys
    BY DEF ResetInto, PowerLost
  <2>1. doing' \in Product \cup Bench /\ boots' \in 0..MaxBoots
    BY <2>0, FlashBounds DEF FlashInv, FlashTypes, Product, Bench
  <2>2. CASE ResetInto(first)
    <3>1. sending' \in 0..FlashPages
      BY <2>2, FlashBounds DEF FlashInv, FlashTypes, ResetInto
    <3> QED
      BY <2>0, <2>1, <2>2, <3>1 DEF FlashInv, FlashTypes, ResetInto
  <2>3. CASE PowerLost(first)
    <3>1. sector \in [SectorPages -> Seeds \cup {"ff", "mixed"}]
      BY DEF FlashInv, FlashTypes
    <3>2. sector' \in [SectorPages -> Seeds \cup {"ff", "mixed"}]
      <4>1. CASE sector' = sector
        BY <3>1, <4>1
      <4>2. CASE \E torn \in SUBSET SectorPages :
                    sector' = [k \in SectorPages |-> IF k \in torn THEN "mixed" ELSE sector[k]]
        BY <3>1, <4>2
      <4>3. CASE sector' = [sector EXCEPT ![sending] = "mixed"]
        BY <3>1, <4>3
      <4> QED
        BY <2>3, <4>1, <4>2, <4>3 DEF PowerLost
    <3>3. sending' \in 0..FlashPages
      BY <2>3, FlashBounds DEF PowerLost
    <3> QED
      BY <2>0, <2>1, <2>3, <3>2, <3>3 DEF FlashInv, FlashTypes, PowerLost
  <2> QED
    BY <2>2, <2>3
<1>2. AtWork'
  BY DEF FlashInv, FlashTypes, AtWork, ResetInto, PowerLost
<1>3. BeliefKept'
  BY DEF FlashInv, BeliefKept, ResetInto, PowerLost, RightIsWhole, Peripheral
<1>4. Parking'
  BY DEF FlashInv, Parking, ResetInto, PowerLost
<1> QED
  BY <1>1, <1>2, <1>3, <1>4 DEF FlashInv

(* The product's boot. *)
LEMMA ParkInv == FlashInv /\ Park => FlashInv'
<1> SUFFICES ASSUME FlashInv, Park PROVE FlashInv'
  OBVIOUS
<1>1. doing \in {"wake", "jedec", "sleep", "again"} /\ doing' = After(doing)
  BY DEF Park, Product
<1>2. resting' \in BOOLEAN
  BY DEF Park, WakeChip, SleepChip, FlashInv, FlashTypes
<1>3. FlashTypes'
  BY <1>1, <1>2 DEF FlashInv, FlashTypes, Park, After, Product, Bench
<1>4. AtWork'
  BY <1>1 DEF FlashInv, AtWork, Park, After
<1>5. BeliefKept'
  BY <1>1 DEF FlashInv, BeliefKept, Park, After, RightIsWhole, Peripheral
<1>6. Parking'
  <2>1. CASE doing = "wake"
    BY <2>1 DEF FlashInv, Parking, Park, After, Bench
  <2>2. CASE doing = "jedec"
    <3>1. doing' = "sleep" /\ answered' = Append(answered, Verdict) /\ resting' = resting
          /\ busy' = busy
      BY <2>2 DEF Park, After
    <3>2. answered = <<>>
      BY <2>2 DEF FlashInv, Parking
    <3>3. answered' = <<Verdict>>
      <4>1. answered = <<>> /\ answered \in Seq({Verdict})
        BY <3>2
      <4>2. answered' \in Seq({Verdict}) /\ Len(answered') = 1 /\ answered'[1] = Verdict
        BY <3>1, <4>1
      <4> QED
        BY <4>2
    <3>4. \/ Verdict = "Silent"
          \/ Verdict = "W25q128" /\ busy = "no" /\ ~resting
      BY DEF Verdict
    <3>5. <<"Silent">> # <<"W25q128">>
      OBVIOUS
    <3> QED
      BY <3>1, <3>3, <3>4, <3>5 DEF Parking, Bench
  <2>3. CASE doing = "sleep"
    <3>1. doing' = "again" /\ answered' = answered /\ resting' = (resting \/ busy = "no")
          /\ busy' = busy
      BY <2>3 DEF Park, After, SleepChip
    <3>2. answered \in {<<"Silent">>, <<"W25q128">>}
      BY <2>3 DEF FlashInv, Parking
    <3>3. answered = <<"W25q128">> => busy = "no"
      BY <2>3 DEF FlashInv, Parking
    <3>4. resting \/ busy = "no" <=> resting'
      BY <3>1 DEF FlashInv, FlashTypes
    <3> QED
      BY <3>1, <3>2, <3>3, <3>4 DEF Parking, Bench
  <2>4. CASE doing = "again"
    <3>1. doing' = "parked" /\ answered' = Append(answered, Verdict) /\ resting' = resting
      BY <2>4 DEF Park, After
    <3>2. answered \in {<<"Silent">>, <<"W25q128">>}
      BY <2>4 DEF FlashInv, Parking
    <3> DEFINE words == {"Silent", "W25q128"}
               v == Verdict
    <3>3. Len(answered') = 2 /\ answered'[1] = answered[1] /\ answered'[2] = Verdict
      <4>1. answered \in Seq(words) /\ Len(answered) = 1
        BY <3>2
      <4>2. v \in words
        BY DEF Verdict
      <4>3. answered' = Append(answered, v)
        BY <3>1
      <4> HIDE DEF words, v
      <4>4. /\ Len(Append(answered, v)) = Len(answered) + 1
            /\ \A i \in 1..Len(answered) : Append(answered, v)[i] = answered[i]
            /\ Append(answered, v)[Len(answered) + 1] = v
        BY <4>1, <4>2, AppendProperties
      <4>5. 1 \in 1..Len(answered) /\ Len(answered) + 1 = 2
        BY <4>1
      <4> QED
        BY <4>3, <4>4, <4>5 DEF v
    <3>4. answered[1] = "W25q128" => answered = <<"W25q128">>
      BY <3>2
    <3>5. answered[1] = "W25q128" => resting
      BY <2>4, <3>4 DEF FlashInv, Parking
    <3>6. resting => Verdict = "Silent"
      BY DEF Verdict
    <3> QED
      BY <3>1, <3>3, <3>5, <3>6 DEF Parking, ParkedIfThere, Bench
  <2> QED
    BY <1>1, <2>1, <2>2, <2>3, <2>4
<1> QED
  BY <1>3, <1>4, <1>5, <1>6 DEF FlashInv

(* The bench image keeps the bounds: what each of its steps may change, of  *)
(* what it is made.                                                        *)
LEMMA BenchFlashTypes ==
    ASSUME FlashInv,
           Report \/ Alone \/ Phase \/ Stopped \/ erase_sector \/ Erased \/ Program
           \/ Written \/ LookAtChip
    PROVE  FlashTypes'
<1>1. doing' \in Product \cup Bench
  BY DEF Report, Alone, Phase, Stopped, erase_sector, Erased, Program, Written,
     LookAtChip, FlashInv, FlashTypes, Product, Bench
<1>2. resting' \in BOOLEAN /\ latch' \in BOOLEAN /\ asleep' \in BOOLEAN
  BY DEF Report, Alone, Phase, Stopped, erase_sector, Erased, Program, Written,
     LookAtChip, FlashInv, FlashTypes, WakeChip, Measured, settle, consoleVars, chipVars
<1>3. busy' \in {"no", "erase", "program"}
  BY DEF Report, Alone, Phase, Stopped, erase_sector, Erased, Program, Written,
     LookAtChip, FlashInv, FlashTypes, chipVars
<1>4. sector' = sector /\ seed' = seed /\ boots' = boots /\ keys' = keys
  BY DEF Report, Alone, Phase, Stopped, erase_sector, Erased, Program, Written,
     LookAtChip, consoleVars, chipVars
<1>5. sending' \in 0..FlashPages
  <2>1. CASE Erased
    BY <2>1, FlashBounds DEF Erased
  <2>2. CASE Program
    <3>1. sending \in SectorPages
      BY <2>2 DEF Program, FlashInv, AtWork
    <3> QED
      BY <2>2, <3>1, FlashBounds DEF Program, LastPage, SectorPages
  <2>3. CASE Report \/ Alone \/ Phase \/ Stopped \/ erase_sector \/ Written \/ LookAtChip
    <3>1. sending' = sending
      BY <2>3 DEF Report, Alone, Phase, Stopped, erase_sector, Written, LookAtChip, consoleVars
    <3> QED
      BY <3>1 DEF FlashInv, FlashTypes
  <2> QED
    BY <2>1, <2>2, <2>3
<1> QED
  BY <1>1, <1>2, <1>3, <1>4, <1>5 DEF FlashInv, FlashTypes

(* The steps at a terminal and between the measurements. *)
LEMMA MeasureInv ==
    ASSUME FlashInv, Report \/ Alone \/ Phase \/ Stopped
    PROVE  AtWork' /\ BeliefKept' /\ Parking'
<1>1. AtWork'
  BY DEF Report, Alone, Phase, Stopped, consoleVars, FlashInv, AtWork
<1>2. BeliefKept'
  <2>1. CASE Report \/ Alone
    BY <2>1 DEF Report, Alone, WakeChip, consoleVars, FlashInv, BeliefKept, RightIsWhole, Peripheral
  <2>2. CASE Phase
    BY <2>2 DEF Phase, consoleVars, FlashInv, BeliefKept, RightIsWhole, Peripheral
  <2>3. CASE Stopped
    BY <2>3 DEF Stopped, Measured, WakeChip, FlashInv, BeliefKept, RightIsWhole, Peripheral
  <2> QED
    BY <2>1, <2>2, <2>3
<1>3. Parking'
  <2>1. doing' \in {"look", "measure", "key"} /\ answered' = answered /\ doing \in Bench
    BY DEF Report, Alone, Phase, Stopped, consoleVars, Bench
  <2> QED
    BY <2>1 DEF FlashInv, Parking
<1> QED
  BY <1>1, <1>2, <1>3

(* The steps through the peripheral. *)
LEMMA PeripheralInv ==
    ASSUME FlashInv, erase_sector \/ Erased \/ Program \/ Written \/ LookAtChip
    PROVE  AtWork' /\ BeliefKept' /\ Parking'
<1>0. doing \in Peripheral /\ doing' \in Peripheral \cup {"key"} /\ answered' = answered
  BY DEF erase_sector, Erased, Program, Written, LookAtChip, consoleVars, Peripheral
<1>1. AtWork'
  <2>1. CASE erase_sector
    BY <2>1 DEF erase_sector, consoleVars, FlashInv, FlashTypes, AtWork
  <2>2. CASE Erased
    BY <2>2, FlashBounds DEF Erased, settle, FlashInv, AtWork, SectorPages
  <2>3. CASE Program
    <3>1. sending \in SectorPages /\ seed \in Seeds
      BY <2>3 DEF Program, FlashInv, AtWork
    <3>2. sending # FlashPages => sending + 1 \in SectorPages
      BY <3>1, FlashBounds DEF SectorPages
    <3> QED
      BY <2>3, <3>1, <3>2 DEF Program, LastPage, FlashInv, AtWork
  <2>4. CASE Written
    BY <2>4 DEF Written, settle, consoleVars, FlashInv, AtWork
  <2>5. CASE LookAtChip
    BY <2>5 DEF LookAtChip, chipVars, FlashInv, AtWork
  <2> QED
    BY <2>1, <2>2, <2>3, <2>4, <2>5
<1>2. BeliefKept'
  <2>1. CASE LookAtChip
    <3>1. check # "none" => sector = Holds(check)
      BY DEF check
    <3>2. doing' = "key" /\ resting' = resting /\ asleep' = asleep /\ busy' = "no"
          /\ saidRight' = check /\ sector' = sector /\ ~resting /\ ~asleep
      BY <2>1 DEF LookAtChip, chipVars, FlashInv, BeliefKept, Peripheral
    <3>3. FALSE = asleep /\ FALSE = resting
      BY <3>2 DEF FlashInv, FlashTypes
    <3> QED
      BY <3>1, <3>2, <3>3 DEF BeliefKept, RightIsWhole, Peripheral, Holds
  <2>2. CASE erase_sector \/ Erased \/ Program \/ Written
    <3>1. doing \in {"erase", "w", "x", "program", "settle"} /\ saidRight = "none"
          /\ saidRight' = saidRight /\ resting' = resting /\ asleep' = asleep
      BY <2>2 DEF erase_sector, Erased, Program, Written, consoleVars, FlashInv, BeliefKept
    <3>2. ~resting /\ ~asleep /\ FALSE = asleep /\ FALSE = resting
      BY <3>1 DEF FlashInv, FlashTypes, BeliefKept, Peripheral
    <3> QED
      BY <1>0, <3>1, <3>2 DEF BeliefKept, RightIsWhole, Peripheral
  <2> QED
    BY <2>1, <2>2
<1>3. Parking'
  BY <1>0 DEF FlashInv, Parking, Peripheral, Bench
<1> QED
  BY <1>1, <1>2, <1>3

(* The console's keys. *)
LEMMA KeysInv ==
    ASSUME FlashInv, KeyWake \/ KeySleep \/ KeyMeasure \/ KeyLook \/ KeyErase
    PROVE  FlashInv'
<1>0. /\ doing = "key" /\ keys < MaxKeys /\ keys' = keys + 1
      /\ doing' \in {"key", "measure", "look", "erase"}
      /\ busy' = busy /\ latch' = latch /\ sector' = sector /\ sending' = sending
      /\ answered' = answered /\ boots' = boots
  BY DEF KeyWake, KeySleep, KeyMeasure, KeyLook, KeyErase, Pressed
<1>1. FlashTypes'
  <2>1. doing' \in Product \cup Bench /\ keys' \in 0..MaxKeys
    BY <1>0, FlashBounds DEF FlashInv, FlashTypes, Product, Bench
  <2>2. resting' \in BOOLEAN /\ asleep' \in BOOLEAN /\ seed' \in Seeds \cup {"none"}
    BY DEF KeyWake, KeySleep, KeyMeasure, KeyLook, KeyErase, WakeChip, SleepChip, FlashInv, FlashTypes
  <2> QED
    BY <1>0, <2>1, <2>2 DEF FlashInv, FlashTypes
<1>2. AtWork'
  BY <1>0 DEF FlashInv, AtWork
<1>3. BeliefKept'
  <2>0. busy = "no" /\ resting = asleep
    BY <1>0 DEF FlashInv, AtWork, BeliefKept
  <2>1. CASE KeyWake \/ KeyMeasure
    BY <1>0, <2>0, <2>1 DEF KeyWake, KeyMeasure, Pressed, WakeChip, FlashInv, BeliefKept, RightIsWhole,
       Peripheral, Holds
  <2>2. CASE KeySleep
    BY <1>0, <2>0, <2>2 DEF KeySleep, Pressed, SleepChip, FlashInv, FlashTypes, BeliefKept, RightIsWhole,
       Peripheral, Holds
  <2>3. CASE KeyLook
    BY <1>0, <2>0, <2>3 DEF KeyLook, Pressed, ChipUsable, FlashInv, BeliefKept, RightIsWhole,
       Peripheral, Holds
  <2>4. CASE KeyErase
    BY <1>0, <2>0, <2>4 DEF KeyErase, Pressed, ChipUsable, FlashInv, BeliefKept, RightIsWhole,
       Peripheral
  <2> QED
    BY <2>1, <2>2, <2>3, <2>4
<1>4. Parking'
  BY <1>0 DEF FlashInv, Parking, Bench
<1> QED
  BY <1>1, <1>2, <1>3, <1>4 DEF FlashInv

LEMMA FlashStep == FlashInv /\ [FlashNext]_flashVars => FlashInv'
<1> SUFFICES ASSUME FlashInv, [FlashNext]_flashVars PROVE FlashInv'
  OBVIOUS
<1>1. CASE UNCHANGED flashVars
  BY <1>1 DEF flashVars, FlashInv, FlashTypes, AtWork, BeliefKept, Parking, RightIsWhole, ParkedIfThere, Holds
<1>2. CASE \E first \in {"wake", "terminal"} : ResetInto(first) \/ PowerLost(first)
  BY <1>2, CutInv
<1>3. CASE StepDone \/ Park
  BY <1>3, StepDoneInv, ParkInv
<1>4. CASE \/ Report \/ Alone \/ Phase \/ Stopped \/ erase_sector \/ Erased \/ Program
           \/ Written \/ LookAtChip
  BY <1>4, BenchFlashTypes, MeasureInv, PeripheralInv DEF FlashInv
<1>5. CASE KeyWake \/ KeySleep \/ KeyMeasure \/ KeyLook \/ KeyErase
  BY <1>5, KeysInv
<1> QED
  BY <1>1, <1>2, <1>3, <1>4, <1>5 DEF FlashNext

LEMMA FlashAlways == FlashSpec => []FlashCorrect
<1>1. FlashSpec => []FlashInv
  BY FlashStart, FlashStep, PTL DEF FlashSpec
<1>2. FlashInv => FlashCorrect
  <2> SUFFICES ASSUME FlashInv PROVE FlashCorrect
    OBVIOUS
  <2>1. FlashTypeOK
    <3>1. Len(answered) <= 2
      <4>1. CASE doing \in Bench \cup {"wake", "jedec"}
        BY <4>1 DEF FlashInv, Parking
      <4>2. CASE doing \in {"sleep", "again"}
        <5>1. answered = <<"Silent">> \/ answered = <<"W25q128">>
          BY <4>2 DEF FlashInv, Parking
        <5> QED
          BY <5>1
      <4>3. CASE doing = "parked"
        <5>1. Len(answered) = 2
          BY <4>3 DEF FlashInv, Parking
        <5> QED
          BY <5>1
      <4> QED
        BY <4>1, <4>2, <4>3 DEF FlashInv, FlashTypes, Product
    <3>2. {resting, latch, asleep} \subseteq BOOLEAN
      BY DEF FlashInv, FlashTypes
    <3>3. busy = "program" => sending \in SectorPages
      BY DEF FlashInv, AtWork
    <3> QED
      BY <3>1, <3>2, <3>3 DEF FlashInv, FlashTypes, FlashTypeOK
  <2>2. AwakeWhenUsed /\ RightIsWhole /\ RestsAsBelieved
    BY DEF FlashInv, FlashTypes, AtWork, BeliefKept, AwakeWhenUsed, RestsAsBelieved
  <2>3. ParkedIfThere
    BY DEF FlashInv, Parking, ParkedIfThere
  <2> QED
    BY <2>1, <2>2, <2>3 DEF FlashCorrect
<1> QED
  BY <1>1, <1>2, PTL

-----------------------------------------------------------------------------
(* The receiver and the calendar.  Every piece the lexer holds is of a      *)
(* sentence the module said at some time no earlier than the date the clock *)
(* has, so that a sentence completed late, by the end of another, sets     *)
(* neither a date back nor a time ahead.                                   *)

AllSaid == UNION {SentencesAt(t) : t \in 0..MaxTime}
Pieces == [of : AllSaid, piece : 0..4]

\* The date the clock has is no later than that of t.
DatedBy(t) == said.date # Unsaid => said.date <= DayOf(t)

\* A piece of something the module has said, no earlier than that date
Spoken(x) == \E t \in 0..time : x.of \in SentencesAt(t) /\ DatedBy(t)

\* What is left of sentence s when k of its pieces have gone by
LeftOf(s, k) == [i \in 1..(5 - k) |-> [of |-> s, piece |-> k + i - 1]]

\* The pieces of its body among those
BodyOf(s, k) == [i \in 1..(k - 1) |-> [of |-> s, piece |-> i]]

NmeaNumbers ==
    /\ time \in 0..MaxTime /\ sent \in 0..MaxSent /\ lost \in 0..MaxLost
    /\ sentences \in Nat /\ whole \in Nat /\ intact \in BOOLEAN
    /\ whole <= sentences /\ sentences <= sent
    /\ wire # <<>> => sentences < sent

\* What goes over the wire is the rest of one sentence of this time, and what
\* has arrived whole the lexer has.
OnWire ==
    wire # <<>> =>
        \E s \in SentencesAt(time), k \in 0..4 :
            /\ wire = LeftOf(s, k)
            /\ (intact /\ k > 0) => (lexer.open /\ lexer.body = BodyOf(s, k))

InLexer ==
    /\ lexer \in [open : BOOLEAN, body : Seq(Pieces)] /\ Len(lexer.body) <= MaxSentence
    /\ lexer.open => \A i \in 1..Len(lexer.body) : Spoken(lexer.body[i])

ClockKept ==
    /\ said \in [time : (0..(DayLength - 1)) \cup {Unsaid}, date : Nat \cup {Unsaid}]
    /\ DatedBy(time)
    /\ GpsClockNotAhead

ViewKept ==
    /\ inView \in Seq(Talkers \X {1, 2}) /\ Len(inView) <= Slots
    /\ CountedOnce

CalendarKept ==
    calendar # Unsaid =>
        /\ calendar \in [year : Nat \ {0}, month : 1..12, day : 1..31, days : Int, from : Int]
        /\ calendar.day <= MonthLength(calendar.year, calendar.month)
        /\ UnixIsTheCalendar

NmeaInv == NmeaNumbers /\ OnWire /\ InLexer /\ ClockKept /\ ViewKept /\ CalendarKept

LEMMA NmeaBounds ==
    /\ DayLength \in Nat \ {0} /\ Slots \in Nat \ {0}
    /\ MaxTime \in Nat /\ MaxSentence \in Nat /\ MaxSent \in Nat /\ MaxLost \in Nat
    /\ MaxSentence >= 3 /\ Unsaid \notin Nat
BY NmeaAssumption

(* A day is DayLength long. *)
LEMMA DayFacts ==
    ASSUME NEW t \in Nat
    PROVE  /\ DayOf(t) \in Nat /\ HourOf(t) \in 0..(DayLength - 1)
           /\ t = DayOf(t) * DayLength + HourOf(t)
BY NmeaBounds DEF DayOf, HourOf

LEMMA DaysRise ==
    ASSUME NEW t \in Nat, NEW u \in Nat, t <= u PROVE DayOf(t) <= DayOf(u)
BY NmeaBounds DEF DayOf

(* A clock with a date no later than a time of day's day is not ahead of it. *)
LEMMA NotAhead ==
    ASSUME NEW t \in Nat, NEW d \in Nat, d <= DayOf(t)
    PROVE  d * DayLength + HourOf(t) <= t
<1> DEFINE D == DayOf(t)
           h == HourOf(t)
           len == DayLength
<1>1. D \in Nat /\ h \in Nat /\ t = D * len + h /\ len \in Nat /\ d <= D
  BY DayFacts, NmeaBounds
<1> HIDE DEF D, h, len
<1>2. d * len <= D * len
  BY <1>1
<1>3. d * len \in Nat /\ D * len \in Nat
  BY <1>1
<1>4. d * len + h <= t
  BY <1>1, <1>2, <1>3
<1> QED
  BY <1>4 DEF h, len

(* What the module may say, by its kind. *)
LEMMA Kinds ==
    ASSUME NEW t \in Nat, NEW s \in SentencesAt(t)
    PROVE  \/ s.kind = "GGA" /\ s.time \in {HourOf(t), Unsaid}
           \/ s.kind = "RMC" /\ s.time = HourOf(t) /\ s.date \in {DayOf(t), Unsaid}
           \/ s.kind = "GSV" /\ s.talker \in Talkers /\ s.sats \in {1, 2}
           \/ s.kind = "Other"
BY DEF SentencesAt

(* Receiver::take for the clock: a sentence of t, where the date had is no  *)
(* later than t's.                                                         *)
LEMMA ClockStep ==
    ASSUME ClockKept, NmeaNumbers, NEW t \in 0..time, DatedBy(t),
           NEW s \in SentencesAt(t), said' = Clock(said, s), time' = time
    PROVE  ClockKept'
<1>1. time \in Nat /\ t \in Nat /\ t <= time
  BY NmeaBounds DEF NmeaNumbers
<1>2. /\ DayOf(t) \in Nat /\ HourOf(t) \in 0..(DayLength - 1)
      /\ DayOf(t) <= DayOf(time) /\ DayOf(time) \in Nat
  BY <1>1, DayFacts, DaysRise
<1>3. said.time \in (0..(DayLength - 1)) \cup {Unsaid} /\ said.date \in Nat \cup {Unsaid}
  BY DEF ClockKept
<1>4. CASE s.kind = "GGA" /\ s.time \in {HourOf(t), Unsaid}
  <2>1. said' = [said EXCEPT !.time = Keep(said.time, s.time)]
    BY <1>4 DEF Clock
  <2>2. /\ said'.date = said.date /\ said'.time = Keep(said.time, s.time)
        /\ said' \in [time : (0..(DayLength - 1)) \cup {Unsaid}, date : Nat \cup {Unsaid}]
    BY <1>2, <1>3, <1>4, <2>1 DEF ClockKept, Keep
  <2>3. CASE said'.time = said.time
    BY <2>2, <2>3 DEF ClockKept, DatedBy, GpsClockNotAhead
  <2>4. CASE said'.time = HourOf(t)
    <3>1. ASSUME said.date # Unsaid
          PROVE  said.date * DayLength + HourOf(t) <= time
      <4>1. said.date \in Nat /\ said.date <= DayOf(t)
        BY <1>3, <3>1 DEF DatedBy
      <4>2. said.date * DayLength + HourOf(t) <= t
        BY <1>1, <4>1, NotAhead
      <4>3. said.date * DayLength + HourOf(t) \in Nat
        BY <4>1, <1>2, NmeaBounds
      <4> QED
        BY <1>1, <4>2, <4>3
    <3> QED
      BY <2>2, <2>4, <3>1 DEF ClockKept, DatedBy, GpsClockNotAhead
  <2> QED
    BY <2>2, <2>3, <2>4, <1>4 DEF Keep
<1>5. CASE s.kind = "RMC" /\ s.time = HourOf(t) /\ s.date \in {DayOf(t), Unsaid}
  <2>1. said' = [time |-> Keep(said.time, s.time), date |-> Keep(said.date, s.date)]
    BY <1>5 DEF Clock
  <2>2. HourOf(t) # Unsaid /\ DayOf(t) # Unsaid
    BY <1>2, NmeaBounds
  <2>3. said'.time = HourOf(t) /\ said'.date = Keep(said.date, s.date)
    BY <1>5, <2>1, <2>2 DEF Keep
  <2>4. said'.date # Unsaid => said'.date \in Nat /\ said'.date <= DayOf(t)
    BY <1>2, <1>3, <1>5, <2>3 DEF Keep, DatedBy
  <2>5. said' \in [time : (0..(DayLength - 1)) \cup {Unsaid}, date : Nat \cup {Unsaid}]
    BY <1>2, <2>1, <2>3, <2>4
  <2>6. said'.date # Unsaid => said'.date <= DayOf(time)
    BY <1>2, <2>4
  <2>7. ASSUME said'.date # Unsaid
        PROVE  said'.date * DayLength + said'.time <= time
    <3>1. said'.date \in Nat /\ said'.date <= DayOf(t)
      BY <2>4, <2>7
    <3>2. said'.date * DayLength + HourOf(t) <= t
      BY <1>1, <3>1, NotAhead
    <3>3. said'.date * DayLength + HourOf(t) \in Nat
      BY <3>1, <1>2, NmeaBounds
    <3> QED
      BY <1>1, <2>3, <3>2, <3>3
  <2> QED
    BY <2>5, <2>6, <2>7 DEF ClockKept, DatedBy, GpsClockNotAhead
<1>6. CASE s.kind \in {"GSV", "Other"}
  <2>1. said' = said
    BY <1>6 DEF Clock
  <2> QED
    BY <2>1 DEF ClockKept, DatedBy, GpsClockNotAhead
<1> QED
  BY <1>1, <1>4, <1>5, <1>6, Kinds

(* Receiver::take for the satellites in view. *)
LEMMA ViewStep ==
    ASSUME ViewKept, NEW t \in Nat, NEW s \in SentencesAt(t), inView' = View(inView, s)
    PROVE  ViewKept'
<1> DEFINE P == Talkers \X {1, 2}
           new == <<s.talker, s.sats>>
           n == Len(inView)
<1>1. inView \in Seq(P) /\ n \in Nat /\ n <= Slots /\ \A i \in 1..n : inView[i] \in P
  BY DEF ViewKept
<1>2. CASE s.kind # "GSV"
  <2>1. inView' = inView
    BY <1>2 DEF View
  <2> QED
    BY <2>1 DEF ViewKept, CountedOnce
<1>3. CASE s.kind = "GSV" /\ \E i \in 1..n : inView[i][1] = s.talker
  <2>0. new \in P /\ new[1] = s.talker
    BY <1>3, Kinds
  <2>1. inView' = [i \in 1..n |-> IF inView[i][1] = s.talker THEN new ELSE inView[i]]
    BY <1>3 DEF View
  <2> HIDE DEF P, new
  <2>2. inView' \in Seq(P) /\ Len(inView') = n
    BY <1>1, <2>0, <2>1
  <2>3. \A i \in 1..n : inView'[i][1] = inView[i][1]
    BY <2>0, <2>1
  <2>4. CountedOnce'
    BY <2>2, <2>3 DEF ViewKept, CountedOnce
  <2> QED
    BY <1>1, <2>2, <2>4 DEF ViewKept, P
<1>4. CASE s.kind = "GSV" /\ ~\E i \in 1..n : inView[i][1] = s.talker
  <2>0. new \in P /\ new[1] = s.talker
    BY <1>4, Kinds
  <2>1. inView' = IF n < Slots THEN Append(inView, new) ELSE inView
    BY <1>4 DEF View
  <2>2. CASE n < Slots
    <3> HIDE DEF P, new
    <3>1. /\ Append(inView, new) \in Seq(P) /\ Len(Append(inView, new)) = n + 1
          /\ \A i \in 1..n : Append(inView, new)[i] = inView[i]
          /\ Append(inView, new)[n + 1] = new
      BY <1>1, <2>0, AppendProperties
    <3>2. /\ inView' \in Seq(P) /\ Len(inView') = n + 1
          /\ \A i \in 1..n : inView'[i] = inView[i]
          /\ inView'[n + 1] = new
      BY <2>1, <2>2, <3>1
    <3>3. \A i \in 1..n : inView'[i][1] # inView'[n + 1][1]
      BY <1>4, <2>0, <3>2
    <3>4. ASSUME NEW i \in 1..(n + 1), NEW j \in 1..(n + 1), inView'[i][1] = inView'[j][1]
          PROVE  i = j
      <4>1. CASE i \in 1..n /\ j \in 1..n
        BY <3>2, <3>4, <4>1 DEF ViewKept, CountedOnce
      <4>2. CASE i = n + 1 \/ j = n + 1
        BY <1>1, <3>3, <3>4, <4>2
      <4> QED
        BY <1>1, <4>1, <4>2
    <3>5. CountedOnce'
      BY <3>2, <3>4 DEF CountedOnce
    <3> QED
      BY <1>1, <2>2, <3>2, <3>5, NmeaBounds DEF ViewKept, P
  <2>3. CASE ~(n < Slots)
    BY <2>1, <2>3 DEF ViewKept, CountedOnce
  <2> QED
    BY <2>2, <2>3
<1> QED
  BY <1>2, <1>3, <1>4

(* The wire, a piece at a time. *)
LEMMA WireGoes ==
    ASSUME NEW s, NEW k \in 0..4
    PROVE  /\ LeftOf(s, k) # <<>> /\ Head(LeftOf(s, k)) = [of |-> s, piece |-> k]
           /\ k < 4 => Tail(LeftOf(s, k)) = LeftOf(s, k + 1)
           /\ k = 4 => Tail(LeftOf(s, k)) = <<>>
<1> DEFINE P == [of : {s}, piece : Nat]
           l == LeftOf(s, k)
<1>1. l \in Seq(P) /\ Len(l) = 5 - k /\ \A i \in 1..(5 - k) : l[i] = [of |-> s, piece |-> k + i - 1]
  BY DEF LeftOf
<1>2. l # <<>> /\ l[1] = [of |-> s, piece |-> k] /\ Head(l) = l[1]
  <2>1. 1 \in 1..(5 - k) /\ k + 1 - 1 = k /\ Len(l) # 0
    BY <1>1
  <2>2. l[1] = [of |-> s, piece |-> k + 1 - 1]
    BY <1>1, <2>1
  <2> HIDE DEF l, P
  <2>3. l # <<>>
    BY <2>1, EmptySeq
  <2>4. Head(l) = l[1]
    OBVIOUS
  <2> QED
    BY <2>1, <2>2, <2>3, <2>4
<1>3. /\ Tail(l) \in Seq(P) /\ Len(Tail(l)) = 4 - k
      /\ \A i \in 1..(4 - k) : Tail(l)[i] = [of |-> s, piece |-> k + i]
  <2> HIDE DEF l, P
  <2>1. /\ Tail(l) \in Seq(P) /\ Len(Tail(l)) = Len(l) - 1
        /\ \A i \in 1..Len(Tail(l)) : Tail(l)[i] = l[i + 1]
    BY <1>1, <1>2, HeadTailProperties
  <2>2. Len(l) - 1 = 4 - k /\ \A i \in 1..(4 - k) : i + 1 \in 1..(5 - k) /\ k + (i + 1) - 1 = k + i
    BY <1>1
  <2> QED
    BY <1>1, <2>1, <2>2
<1>4. ASSUME k < 4 PROVE Tail(l) = LeftOf(s, k + 1)
  <2>1. /\ LeftOf(s, k + 1) \in Seq(P) /\ Len(LeftOf(s, k + 1)) = 4 - k
        /\ \A i \in 1..(4 - k) : LeftOf(s, k + 1)[i] = [of |-> s, piece |-> k + i]
    BY DEF LeftOf
  <2>2. \A i \in 1..Len(Tail(l)) : Tail(l)[i] = LeftOf(s, k + 1)[i]
    BY <1>3, <2>1
  <2> HIDE DEF l, P
  <2> QED
    BY <1>3, <2>1, <2>2, SeqEqual
<1>5. k = 4 => Tail(l) = <<>>
  <2> HIDE DEF l, P
  <2> SUFFICES ASSUME k = 4 PROVE Tail(l) = <<>>
    OBVIOUS
  <2>1. Tail(l) \in Seq(P)
    BY <1>3
  <2>2. ~(Len(Tail(l)) \in Nat \ {0})
    BY <1>3
  <2> QED
    BY <2>1, <2>2, EmptySeq
<1> QED
  BY <1>2, <1>4, <1>5

LEMMA BodyGrows ==
    ASSUME NEW s, NEW k \in 1..3
    PROVE  /\ Len(BodyOf(s, k)) = k - 1
           /\ Append(BodyOf(s, k), [of |-> s, piece |-> k]) = BodyOf(s, k + 1)
<1> DEFINE P == [of : {s}, piece : Nat]
           b == BodyOf(s, k)
           x == [of |-> s, piece |-> k]
           more == BodyOf(s, k + 1)
<1>1. b \in Seq(P) /\ Len(b) = k - 1 /\ \A i \in 1..(k - 1) : b[i] = [of |-> s, piece |-> i]
  BY DEF BodyOf
<1>2. x \in P
  OBVIOUS
<1>3. more \in Seq(P) /\ Len(more) = k /\ \A i \in 1..k : more[i] = [of |-> s, piece |-> i]
  BY DEF BodyOf
<1> HIDE DEF P, b, more
<1>4. Append(b, x) \in Seq(P) /\ Len(Append(b, x)) = k /\ Append(b, x)[k] = x
      /\ \A i \in 1..(k - 1) : Append(b, x)[i] = b[i]
  <2>1. Len(b) + 1 = k
    BY <1>1
  <2> QED
    BY <1>1, <1>2, <2>1, AppendProperties
<1>5. Append(b, x) = more
  BY <1>1, <1>3, <1>4
<1> QED
  BY <1>1, <1>5 DEF b, more

(* A piece of what is being said is one the lexer may hold. *)
LEMMA SpokenNow ==
    ASSUME NmeaInv, NEW s \in SentencesAt(time), NEW i \in 0..4
    PROVE  /\ Spoken([of |-> s, piece |-> i]) /\ [of |-> s, piece |-> i] \in Pieces
<1>1. time \in 0..MaxTime /\ time \in 0..time /\ DatedBy(time)
  BY NmeaBounds DEF NmeaInv, NmeaNumbers, ClockKept
<1>2. s \in AllSaid
  BY <1>1 DEF AllSaid
<1> QED
  BY <1>1, <1>2 DEF Spoken, Pieces

LEMMA EmptyLexer ==
    ASSUME NEW o \in BOOLEAN
    PROVE  [open |-> o, body |-> <<>>] \in [open : BOOLEAN, body : Seq(Pieces)]
<1> DEFINE none == <<>>
<1>1. none \in Seq(Pieces)
  OBVIOUS
<1> HIDE DEF none
<1>2. [open |-> o, body |-> none] \in [open : BOOLEAN, body : Seq(Pieces)]
  BY <1>1
<1> QED
  BY <1>2 DEF none

(* Lexer::push, with a piece of a body. *)
LEMMA PieceStep ==
    ASSUME NmeaInv, NEW s \in SentencesAt(time), NEW k \in 1..3,
           (intact /\ k > 0) => (lexer.open /\ lexer.body = BodyOf(s, k)),
           lexer' = Piece(lexer, [of |-> s, piece |-> k]), said' = said, time' = time,
           intact' = intact
    PROVE  /\ InLexer'
           /\ intact' => (lexer'.open /\ lexer'.body = BodyOf(s, k + 1))
<1> DEFINE x == [of |-> s, piece |-> k]
           b == lexer.body
<1>1. /\ lexer \in [open : BOOLEAN, body : Seq(Pieces)] /\ Len(b) <= MaxSentence
      /\ b \in Seq(Pieces) /\ lexer.open \in BOOLEAN
      /\ lexer.open => \A i \in 1..Len(b) : Spoken(b[i])
  BY DEF NmeaInv, InLexer
<1>2. Spoken(x) /\ x \in Pieces
  <2>1. k \in 0..4
    OBVIOUS
  <2> QED
    BY <2>1, SpokenNow
<1>4. ASSUME intact
      PROVE  lexer.open /\ Len(b) # MaxSentence /\ Append(b, x) = BodyOf(s, k + 1)
  <2>1. lexer.open /\ b = BodyOf(s, k)
    BY <1>4
  <2>2. Len(b) = k - 1 /\ Append(b, x) = BodyOf(s, k + 1)
    BY <2>1, BodyGrows
  <2> QED
    BY <2>1, <2>2, NmeaBounds
<1>5. CASE ~lexer.open
  <2>1. lexer' = lexer
    BY <1>5 DEF Piece
  <2> QED
    BY <1>1, <1>4, <1>5, <2>1 DEF InLexer
<1>6. CASE lexer.open /\ Len(b) = MaxSentence
  <2>1. lexer' = [open |-> FALSE, body |-> <<>>]
    BY <1>6 DEF Piece
  <2>2. <<>> \in Seq(Pieces) /\ Len(<<>>) <= MaxSentence
    BY NmeaBounds
  <2>3. ~intact
    BY <1>4, <1>6
  <2>4. lexer'.open = FALSE /\ lexer'.body = <<>>
    BY <2>1
  <2>5. lexer' \in [open : BOOLEAN, body : Seq(Pieces)]
    BY <2>1, EmptyLexer
  <2> QED
    BY <2>2, <2>3, <2>4, <2>5 DEF InLexer
<1>7. CASE lexer.open /\ Len(b) # MaxSentence
  <2>1. lexer' = [lexer EXCEPT !.body = Append(b, x)]
    BY <1>7 DEF Piece
  <2> HIDE DEF x, b
  <2>2. lexer'.open = lexer.open /\ lexer'.body = Append(b, x)
    BY <1>1, <2>1
  <2>3. /\ Append(b, x) \in Seq(Pieces) /\ Len(Append(b, x)) = Len(b) + 1
        /\ \A i \in 1..Len(b) : Append(b, x)[i] = b[i]
        /\ Append(b, x)[Len(b) + 1] = x
    BY <1>1, <1>2, AppendProperties
  <2>4. lexer' \in [open : BOOLEAN, body : Seq(Pieces)]
    BY <1>1, <2>1, <2>3
  <2>5. Len(b) \in Nat /\ Len(b) + 1 <= MaxSentence
    BY <1>1, <1>7, NmeaBounds
  <2>6. \A i \in 1..(Len(b) + 1) : Spoken(Append(b, x)[i])
    <3> TAKE i \in 1..(Len(b) + 1)
    <3>1. CASE i \in 1..Len(b)
      BY <1>1, <1>7, <2>3, <3>1
    <3>2. CASE i = Len(b) + 1
      BY <1>2, <2>3, <3>2
    <3> QED
      BY <2>5, <3>1, <3>2
  <2>7. (\A i \in 1..Len(lexer.body) : Spoken(lexer.body[i]))'
    <3> SUFFICES ASSUME NEW i \in 1..Len(lexer'.body) PROVE Spoken(lexer.body[i])'
      OBVIOUS
    <3>1. Spoken(Append(b, x)[i])
      BY <2>2, <2>3, <2>6
    <3> QED
      BY <2>2, <3>1 DEF Spoken, DatedBy
  <2>8. InLexer'
    BY <2>2, <2>3, <2>4, <2>5, <2>7 DEF InLexer
  <2>9. intact' => (lexer'.open /\ lexer'.body = BodyOf(s, k + 1))
    BY <1>4, <2>2
  <2> QED
    BY <2>8, <2>9
<1> QED
  BY <1>5, <1>6, <1>7

(* Lexer::push and Receiver::feed, with the end of a line. *)
LEMMA EndStep ==
    ASSUME NmeaInv, Arrive, NEW s \in SentencesAt(time), wire = LeftOf(s, 4),
           intact => (lexer.open /\ lexer.body = BodyOf(s, 4))
    PROVE  NmeaInv'
<1> DEFINE b == lexer.body
           q == b[1].of
           x == Head(wire)
           taken == x.piece = 4 /\ Checked(lexer) /\ parse(q)
<1>0. 4 \in 0..4 /\ x = [of |-> s, piece |-> 4] /\ wire' = <<>> /\ wire # <<>>
  BY WireGoes DEF Arrive
<1>1. x.piece = 4 /\ x.of = s
  BY <1>0
<1>2. /\ lexer' = [lexer EXCEPT !.open = FALSE]
      /\ time' = time /\ intact' = intact /\ sent' = sent /\ lost' = lost /\ calendar' = calendar
      /\ whole' = IF intact /\ parse(s) THEN whole + 1 ELSE whole
  BY <1>1 DEF Arrive, Closed
<1>3. CASE Checked(lexer) /\ parse(q)
  <2>1. said' = Clock(said, q) /\ inView' = View(inView, q) /\ sentences' = sentences + 1
    BY <1>1, <1>3 DEF Arrive
  <2>2. lexer.open /\ Len(b) = 3
    BY <1>3 DEF Checked
  <2>3. Spoken(b[1])
    BY <2>2 DEF NmeaInv, InLexer
  <2>4. PICK t \in 0..time : q \in SentencesAt(t) /\ DatedBy(t)
    BY <2>3 DEF Spoken
  <2>5. t \in Nat
    BY <2>4, NmeaBounds DEF NmeaInv, NmeaNumbers
  <2> HIDE DEF q, b, x
  <2>6. ClockKept'
    BY <1>2, <2>1, <2>4, ClockStep DEF NmeaInv
  <2>7. ViewKept'
    BY <2>1, <2>4, <2>5, ViewStep DEF NmeaInv
  <2>8. NmeaNumbers'
    BY <1>0, <1>2, <2>1, NmeaBounds DEF NmeaInv, NmeaNumbers
  <2>9. InLexer'
    BY <1>2 DEF NmeaInv, InLexer
  <2>10. OnWire' /\ CalendarKept'
    BY <1>0, <1>2 DEF NmeaInv, OnWire, CalendarKept, UnixIsTheCalendar
  <2> QED
    BY <2>6, <2>7, <2>8, <2>9, <2>10 DEF NmeaInv
<1>4. CASE ~(Checked(lexer) /\ parse(q))
  <2>1. said' = said /\ inView' = inView /\ sentences' = sentences
    BY <1>1, <1>4 DEF Arrive
  <2>2. ~(intact /\ parse(s))
    <3> SUFFICES ASSUME intact PROVE ~parse(s)
      OBVIOUS
    <3>1. lexer.open /\ b = BodyOf(s, 4)
      OBVIOUS
    <3>2. Len(b) = 3 /\ b = [i \in 1..3 |-> [of |-> s, piece |-> i]]
      BY <3>1 DEF BodyOf
    <3>3. q = s
      BY <3>2
    <3>4. b = [i \in 1..3 |-> [of |-> q, piece |-> i]]
      BY <3>2, <3>3
    <3> HIDE DEF q
    <3>5. Checked(lexer)
      BY <3>1, <3>2, <3>4 DEF Checked, q
    <3> QED
      BY <1>4, <3>3, <3>5
  <2> HIDE DEF q, b, x
  <2>3. NmeaNumbers'
    BY <1>0, <1>2, <2>1, <2>2, NmeaBounds DEF NmeaInv, NmeaNumbers
  <2>4. InLexer'
    BY <1>2 DEF NmeaInv, InLexer
  <2>5. OnWire' /\ CalendarKept'
    BY <1>0, <1>2 DEF NmeaInv, OnWire, CalendarKept, UnixIsTheCalendar
  <2>6. ClockKept' /\ ViewKept'
    BY <1>2, <2>1 DEF NmeaInv, ClockKept, DatedBy, GpsClockNotAhead, ViewKept, CountedOnce
  <2> QED
    BY <2>3, <2>4, <2>5, <2>6 DEF NmeaInv
<1> QED
  BY <1>3, <1>4

(* A byte that arrives. *)
LEMMA ArriveInv == NmeaInv /\ Arrive => NmeaInv'
<1> SUFFICES ASSUME NmeaInv, Arrive PROVE NmeaInv'
  OBVIOUS
<1>1. PICK s \in SentencesAt(time), k \in 0..4 :
        /\ wire = LeftOf(s, k)
        /\ (intact /\ k > 0) => (lexer.open /\ lexer.body = BodyOf(s, k))
  BY DEF NmeaInv, OnWire, Arrive
<1>2. CASE k = 4
  BY <1>1, <1>2, EndStep
<1>3. CASE k \in 0..3
  <2>1. Head(wire) = [of |-> s, piece |-> k] /\ wire' = LeftOf(s, k + 1) /\ wire' # <<>>
        /\ wire # <<>>
    <3>1. k + 1 \in 0..4 /\ k < 4
      BY <1>3
    <3> QED
      BY <1>1, <3>1, WireGoes DEF Arrive
  <2>2. Head(wire).piece = k /\ k # 4
    BY <1>3, <2>1
  <2>3. /\ said' = said /\ inView' = inView /\ sentences' = sentences /\ whole' = whole
        /\ time' = time /\ intact' = intact /\ sent' = sent /\ lost' = lost /\ calendar' = calendar
    BY <2>2 DEF Arrive
  <2>4. InLexer' /\ (intact' => (lexer'.open /\ lexer'.body = BodyOf(s, k + 1)))
    <3>1. CASE k = 0
      <4>1. lexer' = [open |-> TRUE, body |-> <<>>]
        BY <2>2, <3>1 DEF Arrive, Start
      <4>2. BodyOf(s, k + 1) = <<>>
        BY <3>1 DEF BodyOf
      <4>3. Len(<<>>) <= MaxSentence /\ 1..Len(<<>>) = {}
        BY NmeaBounds
      <4> DEFINE none == <<>>
      <4>4. none \in Seq(Pieces) /\ lexer' = [open |-> TRUE, body |-> none]
        BY <4>1
      <4>5. Len(none) <= MaxSentence /\ 1..Len(none) = {} /\ BodyOf(s, k + 1) = none
        BY <4>2, <4>3
      <4> HIDE DEF none
      <4>6. lexer' \in [open : BOOLEAN, body : Seq(Pieces)] /\ lexer'.open /\ lexer'.body = none
        BY <4>4
      <4> QED
        BY <4>5, <4>6 DEF InLexer
    <3>2. CASE k \in 1..3
      <4>1. lexer' = Piece(lexer, [of |-> s, piece |-> k])
        BY <2>1, <2>2, <3>2 DEF Arrive
      <4> QED
        BY <1>1, <2>3, <3>2, <4>1, PieceStep
    <3> QED
      BY <1>3, <3>1, <3>2
  <2>5. OnWire'
    <3>1. s \in SentencesAt(time)' /\ k + 1 \in 0..4
      BY <1>3, <2>3
    <3> QED
      BY <2>1, <2>4, <3>1 DEF OnWire
  <2>6. NmeaNumbers'
    BY <2>1, <2>3 DEF NmeaInv, NmeaNumbers
  <2>7. ClockKept' /\ ViewKept' /\ CalendarKept'
    BY <2>3 DEF NmeaInv, ClockKept, DatedBy, GpsClockNotAhead, ViewKept, CountedOnce,
                CalendarKept, UnixIsTheCalendar
  <2> QED
    BY <2>4, <2>5, <2>6, <2>7 DEF NmeaInv
<1> QED
  BY <1>2, <1>3

(* One that does not. *)
LEMMA SpoilInv == NmeaInv /\ Spoil => NmeaInv'
<1> SUFFICES ASSUME NmeaInv, Spoil PROVE NmeaInv'
  OBVIOUS
<1>1. PICK s \in SentencesAt(time), k \in 0..4 : wire = LeftOf(s, k)
  BY DEF NmeaInv, OnWire, Spoil
<1>2. /\ said' = said /\ inView' = inView /\ sentences' = sentences /\ whole' = whole
      /\ time' = time /\ intact' = FALSE /\ sent' = sent /\ lost' = lost + 1 /\ lost < MaxLost
      /\ calendar' = calendar /\ wire # <<>> /\ wire' = Tail(wire)
      /\ lexer' \in {lexer, Noise(lexer)}
  BY DEF Spoil
<1>3. OnWire'
  <2>1. CASE k = 4
    BY <1>1, <1>2, <2>1, WireGoes DEF OnWire
  <2>2. CASE k < 4
    <3>1. wire' = LeftOf(s, k + 1) /\ k + 1 \in 0..4
      BY <1>1, <1>2, <2>2, WireGoes
    <3> QED
      BY <1>2, <3>1 DEF OnWire
  <2> QED
    BY <2>1, <2>2
<1>4. InLexer'
  <2>1. CASE lexer' = lexer
    BY <1>2, <2>1 DEF NmeaInv, InLexer, Spoken, DatedBy
  <2>2. CASE lexer' = Noise(lexer)
    <3> DEFINE none == <<>>
    <3>1. none \in Seq(Pieces) /\ lexer' = [open |-> FALSE, body |-> none] /\ Len(none) <= MaxSentence
      BY <2>2, NmeaBounds DEF Noise
    <3> HIDE DEF none
    <3> QED
      BY <3>1 DEF InLexer
  <2> QED
    BY <1>2, <2>1, <2>2
<1>5. NmeaNumbers'
  <2>1. lost' \in 0..MaxLost
    BY <1>2, NmeaBounds DEF NmeaInv, NmeaNumbers
  <2>2. intact' \in BOOLEAN /\ sentences < sent
    BY <1>2 DEF NmeaInv, NmeaNumbers
  <2> QED
    BY <1>2, <2>1, <2>2 DEF NmeaInv, NmeaNumbers
<1>6. ClockKept' /\ ViewKept' /\ CalendarKept'
  BY <1>2 DEF NmeaInv, ClockKept, DatedBy, GpsClockNotAhead, ViewKept, CountedOnce,
              CalendarKept, UnixIsTheCalendar
<1> QED
  BY <1>3, <1>4, <1>5, <1>6 DEF NmeaInv

(* The module goes on by itself: a sentence begun, and time. *)
LEMMA SendInv == NmeaInv /\ (Send \/ Passes) => NmeaInv'
<1> SUFFICES ASSUME NmeaInv, Send \/ Passes PROVE NmeaInv'
  OBVIOUS
<1>1. /\ wire = <<>> /\ lexer' = lexer /\ said' = said /\ inView' = inView
      /\ sentences' = sentences /\ whole' = whole /\ lost' = lost /\ calendar' = calendar
  BY DEF Send, Passes
<1>2. ViewKept' /\ CalendarKept'
  BY <1>1 DEF NmeaInv, ViewKept, CountedOnce, CalendarKept, UnixIsTheCalendar
<1>3. CASE Send
  <2>1. PICK s \in SentencesAt(time) : wire' = [i \in 1..5 |-> [of |-> s, piece |-> i - 1]]
    BY <1>3 DEF Send
  <2>2. time' = time /\ sent' = sent + 1 /\ intact' = TRUE /\ sent < MaxSent
    BY <1>3 DEF Send
  <2>3. wire' = LeftOf(s, 0)
    BY <2>1 DEF LeftOf
  <2>4. OnWire'
    BY <2>2, <2>3 DEF OnWire
  <2>5. NmeaNumbers'
    BY <1>1, <2>2, NmeaBounds DEF NmeaInv, NmeaNumbers
  <2>6. InLexer' /\ ClockKept'
    BY <1>1, <2>2 DEF NmeaInv, InLexer, Spoken, ClockKept, DatedBy, GpsClockNotAhead
  <2> QED
    BY <1>2, <2>4, <2>5, <2>6 DEF NmeaInv
<1>4. CASE Passes
  <2>1. time' = time + 1 /\ sent' = sent /\ intact' = intact /\ wire' = wire /\ time < MaxTime
    BY <1>4 DEF Passes
  <2>2. time \in Nat /\ time' \in Nat /\ time <= time' /\ time' \in 0..MaxTime
    BY <2>1, NmeaBounds DEF NmeaInv, NmeaNumbers
  <2>3. OnWire'
    BY <1>1, <2>1 DEF OnWire
  <2>4. NmeaNumbers'
    BY <1>1, <2>1, <2>2 DEF NmeaInv, NmeaNumbers
  <2>5. \A t \in 0..time : t \in 0..time'
    BY <2>2
  <2>6. InLexer'
    <3>1. ASSUME lexer.open, NEW i \in 1..Len(lexer.body) PROVE Spoken(lexer.body[i])'
      <4>1. Spoken(lexer.body[i])
        BY <3>1 DEF NmeaInv, InLexer
      <4> QED
        BY <1>1, <2>5, <4>1 DEF Spoken, DatedBy
    <3> QED
      BY <1>1, <3>1 DEF NmeaInv, InLexer
  <2>7. ClockKept'
    <3>1. said.date # Unsaid => said.date <= DayOf(time')
      <4> SUFFICES ASSUME said.date # Unsaid PROVE said.date <= DayOf(time')
        OBVIOUS
      <4>1. said.date \in Nat /\ said.date <= DayOf(time)
        BY DEF NmeaInv, ClockKept, DatedBy
      <4>2. DayOf(time) \in Nat /\ DayOf(time') \in Nat /\ DayOf(time) <= DayOf(time')
        BY <2>2, DayFacts, DaysRise
      <4> QED
        BY <4>1, <4>2
    <3>2. GpsClockNotAhead'
      <4> SUFFICES ASSUME said.time # Unsaid, said.date # Unsaid
                   PROVE  said.date * DayLength + said.time <= time'
        BY <1>1 DEF GpsClockNotAhead
      <4>1. said.date \in Nat /\ said.time \in Nat
        BY DEF NmeaInv, ClockKept
      <4>2. said.date * DayLength + said.time \in Nat /\ said.date * DayLength + said.time <= time
        BY <4>1, NmeaBounds DEF NmeaInv, ClockKept, GpsClockNotAhead
      <4> QED
        BY <2>2, <4>2
    <3> QED
      BY <1>1, <3>1, <3>2 DEF NmeaInv, ClockKept, DatedBy
  <2> QED
    BY <1>2, <2>3, <2>4, <2>6, <2>7 DEF NmeaInv
<1> QED
  BY <1>3, <1>4

-----------------------------------------------------------------------------
(* The calendar.  The days of the era and the year of the era are those of *)
(* the years counted one by one.                                           *)
YearsIn(y) ==
    LET era == y \div 400  yoe == y - era * 400
    IN  era * 146097 + yoe * 365 + yoe \div 4 - yoe \div 100

MonthsIn(m) == (153 * (IF m > 2 THEN m - 3 ELSE m + 9) + 2) \div 5

LEMMA EraIs ==
    ASSUME NEW y \in Nat PROVE YearsIn(y) = 365 * y + Leaps(y)
BY SMT DEF YearsIn, Leaps

LEMMA LeapIs ==
    ASSUME NEW y \in Nat \ {0}
    PROVE  Leaps(y) = Leaps(y - 1) + (IF Leap(y) THEN 1 ELSE 0)
BY SMT DEF Leap, Leaps

\* The days of a date, of a year that begins in March
Reckoned(y, m, d) == 365 * y + Leaps(y) + MonthsIn(m) + d - 719469

LEMMA UnixIs ==
    ASSUME NEW yy \in Nat \ {0}, NEW m \in 1..12, NEW d \in Nat
    PROVE  /\ m <= 2 => unix_days(yy, m, d) = Reckoned(yy - 1, m, d)
           /\ m > 2 => unix_days(yy, m, d) = Reckoned(yy, m, d)
<1>1. /\ m <= 2 => unix_days(yy, m, d) = YearsIn(yy - 1) + (MonthsIn(m) + d - 1) - 719468
      /\ m > 2 => unix_days(yy, m, d) = YearsIn(yy) + (MonthsIn(m) + d - 1) - 719468
  BY SMT DEF unix_days, YearsIn, MonthsIn
<1>2. YearsIn(yy - 1) = 365 * (yy - 1) + Leaps(yy - 1) /\ YearsIn(yy) = 365 * yy + Leaps(yy)
  BY EraIs, SMT
<1>3. MonthsIn(m) \in Int /\ Leaps(yy - 1) \in Int /\ Leaps(yy) \in Int
  BY SMT DEF MonthsIn, Leaps
<1> QED
  BY <1>1, <1>2, <1>3, SMT DEF Reckoned

LEMMA ReckonedFacts ==
    ASSUME NEW y \in Nat \ {0}, NEW m \in 1..12, NEW d \in Nat
    PROVE  /\ Reckoned(y, m, d) \in Int /\ Reckoned(y - 1, m, d) \in Int
           /\ Reckoned(y, m, d + 1) = Reckoned(y, m, d) + 1
           /\ Reckoned(y - 1, m, d + 1) = Reckoned(y - 1, m, d) + 1
<1> DEFINE a == Leaps(y)
           b == Leaps(y - 1)
           p == MonthsIn(m)
<1>1. a \in Int /\ b \in Int /\ p \in Int
  BY SMT DEF Leaps, MonthsIn
<1>2. /\ Reckoned(y, m, d) = 365 * y + a + p + d - 719469
      /\ Reckoned(y, m, d + 1) = 365 * y + a + p + (d + 1) - 719469
      /\ Reckoned(y - 1, m, d) = 365 * (y - 1) + b + p + d - 719469
      /\ Reckoned(y - 1, m, d + 1) = 365 * (y - 1) + b + p + (d + 1) - 719469
  BY SMT DEF Reckoned
<1> HIDE DEF a, b, p
<1> QED
  BY <1>1, <1>2, SMT

(* From each date to the next is a day, by the calendar of unix_seconds. *)
LEMMA DayGoes ==
    ASSUME NEW y \in Nat \ {0}, NEW m \in 1..12, NEW d \in Nat
    PROVE  unix_days(y, m, d + 1) = unix_days(y, m, d) + 1
<1>1. d + 1 \in Nat
  OBVIOUS
<1>2. CASE m <= 2
  <2>1. unix_days(y, m, d) = Reckoned(y - 1, m, d)
    BY <1>2, UnixIs, Zenon
  <2>2. unix_days(y, m, d + 1) = Reckoned(y - 1, m, d + 1)
    BY <1>1, <1>2, UnixIs, Zenon
  <2> QED
    BY <2>1, <2>2, ReckonedFacts
<1>3. CASE m > 2
  <2>1. unix_days(y, m, d) = Reckoned(y, m, d)
    BY <1>3, UnixIs, Zenon
  <2>2. unix_days(y, m, d + 1) = Reckoned(y, m, d + 1)
    BY <1>1, <1>3, UnixIs, Zenon
  <2> QED
    BY <2>1, <2>2, ReckonedFacts
<1> QED
  BY <1>2, <1>3

LEMMA MonthEnds ==
    ASSUME NEW y \in Nat \ {0}, NEW m \in 1..11
    PROVE  unix_days(y, m + 1, 1) = unix_days(y, m, MonthLength(y, m)) + 1
<1> DEFINE n == MonthLength(y, m)
<1>1. n \in Nat /\ m \in 1..12 /\ m + 1 \in 1..12 /\ 1 \in Nat
  BY SMT DEF MonthLength
<1>2. /\ m + 1 <= 2 => unix_days(y, m + 1, 1) = Reckoned(y - 1, m + 1, 1)
      /\ m + 1 > 2 => unix_days(y, m + 1, 1) = Reckoned(y, m + 1, 1)
      /\ m <= 2 => unix_days(y, m, n) = Reckoned(y - 1, m, n)
      /\ m > 2 => unix_days(y, m, n) = Reckoned(y, m, n)
  <2> HIDE DEF n
  <2> QED
    BY <1>1, UnixIs, Zenon
<1>3. CASE m = 2
  <2> DEFINE a == Leaps(y)
             b == Leaps(y - 1)
  <2>1. MonthsIn(2) = 337 /\ MonthsIn(3) = 0 /\ n = (IF Leap(y) THEN 29 ELSE 28)
    BY <1>3, SMT DEF MonthsIn, MonthLength
  <2>2. a = b + (IF Leap(y) THEN 1 ELSE 0) /\ a \in Int /\ b \in Int
    BY LeapIs, SMT DEF Leaps
  <2>3. Reckoned(y, 3, 1) = 365 * y + a + 0 + 1 - 719469
    BY <2>1, SMT DEF Reckoned
  <2>4. Reckoned(y - 1, 2, n) = 365 * (y - 1) + b + 337 + n - 719469
    BY <2>1, SMT DEF Reckoned
  <2> HIDE DEF a, b, n
  <2>5. Reckoned(y, 3, 1) = Reckoned(y - 1, 2, n) + 1
    BY <2>1, <2>2, <2>3, <2>4, SMT
  <2> QED
    BY <1>2, <1>3, <2>5, SMT DEF n
<1>4. CASE m # 2
  <2> DEFINE p == MonthsIn(m)
             q == MonthsIn(m + 1)
             v == IF m <= 2 THEN y - 1 ELSE y
             a == Leaps(v)
  <2>1. q = p + n /\ p \in Int /\ q \in Int
    BY <1>4, SMT DEF MonthsIn, MonthLength
  <2>2. v \in Nat /\ a \in Int
    BY SMT DEF Leaps
  <2>3. unix_days(y, m, n) = Reckoned(v, m, n) /\ unix_days(y, m + 1, 1) = Reckoned(v, m + 1, 1)
    BY <1>2, <1>4, SMT
  <2>4. /\ Reckoned(v, m, n) = 365 * v + a + p + n - 719469
        /\ Reckoned(v, m + 1, 1) = 365 * v + a + q + 1 - 719469
    <3> HIDE DEF v, n
    <3> QED
      BY SMT DEF Reckoned
  <2> HIDE DEF v, n, p, q, a
  <2>5. Reckoned(v, m + 1, 1) = Reckoned(v, m, n) + 1
    BY <1>1, <2>1, <2>2, <2>4, SMT
  <2> QED
    BY <2>3, <2>5, SMT DEF n
<1> QED
  BY <1>3, <1>4

LEMMA YearEnds ==
    ASSUME NEW y \in Nat \ {0}
    PROVE  unix_days(y + 1, 1, 1) = unix_days(y, 12, 31) + 1
<1> DEFINE a == Leaps(y)
<1>1. MonthsIn(12) = 275 /\ MonthsIn(1) = 306 /\ a \in Int
  BY SMT DEF MonthsIn, Leaps
<1>2. unix_days(y, 12, 31) = Reckoned(y, 12, 31)
  <2>1. 12 \in 1..12 /\ 12 > 2 /\ 31 \in Nat
    OBVIOUS
  <2> QED
    BY <2>1, UnixIs, Zenon
<1>3. unix_days(y + 1, 1, 1) = Reckoned(y, 1, 1)
  <2>1. y + 1 \in Nat \ {0} /\ (y + 1) - 1 = y /\ 1 \in 1..12 /\ 1 <= 2 /\ 1 \in Nat
    OBVIOUS
  <2>2. unix_days(y + 1, 1, 1) = Reckoned((y + 1) - 1, 1, 1)
    BY <2>1, UnixIs, Zenon
  <2> QED
    BY <2>1, <2>2
<1>4. Reckoned(y, 12, 31) = 365 * y + a + 275 + 31 - 719469
  BY <1>1, SMT DEF Reckoned
<1>5. Reckoned(y, 1, 1) = 365 * y + a + 306 + 1 - 719469
  BY <1>1, SMT DEF Reckoned
<1> HIDE DEF a
<1> QED
  BY <1>1, <1>2, <1>3, <1>4, <1>5, SMT

(* A day of the calendar. *)
LEMMA CalendarStep == CalendarKept /\ NextDay => CalendarKept'
<1> SUFFICES ASSUME CalendarKept, NextDay PROVE CalendarKept'
  OBVIOUS
<1> DEFINE Dates == [year : Nat \ {0}, month : 1..12, day : 1..31, days : Int, from : Int]
           c == calendar
           y == calendar.year
           m == calendar.month
           d == calendar.day
           n == calendar.days
           next == [c EXCEPT !.days = @ + 1]
<1>1. c \in Dates /\ d <= MonthLength(y, m) /\ unix_days(y, m, d) = n
  BY DEF CalendarKept, NextDay, UnixIsTheCalendar
<1>2. y \in Nat \ {0} /\ m \in 1..12 /\ d \in 1..31 /\ n \in Int /\ MonthLength(y, m) \in 28..31
  BY <1>1 DEF MonthLength
<1>3. CASE d < MonthLength(y, m)
  <2>1. c' = [next EXCEPT !.day = d + 1]
    BY <1>1, <1>3 DEF NextDay
  <2>2. c' \in Dates /\ c'.year = y /\ c'.month = m /\ c'.day = d + 1 /\ c'.days = n + 1
    <3>1. d + 1 \in 1..31 /\ n + 1 \in Int
      BY <1>2, <1>3
    <3> QED
      BY <1>1, <2>1, <3>1
  <2>3. unix_days(y, m, d + 1) = n + 1
    BY <1>1, <1>2, <1>3, DayGoes
  <2> QED
    BY <1>2, <1>3, <2>2, <2>3 DEF CalendarKept, UnixIsTheCalendar
<1>4. CASE d = MonthLength(y, m) /\ m < 12
  <2>1. c' = [next EXCEPT !.day = 1, !.month = m + 1]
    BY <1>1, <1>4 DEF NextDay
  <2>2. c' \in Dates /\ c'.year = y /\ c'.month = m + 1 /\ c'.day = 1 /\ c'.days = n + 1
    <3>1. m + 1 \in 1..12 /\ n + 1 \in Int /\ 1 \in 1..31
      BY <1>2, <1>4
    <3> QED
      BY <1>1, <2>1, <3>1
  <2>3. unix_days(y, m + 1, 1) = n + 1
    BY <1>1, <1>2, <1>4, MonthEnds
  <2>4. 1 <= MonthLength(y, m + 1)
    BY DEF MonthLength
  <2> QED
    BY <2>2, <2>3, <2>4 DEF CalendarKept, UnixIsTheCalendar
<1>5. CASE ~(d < MonthLength(y, m)) /\ ~(d = MonthLength(y, m) /\ m < 12)
  <2>1. c' = [next EXCEPT !.day = 1, !.month = 1, !.year = y + 1]
    BY <1>1, <1>5 DEF NextDay
  <2>2. c' \in Dates /\ c'.year = y + 1 /\ c'.month = 1 /\ c'.day = 1 /\ c'.days = n + 1
    <3>1. y + 1 \in Nat \ {0} /\ n + 1 \in Int /\ 1 \in 1..31 /\ 1 \in 1..12
      BY <1>2
    <3> QED
      BY <1>1, <2>1, <3>1
  <2>3. m = 12 /\ d = 31
    BY <1>1, <1>2, <1>5 DEF MonthLength
  <2>4. unix_days(y + 1, 1, 1) = n + 1
    BY <1>1, <1>2, <2>3, YearEnds
  <2>5. 1 <= MonthLength(y + 1, 1)
    BY DEF MonthLength
  <2> QED
    BY <2>2, <2>4, <2>5 DEF CalendarKept, UnixIsTheCalendar
<1> QED
  BY <1>3, <1>4, <1>5

LEMMA CalendarOpens == OpenCalendar => CalendarKept'
<1> SUFFICES ASSUME OpenCalendar PROVE CalendarKept'
  OBVIOUS
<1>1. PICK f \in FirstDays :
        calendar' = [year |-> f[1], month |-> 1, day |-> 1, days |-> f[2], from |-> f[2]]
  BY DEF OpenCalendar
<1> DEFINE y == f[1]
           n == f[2]
<1>2. y \in Nat \ {0} /\ n = 365 * (y - 1970) + Leaps(y - 1) - Leaps(1969)
  BY FirstDaysAssumption, SMT
<1>3. calendar' = [year |-> y, month |-> 1, day |-> 1, days |-> n, from |-> n]
  BY <1>1
<1> HIDE DEF y, n
<1>4. Leaps(1969) = 477 /\ Leaps(y - 1) \in Int /\ MonthsIn(1) = 306
  BY <1>2, SMT DEF Leaps, MonthsIn
<1>5. unix_days(y, 1, 1) = 365 * (y - 1) + Leaps(y - 1) + MonthsIn(1) + 1 - 719469
  <2>1. 1 \in 1..12 /\ 1 <= 2 /\ 1 \in Nat
    OBVIOUS
  <2>2. unix_days(y, 1, 1) = Reckoned(y - 1, 1, 1)
    BY <1>2, <2>1, UnixIs, Zenon
  <2> QED
    BY <2>2, SMT DEF Reckoned
<1>6. unix_days(y, 1, 1) = n /\ n \in Int
  BY <1>2, <1>4, <1>5, SMT
<1>7. /\ calendar'.year = y /\ calendar'.month = 1 /\ calendar'.day = 1 /\ calendar'.days = n
      /\ calendar' \in [year : Nat \ {0}, month : 1..12, day : 1..31, days : Int, from : Int]
  BY <1>2, <1>3, <1>6
<1>8. 1 <= MonthLength(y, 1)
  BY DEF MonthLength
<1> QED
  BY <1>6, <1>7, <1>8 DEF CalendarKept, UnixIsTheCalendar

LEMMA NmeaStart == NmeaInit => NmeaInv
<1> SUFFICES ASSUME NmeaInit PROVE NmeaInv
  OBVIOUS
<1>1. NmeaNumbers /\ OnWire /\ CalendarKept
  BY NmeaBounds DEF NmeaInit, NmeaNumbers, OnWire, CalendarKept
<1>2. lexer \in [open : BOOLEAN, body : Seq(Pieces)]
  BY EmptyLexer DEF NmeaInit
<1>3. InLexer
  BY <1>2, NmeaBounds DEF NmeaInit, InLexer
<1>4. ClockKept
  BY DEF NmeaInit, ClockKept, DatedBy, GpsClockNotAhead
<1>5. ViewKept
  BY NmeaBounds DEF NmeaInit, ViewKept, CountedOnce
<1> QED
  BY <1>1, <1>3, <1>4, <1>5 DEF NmeaInv

LEMMA NmeaStep == NmeaInv /\ [NmeaNext]_nmeaVars => NmeaInv'
<1> SUFFICES ASSUME NmeaInv, [NmeaNext]_nmeaVars PROVE NmeaInv'
  OBVIOUS
<1>1. CASE Send \/ Passes
  BY <1>1, SendInv
<1>2. CASE Arrive \/ Spoil
  BY <1>2, ArriveInv, SpoilInv
<1>3. CASE OpenCalendar \/ NextDay \/ UNCHANGED nmeaVars
  <2>1. /\ time' = time /\ wire' = wire /\ intact' = intact /\ lexer' = lexer /\ said' = said
        /\ inView' = inView /\ sentences' = sentences /\ whole' = whole
        /\ sent' = sent /\ lost' = lost
    BY <1>3 DEF OpenCalendar, NextDay, nmeaVars
  <2>2. NmeaNumbers' /\ OnWire' /\ InLexer'
    BY <2>1 DEF NmeaInv, NmeaNumbers, OnWire, InLexer, Spoken, DatedBy
  <2>3. ClockKept' /\ ViewKept'
    BY <2>1 DEF NmeaInv, ClockKept, DatedBy, GpsClockNotAhead, ViewKept, CountedOnce
  <2>4. CalendarKept'
    <3>1. CASE OpenCalendar \/ NextDay
      BY <3>1, CalendarStep, CalendarOpens DEF NmeaInv
    <3>2. CASE UNCHANGED nmeaVars
      BY <3>2 DEF nmeaVars, NmeaInv, CalendarKept, UnixIsTheCalendar
    <3> QED
      BY <1>3, <3>1, <3>2
  <2> QED
    BY <2>2, <2>3, <2>4 DEF NmeaInv
<1> QED
  BY <1>1, <1>2, <1>3 DEF NmeaNext

LEMMA NmeaAlways == NmeaSpec => []NmeaCorrect
<1>1. NmeaSpec => []NmeaInv
  BY NmeaStart, NmeaStep, PTL DEF NmeaSpec
<1>2. NmeaInv => NmeaCorrect
  <2> SUFFICES ASSUME NmeaInv PROVE NmeaCorrect
    OBVIOUS
  <2>1. said.date \in 0..DayOf(MaxTime) \cup {Unsaid}
    <3>1. CASE said.date # Unsaid
      <4>1. said.date \in Nat /\ said.date <= DayOf(time)
        BY <3>1 DEF NmeaInv, ClockKept, DatedBy
      <4>2. time \in Nat /\ time <= MaxTime
        BY NmeaBounds DEF NmeaInv, NmeaNumbers
      <4>3. DayOf(time) <= DayOf(MaxTime) /\ DayOf(time) \in Nat /\ DayOf(MaxTime) \in Nat
        BY <4>2, DaysRise, DayFacts, NmeaBounds
      <4> QED
        BY <4>1, <4>3
    <3> QED
      BY <3>1
  <2>2. {sentences, whole} \subseteq 0..MaxSent
    BY NmeaBounds DEF NmeaInv, NmeaNumbers
  <2>3. /\ time \in 0..MaxTime /\ lexer.open \in BOOLEAN /\ Len(lexer.body) <= MaxSentence
        /\ said.time \in 0..(DayLength - 1) \cup {Unsaid} /\ Len(inView) <= Slots
        /\ sent \in 0..MaxSent /\ lost \in 0..MaxLost
    BY DEF NmeaInv, NmeaNumbers, InLexer, ClockKept, ViewKept
  <2>4. NmeaTypeOK
    BY <2>1, <2>2, <2>3 DEF NmeaTypeOK
  <2>5. WholeIsTaken
    BY DEF NmeaInv, NmeaNumbers, WholeIsTaken
  <2>6. GpsClockNotAhead /\ CountedOnce
    BY DEF NmeaInv, ClockKept, ViewKept
  <2>7. UnixIsTheCalendar
    BY DEF NmeaInv, CalendarKept, UnixIsTheCalendar
  <2> QED
    BY <2>4, <2>5, <2>6, <2>7 DEF NmeaCorrect
<1> QED
  BY <1>1, <1>2, PTL

-----------------------------------------------------------------------------
(* The board: what each of its steps is to a part is a step of the part or *)
(* nothing.                                                                *)
LEMMA PartsStep ==
    ASSUME [Next]_boardVars
    PROVE  /\ [PadNext]_padVars /\ [GlassNext]_glassVars /\ [GpsNext]_gpsVars
           /\ [BatteryNext]_batteryVars /\ [BuzzerNext]_buzzerVars
           /\ [HostLogNext]_hostLogVars /\ [StartupNext]_startupVars
           /\ [BenchNext]_benchVars /\ [NmeaNext]_nmeaVars /\ [FlashNext]_flashVars
<1>1. CASE part = "pad" /\ PadNext /\ Others("pad")
  BY <1>1 DEF Others
<1>2. CASE part = "glass" /\ GlassNext /\ Others("glass")
  BY <1>2 DEF Others
<1>3. CASE part = "gps" /\ GpsNext /\ Others("gps")
  BY <1>3 DEF Others
<1>4. CASE part = "nmea" /\ NmeaNext /\ Others("nmea")
  BY <1>4 DEF Others
<1>5. CASE part = "battery" /\ BatteryNext /\ Others("battery")
  BY <1>5 DEF Others
<1>6. CASE part = "buzzer" /\ BuzzerNext /\ Others("buzzer")
  BY <1>6 DEF Others
<1>7. CASE part = "log" /\ HostLogNext /\ Others("log")
  BY <1>7 DEF Others
<1>8. CASE part = "startup" /\ StartupNext /\ Others("startup")
  BY <1>8 DEF Others
<1>9. CASE part = "flash" /\ FlashNext /\ Others("flash")
  BY <1>9 DEF Others
<1>10. CASE part = "bench" /\ BenchNext /\ Others("bench")
  BY <1>10 DEF Others
<1>11. CASE UNCHANGED boardVars
  BY <1>11 DEF boardVars
<1> QED
  BY <1>1, <1>2, <1>3, <1>4, <1>5, <1>6, <1>7, <1>8, <1>9, <1>10, <1>11 DEF Next

LEMMA PartsRun ==
    Spec => /\ PadSpec /\ GlassSpec /\ GpsSpec /\ BatterySpec /\ BuzzerSpec
            /\ HostLogSpec /\ StartupSpec /\ BenchSpec /\ NmeaSpec /\ FlashSpec
<1>1. Init => /\ PadInit /\ GlassInit /\ GpsInit /\ BatteryInit /\ BuzzerInit
              /\ HostLogInit /\ StartupInit /\ BenchInit /\ NmeaInit /\ FlashInit
  BY DEF Init
<1>2. [Next]_boardVars =>
        /\ [PadNext]_padVars /\ [GlassNext]_glassVars /\ [GpsNext]_gpsVars
        /\ [BatteryNext]_batteryVars /\ [BuzzerNext]_buzzerVars
        /\ [HostLogNext]_hostLogVars /\ [StartupNext]_startupVars
        /\ [BenchNext]_benchVars /\ [NmeaNext]_nmeaVars /\ [FlashNext]_flashVars
  BY PartsStep
<1> QED
  BY <1>1, <1>2, PTL
     DEF Spec, PadSpec, GlassSpec, GpsSpec, BatterySpec, BuzzerSpec, HostLogSpec,
         StartupSpec, BenchSpec, NmeaSpec, FlashSpec

(* What a person handles, sees and hears is right for every debounce, every *)
(* screen and any number of ticks: one press to a touch and one repeat at   *)
(* most after it, a panel that shows what is drawn, a charge that follows   *)
(* the cell, and no sound unasked (core/src/pad.rs and src/pad.rs,          *)
(* src/display.rs, core/src/battery.rs and src/battery.rs, src/buzzer.rs).  *)
THEOREM HandsAreRight == Spec => []HandsCorrect
BY PartsRun, PadAlways, GlassAlways, BatteryAlways, BuzzerAlways, PTL DEF HandsCorrect

(* A position shown is one the module gave since it was last powered, and  *)
(* the receiver is switched only by the menu or by a switch that moved,    *)
(* however often either is (Receiver::power, Control::switch).             *)
THEOREM ReceiverFollows == Spec => GpsCorrect
BY PartsRun, GpsAlways

(* However a run ends, and wherever in its start, the next says so of it   *)
(* and of no earlier one, and the USB detector knows the cable; in a       *)
(* bring-up the driver is attached to an LR1121 whose BUSY works and to    *)
(* nothing else, and the line is called good only when it is (main, fault, *)
(* stall and Vbus; bring_up, start_tcxo, provoke_irq and console).         *)
THEOREM BringUpIsRight == Spec => BringUpCorrect
BY PartsRun, StartupAlways, BenchIsRight, PTL DEF BringUpCorrect

(* Every byte logged is with the host, under way or counted as lost, the   *)
(* host has what it has in order and once, and a reader is given the time  *)
(* to open before anything leaves the ring, for a ring and packets of any  *)
(* length (RingBuffer, DrainGate and the pump).                            *)
THEOREM LogIsWhole == Spec => HostLogCorrect
BY PartsRun, LogAlways

(* A sentence that arrives whole is taken whatever was lost before it, the  *)
(* clock the GPS gives is never ahead of the truth, and the seconds of a    *)
(* date are the calendar's from any year to any other (Lexer, Receiver and *)
(* unix_seconds, core/src/gps.rs); the flash chip is used awake, and said  *)
(* to be right only when the pattern fills its sector, wherever a reset or *)
(* a power loss cut in (src/bin/qspi.rs, park in src/ext_flash.rs).        *)
THEOREM BytesAreRight == Spec => []BytesCorrect
BY PartsRun, NmeaAlways, FlashAlways, PTL DEF BytesCorrect
=============================================================================
