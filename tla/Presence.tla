------------------------------ MODULE Presence ------------------------------
(***************************************************************************)
(* Who the board is right now (core/src/mode.rs): a host is present from   *)
(* its first frame until it has been gone for HOLD_MS, over USB and over   *)
(* Bluetooth.  The transports are what the modem loop sees of them: the    *)
(* bus, the DTR line, the link and the frames since the last pass.         *)
(*                                                                         *)
(* A side's `gone` is how long ago gone_since was, up to Hold, or None.    *)
(***************************************************************************)
EXTENDS Naturals

CONSTANTS
    Hold,        \* HOLD_MS, in ticks
    LateReads,  \* whether a link may drop with its frames not yet read
    None         \* gone_since is None

ASSUME PresenceAssumption ==
    /\ Hold \in Nat \ {0}
    /\ LateReads \in BOOLEAN
    /\ None \notin Nat

VARIABLES
    bus,        \* the USB bus is configured and not suspended
    dtr,        \* the KISS port's DTR line
    usbFrame,   \* a whole frame has arrived over USB since the last pass
    link,       \* a phone holds a link
    bleFrame,   \* a whole frame has arrived over it since the last pass
    usb, ble,   \* the two sides
    dtrSeen,    \* dtr_seen
    usbAway,    \* ticks since a pass saw the port open or a USB frame
    bleAway,    \* ticks since a pass saw the link
    raised      \* DTR has been up since the USB host arrived

presenceVars == <<bus, dtr, usbFrame, link, bleFrame, usb, ble, dtrSeen, usbAway, bleAway, raised>>

seen == <<bus, dtr, usbFrame, link, bleFrame>>

Side == [present : BOOLEAN, gone : (0..Hold) \union {None}]

Nobody == [present |-> FALSE, gone |-> None]

HostPresent == usb.present \/ ble.present

Spoke == usbFrame \/ bleFrame

----------------------------------------------------------------------------
(* Definitions named X_Bug are X as a plausible mistake would have it; the *)
(* runs' properties are shown to notice each of them.                      *)

Since_EveryPass(s) == 0

(* gone_since.get_or_insert(now_ms) *)
Since(s) == IF s.gone = None THEN 0 ELSE s.gone

HeldLongEnough(t) == t >= Hold

SideUpdate_AttachedIsEnough(s, spoke, attached) ==
    IF ~s.present /\ ~attached THEN s
    ELSE IF attached \/ spoke THEN [present |-> TRUE, gone |-> None]
    ELSE IF HeldLongEnough(Since(s)) THEN Nobody
    ELSE [present |-> TRUE, gone |-> Since(s)]

(* Side::update. *)
SideUpdate(s, spoke, attached) ==
    IF ~s.present /\ ~spoke THEN s
    ELSE IF attached \/ spoke THEN [present |-> TRUE, gone |-> None]
    ELSE IF HeldLongEnough(Since(s)) THEN Nobody
    ELSE [present |-> TRUE, gone |-> Since(s)]

DtrSeenNow_AnyFrame == dtrSeen \/ dtr \/ usbFrame

(* DTR counts as seen up only with a USB host there, or one speaking. *)
DtrSeenNow == dtrSeen \/ (dtr /\ (usbFrame \/ usb.present))

UsbAttached == bus /\ (dtr \/ ~DtrSeenNow)

Away(t, there) == IF there THEN 0 ELSE t

(* Presence::update, once a pass of the modem loop. *)
Update ==
    /\ usb' = SideUpdate(usb, usbFrame /\ bus, UsbAttached)
    /\ ble' = SideUpdate(ble, bleFrame /\ link, link)
    /\ dtrSeen' = (usb'.present /\ DtrSeenNow)
    /\ usbFrame' = FALSE /\ bleFrame' = FALSE
    /\ usbAway' = Away(usbAway, bus /\ (dtr \/ usbFrame))
    /\ bleAway' = Away(bleAway, link)
    /\ raised' = IF usb.present THEN raised ELSE dtr
    /\ UNCHANGED <<bus, dtr, link>>

----------------------------------------------------------------------------
(* The transports, between passes. *)
NoUpdate == UNCHANGED <<usb, ble, dtrSeen, usbAway, bleAway>>

(* The cable in or out, the computer asleep or awake.  Without late frames *)
(* the loop has read what came over the bus before it goes.                *)
Bus ==
    /\ bus' = ~bus
    /\ bus /\ usbFrame => LateReads
    /\ UNCHANGED <<dtr, usbFrame, link, bleFrame, raised>> /\ NoUpdate

(* The port opened or closed, by something that raises DTR. *)
Dtr ==
    /\ dtr' = ~dtr
    /\ raised' = (raised \/ dtr')
    /\ UNCHANGED <<bus, usbFrame, link, bleFrame>> /\ NoUpdate

Link ==
    /\ link' = ~link
    /\ link /\ bleFrame => LateReads
    /\ UNCHANGED <<bus, dtr, usbFrame, bleFrame, raised>> /\ NoUpdate

UsbSpeaks ==
    /\ bus /\ usbFrame' = TRUE
    /\ UNCHANGED <<bus, dtr, link, bleFrame, raised>> /\ NoUpdate

BleSpeaks ==
    /\ link /\ bleFrame' = TRUE
    /\ UNCHANGED <<bus, dtr, usbFrame, link, raised>> /\ NoUpdate

Older(t) == IF t = None \/ t = Hold THEN t ELSE t + 1

TimePasses ==
    /\ usb' = [usb EXCEPT !.gone = Older(@)]
    /\ ble' = [ble EXCEPT !.gone = Older(@)]
    /\ usbAway' = Older(usbAway) /\ bleAway' = Older(bleAway)
    /\ UNCHANGED <<seen, dtrSeen, raised>>

----------------------------------------------------------------------------
PresenceInit ==
    /\ bus \in BOOLEAN /\ dtr \in BOOLEAN /\ link = FALSE
    /\ usbFrame = FALSE /\ bleFrame = FALSE
    /\ usb = Nobody /\ ble = Nobody /\ dtrSeen = FALSE
    /\ usbAway = 0 /\ bleAway = 0 /\ raised = FALSE

PresenceNext == Update \/ Bus \/ Dtr \/ Link \/ UsbSpeaks \/ BleSpeaks \/ TimePasses

PresenceSpec == PresenceInit /\ [][PresenceNext]_presenceVars

----------------------------------------------------------------------------
PresenceTypeOK ==
    /\ bus \in BOOLEAN /\ dtr \in BOOLEAN /\ link \in BOOLEAN
    /\ usbFrame \in BOOLEAN /\ bleFrame \in BOOLEAN
    /\ usb \in Side /\ ble \in Side
    /\ dtrSeen \in BOOLEAN /\ raised \in BOOLEAN
    /\ usbAway \in 0..Hold /\ bleAway \in 0..Hold

(* A host is forgotten only when it has stayed gone for HOLD_MS: however   *)
(* often the cable, the port or the link comes and goes, a pass that saw   *)
(* it there within that time keeps it.                                     *)
ForgottenAfterHold ==
    [][/\ usb.present /\ ~usb'.present => usbAway >= Hold
       /\ ble.present /\ ~ble'.present => bleAway >= Hold]_presenceVars

(* A USB host in whose time DTR was never up is not ended by its being     *)
(* down, only by the bus going, whoever had the port before it arrived.    *)
OnlyTheBusEndsIt ==
    [][usb.present /\ ~usb'.present /\ ~raised => ~bus]_presenceVars

(* A host is forgotten once it has stayed gone, and for nothing else.       *)
EndedRightly == ForgottenAfterHold /\ OnlyTheBusEndsIt

(* A host that goes for good is forgotten, and the board is a node again:  *)
(* it is not that everyone is gone for ever and a host is still present.   *)
GoneIsForgotten == []<>(bus \/ link \/ ~HostPresent)

(* What the modem loop relies on about hosts is what the rule does.        *)
Rule == INSTANCE HostRule WITH LateFrames <- LateReads, host <- HostPresent, spoke <- Spoke

ImplementsHostRule == Rule!Spec
=============================================================================
