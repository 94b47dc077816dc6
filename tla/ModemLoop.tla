------------------------------ MODULE ModemLoop ------------------------------
(***************************************************************************)
(* The RNode's control state: the protocol a host or the panel drives      *)
(* (core/src/rnode/protocol.rs), the modem loop that carries out what it   *)
(* decides (run, act and perform in src/bin/rnode.rs), and the record that *)
(* outlives a reset.                                                       *)
(*                                                                         *)
(* A pass of the loop is four phases in order: the commands a host sent,   *)
(* who is present, the node's packet, the panel and the write to flash.    *)
(* A radio configuration is a model value; setters change one field of it, *)
(* which here takes it to any other.  The record is its stored             *)
(* configuration, or NoConfig.                                             *)
(***************************************************************************)
CONSTANTS
    Configs,    \* radio configurations a host can ask for
    Valid,      \* those ValidConfig::new accepts
    Default,    \* DEFAULT, what the protocol boots with
    NoConfig,   \* none stored, none applied, or none known to be in the chip
    LateFrames  \* whether a link may drop with its frames not yet read

ASSUME LoopAssumption ==
    /\ Valid \subseteq Configs
    /\ Default \in Valid
    /\ NoConfig \notin Configs
    /\ LateFrames \in BOOLEAN

VARIABLES
    phase,      \* "host", "node", "panel" or "persist"
    config,     \* Protocol::config, the wanted values
    radio,      \* Protocol::state
    locked,     \* Protocol::locked
    record,     \* the stored configuration of Protocol::store
    dirty,      \* dirty_since is Some
    flash,      \* what a boot would load
    failed,     \* the last commit failed
    applied,    \* what the loop believes the chip is programmed with
    receiving,  \* whether the loop believes the chip is in receive
    chip,       \* what the chip is programmed with
    listening,  \* whether the chip is in continuous receive
    host,       \* Presence says a host is there
    spoke,      \* a whole frame arrived on this pass
    line        \* DTR is up or a phone is connected

protocol == <<config, radio, locked, record>>
storage == <<dirty, flash, failed>>
modem == <<applied, receiving, chip, listening>>
presence == <<host, spoke, line>>
vars == <<phase, protocol, storage, modem, presence>>

MaybeConfig == Configs \union {NoConfig}

is_tnc == record # NoConfig

(* Mode::Node: no host, and a configuration to be a node on. *)
IsNode == ~host /\ is_tnc

----------------------------------------------------------------------------
(* Definitions named X_Bug are X as a plausible mistake would have it; the *)
(* runs' properties are shown to notice each of them.                      *)

(* act(Reconfigure), with the configuration the protocol has just settled  *)
(* on.  apply programs the chip in standby and start_rx puts it in         *)
(* receive; either can fail or time out half done.                         *)
Reconfigure(c) ==
    \/ /\ applied' = c /\ chip' = c
       /\ receiving' = TRUE /\ listening' = TRUE
    \/ /\ applied' = NoConfig /\ chip' \in {chip, c, NoConfig}
       /\ receiving' = FALSE /\ listening' \in {FALSE, listening}
    \/ /\ UNCHANGED applied /\ chip' = c
       /\ receiving' = FALSE /\ listening' \in BOOLEAN

(* act(Standby): a chip that does not answer is only logged. *)
Standby ==
    /\ receiving' = FALSE
    /\ listening' \in {FALSE, listening}
    /\ UNCHANGED <<applied, chip>>

Transmit_NotRestarted ==
    /\ listening' = FALSE
    /\ UNCHANGED <<applied, receiving, chip>>

(* send_packet leaves the chip in standby, so it is put back in receive if *)
(* the loop had it there.                                                  *)
Transmit ==
    /\ \/ receiving /\ listening' = TRUE /\ UNCHANGED receiving
       \/ receiving /\ listening' \in BOOLEAN /\ receiving' = FALSE
       \/ ~receiving /\ listening' = FALSE /\ UNCHANGED receiving
    /\ UNCHANGED <<applied, chip>>

SwitchOn_Unchecked(c) == radio' = "on" /\ Reconfigure(c)

(* switch_on, and CMD_RADIO_STATE on: refuse what the radio cannot do. *)
SwitchOn(c) ==
    \/ c \in Valid /\ radio' = "on" /\ Reconfigure(c)
    \/ c \notin Valid /\ radio' = "off" /\ Standby

(* resume_stored_config and what the loop does with its answer; a stored   *)
(* configuration that does not validate asks nothing of the radio.         *)
Resume ==
    /\ config' = record
    /\ \/ record \in Valid /\ radio' = "on" /\ Reconfigure(record)
       \/ record \notin Valid /\ radio' = "off" /\ UNCHANGED modem

----------------------------------------------------------------------------
(* A command from the host: Protocol::handle, and act. *)
Command ==
    /\ phase = "host"
    /\ spoke' = TRUE
    /\ UNCHANGED <<phase, host, line>>

NotRecord == UNCHANGED <<record, storage>>

Put_IgnoresLock(c) == c

(* Protocol::set: a locked device keeps its configuration. *)
Put(c) == IF locked THEN config ELSE c

Set(c) ==
    /\ Command
    /\ config' = Put(c)
    /\ UNCHANGED <<radio, locked, modem>> /\ NotRecord

SetRadioLock(b) ==
    /\ Command
    /\ locked' = b
    /\ UNCHANGED <<config, radio, modem>> /\ NotRecord

RadioOn ==
    /\ Command
    /\ SwitchOn(config)
    /\ UNCHANGED <<config, locked>> /\ NotRecord

(* CMD_RADIO_STATE off, and CMD_LEAVE. *)
RadioOff ==
    /\ Command
    /\ radio' = "off" /\ Standby
    /\ UNCHANGED <<config, locked>> /\ NotRecord

(* CMD_DATA: a packet for a radio that is off, or not configured, is       *)
(* dropped.                                                                *)
Data ==
    /\ Command
    /\ IF radio = "on" /\ applied # NoConfig THEN Transmit ELSE UNCHANGED modem
    /\ UNCHANGED protocol /\ UNCHANGED storage

Write_NotDirty(c) ==
    /\ record' = c
    /\ UNCHANGED storage

(* A change to the record: Action::Persist restarts the timer. *)
Write(c) ==
    /\ record' = c
    /\ dirty' = TRUE
    /\ UNCHANGED <<flash, failed>>

SaveConfig ==
    /\ Command
    /\ Write(config)
    /\ UNCHANGED <<config, radio, locked, modem>>

(* CMD_CONF_DELETE and CMD_ROM_WIPE. *)
DeleteConfig ==
    /\ Command
    /\ Write(NoConfig)
    /\ UNCHANGED <<config, radio, locked, modem>>

(* CMD_ROM_WRITE, byte by byte, can make the stored configuration          *)
(* anything; a signature or a firmware hash leaves it alone.               *)
WriteRom(c) ==
    /\ Command
    /\ Write(c)
    /\ UNCHANGED <<config, radio, locked, modem>>

----------------------------------------------------------------------------
(* Listener::observe, once a pass.  A frame makes a host present, if its   *)
(* link is still there when the pass gets here.                            *)
Observe ==
    /\ phase = "host" /\ phase' = "node"
    /\ spoke' = FALSE
    /\ UNCHANGED <<locked, record, storage, line>>

HostStays ==
    /\ Observe
    /\ \/ host /\ UNCHANGED host
       \/ spoke /\ host' = TRUE
       \/ ~host /\ (spoke => LateFrames) /\ UNCHANGED host
    /\ UNCHANGED <<config, radio, modem>>

HostLeft_NoResume ==
    /\ Observe
    /\ host /\ (spoke => LateFrames) /\ host' = FALSE
    /\ UNCHANGED <<config, radio, modem>>

(* The last host has been gone for HOLD_MS: a board with a stored          *)
(* configuration goes back to it.                                          *)
HostLeft ==
    /\ Observe
    /\ host /\ (spoke => LateFrames) /\ host' = FALSE
    /\ IF is_tnc THEN Resume ELSE UNCHANGED <<config, radio, modem>>

(* The node has a packet and may send it: it is a node, the loop believes  *)
(* the radio is receiving, and nobody is on the line.                      *)
NodeMaySend == phase = "node" /\ IsNode /\ ~line /\ applied # NoConfig /\ receiving

NodeSend ==
    /\ NodeMaySend
    /\ Transmit
    /\ phase' = "panel"
    /\ UNCHANGED <<protocol, storage, presence>>

NodeQuiet ==
    /\ phase = "node" /\ phase' = "panel"
    /\ UNCHANGED <<protocol, storage, modem, presence>>

----------------------------------------------------------------------------
(* perform: what changes the radio is refused while a host has the line.   *)
Panel ==
    /\ phase = "panel"
    /\ UNCHANGED <<phase, presence, locked>>

(* set_from_panel: a TNC stores the change too. *)
PanelSet(c) ==
    /\ Panel /\ ~line /\ ~locked
    /\ config' = c
    /\ IF is_tnc THEN Write(c) ELSE NotRecord
    /\ IF radio = "on" THEN SwitchOn(c) ELSE UNCHANGED <<radio, modem>>

PanelToggle ==
    /\ Panel /\ ~line
    /\ IF radio = "on" THEN radio' = "off" /\ Standby ELSE SwitchOn(config)
    /\ UNCHANGED config /\ NotRecord

(* save_from_panel is not one of the actions a host's line refuses. *)
PanelSave ==
    /\ Panel
    /\ Write(config)
    /\ UNCHANGED <<config, radio, modem>>

(* reset_from_panel: back to what the board boots with. *)
PanelReset ==
    /\ Panel /\ ~line
    /\ \/ is_tnc /\ Resume
       \/ /\ ~is_tnc /\ config' = Default
          /\ IF radio = "on" THEN SwitchOn(Default) ELSE UNCHANGED <<radio, modem>>
    /\ NotRecord

(* The alert, the bonds forgotten, a phone just paired: the rest of the    *)
(* record changes and the timer restarts.                                  *)
OtherWrite ==
    /\ Panel
    /\ Write(record)
    /\ UNCHANGED <<config, radio, modem>>

PanelDone ==
    /\ phase = "panel" /\ phase' = "persist"
    /\ UNCHANGED <<protocol, storage, modem, presence>>

----------------------------------------------------------------------------
(* Storage::save: done, or given up on after ATTEMPTS with the page as it  *)
(* was, erased or half written, which reads as never provisioned.          *)
Save ==
    \/ flash' = record /\ failed' = FALSE
    \/ flash' \in {flash, NoConfig, record} /\ failed' = TRUE

(* commit when the record has stopped changing; a failure is only logged. *)
Commit ==
    /\ phase = "persist" /\ dirty
    /\ Save /\ dirty' = FALSE
    /\ phase' = "host"
    /\ UNCHANGED <<protocol, modem, presence>>

(* PERSIST_IDLE has not passed, or there is nothing to write. *)
NoCommit ==
    /\ phase = "persist" /\ phase' = "host"
    /\ UNCHANGED <<protocol, storage, modem, presence>>

BootConfig_Adopts(stored) == stored

(* What the protocol wants after a boot: nothing stored is the default. *)
BootConfig(stored) == IF stored = NoConfig THEN Default ELSE stored

(* A boot from what is in the flash: with_storage, then the resume. *)
Boot(stored) ==
    /\ phase' = "host"
    /\ locked' = FALSE /\ record' = stored /\ flash' = stored
    /\ dirty' = FALSE /\ failed' = FALSE
    /\ host' = FALSE /\ spoke' = FALSE /\ UNCHANGED line
    /\ config' = BootConfig(stored)
    /\ \/ /\ stored \in Valid
          /\ radio' = "on"
          /\ \/ /\ applied' = stored /\ receiving' = TRUE
                /\ chip' = stored /\ listening' = TRUE
             \/ /\ applied' = NoConfig /\ receiving' = FALSE
                /\ chip' \in {NoConfig, stored} /\ listening' \in BOOLEAN
       \/ /\ stored \notin Valid
          /\ radio' = "off"
          /\ applied' = NoConfig /\ receiving' = FALSE
          /\ chip' = NoConfig /\ listening' = FALSE

(* CMD_RESET, the bootloader touch and the panel's two restarts write the  *)
(* record out first.                                                       *)
Reset ==
    /\ phase \in {"host", "panel"}
    /\ \E stored \in {record, flash, NoConfig} : Boot(stored)

(* The power goes; in the middle of a write, the page may be half written. *)
PowerLoss ==
    \E stored \in {flash} \union 
                (IF dirty /\ phase = "persist" THEN {NoConfig, record} ELSE {}) :
        Boot(stored)

(* A port is opened or closed, a phone connects or goes. *)
Line ==
    /\ line' = ~line
    /\ UNCHANGED <<phase, protocol, storage, modem, host, spoke>>

----------------------------------------------------------------------------
Init ==
    /\ phase = "host"
    /\ config = Default /\ radio = "off" /\ locked = FALSE
    /\ record = NoConfig /\ flash = NoConfig
    /\ dirty = FALSE /\ failed = FALSE
    /\ applied = NoConfig /\ receiving = FALSE
    /\ chip = NoConfig /\ listening = FALSE
    /\ host = FALSE /\ spoke = FALSE /\ line = FALSE

Next ==
    \/ \E c \in Configs : Set(c) \/ PanelSet(c)
    \/ \E b \in BOOLEAN : SetRadioLock(b)
    \/ RadioOn \/ RadioOff \/ Data
    \/ SaveConfig \/ DeleteConfig
    \/ \E c \in MaybeConfig : WriteRom(c)
    \/ HostStays \/ HostLeft
    \/ NodeSend \/ NodeQuiet
    \/ PanelToggle \/ PanelSave \/ PanelReset \/ OtherWrite \/ PanelDone
    \/ Commit \/ NoCommit
    \/ Reset \/ PowerLoss \/ Line

Spec == Init /\ [][Next]_vars

----------------------------------------------------------------------------
TypeOK ==
    /\ phase \in {"host", "node", "panel", "persist"}
    /\ config \in Configs /\ radio \in {"on", "off"} /\ locked \in BOOLEAN
    /\ record \in MaybeConfig /\ flash \in MaybeConfig
    /\ dirty \in BOOLEAN /\ failed \in BOOLEAN
    /\ applied \in MaybeConfig /\ chip \in MaybeConfig
    /\ receiving \in BOOLEAN /\ listening \in BOOLEAN
    /\ host \in BOOLEAN /\ spoke \in BOOLEAN /\ line \in BOOLEAN

(* Whenever the loop believes the radio is receiving it is, on the         *)
(* configuration the loop believes it has: through every failed apply,     *)
(* start_rx and standby, and every packet sent in between.                 *)
ReceivingIsTrue ==
    receiving => listening /\ applied # NoConfig /\ chip = applied

(* The chip is never given a configuration that does not validate, though  *)
(* hosts, the panel and the flash may all hold one.                        *)
OnlyValidProgrammed == chip \in Valid \union {NoConfig}

(* Under a lock the wanted configuration changes only to the one the board *)
(* boots with.                                                             *)
LockedOnlyGoesBack ==
    [][locked /\ config' # config =>
          config' \in {record', Default}]_vars

(* With no write pending and the last one not failed, a power cycle comes  *)
(* back with the record the board had.                                     *)
SettledIsStored == ~dirty /\ ~failed => flash = record

(* With no host, a board with a stored configuration wants that one: after *)
(* a host has changed it and left, after edits, saves and resets.          *)
StandaloneWantsStored == IsNode /\ ~spoke => config = record
=============================================================================
