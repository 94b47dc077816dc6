-------------------------------- MODULE Radio --------------------------------
(***************************************************************************)
(* The radio's settings from the two who set them to the chip's registers: *)
(* bring-up (src/bringup.rs, src/radio.rs), the configuration a host sets  *)
(* a field at a time and its validation (lr1121/config.rs, pa.rs, lora.rs, *)
(* rssi.rs), the panel's editor for one field (edit.rs), what the protocol *)
(* makes of either (rnode/protocol.rs), the programming of the chip        *)
(* (Modem::apply and start_rx, src/modem.rs) and the interrupt line the    *)
(* loop waits on (run and act, src/bin/rnode.rs).                          *)
(*                                                                         *)
(* The numbers are scaled: a frequency is FreqDigits digits the editor     *)
(* shows and Fraction steps below them that it does not; a power, a        *)
(* spreading factor and a bandwidth are the constants' small ranges.  The  *)
(* loop waits for the chip, so a sequence of commands is one step, cut     *)
(* short at any command when the chip fails.                               *)
(***************************************************************************)
EXTENDS Lora, Sequences, FiniteSets, FiniteSetsExt

CONSTANTS
    SubGhz, HighFrequency,      \* the frequencies of the two bands
    Digits, Radix, Fraction,    \* FREQ_DIGITS, ten, and the hertz in a kilohertz
    U32Max,                     \* the largest frequency a u32 holds
    BANDWIDTHS, BANDWIDTHS_2G4, \* the chip's bandwidths on each band
    BandwidthSteps,             \* those the editor walks: more than the chip's
    SfMin, SfMax, SfSteps,      \* the chip's, and those a host can ask for
    CrMin, CrMax,               \* coding rates, as the denominator of 4/n
    LpMin, LpMax, HpMin, HpMax, HfMin, HfMax,   \* what each PA reaches, in dBm
    VbatAbove,                  \* VBAT_REQUIRED_ABOVE_DBM
    ModuleMax, ModuleMax2G4,    \* what the module is rated for
    DEFAULT, LANDING_2G4,       \* configurations
    HostFrames,                 \* setter frames: [cmd, bytes, value]
    StoredConfigs,              \* configurations the record may hold at boot
    None,
    MaxChanges,                 \* bound: settings changed
    MaxFaults                   \* bound: commands the chip fails

VARIABLES
    stage,      \* how far bring_up has come, "loop", or "radioless"
    chip,       \* the LR1121: its registers, mode, pending interrupts, clock
    config,     \* Protocol::config, the wanted values
    radio,      \* Protocol::state
    locked,     \* Protocol::locked
    stored,     \* the record's configuration, or None
    applied,    \* the loop's `applied`, or None
    receiving,  \* the loop's `receiving`
    host,       \* a host has the radio
    editor,     \* the panel's Editor, or None
    changes, faults

protocol == <<config, radio, locked, stored>>
modem == <<chip, applied, receiving>>
vars == <<stage, modem, protocol, host, editor, changes, faults>>

Fields == {"freq", "bw", "sf", "cr", "power"}

\* RadioConfig: three unsigned numbers, a denominator, and dBm
Config == [freq : Int, bw : Int, sf : Int, cr : Int, power : Int]

-----------------------------------------------------------------------------
(* The configuration *)

band_of(f) == CASE f \in SubGhz -> "SubGhz"
                [] f \in HighFrequency -> "HighFrequency"
                [] OTHER -> None

\* Mutation: one table of bandwidths for both bands.
Table_OneForBoth(band) == BANDWIDTHS \cup BANDWIDTHS_2G4

Table(band) == IF band = "SubGhz" THEN BANDWIDTHS ELSE BANDWIDTHS_2G4

module_max_dbm(band) == IF band = "SubGhz" THEN ModuleMax ELSE ModuleMax2G4

low_power_pa_accepts(dbm) == dbm \in LpMin..LpMax
high_power_pa_accepts(dbm) == dbm \in HpMin..HpMax
high_frequency_pa_accepts(dbm) == dbm \in HfMin..HfMax

\* More than the internal regulator can supply is a brown-out, not a refusal.
requires_vbat_supply(dbm) == dbm > VbatAbove

\* PaConfigWord: which of the three PAs, fed from VBAT or not, and its sizes
LOW_POWER == [pa_sel |-> 0, reg_pa_supply |-> 0, duty_cycle |-> 4, hp_sel |-> 0]
HIGH_FREQUENCY == [pa_sel |-> 2, reg_pa_supply |-> 0, duty_cycle |-> 4, hp_sel |-> 0]
high_power(dbm) ==
    [pa_sel |-> 1, reg_pa_supply |-> IF requires_vbat_supply(dbm) THEN 1 ELSE 0,
     duty_cycle |-> 4, hp_sel |-> 7]

\* The low-power PA wherever it reaches
pa_config_for(dbm) == CASE low_power_pa_accepts(dbm) -> LOW_POWER
                        [] ~low_power_pa_accepts(dbm) /\ high_power_pa_accepts(dbm)
                              -> high_power(dbm)
                        [] OTHER -> None

pa_config_in(band, dbm) == IF band = "SubGhz" THEN pa_config_for(dbm)
                           ELSE IF high_frequency_pa_accepts(dbm) THEN HIGH_FREQUENCY
                           ELSE None

\* Two tables of codes: sub-GHz from 3, 2.4 GHz from 13, each in its order.
bandwidth_code_in(band, bw) ==
    IF bw \notin Table(band) THEN None
    ELSE (IF band = "SubGhz" THEN 3 ELSE 13) + Cardinality({b \in Table(band) : b < bw})

\* Past 4 the chip would take the long interleaver's rates.
coding_rate_code(cr) == IF cr \in CrMin..CrMax THEN cr - 4 ELSE None

\* RadioConfig::check: the first reason, the band decided before the rest
check(c) ==
    LET band == band_of(c.freq)
        other == IF band = "SubGhz" THEN BANDWIDTHS_2G4 ELSE BANDWIDTHS
    IN  CASE band = None -> "FrequencyOutOfBand"
          [] band # None /\ c.bw \notin Table(band)
                -> IF c.bw \in other THEN "BandwidthNotInBand"
                                     ELSE "UnsupportedBandwidth"
          [] band # None /\ c.bw \in Table(band) /\ c.sf \notin SfMin..SfMax
                -> "SpreadingFactorOutOfRange"
          [] band # None /\ c.bw \in Table(band) /\ c.sf \in SfMin..SfMax
                /\ c.cr \notin CrMin..CrMax -> "CodingRateOutOfRange"
          [] OTHER -> CASE c.power > module_max_dbm(band)
                              -> IF band = "SubGhz" THEN "PowerAboveModuleRating"
                                                    ELSE "PowerAbove2G4Rating"
                        [] c.power <= module_max_dbm(band)
                              /\ pa_config_in(band, c.power) = None
                              -> "PowerUnreachable"
                        [] OTHER -> "Ok"
ValidConfig(c) == check(c) = "Ok"

\* ValidConfig's accessors, that have an answer even for what was not checked
Band(c) == IF band_of(c.freq) = None THEN "SubGhz" ELSE band_of(c.freq)
bandwidth_code(c) == LET code == bandwidth_code_in(band_of(c.freq), c.bw)
                     IN  IF band_of(c.freq) = None \/ code = None THEN 4 ELSE code
valid_coding_rate_code(c) ==
    IF coding_rate_code(c.cr) = None THEN 1 ELSE coding_rate_code(c.cr)
pa_config(c) == LET word == pa_config_in(band_of(c.freq), c.power)
                IN  IF band_of(c.freq) = None \/ word = None THEN LOW_POWER ELSE word

\* Three fields move together, and none if it is already there.
on_band(c, band) ==
    LET landing == IF band = "SubGhz" THEN DEFAULT ELSE LANDING_2G4
    IN  IF band_of(c.freq) = band THEN c
        ELSE [c EXCEPT !.freq = landing.freq, !.bw = landing.bw,
                       !.power = landing.power]

\* RadioConfig::apply
With(c, s) == IF s.field = "band" THEN on_band(c, s.value)
              ELSE [c EXCEPT ![s.field] = s.value]

\* What is asserted of the amplifiers and the bands when pa.rs is compiled
Ratings ==
    /\ ~requires_vbat_supply(LpMax) /\ HpMin < LpMax /\ LpMax < ModuleMax
    /\ high_power_pa_accepts(ModuleMax) /\ high_frequency_pa_accepts(ModuleMax2G4)
    /\ SubGhz \cap HighFrequency = {}

\* and, in config.rs, of what the board starts from and lands on
Landings ==
    /\ ValidConfig(DEFAULT) /\ band_of(DEFAULT.freq) = "SubGhz"
    /\ low_power_pa_accepts(DEFAULT.power)
    /\ ValidConfig(LANDING_2G4) /\ band_of(LANDING_2G4.freq) = "HighFrequency"
    /\ SfSteps \subseteq SfMin..SfMax

\* What the tables and constants of lr1121/config.rs, pa.rs and lora.rs, and
\* the u32 a frequency is, come to.
ASSUME RadioAssumption ==
    /\ SubGhz \subseteq Nat /\ HighFrequency \subseteq Nat
    /\ IsFiniteSet(BANDWIDTHS) /\ IsFiniteSet(BANDWIDTHS_2G4)
    /\ BANDWIDTHS \cup BANDWIDTHS_2G4 \subseteq Nat \ {0}
    /\ BANDWIDTHS \cap BANDWIDTHS_2G4 = {}
    /\ U32Max \in Nat \ (SubGhz \cup HighFrequency)
    /\ {Digits, Radix, Fraction} \subseteq Nat \ {0}
    /\ BandwidthSteps \cup SfSteps \subseteq 0..U32Max
    /\ {SfMin, SfMax, CrMin, CrMax} \subseteq Nat /\ CrMin > 4 /\ CrMax <= 8
    /\ {LpMin, LpMax, HpMin, HpMax, HfMin, HfMax, VbatAbove, ModuleMax, ModuleMax2G4}
         \subseteq Int
    /\ {DEFAULT, LANDING_2G4} \subseteq Config /\ StoredConfigs \subseteq Config
    /\ HostFrames \subseteq [cmd : Fields, bytes : Nat, value : Int]
    /\ None \notin {"SubGhz", "HighFrequency"} \cup Config \cup Int
    /\ None \notin [pa_sel : Int, reg_pa_supply : Int, duty_cycle : Int, hp_sel : Int]
    /\ Ratings /\ Landings

\* The places of the digits, as the proofs need them: they know nothing of ^.
ASSUME PlaceAssumption == \A n \in 0..(Digits - 1) : Radix ^ n \in Nat \ {0}

-----------------------------------------------------------------------------
(* The chip *)

\* The registers a configuration comes to
Registers(c) ==
    [freq |-> c.freq, table |-> Band(c), sf |-> c.sf, bw |-> bandwidth_code(c),
     cr |-> valid_coding_rate_code(c), ldro |-> low_data_rate_optimize(c.sf, c.bw),
     pa |-> pa_config(c), power |-> c.power]

\* What apply writes, command by command, once the chip is in standby
Order == <<{"freq"}, {"table"}, {"sf", "bw", "cr", "ldro"}, {"len"}, {"pa"}, {"power"}>>
Written(k) == UNION {Order[i] : i \in 1..k}

\* apply as far as its first k commands after standby
Programmed(ch, c, k) ==
    [ch EXCEPT !.mode = "standby",
               !.len = IF "len" \in Written(k) THEN "max" ELSE @,
               !.regs = [r \in DOMAIN @ |->
                            IF r \in Written(k) THEN Registers(c)[r] ELSE @[r]]]

\* Mutation: the symbol timeout of the listening windows is left in place.
Receiving_KeepsWindow(ch, k) ==
    [ch EXCEPT !.mode = IF k = 5 THEN "rx" ELSE IF k > 0 THEN "standby" ELSE @,
               !.len = IF k > 1 THEN "max" ELSE @,
               !.pending = IF k > 3 THEN {} ELSE @]

\* start_rx as far as its first k commands: standby, the length back to the
\* ceiling, no symbol timeout, the interrupts cleared, continuous receive
Receiving(ch, k) ==
    [ch EXCEPT !.mode = IF k = 5 THEN "rx" ELSE IF k > 0 THEN "standby" ELSE @,
               !.len = IF k > 1 THEN "max" ELSE @,
               !.window = IF k > 2 THEN FALSE ELSE @,
               !.pending = IF k > 3 THEN {} ELSE @]

\* A chip that fails a command may raise its error interrupt.
Faulty(ch) == {ch, [ch EXCEPT !.pending = @ \cup {"error"}]}
Fault == faults < MaxFaults /\ faults' = faults + 1

\* Mutation: what was applied before stays, though the chip is half changed.
ApplyFails_KeepsApplied(c) ==
    /\ Fault
    /\ \/ chip' \in Faulty(chip)
       \/ \E k \in 0..Len(Order) : chip' \in Faulty(Programmed(chip, c, k))
    /\ receiving' = FALSE
    /\ UNCHANGED applied

\* act(Reconfigure): a failed apply may have got anywhere
ApplyFails(c) ==
    /\ Fault
    /\ \/ chip' \in Faulty(chip)
       \/ \E k \in 0..Len(Order) : chip' \in Faulty(Programmed(chip, c, k))
    /\ applied' = None /\ receiving' = FALSE

StartRxFails(c) ==
    /\ Fault
    /\ \E k \in 0..5 :
        chip' \in Faulty(Receiving(Programmed(chip, c, Len(Order)), k))
    /\ receiving' = FALSE
    /\ UNCHANGED applied

Reconfigure(c) ==
    /\ \/ ApplyFails(c)
       \/ StartRxFails(c)
       \/ /\ chip' = Receiving(Programmed(chip, c, Len(Order)), 5)
          /\ applied' = c /\ receiving' = TRUE
          /\ UNCHANGED faults

\* act(Standby): a chip that does not answer is only logged.
Standby ==
    /\ \/ chip' = [chip EXCEPT !.mode = "standby"] /\ UNCHANGED faults
       \/ Fault /\ chip' \in Faulty(chip)
    /\ receiving' = FALSE
    /\ UNCHANGED applied

Untouched == UNCHANGED <<modem, faults>>

\* A board whose radio did not come up serves its hosts and its panel all the
\* same, and what they ask of the radio is an error or a line of the log.
Serving == stage \in {"loop", "radioless"}

Reprograms(c) == \/ stage # "radioless" /\ Reconfigure(c)
                 \/ stage = "radioless" /\ Untouched

Stops == \/ stage # "radioless" /\ Standby
         \/ stage = "radioless" /\ Untouched

-----------------------------------------------------------------------------
(* bring_up: each step waits for the chip, bounded, and a step that fails  *)
(* leaves the board to serve its hosts without a radio.                    *)

\* RadioReset::cycle and ResetVerdict: only a BUSY that never fell stops it
Reset ==
    /\ stage = "reset"
    /\ \E rose, fell \in BOOLEAN :
        /\ stage' = IF fell THEN "attach" ELSE "radioless"
        /\ chip' = [chip EXCEPT !.busy = ~fell]
    /\ UNCHANGED <<applied, receiving, protocol, host, editor, changes, faults>>

Step(from, to) == stage = from /\ stage' \in {to, "radioless"}

Attach ==
    /\ Step("attach", "clock")
    /\ UNCHANGED <<modem, protocol, host, editor, changes, faults>>

\* Mutation: the error flags alone are asked whether it runs.
clock_ok_Flags(errors, running) == ~errors

\* The flag may have been cleared by the calibration; the temperature is
\* timed by the oscillator, and absurd without it.
clock_ok(errors, running) == ~errors /\ running

\* SetTcxoMode and the calibration that has to follow it
Clock ==
    /\ stage = "clock"
    /\ \E running, errors \in BOOLEAN :
        /\ running => ~errors
        /\ chip' = [chip EXCEPT !.clock = running]
        /\ stage' \in {"radioless"} \cup
                (IF clock_ok(errors, running) THEN {"switch"} ELSE {})
    /\ UNCHANGED <<applied, receiving, protocol, host, editor, changes, faults>>

RfSwitch ==
    /\ Step("switch", "route")
    /\ chip' = IF stage' = "route" THEN [chip EXCEPT !.switch = TRUE] ELSE chip
    /\ UNCHANGED <<applied, receiving, protocol, host, editor, changes, faults>>

\* Cleared before they are routed; a line still high is not to be trusted.
Route ==
    /\ Step("route", "regulator")
    /\ chip' = IF stage' = "regulator" THEN [chip EXCEPT !.pending = {}] ELSE chip
    /\ UNCHANGED <<applied, receiving, protocol, host, editor, changes, faults>>

\* Mutation: what the record holds is applied as it is.
Resume_Unchecked ==
    /\ config' = stored
    /\ radio' = "on" /\ Reprograms(stored)
    /\ UNCHANGED <<locked, stored>>

\* The regulator may be refused; then TNC mode, from the record
Resume ==
    /\ config' = stored
    /\ \/ /\ ValidConfig(stored)
          /\ radio' = "on" /\ Reprograms(stored)
       \/ /\ ~ValidConfig(stored)
          /\ radio' = "off" /\ Untouched
    /\ UNCHANGED <<locked, stored>>

Regulator ==
    /\ stage = "regulator"
    /\ \/ stage' = "radioless" /\ UNCHANGED protocol /\ Untouched
       \/ /\ stage' = "loop"
          /\ \/ stored # None /\ Resume
             \/ stored = None /\ UNCHANGED protocol /\ Untouched
    /\ UNCHANGED <<host, editor, changes>>

-----------------------------------------------------------------------------
(* The interrupt line *)

DIO9_MASK == {"packet", "error"}
Asserted == chip.pending \cap DIO9_MASK # {}

\* A packet, with or without a CRC error, while the chip is in receive
ChipHears ==
    /\ chip.mode = "rx"
    /\ chip' = [chip EXCEPT !.pending = @ \cup {"packet"}]
    /\ UNCHANGED <<stage, applied, receiving, protocol, host, editor,
                   changes, faults>>

\* Mutation: a line nobody is receiving on is left alone.
Serve_Receiving ==
    /\ stage = "loop" /\ Asserted
    /\ chip' = IF receiving THEN [chip EXCEPT !.pending = {}] ELSE chip
    /\ UNCHANGED <<stage, applied, receiving, protocol, host, editor,
                   changes, faults>>

\* A pass that finds the line up: read_packet, or clear_interrupts when
\* nothing is receiving; either clears them all.
Serve ==
    /\ stage = "loop" /\ Asserted
    /\ chip' = [chip EXCEPT !.pending = {}]
    /\ UNCHANGED <<stage, applied, receiving, protocol, host, editor,
                   changes, faults>>

ServeFails ==
    /\ stage = "loop" /\ Asserted /\ Fault
    /\ UNCHANGED <<stage, modem, protocol, host, editor, changes>>

\* send_packet, for a host while the radio is on or for the node: a wait in
\* short receives, then perhaps a frame, then receive again if it was there
MaySend ==
    /\ stage = "loop" /\ applied # None
    /\ \/ host /\ radio = "on"
       \/ ~host /\ stored # None /\ receiving
Transmit ==
    /\ MaySend
    /\ \E went, listened \in BOOLEAN :
        LET after == [chip EXCEPT !.mode = "standby", !.pending = {},
                        !.window = @ \/ listened,
                        !.len = IF went THEN "one" ELSE IF listened THEN "max" ELSE @]
        IN  \/ ~receiving /\ chip' = after /\ UNCHANGED <<receiving, faults>>
            \/ receiving /\ chip' = Receiving(after, 5)
               /\ UNCHANGED <<receiving, faults>>
            \/ /\ receiving /\ receiving' = FALSE /\ Fault
               /\ \E k \in 0..5 : chip' \in Faulty(Receiving(after, k))
    /\ UNCHANGED <<stage, applied, protocol, host, editor, changes>>

-----------------------------------------------------------------------------
(* The protocol, for a host *)

Change == changes < MaxChanges /\ changes' = changes + 1

\* command::decode: a frame too short for its number is malformed.
decode(f) ==
    IF f.bytes < (IF f.cmd \in {"freq", "bw"} THEN 4 ELSE 1) THEN None
    ELSE [field |-> f.cmd, value |-> f.value]

HostSet ==
    /\ Serving /\ host
    /\ \E f \in HostFrames :
        IF decode(f) = None \/ locked THEN UNCHANGED <<config, changes>>
        ELSE config' = With(config, decode(f)) /\ Change
    /\ UNCHANGED <<stage, radio, locked, stored, modem, host, editor, faults>>

switch_on(c) ==
    \/ ValidConfig(c) /\ radio' = "on" /\ Reprograms(c)
    \/ ~ValidConfig(c) /\ radio' = "off" /\ Stops

HostRadioOn ==
    /\ Serving /\ host
    /\ switch_on(config)
    /\ UNCHANGED <<stage, config, locked, stored, host, editor, changes>>

\* CMD_RADIO_STATE off, and CMD_LEAVE
HostRadioOff ==
    /\ Serving /\ host
    /\ radio' = "off" /\ Stops
    /\ UNCHANGED <<stage, config, locked, stored, host, editor, changes>>

\* CMD_RADIO_LOCK, CMD_CONF_SAVE and CMD_CONF_DELETE
HostKeeps ==
    /\ Serving /\ host /\ Change
    /\ \/ locked' = ~locked /\ UNCHANGED stored
       \/ stored' \in {config, None} /\ UNCHANGED locked
    /\ UNCHANGED <<stage, config, radio, modem, host, editor, faults>>

HostComes ==
    /\ Serving /\ ~host
    /\ host' = TRUE
    /\ UNCHANGED <<stage, modem, protocol, editor, changes, faults>>

\* The last host has gone: back to the stored configuration, as at boot, but
\* not where there is no radio to put back
HostGoes ==
    /\ Serving /\ host
    /\ host' = FALSE
    /\ \/ stage = "loop" /\ stored # None /\ Resume
       \/ /\ stage = "radioless" \/ stored = None
          /\ UNCHANGED protocol /\ Untouched
    /\ UNCHANGED <<stage, editor, changes>>

-----------------------------------------------------------------------------
(* The panel's editor *)

EditFields == Fields \cup {"band"}

\* The band is its place on the dial, and below both where there is none.
value_in(field, c) ==
    IF field = "band"
    THEN CASE band_of(c.freq) = "SubGhz" -> 0
           [] band_of(c.freq) = "HighFrequency" -> 1
           [] OTHER -> 0 - 1
    ELSE c[field]
steps(field) == CASE field = "band" -> {0, 1}
                  [] field = "bw" -> BandwidthSteps
                  [] field = "sf" -> SfSteps
                  [] field = "cr" -> CrMin..CrMax
                  [] field = "power" -> HfMin..HpMax
                  [] OTHER -> {}

Place(cursor) == Radix ^ (Digits - cursor)
Digit(f, cursor) == ((f \div Fraction) \div Place(cursor)) % Radix

\* up and down: the next value of the set, or the digit under the cursor,
\* which goes round, with what is below the digits kept
Turned(e, by) ==
    LET above == {v \in steps(e.field) : v > e.candidate}
        below == {v \in steps(e.field) : v < e.candidate}
        d == Digit(e.candidate, e.cursor)
        to == (d + by) % Radix
    IN  CASE e.field = "freq"
                -> e.candidate + (to - d) * Place(e.cursor) * Fraction
          [] e.field # "freq" /\ by = 1
                -> IF above = {} THEN e.candidate ELSE Min(above)
          [] OTHER -> IF below = {} THEN e.candidate ELSE Max(below)

\* Mutation: the cast wraps.
setting_Wraps(e) ==
    [field |-> e.field,
     value |-> CASE e.field = "band" -> IF e.candidate = 1 THEN "HighFrequency" ELSE "SubGhz"
                 [] e.field = "freq" -> e.candidate % (U32Max + 1)
                 [] OTHER -> e.candidate]

\* Field::setting: a frequency past a u32 saturates.
setting(e) ==
    [field |-> e.field,
     value |-> CASE e.field = "band" -> IF e.candidate = 1 THEN "HighFrequency" ELSE "SubGhz"
                 [] e.field = "freq" -> IF e.candidate > U32Max THEN U32Max
                                                                ELSE e.candidate
                 [] OTHER -> e.candidate]

candidate_config(e) ==
    IF e.field = "band" /\ e.candidate < 0 THEN e.original
                                           ELSE With(e.original, setting(e))

Panel == Serving /\ UNCHANGED <<stage, host>>

\* Nobody has the radio: the editor gets a copy of the configuration.
Open ==
    /\ Panel /\ editor = None /\ ~host
    /\ \E field \in EditFields :
        editor' = [field |-> field, original |-> config, cursor |-> 1,
                   candidate |-> value_in(field, config)]
    /\ UNCHANGED <<modem, protocol, changes, faults>>

Turn ==
    /\ Panel /\ editor # None
    /\ \E by \in {1, Radix - 1} :
        editor' = [editor EXCEPT !.candidate = Turned(editor, by)]
    /\ UNCHANGED <<modem, protocol, changes, faults>>

Cursor ==
    /\ Panel /\ editor # None /\ editor.field = "freq"
    /\ \E c \in {editor.cursor - 1, editor.cursor + 1} \cap 1..Digits :
        editor' = [editor EXCEPT !.cursor = c]
    /\ UNCHANGED <<modem, protocol, changes, faults>>

Cancel ==
    /\ Panel /\ editor # None
    /\ editor' = None
    /\ UNCHANGED <<modem, protocol, changes, faults>>

\* set_from_panel: in TNC mode the stored configuration follows.
set_from_panel(s) ==
    \/ locked /\ UNCHANGED protocol /\ Untouched
    \/ /\ ~locked
       /\ config' = With(config, s)
       /\ stored' = IF stored = None THEN None ELSE config'
       /\ \/ radio = "on" /\ switch_on(config')
          \/ radio = "off" /\ UNCHANGED radio /\ Untouched
       /\ UNCHANGED locked

\* Mutation: what the editor holds is taken for valid.
confirmed_Always(e) == "Ok"

\* Editor::confirm asks what a host's configuration is asked.
confirmed(e) == check(candidate_config(e))

\* OK: refused, with the reason; or closed, and the loop carries it out
\* unless a host has come meanwhile.
Confirm ==
    /\ Panel /\ editor # None
    /\ IF confirmed(editor) # "Ok"
       THEN UNCHANGED <<editor, protocol, changes>> /\ Untouched
       ELSE /\ editor' = None
            /\ \/ host /\ UNCHANGED <<protocol, changes>> /\ Untouched
               \/ ~host /\ Change /\ set_from_panel(setting(editor))

PanelToggle ==
    /\ Panel /\ ~host /\ editor = None
    /\ \/ /\ radio = "on" /\ radio' = "off" /\ Stops
          /\ UNCHANGED <<config, locked, stored>>
       \/ radio = "off" /\ switch_on(config) /\ UNCHANGED <<config, locked, stored>>
    /\ UNCHANGED <<editor, changes>>

PanelSave ==
    /\ Panel /\ ~host /\ editor = None /\ Change
    /\ stored' = config
    /\ UNCHANGED <<modem, config, radio, locked, editor, faults>>

\* reset_from_panel: what the board boots with
PanelReset ==
    /\ Panel /\ ~host /\ editor = None /\ Change
    /\ \/ stored # None /\ Resume
       \/ /\ stored = None
          /\ config' = DEFAULT
          /\ \/ radio = "on" /\ switch_on(DEFAULT)
             \/ radio = "off" /\ UNCHANGED radio /\ Untouched
          /\ UNCHANGED <<locked, stored>>
    /\ UNCHANGED editor

-----------------------------------------------------------------------------
Boots == [freq |-> None, table |-> None, sf |-> None, bw |-> None, cr |-> None,
          ldro |-> None, pa |-> None, power |-> None]

Init ==
    /\ stage = "reset"
    /\ chip = [regs |-> Boots, mode |-> "standby", len |-> "max", window |-> FALSE,
               pending |-> {}, busy |-> TRUE, clock |-> FALSE, switch |-> FALSE]
    /\ config = DEFAULT /\ radio = "off" /\ locked = FALSE
    /\ stored \in StoredConfigs \cup {None}
    /\ applied = None /\ receiving = FALSE
    /\ host = FALSE /\ editor = None /\ changes = 0 /\ faults = 0

Next ==
    \/ Reset \/ Attach \/ Clock \/ RfSwitch \/ Route \/ Regulator
    \/ ChipHears \/ Serve \/ ServeFails \/ Transmit
    \/ HostSet \/ HostRadioOn \/ HostRadioOff \/ HostKeeps \/ HostComes \/ HostGoes
    \/ Open \/ Turn \/ Cursor \/ Cancel \/ Confirm
    \/ PanelToggle \/ PanelSave \/ PanelReset

\* The loop waits on the line with every pass, and a chip that fails a
\* command sooner or later does one.
Fairness == WF_vars(Serve)

Spec == Init /\ [][Next]_vars /\ Fairness

-----------------------------------------------------------------------------
(* Properties *)

\* Type correctness: the loop's beliefs are about valid configurations, and
\* an open editor holds a digit of its frequency or a value of its set.
TypeOK ==
    /\ config \in Config /\ stored \in Config \cup {None} /\ radio \in {"on", "off"}
    /\ applied = None \/ (applied \in Config /\ ValidConfig(applied))
    /\ receiving \in BOOLEAN /\ host \in BOOLEAN /\ locked \in BOOLEAN
    /\ chip.mode \in {"standby", "rx"} /\ chip.len \in {"max", "one"}
    /\ editor = None \/ (/\ editor.field \in EditFields /\ editor.cursor \in 1..Digits
                        /\ editor.original \in Config /\ editor.candidate \in Int)

\* No frame goes on the air from a chip that is half one configuration and
\* half another: frequency, bandwidth code, low-data-rate optimisation,
\* amplifier, its supply and its power are those of one configuration that was
\* valid, on one band and within the module's rating there, and none of them
\* an accessor's stand-in, however often programming failed.
AiredIsOneConfig ==
    MaySend =>
        LET r == chip.regs
        IN  /\ r.table = band_of(r.freq) /\ r.table # None
            /\ r.pa = pa_config_in(r.table, r.power)
            /\ r.power <= module_max_dbm(r.table)
            /\ \E b \in Table(r.table) :
                  r.bw = bandwidth_code_in(r.table, b) /\ r.ldro = low_data_rate_optimize(r.sf, b)
            /\ r.sf \in SfMin..SfMax /\ r.cr \in 1..4
            /\ (r.pa.pa_sel # 2 /\ requires_vbat_supply(r.power)) => r.pa.reg_pa_supply = 1

\* A loop that believes it is receiving is: the chip is in continuous receive
\* with every register of the configuration the loop believes in, its length
\* back at the ceiling and the listening windows' symbol timeout gone.
ReceivesAsApplied ==
    receiving =>
        /\ applied # None /\ chip.regs = Registers(applied)
        /\ chip.mode = "rx" /\ chip.len = "max" /\ ~chip.window

\* The radio is used only with its oscillator running and calibrated and its
\* antenna switch set, and nothing is said to a chip whose BUSY never fell.
UsedOnlyWhenUp ==
    /\ receiving \/ MaySend => chip.clock /\ chip.switch
    /\ stage \notin {"reset", "radioless"} => ~chip.busy

\* A line left up would be waited for at once and for ever: up with nothing
\* receiving, or after a failed read, it goes down again.
LineGoesDown == stage = "loop" /\ Asserted ~> ~Asserted

\* What is applied when an edit is confirmed is what the editor showed: the
\* frequency of its digits or the value of its set, and nothing else of the
\* configuration with it, except that a band brings its three.
AppliedAsShown ==
    [][(Confirm /\ config' # config) =>
        IF editor.field = "band"
        THEN /\ band_of(config'.freq) = (IF editor.candidate = 1 THEN "HighFrequency"
                                                                 ELSE "SubGhz")
             /\ config'.sf = config.sf /\ config'.cr = config.cr
        ELSE config' = [config EXCEPT ![editor.field] = editor.candidate]]_vars

\* An edit confirmed on the configuration the editor was opened on never
\* takes the radio off the air, nor leaves the board a stored configuration
\* it cannot boot with.
EditsKeepTheRadioOn ==
    [][(Confirm /\ editor' = None /\ config = editor.original)
        => /\ radio' = radio
           /\ config' # config => ValidConfig(config')
           /\ stored' # stored => ValidConfig(stored')]_vars

OneFieldStored ==
    stored' # stored => stored' = [stored EXCEPT ![editor.field] = config'[editor.field]]

\* With the radio up, an edit of one field changes that field of the stored
\* configuration and no other: what a host set and did not save is gone with
\* the host (set_from_panel, HostGoes).
EditsStoreOneField ==
    [][(stage = "loop" /\ Confirm /\ editor.field # "band") => OneFieldStored]_vars

\* The same on every board that serves its panel, "one parameter, changed from
\* the panel" (set_from_panel): it fails where the radio did not come up.
OneParameterIsStored ==
    [][(Confirm /\ editor.field # "band") => OneFieldStored]_vars

\* No order of one-field edits leads from one band to the other: the panel
\* crosses only by the band itself, and then frequency, bandwidth and power
\* land together on a configuration that is valid there.
CrossesWhole ==
    [][(Confirm /\ config = editor.original
            /\ band_of(config'.freq) # band_of(config.freq))
        => ValidConfig(config') /\
            (ValidConfig(config) => editor.field = "band")]_vars

\* The chip runs what the board believes it runs, and what was asked for.
RadioCorrect ==
    /\ [](TypeOK /\ AiredIsOneConfig /\ ReceivesAsApplied /\ UsedOnlyWhenUp)
    /\ AppliedAsShown /\ EditsKeepTheRadioOn /\ EditsStoreOneField /\ CrossesWhole
=============================================================================
