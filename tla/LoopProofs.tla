----------------------------- MODULE LoopProofs -----------------------------
(***************************************************************************)
(* Proofs about the modem loop's machines: the protocol and the radio      *)
(* (ModemLoop), the wait of a packet for the channel (Csma), who is        *)
(* present (Presence), the presses on the panel (Panel), and the four side *)
(* by side (MCModemLoop).                                                  *)
(***************************************************************************)
EXTENDS MCModemLoop, TLAPS, WellFoundedInduction, FiniteSetTheorems

-----------------------------------------------------------------------------
(* ModemLoop.  LoopInv is inductive as it stands: each of its parts        *)
(* survives every action on its own, given the types.                      *)

RadioInv == ReceivingIsTrue /\ OnlyValidProgrammed

LoopInv == TypeOK /\ RadioInv /\ SettledIsStored

(* act keeps what is said of the radio: programming a valid configuration, *)
(* however far it gets; standby; and a packet sent.                        *)
LEMMA ReconfigureInv ==
    ASSUME TypeOK, RadioInv, NEW c \in Valid, Reconfigure(c)
    PROVE  /\ applied' \in MaybeConfig /\ chip' \in MaybeConfig
           /\ receiving' \in BOOLEAN /\ listening' \in BOOLEAN
           /\ RadioInv'
BY LoopAssumption DEF TypeOK, RadioInv, ReceivingIsTrue, OnlyValidProgrammed,
                      Reconfigure, MaybeConfig

LEMMA StandbyInv ==
    ASSUME TypeOK, RadioInv, Standby
    PROVE  /\ applied' \in MaybeConfig /\ chip' \in MaybeConfig
           /\ receiving' \in BOOLEAN /\ listening' \in BOOLEAN
           /\ RadioInv'
BY DEF TypeOK, RadioInv, ReceivingIsTrue, OnlyValidProgrammed, Standby

LEMMA TransmitInv ==
    ASSUME TypeOK, RadioInv, Transmit
    PROVE  /\ applied' \in MaybeConfig /\ chip' \in MaybeConfig
           /\ receiving' \in BOOLEAN /\ listening' \in BOOLEAN
           /\ RadioInv'
<1>1. applied' = applied /\ chip' = chip
  BY DEF Transmit
<1>2. CASE receiving /\ listening' = TRUE /\ receiving' = receiving
  BY <1>1, <1>2 DEF TypeOK, RadioInv, ReceivingIsTrue, OnlyValidProgrammed
<1>3. CASE receiving /\ listening' \in BOOLEAN /\ receiving' = FALSE
  BY <1>1, <1>3 DEF TypeOK, RadioInv, ReceivingIsTrue, OnlyValidProgrammed
<1>4. CASE ~receiving /\ listening' = FALSE /\ receiving' = receiving
  BY <1>1, <1>4 DEF TypeOK, RadioInv, ReceivingIsTrue, OnlyValidProgrammed
<1> QED
  BY <1>2, <1>3, <1>4 DEF Transmit

LEMMA UnchangedInv ==
    ASSUME TypeOK, RadioInv, UNCHANGED modem
    PROVE  /\ applied' \in MaybeConfig /\ chip' \in MaybeConfig
           /\ receiving' \in BOOLEAN /\ listening' \in BOOLEAN
           /\ RadioInv'
BY DEF TypeOK, RadioInv, ReceivingIsTrue, OnlyValidProgrammed, modem

LEMMA SwitchOnInv ==
    ASSUME TypeOK, RadioInv, NEW c \in Configs, SwitchOn(c)
    PROVE  /\ applied' \in MaybeConfig /\ chip' \in MaybeConfig
           /\ receiving' \in BOOLEAN /\ listening' \in BOOLEAN
           /\ radio' \in {"on", "off"}
           /\ RadioInv'
BY ReconfigureInv, StandbyInv DEF SwitchOn

LEMMA ResumeInv ==
    ASSUME TypeOK, RadioInv, Resume
    PROVE  /\ applied' \in MaybeConfig /\ chip' \in MaybeConfig
           /\ receiving' \in BOOLEAN /\ listening' \in BOOLEAN
           /\ radio' \in {"on", "off"}
           /\ RadioInv'
BY ReconfigureInv, UnchangedInv DEF Resume

(* A write to the record sets the timer going, so nothing is settled.      *)
LEMMA WriteInv ==
    ASSUME TypeOK, NEW c \in MaybeConfig, Write(c)
    PROVE  /\ record' \in MaybeConfig /\ flash' \in MaybeConfig
           /\ dirty' \in BOOLEAN /\ failed' \in BOOLEAN
           /\ SettledIsStored'
BY DEF TypeOK, Write, SettledIsStored

LEMMA NotRecordInv ==
    ASSUME TypeOK, SettledIsStored, UNCHANGED <<record, storage>>
    PROVE  /\ record' \in MaybeConfig /\ flash' \in MaybeConfig
           /\ dirty' \in BOOLEAN /\ failed' \in BOOLEAN
           /\ SettledIsStored'
BY DEF TypeOK, storage, SettledIsStored

LEMMA BootInv ==
    ASSUME TypeOK, NEW stored \in MaybeConfig, Boot(stored)
    PROVE  LoopInv'
BY LoopAssumption DEF TypeOK, Boot, BootConfig, LoopInv, RadioInv, ReceivingIsTrue,
                      OnlyValidProgrammed, SettledIsStored, MaybeConfig

LEMMA LoopInitInv == Init => LoopInv
BY LoopAssumption DEF Init, LoopInv, TypeOK, RadioInv, ReceivingIsTrue,
                      OnlyValidProgrammed, SettledIsStored, MaybeConfig

(* What the actions have in common: the types of what a command, an        *)
(* observation and a panel action leave alone.                             *)
LEMMA CommandFacts ==
    ASSUME TypeOK, Command
    PROVE  /\ phase' \in {"host", "node", "panel", "persist"}
           /\ host' \in BOOLEAN /\ spoke' \in BOOLEAN /\ line' \in BOOLEAN
BY DEF TypeOK, Command

(* Every command a host can send keeps LoopInv. *)
LEMMA CommandInv ==
    ASSUME LoopInv,
           \/ \E c \in Configs : Set(c)
           \/ \E b \in BOOLEAN : SetRadioLock(b)
           \/ RadioOn \/ RadioOff \/ Data \/ SaveConfig \/ DeleteConfig
           \/ \E c \in MaybeConfig : WriteRom(c)
    PROVE  LoopInv'
<1> USE DEF LoopInv
<1>1. ASSUME NEW c \in Configs, Set(c) PROVE LoopInv'
  <2>1. config' \in Configs /\ radio' = radio /\ locked' = locked
    BY <1>1 DEF Set, Put, TypeOK
  <2> QED
    BY <1>1, <2>1, CommandFacts, UnchangedInv, NotRecordInv DEF Set, NotRecord, TypeOK
<1>2. ASSUME NEW b \in BOOLEAN, SetRadioLock(b) PROVE LoopInv'
  BY <1>2, CommandFacts, UnchangedInv, NotRecordInv DEF SetRadioLock, NotRecord, TypeOK
<1>3. CASE RadioOn
  <2>1. config \in Configs
    BY DEF TypeOK
  <2> QED
    BY <1>3, <2>1, CommandFacts, SwitchOnInv, NotRecordInv DEF RadioOn, NotRecord, TypeOK
<1>4. CASE RadioOff
  BY <1>4, CommandFacts, StandbyInv, NotRecordInv DEF RadioOff, NotRecord, TypeOK
<1>5. CASE Data
  <2>1. UNCHANGED <<record, storage>> /\ UNCHANGED <<config, radio, locked>>
    BY <1>5 DEF Data, protocol, storage
  <2>2. Transmit \/ UNCHANGED modem
    BY <1>5 DEF Data
  <2> QED
    BY <1>5, <2>1, <2>2, CommandFacts, TransmitInv, UnchangedInv, NotRecordInv
       DEF Data, TypeOK
<1>6. CASE SaveConfig
  <2>1. config \in MaybeConfig
    BY DEF TypeOK, MaybeConfig
  <2> QED
    BY <1>6, <2>1, CommandFacts, WriteInv, UnchangedInv DEF SaveConfig, TypeOK
<1>7. CASE DeleteConfig
  <2>1. NoConfig \in MaybeConfig
    BY DEF MaybeConfig
  <2> QED
    BY <1>7, <2>1, CommandFacts, WriteInv, UnchangedInv DEF DeleteConfig, TypeOK
<1>8. ASSUME NEW c \in MaybeConfig, WriteRom(c) PROVE LoopInv'
  BY <1>8, CommandFacts, WriteInv, UnchangedInv DEF WriteRom, TypeOK
<1> QED
  BY <1>1, <1>2, <1>3, <1>4, <1>5, <1>6, <1>7, <1>8

(* A stored configuration that is resumed is one of the configurations. *)
LEMMA StoredIsConfig ==
    ASSUME TypeOK, is_tnc
    PROVE  record \in Configs
BY DEF TypeOK, is_tnc, MaybeConfig

(* So does what follows the commands in a pass. *)
LEMMA PassInv ==
    ASSUME LoopInv,
           \/ HostStays \/ HostLeft \/ NodeSend \/ NodeQuiet
           \/ PanelDone \/ Commit \/ NoCommit \/ Line
    PROVE  LoopInv'
<1> USE DEF LoopInv
<1>1. CASE HostStays
  <2>1. host' \in BOOLEAN
    BY <1>1 DEF HostStays, TypeOK
  <2> QED
    BY <1>1, <2>1, UnchangedInv, NotRecordInv DEF HostStays, Observe, TypeOK
<1>2. CASE HostLeft
  <2>1. UNCHANGED <<record, storage>> /\ phase' = "node" /\ spoke' = FALSE
        /\ line' = line /\ locked' = locked /\ host' = FALSE
    BY <1>2 DEF HostLeft, Observe
  <2>2. CASE is_tnc
    <3>1. Resume
      BY <1>2, <2>2 DEF HostLeft
    <3>2. config' \in Configs
      BY <3>1, <2>2, StoredIsConfig DEF Resume
    <3> QED
      BY <2>1, <3>1, <3>2, ResumeInv, NotRecordInv DEF TypeOK
  <2>3. CASE ~is_tnc
    <3>1. UNCHANGED <<config, radio, modem>>
      BY <1>2, <2>3 DEF HostLeft
    <3> QED
      BY <2>1, <3>1, UnchangedInv, NotRecordInv DEF TypeOK
  <2> QED
    BY <2>2, <2>3
<1>3. CASE NodeSend
  <2>1. /\ UNCHANGED <<config, radio, locked>> /\ UNCHANGED <<record, storage>>
        /\ UNCHANGED <<host, spoke, line>> /\ phase' = "panel" /\ Transmit
    BY <1>3 DEF NodeSend, protocol, presence
  <2> QED
    BY <2>1, TransmitInv, NotRecordInv DEF TypeOK
<1>4. ASSUME NodeQuiet \/ PanelDone \/ NoCommit \/ Line PROVE LoopInv'
  <2>1. /\ UNCHANGED <<config, radio, locked>> /\ UNCHANGED <<record, storage>>
        /\ UNCHANGED <<host, spoke>> /\ UNCHANGED modem
    BY <1>4 DEF NodeQuiet, PanelDone, NoCommit, Line, protocol, presence
  <2>2. phase' \in {"host", "node", "panel", "persist"} /\ line' \in BOOLEAN
    BY <1>4 DEF NodeQuiet, PanelDone, NoCommit, Line, presence, TypeOK
  <2> QED
    BY <2>1, <2>2, UnchangedInv, NotRecordInv DEF TypeOK
<1>5. CASE Commit
  <2>1. /\ UNCHANGED <<config, radio, locked, record>>
        /\ UNCHANGED <<host, spoke, line>> /\ UNCHANGED modem
        /\ phase' = "host" /\ dirty' = FALSE
    BY <1>5 DEF Commit, protocol, presence
  <2>2. flash' \in MaybeConfig /\ failed' \in BOOLEAN /\ (failed' \/ flash' = record)
    BY <1>5 DEF Commit, Save, TypeOK, MaybeConfig
  <2> QED
    BY <2>1, <2>2, UnchangedInv DEF TypeOK, SettledIsStored
<1> QED
  BY <1>1, <1>2, <1>3, <1>4, <1>5

(* So does the panel. *)
LEMMA PanelInv ==
    ASSUME LoopInv,
           \/ \E c \in Configs : PanelSet(c)
           \/ PanelToggle \/ PanelSave \/ PanelReset \/ OtherWrite
    PROVE  LoopInv'
<1> USE DEF LoopInv
<1> DEFINE Same == UNCHANGED <<phase, host, spoke, line, locked>>
<1>0. Panel => Same
  BY DEF Panel, presence
<1>1. ASSUME NEW c \in Configs, PanelSet(c) PROVE LoopInv'
  <2>1. Same /\ config' = c
    BY <1>1, <1>0 DEF PanelSet
  <2>2. /\ applied' \in MaybeConfig /\ chip' \in MaybeConfig
        /\ receiving' \in BOOLEAN /\ listening' \in BOOLEAN
        /\ radio' \in {"on", "off"} /\ RadioInv'
    <3>1. CASE radio = "on"
      BY <1>1, <3>1, SwitchOnInv DEF PanelSet
    <3>2. CASE radio # "on"
      BY <1>1, <3>2, UnchangedInv DEF PanelSet, TypeOK
    <3> QED
      BY <3>1, <3>2
  <2>3. /\ record' \in MaybeConfig /\ flash' \in MaybeConfig
        /\ dirty' \in BOOLEAN /\ failed' \in BOOLEAN /\ SettledIsStored'
    <3>1. c \in MaybeConfig
      BY DEF MaybeConfig
    <3> QED
      BY <1>1, <3>1, WriteInv, NotRecordInv DEF PanelSet, NotRecord
  <2> QED
    BY <2>1, <2>2, <2>3 DEF TypeOK
<1>2. CASE PanelToggle
  <2>1. Same /\ config' = config /\ UNCHANGED <<record, storage>>
    BY <1>2, <1>0 DEF PanelToggle, NotRecord
  <2>2. CASE radio = "on"
    <3>1. radio' = "off" /\ Standby
      BY <1>2, <2>2 DEF PanelToggle
    <3> QED
      BY <2>1, <3>1, StandbyInv, NotRecordInv DEF TypeOK
  <2>3. CASE radio # "on"
    <3>1. SwitchOn(config) /\ config \in Configs
      BY <1>2, <2>3 DEF PanelToggle, TypeOK
    <3> QED
      BY <2>1, <3>1, SwitchOnInv, NotRecordInv DEF TypeOK
  <2> QED
    BY <2>2, <2>3
<1>3. CASE PanelSave
  <2>1. config \in MaybeConfig
    BY DEF TypeOK, MaybeConfig
  <2> QED
    BY <1>3, <1>0, <2>1, WriteInv, UnchangedInv DEF PanelSave, TypeOK
<1>4. CASE PanelReset
  <2>1. Same /\ UNCHANGED <<record, storage>>
    BY <1>4, <1>0 DEF PanelReset, NotRecord
  <2>2. CASE is_tnc /\ Resume
    <3>1. config' \in Configs
      BY <2>2, StoredIsConfig DEF Resume
    <3> QED
      BY <2>1, <2>2, <3>1, ResumeInv, NotRecordInv DEF TypeOK
  <2>3. CASE /\ config' = Default
             /\ IF radio = "on" THEN SwitchOn(Default) ELSE UNCHANGED <<radio, modem>>
    <3>1. Default \in Configs
      BY LoopAssumption
    <3>2. CASE radio = "on"
      BY <2>1, <2>3, <3>1, <3>2, SwitchOnInv, NotRecordInv DEF TypeOK
    <3>3. CASE radio # "on"
      BY <2>1, <2>3, <3>1, <3>3, UnchangedInv, NotRecordInv DEF TypeOK
    <3> QED
      BY <3>2, <3>3
  <2> QED
    BY <1>4, <2>2, <2>3 DEF PanelReset
<1>5. CASE OtherWrite
  <2>1. record \in MaybeConfig
    BY DEF TypeOK
  <2> QED
    BY <1>5, <1>0, <2>1, WriteInv, UnchangedInv DEF OtherWrite, TypeOK
<1> QED
  BY <1>1, <1>2, <1>3, <1>4, <1>5

LEMMA RestartInv ==
    ASSUME LoopInv, Reset \/ PowerLoss
    PROVE  LoopInv'
<1>1. PICK stored \in MaybeConfig : Boot(stored)
  BY DEF Reset, PowerLoss, LoopInv, TypeOK, MaybeConfig
<1> QED
  BY <1>1, BootInv DEF LoopInv

LEMMA LoopNextInv ==
    ASSUME LoopInv, [Next]_vars
    PROVE  LoopInv'
<1>1. CASE Next
  BY <1>1, CommandInv, PassInv, PanelInv, RestartInv DEF Next
<1>2. CASE UNCHANGED vars
  <2>1. /\ UNCHANGED <<phase, config, radio, locked>> /\ UNCHANGED <<record, storage>>
        /\ UNCHANGED modem /\ UNCHANGED <<host, spoke, line>>
    BY <1>2 DEF vars, protocol, presence
  <2> QED
    BY <2>1, UnchangedInv, NotRecordInv DEF LoopInv, TypeOK
<1> QED
  BY <1>1, <1>2

LEMMA LoopSpecInv == Spec => []LoopInv
BY LoopInitInv, LoopNextInv, PTL DEF Spec

(* Every variable of the loop keeps its type. *)
THEOREM LoopTypeCorrect == Spec => []TypeOK
BY LoopSpecInv, PTL DEF LoopInv

(* The loop is never wrong that the radio is receiving, nor on what, for   *)
(* every set of configurations: whatever of act and send_packet fails.     *)
THEOREM NeverWrongAboutReceiving == Spec => []ReceivingIsTrue
BY LoopSpecInv, PTL DEF LoopInv, RadioInv

(* The chip is only ever given a configuration that validates. *)
THEOREM NeverProgramsInvalid == Spec => []OnlyValidProgrammed
BY LoopSpecInv, PTL DEF LoopInv, RadioInv

(* A record with no write pending, and none failed, is in the flash. *)
THEOREM SettledRecordIsStored == Spec => []SettledIsStored
BY LoopSpecInv, PTL DEF LoopInv

(* Each action of a pass keeps StandaloneWantsStored when no frame outlives *)
(* its link: a host's changes end with the host, and the panel's are       *)
(* stored as they are made.                                                *)
LEMMA StandaloneStep ==
    ASSUME LateFrames = FALSE, TypeOK, StandaloneWantsStored, [Next]_vars
    PROVE  StandaloneWantsStored'
<1> USE DEF StandaloneWantsStored, IsNode, is_tnc
<1>1. ASSUME Command PROVE StandaloneWantsStored'
  BY <1>1 DEF Command
<1>2. CASE HostStays
  BY <1>2 DEF HostStays, Observe, TypeOK
<1>3. CASE HostLeft
  BY <1>3 DEF HostLeft, Observe, Resume, TypeOK
<1>4. ASSUME UNCHANGED <<config, record, host, spoke>> PROVE StandaloneWantsStored'
  BY <1>4
<1>5. ASSUME NEW c \in Configs, PanelSet(c) PROVE StandaloneWantsStored'
  BY <1>5 DEF PanelSet, Write, NotRecord
<1>6. CASE PanelSave
  BY <1>6 DEF PanelSave, Write
<1>7. CASE PanelReset
  BY <1>7 DEF PanelReset, Resume, NotRecord
<1>8. CASE OtherWrite
  BY <1>8, <1>4 DEF OtherWrite, Write, Panel, presence
<1>9. CASE PanelToggle
  BY <1>9, <1>4 DEF PanelToggle, NotRecord, Panel, presence
<1>10. ASSUME NEW stored, Boot(stored) PROVE StandaloneWantsStored'
  BY <1>10 DEF Boot, BootConfig
<1>11. ASSUME NodeSend \/ NodeQuiet \/ PanelDone \/ Commit \/ NoCommit \/ Line
              \/ UNCHANGED vars
       PROVE  StandaloneWantsStored'
  BY <1>11, <1>4 DEF NodeSend, NodeQuiet, PanelDone, Commit, NoCommit, Line, vars,
                     protocol, presence
<1>12. ASSUME Reset \/ PowerLoss PROVE StandaloneWantsStored'
  BY <1>12, <1>10 DEF Reset, PowerLoss
<1> QED
  BY <1>1, <1>2, <1>3, <1>5, <1>6, <1>7, <1>8, <1>9, <1>11, <1>12
     DEF Next, Set, SetRadioLock, RadioOn, RadioOff, Data, SaveConfig, DeleteConfig,
         WriteRom

(* If no frame is read after its link has gone, a board on its own always  *)
(* wants the configuration it has stored.                                  *)
THEOREM StandaloneConfiguration ==
    ASSUME LateFrames = FALSE
    PROVE  Spec => []StandaloneWantsStored
<1>1. Init => StandaloneWantsStored
  BY DEF Init, StandaloneWantsStored, IsNode, is_tnc
<1>2. TypeOK /\ StandaloneWantsStored /\ [Next]_vars => StandaloneWantsStored'
  BY StandaloneStep
<1> QED
  BY <1>1, <1>2, LoopTypeCorrect, PTL DEF Spec

(* A step under a lock changes the wanted configuration only back to what  *)
(* the board boots with.                                                   *)
LEMMA LockedStep ==
    ASSUME TypeOK, Next, locked, config' # config
    PROVE  config' \in {record', Default}
<1>1. ASSUME NEW c \in Configs, Set(c) PROVE FALSE
  BY <1>1 DEF Set, Put
<1>2. ASSUME NEW c \in Configs, PanelSet(c) PROVE FALSE
  BY <1>2 DEF PanelSet
<1>3. CASE HostLeft
  BY <1>3 DEF HostLeft, Observe, Resume
<1>4. CASE PanelReset
  BY <1>4 DEF PanelReset, Resume, NotRecord
<1>5. CASE Reset \/ PowerLoss
  BY <1>5 DEF Reset, PowerLoss, Boot, BootConfig
<1>6. ASSUME \/ RadioOn \/ RadioOff \/ Data \/ SaveConfig \/ DeleteConfig \/ HostStays
             \/ \E b \in BOOLEAN : SetRadioLock(b)
             \/ \E c \in MaybeConfig : WriteRom(c)
      PROVE  FALSE
  BY <1>6 DEF RadioOn, RadioOff, Data, SaveConfig, DeleteConfig, HostStays, SetRadioLock,
              WriteRom, protocol
<1>7. ASSUME \/ NodeSend \/ NodeQuiet \/ PanelToggle \/ PanelSave \/ OtherWrite
             \/ PanelDone \/ Commit \/ NoCommit \/ Line
      PROVE  FALSE
  BY <1>7 DEF NodeSend, NodeQuiet, PanelToggle, PanelSave, OtherWrite, PanelDone, Commit,
              NoCommit, Line, protocol
<1> QED
  BY <1>1, <1>2, <1>3, <1>4, <1>5, <1>6, <1>7 DEF Next

(* A locked device keeps its configuration against hosts and the panel's   *)
(* editors alike.                                                          *)
THEOREM LockKept == Spec => LockedOnlyGoesBack
<1>1. TypeOK /\ [Next]_vars => [locked /\ config' # config => config' \in {record', Default}]_vars
  BY LockedStep
<1> QED
  BY <1>1, LoopTypeCorrect, PTL DEF Spec, LockedOnlyGoesBack

-----------------------------------------------------------------------------
(* Csma.  GoesOnAClearChannel is not inductive: it needs that the run of   *)
(* clear senses Backoff counts is a run of the channel, and that the number *)
(* it is measured against is the window drawn last.                        *)

Numbers ==
    /\ draws \in Window /\ need \in Nat /\ run \in Nat
    /\ waited \in Nat /\ quiet \in Nat

Places ==
    /\ pc \in {"idle", "sense", "listen", "send", "second", "return"}
    /\ frames \in {1, 2} /\ overheard \in 0..MaxHeard
    /\ rate \in Rates /\ length \in Lengths

CsmaFlags == forced \in BOOLEAN /\ believed \in BOOLEAN /\ listens \in BOOLEAN

(* The two runs, the window drawn, and how far the wait has got. *)
Counts ==
    /\ run <= quiet
    /\ need = Difs + draws
    /\ waited < Budget + Slot

ForcedWhenSpent == forced => Spent

CsmaInv ==
    /\ Numbers /\ Places /\ CsmaFlags /\ Counts /\ ForcedWhenSpent
    /\ GoesOnAClearChannel /\ NeverDeaf

(* Whatever the configuration and the length, an airtime is a number, and  *)
(* the slot and the budget are within their bounds.                        *)
LEMMA AirtimeIsNumber ==
    ASSUME NEW r \in Rates, NEW n \in Nat
    PROVE  airtime(r, n) \in Int
<1>1. r.sf \in Nat /\ r.cr \in Nat /\ r.preamble \in Nat /\ r.sf > 2
  BY CsmaAssumption
<1> DEFINE t == symbol_time(r.sf, r.bw)
           ldro == low_data_rate_optimize(r.sf, r.bw)
           sf == r.sf
           pre == r.preamble
           cr == r.cr
<1>2. t \in Nat
  BY CsmaAssumption
<1> DEFINE block == 4 * (sf - IF ldro THEN 2 ELSE 0)
           bits == 8 * n - 4 * sf + 28 + 16
           q == (bits + block - 1) \div block
<1>3. block \in Int /\ block > 0 /\ bits \in Int
  BY <1>1
<1>4. q \in Int
  <2> HIDE DEF block, bits
  <2> QED
    BY <1>3
<1> DEFINE blocks == IF bits <= 0 THEN 0 ELSE q
<1>5. payload_symbols(r, n) = 8 + blocks * (cr + 4)
  BY DEF payload_symbols
<1>6. airtime(r, n) = ((4 * pre + 17) * t) \div 4 + payload_symbols(r, n) * t
  BY DEF airtime
<1>7. blocks \in Int /\ cr \in Int /\ pre \in Int
  <2> HIDE DEF bits, q
  <2> QED
    BY <1>1, <1>4
<1> HIDE DEF blocks, t, cr, pre
<1>8. payload_symbols(r, n) \in Int
  BY <1>5, <1>7
<1> QED
  BY <1>2, <1>6, <1>7, <1>8

LEMMA BetweenFacts ==
    ASSUME NEW low \in Nat, NEW x \in Int, NEW high \in Nat, low <= high
    PROVE  /\ Between(low, x, high) \in low..high
           /\ Between(low, x, high) >= x \/ Between(low, x, high) = high
BY DEF Between

LEMMA SlotBudget ==
    ASSUME Places
    PROVE  /\ Slot \in Nat \ {0} /\ Slot <= SlotMax
           /\ Budget \in Nat /\ BudgetMin <= Budget /\ Budget <= BudgetMax
           /\ Budget >= Airtimes * airtime(rate, length) \/ Budget = BudgetMax
<1>1. length \in Nat /\ rate \in Rates
  BY CsmaAssumption DEF Places
<1> DEFINE s == SlotSymbols * symbol_time(rate.sf, rate.bw)
           b == Airtimes * airtime(rate, length)
<1>2. s \in Int
  <2>1. symbol_time(rate.sf, rate.bw) \in Nat
    BY <1>1, CsmaAssumption
  <2> QED
    BY <2>1, CsmaAssumption
<1>3. b \in Int
  <2>1. airtime(rate, length) \in Int
    BY <1>1, AirtimeIsNumber
  <2> QED
    BY <2>1, CsmaAssumption
<1>4. Slot = Between(SlotMin, s, SlotMax) /\ Budget = Between(BudgetMin, b, BudgetMax)
  BY DEF Slot, Budget
<1> HIDE DEF s, b
<1>5. Slot \in SlotMin..SlotMax /\ Budget \in BudgetMin..BudgetMax
      /\ (Budget >= b \/ Budget = BudgetMax)
  BY <1>2, <1>3, <1>4, BetweenFacts, CsmaAssumption
<1> QED
  BY <1>5, CsmaAssumption DEF b

(* The same after a step. *)
LEMMA SlotBudgetNext == (Places => 0 < Budget + Slot)'
<1>1. Places => 0 < Budget + Slot
  BY SlotBudget
<1> QED
  BY <1>1, PTL

(* What a window can draw. *)
LEMMA NeedFacts ==
    ASSUME NEW d \in Window
    PROVE  d \in Nat /\ Difs + d \in Nat
BY CsmaAssumption DEF Window

(* A clear sense lengthens both runs; with enough of them the packet goes. *)
LEMMA ClearSenseInv ==
    ASSUME Numbers, Places, Counts, CsmaFlags, ForcedWhenSpent, ClearSense, UNCHANGED packet
    PROVE  /\ Numbers' /\ Counts' /\ ForcedWhenSpent' /\ forced' \in BOOLEAN
           /\ pc' \in {"send", "listen"}
           /\ pc' = "send" => forced' \/ quiet' >= Difs + draws'
<1>s. /\ Slot \in Nat /\ Budget \in Nat
      /\ Slot' = Slot /\ Budget' = Budget
  BY SlotBudget DEF packet, Slot, Budget
<1>1. run' = run + 1 /\ quiet' = quiet + 1 /\ need' = need /\ draws' = draws
  BY DEF ClearSense
<1>2. CASE Enough /\ pc' = "send" /\ waited' = waited /\ forced' = forced
  <2>1. quiet' >= Difs + draws'
    BY <1>1, <1>2, CsmaAssumption DEF Numbers, Counts, Enough, Window
  <2>2. Numbers' /\ Counts'
    BY <1>1, <1>2, <1>s, CsmaAssumption DEF Numbers, Counts, Window
  <2> QED
    BY <1>2, <1>s, <2>1, <2>2 DEF CsmaFlags, ForcedWhenSpent, Spent
<1>3. CASE Spent /\ pc' = "send" /\ waited' = waited /\ forced' = TRUE
  <2>1. Numbers' /\ Counts'
    BY <1>1, <1>3, <1>s, CsmaAssumption DEF Numbers, Counts, Window
  <2> QED
    BY <1>3, <1>s, <2>1 DEF ForcedWhenSpent, Spent
<1>4. CASE ~Spent /\ pc' = "listen" /\ waited' = waited + Slot /\ forced' = forced
  <2>1. Numbers' /\ Counts'
    BY <1>1, <1>4, <1>s, CsmaAssumption DEF Numbers, Counts, Window, Spent
  <2>2. ~forced
    BY <1>4 DEF ForcedWhenSpent
  <2> QED
    BY <1>4, <2>1, <2>2 DEF ForcedWhenSpent, CsmaFlags
<1> QED
  BY <1>2, <1>3, <1>4 DEF ClearSense, SlotCounted

(* A busy one ends both, and only a spent budget sends from there. *)
LEMMA BusySenseInv ==
    ASSUME Numbers, Places, Counts, CsmaFlags, ForcedWhenSpent, UNCHANGED packet,
           NEW after, NEW spent, BusySense(after, spent)
    PROVE  /\ Numbers' /\ Counts' /\ ForcedWhenSpent' /\ forced' \in BOOLEAN
           /\ pc' = after \/ (pc' = spent /\ forced')
<1>s. /\ Slot \in Nat /\ Budget \in Nat
      /\ Slot' = Slot /\ Budget' = Budget
  BY SlotBudget DEF packet, Slot, Budget
<1>1. run' = 0 /\ quiet' = 0 /\ draws' \in Window /\ need' = Difs + draws'
  BY DEF BusySense, ResetRun
<1>2. CASE Spent /\ pc' = spent /\ waited' = waited /\ forced' = TRUE
  <2>1. Numbers' /\ Counts'
    BY <1>1, <1>2, <1>s, NeedFacts DEF Numbers, Counts
  <2> QED
    BY <1>2, <1>s, <2>1 DEF ForcedWhenSpent, Spent
<1>3. CASE ~Spent /\ pc' = after /\ waited' = waited + Slot /\ forced' = forced
  <2>1. waited' \in Nat /\ waited' < Budget + Slot
    BY <1>3, <1>s DEF Numbers, Spent
  <2>3. Numbers' /\ Counts'
    BY <1>1, <1>s, <2>1, NeedFacts DEF Numbers, Counts
  <2>2. ~forced
    BY <1>3 DEF ForcedWhenSpent
  <2> QED
    BY <1>3, <2>3, <2>2 DEF ForcedWhenSpent, CsmaFlags
<1> QED
  BY <1>2, <1>3 DEF BusySense, SlotCounted

LEMMA CsmaInitInv == CsmaInit => CsmaInv
<1> SUFFICES ASSUME CsmaInit PROVE CsmaInv
  OBVIOUS
<1>2. Places
  BY CsmaAssumption DEF CsmaInit, Places
<1>1. Numbers /\ Counts
  BY <1>2, SlotBudget, CsmaAssumption DEF CsmaInit, Numbers, Counts, Window
<1>3. CsmaFlags /\ ForcedWhenSpent /\ NeverDeaf
  BY DEF CsmaInit, CsmaFlags, ForcedWhenSpent, NeverDeaf
<1>4. GoesOnAClearChannel
  BY DEF CsmaInit, GoesOnAClearChannel
<1> QED
  BY <1>1, <1>2, <1>3, <1>4 DEF CsmaInv

(* What a step does that leaves the backoff alone. *)
LEMMA BackoffUnchanged ==
    ASSUME CsmaInv, UNCHANGED <<need, run, waited, forced, draws, quiet, overheard, packet>>
    PROVE  /\ Numbers' /\ Counts' /\ ForcedWhenSpent' /\ overheard' \in 0..MaxHeard
           /\ frames' \in {1, 2} /\ rate' \in Rates /\ length' \in Lengths
           /\ forced' \in BOOLEAN
<1>1. Slot' = Slot /\ Budget' = Budget
  BY DEF packet, Slot, Budget
<1> QED
  BY <1>1 DEF packet, CsmaInv, Numbers, Counts, ForcedWhenSpent, Spent, Places, CsmaFlags

LEMMA CsmaNextInv ==
    ASSUME CsmaInv, [CsmaNext]_csmaVars
    PROVE  CsmaInv'
<1>1. ASSUME NEW r \in Rates, NEW n \in {1, 2}, NEW len \in Lengths, Start(r, n, len)
      PROVE  CsmaInv'
  <2>2. Places'
    BY <1>1, CsmaAssumption DEF Start, Places
  <2>1. Numbers' /\ Counts'
    <3>1. draws' \in Window /\ need' = Difs + draws' /\ run' = 0 /\ waited' = 0 /\ quiet' = 0
      BY <1>1 DEF Start
    <3>2. 0 < Budget' + Slot'
      BY <2>2, SlotBudgetNext
    <3> QED
      BY <3>1, <3>2, NeedFacts DEF Numbers, Counts
  <2>3. CsmaFlags' /\ ForcedWhenSpent'
    BY <1>1 DEF Start, CsmaFlags, ForcedWhenSpent, CsmaInv
  <2>4. GoesOnAClearChannel' /\ NeverDeaf'
    BY <1>1 DEF Start, GoesOnAClearChannel, NeverDeaf
  <2> QED
    BY <2>1, <2>2, <2>3, <2>4 DEF CsmaInv
<1>2. CASE SenseClear
  <2>1. /\ Numbers' /\ Counts' /\ ForcedWhenSpent' /\ forced' \in BOOLEAN
        /\ pc' \in {"send", "listen"}
        /\ pc' = "send" => forced' \/ quiet' >= Difs + draws'
    BY <1>2, ClearSenseInv DEF SenseClear, CsmaInv
  <2>2. Places' /\ pc' # "idle" /\ pc' # "second"
    BY <1>2, <2>1 DEF SenseClear, CsmaInv, Places, packet
  <2>3. CsmaFlags'
    BY <1>2, <2>1 DEF SenseClear, CsmaInv, CsmaFlags
  <2> QED
    BY <2>1, <2>2, <2>3 DEF CsmaInv, GoesOnAClearChannel, NeverDeaf
<1>3. CASE SenseBusy
  <2>1. /\ Numbers' /\ Counts' /\ ForcedWhenSpent' /\ forced' \in BOOLEAN
        /\ pc' = "listen" \/ (pc' = "send" /\ forced')
    BY <1>3, BusySenseInv DEF SenseBusy, CsmaInv
  <2>2. Places' /\ pc' # "idle" /\ pc' # "second"
    BY <1>3, <2>1 DEF SenseBusy, CsmaInv, Places, packet
  <2>3. CsmaFlags'
    BY <1>3, <2>1 DEF SenseBusy, CsmaInv, CsmaFlags
  <2> QED
    BY <2>1, <2>2, <2>3 DEF CsmaInv, GoesOnAClearChannel, NeverDeaf
<1>4. ASSUME NEW at \in {"sense", "listen"}, Overhear(at) PROVE CsmaInv'
  <2>1. /\ Numbers' /\ Counts' /\ ForcedWhenSpent' /\ forced' \in BOOLEAN
        /\ pc' = "sense"
    BY <1>4, BusySenseInv DEF Overhear, CsmaInv
  <2>2. overheard' \in 0..MaxHeard
    BY <1>4, CsmaAssumption DEF Overhear, CsmaInv, Places
  <2>3. Places'
    BY <1>4, <2>1, <2>2 DEF Overhear, CsmaInv, Places, packet
  <2>4. CsmaFlags'
    BY <1>4, <2>1 DEF Overhear, CsmaInv, CsmaFlags
  <2> QED
    BY <2>1, <2>3, <2>4 DEF CsmaInv, GoesOnAClearChannel, NeverDeaf
<1>5. CASE Abandon \/ ListenQuiet \/ Send \/ SendSecond \/ Fail
  <2>1. UNCHANGED <<need, run, waited, forced, draws, quiet, overheard, packet>>
    BY <1>5 DEF Abandon, ListenQuiet, Send, SendSecond, Fail
  <2>2. pc' \in {"sense", "return"} \/ (pc' = "second" /\ pc = "send")
    BY <1>5 DEF Abandon, ListenQuiet, Send, SendSecond, Fail
  <2>3. believed' \in BOOLEAN /\ listens' \in BOOLEAN
    BY <1>5 DEF Abandon, ListenQuiet, Send, SendSecond, Fail, CsmaInv, CsmaFlags
  <2>4. GoesOnAClearChannel'
    BY <2>1, <2>2 DEF GoesOnAClearChannel, CsmaInv
  <2>5. NeverDeaf'
    BY <2>2 DEF NeverDeaf
  <2> QED
    BY <2>1, <2>2, <2>3, <2>4, <2>5, BackoffUnchanged DEF CsmaInv, Places, CsmaFlags
<1>6. CASE Return
  <2>1. pc' = "idle" /\ UNCHANGED <<need, run, waited, forced, draws, quiet, overheard, packet>>
    BY <1>6 DEF Return
  <2>2. CASE ~believed /\ believed' = believed /\ listens' = listens
    BY <2>1, <2>2, BackoffUnchanged
       DEF CsmaInv, Places, CsmaFlags, NeverDeaf, GoesOnAClearChannel
  <2>3. CASE listens' = TRUE /\ believed' = believed
    BY <2>1, <2>3, BackoffUnchanged
       DEF CsmaInv, Places, CsmaFlags, NeverDeaf, GoesOnAClearChannel
  <2>4. CASE listens' = FALSE /\ believed' = FALSE
    BY <2>1, <2>4, BackoffUnchanged
       DEF CsmaInv, Places, CsmaFlags, NeverDeaf, GoesOnAClearChannel
  <2> QED
    BY <1>6, <2>2, <2>3, <2>4 DEF Return
<1>7. CASE UNCHANGED csmaVars
  <2>1. /\ UNCHANGED <<need, run, waited, forced, draws, quiet, overheard, packet>>
        /\ UNCHANGED <<pc, believed, listens>>
    BY <1>7 DEF csmaVars, packet
  <2> QED
    BY <2>1, BackoffUnchanged
       DEF CsmaInv, Places, CsmaFlags, NeverDeaf, GoesOnAClearChannel
<1> QED
  BY <1>1, <1>2, <1>3, <1>4, <1>5, <1>6, <1>7 DEF CsmaNext

LEMMA CsmaSpecInv == CsmaSpec => []CsmaInv
BY CsmaInitInv, CsmaNextInv, PTL DEF CsmaSpec

(* Every variable keeps its type. *)
THEOREM CsmaTypeCorrect == CsmaSpec => []CsmaTypeOK
<1>1. CsmaInv => CsmaTypeOK
  BY DEF CsmaInv, Numbers, Places, CsmaFlags, CsmaTypeOK
<1> QED
  BY <1>1, CsmaSpecInv, PTL

(* For every window, DIFS and budget, a packet that is not forced goes     *)
(* only after the whole of the window drawn last was heard clear.          *)
THEOREM ClearChannel == CsmaSpec => []GoesOnAClearChannel
BY CsmaSpecInv, PTL DEF CsmaInv

(* Only a spent budget forces a packet, and no wait the report claims      *)
(* passes the budget by a slot.                                            *)
THEOREM BudgetKept == CsmaSpec => []ForcedMeansSpent
<1>1. ASSUME CsmaInv PROVE ForcedMeansSpent
  <2> DEFINE wish == Airtimes * airtime(rate, length)
  <2>1. /\ waited \in Nat /\ waited < Budget + Slot
        /\ forced => waited >= Budget
    BY <1>1 DEF CsmaInv, Numbers, Counts, ForcedWhenSpent, Spent
  <2>2. /\ Slot \in Nat /\ Slot <= SlotMax /\ Budget \in Nat
        /\ BudgetMin <= Budget /\ Budget <= BudgetMax
        /\ Budget >= wish \/ Budget = BudgetMax
    BY <1>1, SlotBudget DEF CsmaInv
  <2>3. wish \in Int
    <3>1. rate \in Rates /\ length \in Nat
      BY <1>1, CsmaAssumption DEF CsmaInv, Places
    <3>2. airtime(rate, length) \in Int
      BY <3>1, AirtimeIsNumber
    <3> QED
      BY <3>2, CsmaAssumption
  <2> HIDE DEF wish
  <2>4. /\ forced => waited >= BudgetMin /\ (waited >= wish \/ waited >= BudgetMax)
        /\ waited < BudgetMax + SlotMax
    BY <2>1, <2>2, <2>3, CsmaAssumption
  <2> QED
    BY <2>1, <2>4 DEF wish, ForcedMeansSpent
<1> QED
  BY <1>1, CsmaSpecInv, PTL

(* A modem that believes it is receiving is, however a packet fared.       *)
THEOREM NotDeaf == CsmaSpec => []NeverDeaf
BY CsmaSpecInv, PTL DEF CsmaInv

(* All three, for every packet. *)
THEOREM PacketsSentRightly == CsmaSpec => []SentRightly
BY ClearChannel, BudgetKept, NotDeaf, PTL DEF SentRightly

-----------------------------------------------------------------------------
(* Presence, for every HOLD_MS: the rule implements what the modem loop    *)
(* relies on about hosts, a host is forgotten only after it has stayed gone, *)
(* and DTR ends only a host in whose time it was up.                       *)

USE PresenceAssumption

PresenceFlags ==
    /\ bus \in BOOLEAN /\ dtr \in BOOLEAN /\ link \in BOOLEAN
    /\ usbFrame \in BOOLEAN /\ bleFrame \in BOOLEAN
    /\ dtrSeen \in BOOLEAN /\ raised \in BOOLEAN

Sides == usb \in Side /\ ble \in Side /\ usbAway \in 0..Hold /\ bleAway \in 0..Hold

(* A side has been away at least as long as it has been counted gone. *)
GoneIsAway ==
    /\ usb.gone # None => usb.present /\ usb.gone <= usbAway
    /\ ble.gone # None => ble.present /\ ble.gone <= bleAway

(* What is remembered of DTR is about the host that is present. *)
DtrInv ==
    /\ dtrSeen => usb.present /\ raised
    /\ usb.present /\ dtr => raised

(* Without late frames, a frame not yet read came over a link still there. *)
FramesLive == ~LateReads => (usbFrame => bus) /\ (bleFrame => link)

PresenceInv == PresenceFlags /\ Sides /\ GoneIsAway /\ DtrInv /\ FramesLive

(* Side::update: what a side is afterwards, and what it means for it to be *)
(* forgotten or to count as gone.                                          *)
LEMMA SideLemma ==
    ASSUME NEW s \in Side, NEW said, NEW attached
    PROVE  /\ SideUpdate(s, said, attached) \in Side
           /\ SideUpdate(s, said, attached).present => s.present \/ said
           /\ said => SideUpdate(s, said, attached).present
           /\ s.present /\ ~SideUpdate(s, said, attached).present =>
                 ~attached /\ ~said /\ s.gone # None /\ s.gone = Hold
           /\ SideUpdate(s, said, attached).gone # None /\ s.present =>
                 /\ ~attached /\ ~said
                 /\ SideUpdate(s, said, attached).gone = 0
                       \/ SideUpdate(s, said, attached).gone = s.gone
           /\ ~s.present /\ ~said => SideUpdate(s, said, attached) = s
           /\ ~s.present /\ said => SideUpdate(s, said, attached).gone = None
           /\ s.present /\ SideUpdate(s, said, attached).gone # None =>
                 SideUpdate(s, said, attached).present
<1> DEFINE r == SideUpdate(s, said, attached)
<1>0. s.present \in BOOLEAN /\ s.gone \in (0..Hold) \union {None}
  BY DEF Side
<1>1. CASE ~s.present /\ ~said
  <2>1. r = s
    BY <1>1 DEF SideUpdate
  <2> QED BY <1>1, <2>1
<1>2. CASE ~(~s.present /\ ~said) /\ (attached \/ said)
  <2>1. r = [present |-> TRUE, gone |-> None]
    BY <1>2 DEF SideUpdate
  <2>2. r \in Side /\ r.present = TRUE /\ r.gone = None
    BY <2>1 DEF Side
  <2> QED BY <1>2, <2>2
<1>3. CASE ~(~s.present /\ ~said) /\ ~(attached \/ said)
  <2>0. s.present /\ ~attached /\ ~said
    BY <1>3, <1>0
  <2>1. CASE HeldLongEnough(Since(s))
    <3>1. r = Nobody
      BY <1>3, <2>1 DEF SideUpdate
    <3>2. r \in Side /\ r.present = FALSE /\ r.gone = None
      BY <3>1 DEF Side, Nobody
    <3>3. s.gone # None /\ s.gone = Hold
      BY <2>1, <1>0 DEF HeldLongEnough, Since
    <3> QED BY <2>0, <3>2, <3>3
  <2>2. CASE ~HeldLongEnough(Since(s))
    <3>1. r = [present |-> TRUE, gone |-> Since(s)]
      BY <1>3, <2>2 DEF SideUpdate
    <3>2. Since(s) \in 0..Hold /\ (Since(s) = 0 \/ Since(s) = s.gone)
      BY <1>0 DEF Since
    <3>3. r \in Side /\ r.present = TRUE /\ r.gone = Since(s)
      BY <3>1, <3>2 DEF Side
    <3> QED BY <2>0, <3>2, <3>3
  <2> QED BY <2>1, <2>2
<1> QED BY <1>1, <1>2, <1>3

LEMMA PresenceInitInv == PresenceInit => PresenceInv
<1> SUFFICES ASSUME PresenceInit PROVE PresenceInv
  OBVIOUS
<1>1. Nobody \in Side /\ Nobody.present = FALSE /\ Nobody.gone = None
  BY DEF Nobody, Side
<1>2. PresenceFlags
  BY DEF PresenceInit, PresenceFlags
<1>3. Sides /\ GoneIsAway
  BY <1>1 DEF PresenceInit, Sides, GoneIsAway
<1>4. DtrInv /\ FramesLive
  BY <1>1 DEF PresenceInit, DtrInv, FramesLive
<1> QED BY <1>2, <1>3, <1>4 DEF PresenceInv

LEMMA PresenceUpdateInv == PresenceInv /\ Update => PresenceInv'
<1> SUFFICES ASSUME PresenceInv, Update PROVE PresenceInv'
  OBVIOUS
<1> DEFINE us == usbFrame /\ bus
           ua == UsbAttached
           bs == bleFrame /\ link
<1>0. PresenceFlags /\ Sides /\ GoneIsAway /\ DtrInv
  BY DEF PresenceInv
<1>1. usb' = SideUpdate(usb, us, ua) /\ ble' = SideUpdate(ble, bs, link)
  BY DEF Update
<1> HIDE DEF us, ua, bs
<1>2. /\ usb' \in Side
      /\ usb'.present => usb.present \/ us
      /\ us => usb'.present
      /\ usb'.gone # None /\ usb.present =>
            ~ua /\ ~us /\ usb'.present /\ (usb'.gone = 0 \/ usb'.gone = usb.gone)
      /\ ~usb.present /\ ~us => usb' = usb
      /\ ~usb.present /\ us => usb'.gone = None
  BY <1>0, <1>1, SideLemma DEF Sides
<1>3. /\ ble' \in Side
      /\ ble'.gone # None /\ ble.present =>
            ~link /\ ~bs /\ ble'.present /\ (ble'.gone = 0 \/ ble'.gone = ble.gone)
      /\ ~ble.present /\ ~bs => ble' = ble
      /\ ~ble.present /\ bs => ble'.gone = None
  BY <1>0, <1>1, SideLemma DEF Sides
<1>4. PresenceFlags'
  <2>1. dtrSeen' \in BOOLEAN /\ usbFrame' \in BOOLEAN /\ bleFrame' \in BOOLEAN
    BY Zenon DEF Update
  <2>2. raised' \in BOOLEAN
    BY <1>0 DEF Update, PresenceFlags
  <2>3. bus' \in BOOLEAN /\ dtr' \in BOOLEAN /\ link' \in BOOLEAN
    BY <1>0 DEF Update, PresenceFlags
  <2> QED BY <2>1, <2>2, <2>3 DEF PresenceFlags
<1>5. Sides'
  <2>1. usbAway' \in 0..Hold /\ bleAway' \in 0..Hold
    BY <1>0 DEF Update, Away, Sides
  <2> QED BY <1>2, <1>3, <2>1 DEF Sides
<1>6. ASSUME usb'.gone # None PROVE usb'.present /\ usb'.gone <= usbAway'
  <2>1. usb.present
    BY <1>0, <1>2, <1>6 DEF GoneIsAway
  <2>2. ~ua /\ ~us /\ usb'.present /\ (usb'.gone = 0 \/ usb'.gone = usb.gone)
    BY <1>2, <1>6, <2>1
  <2>3. ~(bus /\ (dtr \/ usbFrame))
    BY <2>2 DEF ua, us, UsbAttached
  <2>4. usbAway' = usbAway
    BY <2>3 DEF Update, Away
  <2> QED BY <1>0, <1>6, <2>2, <2>4 DEF GoneIsAway, Sides
<1>7. ASSUME ble'.gone # None PROVE ble'.present /\ ble'.gone <= bleAway'
  <2>1. ble.present
    BY <1>0, <1>3, <1>7 DEF GoneIsAway
  <2>2. ~link /\ ble'.present /\ (ble'.gone = 0 \/ ble'.gone = ble.gone)
    BY <1>3, <1>7, <2>1
  <2>3. bleAway' = bleAway
    BY <2>2 DEF Update, Away
  <2> QED BY <1>0, <1>7, <2>2, <2>3 DEF GoneIsAway, Sides
<1>8. GoneIsAway'
  BY <1>6, <1>7 DEF GoneIsAway
<1>9. DtrInv'
  <2>1. CASE usb.present
    <3>1. raised' = raised /\ dtr' = dtr /\ dtrSeen' = (usb'.present /\ DtrSeenNow)
      BY <2>1 DEF Update
    <3>2. DtrSeenNow => raised
      BY <1>0, <2>1 DEF DtrSeenNow, DtrInv
    <3>3. dtr => raised
      BY <1>0, <2>1 DEF DtrInv
    <3> QED BY <3>1, <3>2, <3>3, Zenon DEF DtrInv
  <2>2. CASE ~usb.present
    <3>1. raised' = dtr /\ dtr' = dtr /\ dtrSeen' = (usb'.present /\ DtrSeenNow)
      BY <2>2 DEF Update
    <3>2. DtrSeenNow => dtr
      BY <1>0, <2>2 DEF DtrSeenNow, DtrInv
    <3> QED BY <3>1, <3>2, Zenon DEF DtrInv
  <2> QED BY <2>1, <2>2
<1>10. FramesLive'
  BY DEF Update, FramesLive
<1> QED BY <1>4, <1>5, <1>8, <1>9, <1>10 DEF PresenceInv

(* The transports between passes, and time, keep the invariant. *)
LEMMA OthersInv ==
    PresenceInv /\ (Bus \/ Dtr \/ Link \/ UsbSpeaks \/ BleSpeaks \/ TimePasses) => PresenceInv'
<1> SUFFICES ASSUME PresenceInv, Bus \/ Dtr \/ Link \/ UsbSpeaks \/ BleSpeaks \/ TimePasses
             PROVE  PresenceInv'
  OBVIOUS
<1>0. PresenceFlags /\ Sides /\ GoneIsAway /\ DtrInv /\ FramesLive
  BY DEF PresenceInv
<1>1. CASE Bus \/ Dtr \/ Link \/ UsbSpeaks \/ BleSpeaks
  <2>1. UNCHANGED <<usb, ble, dtrSeen, usbAway, bleAway>>
    BY <1>1 DEF Bus, Dtr, Link, UsbSpeaks, BleSpeaks, NoUpdate
  <2>2. PresenceFlags'
    BY <1>0, <1>1, <2>1 DEF PresenceFlags, Bus, Dtr, Link, UsbSpeaks, BleSpeaks
  <2>3. Sides' /\ GoneIsAway'
    BY <1>0, <2>1 DEF Sides, GoneIsAway
  <2>4. (raised => raised') /\ (dtr' => dtr \/ raised')
    BY <1>0, <1>1 DEF PresenceFlags, Bus, Dtr, Link, UsbSpeaks, BleSpeaks
  <2>5. DtrInv'
    BY <1>0, <2>1, <2>4 DEF DtrInv
  <2>6. FramesLive'
    BY <1>0, <1>1 DEF FramesLive, PresenceFlags, Bus, Dtr, Link, UsbSpeaks, BleSpeaks
  <2> QED BY <2>2, <2>3, <2>5, <2>6 DEF PresenceInv
<1>2. CASE TimePasses
  <2>1. UNCHANGED <<bus, dtr, usbFrame, link, bleFrame, dtrSeen, raised>>
    BY <1>2 DEF TimePasses, seen
  <2>2. /\ usb' = [usb EXCEPT !.gone = Older(usb.gone)]
        /\ ble' = [ble EXCEPT !.gone = Older(ble.gone)]
        /\ usbAway' = Older(usbAway) /\ bleAway' = Older(bleAway)
    BY <1>2 DEF TimePasses
  <2>3. /\ usb.gone \in (0..Hold) \union {None} /\ ble.gone \in (0..Hold) \union {None}
        /\ usbAway \in 0..Hold /\ bleAway \in 0..Hold
    BY <1>0 DEF Sides, Side
  <2>4. /\ Older(usb.gone) \in (0..Hold) \union {None}
        /\ Older(ble.gone) \in (0..Hold) \union {None}
        /\ usbAway' \in 0..Hold /\ bleAway' \in 0..Hold
    BY <2>2, <2>3 DEF Older
  <2>5. /\ usb' \in Side /\ usb'.present = usb.present /\ usb'.gone = Older(usb.gone)
        /\ ble' \in Side /\ ble'.present = ble.present /\ ble'.gone = Older(ble.gone)
    BY <1>0, <2>2, <2>4 DEF Sides, Side
  <2>6. Sides'
    BY <2>4, <2>5 DEF Sides
  <2>7. ASSUME usb'.gone # None PROVE usb'.present /\ usb'.gone <= usbAway'
    <3>1. usb.gone # None
      BY <2>7, <2>5 DEF Older
    <3> QED BY <1>0, <2>2, <2>3, <2>5, <3>1 DEF GoneIsAway, Older
  <2>8. ASSUME ble'.gone # None PROVE ble'.present /\ ble'.gone <= bleAway'
    <3>1. ble.gone # None
      BY <2>8, <2>5 DEF Older
    <3> QED BY <1>0, <2>2, <2>3, <2>5, <3>1 DEF GoneIsAway, Older
  <2>9. GoneIsAway'
    BY <2>7, <2>8 DEF GoneIsAway
  <2>10. DtrInv' /\ PresenceFlags' /\ FramesLive'
    BY <1>0, <2>1, <2>5 DEF DtrInv, PresenceFlags, FramesLive
  <2> QED BY <2>6, <2>9, <2>10 DEF PresenceInv
<1> QED BY <1>1, <1>2

LEMMA PresenceStepInv == PresenceInv /\ [PresenceNext]_presenceVars => PresenceInv'
<1> SUFFICES ASSUME PresenceInv, [PresenceNext]_presenceVars PROVE PresenceInv'
  OBVIOUS
<1>1. CASE UNCHANGED presenceVars
  BY <1>1 DEF presenceVars, PresenceInv, PresenceFlags, Sides, GoneIsAway, DtrInv, FramesLive
<1> QED BY <1>1, PresenceUpdateInv, OthersInv DEF PresenceNext

LEMMA PresenceInductive == PresenceSpec => []PresenceInv
BY PresenceInitInv, PresenceStepInv, PTL DEF PresenceSpec

(* The sides, the line and what is remembered of them keep their types. *)
THEOREM PresenceTypeCorrect == PresenceSpec => []PresenceTypeOK
<1>1. PresenceInv => PresenceTypeOK
  BY DEF PresenceInv, PresenceFlags, Sides, PresenceTypeOK
<1> QED BY PresenceInductive, <1>1, PTL

(* What it means for a side to be forgotten by a step: it is the update of *)
(* a pass, and the side has been gone for HOLD_MS.                         *)
LEMMA ForgottenLemma ==
    ASSUME PresenceInv, [PresenceNext]_presenceVars
    PROVE  /\ usb.present /\ ~usb'.present =>
                 Update /\ ~UsbAttached /\ ~(usbFrame /\ bus) /\ usb.gone = Hold
           /\ ble.present /\ ~ble'.present =>
                 Update /\ ~link /\ ~(bleFrame /\ link) /\ ble.gone = Hold
<1>0. Sides
  BY DEF PresenceInv
<1>1. CASE Update
  <2> DEFINE us == usbFrame /\ bus
             bs == bleFrame /\ link
  <2>1. usb' = SideUpdate(usb, us, UsbAttached) /\ ble' = SideUpdate(ble, bs, link)
    BY <1>1 DEF Update
  <2> HIDE DEF us, bs
  <2>2. /\ usb.present /\ ~usb'.present => ~UsbAttached /\ ~us /\ usb.gone = Hold
        /\ ble.present /\ ~ble'.present => ~link /\ ~bs /\ ble.gone = Hold
    BY <1>0, <2>1, SideLemma DEF Sides
  <2> QED BY <1>1, <2>2 DEF us, bs
<1>2. CASE Bus \/ Dtr \/ Link \/ UsbSpeaks \/ BleSpeaks \/ UNCHANGED presenceVars
  BY <1>2 DEF Bus, Dtr, Link, UsbSpeaks, BleSpeaks, NoUpdate, presenceVars
<1>3. CASE TimePasses
  BY <1>0, <1>3 DEF TimePasses, Sides, Side
<1> QED BY <1>1, <1>2, <1>3 DEF PresenceNext

(* A host is forgotten only when no pass has seen it for HOLD_MS           *)
(* (Side::update).                                                         *)
THEOREM HeldForHold == PresenceSpec => ForgottenAfterHold
<1>1. ASSUME PresenceInv, [PresenceNext]_presenceVars
      PROVE  [/\ usb.present /\ ~usb'.present => usbAway >= Hold
              /\ ble.present /\ ~ble'.present => bleAway >= Hold]_presenceVars
  <2>1. GoneIsAway /\ Sides
    BY <1>1 DEF PresenceInv
  <2>2. usb.gone = Hold => usbAway >= Hold
    BY <2>1 DEF GoneIsAway, Sides
  <2>3. ble.gone = Hold => bleAway >= Hold
    BY <2>1 DEF GoneIsAway, Sides
  <2> QED BY <1>1, <2>2, <2>3, ForgottenLemma
<1> QED BY PresenceInductive, <1>1, PTL DEF PresenceSpec, ForgottenAfterHold

(* DTR being down ends only a host in whose time it was up                 *)
(* (Presence::update).                                                     *)
THEOREM DtrEndsOnlyWhoRaisedIt == PresenceSpec => OnlyTheBusEndsIt
<1>1. ASSUME PresenceInv, [PresenceNext]_presenceVars
      PROVE  [usb.present /\ ~usb'.present /\ ~raised => ~bus]_presenceVars
  <2>1. SUFFICES ASSUME usb.present, ~usb'.present, ~raised PROVE ~bus
    OBVIOUS
  <2>2. ~UsbAttached
    BY <1>1, <2>1, ForgottenLemma
  <2>3. ~dtr /\ ~dtrSeen
    BY <1>1, <2>1 DEF PresenceInv, DtrInv
  <2>4. ~DtrSeenNow
    BY <2>3 DEF DtrSeenNow
  <2> QED BY <2>2, <2>4 DEF UsbAttached
<1> QED BY PresenceInductive, <1>1, PTL DEF PresenceSpec, OnlyTheBusEndsIt

(* A host is forgotten once it has stayed gone, and for nothing else. *)
THEOREM HostsEndRightly == PresenceSpec => EndedRightly
BY HeldForHold, DtrEndsOnlyWhoRaisedIt, PTL DEF EndedRightly

(* The rule implements what the modem loop relies on about hosts: every    *)
(* step of it is an observation, a frame arriving, or nothing the loop can *)
(* see.                                                                    *)
THEOREM Refinement == PresenceSpec => ImplementsHostRule
<1>1. PresenceInit => Rule!Init
  BY DEF PresenceInit, Rule!Init, HostPresent, Spoke, Nobody
<1>2. ASSUME PresenceInv, [PresenceNext]_presenceVars
      PROVE  [Rule!Next]_<<HostPresent, Spoke>>
  <2>0. PresenceFlags /\ Sides /\ FramesLive
    BY <1>2 DEF PresenceInv
  <2>1. CASE Update
    <3> DEFINE us == usbFrame /\ bus
               bs == bleFrame /\ link
    <3>1. usb' = SideUpdate(usb, us, UsbAttached) /\ ble' = SideUpdate(ble, bs, link)
      BY <2>1 DEF Update
    <3> HIDE DEF us, bs
    <3>2. /\ usb'.present => usb.present \/ us
          /\ us => usb'.present
          /\ ble'.present => ble.present \/ bs
          /\ bs => ble'.present
      BY <2>0, <3>1, SideLemma DEF Sides
    <3>3. Spoke' = FALSE
      BY <2>1 DEF Update, Spoke
    <3>4. (us \/ bs) => Spoke
      BY DEF us, bs, Spoke
    <3>5. ~LateReads /\ Spoke => us \/ bs
      BY <2>0 DEF us, bs, Spoke, FramesLive
    <3>6. HostPresent = (usb.present \/ ble.present) /\ HostPresent' = (usb'.present \/ ble'.present)
      BY DEF HostPresent
    <3>7. \/ Spoke /\ HostPresent' = TRUE
          \/ (Spoke => HostPresent \/ LateReads) /\ HostPresent' = HostPresent
          \/ HostPresent /\ (Spoke => LateReads) /\ HostPresent' = FALSE
      BY <3>2, <3>4, <3>5, <3>6, Zenon
    <3> QED BY <3>3, <3>7 DEF Rule!Next, Rule!Observe, Rule!Arrives, Rule!Stays, Rule!Leaves
  <2>2. CASE Bus \/ Dtr \/ Link \/ UNCHANGED presenceVars
    BY <2>2 DEF Bus, Dtr, Link, NoUpdate, presenceVars, HostPresent, Spoke
  <2>3. CASE UsbSpeaks \/ BleSpeaks
    <3>1. HostPresent' = HostPresent
      BY <2>3 DEF UsbSpeaks, BleSpeaks, NoUpdate, HostPresent
    <3>2. Spoke' = TRUE
      BY <2>3 DEF UsbSpeaks, BleSpeaks, Spoke
    <3> QED BY <3>1, <3>2 DEF Rule!Next, Rule!Frame
  <2>4. CASE TimePasses
    <3>1. usb'.present = usb.present /\ ble'.present = ble.present
      BY <2>0, <2>4 DEF TimePasses, Sides, Side
    <3>2. HostPresent' = HostPresent /\ Spoke' = Spoke
      BY <2>4, <3>1 DEF TimePasses, seen, HostPresent, Spoke
    <3> QED BY <3>2
  <2> QED BY <1>2, <2>1, <2>2, <2>3, <2>4 DEF PresenceNext
<1> QED BY PresenceInductive, <1>1, <1>2, PTL DEF PresenceSpec, ImplementsHostRule, Rule!Spec

-----------------------------------------------------------------------------
(* Panel.  A press is handled before anything is done about it, so that    *)
(* the properties are not inductive: the invariant is PressInv, below,     *)
(* which says where what has been chosen belongs and what the page last    *)
(* drawn showed.                                                           *)
(*                                                                         *)
(* What an overlay, a navigator and a choice are.                          *)
Overlay ==
    [kind : {"none", "notice", "refused"}]
        \cup [kind : {"menu"}, item : Nat]
        \cup [kind : {"editor"}, legal : BOOLEAN]
        \cup [kind : {"compose"}, mode : {"Typing", "Sending", "Refused", "Quitting"},
              len : 0..Limit, row : 1..Len(KeyGrid), col : 1..Len(KeyGrid[1])]

Detail == [peer : Peer \cup {NoOne}, count : Nat, placed : BOOLEAN,
           toEnd : BOOLEAN, under : Place]

NavSet == [screen : 1..Len(Strip), over : Overlay, place : Place,
           visible : {0, Rows}, detail : Detail]

Navs == {n \in NavSet : n.over.kind = "menu" => n.over.item \in 1..Len(ItemsOf(n))}

Act == {"None", "SleepScreen", "Redraw", "Announce", "Edit", "ToggleRadio",
        "SaveRadioConfig", "ResetRadioConfig", "ForgetBonds", "ToggleGps",
        "Reboot", "Bootloader", "ToggleAlert", "Compose", "Reply",
        "SendPosition", "RetryFailed", "Open", "SendTyped", "Set"}

Choice == [act : Act, peer : Peer \cup {NoOne}, line : Peer \cup {NoOne},
           alone : BOOLEAN]

SendsTyped(n) == n.over.kind = "compose" /\ n.over.mode = "Sending"

(* What one press may make of a navigator: it leaves a conversation or     *)
(* stays in it; a line is opened from a list that is highlighted, a reply  *)
(* chosen in a conversation, a typed message sent from a keyboard, which   *)
(* chooses nothing else, waits then, and is not opened by a press.         *)
KeyDid(n, r) ==
    /\ r.nav \in Navs /\ r.act \in Act
    /\ r.nav.detail.peer \in {n.detail.peer, NoOne}
    /\ r.act = "Open" => HasHighlight(n) /\ n.over.kind = "none" /\ r.nav = n
    /\ r.act \in {"Reply", "SendPosition"} => InThread(n)
    /\ r.act = "SendTyped" =>
          n.over.kind = "compose" /\ SendsTyped(r.nav) /\ r.nav.detail.peer = n.detail.peer
    /\ n.over.kind # "compose" => r.nav.over.kind # "compose"
    /\ n.over.kind = "compose" => r.act \in {"None", "SendTyped"}
    /\ SendsTyped(n) => r.nav = n /\ r.act = "None"
    /\ SendsTyped(r.nav) /\ ~SendsTyped(n) => r.act = "SendTyped"

LEMMA FirstThere ==
    ASSUME NEW S, S \subseteq Nat, S # {}
    PROVE  \E i \in S : \A j \in S : i <= j
<1> DEFINE R == OpToRel(<, Nat)
<1>1. IsWellFoundedOn(R, Nat)
  BY NatLessThanWellFounded
<1>2. \A x, y \in Nat : y < x => <<y, x>> \in R
  BY DEF OpToRel
<1> HIDE DEF R
<1>3. PICK i \in S : \A j \in S : <<j, i>> \notin R
  BY <1>1, WFMin
<1>4. ASSUME NEW j \in S PROVE i <= j
  <2>1. i \in Nat /\ j \in Nat /\ ~(j < i)
    BY <1>2, <1>3
  <2> QED
    BY <2>1
<1> QED
  BY <1>4

LEMMA UpTo ==
    ASSUME NEW n \in Nat, NEW S, 0 \in S, \A i \in 0..(n - 1) : i \in S => i + 1 \in S
    PROVE  \A i \in 0..n : i \in S
<1> DEFINE T == {i \in 0..n : i \notin S}
<1>1. SUFFICES ASSUME T # {} PROVE FALSE
  OBVIOUS
<1>2. T \subseteq Nat
  OBVIOUS
<1> HIDE DEF T
<1>3. PICK m \in T : \A j \in T : m <= j
  BY <1>1, <1>2, FirstThere
<1>4. m \in 0..n /\ m # 0 /\ m \notin S
  BY <1>3 DEF T
<1>5. m - 1 \in 0..(n - 1) /\ m - 1 \notin T
  BY <1>3, <1>4 DEF T
<1>6. m - 1 \in S /\ (m - 1) + 1 = m
  BY <1>4, <1>5 DEF T
<1> QED
  BY <1>4, <1>5, <1>6

(* A recursive function whose steps stay in a set exists. *)
Runs(n, X, d, step) ==
    {g \in [0..n -> X] : g[0] = d /\ \A i \in 1..n : g[i] = step[i][g[i - 1]]}

LEMMA RunExists ==
    ASSUME NEW n \in Nat, NEW X, NEW d \in X, NEW step \in [1..n -> [X -> X]]
    PROVE  Runs(n, X, d, step) # {}
<1> DEFINE S == {m \in 0..n : Runs(m, X, d, step) # {}}
<1>1. 0 \in S
  <2> DEFINE g == [i \in 0..0 |-> d]
  <2>1. g \in [0..0 -> X] /\ g[0] = d
    OBVIOUS
  <2>2. \A i \in 1..0 : FALSE
    OBVIOUS
  <2> HIDE DEF g
  <2>3. g \in Runs(0, X, d, step)
    BY <2>1, <2>2 DEF Runs
  <2> QED
    BY <2>3
<1>2. ASSUME NEW m \in 0..(n - 1), m \in S PROVE m + 1 \in S
  <2>1. PICK g \in [0..m -> X] : g[0] = d /\ \A i \in 1..m : g[i] = step[i][g[i - 1]]
    BY <1>2 DEF Runs
  <2> DEFINE last == step[m + 1][g[m]]
             h == [i \in 0..(m + 1) |-> IF i = m + 1 THEN last ELSE g[i]]
  <2>2. g[m] \in X /\ m + 1 \in 1..n /\ last \in X
    OBVIOUS
  <2> HIDE DEF last
  <2>3. h \in [0..(m + 1) -> X] /\ h[0] = d
    BY <2>1, <2>2
  <2>4. ASSUME NEW i \in 1..(m + 1) PROVE h[i] = step[i][h[i - 1]]
    <3>1. CASE i = m + 1
      <4>1. h[i] = last /\ h[i - 1] = g[m] /\ i - 1 = m
        BY <3>1
      <4> HIDE DEF h
      <4> QED
        BY <3>1, <4>1 DEF last
    <3>2. CASE i # m + 1
      <4>1. i \in 1..m /\ h[i] = g[i] /\ h[i - 1] = g[i - 1]
        BY <3>2
      <4> HIDE DEF h
      <4> QED
        BY <2>1, <4>1
    <3> QED
      BY <3>1, <3>2
  <2> HIDE DEF h
  <2>5. h \in Runs(m + 1, X, d, step)
    BY <2>3, <2>4 DEF Runs
  <2>6. m + 1 \in 0..n
    OBVIOUS
  <2> QED
    BY <2>5, <2>6
<1>3. \A i \in 0..(n - 1) : i \in S => i + 1 \in S
  BY <1>2
<1> HIDE DEF S
<1>4. \A i \in 0..n : i \in S
  BY <1>1, <1>3, UpTo
<1>5. n \in S
  BY <1>4
<1> QED
  BY <1>5 DEF S

-----------------------------------------------------------------------------

LEMMA LeastFacts ==
    ASSUME NEW a \in Nat, NEW b \in Nat
    PROVE  /\ Least(a, b) \in Nat /\ Least(a, b) <= a /\ Least(a, b) <= b
           /\ Least(a, b) \in {a, b}
           /\ Less(a, b) \in Nat /\ Less(a, b) <= a /\ (a <= b => Less(a, b) = 0)
           /\ (a > b => Less(a, b) = a - b)
BY DEF Least, Less

LEMMA OverlayKinds ==
    ASSUME NEW o \in Overlay
    PROVE  /\ o.kind \in {"none", "notice", "refused", "menu", "editor", "compose"}
           /\ o.kind = "menu" => o.item \in Nat
           /\ o.kind = "editor" => o.legal \in BOOLEAN
           /\ o.kind = "compose" =>
                 o \in [kind : {"compose"}, mode : {"Typing", "Sending", "Refused", "Quitting"},
                        len : 0..Limit, row : 1..Len(KeyGrid), col : 1..Len(KeyGrid[1])]
BY DEF Overlay

(* The navigator but for its place. *)
SameFrame(m, n) ==
    m.screen = n.screen /\ m.over = n.over /\ m.visible = n.visible /\ m.detail = n.detail

LEMMA PlaceChanged ==
    ASSUME NEW n \in NavSet, NEW p \in Place
    PROVE  /\ [n EXCEPT !.place = p] \in NavSet
           /\ SameFrame([n EXCEPT !.place = p], n)
           /\ [n EXCEPT !.place = p].place = p
BY DEF NavSet, SameFrame

(* A navigator in the same frame is one if the menu's items are the same.  *)
LEMMA FrameKeeps ==
    ASSUME NEW n \in Navs, NEW m \in NavSet, SameFrame(m, n)
    PROVE  m \in Navs /\ ItemsOf(m) = ItemsOf(n) /\ (SendsTyped(m) <=> SendsTyped(n))
<1>1. ItemsOf(m) = ItemsOf(n)
  BY DEF SameFrame, ItemsOf, InThread, Current
<1>2. SendsTyped(m) <=> SendsTyped(n)
  BY DEF SendsTyped, SameFrame
<1> QED
  BY <1>1, <1>2 DEF Navs, SameFrame

LEMMA ScrollType ==
    ASSUME NEW n \in NavSet, NEW s \in Nat
    PROVE  /\ [n EXCEPT !.place.scroll = s] \in NavSet
           /\ SameFrame([n EXCEPT !.place.scroll = s], n)
           /\ [n EXCEPT !.place.scroll = s].place = [n.place EXCEPT !.scroll = s]
<1>1. n.place \in Place
  BY DEF NavSet
<1>2. [n.place EXCEPT !.scroll = s] \in Place
  BY <1>1 DEF Place
<1>3. [n EXCEPT !.place.scroll = s] = [n EXCEPT !.place = [n.place EXCEPT !.scroll = s]]
  BY DEF NavSet
<1> QED
  BY <1>2, <1>3, PlaceChanged

LEMMA SelectType ==
    ASSUME NEW n \in NavSet, NEW s \in Nat
    PROVE  /\ [n EXCEPT !.place.selected = s] \in NavSet
           /\ SameFrame([n EXCEPT !.place.selected = s], n)
           /\ [n EXCEPT !.place.selected = s].place = [n.place EXCEPT !.selected = s]
<1>1. n.place \in Place
  BY DEF NavSet
<1>2. [n.place EXCEPT !.selected = s] \in Place
  BY <1>1 DEF Place
<1>3. [n EXCEPT !.place.selected = s] = [n EXCEPT !.place = [n.place EXCEPT !.selected = s]]
  BY DEF NavSet
<1> QED
  BY <1>2, <1>3, PlaceChanged

LEMMA MaxScrollType ==
    ASSUME NEW n \in NavSet
    PROVE  MaxScroll(n) \in Nat /\ n.visible \in Nat /\ n.place \in Place
<1>1. n.visible \in Nat /\ n.place \in Place
  BY PanelAssumption DEF NavSet
<1>2. n.place.lines \in Nat
  BY <1>1 DEF Place
<1> QED
  BY <1>1, <1>2, LeastFacts DEF MaxScroll

(* Nav::set_scroll changes the scroll, and to no more than there is. *)
LEMMA ScrolledToFacts ==
    ASSUME NEW n \in NavSet, NEW to \in Nat
    PROVE  /\ ScrolledTo(n, to) \in NavSet /\ SameFrame(ScrolledTo(n, to), n)
           /\ ScrolledTo(n, to).place = [n.place EXCEPT !.scroll = Least(to, MaxScroll(n))]
<1>1. Least(to, MaxScroll(n)) \in Nat
  BY MaxScrollType, LeastFacts
<1> QED
  BY <1>1, ScrollType DEF ScrolledTo

LEMMA FollowedFacts ==
    ASSUME NEW n \in NavSet
    PROVE  /\ Followed(n) \in NavSet /\ SameFrame(Followed(n), n)
           /\ \E s \in Nat : Followed(n).place = [n.place EXCEPT !.scroll = s]
<1> DEFINE top == n.place.selected * n.place.per  foot == top + n.place.per
<1>1. n.place \in Place /\ n.visible \in Nat
  BY MaxScrollType
<1>2. n.place.scroll \in Nat /\ n.place.selected \in Nat /\ n.place.per \in {1, 2}
  BY <1>1 DEF Place
<1>3. top \in Nat /\ foot \in Nat
  BY <1>2
<1>4. Less(foot, n.visible) \in Nat
  BY <1>1, <1>3, LeastFacts
<1> HIDE DEF top, foot
<1>5. Followed(n) = ScrolledTo(n, top) \/ Followed(n) = ScrolledTo(n, Less(foot, n.visible))
        \/ Followed(n) = ScrolledTo(n, n.place.scroll)
  BY DEF Followed, top, foot
<1>6. \A l \in Nat : /\ ScrolledTo(n, l) \in NavSet /\ SameFrame(ScrolledTo(n, l), n)
                     /\ \E s \in Nat : ScrolledTo(n, l).place = [n.place EXCEPT !.scroll = s]
  <2> TAKE l \in Nat
  <2>1. Least(l, MaxScroll(n)) \in Nat
    BY MaxScrollType, LeastFacts
  <2> QED
    BY <2>1, ScrolledToFacts
<1> QED
  BY <1>2, <1>3, <1>4, <1>5, <1>6

(* What the menus hold. *)
LEMMA ItemFacts ==
    ASSUME NEW n, NEW i \in 1..Len(ItemsOf(n))
    PROVE  /\ ItemsOf(n)[i] \in Act
           /\ ItemsOf(n)[i] \notin {"Open", "SendTyped"}
           /\ ItemsOf(n)[i] \in {"Reply", "SendPosition"} => InThread(n)
<1>1. CASE InThread(n)
  <2>1. ItemsOf(n) = ReplyMenu
    BY <1>1 DEF ItemsOf
  <2>2. i \in 1..5
    BY <2>1 DEF ReplyMenu
  <2>3. ReplyMenu[i] \in {"None", "Compose", "Reply", "SendPosition", "RetryFailed"}
    BY <2>2 DEF ReplyMenu
  <2> QED
    BY <1>1, <2>1, <2>3 DEF Act
<1>2. CASE ~InThread(n)
  <2>1. ItemsOf(n) = MenuOf(Current(n))
    BY <1>2 DEF ItemsOf
  <2> DEFINE items == {"None", "SleepScreen", "Redraw", "Announce", "Edit", "ToggleRadio",
                       "SaveRadioConfig", "ResetRadioConfig", "ForgetBonds", "ToggleGps",
                       "Reboot", "Bootloader", "ToggleAlert"}
  <2>2. ASSUME NEW s, NEW k \in 1..Len(MenuOf(s)) PROVE MenuOf(s)[k] \in items
    <3>1. CASE s = "Home"
      <4>1. MenuOf(s) = <<"None", "SleepScreen", "Redraw", "Announce">>
        BY <3>1 DEF MenuOf
      <4>2. k \in 1..4
        BY <4>1
      <4> QED
        BY <4>1, <4>2
    <3>2. CASE s = "Radio"
      <4>1. MenuOf(s) = <<"None", "Edit", "ToggleRadio", "SaveRadioConfig", "ResetRadioConfig">>
        BY <3>2 DEF MenuOf
      <4>2. k \in 1..5
        BY <4>1
      <4> QED
        BY <4>1, <4>2
    <3>3. CASE s = "Bluetooth"
      <4>1. MenuOf(s) = <<"None", "ForgetBonds">>
        BY <3>3 DEF MenuOf
      <4> QED
        BY <4>1
    <3>4. CASE s = "Position"
      <4>1. MenuOf(s) = <<"None", "ToggleGps">>
        BY <3>4 DEF MenuOf
      <4> QED
        BY <4>1
    <3>5. CASE s = "System"
      <4>1. MenuOf(s) = <<"None", "Reboot", "Bootloader", "ToggleAlert">>
        BY <3>5 DEF MenuOf
      <4>2. k \in 1..4
        BY <4>1
      <4> QED
        BY <4>1, <4>2
    <3>6. CASE s \notin {"Home", "Radio", "Bluetooth", "Position", "System"}
      <4>1. MenuOf(s) = <<>>
        BY <3>6 DEF MenuOf
      <4>2. k \in 1..0
        BY <4>1
      <4> QED
        BY <4>2
    <3> QED
      BY <3>1, <3>2, <3>3, <3>4, <3>5, <3>6
  <2>3. ItemsOf(n)[i] \in items
    BY <2>1, <2>2
  <2> QED
    BY <2>3 DEF Act
<1> QED
  BY <1>1, <1>2

LEMMA ItemsLen == ASSUME NEW n PROVE Len(ItemsOf(n)) \in Nat /\ (ItemsOf(n) # <<>> => Len(ItemsOf(n)) >= 1)
BY DEF ItemsOf, ReplyMenu, MenuOf

-----------------------------------------------------------------------------
(* One press. *)
LEMMA OverType ==
    ASSUME NEW n \in NavSet, NEW o \in Overlay
    PROVE  /\ Over(n, o) \in NavSet /\ Over(n, o).over = o
           /\ Over(n, o).detail = n.detail /\ Over(n, o).screen = n.screen
           /\ ItemsOf(Over(n, o)) = ItemsOf(n)
<1>1. /\ Over(n, o) \in NavSet /\ Over(n, o).over = o
      /\ Over(n, o).detail = n.detail /\ Over(n, o).screen = n.screen
  BY DEF NavSet, Over
<1> QED
  BY <1>1 DEF ItemsOf, InThread, Current

LEMMA OverNav ==
    ASSUME NEW n \in NavSet, NEW o \in Overlay,
           o.kind = "menu" => o.item \in 1..Len(ItemsOf(n))
    PROVE  Over(n, o) \in Navs
BY OverType DEF Navs

LEMMA Overlays ==
    /\ Bare \in Overlay /\ Bare.kind = "none"
    /\ \A i \in Nat : Menu(i) \in Overlay /\ Menu(i).kind = "menu" /\ Menu(i).item = i
    /\ \A m \in {"notice", "refused"} : Modal(m) \in Overlay /\ Modal(m).kind = m
    /\ \A l \in BOOLEAN : Editor(l) \in Overlay /\ Editor(l).kind = "editor"
BY DEF Overlay, Bare, Menu, Modal, Editor

(* A press that changes the overlay and nothing else. *)
LEMMA OverDid ==
    ASSUME NEW n \in Navs, NEW o \in Overlay, NEW act \in Act,
           o.kind = "menu" => o.item \in 1..Len(ItemsOf(n)),
           o.kind # "compose", n.over.kind # "compose" \/ act = "None",
           ~SendsTyped(n), act \notin {"Open", "SendTyped"},
           act \in {"Reply", "SendPosition"} => InThread(n)
    PROVE  KeyDid(n, Did(Over(n, o), act))
<1>1. n \in NavSet
  BY DEF Navs
<1>2. Over(n, o) \in Navs /\ Over(n, o).over = o /\ Over(n, o).detail = n.detail
  BY <1>1, OverType, OverNav
<1> QED
  BY <1>2 DEF KeyDid, Did, SendsTyped

(* A press that changes nothing. *)
LEMMA NoneDid ==
    ASSUME NEW n \in Navs
    PROVE  KeyDid(n, Did(n, "None"))
BY DEF KeyDid, Did, Act

(* A press that moves within the frame. *)
LEMMA FrameDid ==
    ASSUME NEW n \in Navs, NEW m \in NavSet, SameFrame(m, n), ~SendsTyped(n)
    PROVE  KeyDid(n, Did(m, "None"))
<1>1. m \in Navs /\ ~SendsTyped(m)
  BY FrameKeeps
<1> QED
  BY <1>1 DEF KeyDid, Did, SameFrame, Act

LEMMA MenuDid ==
    ASSUME NEW n \in Navs, NEW key \in Input, n.over.kind = "menu"
    PROVE  KeyDid(n, InMenu(n, key))
<1> DEFINE i == n.over.item  count == Len(ItemsOf(n))
<1>1. count \in Nat /\ i \in 1..count /\ ~SendsTyped(n)
  BY ItemsLen DEF Navs, SendsTyped
<1>2. /\ (IF i = 1 THEN count ELSE i - 1) \in 1..count
      /\ (IF i = count THEN 1 ELSE i + 1) \in 1..count
  BY <1>1
<1>3. ItemsOf(n)[i] \in Act /\ ItemsOf(n)[i] \notin {"Open", "SendTyped"}
      /\ (ItemsOf(n)[i] \in {"Reply", "SendPosition"} => InThread(n))
  BY <1>1, ItemFacts
<1> HIDE DEF count
<1>4. \A k \in 1..count : KeyDid(n, Did(Over(n, Menu(k)), "None"))
  <2> TAKE k \in 1..count
  <2>1. Menu(k) \in Overlay /\ Menu(k).kind = "menu" /\ Menu(k).item = k
    BY <1>1, Overlays
  <2> QED
    BY <1>1, <2>1, OverDid DEF count, Act
<1>5. KeyDid(n, Did(Over(n, Bare), "None"))
  BY <1>1, Overlays, OverDid DEF Act
<1>6. KeyDid(n, Did(Over(n, Bare), ItemsOf(n)[i]))
  BY <1>1, <1>3, Overlays, OverDid
<1>7. InMenu(n, key) \in
        {Did(Over(n, Menu(IF i = 1 THEN count ELSE i - 1)), "None"),
         Did(Over(n, Menu(IF i = count THEN 1 ELSE i + 1)), "None"),
         Did(Over(n, Bare), "None"), Did(Over(n, Bare), ItemsOf(n)[i]), Did(n, "None")}
  BY Zenon DEF InMenu, count
<1> QED
  BY <1>2, <1>4, <1>5, <1>6, <1>7, NoneDid

LEMMA EditorDid ==
    ASSUME NEW n \in Navs, NEW key \in Input, n.over.kind = "editor"
    PROVE  KeyDid(n, InEditor(n, key))
<1>1. ~SendsTyped(n)
  BY DEF SendsTyped
<1>2. \A o \in {Editor(TRUE), Editor(FALSE), Bare} :
          o \in Overlay /\ o.kind \notin {"menu", "compose"}
  BY Overlays
<1>3. \A o \in {Editor(TRUE), Editor(FALSE), Bare}, act \in {"None", "Set"} :
          KeyDid(n, Did(Over(n, o), act))
  BY <1>1, <1>2, OverDid DEF Act
<1> QED
  BY <1>3, NoneDid DEF InEditor

Board == [kind : {"compose"}, mode : {"Typing", "Sending", "Refused", "Quitting"},
          len : 0..Limit, row : 1..Len(KeyGrid), col : 1..Len(KeyGrid[1])]

LEMMA BoardDid ==
    ASSUME NEW n \in Navs, NEW o \in Board, NEW act, n.over.kind = "compose", ~SendsTyped(n),
           (act = "None" /\ o.mode # "Sending") \/ (act = "SendTyped" /\ o.mode = "Sending")
    PROVE  KeyDid(n, Did(Over(n, o), act))
<1>1. o \in Overlay /\ o.kind = "compose" /\ n \in NavSet
  BY DEF Navs, Board, Overlay
<1>2. Over(n, o) \in Navs /\ Over(n, o).over = o /\ Over(n, o).detail = n.detail
  BY <1>1, OverType, OverNav
<1>3. act \in Act /\ act \in {"None", "SendTyped"}
  BY DEF Act
<1>4. SendsTyped(Over(n, o)) <=> o.mode = "Sending"
  BY <1>1, <1>2 DEF SendsTyped
<1> QED
  BY <1>2, <1>3, <1>4 DEF KeyDid, Did

LEMMA QuitDid ==
    ASSUME NEW n \in Navs, n.over.kind = "compose", ~SendsTyped(n)
    PROVE  KeyDid(n, Did(Over(n, Bare), "None"))
BY OverDid, Overlays DEF Act

LEMMA WrappedType ==
    ASSUME NEW size \in Nat \ {0}, NEW i \in 1..size, NEW by \in Nat
    PROVE  Wrapped(i, by, size) \in 1..size
<1>1. (i - 1 + by) \in Nat
  OBVIOUS
<1>2. ((i - 1 + by) % size) \in 0..(size - 1)
  BY <1>1
<1> QED
  BY <1>2 DEF Wrapped

LEMMA GridSize == Len(KeyGrid) \in Nat \ {0} /\ Len(KeyGrid[1]) \in Nat \ {0}
<1>1. KeyGrid \in Seq(Seq({"char", "send", "quit"})) /\ Len(KeyGrid) > 0 /\ Len(KeyGrid[1]) > 0
  BY PanelAssumption
<1>2. 1 \in 1..Len(KeyGrid) /\ KeyGrid[1] \in Seq({"char", "send", "quit"})
  BY <1>1
<1> QED
  BY <1>1, <1>2

LEMMA KeyboardDid ==
    ASSUME NEW n \in Navs, NEW key \in Input, n.over.kind = "compose"
    PROVE  KeyDid(n, OnKeyboard(n, key))
<1> DEFINE kb == n.over  rows == Len(KeyGrid)  cols == Len(KeyGrid[1])
<1>1. kb \in Board
  <2>1. n.over \in Overlay
    BY DEF Navs, NavSet
  <2> QED
    BY <2>1, OverlayKinds DEF Board
<1>2. rows \in Nat \ {0} /\ cols \in Nat \ {0} /\ Limit \in Nat \ {0}
  BY GridSize, PanelAssumption
<1>3. \A l \in 0..Limit :
          [kb EXCEPT !.len = l] \in Board /\ [kb EXCEPT !.len = l].mode = kb.mode
  BY <1>1 DEF Board
<1>7. \A m \in {"Typing", "Sending", "Refused", "Quitting"} :
          [kb EXCEPT !.mode = m] \in Board /\ [kb EXCEPT !.mode = m].mode = m
  BY <1>1 DEF Board
<1>4. CASE SendsTyped(n)
  BY <1>4, NoneDid DEF OnKeyboard, SendsTyped
<1>5. CASE ~SendsTyped(n) /\ kb.mode \in {"Refused", "Quitting"}
  <2>1. KeyDid(n, Did(Over(n, [kb EXCEPT !.mode = "Typing"]), "None"))
    BY <1>5, <1>7, BoardDid
  <2>2. KeyDid(n, Did(Over(n, Bare), "None"))
    BY <1>5, QuitDid
  <2> QED
    BY <1>5, <2>1, <2>2, NoneDid DEF OnKeyboard
<1>6. CASE ~SendsTyped(n) /\ kb.mode \notin {"Refused", "Quitting"}
  <2>1. kb.mode = "Typing"
    BY <1>1, <1>6 DEF SendsTyped, Board
  <2>2. OnKeyboard(n, key) = Typed(n, key)
    BY <2>1 DEF OnKeyboard
  <2>3. CASE key = "Select"
    <3>1. Typed(n, key) = Pressed(n, kb)
      BY <2>3 DEF Typed
    <3>2. Least(kb.len + 1, Limit) \in 0..Limit
      <4>1. kb.len \in 0..Limit
        BY <1>1 DEF Board
      <4>2. kb.len + 1 \in Nat /\ Limit \in Nat
        BY <1>2, <4>1
      <4>3. Least(kb.len + 1, Limit) \in Nat /\ Least(kb.len + 1, Limit) <= Limit
        BY <4>2, LeastFacts
      <4> QED
        BY <4>2, <4>3
    <3>3. KeyDid(n, Did(Over(n, [kb EXCEPT !.len = Least(@ + 1, Limit)]), "None"))
      BY <1>3, <1>6, <2>1, <3>2, BoardDid
    <3>4. KeyDid(n, Did(Over(n, [kb EXCEPT !.mode = "Sending"]), "SendTyped"))
      BY <1>6, <1>7, BoardDid
    <3>5. KeyDid(n, Did(Over(n, [kb EXCEPT !.mode = "Quitting"]), "None"))
      BY <1>6, <1>7, BoardDid
    <3>6. KeyDid(n, Did(Over(n, Bare), "None"))
      BY <1>6, QuitDid
    <3>7. Pressed(n, kb) \in
            {Did(Over(n, [kb EXCEPT !.len = Least(@ + 1, Limit)]), "None"),
             Did(n, "None"), Did(Over(n, [kb EXCEPT !.mode = "Sending"]), "SendTyped"),
             Did(Over(n, Bare), "None"), Did(Over(n, [kb EXCEPT !.mode = "Quitting"]), "None")}
      BY DEF Pressed
    <3> QED
      BY <2>2, <3>1, <3>3, <3>4, <3>5, <3>6, <3>7, NoneDid
  <2>4. CASE key = "Back"
    <3>1. Typed(n, key) = Did(Over(n, IF kb.len = 0 THEN Bare ELSE [kb EXCEPT !.len = @ - 1]), "None")
      BY <2>4 DEF Typed
    <3>2. CASE kb.len = 0
      BY <1>6, <2>2, <3>1, <3>2, QuitDid
    <3>3. CASE kb.len # 0
      <4>1. kb.len - 1 \in 0..Limit
        BY <1>1, <1>2, <3>3 DEF Board
      <4>2. KeyDid(n, Did(Over(n, [kb EXCEPT !.len = @ - 1]), "None"))
        BY <1>3, <1>6, <2>1, <4>1, BoardDid
      <4> QED
        BY <2>2, <3>1, <3>3, <4>2
    <3> QED
      BY <3>2, <3>3
  <2>5. CASE key \notin {"Select", "Back"}
    <3>1. ASSUME NEW a \in Nat, NEW b \in Nat
          PROVE  KeyDid(n, Did(Over(n, Moved(kb, a, b)), "None"))
      <4>1. kb.row \in 1..rows /\ kb.col \in 1..cols
        BY <1>1 DEF Board
      <4>2. Wrapped(kb.row, a, rows) \in 1..rows /\ Wrapped(kb.col, b, cols) \in 1..cols
        BY <1>2, <4>1, WrappedType
      <4>3. Moved(kb, a, b) \in Board /\ Moved(kb, a, b).mode = kb.mode
        BY <1>1, <4>2 DEF Moved, Board
      <4> QED
        BY <1>6, <2>1, <4>3, BoardDid
    <3>2. rows - 1 \in Nat /\ cols - 1 \in Nat
      BY <1>2
    <3>3. Typed(n, key) \in
            {Did(Over(n, Moved(kb, rows - 1, 0)), "None"), Did(Over(n, Moved(kb, 1, 0)), "None"),
             Did(Over(n, Moved(kb, 0, cols - 1)), "None"), Did(Over(n, Moved(kb, 0, 1)), "None")}
      BY <2>5 DEF Typed
    <3> HIDE DEF kb, rows, cols
    <3> QED
      BY <2>2, <3>1, <3>2, <3>3
  <2> QED
    BY <2>3, <2>4, <2>5
<1> QED
  BY <1>4, <1>5, <1>6

LEMMA LastThere ==
    ASSUME NEW m \in Nat, NEW S, S \subseteq 0..m, S # {}
    PROVE  \E i \in S : \A j \in S : i >= j
<1> DEFINE R == {m - i : i \in S}
<1>1. R \subseteq Nat /\ R # {}
  <2>1. \A i \in S : m - i \in Nat
    OBVIOUS
  <2>2. R # {}
    OBVIOUS
  <2>3. ASSUME NEW x \in R PROVE x \in Nat
    <3>1. PICK i \in S : x = m - i
      OBVIOUS
    <3> QED
      BY <2>1, <3>1
  <2> QED
    BY <2>2, <2>3
<1> HIDE DEF R
<1>2. PICK r \in R : \A j \in R : r <= j
  BY <1>1, FirstThere
<1>3. PICK i \in S : r = m - i
  BY DEF R
<1>4. \A j \in S : m - j \in R
  BY DEF R
<1> QED
  BY <1>2, <1>3, <1>4

(* Conversation::step goes to a place in the thread. *)
LEMMA SteppedFacts ==
    ASSUME NEW n \in NavSet, NEW forward \in BOOLEAN
    PROVE  Stepped(n, forward) \in NavSet /\ SameFrame(Stepped(n, forward), n)
<1> DEFINE top == n.place.scroll
           stops == {StopOf(k) : k \in 1..n.detail.count}
           ahead == {s \in stops : s > top}
           behind == {s \in stops : s < top}
           to == IF forward
                 THEN IF ahead = {} THEN MaxScroll(n) ELSE CHOOSE s \in ahead : \A t \in ahead : s <= t
                 ELSE IF behind = {} THEN 0 ELSE CHOOSE s \in behind : \A t \in behind : s >= t
<1>1. top \in Nat /\ n.detail.count \in Nat /\ MaxScroll(n) \in Nat
  BY MaxScrollType DEF NavSet, Detail, Place
<1>2. \A k \in 1..n.detail.count : StopOf(k) \in Nat
  <2>1. \A a, b \in Nat : a * b \in Nat
    OBVIOUS
  <2>2. Height + 1 \in Nat
    BY PanelAssumption
  <2>3. \A k \in 1..n.detail.count : k - 1 \in Nat
    BY <1>1
  <2> QED
    BY <2>1, <2>2, <2>3 DEF StopOf
<1>3. ahead \subseteq Nat /\ behind \subseteq 0..top
  BY <1>1, <1>2
<1> HIDE DEF ahead, behind
<1>4. ahead # {} => (CHOOSE s \in ahead : \A t \in ahead : s <= t) \in Nat
  <2>1. ahead # {} => \E s \in ahead : \A t \in ahead : s <= t
    BY <1>3, FirstThere
  <2> QED
    BY <1>3, <2>1
<1>5. behind # {} => (CHOOSE s \in behind : \A t \in behind : s >= t) \in Nat
  <2>1. behind # {} => \E s \in behind : \A t \in behind : s >= t
    BY <1>1, <1>3, LastThere
  <2>2. behind # {} => (CHOOSE s \in behind : \A t \in behind : s >= t) \in behind
    BY <2>1
  <2>3. behind \subseteq Nat
    BY <1>1, <1>3
  <2> QED
    BY <2>2, <2>3
<1>6. to \in Nat
  BY <1>1, <1>4, <1>5
<1>7. Stepped(n, forward) = ScrolledTo(n, to)
  BY DEF Stepped, ahead, behind
<1> HIDE DEF to
<1> QED
  BY <1>6, <1>7, ScrolledToFacts

LEMMA ConversationDid ==
    ASSUME NEW n \in Navs, NEW key \in Input, InThread(n), n.over.kind = "none"
    PROVE  KeyDid(n, InConversation(n, key))
<1>1. n \in NavSet /\ ~SendsTyped(n) /\ n.place \in Place /\ n.place.scroll \in Nat
  BY MaxScrollType DEF Navs, SendsTyped, Place
<1>2. CASE key \in {"Left", "Right"}
  <2>1. /\ Stepped(n, key = "Right") \in NavSet
        /\ SameFrame(Stepped(n, key = "Right"), n)
    BY <1>1, SteppedFacts
  <2> QED
    BY <1>1, <1>2, <2>1, FrameDid DEF InConversation
<1>3. CASE key = "Up"
  <2>1. Less(n.place.scroll, 1) \in Nat
    BY <1>1, LeastFacts
  <2>2. /\ [n EXCEPT !.place.scroll = Less(n.place.scroll, 1)] \in NavSet
        /\ SameFrame([n EXCEPT !.place.scroll = Less(n.place.scroll, 1)], n)
    BY <1>1, <2>1, ScrollType
  <2> QED
    BY <1>1, <1>3, <2>2, FrameDid DEF InConversation
<1>4. CASE key = "Down"
  <2>1. n.place.scroll + 1 \in Nat
    BY <1>1
  <2>2. /\ ScrolledTo(n, n.place.scroll + 1) \in NavSet
        /\ SameFrame(ScrolledTo(n, n.place.scroll + 1), n)
    BY <1>1, <2>1, ScrolledToFacts
  <2> QED
    BY <1>1, <1>4, <2>2, FrameDid DEF InConversation
<1>5. CASE key = "Select"
  <2>1. 1 \in 1..Len(ItemsOf(n))
    BY DEF ItemsOf, ReplyMenu
  <2>2. Menu(1) \in Overlay /\ Menu(1).kind = "menu" /\ Menu(1).item = 1
    BY Overlays
  <2>3. KeyDid(n, Did(Over(n, Menu(1)), "None"))
    BY <1>1, <2>1, <2>2, OverDid DEF Act
  <2> QED
    BY <1>5, <2>3 DEF InConversation
<1>6. CASE key = "Back"
  <2>1. InConversation(n, key) = Did(ClosedDetail(n), "None")
    BY <1>6 DEF InConversation
  <2>2. Closed \in Detail /\ n.detail.under \in Place /\ Bare \in Overlay
    <3>1. Top \in Place
      BY DEF Top, Place
    <3> QED
      BY <1>1, <3>1, Overlays DEF Closed, Detail, NavSet
  <2>3. /\ ClosedDetail(n) \in NavSet /\ ClosedDetail(n).over = Bare
        /\ ClosedDetail(n).detail = Closed
    BY <1>1, <2>2 DEF ClosedDetail, NavSet
  <2>4. Bare.kind = "none" /\ Closed.peer = NoOne
    BY DEF Bare, Closed
  <2>5. ClosedDetail(n) \in Navs /\ ~SendsTyped(ClosedDetail(n))
    BY <2>3, <2>4 DEF Navs, SendsTyped
  <2>6. "None" \in Act
    BY DEF Act
  <2> QED
    BY <1>1, <2>1, <2>3, <2>4, <2>5, <2>6 DEF KeyDid, Did
<1> QED
  BY <1>2, <1>3, <1>4, <1>5, <1>6 DEF Input

LEMMA ScreenDid ==
    ASSUME NEW n \in Navs, NEW key \in Input, ~InThread(n), n.over.kind = "none"
    PROVE  KeyDid(n, OnScreen(n, key))
<1>1. n \in NavSet /\ ~SendsTyped(n) /\ n.place \in Place
  BY MaxScrollType DEF Navs, SendsTyped
<1>2. n.place.scroll \in Nat /\ n.place.selected \in Nat /\ n.place.entries \in Nat
  BY <1>1 DEF Place
<1>3. CASE key \in {"Left", "Right"}
  <2> DEFINE to == IF key = "Left"
                   THEN [n EXCEPT !.screen = IF @ = 1 THEN Len(Strip) ELSE @ - 1, !.place = Top]
                   ELSE [n EXCEPT !.screen = IF @ = Len(Strip) THEN 1 ELSE @ + 1, !.place = Top]
  <2>1. Top \in Place
    BY DEF Top, Place
  <2>2. n.screen \in 1..Len(Strip) /\ Len(Strip) \in Nat
    BY <1>1, PanelAssumption DEF NavSet
  <2>3. \A s \in 1..Len(Strip) :
            LET m == [n EXCEPT !.screen = s, !.place = Top]
            IN  m \in NavSet /\ m.over = n.over /\ m.detail = n.detail
    BY <1>1, <2>1 DEF NavSet
  <2>4. to \in NavSet /\ to.over = n.over /\ to.detail = n.detail
    <3>1. /\ (IF n.screen = 1 THEN Len(Strip) ELSE n.screen - 1) \in 1..Len(Strip)
          /\ (IF n.screen = Len(Strip) THEN 1 ELSE n.screen + 1) \in 1..Len(Strip)
      BY <2>2
    <3> QED
      BY <2>3, <3>1
  <2>5. OnScreen(n, key) = Did(to, "None")
    BY <1>3 DEF OnScreen
  <2> HIDE DEF to
  <2>6. to \in Navs /\ ~SendsTyped(to) /\ "None" \in Act
    BY <2>4 DEF Navs, SendsTyped, Act
  <2> QED
    BY <1>1, <2>4, <2>5, <2>6 DEF KeyDid, Did
<1>4. CASE key = "Up"
  <2>1. Less(n.place.scroll, 1) \in Nat /\ Less(n.place.selected, 1) \in Nat
    BY <1>2, LeastFacts
  <2> DEFINE m == [n EXCEPT !.place.selected = Less(@, 1)]
             k == [n EXCEPT !.place.scroll = Less(@, 1)]
  <2>2. m \in NavSet /\ SameFrame(m, n)
    BY <1>1, <2>1, SelectType
  <2>3. k \in NavSet /\ SameFrame(k, n)
    BY <1>1, <2>1, ScrollType
  <2>4. OnScreen(n, key) \in {Did(Followed(m), "None"), Did(k, "None")}
    BY <1>4 DEF OnScreen
  <2> HIDE DEF m, k
  <2>5. Followed(m) \in NavSet /\ SameFrame(Followed(m), n)
    BY <2>2, FollowedFacts DEF SameFrame
  <2> QED
    BY <1>1, <2>3, <2>4, <2>5, FrameDid
<1>5. CASE key = "Down"
  <2> DEFINE m == [n EXCEPT !.place.selected = Least(@ + 1, n.place.entries - 1)]
             k == ScrolledTo(n, n.place.scroll + 1)
  <2>1. HasHighlight(n) => m \in NavSet /\ SameFrame(m, n)
    <3>1. HasHighlight(n) => Least(n.place.selected + 1, n.place.entries - 1) \in Nat
      <4>1. HasHighlight(n) => n.place.selected + 1 \in Nat /\ n.place.entries - 1 \in Nat
        BY <1>2 DEF HasHighlight
      <4> QED
        BY <4>1, LeastFacts
    <3> QED
      BY <1>1, <3>1, SelectType
  <2>2. n.place.scroll + 1 \in Nat
    BY <1>2
  <2>3. k \in NavSet /\ SameFrame(k, n)
    BY <1>1, <2>2, ScrolledToFacts
  <2>4. OnScreen(n, key) = IF HasHighlight(n) THEN Did(Followed(m), "None") ELSE Did(k, "None")
    BY <1>5 DEF OnScreen
  <2> HIDE DEF m, k
  <2>5. HasHighlight(n) => Followed(m) \in NavSet /\ SameFrame(Followed(m), n)
    BY <2>1, FollowedFacts DEF SameFrame
  <2> QED
    BY <1>1, <2>3, <2>4, <2>5, FrameDid
<1>6. CASE key = "Select"
  <2>1. CASE HasHighlight(n)
    <3>1. OnScreen(n, key) = Did(n, "Open")
      BY <1>6, <2>1 DEF OnScreen
    <3>2. "Open" \in Act
      BY DEF Act
    <3> QED
      BY <1>1, <2>1, <3>1, <3>2 DEF KeyDid, Did
  <2>2. CASE ~HasHighlight(n) /\ ItemsOf(n) # <<>>
    <3>1. OnScreen(n, key) = Did(Over(n, Menu(1)), "None")
      BY <1>6, <2>2 DEF OnScreen
    <3>2. 1 \in 1..Len(ItemsOf(n))
      BY <2>2, ItemsLen
    <3>3. Menu(1) \in Overlay /\ Menu(1).kind = "menu" /\ Menu(1).item = 1
      BY Overlays
    <3> QED
      BY <1>1, <3>1, <3>2, <3>3, OverDid DEF Act
  <2>3. CASE ~HasHighlight(n) /\ ItemsOf(n) = <<>>
    <3>1. OnScreen(n, key) = Did(n, "None")
      BY <1>6, <2>3 DEF OnScreen
    <3> QED
      BY <3>1, NoneDid
  <2> QED
    BY <2>1, <2>2, <2>3
<1>7. CASE key = "Back"
  <2>1. OnScreen(n, key) = Did(n, "None")
    BY <1>7 DEF OnScreen
  <2> QED
    BY <2>1, NoneDid
<1> QED
  BY <1>3, <1>4, <1>5, <1>6, <1>7 DEF Input

(* Nav::handle. *)
LEMMA HandleDid ==
    ASSUME NEW n \in Navs, NEW key \in Input
    PROVE  KeyDid(n, HandleKey(n, key))
<1>1. n.over \in Overlay
  BY DEF Navs, NavSet
<1>2. n.over.kind \in {"none", "notice", "refused", "menu", "editor", "compose"}
  BY <1>1, OverlayKinds
<1>3. CASE n.over.kind = "menu"
  BY <1>3, MenuDid DEF HandleKey
<1>4. CASE n.over.kind = "compose"
  BY <1>4, KeyboardDid DEF HandleKey
<1>5. CASE n.over.kind = "editor"
  BY <1>5, EditorDid DEF HandleKey
<1>6. CASE n.over.kind \in {"notice", "refused"}
  <2>1. HandleKey(n, key) = Did(Over(n, Bare), "None")
    BY <1>6 DEF HandleKey
  <2>2. ~SendsTyped(n)
    BY <1>6 DEF SendsTyped
  <2> QED
    BY <1>6, <2>1, <2>2, Overlays, OverDid DEF Act
<1>7. CASE n.over.kind = "none"
  BY <1>7, ConversationDid, ScreenDid DEF HandleKey
<1> QED
  BY <1>2, <1>3, <1>4, <1>5, <1>6, <1>7

-----------------------------------------------------------------------------
(* The presses of one pass. *)

(* One more press after those that made st, of a pass of so many. *)
One(st, key, alone) ==
    LET r == HandleKey(st.nav, key)
    IN  [nav |-> r.nav,
         acts |-> IF r.act = "None" THEN st.acts
                  ELSE Append(st.acts, [act |-> r.act, peer |-> st.nav.detail.peer,
                                        line |-> face, alone |-> alone])]

(* Choices made in one pass that began in conversation p: at first in it,  *)
(* then in none; a line is opened from outside, a reply chosen inside.     *)
Chose(p, acts) ==
    /\ \A i \in 1..Len(acts) :
        /\ acts[i].peer \in {p, NoOne}
        /\ acts[i].act = "Open" => acts[i].peer = NoOne
        /\ acts[i].act \in {"Reply", "SendPosition"} => acts[i].peer # NoOne
    /\ \A i, j \in 1..Len(acts) :
        i < j /\ acts[i].peer = NoOne => acts[j].peer = NoOne

(* A typed message is all that was chosen, and its keyboard waits for it.  *)
TypedAlone(n, acts) ==
    \A i \in 1..Len(acts) : acts[i].act = "SendTyped" =>
        Len(acts) = 1 /\ SendsTyped(n) /\ acts[i].peer = n.detail.peer

Midway(n, alone) ==
    {st \in [nav : Navs, acts : Seq(Choice)] :
        /\ st.nav.detail.peer \in {n.detail.peer, NoOne}
        /\ Chose(n.detail.peer, st.acts) /\ TypedAlone(st.nav, st.acts)
        /\ \A i \in 1..Len(st.acts) :
            /\ st.acts[i].peer = NoOne => st.nav.detail.peer = NoOne
            /\ st.acts[i].line = face /\ st.acts[i].alone = alone
        /\ st.nav.over.kind = "compose" /\ ~SendsTyped(st.nav) => st.acts = <<>>
        /\ SendsTyped(n) => st.nav = n /\ st.acts = <<>>
        /\ SendsTyped(st.nav) /\ ~SendsTyped(n) =>
              Len(st.acts) = 1 /\ st.acts[1].act = "SendTyped"}

LEMMA OneMore ==
    ASSUME NEW n \in Navs, NEW alone \in BOOLEAN, NEW st \in Midway(n, alone),
           NEW key \in Input, face \in Peer \cup {NoOne}
    PROVE  One(st, key, alone) \in Midway(n, alone)
<1> DEFINE r == HandleKey(st.nav, key)
           c == [act |-> r.act, peer |-> st.nav.detail.peer, line |-> face, alone |-> alone]
           two == One(st, key, alone)
<1>1. st.nav \in Navs /\ st.acts \in Seq(Choice) /\ KeyDid(st.nav, r)
  BY HandleDid DEF Midway
<1>2. two.nav = r.nav /\ two.acts = IF r.act = "None" THEN st.acts ELSE Append(st.acts, c)
  BY DEF One
<1>3. st.nav.detail.peer \in Peer \cup {NoOne}
  BY <1>1 DEF Navs, NavSet, Detail
<1>4. two = [nav |-> two.nav, acts |-> two.acts]
  BY DEF One
<1> HIDE DEF r
<1>5. c \in Choice /\ c.act = r.act /\ c.peer = st.nav.detail.peer /\ c.line = face
      /\ c.alone = alone
  BY <1>1, <1>3 DEF KeyDid, Choice
<1>6. r.nav \in Navs /\ r.nav.detail.peer \in {st.nav.detail.peer, NoOne}
  BY <1>1 DEF KeyDid
<1> HIDE DEF c, two
<1>7. CASE SendsTyped(st.nav)
  <2>1. r.nav = st.nav /\ r.act = "None"
    BY <1>1, <1>7 DEF KeyDid
  <2>2. two.nav = st.nav /\ two.acts = st.acts
    BY <1>2, <2>1
  <2>3. st = [nav |-> st.nav, acts |-> st.acts]
    BY DEF Midway
  <2>4. two = st
    BY <1>4, <2>2, <2>3
  <2> QED
    BY <2>4 DEF two
<1>8. CASE ~SendsTyped(st.nav) /\ r.act = "None"
  <2>1. two.nav = r.nav /\ two.acts = st.acts
    BY <1>2, <1>8
  <2>2. ~SendsTyped(n)
    BY <1>8 DEF Midway
  <2>3. ~SendsTyped(r.nav)
    BY <1>1, <1>8 DEF KeyDid
  <2>4. r.nav.over.kind = "compose" => st.nav.over.kind = "compose"
    BY <1>1 DEF KeyDid
  <2>5. two.nav.over.kind = "compose" => two.acts = <<>>
    BY <1>8, <2>1, <2>4 DEF Midway
  <2>6. TypedAlone(two.nav, two.acts)
    <3>1. \A i \in 1..Len(st.acts) : st.acts[i].act # "SendTyped"
      BY <1>8 DEF Midway, TypedAlone
    <3> QED
      BY <2>1, <3>1 DEF TypedAlone
  <2>7. Chose(n.detail.peer, two.acts) /\ two.nav.detail.peer \in {n.detail.peer, NoOne}
    BY <1>6, <2>1 DEF Midway
  <2>8. \A i \in 1..Len(two.acts) :
            /\ two.acts[i].peer = NoOne => two.nav.detail.peer = NoOne
            /\ two.acts[i].line = face /\ two.acts[i].alone = alone
    BY <1>6, <2>1 DEF Midway
  <2>9. two \in [nav : Navs, acts : Seq(Choice)]
    BY <1>1, <1>4, <1>6, <2>1
  <2>10. two \in Midway(n, alone)
    BY <2>1, <2>2, <2>3, <2>5, <2>6, <2>7, <2>8, <2>9 DEF Midway
  <2> QED
    BY <2>10 DEF two
<1>9. CASE ~SendsTyped(st.nav) /\ r.act # "None"
  <2>1. two.nav = r.nav /\ two.acts = Append(st.acts, c)
    BY <1>2, <1>9
  <2>2. ~SendsTyped(n)
    BY <1>9 DEF Midway
  <2>3. /\ Len(two.acts) = Len(st.acts) + 1 /\ two.acts \in Seq(Choice)
        /\ \A i \in 1..Len(st.acts) : two.acts[i] = st.acts[i]
        /\ two.acts[Len(st.acts) + 1] = c
    BY <1>1, <1>5, <2>1
  <2>4. \A i \in 1..Len(two.acts) : i \in 1..Len(st.acts) \/ i = Len(st.acts) + 1
    BY <1>1, <2>3
  <2>5. two.nav.detail.peer \in {n.detail.peer, NoOne} /\ c.peer \in {n.detail.peer, NoOne}
    BY <1>5, <1>6, <2>1 DEF Midway
  <2>6. /\ c.act = "Open" => c.peer = NoOne
        /\ c.act \in {"Reply", "SendPosition"} => c.peer # NoOne
    BY <1>1, <1>5 DEF KeyDid, HasHighlight, IsList, InThread
  <2>7. \A i \in 1..Len(st.acts) : st.acts[i].peer = NoOne => c.peer = NoOne
    BY <1>5 DEF Midway
  <2>8. \A i \in 1..Len(two.acts) :
            /\ two.acts[i].peer = NoOne => two.nav.detail.peer = NoOne
            /\ two.acts[i].line = face /\ two.acts[i].alone = alone
    <3>1. \A i \in 1..Len(st.acts) :
            /\ st.acts[i].peer = NoOne => st.nav.detail.peer = NoOne
            /\ st.acts[i].line = face /\ st.acts[i].alone = alone
      BY DEF Midway
    <3> QED
      BY <1>5, <1>6, <2>1, <2>3, <2>4, <3>1
  <2>9. Chose(n.detail.peer, two.acts)
    <3>1. Chose(n.detail.peer, st.acts)
      BY DEF Midway
    <3>2. ASSUME NEW i \in 1..Len(two.acts)
          PROVE  /\ two.acts[i].peer \in {n.detail.peer, NoOne}
                 /\ two.acts[i].act = "Open" => two.acts[i].peer = NoOne
                 /\ two.acts[i].act \in {"Reply", "SendPosition"} => two.acts[i].peer # NoOne
      <4>1. CASE i \in 1..Len(st.acts)
        BY <2>3, <3>1, <4>1 DEF Chose
      <4>2. CASE i = Len(st.acts) + 1
        BY <2>3, <2>5, <2>6, <4>2
      <4> QED
        BY <2>4, <4>1, <4>2
    <3>3. ASSUME NEW i \in 1..Len(two.acts), NEW j \in 1..Len(two.acts), i < j,
                 two.acts[i].peer = NoOne
          PROVE  two.acts[j].peer = NoOne
      <4>1. Len(st.acts) \in Nat
        BY <1>1
      <4>2. i \in 1..Len(st.acts)
        BY <2>3, <3>3, <4>1
      <4>3. CASE j \in 1..Len(st.acts)
        BY <2>3, <3>1, <3>3, <4>2, <4>3 DEF Chose
      <4>4. CASE j = Len(st.acts) + 1
        BY <2>3, <2>7, <3>3, <4>2, <4>4
      <4> QED
        BY <2>4, <4>3, <4>4
    <3> QED
      BY <3>2, <3>3 DEF Chose
  <2>10. CASE st.nav.over.kind = "compose"
    <3>1. st.acts = <<>> /\ r.act = "SendTyped"
      BY <1>1, <1>9, <2>10 DEF Midway, KeyDid
    <3>2. SendsTyped(r.nav) /\ r.nav.detail.peer = st.nav.detail.peer
      BY <1>1, <3>1 DEF KeyDid
    <3>3. Len(two.acts) = 1 /\ two.acts[1] = c
      BY <2>3, <3>1
    <3>4. TypedAlone(two.nav, two.acts)
      BY <1>5, <2>1, <3>2, <3>3 DEF TypedAlone
    <3>5. two \in [nav : Navs, acts : Seq(Choice)]
      BY <1>4, <1>6, <2>1, <2>3
    <3>6. two \in Midway(n, alone)
      BY <1>5, <2>1, <2>2, <2>5, <2>8, <2>9, <3>1, <3>2, <3>3, <3>4, <3>5 DEF Midway
    <3> QED
      BY <3>6 DEF two
  <2>11. CASE st.nav.over.kind # "compose"
    <3>1. r.nav.over.kind # "compose" /\ r.act # "SendTyped"
      BY <1>1, <2>11 DEF KeyDid
    <3>2. ~SendsTyped(r.nav)
      BY <3>1 DEF SendsTyped
    <3>3. \A i \in 1..Len(st.acts) : st.acts[i].act # "SendTyped"
      BY <1>9 DEF Midway, TypedAlone
    <3>4. TypedAlone(two.nav, two.acts)
      BY <1>5, <2>3, <2>4, <3>1, <3>3 DEF TypedAlone
    <3>5. two \in [nav : Navs, acts : Seq(Choice)]
      BY <1>4, <1>6, <2>1, <2>3
    <3>6. two \in Midway(n, alone)
      BY <2>1, <2>2, <2>5, <2>8, <2>9, <3>1, <3>2, <3>4, <3>5 DEF Midway
    <3> QED
      BY <3>6 DEF two
  <2> QED
    BY <2>10, <2>11
<1> QED
  BY <1>7, <1>8, <1>9

(* Ui::drain, press by press. *)
LEMMA HandledRun ==
    ASSUME NEW n \in Navs, NEW keys \in Seq(Input), face \in Peer \cup {NoOne}
    PROVE  \E g \in [0..Len(keys) -> Midway(n, Len(keys) = 1)] :
               /\ g[0] = [nav |-> n, acts |-> <<>>]
               /\ \A i \in 1..Len(keys) : g[i] = One(g[i - 1], keys[i], Len(keys) = 1)
               /\ Handled(n, keys) = g[Len(keys)]
<1> DEFINE len == Len(keys)
           alone == Len(keys) = 1
           X == Midway(n, alone)
           d == [nav |-> n, acts |-> <<>>]
           G(g) == g = [i \in 0..len |-> IF i = 0 THEN d ELSE One(g[i-1], keys[i], alone)]
           g1 == CHOOSE g : G(g)
           step == [i \in 1..len |-> [st \in X |-> One(st, keys[i], alone)]]
<1>1. Handled(n, keys) = g1[len]
  BY DEF Handled, One
<1>2. len \in Nat /\ alone \in BOOLEAN /\ \A i \in 1..len : keys[i] \in Input
  OBVIOUS
<1>3. d \in X
  <2>1. d.nav = n /\ d.acts = <<>> /\ d \in [nav : Navs, acts : Seq(Choice)]
    OBVIOUS
  <2> HIDE DEF d
  <2>2. Len(d.acts) = 0
    BY <2>1
  <2> QED
    BY <2>1, <2>2 DEF Midway, Chose, TypedAlone
<1> HIDE DEF d, alone
<1>4. \A i \in 1..len, st \in X : One(st, keys[i], alone) \in X
  BY <1>2, OneMore
<1>5. step \in [1..len -> [X -> X]]
  BY <1>4
<1>6. \A i \in 1..len, st \in X : step[i][st] = One(st, keys[i], alone)
  OBVIOUS
<1> HIDE DEF step, len, X
<1>7. PICK g \in [0..len -> X] : g[0] = d /\ \A i \in 1..len : g[i] = step[i][g[i - 1]]
  <2>1. Runs(len, X, d, step) # {}
    BY <1>2, <1>3, <1>5, RunExists
  <2> QED
    BY <2>1 DEF Runs
<1>8. \A i \in 1..len : i - 1 \in 0..len /\ i \in 0..len
  BY <1>2
<1>9. \A i \in 1..len : g[i] = One(g[i - 1], keys[i], alone)
  BY <1>6, <1>7, <1>8
<1> DEFINE w == [i \in 0..len |-> IF i = 0 THEN d ELSE One(g[i-1], keys[i], alone)]
<1>10. \A i \in 0..len : g[i] = w[i]
  BY <1>2, <1>7, <1>9
<1>11. G(g)
  BY <1>7, <1>10
<1>12. G(g1)
  BY <1>11
<1> HIDE DEF g1
<1>13. /\ DOMAIN g1 = 0..len /\ g1[0] = d
       /\ \A i \in 1..len : g1[i] = One(g1[i - 1], keys[i], alone)
  BY <1>2, <1>12
<1> DEFINE S == {i \in 0..len : g1[i] \in X}
<1>14. 0 \in S
  BY <1>2, <1>3, <1>13
<1>15. \A i \in 0..(len - 1) : i \in S => i + 1 \in S
  <2> TAKE i \in 0..(len - 1)
  <2> HAVE i \in S
  <2>1. i + 1 \in 1..len /\ (i + 1) - 1 = i /\ i + 1 \in 0..len
    BY <1>2
  <2>2. g1[i + 1] = One(g1[i], keys[i + 1], alone)
    BY <1>13, <2>1
  <2>3. g1[i + 1] \in X
    BY <1>4, <2>1, <2>2
  <2> QED
    BY <2>1, <2>3
<1> HIDE DEF S
<1>16. \A i \in 0..len : i \in S
  BY <1>2, <1>14, <1>15, UpTo
<1>17. g1 \in [0..len -> X]
  <2>1. \A i \in 0..len : g1[i] \in X
    BY <1>16 DEF S
  <2>2. g1 = [i \in 0..len |-> IF i = 0 THEN d ELSE One(g1[i-1], keys[i], alone)]
    BY <1>12
  <2> QED
    BY <2>1, <2>2
<1> QED
  BY <1>1, <1>13, <1>17 DEF d, alone, len, X

LEMMA HandledFacts ==
    ASSUME NEW n \in Navs, NEW keys \in Seq(Input), face \in Peer \cup {NoOne}
    PROVE  LET r == Handled(n, keys) IN
           /\ r \in Midway(n, Len(keys) = 1)
           /\ Len(r.acts) <= Len(keys)
           /\ Len(keys) = 1 /\ r.acts # <<>> =>
                 /\ Len(r.acts) = 1
                 /\ r.acts[1].act = "Open" =>
                       HasHighlight(n) /\ n.over.kind = "none" /\ r.nav = n
<1> DEFINE len == Len(keys)  alone == Len(keys) = 1  X == Midway(n, alone)
<1>1. PICK g \in [0..len -> X] :
        /\ g[0] = [nav |-> n, acts |-> <<>>]
        /\ \A i \in 1..len : g[i] = One(g[i - 1], keys[i], alone)
        /\ Handled(n, keys) = g[len]
  BY HandledRun
<1>2. len \in Nat /\ \A i \in 1..len : i - 1 \in 0..len /\ i \in 0..len
  OBVIOUS
<1>3. \A i \in 0..len : g[i].acts \in Seq(Choice) /\ g[i].nav \in Navs
  BY <1>1 DEF Midway
<1> HIDE DEF X, alone
<1> DEFINE S == {i \in 0..len : Len(g[i].acts) <= i}
<1>4. 0 \in S
  BY <1>1, <1>2
<1>5. \A i \in 0..(len - 1) : i \in S => i + 1 \in S
  <2> TAKE i \in 0..(len - 1)
  <2> HAVE i \in S
  <2>1. i + 1 \in 1..len /\ (i + 1) - 1 = i /\ i \in 0..len /\ i + 1 \in 0..len
    BY <1>2
  <2>2. g[i + 1] = One(g[i], keys[i + 1], alone) /\ Len(g[i].acts) <= i
    BY <1>1, <2>1
  <2>3. Len(g[i + 1].acts) \in {Len(g[i].acts), Len(g[i].acts) + 1}
    <3>1. g[i].acts \in Seq(Choice)
      BY <1>3, <2>1
    <3>2. \E c : g[i + 1].acts \in {g[i].acts, Append(g[i].acts, c)}
      BY <2>2 DEF One
    <3>3. \A c : Len(Append(g[i].acts, c)) = Len(g[i].acts) + 1
      BY <3>1
    <3> QED
      BY <3>2, <3>3
  <2>4. Len(g[i].acts) \in Nat
    BY <1>3, <2>1
  <2> QED
    BY <2>1, <2>2, <2>3, <2>4
<1> HIDE DEF S
<1>6. \A i \in 0..len : i \in S
  BY <1>2, <1>4, <1>5, UpTo
<1>7. Len(g[len].acts) <= len /\ g[len] \in X /\ g[len].acts \in Seq(Choice)
  BY <1>1, <1>2, <1>3, <1>6 DEF S
<1>8. ASSUME len = 1, g[len].acts # <<>>
      PROVE  /\ Len(g[len].acts) = 1
             /\ g[len].acts[1].act = "Open" =>
                   HasHighlight(n) /\ n.over.kind = "none" /\ g[len].nav = n
  <2>1. Len(g[len].acts) = 1
    BY <1>7, <1>8
  <2>2. g[1] = One(g[0], keys[1], alone) /\ g[0].nav = n /\ g[0].acts = <<>>
    BY <1>1, <1>2, <1>8
  <2> DEFINE r == HandleKey(n, keys[1])
  <2>3. keys[1] \in Input
    BY <1>8
  <2>4. KeyDid(n, r)
    BY <2>3, HandleDid
  <2> HIDE DEF r
  <2>5. g[1].nav = r.nav
    BY <2>2 DEF One, r
  <2>6. \E c : c.act = r.act /\ g[1].acts \in {<<>>, Append(<<>>, c)}
    BY <2>2 DEF One, r
  <2>7. g[1].acts[1].act = r.act
    BY <1>8, <2>6
  <2> QED
    BY <1>8, <2>1, <2>4, <2>5, <2>7 DEF KeyDid
<1> QED
  BY <1>1, <1>7, <1>8 DEF X, alone

-----------------------------------------------------------------------------
(* What the node has, and what is drawn of it. *)
Entry == [peer : Peer, read : BOOLEAN]
Logged == log \in Seq(Entry)

LEMMA Entries ==
    ASSUME Logged
    PROVE  /\ Len(log) \in Nat /\ DOMAIN log = 1..Len(log)
           /\ \A i \in 1..Len(log) :
                log[i] \in Entry /\ log[i].peer \in Peer /\ log[i].read \in BOOLEAN
<1>1. Len(log) \in Nat /\ DOMAIN log = 1..Len(log) /\ \A i \in 1..Len(log) : log[i] \in Entry
  BY DEF Logged
<1> QED
  BY <1>1 DEF Entry

LEMMA Threads ==
    ASSUME Logged
    PROVE  /\ Len(log) \in Nat
           /\ \A p : IsFiniteSet(With(p)) /\ CountWith(p) \in Nat
           /\ \A i \in 1..Len(log) : Number(i) \in Nat /\ Number(i) >= 1
<1>1. Len(log) \in Nat
  BY DEF Logged
<1>2. IsFiniteSet(1..Len(log))
  BY <1>1, FS_Interval
<1>3. \A p : IsFiniteSet(With(p)) /\ CountWith(p) \in Nat
  <2> TAKE p
  <2>1. With(p) \subseteq 1..Len(log)
    BY DEF With
  <2> QED
    BY <1>2, <2>1, FS_Subset, FS_CardinalityType DEF CountWith
<1>4. ASSUME NEW i \in 1..Len(log) PROVE Number(i) \in Nat /\ Number(i) >= 1
  <2> DEFINE N == {j \in With(log[i].peer) : j <= i}
  <2>1. i \in With(log[i].peer) /\ i <= i
    BY <1>1 DEF With
  <2>2. i \in N
    BY <2>1
  <2>3. IsFiniteSet(N)
    BY <1>3, FS_Subset
  <2>4. Cardinality(N) \in Nat /\ Cardinality(N) # 0
    BY <2>2, <2>3, FS_CardinalityType, FS_EmptySet
  <2> QED
    BY <2>4 DEF Number
<1> QED
  BY <1>1, <1>3, <1>4

LEMMA ToFrontType ==
    ASSUME NEW s \in Seq(Peer), NEW p \in Peer
    PROVE  ToFront(s, p) \in Seq(Peer)
<1> DEFINE at == {i \in 1..Len(s) : s[i] = p}  k == CHOOSE i \in at : TRUE
<1>1. <<p>> \in Seq(Peer)
  OBVIOUS
<1>2. at # {} => RemoveAt(s, k) \in Seq(Peer)
  <2>1. at # {} => k \in 1..Len(s)
    OBVIOUS
  <2> HIDE DEF k
  <2>2. Len(s) \in Nat
    OBVIOUS
  <2>3. at # {} => SubSeq(s, 1, k - 1) \in Seq(Peer) /\ SubSeq(s, k + 1, Len(s)) \in Seq(Peer)
    BY <2>1, <2>2
  <2> QED
    BY <2>3 DEF RemoveAt
<1>3. ToFront(s, p) = <<p>> \o (IF at = {} THEN s ELSE RemoveAt(s, k))
  BY DEF ToFront
<1> HIDE DEF at, k
<1> QED
  BY <1>1, <1>2, <1>3

LEMMA ConversationsType ==
    ASSUME Logged
    PROVE  Conversations \in Seq(Peer)
<1> DEFINE len == Len(log)
           X == Seq(Peer)
           G(g) == g = [i \in 0..len |-> IF i = 0 THEN <<>> ELSE ToFront(g[i-1], log[i].peer)]
           g1 == CHOOSE g : G(g)
           step == [i \in 1..len |-> [s \in X |-> ToFront(s, log[i].peer)]]
<1>1. Conversations = g1[len]
  BY DEF Conversations
<1>2. len \in Nat /\ \A i \in 1..len : log[i].peer \in Peer
  BY Entries
<1>3. <<>> \in X
  OBVIOUS
<1> HIDE DEF X
<1>4. \A i \in 1..len, s \in X : ToFront(s, log[i].peer) \in X
  BY <1>2, ToFrontType DEF X
<1>5. step \in [1..len -> [X -> X]]
  BY <1>4
<1>6. \A i \in 1..len, s \in X : step[i][s] = ToFront(s, log[i].peer)
  OBVIOUS
<1> HIDE DEF step, len
<1>7. PICK g \in [0..len -> X] : g[0] = <<>> /\ \A i \in 1..len : g[i] = step[i][g[i - 1]]
  <2>1. Runs(len, X, <<>>, step) # {}
    BY <1>2, <1>3, <1>5, RunExists
  <2> QED
    BY <2>1 DEF Runs
<1>8. \A i \in 1..len : i - 1 \in 0..len /\ i \in 0..len
  BY <1>2
<1>9. \A i \in 1..len : g[i] = ToFront(g[i - 1], log[i].peer)
  BY <1>6, <1>7, <1>8
<1> DEFINE w == [i \in 0..len |-> IF i = 0 THEN <<>> ELSE ToFront(g[i-1], log[i].peer)]
<1>10. \A i \in 0..len : g[i] = w[i]
  BY <1>2, <1>7, <1>9
<1>11. G(g)
  BY <1>7, <1>10
<1>12. G(g1)
  BY <1>11
<1> HIDE DEF g1
<1>13. /\ DOMAIN g1 = 0..len /\ g1[0] = <<>>
       /\ \A i \in 1..len : g1[i] = ToFront(g1[i - 1], log[i].peer)
  BY <1>2, <1>12
<1> DEFINE S == {i \in 0..len : g1[i] \in X}
<1>14. 0 \in S
  BY <1>2, <1>3, <1>13
<1>15. \A i \in 0..(len - 1) : i \in S => i + 1 \in S
  <2> TAKE i \in 0..(len - 1)
  <2> HAVE i \in S
  <2>1. i + 1 \in 1..len /\ (i + 1) - 1 = i /\ i + 1 \in 0..len
    BY <1>2
  <2>2. g1[i + 1] = ToFront(g1[i], log[i + 1].peer)
    BY <1>13, <2>1
  <2>3. g1[i + 1] \in X
    BY <1>4, <2>1, <2>2
  <2> QED
    BY <2>1, <2>3
<1> HIDE DEF S
<1>16. \A i \in 0..len : i \in S
  BY <1>2, <1>14, <1>15, UpTo
<1>17. g1[len] \in X
  BY <1>2, <1>16 DEF S
<1> QED
  BY <1>1, <1>17 DEF X

LEMMA LinesType ==
    ASSUME NEW k \in Nat
    PROVE  ThreadLines(k) \in Nat /\ (k >= 1 => StopOf(k) \in Nat)
<1>1. \A a, b \in Nat : a * b \in Nat
  OBVIOUS
<1>2. Height + 1 \in Nat /\ Height >= 1 /\ Height \in Nat
  BY PanelAssumption
<1>3. k >= 1 => k - 1 \in Nat /\ (k - 1) * (Height + 1) \in Nat
  BY <1>1, <1>2
<1>4. k >= 1 => k * (Height + 1) = (k - 1) * (Height + 1) + (Height + 1)
  BY <1>2
<1> QED
  BY <1>2, <1>3, <1>4 DEF ThreadLines, StopOf

LEMMA FirstUnreadType ==
    ASSUME Logged, NEW p
    PROVE  FirstUnread(p) \in Nat
<1> DEFINE unread == {i \in With(p) : ~log[i].read}
<1>1. Len(log) \in Nat /\ CountWith(p) \in Nat
  BY Threads
<1>2. unread \subseteq 1..Len(log) /\ unread \subseteq Nat
  BY <1>1 DEF With
<1> HIDE DEF unread
<1> DEFINE first == CHOOSE i \in unread : \A j \in unread : i <= j
<1>3. unread # {} => first \in unread
  <2>1. unread # {} => \E i \in unread : \A j \in unread : i <= j
    BY <1>2, FirstThere
  <2> QED
    BY <2>1
<1> HIDE DEF first
<1>4. unread # {} => Number(first) \in Nat /\ Number(first) >= 1
  BY <1>2, <1>3, Threads
<1>5. unread # {} => StopOf(Number(first)) \in Nat
  BY <1>4, LinesType
<1>6. ThreadLines(CountWith(p)) \in Nat
  BY <1>1, LinesType
<1>7. FirstUnread(p) = IF unread = {} THEN ThreadLines(CountWith(p)) ELSE StopOf(Number(first))
  BY DEF FirstUnread, unread, first
<1> QED
  BY <1>5, <1>6, <1>7

(* Nav::set_content. *)
LEMMA ContentFacts ==
    ASSUME NEW n \in NavSet, NEW lines \in Nat
    PROVE  LET m == WithContent(n, lines) IN
           /\ m \in NavSet
           /\ m.screen = n.screen /\ m.over = n.over /\ m.detail = n.detail
           /\ m.visible = Rows /\ m.place.lines = lines
<1> DEFINE k == [n EXCEPT !.place.lines = lines, !.visible = Rows]
<1>1. n.place \in Place
  BY DEF NavSet
<1>2. [n.place EXCEPT !.lines = lines] \in Place /\ Rows \in {0, Rows}
  BY <1>1 DEF Place
<1>3. /\ k \in NavSet /\ k.screen = n.screen /\ k.over = n.over /\ k.detail = n.detail
      /\ k.visible = Rows /\ k.place = [n.place EXCEPT !.lines = lines]
  BY <1>1, <1>2 DEF NavSet
<1>4. k.place.lines = lines /\ k.place.scroll \in Nat /\ k.place \in Place
  BY <1>1, <1>2, <1>3 DEF Place
<1>5. WithContent(n, lines) = ScrolledTo(k, k.place.scroll)
  BY DEF WithContent
<1> HIDE DEF k
<1> DEFINE m == ScrolledTo(k, k.place.scroll)
<1>6. m \in NavSet /\ SameFrame(m, k)
      /\ m.place = [k.place EXCEPT !.scroll = Least(k.place.scroll, MaxScroll(k))]
  BY <1>3, <1>4, ScrolledToFacts
<1>7. m.place.lines = lines
  BY <1>4, <1>6 DEF Place
<1> QED
  BY <1>3, <1>5, <1>6, <1>7 DEF SameFrame

(* A thread as drawn: the same one, with its messages counted. *)
LEMMA DrawnThreadFacts ==
    ASSUME Logged, NEW n \in Navs, InThread(n)
    PROVE  LET m == DrawnThread(n) IN
           /\ m \in Navs /\ m.over = n.over
           /\ m.detail.peer = n.detail.peer
<1> DEFINE p == n.detail.peer  total == ThreadLines(CountWith(p))
           m == WithContent(n, total)
           placed == IF ~n.detail.placed THEN ScrolledTo(m, FirstUnread(p))
                     ELSE IF n.detail.toEnd THEN ScrolledTo(m, total) ELSE m
           d == [placed EXCEPT !.detail.count = CountWith(p),
                               !.detail.placed = TRUE, !.detail.toEnd = FALSE]
<1>1. n \in NavSet /\ CountWith(p) \in Nat /\ total \in Nat /\ FirstUnread(p) \in Nat
  BY Threads, LinesType, FirstUnreadType DEF Navs
<1>2. m \in NavSet /\ m.screen = n.screen /\ m.over = n.over /\ m.detail = n.detail
  BY <1>1, ContentFacts
<1> HIDE DEF m, total
<1>3. placed \in NavSet /\ SameFrame(placed, m)
  <2>1. SameFrame(m, m)
    BY DEF SameFrame
  <2>2. /\ ScrolledTo(m, FirstUnread(p)) \in NavSet /\ SameFrame(ScrolledTo(m, FirstUnread(p)), m)
        /\ ScrolledTo(m, total) \in NavSet /\ SameFrame(ScrolledTo(m, total), m)
    BY <1>1, <1>2, ScrolledToFacts
  <2> QED
    BY <1>2, <2>1, <2>2
<1>4. DrawnThread(n) = d
  BY DEF DrawnThread, m, total
<1> HIDE DEF placed, p
<1>5. /\ placed \in NavSet /\ placed.screen = n.screen /\ placed.over = n.over
      /\ placed.detail = n.detail /\ placed.detail \in Detail
  BY <1>2, <1>3 DEF SameFrame, NavSet
<1>6. /\ d \in NavSet /\ d.screen = n.screen /\ d.over = n.over
      /\ d.detail.peer = n.detail.peer
  BY <1>1, <1>5 DEF NavSet, Detail
<1> HIDE DEF d
<1>7. ItemsOf(d) = ItemsOf(n)
  BY <1>6 DEF ItemsOf, InThread, Current
<1> QED
  BY <1>4, <1>6, <1>7 DEF Navs

(* Nav::follow leaves the whole of the highlighted entry in view, if it    *)
(* fits, and never shows what is past the end.                             *)
LEMMA FollowedInView ==
    ASSUME NEW n \in NavSet, n.visible = Rows,
           n.place.selected < n.place.entries,
           n.place.lines = n.place.entries * n.place.per
    PROVE  InView(Followed(n))
<1> DEFINE s == n.place.selected  e == n.place.entries  per == n.place.per
           top == s * per  foot == top + per
           max == MaxScroll(n)  scroll == n.place.scroll  f == Followed(n)
<1>1. n.place \in Place /\ max \in Nat /\ Rows \in Nat /\ Rows >= 1
  BY MaxScrollType, PanelAssumption
<1>2. s \in Nat /\ e \in Nat /\ per \in {1, 2} /\ scroll \in Nat /\ n.place.lines \in Nat
  BY <1>1 DEF Place
<1>3. top \in Nat /\ foot \in Nat /\ foot <= n.place.lines /\ (s + 1) * per = foot
  <2>1. CASE per = 1
    BY <1>2, <2>1
  <2>2. CASE per = 2
    BY <1>2, <2>2
  <2> QED
    BY <1>2, <2>1, <2>2
<1>4. max = Less(n.place.lines, Rows)
  BY DEF MaxScroll
<1>5. max + Rows >= n.place.lines /\ (n.place.lines >= Rows => max = n.place.lines - Rows)
  BY <1>1, <1>2, <1>4 DEF Less
<1> DEFINE to == IF top < scroll THEN top
                 ELSE IF Rows > 0 /\ foot > scroll + Rows THEN Less(foot, Rows) ELSE scroll
<1> HIDE DEF s, e, per, top, foot, max, scroll
<1>6. f = ScrolledTo(n, to)
  BY DEF Followed, s, per, top, foot, scroll
<1>7. to \in Nat
  BY <1>1, <1>2, <1>3, LeastFacts
<1>8. foot > Rows => Less(foot, Rows) = foot - Rows
  BY <1>1, <1>3, LeastFacts
<1> DEFINE at == Least(to, max)
<1>9. at \in Nat /\ at <= max /\ at <= to /\ at \in {to, max}
  BY <1>1, <1>7, LeastFacts
<1>10. f.place = [n.place EXCEPT !.scroll = at] /\ SameFrame(f, n)
  BY <1>6, <1>7, ScrolledToFacts DEF max
<1> HIDE DEF at
<1>11. per <= Rows => at <= top /\ foot <= at + Rows
  <2>1. CASE top < scroll
    <3>1. to = top
      BY <2>1
    <3> QED
      BY <1>1, <1>2, <1>3, <1>5, <1>9, <3>1 DEF foot
  <2>2. CASE ~(top < scroll) /\ foot > scroll + Rows
    <3>1. to = foot - Rows
      BY <1>1, <1>2, <1>3, <1>8, <2>2
    <3>2. to <= max
      BY <1>1, <1>2, <1>3, <1>5, <2>2, <3>1
    <3>3. at = to
      BY <1>1, <1>7, <1>9, <3>2
    <3> QED
      BY <1>1, <1>2, <1>3, <3>1, <3>3 DEF foot
  <2>3. CASE ~(top < scroll) /\ ~(foot > scroll + Rows)
    <3>1. to = scroll
      BY <2>3
    <3>2. at = scroll \/ at = max
      BY <1>9, <3>1
    <3>3. at <= top
      BY <1>2, <1>3, <1>9, <2>3, <3>1
    <3>4. foot <= scroll + Rows /\ foot <= max + Rows
      BY <1>1, <1>2, <1>3, <1>5, <2>3
    <3> QED
      BY <3>2, <3>3, <3>4
  <2> QED
    BY <2>1, <2>2, <2>3
<1> HIDE DEF to, f
<1>12. f.place.scroll = at /\ f.place.selected = s /\ f.place.per = per
       /\ f.place.entries = e /\ MaxScroll(f) = max
  BY <1>1, <1>10 DEF SameFrame, MaxScroll, Place, s, per, e, max
<1>13. InView(f)
  BY <1>3, <1>9, <1>11, <1>12 DEF InView, s, e, top
<1> QED
  BY <1>13 DEF f

(* A screen as drawn. *)
LEMMA DrawnScreenFacts ==
    ASSUME NEW n \in Navs, ~InThread(n), NEW lists \in [Lists -> Seq(Peer)],
           NEW plain \in Plain
    PROVE  LET m == DrawnScreen(n, lists, plain) IN
           /\ m \in Navs /\ m.over = n.over /\ m.detail = n.detail
           /\ HasHighlight(m) => InView(m)
<1> DEFINE m == DrawnScreen(n, lists, plain)  screen == Current(n)
<1>1. n \in NavSet
  BY DEF Navs
<1>2. ASSUME NEW k \in NavSet, k.screen = n.screen, k.over = n.over, k.detail = n.detail
      PROVE  /\ k \in Navs /\ Current(k) = screen /\ ~InThread(k)
  <2>1. ItemsOf(k) = ItemsOf(n)
    BY <1>2 DEF ItemsOf, InThread, Current
  <2> QED
    BY <1>2, <2>1 DEF Navs, Current, InThread
<1>3. CASE screen \notin Lists
  <2>1. plain \in Nat
    BY PanelAssumption
  <2>2. m = WithContent(n, plain)
    BY <1>3 DEF DrawnScreen
  <2>3. m \in NavSet /\ m.screen = n.screen /\ m.over = n.over /\ m.detail = n.detail
    BY <1>1, <2>1, <2>2, ContentFacts
  <2>4. m \in Navs /\ Current(m) = screen
    BY <1>2, <2>3
  <2>5. ~HasHighlight(m)
    BY <1>3, <2>4 DEF HasHighlight, IsList
  <2> QED
    BY <2>3, <2>4, <2>5
<1>4. CASE screen \in Lists
  <2> DEFINE len == Len(lists[screen])
             per == IF len = 0 THEN 1 ELSE ListLines[screen]
             lines == IF len = 0 THEN 1 ELSE len * ListLines[screen]
             w == WithContent(n, lines)
             e == [w EXCEPT !.place.entries = len, !.place.per = per,
                            !.place.selected = Least(@, Less(len, 1))]
  <2>1. len \in Nat /\ (lists[screen] = <<>> <=> len = 0)
    <3>1. lists[screen] \in Seq(Peer)
      BY <1>4
    <3> QED
      BY <3>1
  <2>2. ListLines[screen] \in {1, 2}
    BY <1>4 DEF ListLines, Lists
  <2>3. lines \in Nat /\ per \in {1, 2} /\ (len > 0 => lines = len * per)
    BY <2>1, <2>2
  <2>4. m = WithEntries(w, len, per)
    BY <1>4, <2>1 DEF DrawnScreen
  <2> HIDE DEF len, per, lines
  <2>5. /\ w \in NavSet /\ w.screen = n.screen /\ w.over = n.over /\ w.detail = n.detail
        /\ w.visible = Rows /\ w.place.lines = lines
    BY <1>1, <2>3, ContentFacts
  <2> HIDE DEF w
  <2>6. w.place \in Place /\ w.place.selected \in Nat
    BY <2>5 DEF NavSet, Place
  <2>7. Less(len, 1) \in Nat /\ (len > 0 => Less(len, 1) = len - 1)
    BY <2>1, LeastFacts DEF Less
  <2> DEFINE sel == Least(w.place.selected, Less(len, 1))
  <2>8. sel \in Nat /\ (len > 0 => sel < len)
    <3>1. sel \in Nat /\ sel <= Less(len, 1)
      BY <2>6, <2>7, LeastFacts
    <3> QED
      BY <2>1, <2>7, <3>1
  <2>9. e = [w EXCEPT !.place = [w.place EXCEPT !.entries = len, !.per = per, !.selected = sel]]
    BY <2>5, <2>6 DEF NavSet, Place
  <2> HIDE DEF sel
  <2> DEFINE pl == [w.place EXCEPT !.entries = len, !.per = per, !.selected = sel]
  <2>10. pl \in Place /\ pl.entries = len /\ pl.per = per /\ pl.selected = sel
         /\ pl.lines = lines
    BY <2>1, <2>3, <2>5, <2>6, <2>8 DEF Place
  <2>11. e \in NavSet /\ SameFrame(e, w) /\ e.place = pl
    BY <2>5, <2>9, <2>10, PlaceChanged
  <2>12. IsList(w)
    BY <1>2, <1>4, <2>5 DEF IsList
  <2>13. m = IF len > 0 THEN Followed(e) ELSE e
    BY <2>4, <2>12 DEF WithEntries
  <2> HIDE DEF e, pl, m
  <2>14. CASE len > 0
    <3>1. InView(Followed(e)) /\ Followed(e) \in NavSet /\ SameFrame(Followed(e), e)
      <4>1. e.visible = Rows
        BY <2>5, <2>11 DEF SameFrame
      <4>2. e.place.selected < e.place.entries /\ e.place.lines = e.place.entries * e.place.per
        BY <2>3, <2>8, <2>10, <2>11, <2>14
      <4> QED
        BY <2>11, <4>1, <4>2, FollowedInView, FollowedFacts
    <3>2. m \in NavSet /\ m.screen = n.screen /\ m.over = n.over /\ m.detail = n.detail
      BY <2>5, <2>11, <2>13, <2>14, <3>1 DEF SameFrame
    <3> QED
      BY <1>2, <2>13, <2>14, <3>1, <3>2 DEF m
  <2>15. CASE ~(len > 0)
    <3>1. m \in NavSet /\ m.screen = n.screen /\ m.over = n.over /\ m.detail = n.detail
      BY <2>5, <2>11, <2>13, <2>15 DEF SameFrame
    <3>2. ~HasHighlight(m)
      BY <2>10, <2>11, <2>13, <2>15 DEF HasHighlight
    <3> QED
      BY <1>2, <3>1, <3>2 DEF m
  <2> QED
    BY <2>14, <2>15
<1> QED
  BY <1>3, <1>4

(* screens::render_with: the overlay and the conversation stay, and a      *)
(* highlight is in view where nothing is over the page.                    *)
LEMMA RenderedFacts ==
    ASSUME Logged, NEW n \in Navs, NEW lists \in [Lists -> Seq(Peer)], NEW plain \in Plain
    PROVE  LET m == Rendered(n, lists, plain) IN
           /\ m \in Navs /\ m.over = n.over /\ m.detail.peer = n.detail.peer
           /\ n.over.kind \in Modals => m = n
           /\ HasHighlight(m) /\ m.over.kind = "none" => InView(m)
<1> DEFINE m == Rendered(n, lists, plain)
<1>1. CASE n.over.kind \in Modals
  <2>1. m = n
    BY <1>1 DEF Rendered
  <2>2. n.over.kind # "none"
    BY <1>1 DEF Modals
  <2> QED
    BY <2>1, <2>2
<1>2. CASE n.over.kind \notin Modals /\ InThread(n)
  <2>1. m = DrawnThread(n)
    BY <1>2 DEF Rendered
  <2>2. m \in Navs /\ m.over = n.over /\ m.detail.peer = n.detail.peer
    BY <1>2, <2>1, DrawnThreadFacts
  <2>3. ~HasHighlight(m)
    BY <1>2, <2>2 DEF HasHighlight, IsList, InThread
  <2> QED
    BY <1>2, <2>2, <2>3
<1>3. CASE n.over.kind \notin Modals /\ ~InThread(n)
  <2>1. m = DrawnScreen(n, lists, plain)
    BY <1>3 DEF Rendered
  <2> QED
    BY <1>3, <2>1, DrawnScreenFacts
<1> QED
  BY <1>1, <1>2, <1>3

-----------------------------------------------------------------------------
(* The inductive invariant. *)

\* The state's types, the overlay's and the choices' included
PanelTypes ==
    /\ stage \in {"drain", "perform"}
    /\ {asleep, due, touched, arrived} \subseteq BOOLEAN
    /\ nav \in Navs /\ chosen \in Seq(Choice) /\ Len(chosen) <= Queue
    /\ Logged /\ Len(log) <= MaxLog
    /\ drawn \in [Lists -> Seq(Peer)] /\ peers \in Seq(Peer)
    /\ face \in Peer \cup {NoOne}

\* What is chosen is for the conversation that is open, or was left since;
\* a line is opened after every conversation was left.
InItsThread(n, acts) ==
    /\ \A i \in 1..Len(acts) :
        /\ acts[i].act = "Open" => acts[i].peer = NoOne
        /\ acts[i].act \in {"Reply", "SendPosition"} =>
              acts[i].peer # NoOne /\ n.detail.peer \in {acts[i].peer, NoOne}
    /\ \A i, j \in 1..Len(acts) :
        i < j /\ acts[i].peer = NoOne => acts[j].peer = NoOne

\* A keyboard that waits is over no conversation, or is answered in this pass.
Answerable(n, acts) ==
    SendsTyped(n) => IF acts = <<>> THEN ~InThread(n) ELSE acts[1].act = "SendTyped"

\* A lone press on a list has the line it was made on.
OnItsLine(n, acts) ==
    \A i \in 1..Len(acts) :
        acts[i].act = "Open" /\ acts[i].alone =>
            Len(acts) = 1 /\ acts[i].line = LineOf(n, drawn)

ChosenInv ==
    /\ InItsThread(nav, chosen) /\ TypedAlone(nav, chosen)
    /\ Answerable(nav, chosen) /\ OnItsLine(nav, chosen)
    /\ stage = "drain" => chosen = <<>>
    /\ chosen # <<>> => due

\* Until something is chosen, what the page last drawn shows is what is so.
ShownInv ==
    /\ (stage = "drain" \/ ~due) /\ nav.over.kind \notin Modals => face = LineOf(nav, drawn)
    /\ ~due /\ HasHighlight(nav) /\ nav.over.kind = "none" => InView(nav)

PressInv == PanelTypes /\ ChosenInv /\ ShownInv

LEMMA PanelStart == PanelInit => PressInv
<1> SUFFICES ASSUME PanelInit PROVE PressInv
  OBVIOUS
<1>1. Top \in Place /\ Bare \in Overlay /\ Bare.kind = "none"
  BY Overlays DEF Top, Place
<1>2. Closed \in Detail /\ Closed.peer = NoOne
  BY <1>1 DEF Closed, Detail
<1>3. 1 \in 1..Len(Strip)
  BY PanelAssumption
<1>4. /\ NewNav \in NavSet /\ NewNav.over = Bare /\ NewNav.place = Top
      /\ NewNav.detail = Closed
  BY <1>1, <1>2, <1>3 DEF NewNav, NavSet
<1>5. NewNav \in Navs
  BY <1>1, <1>4 DEF Navs
<1>6. Top.entries = 0
  BY DEF Top
<1>7. ~HasHighlight(NewNav)
  BY <1>4, <1>6 DEF HasHighlight
<1>8. \A d : LineOf(NewNav, d) = NoOne
  BY <1>7 DEF LineOf
<1>9. [l \in Lists |-> <<>>] \in [Lists -> Seq(Peer)]
  OBVIOUS
<1>10. Len(<<>>) = 0 /\ 0 <= Queue /\ 0 <= MaxLog
  BY PanelAssumption
<1>11. PanelTypes
  <2>1. asleep = FALSE /\ due = TRUE /\ touched = FALSE /\ arrived = FALSE /\ stage = "drain"
        /\ face = NoOne
    BY DEF PanelInit
  <2>2. chosen \in Seq(Choice) /\ log \in Seq(Entry) /\ peers \in Seq(Peer)
        /\ Len(chosen) <= Queue /\ Len(log) <= MaxLog
    BY <1>10 DEF PanelInit
  <2>3. nav \in Navs /\ drawn \in [Lists -> Seq(Peer)]
    BY <1>5, <1>9 DEF PanelInit
  <2> QED
    BY <2>1, <2>2, <2>3 DEF PanelTypes, Logged
<1>12. ChosenInv
  <2>1. chosen = <<>> /\ nav = NewNav /\ ~SendsTyped(NewNav)
    BY <1>1, <1>4 DEF PanelInit, SendsTyped
  <2> QED
    BY <1>10, <2>1 DEF ChosenInv, InItsThread, TypedAlone, Answerable, OnItsLine
<1>13. ShownInv
  BY <1>7, <1>8 DEF PanelInit, ShownInv
<1> QED
  BY <1>11, <1>12, <1>13 DEF PressInv

LEMMA SeqOfFacts ==
    ASSUME NEW keys \in SeqOf(Input, Queue)
    PROVE  keys \in Seq(Input) /\ Len(keys) \in Nat /\ Len(keys) <= Queue
<1>1. Queue \in Nat
  BY PanelAssumption
<1>2. PICK m \in 0..Queue : keys \in [1..m -> Input]
  BY DEF SeqOf
<1> QED
  BY <1>1, <1>2

LEMMA DrainKeeps ==
    ASSUME PressInv, NEW keys \in SeqOf(Input, Queue), Drain(keys)
    PROVE  PressInv'
<1>1. keys \in Seq(Input) /\ Len(keys) \in Nat /\ Len(keys) <= Queue
  BY SeqOfFacts
<1>2. CASE keys = <<>>
  <2>1. /\ nav' = nav /\ chosen' = chosen /\ due' = (due \/ arrived) /\ stage' = "perform"
        /\ UNCHANGED <<log, peers, drawn, face>> /\ chosen = <<>>
    BY <1>2 DEF Drain, PressInv, ChosenInv
  <2>2. {asleep', due', touched', arrived'} \subseteq BOOLEAN
    BY <1>2 DEF Drain, PressInv, PanelTypes
  <2>3. PanelTypes'
    BY <2>1, <2>2 DEF PressInv, PanelTypes, Logged
  <2>4. ChosenInv'
    BY <2>1 DEF PressInv, ChosenInv, InItsThread, TypedAlone, Answerable, OnItsLine, LineOf
  <2>5. ShownInv'
    <3>1. LineOf(nav, drawn)' = LineOf(nav, drawn) /\ HasHighlight(nav)' = HasHighlight(nav)
          /\ InView(nav)' = InView(nav)
      BY <2>1 DEF LineOf
    <3>2. due' = FALSE => due = FALSE
      BY <2>1 DEF PressInv, PanelTypes
    <3> QED
      BY <2>1, <3>1, <3>2 DEF PressInv, ShownInv, PanelTypes
  <2> QED
    BY <2>3, <2>4, <2>5 DEF PressInv
<1>3. CASE keys # <<>>
  <2> DEFINE k == IF asleep THEN Tail(keys) ELSE keys  r == Handled(nav, k)
             alone == Len(k) = 1
  <2>1. k \in Seq(Input) /\ Len(k) \in Nat /\ Len(k) <= Queue
    <3>1. Tail(keys) \in Seq(Input) /\ Len(Tail(keys)) = Len(keys) - 1 /\ Len(keys) >= 1
      BY <1>1, <1>3
    <3>2. Queue \in Nat
      BY PanelAssumption
    <3> QED
      BY <1>1, <3>1, <3>2
  <2>2. /\ nav' = r.nav /\ chosen' = r.acts /\ due' = TRUE /\ stage' = "perform"
        /\ UNCHANGED <<log, peers, drawn, face>>
    BY <1>3 DEF Drain, Drained
  <2>3. {asleep', due', touched', arrived'} \subseteq BOOLEAN
    BY <1>3, <2>2 DEF Drain, PressInv, PanelTypes
  <2>4. nav \in Navs /\ face \in Peer \cup {NoOne} /\ stage = "drain" /\ chosen = <<>>
    BY DEF PressInv, PanelTypes, ChosenInv, Drain
  <2> HIDE DEF k
  <2>5. /\ r \in Midway(nav, alone) /\ Len(r.acts) <= Len(k)
        /\ Len(k) = 1 /\ r.acts # <<>> =>
              /\ Len(r.acts) = 1
              /\ r.acts[1].act = "Open" =>
                    HasHighlight(nav) /\ nav.over.kind = "none" /\ r.nav = nav
    BY <2>1, <2>4, HandledFacts
  <2> HIDE DEF r, alone
  <2>6. r.nav \in Navs /\ r.acts \in Seq(Choice)
    BY <2>5 DEF Midway
  <2>7. Len(r.acts) <= Queue
    <3>1. Len(r.acts) \in Nat /\ Queue \in Nat
      BY <2>6, PanelAssumption
    <3> QED
      BY <2>1, <2>5, <3>1
  <2>8. PanelTypes'
    BY <2>2, <2>3, <2>6, <2>7 DEF PressInv, PanelTypes, Logged
  <2>9. InItsThread(r.nav, r.acts)
    BY <2>5 DEF Midway, Chose, InItsThread
  <2>10. TypedAlone(r.nav, r.acts)
    BY <2>5 DEF Midway
  <2>11. Answerable(r.nav, r.acts)
    <3>1. CASE SendsTyped(nav)
      <4>1. r.nav = nav /\ r.acts = <<>>
        BY <2>5, <3>1 DEF Midway
      <4> QED
        BY <2>4, <3>1, <4>1 DEF PressInv, ChosenInv, Answerable
    <3>2. CASE ~SendsTyped(nav)
      <4>1. SendsTyped(r.nav) => Len(r.acts) = 1 /\ r.acts[1].act = "SendTyped"
        BY <2>5, <3>2 DEF Midway
      <4> QED
        BY <2>6, <4>1 DEF Answerable
    <3> QED
      BY <3>1, <3>2
  <2>12. ASSUME NEW i \in 1..Len(r.acts), r.acts[i].act = "Open", r.acts[i].alone
         PROVE  Len(r.acts) = 1 /\ r.acts[i].line = LineOf(r.nav, drawn)
    <3>1. r.acts[i].line = face /\ Len(k) = 1
      BY <2>5, <2>12 DEF Midway, alone
    <3>2. r.acts # <<>> /\ Len(r.acts) = 1 /\ i = 1
      BY <2>5, <2>6, <3>1
    <3>3. nav.over.kind = "none" /\ r.nav = nav
      BY <2>5, <2>12, <3>1, <3>2
    <3>4. face = LineOf(nav, drawn)
      BY <2>4, <3>3 DEF PressInv, ShownInv, Modals
    <3> QED
      BY <3>1, <3>2, <3>3, <3>4
  <2>13. OnItsLine(nav, chosen)'
    BY <2>2, <2>12 DEF OnItsLine, LineOf
  <2>14. ChosenInv'
    BY <2>2, <2>9, <2>10, <2>11, <2>13 DEF ChosenInv, InItsThread, TypedAlone, Answerable
  <2>15. ShownInv'
    BY <2>2 DEF ShownInv
  <2> QED
    BY <2>8, <2>14, <2>15 DEF PressInv
<1> QED
  BY <1>2, <1>3

-----------------------------------------------------------------------------
(* What was chosen, done one at a time. *)
LEMMA HeadFacts ==
    ASSUME PressInv, chosen # <<>>
    PROVE  /\ Head(chosen) = chosen[1] /\ 1 \in 1..Len(chosen) /\ chosen[1] \in Choice
           /\ Tail(chosen) \in Seq(Choice) /\ Len(Tail(chosen)) = Len(chosen) - 1
           /\ Len(Tail(chosen)) <= Queue
           /\ \A i \in 1..Len(Tail(chosen)) :
                i + 1 \in 1..Len(chosen) /\ Tail(chosen)[i] = chosen[i + 1]
           /\ due = TRUE /\ stage = "perform"
           /\ chosen[1].act = "SendTyped" => Len(chosen) = 1
           /\ SendsTyped(nav) => chosen[1].act = "SendTyped"
<1>1. chosen \in Seq(Choice) /\ Len(chosen) <= Queue /\ Queue \in Nat
  BY PanelAssumption DEF PressInv, PanelTypes
<1>2. /\ Head(chosen) = chosen[1] /\ 1 \in 1..Len(chosen) /\ chosen[1] \in Choice
      /\ Tail(chosen) \in Seq(Choice) /\ Len(Tail(chosen)) = Len(chosen) - 1
  BY <1>1
<1>3. \A i \in 1..Len(Tail(chosen)) :
          i + 1 \in 1..Len(chosen) /\ Tail(chosen)[i] = chosen[i + 1]
  BY <1>1, <1>2
<1>4. Len(Tail(chosen)) <= Queue
  BY <1>1, <1>2
<1>5. due = TRUE /\ stage = "perform"
  BY DEF PressInv, PanelTypes, ChosenInv
<1>6. chosen[1].act = "SendTyped" => Len(chosen) = 1
  BY <1>2 DEF PressInv, ChosenInv, TypedAlone
<1>7. SendsTyped(nav) => chosen[1].act = "SendTyped"
  BY DEF PressInv, ChosenInv, Answerable
<1> QED
  BY <1>2, <1>3, <1>4, <1>5, <1>6, <1>7

\* A choice done: the conversation is the same, or none was open for this
\* choice and those behind it.
LEMMA DoneKeeps ==
    ASSUME PressInv, chosen # <<>>, chosen' = Tail(chosen),
           UNCHANGED <<stage, touched, arrived, peers, drawn, face>>,
           due' = TRUE, asleep' \in BOOLEAN, nav' \in Navs,
           log' \in Seq(Entry), Len(log') <= MaxLog,
           nav'.detail.peer = nav.detail.peer \/ chosen[1].peer = NoOne,
           SendsTyped(nav') => SendsTyped(nav) /\ ~InThread(nav')
    PROVE  PressInv'
<1> DEFINE acts == Tail(chosen)
<1>1. /\ 1 \in 1..Len(chosen) /\ acts \in Seq(Choice) /\ Len(acts) = Len(chosen) - 1
      /\ Len(acts) <= Queue /\ stage = "perform"
      /\ \A i \in 1..Len(acts) : i + 1 \in 1..Len(chosen) /\ acts[i] = chosen[i + 1]
      /\ chosen[1].act = "SendTyped" => Len(chosen) = 1
      /\ SendsTyped(nav) => chosen[1].act = "SendTyped"
  BY HeadFacts
<1>2. chosen' = acts
  OBVIOUS
<1> HIDE DEF acts
<1>3. Len(chosen) \in Nat /\ Len(acts) \in Nat
  BY <1>1 DEF PressInv, PanelTypes
<1>4. \A i \in 1..Len(acts) : 1 < i + 1 /\ Len(chosen) # 1
  BY <1>1, <1>3
<1>5. PanelTypes'
  <2>1. {asleep', due', touched', arrived'} \subseteq BOOLEAN
    BY DEF PressInv, PanelTypes
  <2> QED
    BY <1>1, <1>2, <2>1 DEF PressInv, PanelTypes, Logged
<1>6. InItsThread(nav', acts)
  <2>1. InItsThread(nav, chosen)
    BY DEF PressInv, ChosenInv
  <2>2. ASSUME NEW i \in 1..Len(acts)
        PROVE  /\ acts[i].act = "Open" => acts[i].peer = NoOne
               /\ acts[i].act \in {"Reply", "SendPosition"} =>
                     acts[i].peer # NoOne /\ nav'.detail.peer \in {acts[i].peer, NoOne}
    <3>1. chosen[1].peer = NoOne => acts[i].peer = NoOne
      BY <1>1, <1>4, <2>1 DEF InItsThread
    <3>2. /\ acts[i].act = "Open" => acts[i].peer = NoOne
          /\ acts[i].act \in {"Reply", "SendPosition"} =>
                acts[i].peer # NoOne /\ nav.detail.peer \in {acts[i].peer, NoOne}
      BY <1>1, <2>1 DEF InItsThread
    <3> QED
      BY <3>1, <3>2
  <2>3. ASSUME NEW i \in 1..Len(acts), NEW j \in 1..Len(acts), i < j, acts[i].peer = NoOne
        PROVE  acts[j].peer = NoOne
    <3>1. i + 1 \in 1..Len(chosen) /\ j + 1 \in 1..Len(chosen) /\ i + 1 < j + 1
          /\ acts[i] = chosen[i + 1] /\ acts[j] = chosen[j + 1]
      <4>1. i + 1 < j + 1
        BY <1>3, <2>3
      <4> QED
        BY <1>1, <4>1
    <3> QED
      BY <2>1, <2>3, <3>1 DEF InItsThread
  <2> QED
    BY <2>2, <2>3 DEF InItsThread
<1>7. TypedAlone(nav', acts)
  <2>1. ASSUME NEW i \in 1..Len(acts) PROVE acts[i].act # "SendTyped"
    <3>1. i + 1 \in 1..Len(chosen) /\ acts[i] = chosen[i + 1]
      BY <1>1
    <3>2. chosen[i + 1].act = "SendTyped" => Len(chosen) = 1
      BY <3>1 DEF PressInv, ChosenInv, TypedAlone
    <3> QED
      BY <1>4, <3>1, <3>2
  <2> QED
    BY <2>1 DEF TypedAlone
<1>8. Answerable(nav', acts)
  <2>1. SendsTyped(nav') => Len(acts) = 0
    BY <1>1, <1>3
  <2>2. SendsTyped(nav') => acts = <<>>
    BY <1>1, <2>1
  <2> QED
    BY <2>2 DEF Answerable
<1>9. OnItsLine(nav, chosen)'
  <2>1. ASSUME NEW i \in 1..Len(acts) PROVE ~(acts[i].act = "Open" /\ acts[i].alone)
    <3>1. i + 1 \in 1..Len(chosen) /\ acts[i] = chosen[i + 1]
      BY <1>1
    <3>2. chosen[i + 1].act = "Open" /\ chosen[i + 1].alone => Len(chosen) = 1
      BY <3>1 DEF PressInv, ChosenInv, OnItsLine
    <3> QED
      BY <1>4, <3>1, <3>2
  <2> QED
    BY <1>2, <2>1 DEF OnItsLine
<1>10. ChosenInv'
  BY <1>1, <1>2, <1>6, <1>7, <1>8, <1>9 DEF ChosenInv, InItsThread, TypedAlone, Answerable, SendsTyped, InThread
<1>11. ShownInv'
  BY <1>1 DEF ShownInv
<1> QED
  BY <1>5, <1>10, <1>11 DEF PressInv

LEMMA NavParts ==
    ASSUME PressInv
    PROVE  /\ nav \in Navs /\ nav \in NavSet /\ nav.over \in Overlay /\ nav.detail \in Detail
           /\ nav.detail.peer \in Peer \cup {NoOne} /\ (InThread(nav) => nav.detail.peer \in Peer)
           /\ Logged /\ Len(log) \in Nat /\ Len(log) <= MaxLog
           /\ asleep \in BOOLEAN
<1>1. nav \in Navs /\ Logged /\ Len(log) <= MaxLog /\ asleep \in BOOLEAN
  BY DEF PressInv, PanelTypes
<1>2. Len(log) \in Nat
  BY <1>1, Entries
<1>3. nav \in NavSet /\ nav.over \in Overlay /\ nav.detail \in Detail
  BY <1>1 DEF Navs, NavSet
<1>4. nav.detail.peer \in Peer \cup {NoOne} /\ (InThread(nav) => nav.detail.peer \in Peer)
  BY <1>3 DEF Detail, InThread
<1> QED
  BY <1>1, <1>2, <1>3, <1>4

(* NavExt::refuse and written: nothing waits any more. *)
LEMMA RefuseFacts ==
    ASSUME PressInv
    PROVE  /\ Refuse(nav) \in Navs /\ ~SendsTyped(Refuse(nav))
           /\ Refuse(nav).detail = nav.detail
           /\ nav.over.kind = "compose" => Refuse(nav).over.kind = "compose"
                                           /\ Refuse(nav).over.len = nav.over.len
<1>1. nav \in NavSet /\ nav.over \in Overlay
  BY NavParts
<1>2. CASE nav.over.kind = "compose"
  <2> DEFINE o == [nav.over EXCEPT !.mode = "Refused"]
  <2>1. nav.over \in Board
    BY <1>1, <1>2, OverlayKinds DEF Board
  <2>2. o \in Overlay /\ o.kind = "compose" /\ o.mode = "Refused" /\ o.len = nav.over.len
    BY <2>1 DEF Board, Overlay
  <2>3. Refuse(nav) = Over(nav, o)
    BY <1>2 DEF Refuse
  <2> HIDE DEF o
  <2> QED
    BY <1>1, <2>2, <2>3, OverType, OverNav DEF SendsTyped
<1>3. CASE nav.over.kind # "compose"
  <2>1. Refuse(nav) = Over(nav, Modal("refused"))
    BY <1>3 DEF Refuse
  <2>2. Modal("refused") \in Overlay /\ Modal("refused").kind = "refused"
    BY Overlays
  <2> QED
    BY <1>1, <1>3, <2>1, <2>2, OverType, OverNav DEF SendsTyped
<1> QED
  BY <1>2, <1>3

LEMMA WrittenFacts ==
    ASSUME PressInv, InThread(nav)
    PROVE  /\ Written(nav) \in Navs /\ ~SendsTyped(Written(nav))
           /\ Written(nav).detail.peer = nav.detail.peer
<1> DEFINE m == IF nav.over.kind = "compose" THEN Over(nav, Bare) ELSE nav
           w == [m EXCEPT !.detail.toEnd = TRUE]
<1>1. nav \in Navs /\ nav \in NavSet
  BY NavParts
<1>2. m \in Navs /\ m.detail = nav.detail /\ m.over.kind # "compose"
  BY <1>1, OverType, OverNav, Overlays
<1>3. Written(nav) = w
  BY <1>2 DEF Written, InThread
<1> HIDE DEF m
<1>4. w \in NavSet /\ w.over = m.over /\ w.screen = m.screen /\ w.detail.peer = m.detail.peer
  <2>1. m \in NavSet /\ m.detail \in Detail
    BY <1>2 DEF Navs, NavSet
  <2> QED
    BY <2>1 DEF NavSet, Detail
<1> HIDE DEF w
<1>5. ItemsOf(w) = ItemsOf(m)
  BY <1>4 DEF ItemsOf, InThread, Current
<1> QED
  BY <1>2, <1>3, <1>4, <1>5 DEF Navs, SendsTyped

LEMMA WriteKeeps == PressInv /\ WriteMessage => PressInv'
<1> SUFFICES ASSUME PressInv, WriteMessage PROVE PressInv'
  OBVIOUS
<1>1. /\ chosen # <<>> /\ chosen' = Tail(chosen) /\ Head(chosen) = chosen[1]
      /\ UNCHANGED <<stage, touched, arrived, peers, drawn, face>>
      /\ due' = TRUE /\ asleep' \in BOOLEAN
  BY HeadFacts, NavParts DEF WriteMessage, Doing, Elsewhere
<1>2. Logged /\ log \in Seq(Entry) /\ Len(log) \in Nat /\ Len(log) <= MaxLog
  BY NavParts DEF Logged
<1>3. CASE /\ InThread(nav) /\ Len(log) < MaxLog /\ nav' = Written(nav)
           /\ log' = Append(log, [peer |-> nav.detail.peer, read |-> TRUE])
  <2>1. [peer |-> nav.detail.peer, read |-> TRUE] \in Entry
    BY <1>3, NavParts DEF Entry
  <2>2. log' \in Seq(Entry) /\ Len(log') = Len(log) + 1 /\ Len(log') <= MaxLog
    BY <1>2, <1>3, <2>1, PanelAssumption
  <2> QED
    BY <1>1, <1>3, <2>2, WrittenFacts, DoneKeeps
<1>4. CASE InThread(nav) /\ nav' = Refuse(nav) /\ UNCHANGED log
  BY <1>1, <1>2, <1>4, RefuseFacts, DoneKeeps
<1>5. CASE /\ ~InThread(nav) \/ (Head(chosen).act = "SendTyped" /\ nav.over.kind # "compose")
           /\ UNCHANGED <<nav, log>>
  <2>1. SendsTyped(nav) => ~InThread(nav)
    BY <1>5 DEF SendsTyped
  <2>2. nav' \in Navs /\ nav' = nav
    BY <1>5, NavParts
  <2> QED
    BY <1>1, <1>2, <1>5, <2>1, <2>2, DoneKeeps
<1> QED
  BY <1>3, <1>4, <1>5 DEF WriteMessage, Addressee, NextChoice

LEMMA RetryKeeps == PressInv /\ RetryFailed => PressInv'
<1> SUFFICES ASSUME PressInv, RetryFailed PROVE PressInv'
  OBVIOUS
<1>1. /\ chosen # <<>> /\ chosen' = Tail(chosen) /\ chosen[1].act = "RetryFailed"
      /\ UNCHANGED <<stage, touched, arrived, peers, drawn, face, log>>
      /\ due' = TRUE /\ asleep' \in BOOLEAN
      /\ nav' = nav \/ nav' = Refuse(nav)
  BY HeadFacts, NavParts DEF RetryFailed, Doing, Elsewhere, NextChoice
<1>2. log' \in Seq(Entry) /\ Len(log') <= MaxLog
  BY <1>1, NavParts DEF Logged
<1>3. ~SendsTyped(nav)
  BY <1>1, HeadFacts
<1> QED
  BY <1>1, <1>2, <1>3, NavParts, RefuseFacts, DoneKeeps

LEMMA OpenFacts ==
    ASSUME PressInv, NEW p \in Peer
    PROVE  Opened(nav, p) \in Navs /\ ~SendsTyped(Opened(nav, p))
           /\ Opened(nav, p).detail.peer = p
<1> DEFINE d == [Closed EXCEPT !.peer = p,
                     !.under = IF InThread(nav) THEN nav.detail.under ELSE nav.place]
           o == [nav EXCEPT !.detail = d, !.place = Top, !.over = Bare]
<1>1. nav \in NavSet /\ nav.detail \in Detail /\ nav.place \in Place
      /\ nav.detail.under \in Place /\ Top \in Place
  BY NavParts DEF NavSet, Detail, Top, Place
<1>2. d \in Detail /\ d.peer = p
  BY <1>1 DEF Closed, Detail
<1>3. Opened(nav, p) = o
  BY DEF Opened
<1> HIDE DEF d
<1>4. o \in NavSet /\ o.over = Bare /\ o.detail = d
  BY <1>1, <1>2, Overlays DEF NavSet
<1> HIDE DEF o
<1> QED
  BY <1>2, <1>3, <1>4, Overlays DEF Navs, SendsTyped

LEMMA LineType ==
    ASSUME PressInv
    PROVE  LineOf(nav, drawn) \in Peer \cup {NoOne}
<1>1. drawn \in [Lists -> Seq(Peer)] /\ nav \in NavSet /\ nav.place.selected \in Nat
  BY NavParts DEF PressInv, PanelTypes, NavSet, Place
<1>2. HasHighlight(nav) => drawn[Current(nav)] \in Seq(Peer)
  BY <1>1 DEF HasHighlight, IsList
<1>3. \A rows \in Seq(Peer), k \in Nat : k < Len(rows) => rows[k + 1] \in Peer
  OBVIOUS
<1> QED
  BY <1>1, <1>2, <1>3 DEF LineOf

LEMMA OpenKeeps == PressInv /\ OpenConversation => PressInv'
<1> SUFFICES ASSUME PressInv, OpenConversation PROVE PressInv'
  OBVIOUS
<1>1. /\ chosen # <<>> /\ chosen' = Tail(chosen) /\ chosen[1].act = "Open"
      /\ UNCHANGED <<stage, touched, arrived, peers, drawn, face, log>>
      /\ due' = TRUE /\ asleep' \in BOOLEAN
      /\ nav' = IF LineChosen = NoOne THEN nav ELSE Opened(nav, LineChosen)
  BY HeadFacts, NavParts DEF OpenConversation, Doing, Elsewhere, NextChoice
<1>2. log' \in Seq(Entry) /\ Len(log') <= MaxLog
  BY <1>1, NavParts DEF Logged
<1>3. ~SendsTyped(nav) /\ chosen[1].peer = NoOne
  BY <1>1, HeadFacts DEF PressInv, ChosenInv, InItsThread
<1>4. LineChosen \in Peer \cup {NoOne}
  BY LineType DEF LineChosen
<1>5. nav' \in Navs /\ ~SendsTyped(nav')
  BY <1>1, <1>3, <1>4, NavParts, OpenFacts
<1> QED
  BY <1>1, <1>2, <1>3, <1>5, DoneKeeps

(* The choices that put something over the view, or change nothing of it.  *)
LEMMA OtherKeeps ==
    PressInv /\ (Compose \/ HostHasIt \/ Edit \/ Otherwise \/ Redraw \/ SleepScreen) => PressInv'
<1> SUFFICES ASSUME PressInv, Compose \/ HostHasIt \/ Edit \/ Otherwise \/ Redraw \/ SleepScreen
             PROVE  PressInv'
  OBVIOUS
<1>1. /\ chosen # <<>> /\ chosen' = Tail(chosen) /\ chosen[1].act # "SendTyped"
      /\ UNCHANGED <<stage, touched, arrived, peers, drawn, face, log>>
      /\ due' = TRUE /\ asleep' \in BOOLEAN
      /\ nav' \in {nav, Over(nav, Keys), Over(nav, Modal("notice")), Over(nav, Editor(TRUE))}
  <2>1. /\ chosen # <<>> /\ chosen' = Tail(chosen) /\ Head(chosen).act # "SendTyped"
        /\ UNCHANGED <<stage, touched, arrived, peers, drawn, face, log>>
        /\ (due' = TRUE \/ due' = due) /\ (asleep' = TRUE \/ asleep' = asleep)
        /\ nav' \in {nav, Over(nav, Keys), Over(nav, Modal("notice")), Over(nav, Editor(TRUE))}
    BY DEF Compose, HostHasIt, Edit, Otherwise, Redraw, SleepScreen, Doing, NextChoice,
           Elsewhere, ChangesTheRadio
  <2>2. due' = TRUE /\ asleep' \in BOOLEAN
    BY <2>1, HeadFacts, NavParts
       DEF Compose, HostHasIt, Edit, Otherwise, Redraw, SleepScreen, Elsewhere
  <2> QED
    BY <2>1, <2>2, HeadFacts
<1>2. log' \in Seq(Entry) /\ Len(log') <= MaxLog
  BY <1>1, NavParts DEF Logged
<1>3. ~SendsTyped(nav)
  BY <1>1, HeadFacts
<1>4. Keys \in Overlay /\ Keys.kind = "compose" /\ Keys.mode = "Typing"
  BY GridSize, PanelAssumption DEF Keys, Overlay
<1>5. \A o \in {Keys, Modal("notice"), Editor(TRUE)} :
          Over(nav, o) \in Navs /\ ~SendsTyped(Over(nav, o))
          /\ Over(nav, o).detail = nav.detail
  <2> TAKE o \in {Keys, Modal("notice"), Editor(TRUE)}
  <2>1. o \in Overlay /\ o.kind # "menu" /\ (o.kind = "compose" => o.mode = "Typing")
    BY <1>4, Overlays
  <2> QED
    BY <2>1, NavParts, OverType, OverNav DEF SendsTyped
<1>6. nav' \in Navs /\ ~SendsTyped(nav') /\ nav'.detail.peer = nav.detail.peer
  BY <1>1, <1>3, <1>5, NavParts
<1> QED
  BY <1>1, <1>2, <1>6, DoneKeeps

LEMMA RestartKeeps == PressInv /\ Restart => PressInv'
<1>1. Restart => PanelInit'
  BY DEF Restart, PanelInit
<1>2. PanelInit' => PressInv'
  BY PanelStart, PTL
<1> QED
  BY <1>1, <1>2

(* Drawing, and what comes from the air before the pad is looked at. *)
LEMMA MarkedReadFacts ==
    ASSUME Logged, NEW p, NEW through
    PROVE  LET s == MarkedRead(p, through) IN
           /\ s \in Seq(Entry) /\ Len(s) = Len(log)
           /\ \A i \in 1..Len(log) :
                /\ s[i].peer = log[i].peer
                /\ s[i].read /\ ~log[i].read => log[i].peer = p /\ Number(i) <= through
<1> DEFINE s == MarkedRead(p, through)
<1>1. /\ Len(log) \in Nat
      /\ \A i \in 1..Len(log) : log[i] \in Entry
  BY Entries
<1>2. \A i \in 1..Len(log) :
          s[i] = IF log[i].peer = p /\ Number(i) <= through THEN [log[i] EXCEPT !.read = TRUE]
                 ELSE log[i]
  BY DEF MarkedRead
<1>3. \A e \in Entry : [e EXCEPT !.read = TRUE] \in Entry /\ [e EXCEPT !.read = TRUE].peer = e.peer
  BY DEF Entry
<1>4. s \in [1..Len(log) -> Entry]
  <2>1. s = [i \in 1..Len(log) |-> s[i]]
    BY DEF MarkedRead
  <2>2. \A i \in 1..Len(log) : s[i] \in Entry
    BY <1>1, <1>2, <1>3
  <2> HIDE DEF s
  <2> QED
    BY <2>1, <2>2
<1>5. \A i \in 1..Len(log) :
          /\ s[i].peer = log[i].peer
          /\ s[i].read /\ ~log[i].read => log[i].peer = p /\ Number(i) <= through
  BY <1>1, <1>2, <1>3
<1> HIDE DEF s
<1>6. s \in Seq(Entry) /\ Len(s) = Len(log)
  BY <1>1, <1>4
<1> QED
  BY <1>5, <1>6 DEF s

LEMMA LineIsPeer ==
    ASSUME NEW n \in Navs, NEW lists \in [Lists -> Seq(Peer)]
    PROVE  LineOf(n, lists) \in Peer \cup {NoOne}
<1>1. n.place.selected \in Nat
  BY DEF Navs, NavSet, Place
<1>2. HasHighlight(n) => lists[Current(n)] \in Seq(Peer)
  BY DEF HasHighlight, IsList
<1>3. \A rows \in Seq(Peer), k \in Nat : k < Len(rows) => rows[k + 1] \in Peer
  OBVIOUS
<1> QED
  BY <1>1, <1>2, <1>3 DEF LineOf

LEMMA DrawKeeps == PressInv /\ Draw => PressInv'
<1> SUFFICES ASSUME PressInv, Draw PROVE PressInv'
  OBVIOUS
<1>1. /\ chosen = <<>> /\ chosen' = <<>> /\ stage' = "drain" /\ touched' = FALSE
      /\ UNCHANGED <<arrived, peers>> /\ asleep' \in BOOLEAN
      /\ peers \in Seq(Peer) /\ arrived \in BOOLEAN
  BY DEF Draw, PressInv, PanelTypes
<1>2. CASE ~due /\ UNCHANGED <<nav, drawn, due, face, log>>
  <2>1. PanelTypes'
    BY <1>1, <1>2 DEF PressInv, PanelTypes, Logged
  <2>2. ChosenInv'
    BY <1>1, <1>2 DEF PressInv, ChosenInv, InItsThread, TypedAlone, Answerable, OnItsLine
  <2>3. LineOf(nav, drawn)' = LineOf(nav, drawn) /\ HasHighlight(nav)' = HasHighlight(nav)
        /\ InView(nav)' = InView(nav)
    BY <1>2 DEF LineOf
  <2>4. ShownInv'
    BY <1>1, <1>2, <2>3 DEF PressInv, ShownInv
  <2> QED
    BY <2>1, <2>2, <2>4 DEF PressInv
<1>3. ASSUME NEW plain \in Plain,
             LET lists == [Messages |-> Conversations, Peers |-> peers]
                 n == Rendered(nav, lists, plain)
             IN  /\ nav' = n /\ drawn' = lists /\ due' = FALSE
                 /\ face' = IF n.over.kind \in Modals THEN NoOne ELSE LineOf(n, lists)
                 /\ log' = IF Shows(n, asleep') THEN MarkedRead(n.detail.peer, ReadThrough(n)) ELSE log
      PROVE  PressInv'
  <2> DEFINE lists == [Messages |-> Conversations, Peers |-> peers]
             n == Rendered(nav, lists, plain)
  <2>1. /\ nav' = n /\ drawn' = lists /\ due' = FALSE
        /\ face' = IF n.over.kind \in Modals THEN NoOne ELSE LineOf(n, lists)
        /\ log' = MarkedRead(n.detail.peer, ReadThrough(n)) \/ log' = log
    BY <1>3
  <2>2. nav \in Navs /\ Logged /\ Len(log) <= MaxLog
    BY NavParts
  <2>3. lists \in [Lists -> Seq(Peer)]
    BY <1>1, <2>2, ConversationsType DEF Lists
  <2> HIDE DEF lists
  <2>4. /\ n \in Navs /\ n.over = nav.over /\ n.detail.peer = nav.detail.peer
        /\ HasHighlight(n) /\ n.over.kind = "none" => InView(n)
    BY <2>2, <2>3, RenderedFacts
  <2> HIDE DEF n
  <2>5. log' \in Seq(Entry) /\ Len(log') <= MaxLog
    BY <2>1, <2>2, MarkedReadFacts DEF Logged
  <2>6. face' \in Peer \cup {NoOne}
    BY <2>1, <2>3, <2>4, LineIsPeer
  <2>7. PanelTypes'
    <3>1. {asleep', due', touched', arrived'} \subseteq BOOLEAN
      BY <1>1, <2>1
    <3>2. /\ stage' = "drain" /\ nav' \in Navs /\ drawn' \in [Lists -> Seq(Peer)]
          /\ peers' \in Seq(Peer)
      BY <1>1, <2>1, <2>3, <2>4
    <3>3. chosen' \in Seq(Choice) /\ Len(chosen') <= Queue
      BY <1>1, PanelAssumption
    <3> QED
      BY <2>5, <2>6, <3>1, <3>2, <3>3 DEF PanelTypes, Logged
  <2>8. Answerable(n, <<>>)
    BY <1>1, <2>4 DEF PressInv, ChosenInv, Answerable, SendsTyped, InThread
  <2>9. ChosenInv'
    BY <1>1, <2>1, <2>8 DEF ChosenInv, InItsThread, TypedAlone, Answerable, OnItsLine
  <2>10. LineOf(nav, drawn)' = LineOf(n, lists) /\ HasHighlight(nav)' = HasHighlight(n)
         /\ InView(nav)' = InView(n)
    BY <2>1 DEF LineOf
  <2>11. ShownInv'
    BY <2>1, <2>4, <2>10 DEF ShownInv
  <2> QED
    BY <2>7, <2>9, <2>11 DEF PressInv
<1> QED
  BY <1>2, <1>3 DEF Draw

LEMMA AirKeeps == \A p \in Peer : PressInv /\ (Arrive(p) \/ Hear(p)) => PressInv'
<1> SUFFICES ASSUME NEW p \in Peer, PressInv, Arrive(p) \/ Hear(p) PROVE PressInv'
  OBVIOUS
<1>1. /\ UNCHANGED <<stage, nav, chosen, asleep, due, touched, drawn, face>>
      /\ chosen = <<>> /\ arrived' \in BOOLEAN
  BY DEF Arrive, Hear, PressInv, PanelTypes, ChosenInv
<1>2. log' \in Seq(Entry) /\ Len(log') <= MaxLog
  <2>1. [peer |-> p, read |-> FALSE] \in Entry
    BY DEF Entry
  <2>2. CASE log' = log
    BY <2>2, NavParts DEF Logged
  <2>3. CASE Len(log) < MaxLog /\ log' = Append(log, [peer |-> p, read |-> FALSE])
    BY <2>1, <2>3, NavParts, PanelAssumption DEF Logged
  <2> QED
    BY <2>2, <2>3 DEF Arrive, Hear
<1>3. peers' \in Seq(Peer)
  BY ToFrontType DEF Arrive, Hear, PressInv, PanelTypes
<1>4. PanelTypes'
  BY <1>1, <1>2, <1>3 DEF PressInv, PanelTypes, Logged
<1>5. LineOf(nav, drawn)' = LineOf(nav, drawn) /\ HasHighlight(nav)' = HasHighlight(nav)
      /\ InView(nav)' = InView(nav)
  BY <1>1 DEF LineOf
<1>6. ChosenInv'
  BY <1>1 DEF PressInv, ChosenInv, InItsThread, TypedAlone, Answerable, OnItsLine
<1>7. ShownInv'
  BY <1>1, <1>5 DEF PressInv, ShownInv
<1> QED
  BY <1>4, <1>6, <1>7 DEF PressInv

LEMMA PanelStep == PressInv /\ [PanelNext]_panelVars => PressInv'
<1> SUFFICES ASSUME PressInv, [PanelNext]_panelVars PROVE PressInv'
  OBVIOUS
<1>1. CASE UNCHANGED panelVars
  BY <1>1 DEF panelVars, PressInv, PanelTypes, ChosenInv, ShownInv, Logged, InItsThread,
              TypedAlone, Answerable, OnItsLine, LineOf
<1>2. CASE \E keys \in SeqOf(Input, Queue) : Drain(keys)
  BY <1>2, DrainKeeps
<1>3. CASE Perform
  BY <1>3, WriteKeeps, RetryKeeps, OpenKeeps, OtherKeeps, RestartKeeps DEF Perform
<1>4. CASE Draw
  BY <1>4, DrawKeeps
<1>5. CASE \E p \in Peer : Arrive(p) \/ Hear(p)
  BY <1>5, AirKeeps
<1> QED
  BY <1>1, <1>2, <1>3, <1>4, <1>5 DEF PanelNext

LEMMA PanelAlways == PanelSpec => []PressInv
<1>1. PanelInit => PressInv
  BY PanelStart
<1>2. PressInv /\ [PanelNext]_panelVars => PressInv'
  BY PanelStep
<1> QED
  BY <1>1, <1>2, PTL DEF PanelSpec

-----------------------------------------------------------------------------
(* What the invariant says of a state. *)
LEMMA PanelStates == PressInv => PanelTypeOK /\ AnsweredInThread /\ HighlightInView
<1> SUFFICES ASSUME PressInv PROVE PanelTypeOK /\ AnsweredInThread /\ HighlightInView
  OBVIOUS
<1>1. PanelTypes
  BY DEF PressInv
<1>2. /\ nav.screen \in 1..Len(Strip) /\ nav.visible \in {0, Rows}
      /\ nav.place \in Place /\ nav.detail.under \in Place
      /\ nav.detail.peer \in Peer \cup {NoOne}
  BY NavParts DEF NavSet, Detail
<1>3. /\ nav.over.kind \in {"none", "menu"} \cup Modals
      /\ nav.over.kind = "compose" =>
             /\ nav.over.len \in 0..Limit
             /\ nav.over.row \in 1..Len(KeyGrid) /\ nav.over.col \in 1..Len(KeyGrid[1])
  BY NavParts, OverlayKinds DEF Modals
<1>4. nav.over.kind = "menu" => nav.over.item \in 1..Len(ItemsOf(nav))
  BY NavParts DEF Navs
<1>5. PanelTypeOK
  BY <1>1, <1>2, <1>3, <1>4 DEF PanelTypeOK, PanelTypes, Logged, Entry
<1>6. AnsweredInThread
  BY DEF PressInv, ChosenInv, Answerable, AnsweredInThread, Waiting, SendsTyped
<1>7. HighlightInView
  BY DEF PressInv, ShownInv, HighlightInView
<1> QED
  BY <1>5, <1>6, <1>7

(* What a step does to the navigator.  It goes to another conversation     *)
(* only by opening one, and a keyboard that waits is changed only by the   *)
(* answer to it.                                                           *)
DrawingOf(plain) == Rendered(nav, [Messages |-> Conversations, Peers |-> peers], plain)

LEMMA DrawingFacts ==
    ASSUME PressInv, NEW plain \in Plain
    PROVE  /\ DrawingOf(plain).detail.peer = nav.detail.peer
           /\ DrawingOf(plain).over = nav.over
           /\ nav.over.kind \in Modals => DrawingOf(plain) = nav
<1> DEFINE lists == [Messages |-> Conversations, Peers |-> peers]
<1>1. nav \in Navs /\ Logged /\ peers \in Seq(Peer)
  BY NavParts DEF PressInv, PanelTypes
<1>2. lists \in [Lists -> Seq(Peer)]
  BY <1>1, ConversationsType DEF Lists
<1>3. DrawingOf(plain) = Rendered(nav, lists, plain)
  BY DEF DrawingOf
<1> HIDE DEF lists
<1> QED
  BY <1>1, <1>2, <1>3, RenderedFacts

LEMMA DrawSteps ==
    ASSUME PressInv, Draw
    PROVE  /\ nav' = nav /\ log' = log
           \/ \E plain \in Plain :
                LET n == DrawingOf(plain) IN
                /\ nav' = n
                /\ log' = IF Shows(n, asleep') THEN MarkedRead(n.detail.peer, ReadThrough(n)) ELSE log
  BY DEF Draw, DrawingOf

LEMMA DrainSteps ==
    ASSUME PressInv, NEW keys \in SeqOf(Input, Queue), Drain(keys)
    PROVE  /\ nav'.detail.peer \in {nav.detail.peer, NoOne}
           /\ SendsTyped(nav) => nav' = nav
<1>1. keys \in Seq(Input) /\ nav \in Navs /\ face \in Peer \cup {NoOne}
  BY SeqOfFacts, NavParts DEF PressInv, PanelTypes
<1>2. CASE keys = <<>>
  BY <1>2 DEF Drain
<1>3. CASE keys # <<>>
  <2> DEFINE k == IF asleep THEN Tail(keys) ELSE keys  r == Handled(nav, k)
  <2>1. k \in Seq(Input)
    BY <1>1, <1>3
  <2>2. nav' = r.nav
    BY <1>3 DEF Drain, Drained
  <2> HIDE DEF k
  <2>3. r \in Midway(nav, Len(k) = 1)
    BY <1>1, <2>1, HandledFacts
  <2> HIDE DEF r
  <2> QED
    BY <2>2, <2>3 DEF Midway
<1> QED
  BY <1>2, <1>3

LEMMA WriteSteps ==
    ASSUME PressInv, WriteMessage
    PROVE  /\ nav'.detail.peer = nav.detail.peer
           /\ Len(log') > Len(log) => log'[Len(log')].peer = Head(chosen).peer
           /\ \/ nav' = nav \/ Len(log') > Len(log)
              \/ nav.over.kind = "compose" =>
                    nav'.over.kind = "compose" /\ nav'.over.len = nav.over.len
<1>1. /\ log \in Seq(Entry) /\ Len(log) \in Nat
      /\ chosen # <<>> /\ Head(chosen) = chosen[1] /\ 1 \in 1..Len(chosen)
      /\ Head(chosen).act \in {"Reply", "SendTyped", "SendPosition"}
  BY HeadFacts, NavParts DEF Logged, WriteMessage, Doing, NextChoice
<1>2. CASE /\ InThread(nav) /\ nav' = Written(nav)
           /\ log' = Append(log, [peer |-> nav.detail.peer, read |-> TRUE])
  <2>1. Len(log') = Len(log) + 1 /\ log'[Len(log) + 1].peer = nav.detail.peer
    <3>1. [peer |-> nav.detail.peer, read |-> TRUE] \in Entry
      BY <1>2, NavParts DEF Entry
    <3> QED
      BY <1>1, <1>2, <3>1
  <2>2. nav.detail.peer = Head(chosen).peer
    BY <1>1, <1>2 DEF PressInv, ChosenInv, InItsThread, TypedAlone, InThread
  <2> QED
    BY <1>1, <1>2, <2>1, <2>2, WrittenFacts
<1>3. CASE InThread(nav) /\ nav' = Refuse(nav) /\ UNCHANGED log
  BY <1>1, <1>3, RefuseFacts
<1>4. CASE UNCHANGED <<nav, log>>
  BY <1>1, <1>4
<1> QED
  BY <1>2, <1>3, <1>4 DEF WriteMessage, Addressee

LEMMA OpenSteps ==
    ASSUME PressInv, OpenConversation
    PROVE  /\ Head(chosen).act = "Open" /\ ~SendsTyped(nav)
           /\ nav'.detail.peer \in {NoOne, nav.detail.peer} \/ nav'.detail.peer = LineOf(nav, drawn)
           /\ Head(chosen).alone => Head(chosen).line = LineOf(nav, drawn)
<1>1. /\ chosen # <<>> /\ Head(chosen) = chosen[1] /\ 1 \in 1..Len(chosen)
      /\ chosen[1].act = "Open" /\ ~SendsTyped(nav)
      /\ nav' = IF LineChosen = NoOne THEN nav ELSE Opened(nav, LineChosen)
  BY HeadFacts DEF OpenConversation, Doing, NextChoice
<1>2. LineChosen \in Peer \cup {NoOne} /\ LineChosen = LineOf(nav, drawn)
  BY LineType DEF LineChosen
<1>3. chosen[1].alone => chosen[1].line = LineOf(nav, drawn)
  BY <1>1 DEF PressInv, ChosenInv, OnItsLine
<1> QED
  BY <1>1, <1>2, <1>3, OpenFacts

LEMMA OtherSteps ==
    ASSUME PressInv,
           RetryFailed \/ Compose \/ HostHasIt \/ Edit \/ Otherwise \/ Redraw \/ SleepScreen
    PROVE  log' = log /\ nav'.detail.peer = nav.detail.peer /\ ~SendsTyped(nav) /\ stage' = stage
<1>1. /\ chosen # <<>> /\ Head(chosen).act # "SendTyped" /\ log' = log /\ stage' = stage
      /\ nav' \in {nav, Refuse(nav), Over(nav, Keys), Over(nav, Modal("notice")), Over(nav, Editor(TRUE))}
  BY DEF RetryFailed, Compose, HostHasIt, Edit, Otherwise, Redraw, SleepScreen, Doing, NextChoice,
         Elsewhere, ChangesTheRadio
<1>2. ~SendsTyped(nav)
  BY <1>1, HeadFacts
<1>3. Keys \in Overlay /\ Modal("notice") \in Overlay /\ Editor(TRUE) \in Overlay
  <2>1. Keys \in Overlay
    BY GridSize, PanelAssumption DEF Keys, Overlay
  <2> QED
    BY <2>1, Overlays
<1>4. nav'.detail.peer = nav.detail.peer
  <2>1. \A o \in Overlay : Over(nav, o).detail = nav.detail
    BY NavParts, OverType
  <2>2. Refuse(nav).detail = nav.detail
    BY RefuseFacts
  <2> QED
    BY <1>1, <1>3, <2>1, <2>2
<1> QED
  BY <1>1, <1>2, <1>4

LEMMA RestartSteps ==
    ASSUME PressInv, Restart
    PROVE  log' = <<>> /\ nav'.detail.peer = NoOne /\ ~SendsTyped(nav)
<1>1. /\ chosen # <<>> /\ Head(chosen).act # "SendTyped" /\ log' = <<>> /\ nav' = NewNav
  BY DEF Restart, NextChoice
<1> QED
  BY <1>1, HeadFacts DEF NewNav, Closed

-----------------------------------------------------------------------------
(* What a step may never do. *)
WrittenStep ==
    (stage = "perform" /\ Len(log') > Len(log)) => log'[Len(log')].peer = Head(chosen).peer

LineStep ==
    (nav'.detail.peer \notin {NoOne, nav.detail.peer} /\ Head(chosen).alone) =>
        nav'.detail.peer = Head(chosen).line

TypedStep ==
    (nav.over.kind = "compose" /\ nav.over.len > 0 /\ nav.over.mode = "Sending" /\ nav' # nav) =>
        \/ Len(log') > Len(log)
        \/ nav'.over.kind = "compose" /\ nav'.over.len = nav.over.len

ReadStep ==
    \A i \in 1..Len(log) :
        (stage = "perform" /\ stage' = "drain" /\ Len(log') >= i /\ ~log[i].read /\ log'[i].read) =>
            /\ ~asleep' /\ nav'.over.kind = "none" /\ nav'.detail.peer = log[i].peer
            /\ Number(i) * (Height + 1) - 2 < nav'.place.scroll + Rows

(* The messages whose last line is above the foot are the first ones.      *)
LEMMA ReadFromTheStart ==
    ASSUME NEW b \in Nat \ {0}, NEW count \in Nat, NEW foot \in Nat,
           b <= Cardinality({k \in 1..count : StopOf(k) + Height - 1 < foot})
    PROVE  b * (Height + 1) - 2 < foot
<1> DEFINE S == {k \in 1..count : StopOf(k) + Height - 1 < foot}
<1>1. Height \in Nat /\ Height + 1 \in Nat
  BY PanelAssumption
<1>2. \A c, d \in Nat : c * d \in Nat
  OBVIOUS
<1>3. \A k \in Nat \ {0} : StopOf(k) + Height - 1 = k * (Height + 1) - 2 /\ k * (Height + 1) \in Nat
  <2> TAKE k \in Nat \ {0}
  <2>1. (k - 1) * (Height + 1) = k * (Height + 1) - (Height + 1)
    BY <1>1
  <2>2. k * (Height + 1) \in Nat
    BY <1>1, <1>2
  <2> QED
    BY <1>1, <2>1, <2>2 DEF StopOf
<1>4. SUFFICES ASSUME b * (Height + 1) - 2 >= foot PROVE FALSE
  BY <1>3
<1>5. ASSUME NEW k \in S PROVE k \in 1..(b - 1)
  <2>1. k \in 1..count /\ k \in Nat \ {0} /\ k * (Height + 1) - 2 < foot
    BY <1>3
  <2>2. SUFFICES ASSUME k >= b PROVE FALSE
    BY <2>1
  <2>3. k - b \in Nat /\ (k - b) * (Height + 1) \in Nat
    BY <1>1, <1>2, <2>1, <2>2
  <2>4. (k - b) * (Height + 1) = k * (Height + 1) - b * (Height + 1)
    BY <1>1, <2>1
  <2>5. k * (Height + 1) \in Nat /\ b * (Height + 1) \in Nat
    BY <1>3, <2>1
  <2> HIDE DEF S
  <2> QED
    BY <1>4, <2>1, <2>3, <2>4, <2>5
<1>6. IsFiniteSet(1..(b - 1)) /\ Cardinality(1..(b - 1)) = b - 1
  BY FS_Interval
<1>7. Cardinality(S) <= b - 1
  <2>1. S \subseteq 1..(b - 1)
    BY <1>5
  <2> HIDE DEF S
  <2> QED
    BY <1>6, <2>1, FS_Subset
<1>8. Cardinality(S) \in Nat /\ b <= Cardinality(S)
  <2>1. S \subseteq 1..count /\ IsFiniteSet(1..count)
    BY FS_Interval
  <2> QED
    BY <2>1, FS_Subset, FS_CardinalityType
<1> HIDE DEF S
<1> QED
  BY <1>7, <1>8

LEMMA ReadDraw == PressInv /\ Draw => ReadStep
<1> SUFFICES ASSUME PressInv, Draw, NEW i \in 1..Len(log), ~log[i].read, log'[i].read
             PROVE  /\ ~asleep' /\ nav'.over.kind = "none" /\ nav'.detail.peer = log[i].peer
                    /\ Number(i) * (Height + 1) - 2 < nav'.place.scroll + Rows
  BY DEF ReadStep
<1>1. Logged /\ nav \in Navs /\ nav' \in Navs
  BY NavParts, DrawKeeps DEF PressInv, PanelTypes
<1>2. PICK plain \in Plain :
          LET n == DrawingOf(plain) IN
          /\ nav' = n /\ Shows(n, asleep')
          /\ log' = MarkedRead(n.detail.peer, ReadThrough(n))
  BY DrawSteps
<1> DEFINE n == DrawingOf(plain)
<1>3. nav' = n /\ Shows(n, asleep') /\ log' = MarkedRead(n.detail.peer, ReadThrough(n))
  BY <1>2
<1> HIDE DEF n
<1>4. log[i].peer = n.detail.peer /\ Number(i) <= ReadThrough(n)
  BY <1>1, <1>3, MarkedReadFacts
<1>5. n.place.scroll \in Nat /\ Rows \in Nat /\ n.place.scroll + Rows \in Nat
  <2>1. n \in NavSet
    BY <1>1, <1>3 DEF Navs
  <2>2. n.place.scroll \in Nat
    BY <2>1 DEF NavSet, Place
  <2>3. Rows \in Nat
    BY PanelAssumption
  <2> QED
    BY <2>2, <2>3
<1>6. Number(i) \in Nat \ {0} /\ CountWith(n.detail.peer) \in Nat
  BY <1>1, Threads
<1>7. Number(i) * (Height + 1) - 2 < n.place.scroll + Rows
  BY <1>4, <1>5, <1>6, ReadFromTheStart DEF ReadThrough
<1> QED
  BY <1>3, <1>4, <1>7 DEF Shows

LEMMA PanelActions ==
    PressInv /\ [PanelNext]_panelVars => WrittenStep /\ LineStep /\ TypedStep /\ ReadStep
<1> SUFFICES ASSUME PressInv, [PanelNext]_panelVars
             PROVE  WrittenStep /\ LineStep /\ TypedStep /\ ReadStep
  OBVIOUS
<1>1. Len(log) \in Nat /\ (\A i \in 1..Len(log) : log[i].read \in BOOLEAN)
  BY NavParts, Entries
<1>2. CASE UNCHANGED panelVars
  BY <1>1, <1>2 DEF panelVars, WrittenStep, LineStep, TypedStep, ReadStep
<1>3. CASE \E keys \in SeqOf(Input, Queue) : Drain(keys)
  <2>1. PICK keys \in SeqOf(Input, Queue) : Drain(keys)
    BY <1>3
  <2>2. stage = "drain" /\ log' = log
    BY <2>1 DEF Drain
  <2> QED
    BY <2>1, <2>2, DrainSteps DEF WrittenStep, LineStep, TypedStep, ReadStep, SendsTyped
<1>4. CASE WriteMessage
  <2>1. stage = "perform" /\ stage' = stage
    BY <1>4 DEF WriteMessage, Doing, Elsewhere
  <2> QED
    BY <1>4, <2>1, WriteSteps DEF WrittenStep, LineStep, TypedStep, ReadStep
<1>5. CASE OpenConversation
  <2>1. stage = "perform" /\ stage' = stage /\ log' = log
    BY <1>5 DEF OpenConversation, Doing, Elsewhere
  <2> QED
    BY <1>1, <1>5, <2>1, OpenSteps DEF WrittenStep, LineStep, TypedStep, ReadStep, SendsTyped
<1>6. CASE RetryFailed \/ Compose \/ HostHasIt \/ Edit \/ Otherwise \/ Redraw \/ SleepScreen
  BY <1>1, <1>6, OtherSteps DEF WrittenStep, LineStep, TypedStep, ReadStep, SendsTyped
<1>7. CASE Restart
  <2>1. log' = <<>> /\ nav'.detail.peer = NoOne /\ ~SendsTyped(nav) /\ Len(log') = 0
    BY <1>7, RestartSteps
  <2> QED
    BY <1>1, <2>1 DEF WrittenStep, LineStep, TypedStep, ReadStep, SendsTyped
<1>8. CASE Draw
  <2>1. Len(log') = Len(log) /\ nav'.detail.peer = nav.detail.peer /\ (SendsTyped(nav) => nav' = nav)
    BY <1>8, DrawSteps, DrawingFacts, MarkedReadFacts, NavParts DEF SendsTyped, Modals
  <2> QED
    BY <1>1, <1>8, <2>1, ReadDraw DEF WrittenStep, LineStep, TypedStep, SendsTyped
<1>9. CASE \E p \in Peer : Arrive(p) \/ Hear(p)
  <2>1. stage = "drain" /\ nav' = nav /\ stage' = stage
    BY <1>9 DEF Arrive, Hear
  <2> QED
    BY <2>1 DEF WrittenStep, LineStep, TypedStep, ReadStep
<1> QED
  BY <1>2, <1>3, <1>4, <1>5, <1>6, <1>7, <1>8, <1>9 DEF PanelNext, Perform

(* A press does what the person who made it saw it would do: a message     *)
(* goes to the conversation it was written in, a lone press opens the line *)
(* that was lit, a typed message is sent or kept, and only what a lit      *)
(* panel showed counts as read, for every keyboard, page and queue.        *)
THEOREM PressesDoWhatWasSeen == PanelSpec => PanelCorrect
<1>1. PanelSpec => []PressInv
  BY PanelAlways
<1>2. PressInv => PanelTypeOK /\ AnsweredInThread /\ HighlightInView
  BY PanelStates
<1>3. PressInv /\ [PanelNext]_panelVars => WrittenStep /\ LineStep /\ TypedStep /\ ReadStep
  BY PanelActions
<1>4. /\ WrittenWhereChosen <=> [][WrittenStep]_panelVars
      /\ OpensTheLineShown <=> [][LineStep]_panelVars
      /\ TypedIsKept <=> [][TypedStep]_panelVars
      /\ ReadWasShown <=> [][ReadStep]_panelVars
  BY DEF WrittenWhereChosen, OpensTheLineShown, TypedIsKept, ReadWasShown,
         WrittenStep, LineStep, TypedStep, ReadStep
<1> QED
  BY <1>1, <1>2, <1>3, <1>4, PTL DEF PanelSpec, PanelCorrect

-----------------------------------------------------------------------------
(* The machines side by side.  Each of them, moving or not, takes a step   *)
(* of its own or none, so each keeps what it keeps alone.                  *)

SideInv == LoopInv /\ CsmaInv /\ PresenceInv /\ PressInv

LEMMA SideInit == LoopInit => SideInv
BY LoopInitInv, CsmaInitInv, PresenceInitInv, PanelStart DEF LoopInit, SideInv

LEMMA SideStep == SideInv /\ [LoopNext]_loopVars => SideInv'
<1> SUFFICES ASSUME SideInv, [LoopNext]_loopVars PROVE SideInv'
  OBVIOUS
<1>1. /\ [Next]_vars /\ [CsmaNext]_csmaVars
      /\ [PresenceNext]_presenceVars /\ [PanelNext]_panelVars
  <2>1. CASE UNCHANGED loopVars
    BY <2>1 DEF loopVars
  <2>2. ASSUME NEW m, Moves(m)
        PROVE  /\ [Next]_vars /\ [CsmaNext]_csmaVars
               /\ [PresenceNext]_presenceVars /\ [PanelNext]_panelVars
    BY <2>2, Zenon DEF Moves
  <2> QED
    BY <2>1, <2>2 DEF LoopNext
<1>2. LoopInv'
  BY <1>1, LoopNextInv DEF SideInv
<1>3. CsmaInv'
  BY <1>1, CsmaNextInv DEF SideInv
<1>4. PresenceInv'
  BY <1>1, PresenceStepInv DEF SideInv
<1>5. PressInv'
  BY <1>1, PanelStep DEF SideInv
<1> QED
  BY <1>2, <1>3, <1>4, <1>5 DEF SideInv

LEMMA SideAlways == LoopSpec => []SideInv
BY SideInit, SideStep, PTL DEF LoopSpec

(* Whatever machine moves, the states of the loop, of a wait and of the    *)
(* presence have their types.                                              *)
THEOREM TypesSideBySide == LoopSpec => []LoopTypeOK
<1>1. SideInv => LoopTypeOK
  BY DEF SideInv, LoopInv, CsmaInv, Numbers, Places, CsmaFlags, CsmaTypeOK,
         PresenceInv, PresenceFlags, Sides, PresenceTypeOK, LoopTypeOK
<1> QED
  BY <1>1, SideAlways, PTL
=============================================================================
