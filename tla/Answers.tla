------------------------------- MODULE Answers -------------------------------
(***************************************************************************)
(* What a host is told: the commands of core/src/rnode/command.rs, what    *)
(* Protocol::handle answers to each (core/src/rnode/protocol.rs), what the *)
(* radio makes of it (act in src/bin/rnode.rs), and the bytes the answers  *)
(* are on the wire.                                                        *)
(*                                                                         *)
(* The host is Reticulum's, as the comments and the tests of the two files *)
(* describe it: it writes its commands without waiting, un-escapes some    *)
(* fields and reads others raw, acts on a field the moment it is complete, *)
(* and comes online if what it was told is what it asked for.  The other   *)
(* host is rnodeconf, that locks, unlocks and asks for hashes.  How the    *)
(* bytes of a host become frames, and where a frame goes when there are    *)
(* two hosts, is HostLink's; who counts as a host is Presence's.  The      *)
(* image of the ROM and what is on the panel are not here.                 *)
(***************************************************************************)
EXTENDS Integers, Sequences, SequencesExt, FiniteSets

CONSTANTS
    Wishes,      \* the configurations hosts ask for, by field, in bytes
    Boots,       \* DEFAULT
    Impossible,  \* powers ValidConfig::new refuses
    Packets,     \* what the radio can hear: payload, rssi_dbm, snr_quarter_db
    Hash,        \* the hash of the firmware that is expected
    Room,        \* N of Outbox, in bytes
    MaxSessions  \* bound: sessions of hosts

FieldNames == {"frequency", "bandwidth", "power", "sf", "cr"}
Bytes == Seq(0..255)

ASSUME AnswersAssumption ==
    /\ \A w \in Wishes \union {Boots} : DOMAIN w = FieldNames /\ \A f \in FieldNames : w[f] \in Bytes
    /\ \A p \in Packets : p.payload \in Bytes /\ p.payload # <<>>
    /\ \A p, q \in Packets : p.payload = q.payload => p = q
    /\ Hash \in Bytes /\ Hash # <<>>
    /\ Room \in Nat /\ MaxSessions \in Nat

VARIABLES
    wanted,     \* Protocol::config, what was asked for last
    on,         \* Protocol::state
    isLocked,   \* Protocol::locked
    hash,       \* DeviceStore::target_firmware_hash, <<>> for none
    kept,       \* the configuration the record stores: one or none
    programmed, \* whether the loop has a configuration `applied`
    hearing,    \* whether it is `receiving`
    queue,      \* the outbox of the host's transport
    lost,       \* whether a frame of this session did not fit
    ear,        \* the host's reader, and what it was told
    wants,      \* the configuration this host was given
    script,     \* the commands it has yet to write
    standing,   \* "asking", "online" or "tool"; "left" when it has
                \* gone and the board has yet to notice, "away" when it has
    waiting,    \* flow control: it waits to be let send again
    sessions    \* sessions so far, up to MaxSessions

settings == <<wanted, on, isLocked, hash, kept>>
board == <<settings, programmed, hearing>>
outgoing == <<queue, lost>>
guest == <<ear, wants, script, standing, waiting, sessions>>
answersVars == <<board, outgoing, guest>>

----------------------------------------------------------------------------
(* Definitions named X_Bug are X as a plausible mistake would have it.     *)

(* The commands a host can have an answer to. *)
Byte == [data |-> 0, frequency |-> 1, bandwidth |-> 2, power |-> 3, sf |-> 4,
         cr |-> 5, state |-> 6, lock |-> 7, detect |-> 8, st_alock |-> 11,
         lt_alock |-> 12, ready |-> 15, rssi |-> 35, snr |-> 36, board |-> 71,
         platform |-> 72, mcu |-> 73, fw_version |-> 80, hashes |-> 96,
         error |-> 144]

(* What a question about the board itself is answered with: DETECT_RESP,   *)
(* FW_VERSION, PLATFORM_NRF52, MCU_NRF52 and BOARD_HMBRW.                  *)
Fixed == [detect |-> <<70>>, fw_version |-> <<1, 52>>, platform |-> <<112>>,
          mcu |-> <<113>>, board |-> <<50>>]

(* hash_kind and error: the codes a host tells apart. *)
Target == 1
Running == 2
INITRADIO == <<1>>
TXFAILED == <<2>>
MODEM_TIMEOUT == <<6>>

FEND == 192
FESC == 219
TFEND == 220
TFESC == 221

host_unescapes_All(c) == c \in Nat

(* The fields the board escapes, because the host un-escapes them. *)
host_unescapes(c) ==
    c \in {Byte.data, Byte.frequency, Byte.bandwidth, Byte.fw_version,
           Byte.st_alock, Byte.lt_alock, Byte.hashes}

Escape(b) == IF b = FEND THEN <<FESC, TFEND>>
             ELSE IF b = FESC THEN <<FESC, TFESC>> ELSE <<b>>

(* encode_response: the frame a command and a payload are. *)
encode_response(c, payload) ==
    <<FEND, c>>
      \o (IF host_unescapes(c)
          THEN FlattenSeq([i \in 1..Len(payload) |-> Escape(payload[i])])
          ELSE payload)
      \o <<FEND>>

Frame(name, payload) == encode_response(Byte[name], payload)

(* Outbox::frame, for frames in the order they are said: one that does not *)
(* fit is lost whole, and a shorter one behind it may still go.            *)
Says(frames) ==
    LET queued(q, f) == IF Len(q) + Len(f) <= Room THEN q \o f ELSE q
        after == FoldLeft(queued, queue, frames)
    IN  /\ queue' = after
        /\ lost' = (lost \/ Len(after) < Len(queue) + Len(FlattenSeq(frames)))

----------------------------------------------------------------------------
(* decode: what a frame asks.  The bytes a command takes are the least its *)
(* frame may carry, and any behind them are ignored.                       *)

Takes == [frequency |-> 4, bandwidth |-> 4, power |-> 1, sf |-> 1, cr |-> 1,
          state |-> 1, lock |-> 1, st_alock |-> 2, lt_alock |-> 2,
          detect |-> 1, hashes |-> 1, fw_hash |-> Len(Hash)]

Taken(name) == IF name \in DOMAIN Takes THEN Takes[name] ELSE 0

\* RadioState::decode, the detect handshake and hash_kind
OnlyThese == [state |-> {<<0>>, <<1>>, <<255>>}, detect |-> {<<115>>},
              hashes |-> {<<Target>>, <<Running>>}]

Malformed == <<"malformed", <<>>>>

decode(name, payload) ==
    LET carried == SubSeq(payload, 1, Taken(name))
    IN  IF \/ Len(payload) < Taken(name)
           \/ name \in DOMAIN OnlyThese /\ carried \notin OnlyThese[name]
        THEN Malformed ELSE <<name, carried>>

----------------------------------------------------------------------------
(* Protocol::handle, a command at a time, and act.                         *)

RadioByte(b) == IF b THEN <<1>> ELSE <<0>>

(* The host writes what is next, and the board has it to handle. *)
Asked == decode(Head(script)[1], Head(script)[2])

Writes(name) ==
    /\ script # <<>> /\ Asked[1] = name
    /\ script' = Tail(script)
    /\ UNCHANGED <<ear, wants, standing, waiting, sessions>>

Carried == Asked[2]

(* act on Reconfigure: apply, which forgets what was programmed when it    *)
(* fails, and start_rx.  Either failing is an error to the host.           *)
Reconfigured(outcome) ==
    /\ programmed' = CASE outcome = "done" -> TRUE
                        [] outcome = "unapplied" -> FALSE
                        [] outcome = "unstarted" -> programmed
    /\ hearing' = (outcome = "done")

Outcomes == {"done", "unapplied", "unstarted"}

Complaint(outcome) ==
    IF outcome = "done" THEN <<>> ELSE <<Frame("error", INITRADIO)>>

(* act on Standby. *)
StoodBy == hearing' = FALSE /\ UNCHANGED programmed


(* Detect and the questions about the board. *)
Answer ==
    \E q \in DOMAIN Fixed :
        Writes(q) /\ Says(<<Frame(q, Fixed[q])>>) /\ UNCHANGED board

(* set: a locked configuration is kept. *)
Kept(f, v) == IF isLocked THEN wanted ELSE [wanted EXCEPT ![f] = v]

(* The five setters: each answers with what is held then, wanted and not   *)
(* commanded, valid or not.                                                *)
SetField ==
    \E f \in FieldNames :
        /\ Writes(f)
        /\ wanted' = Kept(f, Carried)
        /\ Says(<<Frame(f, wanted'[f])>>)
        /\ UNCHANGED <<on, isLocked, hash, kept, programmed, hearing>>

SetLock ==
    /\ Writes("lock")
    /\ isLocked' = (Carried # <<0>>)
    /\ Says(<<Frame("lock", RadioByte(isLocked'))>>)
    /\ UNCHANGED <<wanted, on, hash, kept, programmed, hearing>>

(* An airtime limit is kept, lock or no lock, and nothing but its echo     *)
(* ever looks at it.                                                       *)
SetLimit ==
    \E l \in {"st_alock", "lt_alock"} :
        Writes(l) /\ Says(<<Frame(l, Carried)>>) /\ UNCHANGED board

AskState ==
    /\ Writes("state") /\ Carried = <<255>>
    /\ Says(<<Frame("state", RadioByte(on))>>)
    /\ UNCHANGED board

TurnOff ==
    /\ Writes("state") /\ Carried = <<0>>
    /\ on' = FALSE /\ StoodBy
    /\ Says(<<Frame("state", RadioByte(FALSE))>>)
    /\ UNCHANGED <<wanted, isLocked, hash, kept>>

(* A radio that cannot be given what is wanted stays off, and the answer   *)
(* says so; one that will not be programmed is an error behind the answer, *)
(* which had been given.                                                   *)
TurnOn ==
    /\ Writes("state") /\ Carried = <<1>>
    /\ on' = (wanted.power \notin Impossible)
    /\ \/ /\ on'
          /\ \E outcome \in Outcomes :
                Reconfigured(outcome)
                  /\ Says(<<Frame("state", RadioByte(TRUE))>> \o Complaint(outcome))
       \/ ~on' /\ StoodBy /\ Says(<<Frame("state", RadioByte(FALSE))>>)
    /\ UNCHANGED <<wanted, isLocked, hash, kept>>

SetFirmwareHash ==
    /\ Writes("fw_hash") /\ hash' = Carried
    /\ UNCHANGED <<wanted, on, isLocked, kept, programmed, hearing, outgoing>>

(* CMD_CONF_SAVE and CMD_CONF_DELETE: nothing is said of either. *)
Stores ==
    /\ \/ Writes("conf_save") /\ kept' = {wanted}
       \/ Writes("conf_delete") /\ kept' = {}
    /\ UNCHANGED <<wanted, on, isLocked, hash, programmed, hearing, outgoing>>

(* report_hash: only the one that was stored, and only if one was. *)
QueryHash ==
    /\ Writes("hashes")
    /\ Says(IF Carried = <<Target>> /\ hash # <<>>
            THEN <<Frame("hashes", Carried \o hash)>> ELSE <<>>)
    /\ UNCHANGED board

(* Not implemented, not on this board, unknown or malformed. *)
Silent ==
    /\ Writes("malformed") \/ Writes("unknown")
    /\ UNCHANGED <<board, outgoing>>

----------------------------------------------------------------------------
(* Packets. *)

encode_rssi(dbm) ==
    LET v == dbm + 157 IN IF v < 0 THEN 0 ELSE IF v > 255 THEN 255 ELSE v

(* The one byte that would end its own frame is avoided. *)
encode_snr(quarter_db) ==
    LET byte == quarter_db % 256 IN IF byte = FEND THEN FEND + 1 ELSE byte

(* received: the signal, and then the packet it is of. *)
Received(p) ==
    <<Frame("rssi", <<encode_rssi(p.rssi_dbm)>>),
      Frame("snr", <<encode_snr(p.snr_quarter_db)>>), Frame("data", p.payload)>>

HostThere == standing \notin {"left", "away"}

(* A packet is heard while there is a host. *)
Hears(p) ==
    /\ hearing /\ HostThere
    /\ Says(Received(p))
    /\ UNCHANGED <<board, guest>>

(* One that could not be read is an error, and the receiver goes on. *)
FailsToHear ==
    /\ hearing /\ HostThere
    /\ Says(<<Frame("error", MODEM_TIMEOUT)>>)
    /\ UNCHANGED <<board, guest>>

(* transmitted, or the error in its place. *)
Sent(went) == IF went THEN Frame("ready", <<>>) ELSE Frame("error", TXFAILED)

(* The host sends a packet, and another may be heard while it waits for    *)
(* the channel, which it spends in receive.  A receiver that was on may    *)
(* not come back.  With the radio off, or never programmed, a packet is    *)
(* dropped.                                                                *)
Sends ==
    /\ standing = "online" /\ ~waiting /\ waiting' = TRUE
    /\ \/ /\ on /\ programmed
          /\ \E before \in {<<>>} \union {Received(p) : p \in Packets}, went \in BOOLEAN :
                Says(Append(before, Sent(went)))
          /\ hearing' \in {hearing, FALSE}
       \/ ~(on /\ programmed) /\ UNCHANGED <<outgoing, hearing>>
    /\ UNCHANGED <<settings, programmed, ear, wants, script, standing, sessions>>

----------------------------------------------------------------------------
(* The host. *)

Silence == [f \in DOMAIN Byte |-> <<>>]
NoCommand == -1
Listening == [command |-> NoCommand, got |-> <<>>, escape |-> FALSE,
              told |-> Silence, packet |-> <<>>]

(* The fields it un-escapes, with the bytes it waits for. *)
Width == [frequency |-> 4, bandwidth |-> 4, fw_version |-> 2, st_alock |-> 2,
          lt_alock |-> 2, hashes |-> 1 + Len(Hash)]

Named(e) == CHOOSE f \in DOMAIN Byte : Byte[f] = e.command

(* A byte of a field: some are gathered and un-escaped, of the others each *)
(* one overwrites the last.                                                *)
Gathers(e, b) ==
    LET plain == IF ~e.escape THEN b
                 ELSE IF b = TFEND THEN FEND ELSE IF b = TFESC THEN FESC ELSE b
        got == Append(e.got, plain)
        f == Named(e)
    IN  IF b = FESC /\ ~e.escape THEN [e EXCEPT !.escape = TRUE]
        ELSE [e EXCEPT !.escape = FALSE, !.got = got,
                       !.told = IF f # "data" /\ Len(got) = Width[f]
                                THEN [@ EXCEPT ![f] = got] ELSE @]

(* A delimiter ends what there is: a packet goes up with the signal that   *)
(* was told last, which is forgotten.                                      *)
Ends(e) ==
    LET ended == [e EXCEPT !.command = NoCommand, !.got = <<>>, !.escape = FALSE]
    IN  IF e.command = Byte.data
        THEN [ended EXCEPT !.packet = <<e.got, e.told.rssi, e.told.snr>>,
                           !.told = [@ EXCEPT !.rssi = <<>>, !.snr = <<>>]]
        ELSE IF e.command = Byte.ready
        THEN [ended EXCEPT !.told = [@ EXCEPT !.ready = <<1>>]]
        ELSE ended

Understands(e, b) ==
    IF b = FEND THEN Ends(e)
    ELSE IF e.command = NoCommand THEN [e EXCEPT !.command = b]
    ELSE IF e.command \notin {Byte[f] : f \in DOMAIN Byte} THEN e
    ELSE IF Named(e) \in DOMAIN Width \union {"data"} THEN Gathers(e, b)
    ELSE IF e.command = Byte.error
    THEN [e EXCEPT !.told = [@ EXCEPT !.error = Append(@, b)]]
    ELSE [e EXCEPT !.told = [@ EXCEPT ![Named(e)] = <<b>>]]

(* A host goes, and what it had not read is abandoned. *)
Gone ==
    /\ standing' = "left" /\ script' = <<>> /\ queue' = <<>>
    /\ ear' = Listening /\ wants' = Boots /\ waiting' = FALSE /\ lost' = FALSE
    /\ UNCHANGED sessions

(* It reads what has come.  It is let send again, or drops the interface   *)
(* for an error.                                                           *)
Reads ==
    /\ queue # <<>> /\ HostThere
    /\ LET heard == FoldLeft(Understands, [ear EXCEPT !.packet = <<>>], queue)
           dropped == \E e \in {INITRADIO, TXFAILED} : e[1] \in Range(heard.told.error)
       IN  IF dropped THEN Gone ELSE
           /\ ear' = [heard EXCEPT !.told = [@ EXCEPT !.ready = <<>>, !.error = <<>>]]
           /\ waiting' = (waiting /\ heard.told.ready = <<>>)
           /\ queue' = <<>>
           /\ UNCHANGED <<lost, wants, script, standing, sessions>>
    /\ UNCHANGED board

(* What configure_device writes, and what rnodeconf may.  The questions    *)
(* about the board that a host asks with the first one are a tool's here.  *)
Startup(w) ==
    <<<<"detect", <<115>>>>, <<"frequency", w.frequency>>,
      <<"bandwidth", w.bandwidth>>, <<"power", w.power>>, <<"sf", w.sf>>,
      <<"cr", w.cr>>, <<"state", <<1>>>>>>

Tools ==
    {<<<<"conf_save", <<0>>>>, <<"power", <<5>>>>, <<"lock", <<1>>>>>>,
     <<<<"lock", <<0>>>>, <<"st_alock", <<0, 192>>>>, <<"conf_delete", <<0>>>>>>,
     <<<<"hashes", <<Target>>>>, <<"hashes", <<Running>>>>, <<"fw_hash", Hash>>,
       <<"hashes", <<Target>>>>>>,
     <<<<"fw_version", <<0>>>>, <<"platform", <<0>>>>, <<"mcu", <<0>>>>, <<"board", <<0>>>>>>,
     <<<<"frequency", <<54, 137>>>>, <<"unknown", <<>>>>, <<"state", <<255>>>>,
       <<"lt_alock", <<1, 244, 0>>>>, <<"state", <<0>>>>>>}

(* A host comes, with a reader that has been told nothing, though perhaps  *)
(* before the last one is missed.                                          *)
Comes(w, s, as) ==
    /\ ~HostThere /\ sessions < MaxSessions
    /\ sessions' = sessions + 1
    /\ wants' = w /\ script' = s /\ standing' = as
    /\ UNCHANGED <<board, outgoing, ear, waiting>>

(* validateRadioState: everything but the coding rate.  A host that finds  *)
(* anything else closes the port.                                          *)
Compared == FieldNames \ {"cr"}

Judges ==
    /\ standing = "asking" /\ script = <<>>
    /\ IF ear.told.state = <<1>> /\ \A f \in Compared : ear.told[f] = wants[f]
       THEN standing' = "online"
              /\ UNCHANGED <<outgoing, ear, wants, script, waiting, sessions>>
       ELSE Gone
    /\ UNCHANGED board

(* It goes, with the command that says so or without. *)
Leaves ==
    /\ HostThere /\ Gone
    /\ \/ on' = FALSE /\ StoodBy
       \/ UNCHANGED <<on, programmed, hearing>>
    /\ UNCHANGED <<wanted, isLocked, hash, kept>>

(* The board notices.  One with a stored configuration goes back to it,    *)
(* lock or no lock, as at boot; to one the radio cannot do, off, and       *)
(* nothing is asked of the radio.  An error in it waits for who comes next *)
(* or is abandoned.                                                        *)
StandsAlone ==
    /\ standing = "left" /\ standing' = "away"
    /\ \/ kept = {} /\ UNCHANGED <<wanted, on, programmed, hearing, queue>>
       \/ \E c \in kept, outcome \in Outcomes :
             /\ wanted' = c /\ on' = (c.power \notin Impossible)
             /\ IF on' THEN /\ Reconfigured(outcome)
                           /\ queue' \in {<<>>, FlattenSeq(Complaint(outcome))}
                ELSE UNCHANGED <<programmed, hearing, queue>>
    /\ UNCHANGED <<isLocked, hash, kept, lost, ear, wants, script, waiting, sessions>>

AnswersInit ==
    /\ wanted = Boots /\ on = FALSE /\ isLocked = FALSE /\ hash = <<>>
    /\ kept = {} /\ programmed = FALSE
    /\ hearing = FALSE /\ queue = <<>> /\ lost = FALSE
    /\ ear = Listening /\ wants = Boots /\ script = <<>>
    /\ standing = "away" /\ waiting = FALSE /\ sessions = 0

(* The bound on sessions is reached. *)
NoMoreComes ==
    standing = "away" /\ sessions = MaxSessions /\ UNCHANGED answersVars

Handle ==
    \/ Answer \/ SetField \/ SetLock \/ SetLimit \/ AskState \/ TurnOff
    \/ TurnOn \/ SetFirmwareHash \/ Stores \/ QueryHash \/ Silent

AnswersNext ==
    \/ Handle \/ Reads \/ Judges \/ Sends \/ Leaves \/ StandsAlone
    \/ FailsToHear \/ NoMoreComes
    \/ \E p \in Packets : Hears(p)
    \/ \E w \in Wishes : Comes(w, Startup(w), "asking")
    \/ \E s \in Tools : Comes(wants, s, "tool")

AnswersSpec == AnswersInit /\ [][AnswersNext]_answersVars

----------------------------------------------------------------------------
AnswersTypeOK ==
    /\ wanted \in [FieldNames -> Bytes] /\ wants \in Wishes \union {Boots}
    /\ on \in BOOLEAN /\ isLocked \in BOOLEAN
    /\ programmed \in BOOLEAN /\ hearing \in BOOLEAN
    /\ kept \subseteq [FieldNames -> Bytes] /\ \A c, d \in kept : c = d
    /\ lost \in BOOLEAN /\ waiting \in BOOLEAN
    /\ hash \in {<<>>, Hash} /\ sessions \in 0..MaxSessions
    /\ queue \in Bytes /\ Len(queue) <= Room
    /\ \A i \in 1..Len(script) : script[i][1] \in STRING /\ script[i][2] \in Bytes
    /\ standing \in {"left", "away", "asking", "online", "tool"}

(* A host that came online did so on a radio that is on and holds what it  *)
(* was given in every field the host compares: not by an echo of what it   *)
(* asked and the lock refused, nor by one lost or cut short on the way.    *)
OnlineIsTrue ==
    standing = "online" => on /\ \A f \in Compared : wanted[f] = wants[f]

(* What a host was told of a field, with nothing lost and all of it read,  *)
(* is what the board holds, byte for byte, also where a byte is a          *)
(* delimiter.                                                              *)
ToldIsHeld ==
    HostThere /\ ~lost /\ queue = <<>> =>
        /\ \A f \in FieldNames : ear.told[f] \in {<<>>, wanted[f]}
        /\ ear.told.state \in {<<>>, RadioByte(on)}
        /\ ear.told.lock \in {<<>>, RadioByte(isLocked)}
        /\ ear.told.hashes \in {<<>>, <<Target>> \o hash}
        /\ \A q \in DOMAIN Fixed : ear.told[q] \in {<<>>, Fixed[q]}

(* A packet goes up in the host with its own signal: saturated where the   *)
(* byte cannot say it, within a quarter of a decibel, and never with what  *)
(* an earlier packet left or with none.                                    *)
SignalIsItsPackets ==
    ear.packet # <<>> =>
        \E p \in Packets :
            /\ p.payload = ear.packet[1]
            /\ Len(ear.packet[2]) = 1 /\ Len(ear.packet[3]) = 1
            /\ LET dbm == ear.packet[2][1] - 157
               IN  dbm = p.rssi_dbm \/ (dbm = -157 /\ p.rssi_dbm < dbm)
                                    \/ (dbm = 98 /\ p.rssi_dbm > dbm)
            /\ (ear.packet[3][1] - p.snr_quarter_db) % 256 \in {0, 1}

(* A host with flow control that sent a packet is let send again, or told  *)
(* of the failure it drops the interface for; it waits for ever only for a *)
(* frame its outbox had no room for.                                       *)
ReleasedOrTold ==
    standing = "online" /\ waiting /\ queue = <<>> => lost

(* What a host believes of the board is true. *)
AnswersCorrect ==
    AnswersTypeOK /\ OnlineIsTrue /\ ToldIsHeld /\ SignalIsItsPackets /\ ReleasedOrTold
=============================================================================
