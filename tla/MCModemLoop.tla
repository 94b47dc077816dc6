---------------------------- MODULE MCModemLoop -----------------------------
(***************************************************************************)
(* The modem loop's machines side by side: the protocol and the radio it   *)
(* drives (ModemLoop), the wait of one packet for the channel (Csma), who  *)
(* is present (Presence), what a host is told (Answers), and the panel and *)
(* the keys the loop drains and performs in its turn (Panel).              *)
(*                                                                         *)
(* What ModemLoop takes from the others it states by itself: of a          *)
(* transmission what it leaves of the radio, of the presence HostRule,     *)
(* which Presence implements, of a command what it does and not what is    *)
(* answered, of the panel what it asks the protocol for.  They share no    *)
(* variable, so a behaviour of this module moves one of them, chosen at    *)
(* the start.                                                              *)
(***************************************************************************)
EXTENDS ModemLoop, Csma, Presence, Answers, Panel

VARIABLE machine   \* the one that moves

Machines == {"loop", "wait", "presence", "answers", "panel"}

loopVars == <<machine, vars, csmaVars, presenceVars, answersVars,
              panelVars>>

\* A symbol of 1, 2 or 4 microseconds: the slot and the budget are at their
\* least, between, and at their most
MCRate(bw) == [sf |-> 5, bw |-> bw, cr |-> 1, preamble |-> 1]
MCRates == {MCRate(32), MCRate(16), MCRate(8)}

LoopInit ==
    /\ machine \in Machines
    /\ Init /\ CsmaInit /\ PresenceInit /\ AnswersInit /\ PanelInit
    /\ machine = "wait" \/ (~listens /\ draws = 0 /\ rate = MCRate(32))
    /\ machine = "presence" \/ (~bus /\ ~dtr)

Moves(m) ==
    /\ machine = m /\ UNCHANGED machine
    /\ IF m = "loop" THEN Next ELSE UNCHANGED vars
    /\ IF m = "wait" THEN CsmaNext ELSE UNCHANGED csmaVars
    /\ IF m = "presence" THEN PresenceNext ELSE UNCHANGED presenceVars
    /\ IF m = "answers" THEN AnswersNext ELSE UNCHANGED answersVars
    /\ IF m = "panel" THEN PanelNext ELSE UNCHANGED panelVars

LoopNext ==
    \/ Moves("loop") \/ Moves("wait") \/ Moves("presence") \/ Moves("answers")
    \/ Moves("panel")

(* Every operation of the modem is bounded by a timeout, so a packet that  *)
(* has been started goes on; the loop keeps passing, and time goes by.     *)
Fairness ==
    /\ WF_csmaVars(machine = "wait" /\ Proceeds)
    /\ WF_presenceVars(machine = "presence" /\ Update)
    /\ WF_presenceVars(machine = "presence" /\ TimePasses)

LoopSpec == LoopInit /\ [][LoopNext]_loopVars /\ Fairness

(* The states of the machines have their types; Answers and Panel state    *)
(* their own.                                                              *)
LoopTypeOK == TypeOK /\ CsmaTypeOK /\ PresenceTypeOK

(* Nobody is waited for for ever: a packet's wait for the channel ends, and *)
(* a host that has gone is forgotten.                                       *)
NothingWaitsForEver == WaitEnds /\ GoneIsForgotten

-----------------------------------------------------------------------------
(* The instance: two configurations the radio can do and one it cannot.    *)
CONSTANTS c1, c2, bad

(* Two hosts in turn, and the second may come before the board has missed  *)
(* the first.  A host asks for 915 MHz, whose last byte is the frame       *)
(* delimiter, at a negative power, or for a frequency with both of the     *)
(* bytes that are escaped, at a power no amplifier has.  A packet is heard *)
(* at the one SNR that would end its own frame; or it is a delimiter,      *)
(* heard below what the RSSI byte can say at the SNR whose byte is an      *)
(* escape.  The outbox has room for one of them, and for the smaller with  *)
(* the word that one was sent.                                             *)
MCAsked ==
    [frequency |-> <<54, 137, 202, 192>>, bandwidth |-> <<0, 1, 232, 72>>,
     power |-> <<239>>, sf |-> <<8>>, cr |-> <<5>>]
MCRefused ==
    [frequency |-> <<54, 137, 219, 192>>, bandwidth |-> <<0, 0, 244, 36>>,
     power |-> <<40>>, sf |-> <<7>>, cr |-> <<5>>]
MCWishes == {MCAsked, MCRefused}
MCBoots == [MCAsked EXCEPT !.power = <<14>>]
MCImpossible == {<<40>>}
MCPackets ==
    {[payload |-> <<1>>, rssi_dbm |-> -69, snr_quarter_db |-> -64],
     [payload |-> <<192>>, rssi_dbm |-> -160, snr_quarter_db |-> -37]}
MCHash == <<192, 219>>

\* A strip of five screens, and a keyboard of four keys
MCStrip == <<"Home", "Messages", "Peers", "Radio", "System">>
MCKeyGrid == << <<"char", "send">>, <<"quit", "char">> >>
MCPlain == {3}
=============================================================================
