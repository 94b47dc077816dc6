-------------------------------- MODULE Csma --------------------------------
(***************************************************************************)
(* One packet onto the air: the carrier-sense wait of                      *)
(* core/src/lr1121/csma.rs, driven by Modem::transmit in src/modem.rs and  *)
(* by send_packet in src/bin/rnode.rs, which goes round again for every    *)
(* packet heard during the wait and sends the second frame of a split with *)
(* no wait at all.                                                         *)
(***************************************************************************)
EXTENDS Lora, FiniteSets

CONSTANTS
    Rates,      \* what of a valid configuration the air notices
    Lengths,    \* the lengths of a packet's first frame, the header included
    FrameMax,   \* MAX_PAYLOAD
    SlotSymbols, SlotMin, SlotMax,      \* SLOT_SYMBOLS, SLOT_MIN_US, SLOT_MAX_US
    Airtimes, BudgetMin, BudgetMax,     \* BUDGET_AIRTIMES, BUDGET_MIN_US, BUDGET_MAX_US
    Difs,       \* DIFS_SLOTS
    CwMax,      \* CW_MAX
    MaxHeard,   \* bound: packets heard during one wait
    Endless     \* whether the neighbours may go on past that bound for ever

ASSUME CsmaAssumption ==
    /\ \A r \in Rates : /\ {r.sf, r.cr, r.preamble} \subseteq Nat /\ r.sf > 2
                        /\ symbol_time(r.sf, r.bw) \in Nat \ {0}
    /\ FrameMax \in Lengths /\ Lengths \subseteq 1..FrameMax
    /\ SlotSymbols \in Nat /\ SlotMin \in Nat \ {0} /\ SlotMax \in Nat /\ SlotMin <= SlotMax
    /\ {Airtimes, BudgetMin, BudgetMax} \subseteq Nat /\ BudgetMin <= BudgetMax
    /\ Difs \in Nat \ {0, 1} /\ CwMax \in Nat
    /\ MaxHeard \in Nat /\ Endless \in BOOLEAN

VARIABLES
    pc,         \* where send_packet is
    rate,       \* the configuration it goes out with
    frames,     \* how many frames the packet is cut into
    length,     \* the length of the first
    need,       \* clear senses needed in a row
    run,        \* clear senses seen in a row
    waited,     \* waited_us
    forced,     \* whether the budget ran out
    draws,      \* the contention window drawn last
    quiet,      \* clear senses since anything at all was heard
    overheard,  \* packets heard during this wait, up to MaxHeard
    believed,   \* whether the loop believes the chip is in receive
    listens     \* whether the chip is in continuous receive

csmaVars == <<pc, rate, frames, length, need, run, waited, forced, draws, quiet, overheard,
              believed, listens>>

packet == <<rate, frames, length>>

Window == 0..CwMax

Between(low, x, high) == IF x < low THEN low ELSE IF x > high THEN high ELSE x

\* slot_us and budget_us, of the configuration and the frame
Slot == Between(SlotMin, SlotSymbols * symbol_time(rate.sf, rate.bw), SlotMax)

Budget == Between(BudgetMin, Airtimes * airtime(rate, length), BudgetMax)

----------------------------------------------------------------------------
(* Definitions named X_Bug are X as a plausible mistake would have it; the *)
(* runs' properties are shown to notice each of them.                      *)

(* What Backoff::next decides after a clear sense and after a busy one.    *)
Enough == run + 1 >= need

Spent == waited >= Budget

SlotCounted_Not == waited

SlotCounted_Down == waited - Slot

(* A Wait step counts its slot before it is waited out. *)
SlotCounted == waited + Slot

(* Backoff::next(Clear): transmit, force or wait. *)
ClearSense ==
    /\ run' = run + 1 /\ quiet' = quiet + 1
    /\ UNCHANGED <<need, draws>>
    /\ \/ /\ Enough
          /\ pc' = "send" /\ UNCHANGED <<waited, forced>>
       \/ /\ ~Enough /\ Spent
          /\ pc' = "send" /\ forced' = TRUE /\ UNCHANGED waited
       \/ /\ ~Enough /\ ~Spent
          /\ pc' = "listen" /\ waited' = SlotCounted /\ UNCHANGED forced

ResetRun_KeepsRun == run

ResetRun == 0

(* Backoff::next(Busy), then going to `after` unless the budget is spent.  *)
BusySense(after, spent) ==
    /\ run' = ResetRun /\ quiet' = 0
    /\ draws' \in Window /\ need' = Difs + draws'
    /\ \/ /\ Spent
          /\ pc' = spent /\ forced' = TRUE /\ UNCHANGED waited
       \/ /\ ~Spent
          /\ pc' = after /\ waited' = SlotCounted /\ UNCHANGED forced

----------------------------------------------------------------------------
(* send_packet: frame the packet and start the wait, Backoff::new. *)
Start(r, n, len) ==
    /\ pc = "idle"
    /\ n = 2 => len = FrameMax
    /\ pc' = "sense" /\ rate' = r /\ frames' = n /\ length' = len
    /\ draws' \in Window /\ need' = Difs + draws'
    /\ run' = 0 /\ waited' = 0 /\ forced' = FALSE /\ quiet' = 0 /\ overheard' = 0
    /\ UNCHANGED <<believed, listens>>

(* Modem::transmit asks before every sense whether to give up. *)
Abandon ==
    /\ pc = "sense"
    /\ pc' = "return"
    /\ UNCHANGED <<packet, need, run, waited, forced, draws, quiet, overheard, believed, listens>>

(* Modem::sense takes the chip out of receive, whatever it answers. *)
SenseClear ==
    /\ pc = "sense"
    /\ ClearSense
    /\ listens' = FALSE
    /\ UNCHANGED <<packet, overheard, believed>>

SenseBusy ==
    /\ pc = "sense"
    /\ BusySense("listen", "send")
    /\ listens' = FALSE
    /\ UNCHANGED <<packet, overheard, believed>>

MayHear == overheard < MaxHeard \/ Endless

(* A sense that catches a packet, or a listening slot that does: the       *)
(* channel counts as busy, what to do next is not looked at, the packet is *)
(* handed up and send_packet goes round to transmit again.                 *)
Overhear(at) ==
    /\ pc = at /\ MayHear
    /\ BusySense("sense", "sense")
    /\ overheard' = IF overheard < MaxHeard THEN overheard + 1 ELSE overheard
    /\ listens' = FALSE
    /\ UNCHANGED <<packet, believed>>

ListenQuiet ==
    /\ pc = "listen"
    /\ pc' = "sense"
    /\ listens' = FALSE
    /\ UNCHANGED <<packet, need, run, waited, forced, draws, quiet, overheard, believed>>

(* Modem::send: the first frame, and after it the second with no wait. *)
Send ==
    /\ pc = "send"
    /\ pc' = IF frames = 2 THEN "second" ELSE "return"
    /\ listens' = FALSE
    /\ UNCHANGED <<packet, need, run, waited, forced, draws, quiet, overheard, believed>>

SendSecond ==
    /\ pc = "second"
    /\ pc' = "return"
    /\ listens' = FALSE
    /\ UNCHANGED <<packet, need, run, waited, forced, draws, quiet, overheard, believed>>

(* The chip refuses, or does not answer, anywhere on the way. *)
Fail ==
    /\ pc \in {"sense", "listen", "send", "second"}
    /\ pc' = "return"
    /\ listens' = FALSE
    /\ UNCHANGED <<packet, need, run, waited, forced, draws, quiet, overheard, believed>>

(* However the packet fared, the chip goes back to continuous receive if   *)
(* the loop had it there; a start_rx that fails says so in `believed`.     *)
Return ==
    /\ pc = "return"
    /\ pc' = "idle"
    /\ \/ ~believed /\ UNCHANGED <<believed, listens>>
       \/ believed /\ listens' = TRUE /\ UNCHANGED believed
       \/ believed /\ listens' = FALSE /\ believed' = FALSE
    /\ UNCHANGED <<packet, need, run, waited, forced, draws, quiet, overheard>>

----------------------------------------------------------------------------
CsmaInit ==
    /\ pc = "idle" /\ rate \in Rates /\ frames = 1 /\ length = FrameMax
    /\ draws \in Window /\ need = Difs + draws
    /\ run = 0 /\ waited = 0 /\ forced = FALSE /\ quiet = 0 /\ overheard = 0
    /\ believed \in BOOLEAN /\ listens = believed

CsmaNext ==
    \/ \E r \in Rates, n \in {1, 2}, len \in Lengths : Start(r, n, len)
    \/ Abandon \/ SenseClear \/ SenseBusy
    \/ \E at \in {"sense", "listen"} : Overhear(at)
    \/ ListenQuiet \/ Send \/ SendSecond \/ Fail \/ Return

CsmaSpec == CsmaInit /\ [][CsmaNext]_csmaVars

(* Every operation of the modem is bounded by a timeout, so the loop goes  *)
(* on once a packet has been started.                                      *)
Proceeds == pc # "idle" /\ CsmaNext

----------------------------------------------------------------------------
CsmaTypeOK ==
    /\ pc \in {"idle", "sense", "listen", "send", "second", "return"}
    /\ rate \in Rates /\ frames \in {1, 2} /\ length \in Lengths
    /\ draws \in Window /\ need \in Nat /\ run \in Nat
    /\ waited \in Nat /\ forced \in BOOLEAN
    /\ quiet \in Nat /\ overheard \in 0..MaxHeard
    /\ believed \in BOOLEAN /\ listens \in BOOLEAN

(* A packet that goes of its own accord goes on a channel that was heard   *)
(* clear, and nothing else, for the DIFS and the whole of the window drawn *)
(* when it was last heard in use, by a sense or by a packet.               *)
GoesOnAClearChannel ==
    pc \in {"send", "second"} /\ ~forced => quiet >= Difs + draws

(* A packet is forced out only when it has waited for the shortest budget  *)
(* at least, and for Airtimes of its own or the longest budget; and no     *)
(* wait the report claims passes its budget by as much as a slot, nor, of  *)
(* a full frame at the slowest rate either, the longest by the longest.    *)
ForcedMeansSpent ==
    /\ forced => /\ waited >= BudgetMin
                 /\ waited >= Airtimes * airtime(rate, length) \/ waited >= BudgetMax
    /\ waited < Budget + Slot /\ waited < BudgetMax + SlotMax

(* Between packets, a loop that believes the chip is receiving is right:   *)
(* no outcome of a transmission leaves the modem deaf.                     *)
NeverDeaf == pc = "idle" /\ believed => listens

(* A packet goes on a channel it has heard clear, or when it has waited    *)
(* its budget out, and the modem listens again afterwards.                 *)
SentRightly == GoesOnAClearChannel /\ ForcedMeansSpent /\ NeverDeaf

(* The wait ends: the budget is spent and the packet goes regardless.      *)
WaitEnds == []<>(pc = "idle")
=============================================================================
