-------------------------------- MODULE Flash --------------------------------
(***************************************************************************)
(* The W25Q128 and the two images that talk to it: the product parks it at *)
(* boot (park, src/ext_flash.rs), the bench image src/bin/qspi.rs writes   *)
(* and checks its last sector, sleeps and wakes it.                        *)
(*                                                                         *)
(* The chip goes on by itself over a reset of the nRF52: asleep it stays   *)
(* asleep, and an erase or a page's program that has begun ends.  Asleep   *)
(* it hears only ABh, busy nothing; the QSPI peripheral polls its busy bit *)
(* first, for as long as it takes.  A terminal takes longer to open than   *)
(* an erase to end.                                                        *)
(***************************************************************************)
EXTENDS Naturals, Sequences

CONSTANTS
    FlashPages,      \* pages of the test sector
    Seeds,      \* the patterns, by their seed
    MaxBoots,   \* bound: resets and power losses
    MaxKeys     \* bound: the console's commands

ASSUME FlashAssumption ==
    /\ FlashPages \in Nat \ {0} /\ MaxBoots \in Nat /\ MaxKeys \in Nat
    /\ Seeds \cap {"ff", "mixed", "none"} = {}

VARIABLES
    doing,      \* where the image has got to; "w" and "x" are erasing
    resting,    \* the chip is in deep power-down
    busy,       \* "no", "erase", or the page being programmed
    latch,      \* its write enable latch
    sector,     \* its pages: a seed, "ff" or "mixed"
    sending,    \* the page the peripheral has got to, or 0
    seed,       \* the pattern of the last write
    asleep,     \* the console's: the chip is to sleep
    answered,   \* park: the two verdicts
    saidRight,  \* the pattern the last look found whole, or "none"
    boots, keys

flashVars == <<doing, resting, busy, latch, sector, sending, seed, asleep,
               answered, saidRight, boots, keys>>

chipVars == <<resting, busy, latch, sector>>
consoleVars == <<sending, seed, asleep, answered, saidRight, boots, keys>>

SectorPages == 1..FlashPages
Product == {"wake", "jedec", "sleep", "again", "parked"}
Bench == {"terminal", "measure", "key", "erase", "w", "x", "program", "settle",
          "look"}

\* What holds the peripheral
Peripheral == {"erase", "w", "x", "program", "settle", "look"}

-----------------------------------------------------------------------------
(* The chip *)

Holds(seedOrFf) == [k \in SectorPages |-> seedOrFf]

\* jedec(), and its verdict
Verdict == IF resting \/ busy # "no" THEN "Silent" ELSE "W25q128"

\* ABh
WakeChip == resting' = FALSE

\* B9h
SleepChip == resting' = (resting \/ busy = "no")

\* An erase or a program ends, and the latch is clear.
StepDone ==
    /\ busy # "no"
    /\ busy' = "no"
    /\ latch' = FALSE
    /\ sector' = IF busy = "erase" THEN Holds("ff")
                 ELSE [sector EXCEPT ![sending] = IF @ = "ff" THEN seed ELSE "mixed"]
    /\ sending' = IF doing = "program" THEN sending ELSE 0
    /\ UNCHANGED <<doing, resting, seed, asleep, answered, saidRight, boots, keys>>

(* A reset of the nRF52 into either image: what the chip has begun goes on.*)
ResetInto(first) ==
    /\ boots < MaxBoots
    /\ boots' = boots + 1
    /\ doing' = first
    /\ sending' = IF busy = "program" THEN sending ELSE 0
    /\ asleep' = FALSE /\ answered' = <<>> /\ saidRight' = "none"
    /\ UNCHANGED <<resting, busy, latch, sector, seed, keys>>

\* The power goes: what was being written is anything.
PowerLost(first) ==
    /\ boots < MaxBoots
    /\ boots' = boots + 1
    /\ doing' = first
    /\ resting' = FALSE /\ latch' = FALSE /\ busy' = "no"
    /\ \/ busy = "no" /\ sector' = sector
       \/ /\ busy = "erase"
          /\ \E torn \in SUBSET SectorPages :
                sector' = [k \in SectorPages |-> IF k \in torn THEN "mixed"
                                                ELSE sector[k]]
       \/ busy = "program" /\ sector' = [sector EXCEPT ![sending] = "mixed"]
    /\ sending' = 0 /\ asleep' = FALSE /\ answered' = <<>> /\ saidRight' = "none"
    /\ UNCHANGED <<seed, keys>>

-----------------------------------------------------------------------------
(* The product image's boot *)

\* Mutation: not put to sleep.
After_NoSleep(step) ==
    CASE step = "wake" -> "jedec" [] step = "jedec" -> "again"
      [] step = "again" -> "parked"

\* park: wake, jedec, sleep, jedec
After(step) ==
    CASE step = "wake" -> "jedec" [] step = "jedec" -> "sleep"
      [] step = "sleep" -> "again" [] step = "again" -> "parked"

Park ==
    /\ doing \in Product \ {"parked"}
    /\ doing' = After(doing)
    /\ CASE doing = "wake" -> WakeChip [] doing = "sleep" -> SleepChip
         [] OTHER -> UNCHANGED resting
    /\ answered' = IF doing \in {"jedec", "again"} THEN Append(answered, Verdict)
                   ELSE answered
    /\ UNCHANGED <<busy, latch, sector, sending, seed, asleep, saidRight, boots,
                   keys>>

-----------------------------------------------------------------------------
(* The bench image *)

\* A terminal opens: the chip is woken, and looked at if it is the part.
Report ==
    /\ doing = "terminal" /\ busy = "no"
    /\ WakeChip
    /\ doing' = "look"
    /\ UNCHANGED <<busy, latch, sector>> /\ UNCHANGED consoleVars

\* Nobody opens one in TERMINAL_WAIT
Alone ==
    /\ doing = "terminal" /\ busy = "no"
    /\ WakeChip
    /\ doing' = "measure"
    /\ UNCHANGED <<busy, latch, sector>> /\ UNCHANGED consoleVars

\* measure: each PHASE, the other of standby and deep power-down
Phase ==
    /\ doing = "measure"
    /\ resting' = ~resting
    /\ UNCHANGED <<doing, busy, latch, sector>> /\ UNCHANGED consoleVars

\* Mutation: what the measuring left is left.
Measured_AsItIs == UNCHANGED resting

\* measure's end: the chip is awake
Measured == WakeChip

\* A key or a terminal; at boot the report comes first, which wakes again.
Stopped ==
    /\ doing = "measure"
    /\ Measured
    /\ doing' = "key"
    /\ asleep' = FALSE
    /\ UNCHANGED <<busy, latch, sector, sending, seed, answered, saidRight,
                   boots, keys>>

Pressed(next) ==
    /\ doing = "key" /\ keys < MaxKeys
    /\ keys' = keys + 1
    /\ doing' = next
    /\ UNCHANGED <<busy, latch, sector, sending, answered, boots>>

\* `i` and `a`
KeyWake == Pressed("key") /\ WakeChip /\ asleep' = FALSE /\ UNCHANGED <<seed, saidRight>>

\* `s`; next_key sends B9h again
KeySleep == Pressed("key") /\ SleepChip /\ asleep' = TRUE /\ UNCHANGED <<seed, saidRight>>

KeyMeasure == Pressed("measure") /\ WakeChip /\ UNCHANGED <<asleep, seed, saidRight>>

\* Mutation: the keys that use the peripheral are taken asleep too.
Usable_Always == TRUE

\* The guard of `r`, `w`, `x` and `q`
ChipUsable == ~asleep

KeyLook ==
    /\ ChipUsable /\ Pressed("look")
    /\ UNCHANGED <<resting, asleep, seed, saidRight>>

\* `w` has a new seed, `x` has none.
KeyErase ==
    /\ ChipUsable /\ Pressed("erase")
    /\ seed' \in (Seeds \ {seed}) \cup {"none"}
    /\ saidRight' = "none"
    /\ UNCHANGED <<resting, asleep>>

\* The peripheral starts the erase, and READY comes.
erase_sector ==
    /\ doing = "erase" /\ ~resting /\ busy = "no"
    /\ latch' = TRUE /\ busy' = "erase"
    /\ doing' = IF seed = "none" THEN "x" ELSE "w"
    /\ UNCHANGED <<resting, sector>> /\ UNCHANGED consoleVars

\* Mutation: the wait is a status read through the peripheral, which sends a
\* write enable first and leaves it.
settle_Status == busy = "no" /\ latch' = TRUE

\* settle: WRITE_DISABLE, when the chip is no longer busy
settle == busy = "no" /\ latch' = FALSE

Erased ==
    /\ doing \in {"w", "x"} /\ ~resting
    /\ settle
    /\ doing' = IF doing = "w" THEN "program" ELSE "key"
    /\ sending' = IF doing = "w" THEN 1 ELSE 0
    /\ UNCHANGED <<resting, busy, sector, seed, asleep, answered, saidRight, boots,
                   keys>>

\* Mutation: a page more than the sector has.
LastPage_Beyond == FlashPages + 1

LastPage == FlashPages

\* q.write: a page at a time, each when the one before has ended
Program ==
    /\ doing = "program" /\ ~resting /\ busy = "no"
    /\ \/ /\ sector[sending] = "ff"
          /\ latch' = TRUE /\ busy' = "program" /\ UNCHANGED <<doing, sending>>
       \/ /\ sector[sending] # "ff" /\ UNCHANGED <<latch, busy>>
          /\ IF sending = LastPage THEN doing' = "settle" /\ sending' = 0
             ELSE sending' = sending + 1 /\ UNCHANGED doing
    /\ UNCHANGED <<resting, sector, seed, asleep, answered, saidRight, boots, keys>>

Written ==
    /\ doing = "settle" /\ ~resting
    /\ settle
    /\ doing' = "look"
    /\ UNCHANGED <<resting, busy, sector>> /\ UNCHANGED consoleVars

\* Mutation: only the header is compared.
check_Header == IF sector[1] \in Seeds THEN sector[1] ELSE "none"

\* check: the pattern whose every byte is right
check ==
    IF sector[1] \in Seeds /\ sector = Holds(sector[1]) THEN sector[1] ELSE "none"

LookAtChip ==
    /\ doing = "look" /\ ~resting /\ busy = "no"
    /\ saidRight' = check
    /\ doing' = "key"
    /\ UNCHANGED chipVars
    /\ UNCHANGED <<sending, seed, asleep, answered, boots, keys>>

FlashInit ==
    /\ doing \in {"wake", "terminal"}
    /\ resting = FALSE /\ busy = "no" /\ latch = FALSE /\ sector = Holds("ff")
    /\ sending = 0 /\ seed = "none" /\ asleep = FALSE /\ answered = <<>>
    /\ saidRight = "none" /\ boots = 0 /\ keys = 0

FlashNext ==
    \/ StepDone \/ Park \/ Report \/ Alone \/ Phase \/ Stopped
    \/ KeyWake \/ KeySleep \/ KeyMeasure \/ KeyLook \/ KeyErase
    \/ erase_sector \/ Erased \/ Program \/ Written \/ LookAtChip
    \/ \E first \in {"wake", "terminal"} : ResetInto(first) \/ PowerLost(first)

FlashSpec == FlashInit /\ [][FlashNext]_flashVars

-----------------------------------------------------------------------------
(* The types of the state; the page being programmed is one of the sector. *)
FlashTypeOK ==
    /\ doing \in Product \cup Bench
    /\ {resting, latch, asleep} \subseteq BOOLEAN
    /\ busy \in {"no", "erase", "program"}
    /\ sector \in [SectorPages -> Seeds \cup {"ff", "mixed"}]
    /\ sending \in 0..FlashPages /\ (busy = "program" => sending \in SectorPages)
    /\ Len(answered) <= 2
    /\ boots \in 0..MaxBoots /\ keys \in 0..MaxKeys

(* The peripheral is not used on a chip in deep power-down, whose busy bit *)
(* it would poll for ever, whatever keys, measuring and resets came before *)
(* (the console of src/bin/qspi.rs, measure).                              *)
AwakeWhenUsed == doing \in Peripheral => ~resting

(* A pattern said to be right fills the sector: not one whose write or     *)
(* erase a reset or a power loss broke off (write, check).                 *)
RightIsWhole == saidRight # "none" => (sector = Holds(saidRight) /\ busy = "no")

(* While the console waits for a key the chip is idle, with nothing armed  *)
(* to write, and in the power state the console believes (settle,          *)
(* next_key, measure).                                                     *)
RestsAsBelieved ==
    doing = "key" => (busy = "no" /\ ~latch /\ resting = asleep)

(* A chip that answered the product's boot is left asleep, after any reset *)
(* of any image at any point; one an erase or a program kept busy does not *)
(* answer, and the boot line says so (park).                               *)
ParkedIfThere ==
    (doing = "parked" /\ answered[1] = "W25q128") => (resting /\ answered[2] = "Silent")

(* The chip is used awake, believed right only when whole, and left as the  *)
(* image believes it.                                                       *)
FlashCorrect ==
    FlashTypeOK /\ AwakeWhenUsed /\ RightIsWhole /\ RestsAsBelieved /\ ParkedIfThere
=============================================================================
