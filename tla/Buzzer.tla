-------------------------------- MODULE Buzzer --------------------------------
(***************************************************************************)
(* The buzzer's future (src/buzzer.rs): it holds the pin low, waits to be  *)
(* told to sound, and plays the pattern, beeps and gaps in turn.  The      *)
(* signal holds one request, so one made while the pattern plays has it    *)
(* played once more.                                                       *)
(***************************************************************************)
EXTENDS Naturals

CONSTANTS
    Pattern,        \* how many beeps and gaps PATTERN has
    MaxSounds       \* bound: requests

ASSUME BuzzerAssumption == Pattern \in Nat \ {0} /\ MaxSounds \in Nat

VARIABLES
    asked,      \* SOUND
    playing,    \* the part of the pattern being played, or 0
    pin,        \* "low" or "tone"
    sounds,     \* requests so far, up to MaxSounds
    patterns,   \* patterns begun
    behind      \* requests since the last pattern began

buzzerVars == <<asked, playing, pin, sounds, patterns, behind>>

sound ==
    /\ sounds < MaxSounds
    /\ sounds' = sounds + 1
    /\ asked' = TRUE
    /\ behind' = behind + 1
    /\ UNCHANGED <<playing, pin, patterns>>

\* Mutation: the tone is left on between the beeps.
PinAt_Tone(i) == IF i = 0 THEN "low" ELSE "tone"

PinAt(i) == IF i % 2 = 1 THEN "tone" ELSE "low"

\* Mutation: a request made while the pattern plays is taken with it.
Taken_ToTheEnd(i) == IF i = 0 THEN FALSE ELSE asked

\* What SOUND is when the pattern has gone on to part i
Taken(i) == asked

\* SOUND.wait
Begin ==
    /\ playing = 0 /\ asked
    /\ asked' = FALSE
    /\ playing' = 1 /\ pin' = PinAt(1)
    /\ patterns' = patterns + 1 /\ behind' = 0
    /\ UNCHANGED sounds

\* The timer of a beep or of a gap
Over ==
    /\ playing # 0
    /\ playing' = IF playing = Pattern THEN 0 ELSE playing + 1
    /\ pin' = PinAt(playing')
    /\ asked' = Taken(playing')
    /\ UNCHANGED <<sounds, patterns, behind>>

BuzzerInit ==
    /\ asked = FALSE /\ playing = 0 /\ pin = "low"
    /\ sounds = 0 /\ patterns = 0 /\ behind = 0

BuzzerNext == sound \/ Begin \/ Over

BuzzerSpec == BuzzerInit /\ [][BuzzerNext]_buzzerVars

-----------------------------------------------------------------------------
(* The types of the state; the pin is driven low but in a beep. *)
BuzzerTypeOK ==
    /\ asked \in BOOLEAN /\ playing \in 0..Pattern
    /\ pin = IF playing % 2 = 1 THEN "tone" ELSE "low"
    /\ sounds \in 0..MaxSounds
    /\ patterns <= sounds

(* A request is sounded: a pattern begins after it, however many come      *)
(* while one plays (Signal, that holds one).                               *)
EverySoundIsHeard == []<>(behind = 0)

(* The pin is low outside the beeps, and no pattern plays unasked.          *)
BuzzerCorrect == BuzzerTypeOK
=============================================================================
