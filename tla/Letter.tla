------------------------------- MODULE Letter --------------------------------
(***************************************************************************)
(* What sending a message promises, whoever carries it: it may arrive once *)
(* it is written, and its sender is told of its delivery only after it     *)
(* has.  A sender may forget what it was told.  What implements this is    *)
(* the exchange of packets in Exchange.                                    *)
(***************************************************************************)
CONSTANT Hashes     \* the messages

VARIABLES
    written,    \* messages that have been written
    arrived,    \* messages their recipients have had
    told        \* messages their senders believe delivered

letterVars == <<written, arrived, told>>

LetterInit == written = {} /\ arrived = {} /\ told = {}

Writes(h) == written' = written \union {h} /\ UNCHANGED <<arrived, told>>

Arrives(h) ==
    /\ h \in written
    /\ arrived' = arrived \union {h}
    /\ UNCHANGED <<written, told>>

Tells(h) ==
    /\ h \in arrived
    /\ told' = told \union {h}
    /\ UNCHANGED <<written, arrived>>

Forgets == told' \in SUBSET told /\ UNCHANGED <<written, arrived>>

LetterNext == Forgets \/ \E h \in Hashes : Writes(h) \/ Arrives(h) \/ Tells(h)

LetterSpec == LetterInit /\ [][LetterNext]_letterVars
=============================================================================
