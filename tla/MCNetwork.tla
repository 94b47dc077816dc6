----------------------------- MODULE MCNetwork ------------------------------
(***************************************************************************)
(* A node among nodes: what one of them has to send of itself, pass by     *)
(* pass (NodeSending), and what passes between several over the air        *)
(* (Exchange), which takes of the first that an announce due goes in the   *)
(* end.  They share no variable, so a behaviour of this module moves one   *)
(* of them, chosen at the start.                                           *)
(***************************************************************************)
EXTENDS NodeSending, Exchange

VARIABLE scope   \* the one that moves

networkVars == <<scope, vars, exchangeVars>>

NetworkInit ==
    /\ scope \in {"node", "air"} /\ Init /\ ExchangeInit
    /\ scope = "node" \/ ~deaf

\* Nothing more may pass between the boards: bounds on what is written and
\* sent let them do no more.  The node's passes never stop.
Silence == scope = "air" /\ UNCHANGED networkVars

NetworkNext ==
    \/ scope = "node" /\ Next /\ UNCHANGED <<scope, exchangeVars>>
    \/ scope = "air" /\ ExchangeNext /\ UNCHANGED <<scope, vars>>
    \/ Silence

One(A) == scope = "node" /\ A
All(A) == scope = "air" /\ A

\* The node's passes go on (NodeSending).  On the air: a due announce goes, and
\* one of every board reaches every other in the end, for they are made again
\* and again (AnnouncesAgain) and not all of them are lost; the one on the air
\* here stands for them.
NetworkFairness ==
    /\ WF_vars(One(Pass)) /\ SF_vars(One(Tick)) /\ SF_vars(One(AnnounceGoes))
    /\ \A b, p \in Boards :
        /\ WF_exchangeVars(All(Announces(b)))
        /\ WF_exchangeVars(All(\E a \in air : HearAnnounce(b, a) /\ a.of = p))

NetworkSpec == NetworkInit /\ [][NetworkNext]_networkVars /\ NetworkFairness

(* What has to be heard is: a node is announced again and again, and the   *)
(* sender of a message kept unverified is known in the end.                *)
HeardInTheEnd == AnnouncesAgain /\ UnverifiedIsSettled

-----------------------------------------------------------------------------
(* The instance: a message each way between two boards.                    *)
MCFrom == [h \in Hashes |-> IF h = "h1" THEN "a" ELSE "b"]
MCTo == [h \in Hashes |-> IF h = "h1" THEN "b" ELSE "a"]
=============================================================================
