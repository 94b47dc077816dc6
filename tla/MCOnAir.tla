------------------------------ MODULE MCOnAir -------------------------------
(***************************************************************************)
(* What the board says on the air, from the messages the node keeps until  *)
(* they are proved (NodeOutbox) to the frames a packet of theirs is cut    *)
(* into (Air).                                                             *)
(*                                                                         *)
(* Between the two are the modem loop and the channel: an attempt that     *)
(* goes may still be lost, and NodeOutbox counts on no more than that.     *)
(* They share no variable, so a behaviour of this module moves one of      *)
(* them, chosen at the start.                                              *)
(***************************************************************************)
EXTENDS MCNodeOutbox, Air

VARIABLE layer   \* the one that moves

onAirVars == <<layer, vars, airVars>>

OnAirInit ==
    /\ layer \in {"messages", "frames"}
    /\ Init /\ AirInit
    /\ layer = "messages" \/ mode = "node"

Layer(l) ==
    /\ layer = l /\ UNCHANGED layer
    /\ IF l = "messages" THEN Next ELSE UNCHANGED vars
    /\ IF l = "frames" THEN AirNext ELSE UNCHANGED airVars

OnAirNext == Layer("messages") \/ Layer("frames")

OnAirSpec == OnAirInit /\ [][OnAirNext]_onAirVars

-----------------------------------------------------------------------------
(* The instance: every board counts from the same nibble, the worst case   *)
(* for collisions.                                                         *)
MCSeed == [b \in Boards |-> 0]
=============================================================================
