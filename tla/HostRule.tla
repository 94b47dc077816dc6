------------------------------ MODULE HostRule ------------------------------
(***************************************************************************)
(* What the modem loop relies on about hosts: whether one is present, and  *)
(* whether a whole frame has arrived since the loop last looked.  A host   *)
(* is there when it has spoken, and goes only on a pass without a frame.   *)
(* ModemLoop takes its host and spoke to be this; Presence is shown to     *)
(* implement it.                                                           *)
(***************************************************************************)
CONSTANT LateFrames  \* whether a link may drop with its frames not yet read

VARIABLES host, spoke

Frame == spoke' = TRUE /\ UNCHANGED host

Arrives == spoke /\ host' = TRUE

Stays == (spoke => host \/ LateFrames) /\ UNCHANGED host

Leaves == host /\ (spoke => LateFrames) /\ host' = FALSE

Observe == spoke' = FALSE /\ (Arrives \/ Stays \/ Leaves)

Init == host = FALSE /\ spoke = FALSE

Next == Frame \/ Observe

Spec == Init /\ [][Next]_<<host, spoke>>
=============================================================================
