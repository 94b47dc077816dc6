------------------------------- MODULE MCKept --------------------------------
(***************************************************************************)
(* What the board keeps until it is done with it: the record, over power   *)
(* losses and restarts, until it is written (RecordStore); and the         *)
(* messages, over its stops and starts, until they are proved or failed    *)
(* (NodeOutbox).  They share no variable, so a behaviour of this module    *)
(* moves one of them, chosen at the start.                                 *)
(***************************************************************************)
EXTENDS MCNodeOutbox, RecordStore

VARIABLE what   \* the one that moves

keptVars == <<what, vars, recordVars>>

KeptInit ==
    /\ what \in {"messages", "record"}
    /\ Init /\ StoreInit
    /\ what = "messages" \/ mode = "node"

KeptNext ==
    \/ what = "messages" /\ Next /\ UNCHANGED <<what, recordVars>>
    \/ what = "record" /\ StoreNext /\ UNCHANGED <<what, vars>>

Written(A) == what = "record" /\ A
Sent(A) == what = "messages" /\ A

\* The fairness of the two: the executor polls every task, the flash answers,
\* the loop keeps passing, time passes, and a radio that is tried again and
\* again sends sooner or later.
KeptFairness ==
    /\ WF_recordVars(Written(Writing)) /\ WF_recordVars(Written(Pass))
    /\ WF_recordVars(Written(Age))
    /\ WF_vars(Sent(Step)) /\ WF_vars(Sent(Tick)) /\ SF_vars(Sent(Transmit))

KeptSpec == KeptInit /\ [][KeptNext]_keptVars /\ KeptFairness
=============================================================================
