---------------------------- MODULE MCNodeOutbox ----------------------------
(* Instances of NodeOutbox for TLC: p2's announced key cannot be used. *)
EXTENDS NodeOutbox

CONSTANTS p1, p2, h1, h2, h3

MCDest == [h \in Hashes |-> IF h = h3 THEN p2 ELSE p1]
=============================================================================
