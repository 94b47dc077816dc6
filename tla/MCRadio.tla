------------------------------- MODULE MCRadio -------------------------------
(* Two digits to the base 3 and one step below them: 2 to 5 is sub-GHz (01  *)
(* and 02 in the digits), 8 and 9 are 2.4 GHz (11), and what is past a u32, *)
(* 12 (20) and up, wraps onto sub-GHz.                                      *)
EXTENDS Radio

MCDEFAULT == [freq |-> 2, bw |-> 2, sf |-> 2, cr |-> 5, power |-> 2]
MCLANDING == [freq |-> 8, bw |-> 5, sf |-> 2, cr |-> 5, power |-> 1]
MCFrames == {[cmd |-> "freq", bytes |-> 4, value |-> 9],
             [cmd |-> "power", bytes |-> 1, value |-> 3],
             [cmd |-> "freq", bytes |-> 3, value |-> 3]}
MCStored == {[MCDEFAULT EXCEPT !.power = 4], MCDEFAULT}
=============================================================================
