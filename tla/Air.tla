-------------------------------- MODULE Air --------------------------------
(***************************************************************************)
(* What goes on the air (core/src/rnode/air.rs): a packet is cut into one  *)
(* or two frames under a sequence nibble, and a receiver joins the halves  *)
(* by that nibble.  The model is a set of boards running this firmware, a  *)
(* stock RNode that draws its nibbles at random, a channel that loses any  *)
(* frame, and one receiver.                                                *)
(*                                                                         *)
(* A payload is abstracted to where it came from: the part of which packet *)
(* of which boot of which board, and how many bytes of it.  Time is the    *)
(* age of the half being held, in ticks.                                   *)
(***************************************************************************)
EXTENDS Naturals, Sequences, FiniteSets

CONSTANTS
    Boards,        \* the boards running this firmware
    Stock,         \* a stock RNode on the same channel
    NSeq,          \* how many sequence numbers there are (16: a nibble)
    Seed,          \* Seed[b]: the nibble board b counts from after a reset
    FramePayload,  \* FRAME_PAYLOAD: the most packet a frame can carry
    Lengths,       \* the packet lengths the boards are given
    MaxAge,        \* max_age_us, in ticks
    Gap,           \* the most ticks between the two halves of one packet
    MaxPackets,    \* bound: packets framed per boot
    MaxBoots       \* bound: resets per board

ASSUME AirAssumption ==
    /\ Stock \notin Boards
    /\ NSeq \in Nat /\ NSeq >= 2
    /\ Seed \in [Boards -> 0..(NSeq - 1)]
    /\ FramePayload \in Nat \ {0}
    /\ Lengths \subseteq Nat
    /\ MaxAge \in Nat /\ Gap \in 0..MaxAge
    /\ MaxPackets \in Nat /\ MaxBoots \in Nat

PacketMax == 2 * FramePayload

Nibble == 0..(NSeq - 1)

(* A run of a packet's bytes: bytes `len` of packet number `id` of that    *)
(* boot of that board; `of` is the length of the whole packet.             *)
Part == [from : Boards \union {Stock}, boot : Nat, id : Nat,
         half : {1, 2}, len : Nat, of : Nat]

Frame == [seq : Nibble, split : BOOLEAN, body : Part]

VARIABLES
    sequence,  \* sequence[b]: the nibble board b's next packet takes
    count,     \* count[b]: packets board b has numbered since its reset
    boots,     \* boots[b]: resets of board b
    tx,        \* tx[b]: the frames of b's packet that are still to go
    gap,       \* gap[b]: ticks since b's first half went
    held,      \* the receiver's pending first half: {} or one frame
    age,       \* ticks since it arrived, up to MaxAge + 1
    out,       \* the packet the last frame completed, as parts; or <<>>
    heard,     \* the parts of the last two frames heard since a clear
    swallowed  \* whether the first of those two completed a packet of two

airVars == <<sequence, count, boots, tx, gap, held, age, out, heard, swallowed>>

----------------------------------------------------------------------------
(* Definitions named X_Bug are X as a plausible mistake would have it; the *)
(* runs' properties are shown to notice each of them.                      *)

NextNibble_NoWrap(n) == n + 1

(* Sequence::take steps by one, modulo the nibble. *)
NextNibble(n) == IF n = NSeq - 1 THEN 0 ELSE n + 1

(* Split::frame: the first frame takes the first FramePayload bytes of the *)
(* packet and the second takes the rest.                                   *)
BodyLen(len, half) ==
    IF half = 1 THEN (IF len > FramePayload THEN FramePayload ELSE len)
                ELSE len - FramePayload

FrameOf_SameNibble(b, len, half) ==
    [seq   |-> Seed[b],
     split |-> len > FramePayload,
     body  |-> [from |-> b, boot |-> boots[b], id |-> count[b],
                half |-> half, len |-> BodyLen(len, half), of |-> len]]

FrameOf(b, len, half) ==
    [seq   |-> sequence[b],
     split |-> len > FramePayload,
     body  |-> [from |-> b, boot |-> boots[b], id |-> count[b],
                half |-> half, len |-> BodyLen(len, half), of |-> len]]

(* Split::new and Split::frames: nothing for a packet over PacketMax, two  *)
(* frames for one that does not fit in a frame.                            *)
Split(b, len) ==
    IF len > PacketMax THEN <<>>
    ELSE IF len > FramePayload THEN <<FrameOf(b, len, 1), FrameOf(b, len, 2)>>
    ELSE <<FrameOf(b, len, 1)>>

----------------------------------------------------------------------------
Fresh_OffByOne == IF age >= MaxAge THEN {} ELSE held

(* The half that is still worth joining to: one older than the maximum age *)
(* counts as not held.                                                     *)
Fresh == IF age > MaxAge THEN {} ELSE held

Joins_AnyNibble(f) == Fresh # {}

(* A split frame is a second half when the half being held has its nibble. *)
Joins(f) == \E p \in Fresh : p.seq = f.seq

HeldAfter_WholeKeepsHalf(f) ==
    IF ~f.split THEN held ELSE IF Joins(f) THEN {} ELSE {f}

(* A packet by itself throws away what was held, a second half uses it up, *)
(* and any other split frame replaces it.                                  *)
HeldAfter(f) == IF ~f.split \/ Joins(f) THEN {} ELSE {f}

PacketOf(f) ==
    IF ~f.split
    THEN IF f.body.len = 0 THEN <<>> ELSE <<f.body>>
    ELSE IF Joins(f) THEN <<(CHOOSE p \in Fresh : TRUE).body, f.body>> ELSE <<>>

(* Reassembler::feed, for a frame with a header.                           *)
Feed(f) ==
    /\ held' = HeldAfter(f)
    /\ out' = PacketOf(f)
    /\ age' = 0
    /\ swallowed' = (Len(out) = 2)
    /\ heard' = IF heard = <<>> THEN <<f.body>>
                ELSE <<heard[Len(heard)], f.body>>

(* Reassembler::clear, which a reconfiguration of the receiver calls. *)
Clear ==
    /\ held' = {} /\ age' = 0 /\ out' = <<>>
    /\ heard' = <<>> /\ swallowed' = FALSE
    /\ UNCHANGED <<sequence, count, boots, tx, gap>>

----------------------------------------------------------------------------
AirInit ==
    /\ sequence = Seed
    /\ count = [b \in Boards |-> 0]
    /\ boots = [b \in Boards |-> 0]
    /\ tx = [b \in Boards |-> <<>>]
    /\ gap = [b \in Boards |-> 0]
    /\ held = {} /\ age = 0 /\ out = <<>> /\ heard = <<>> /\ swallowed = FALSE

(* send_packet takes a nibble before it finds out whether the packet can   *)
(* be framed; a packet that cannot has used it up.                         *)
Offer(b, len) ==
    /\ tx[b] = <<>>
    /\ count[b] < MaxPackets
    /\ sequence' = [sequence EXCEPT ![b] = NextNibble(@)]
    /\ count' = [count EXCEPT ![b] = @ + 1]
    /\ tx' = [tx EXCEPT ![b] = Split(b, len)]
    /\ gap' = [gap EXCEPT ![b] = 0]
    /\ UNCHANGED <<boots, held, age, out, heard, swallowed>>

FrameGone(b) ==
    /\ tx' = [tx EXCEPT ![b] = Tail(@)]
    /\ gap' = [gap EXCEPT ![b] = 0]
    /\ UNCHANGED <<sequence, count, boots>>

(* The next frame of b's packet goes, and the receiver hears it. *)
Heard(b) ==
    /\ tx[b] # <<>>
    /\ Feed(Head(tx[b]))
    /\ FrameGone(b)

(* It goes, and the receiver does not hear it: a collision, a fade, or the *)
(* receiver itself on the air.                                             *)
Lost(b) ==
    /\ tx[b] # <<>>
    /\ FrameGone(b)
    /\ UNCHANGED <<held, age, out, heard, swallowed>>

(* The radio refuses a frame, or the wait for a clear channel is given up: *)
(* send_packet returns with nothing more of the packet sent.               *)
GiveUp(b) ==
    /\ tx[b] # <<>>
    /\ tx' = [tx EXCEPT ![b] = <<>>]
    /\ gap' = [gap EXCEPT ![b] = 0]
    /\ UNCHANGED <<sequence, count, boots, held, age, out, heard, swallowed>>

(* A board resets.  Its nibble is drawn from its chip's identity, so every *)
(* boot counts from the same one.                                          *)
Reboot(b) ==
    /\ boots[b] < MaxBoots
    /\ boots' = [boots EXCEPT ![b] = @ + 1]
    /\ sequence' = [sequence EXCEPT ![b] = Seed[b]]
    /\ count' = [count EXCEPT ![b] = 0]
    /\ tx' = [tx EXCEPT ![b] = <<>>]
    /\ gap' = [gap EXCEPT ![b] = 0]
    /\ UNCHANGED <<held, age, out, heard, swallowed>>

(* A frame from a stock RNode: any nibble, either kind, any body a frame   *)
(* can carry, an empty one included.                                       *)
StockFrame(n, split, len) ==
    /\ Feed([seq |-> n, split |-> split,
             body |-> [from |-> Stock, boot |-> 0, id |-> 0,
                       half |-> 1, len |-> len, of |-> len]])
    /\ UNCHANGED <<sequence, count, boots, tx, gap>>

(* Between the first half of a packet and the second there is nothing but  *)
(* the turnaround: a board cannot wait longer than Gap there.              *)
SecondHalfDue(b) == tx[b] # <<>> /\ Head(tx[b]).body.half = 2

AirTick ==
    /\ \A b \in Boards : SecondHalfDue(b) => gap[b] < Gap
    /\ held # {} /\ age <= MaxAge
    /\ age' = age + 1
    /\ gap' = [b \in Boards |-> IF SecondHalfDue(b) THEN gap[b] + 1 ELSE gap[b]]
    /\ UNCHANGED <<sequence, count, boots, tx, held, out, heard, swallowed>>

AirNext ==
    \/ \E b \in Boards :
         \/ \E len \in Lengths : Offer(b, len)
         \/ Heard(b)
         \/ Lost(b)
         \/ GiveUp(b)
         \/ Reboot(b)
    \/ \E n \in Nibble, split \in BOOLEAN, len \in {0, FramePayload} :
         StockFrame(n, split, len)
    \/ Clear
    \/ AirTick

AirSpec == AirInit /\ [][AirNext]_airVars

----------------------------------------------------------------------------
AirTypeOK ==
    /\ sequence \in [Boards -> Nibble]
    /\ count \in [Boards -> Nat]
    /\ boots \in [Boards -> Nat]
    /\ tx \in [Boards -> Seq(Frame)]
    /\ gap \in [Boards -> Nat]
    /\ held \subseteq Frame
    /\ \A f, g \in held : f = g
    /\ age \in 0..(MaxAge + 1)
    /\ out \in Seq(Part) /\ Len(out) <= 2
    /\ heard \in Seq(Part) /\ Len(heard) <= 2
    /\ swallowed \in BOOLEAN

SameBoot(p, q) == p.from = q.from /\ p.boot = q.boot /\ p.from \in Boards

SamePacket(p, q) == SameBoot(p, q) /\ p.id = q.id

(* The halves of consecutive packets of one board are never joined, which  *)
(* is what the counting sequence is for; and two halves of one packet that *)
(* are joined are its first and its second, in that order, and make up the *)
(* whole of it: no byte is cut off and none is sent twice.                 *)
ConsecutiveNeverJoined ==
    Len(out) = 2 /\ SameBoot(out[1], out[2]) =>
        /\ out[2].id # out[1].id + 1
        /\ out[1].id # out[2].id + 1
        /\ out[1].id = out[2].id =>
              /\ out[1].half = 1 /\ out[2].half = 2
              /\ out[1].len + out[2].len = out[1].of

(* A board's packets are told apart for a whole turn of the nibble: what   *)
(* is joined across two packets of one boot is a multiple of NSeq packets  *)
(* apart, and in the order they were sent.                                 *)
JoinedAWholeTurnApart ==
    Len(out) = 2 /\ SameBoot(out[1], out[2]) =>
        \E k \in 0..MaxPackets : out[2].id = out[1].id + k * NSeq

(* A packet whose two halves are heard one straight after the other is     *)
(* handed up whole, unless its first half was taken for the second half of *)
(* some other packet held under the same nibble.  The age limit never      *)
(* costs a packet, because the second half cannot be that late.            *)
BothHalvesHeard ==
    /\ Len(heard) = 2
    /\ SamePacket(heard[1], heard[2])
    /\ heard[1].half = 1 /\ heard[2].half = 2
    => out = heard \/ swallowed

(* A half that is held is the last frame the receiver heard: anything else *)
(* it hears joins it, replaces it or throws it away.                       *)
HeldIsLastHeard ==
    \A f \in held : heard # <<>> /\ f.body = heard[Len(heard)] /\ f.split

(* Two halves are joined when they should be, and hardly ever when not.    *)
HalvesMatch ==
    AirTypeOK /\ JoinedAWholeTurnApart /\ BothHalvesHeard /\ HeldIsLastHeard
============================================================================
