------------------------------ MODULE HostLink -------------------------------
(***************************************************************************)
(* The byte streams between the board and its two hosts: the KISS framing  *)
(* (core/src/rnode/kiss.rs), an outbox per transport and the routing rule  *)
(* (outbox.rs and hosts.rs), the USB task and the Bluetooth pump with the  *)
(* pipes they share with the modem loop (src/nus.rs, feed_host_rx,         *)
(* serve_bluetooth, push_to_ble and flush in src/bin/rnode.rs).            *)
(*                                                                         *)
(* A byte is FEND, or <<f, i>>: the i-th byte of frame f between its two   *)
(* FENDs.  The first is the command; the others are payload, where a byte  *)
(* that had to be escaped is the pair "fesc", "tf".  Frames are numbered   *)
(* in the order they are written, the hosts' and the board's apart.        *)
(***************************************************************************)
EXTENDS Naturals, Sequences, FiniteSets

CONSTANTS
    Bodies,     \* what a frame's bytes may be; frame f has Bodies[f % Len]
    Buffer,     \* N of Decoder: payload bytes a frame may have
    PipeIn,     \* HOST_RX and BLE_IN
    PipeOut,    \* BLE_OUT
    Room,       \* OUTBOX
    Piece,      \* bytes in a USB packet, a GATT write or a notification
    MaxIn,      \* bound: frames the hosts write in all
    MaxOut,     \* bound: frames the board writes in all
    MaxSessions \* bound: times a host comes in all

Transport == {"usb", "ble"}
ByteKind == {"plain", "fesc", "tf"}

ASSUME LinkAssumption ==
    /\ Bodies \in Seq(Seq(ByteKind)) /\ Len(Bodies) > 0
    /\ \A b \in 1..Len(Bodies) : Len(Bodies[b]) > 0 /\ Bodies[b][1] = "plain"
    /\ Buffer \in Nat /\ PipeIn \in Nat \ {0} /\ PipeOut \in Nat \ {0}
    /\ Room \in Nat /\ Piece \in Nat \ {0}
    /\ MaxIn \in Nat /\ MaxOut \in Nat /\ MaxSessions \in Nat

VARIABLES
    phase,      \* the loop's pass: "read", "work", "flush" or "push"
    attended,   \* Hosts::attended
    there,      \* there[t]: a host has the port open, a phone is in reach
    connected,  \* BLE_CONNECTED: a pump runs for a phone
    sessions,   \* hosts that have come so far, up to MaxSessions
    typing,     \* typing[t]: the rest of the frame a host is writing
    hand,       \* hand[t]: a packet or a write on its way into the pipe
    inp,        \* inp[t]: HOST_RX and BLE_IN
    dec,        \* dec[t]: the loop's decoder
    outbox,     \* outbox[t]
    outp,       \* BLE_OUT
    notifying,  \* what the pump has read from it and is notifying
    hdec,       \* hdec[t]: the host's own decoder
    got,        \* got[t]: the frames the board has read from t
    shown,      \* shown[t]: the frames the host on t has read
    nin, nout,  \* frames written so far, up to MaxIn and MaxOut
    fromOf,     \* fromOf[f]: the transport host frame f was written on
    broken,     \* host frames whose host went before their end
    torn        \* board frames part of which was abandoned

vars == <<phase, attended, there, connected, sessions, typing, hand, inp, dec,
          outbox, outp, notifying, hdec, got, shown, nin, nout, fromOf,
          broken, torn>>

host == <<there, sessions, typing, nin, fromOf, broken>>
inward == <<hand, inp, dec, got>>
outward == <<outbox, outp, notifying, hdec, shown, nout, torn>>

----------------------------------------------------------------------------
(* KISS framing.  Definitions named X_Bug are X as a plausible mistake     *)
(* would have it; the runs' properties are shown to notice each of them.   *)

FEND == <<0, 0>>

Body(f) == Bodies[1 + (f % Len(Bodies))]

Encode_NoOpening(f) == [i \in 1..Len(Body(f)) |-> <<f, i>>] \o <<FEND>>

(* kiss::encode, with escaping. *)
Encode(f) ==
    <<FEND>> \o [i \in 1..Len(Body(f)) |-> <<f, i>>] \o <<FEND>>

KindOf(b) == Body(b[1])[b[2]]

TooLong(f) == Cardinality({i \in 2..Len(Body(f)) : Body(f)[i] # "fesc"}) > Buffer

Fresh == [state |-> "idle", bytes |-> <<>>]

Push(d, b, room) ==
    IF Len(d.bytes) = room + 1
    THEN [state |-> "poisoned", bytes |-> <<>>]
    ELSE [state |-> "payload", bytes |-> Append(d.bytes, b)]

(* Decoder::feed and close: FEND ends a frame in every state, a byte       *)
(* before the first one belongs to nothing, and a frame that cannot be     *)
(* right is discarded up to the next one.                                  *)
Fed(d, b, room) ==
    IF b = FEND THEN [state |-> "command", bytes |-> <<>>]
    ELSE IF d.state \in {"idle", "poisoned"} THEN d
    ELSE IF d.state = "escaped" /\ KindOf(b) # "tf"
         THEN [state |-> "poisoned", bytes |-> <<>>]
    ELSE IF d.state = "payload" /\ KindOf(b) = "fesc"
         THEN [d EXCEPT !.state = "escaped"]
    ELSE Push(d, b, room)

(* Step::Frame: only a frame that is not in the middle of an escape. *)
Closes(d, b) == b = FEND /\ d.state = "payload"

(* A reader fed a run of bytes: its decoder after them, and the frames it  *)
(* had out of it on the way.                                               *)
Reads(d, bytes, room) ==
    LET n == Len(bytes)
        after[i \in 0..n] == IF i = 0 THEN d ELSE Fed(after[i-1], bytes[i], room)
        had[i \in 0..n] ==
            IF i = 0 THEN <<>>
            ELSE IF Closes(after[i-1], bytes[i])
                 THEN Append(had[i-1], after[i-1].bytes) ELSE had[i-1]
    IN  [dec |-> after[n], frames |-> had[n]]

----------------------------------------------------------------------------
(* Outbox and Hosts. *)

Least(a, b) == IF a < b THEN a ELSE b
First(s, n) == SubSeq(s, 1, Least(n, Len(s)))
Rest(s, n) == SubSeq(s, n + 1, Len(s))

Queued_NoLimit(o, f) == o \o Encode(f)

(* Outbox::frame: the whole of it or none. *)
Queued(o, f) == IF Len(o) + Len(Encode(f)) <= Room THEN o \o Encode(f) ELSE o

(* The frame an abandoned outbox leaves the reader in the middle of. *)
Begun(o) == IF o # <<>> /\ o[1] # FEND THEN {o[1][1]} ELSE {}

(* Transport::listener *)
Listener == IF connected THEN "ble" ELSE "usb"

(* The board has k frames to say to t. *)
Says(t, k) ==
    LET after[i \in 0..k] == IF i = 0 THEN outbox[t]
                              ELSE Queued(after[i-1], nout + i)
    IN  /\ nout + k <= MaxOut /\ nout' = nout + k
        /\ outbox' = [outbox EXCEPT ![t] = after[k]]

(* The loop takes what a pipe holds and feeds it to that transport's       *)
(* decoder; a frame is a command, and the answers go back the way it came. *)
ReadPipe(t) ==
    /\ phase = "read" /\ phase' = "work" /\ inp[t] # <<>>
    /\ LET r == Reads(dec[t], inp[t], Buffer)
       IN  /\ dec' = [dec EXCEPT ![t] = r.dec]
           /\ got' = [got EXCEPT ![t] = @ \o r.frames]
           /\ \E k \in 0..Len(r.frames) : Says(t, k)
    /\ inp' = [inp EXCEPT ![t] = <<>>]
    /\ UNCHANGED <<attended, connected, host, hand, outp, notifying, hdec, shown, torn>>

(* The radio, or the time of a pass, is what woke it. *)
ReadNothing ==
    /\ phase = "read" /\ phase' = "work"
    /\ UNCHANGED <<attended, connected, host, inward, outward>>

(* A packet heard, a reading or an error is a frame nobody asked for: to   *)
(* the phone while one is connected and to USB otherwise, and with no host *)
(* nowhere.                                                                *)
Work ==
    /\ phase = "work" /\ phase' = "flush"
    /\ \/ attended /\ Says(Listener, 1)
       \/ UNCHANGED <<outbox, nout>>
    /\ UNCHANGED <<attended, connected, host, inward, outp, notifying, hdec, shown, torn>>

----------------------------------------------------------------------------
(* flush: a packet at a time, and at the first that will not go the rest   *)
(* is abandoned.                                                           *)
Delivered(t, bytes) ==
    LET r == Reads(hdec[t], bytes, Len(bytes) + Len(hdec[t].bytes))
    IN  /\ hdec' = [hdec EXCEPT ![t] = r.dec]
        /\ shown' = [shown EXCEPT ![t] = @ \o r.frames]

FlushPacket ==
    /\ phase = "flush" /\ outbox["usb"] # <<>>
    /\ there["usb"]
    /\ Delivered("usb", First(outbox["usb"], Piece))
    /\ outbox' = [outbox EXCEPT !["usb"] = Rest(@, Least(Piece, Len(@)))]
    /\ UNCHANGED <<phase, attended, connected, host, inward, outp, notifying, nout, torn>>

Abandoned_OnePacket(t) == [outbox EXCEPT ![t] = Rest(@, Least(Piece, Len(@)))]

(* Outbox::abandon *)
Abandoned(t) == [outbox EXCEPT ![t] = <<>>]

FlushFails ==
    /\ phase = "flush" /\ outbox["usb"] # <<>> /\ phase' = "push"
    /\ outbox' = Abandoned("usb")
    /\ torn' = torn \union Begun(outbox["usb"])
    /\ UNCHANGED <<attended, connected, host, inward, outp, notifying, hdec, shown, nout>>

Flushed ==
    /\ phase = "flush" /\ outbox["usb"] = <<>> /\ phase' = "push"
    /\ UNCHANGED <<attended, connected, host, inward, outward>>

(* The next pass begins by looking who is there: Hosts::attend. *)
NextPass == phase' = "read" /\ attended' = (connected \/ there["usb"])

(* push_to_ble: what fits goes into the pipe, without waiting; with no     *)
(* phone connected all of it is abandoned.                                 *)
PushToBle ==
    /\ phase = "push" /\ NextPass
    /\ IF connected
       THEN LET n == Least(PipeOut - Len(outp), Len(outbox["ble"]))
            IN  /\ outp' = outp \o First(outbox["ble"], n)
                /\ outbox' = [outbox EXCEPT !["ble"] = Rest(@, n)]
                /\ UNCHANGED torn
       ELSE /\ outbox' = Abandoned("ble")
            /\ torn' = torn \union Begun(outbox["ble"])
            /\ UNCHANGED outp
    /\ UNCHANGED <<connected, host, inward, notifying, hdec, shown, nout>>

----------------------------------------------------------------------------
(* The task of each transport that fills its pipe: feed_host_rx, and the   *)
(* pump when a write came.  It waits while the pipe is full.               *)
FeedPipe_WhatFits(t) ==
    /\ hand[t] # <<>>
    /\ LET n == Least(PipeIn - Len(inp[t]), Len(hand[t]))
       IN  inp' = [inp EXCEPT ![t] = @ \o First(hand[t], n)]
    /\ hand' = [hand EXCEPT ![t] = <<>>]
    /\ UNCHANGED <<phase, attended, connected, host, dec, got, outward>>

FeedPipe(t) ==
    /\ hand[t] # <<>> /\ Len(inp[t]) < PipeIn
    /\ LET n == Least(PipeIn - Len(inp[t]), Len(hand[t]))
       IN  /\ inp' = [inp EXCEPT ![t] = @ \o First(hand[t], n)]
           /\ hand' = [hand EXCEPT ![t] = Rest(@, n)]
    /\ UNCHANGED <<phase, attended, connected, host, dec, got, outward>>

(* nus::pump, between two writes of the phone: it reads the pipe and       *)
(* notifies a piece of it.                                                 *)
PumpIdle == connected /\ hand["ble"] = <<>> /\ notifying = <<>>

PumpRead ==
    /\ PumpIdle /\ outp # <<>>
    /\ notifying' = outp /\ outp' = <<>>
    /\ UNCHANGED <<phase, attended, connected, host, inward, outbox, hdec, shown, nout, torn>>

Notify ==
    /\ connected /\ notifying # <<>> /\ there["ble"]
    /\ Delivered("ble", First(notifying, Piece))
    /\ notifying' = Rest(notifying, Least(Piece, Len(notifying)))
    /\ UNCHANGED <<phase, attended, connected, host, inward, outbox, outp, nout, torn>>

(* The frame a host has not written to its end. *)
Writing(t) ==
    {f \in 1..nin : /\ fromOf[f] = t /\ typing[t] # <<>>
                    /\ \A g \in (f+1)..nin : fromOf[g] # t}

(* A host that goes in the middle of a frame leaves it unfinished. *)
Leaves(t) ==
    /\ there' = [there EXCEPT ![t] = FALSE]
    /\ typing' = [typing EXCEPT ![t] = <<>>]
    /\ broken' = broken \union Writing(t)
    /\ UNCHANGED <<sessions, nin, fromOf>>

(* End::Stalled: what was read from the pipe is lost, and the phone is     *)
(* disconnected if it has not gone already.                                *)
Stalled ==
    /\ connected /\ notifying # <<>>
    /\ connected' = FALSE /\ notifying' = <<>>
    /\ Leaves("ble")
    /\ UNCHANGED <<phase, attended, inward, outbox, outp, hdec, shown, nout, torn>>

(* End::Disconnected *)
Disconnected ==
    /\ PumpIdle /\ ~there["ble"]
    /\ connected' = FALSE
    /\ UNCHANGED <<phase, attended, host, inward, outward>>

----------------------------------------------------------------------------
(* The hosts. *)

(* Somebody opens the port, or a phone connects, with a reader that has    *)
(* read nothing.  One phone at a time.                                     *)
Comes(t) ==
    /\ ~there[t] /\ (t = "ble" => ~connected)
    /\ sessions < MaxSessions /\ sessions' = sessions + 1
    /\ there' = [there EXCEPT ![t] = TRUE]
    /\ connected' = (connected \/ t = "ble")
    /\ hdec' = [hdec EXCEPT ![t] = Fresh]
    /\ shown' = [shown EXCEPT ![t] = <<>>]
    /\ UNCHANGED <<phase, attended, typing, nin, fromOf, broken, inward, outbox, outp, notifying, nout, torn>>

Goes(t) ==
    /\ there[t]
    /\ Leaves(t)
    /\ UNCHANGED <<phase, attended, connected, inward, outward>>

(* It starts a frame, and writes it a packet at a time when the task will  *)
(* take one.                                                               *)
StartFrame(t) ==
    /\ there[t] /\ typing[t] = <<>> /\ nin < MaxIn
    /\ nin' = nin + 1
    /\ fromOf' = [fromOf EXCEPT ![nin + 1] = t]
    /\ typing' = [typing EXCEPT ![t] = Encode(nin + 1)]
    /\ UNCHANGED <<phase, attended, there, connected, sessions, broken, inward, outward>>

Takes(t) == hand[t] = <<>> /\ (t = "ble" => PumpIdle)

Write(t) ==
    /\ there[t] /\ typing[t] # <<>> /\ Takes(t)
    /\ hand' = [hand EXCEPT ![t] = First(typing[t], Piece)]
    /\ typing' = [typing EXCEPT ![t] = Rest(@, Least(Piece, Len(@)))]
    /\ UNCHANGED <<phase, attended, there, connected, sessions, nin, fromOf, broken, inp, dec, got, outward>>

----------------------------------------------------------------------------
Nothing == [t \in Transport |-> <<>>]

Init ==
    /\ phase = "read" /\ attended = TRUE
    /\ there = [t \in Transport |-> FALSE] /\ connected = FALSE
    /\ sessions = 0
    /\ typing = Nothing /\ hand = Nothing /\ inp = Nothing
    /\ dec = [t \in Transport |-> Fresh] /\ hdec = [t \in Transport |-> Fresh]
    /\ outbox = Nothing /\ outp = <<>> /\ notifying = <<>>
    /\ got = Nothing /\ shown = Nothing
    /\ nin = 0 /\ nout = 0 /\ fromOf = [f \in 1..MaxIn |-> "usb"]
    /\ broken = {} /\ torn = {}

Loop ==
    \/ \E t \in Transport : ReadPipe(t)
    \/ ReadNothing \/ Work \/ FlushPacket \/ FlushFails \/ Flushed \/ PushToBle

Pump == PumpRead \/ Notify \/ Stalled \/ Disconnected

Next ==
    \/ Loop \/ Pump
    \/ \E t \in Transport :
        FeedPipe(t) \/ Comes(t) \/ Goes(t) \/ StartFrame(t) \/ Write(t)

Spec == Init /\ [][Next]_vars

(* Every task of the executor goes on running; a notification or a packet  *)
(* is answered or times out; the loop reads each pipe that has something.  *)
(* Nothing is assumed of the hosts.                                        *)
Fairness ==
    /\ WF_vars(Loop) /\ WF_vars(Pump)
    /\ \A t \in Transport : SF_vars(ReadPipe(t)) /\ WF_vars(FeedPipe(t))

FairSpec == Spec /\ Fairness

----------------------------------------------------------------------------
TypeOK ==
    /\ phase \in {"read", "work", "flush", "push"} /\ attended \in BOOLEAN
    /\ connected \in BOOLEAN /\ there \in [Transport -> BOOLEAN]
    /\ \A t \in Transport :
        /\ Len(inp[t]) <= PipeIn /\ Len(outbox[t]) <= Room
        /\ Len(hand[t]) <= Piece /\ Len(dec[t].bytes) <= Buffer + 1
    /\ Len(outp) <= PipeOut
    /\ nin \in 0..MaxIn /\ nout \in 0..MaxOut
    /\ broken \subseteq 1..MaxIn /\ torn \subseteq 1..MaxOut

(* The bytes of frame f a reader keeps, of the first k on the wire. *)
Kept(f, k) == {i \in 1..k : Body(f)[i] # "fesc"}

BeginningOf(s, f) ==
    \E k \in 1..Len(Body(f)) :
        /\ {s[i] : i \in 1..Len(s)} = {<<f, i>> : i \in Kept(f, k)}
        /\ Len(s) = Cardinality(Kept(f, k))
        /\ \A i, j \in 1..Len(s) : i < j => s[i][2] < s[j][2]

WholeFrame(s, f) == Len(s) = Cardinality(Kept(f, Len(Body(f))))

(* What the board takes for a command is the beginning of one frame of one *)
(* host, on the transport that host wrote it on, and the whole of it       *)
(* unless that host went before its end: not what two hosts, or two        *)
(* transports, wrote one after the other.                                  *)
CommandsAreOneHosts ==
    \A t \in Transport : \A i \in 1..Len(got[t]) :
        \E f \in 1..nin :
            /\ BeginningOf(got[t][i], f) /\ fromOf[f] = t
            /\ WholeFrame(got[t][i], f) \/ f \in broken

(* What a host reads is the beginning of one frame of the board, and the   *)
(* whole of it unless the rest was abandoned; in the order they were       *)
(* written, none twice.  It holds for a host that comes in the middle of a *)
(* frame, one that stops reading for a while, and a phone that comes after *)
(* another.                                                                *)
HostsReadFrames ==
    \A t \in Transport : \A i \in 1..Len(shown[t]) :
        \E f \in 1..nout :
            /\ BeginningOf(shown[t][i], f)
            /\ WholeFrame(shown[t][i], f) \/ f \in torn
            /\ \A j \in 1..(i-1) : shown[t][j][1][1] < f

(* What a host and the board take from each other is what the other said.  *)
HostLinkCorrect == TypeOK /\ CommandsAreOneHosts /\ HostsReadFrames

Received(f) == \E i \in 1..Len(got[fromOf[f]]) : got[fromOf[f]][i][1][1] = f

(* A command written to its end is read: however full the pipes get,       *)
(* whatever the host before it left behind, whether its host stays or goes *)
(* and whether or not the other host reads what it is sent.                *)
CommandsAreRead ==
    \A f \in 1..MaxIn :
        (f <= nin /\ f \notin broken \union Writing(fromOf[f]) /\ ~TooLong(f)) ~> Received(f)
=============================================================================
