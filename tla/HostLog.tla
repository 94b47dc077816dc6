-------------------------------- MODULE HostLog --------------------------------
(***************************************************************************)
(* The log on its way to the host: the ring the logger appends to          *)
(* (core/src/logbuf.rs, src/logger.rs), the pump that empties it packet by *)
(* packet through a gate that waits for a reader to settle (src/usb_log.rs,*)
(* DrainGate of core/src/usb.rs), and the bus that comes and goes under    *)
(* both.  The reader attaches by a control request and may be killed       *)
(* without saying so.                                                      *)
(*                                                                         *)
(* A byte of the log is its number, counted from 1; the report of lost     *)
(* bytes the pump logs is bytes like any other.  Time is in the pump's     *)
(* 20 ms waits.                                                            *)
(***************************************************************************)
EXTENDS Naturals, Sequences, FiniteSets

CONSTANTS
    Capacity,       \* N, of RingBuffer
    Packet,         \* MAX_PACKET_SIZE
    OpenSettle,     \* OPEN_SETTLE_MS
    NotRaised,      \* no raised_at
    MaxWritten,     \* bound: bytes logged by the rest of the firmware
    MaxBus,         \* bound: changes of the bus
    MaxReaders      \* bound: readers that attach, leave or die

ASSUME HostLogAssumption ==
    /\ Capacity \in Nat \ {0} /\ Packet \in 1..Capacity
    /\ {OpenSettle, MaxWritten, MaxBus, MaxReaders} \subseteq Nat
    /\ NotRaised \notin Nat

VARIABLES
    ring,       \* RingBuffer: [buf, read, len, dropped]
    written,    \* bytes appended since boot
    rest,       \* of them, those of the rest of the firmware
    bus,        \* "down", "configured" or "suspended"
    listening,  \* LISTENING
    collecting,    \* a program collects what the endpoint sends
    pump,       \* "connect", "gate", "send" or "zlp"
    raised,     \* DrainGate: polls since raised_at, or NotRaised
    closed,     \* waits since the gate was last seen closed
    chunk,      \* the packet being written
    partial,    \* what the host holds of a transfer that has not ended
    got,        \* what the program has read
    missing,    \* bytes reported lost, and bytes of packets given up
    busChanges, readers

hostLogVars == <<ring, written, rest, bus, listening, collecting, pump, raised,
                 closed, chunk, partial, got, missing, busChanges, readers>>

-----------------------------------------------------------------------------
(* RingBuffer *)

\* Mutation: an eviction is not counted.
PushByte_Silent(r, b) ==
    IF r.len = Capacity
    THEN [r EXCEPT !.buf[(r.read + r.len) % Capacity] = b,
                   !.read = (@ + 1) % Capacity]
    ELSE [r EXCEPT !.buf[(r.read + r.len) % Capacity] = b, !.len = @ + 1]

\* The oldest byte makes room.
PushByte(r, b) ==
    IF r.len = Capacity
    THEN [r EXCEPT !.buf[(r.read + r.len) % Capacity] = b,
                   !.read = (@ + 1) % Capacity, !.dropped = @ + 1]
    ELSE [r EXCEPT !.buf[(r.read + r.len) % Capacity] = b, !.len = @ + 1]

\* n bytes, one after another
push(r, from, n) ==
    LET after[i \in 0..n] ==
            IF i = 0 THEN r ELSE PushByte(after[i - 1], from + i)
    IN  after[n]

Waiting(r) == [i \in 1..r.len |-> r.buf[(r.read + i - 1) % Capacity]]

\* Mutation: all of the ring is copied out.
PacketOf_Whole(r) == Waiting(r)

\* What pop copies out
PacketOf(r) == SubSeq(Waiting(r), 1, IF r.len < Packet THEN r.len ELSE Packet)

\* Mutation: the read position is not brought round.
pop_NoWrap(r) ==
    LET n == Len(PacketOf(r))
    IN  [r EXCEPT !.read = IF @ + n < Capacity THEN @ + n ELSE 0, !.len = @ - n]

pop(r) ==
    LET n == Len(PacketOf(r))
    IN  [r EXCEPT !.read = (@ + n) % Capacity, !.len = @ - n]

-----------------------------------------------------------------------------
(* The firmware, the bus and the reader *)

\* Logger, between acquire and release
Logged ==
    /\ \E n \in 1..2 :
        /\ rest + n <= MaxWritten
        /\ rest' = rest + n
        /\ written' = written + n
        /\ ring' = push(ring, written, n)
    /\ UNCHANGED <<bus, listening, collecting, pump, raised, closed, chunk,
                   partial, got, missing, busChanges, readers>>

\* The program no longer collects; what it had of a transfer goes with it.
Gone ==
    /\ collecting' = FALSE
    /\ partial' = <<>> /\ missing' = missing + Len(partial)

\* reset, configured and suspended of VendorLogControl
Bus ==
    /\ busChanges < MaxBus
    /\ busChanges' = busChanges + 1
    /\ \/ bus = "down" /\ bus' = "configured" /\ UNCHANGED listening
       \/ bus = "configured" /\ bus' = "suspended" /\ listening' = FALSE
       \/ bus = "suspended" /\ bus' = "configured" /\ UNCHANGED listening
       \/ bus # "down" /\ bus' = "down" /\ listening' = FALSE
    /\ IF bus' = "configured" THEN UNCHANGED <<collecting, partial, missing>> ELSE Gone
    /\ UNCHANGED <<ring, written, rest, pump, raised, closed, chunk, got, readers>>

bus_active == bus = "configured"

\* log_attach_request, and a reader that is killed
Attach ==
    /\ bus_active /\ readers < MaxReaders
    /\ readers' = readers + 1
    /\ \/ ~collecting /\ collecting' = TRUE /\ listening' = TRUE
          /\ UNCHANGED <<partial, missing>>
       \/ collecting /\ Gone /\ listening' \in {listening, FALSE}
    /\ UNCHANGED <<ring, written, rest, bus, pump, raised, closed, chunk, got,
                   busChanges>>

-----------------------------------------------------------------------------
(* The pump *)

Connected ==
    /\ pump = "connect" /\ bus # "down"
    /\ pump' = "gate" /\ raised' = NotRaised /\ closed' = 0
    /\ UNCHANGED <<ring, written, rest, bus, listening, collecting, chunk,
                   partial, got, missing, busChanges, readers>>

\* Mutation: a drop of the line leaves the wait as it is.
DrainGate_Kept == IF raised = NotRaised /\ listening THEN 0 ELSE raised

\* DrainGate::poll, raised_at after it
DrainGate == IF ~listening THEN NotRaised ELSE IF raised = NotRaised THEN 0 ELSE raised

Open(r) == listening /\ r # NotRaised /\ r >= OpenSettle

Shut ==
    /\ pump = "gate" /\ ~Open(DrainGate)
    /\ raised' = DrainGate
    /\ closed' = IF listening THEN closed ELSE 0
    /\ UNCHANGED <<ring, written, rest, bus, listening, collecting, pump, chunk,
                   partial, got, missing, busChanges, readers>>

\* The gate is open: what was lost is reported into the ring, whose front is
\* then taken; or there is nothing, and the pump waits.
TakeChunk ==
    /\ pump = "gate" /\ Open(DrainGate)
    /\ raised' = DrainGate
    /\ LET report == IF ring.dropped > 0 THEN 1 ELSE 0
           r == push([ring EXCEPT !.dropped = 0], written, report)
       IN  /\ written' = written + report
           /\ missing' = missing + ring.dropped
           /\ chunk' = PacketOf(r)
           /\ ring' = pop(r)
           /\ pump' = IF PacketOf(r) = <<>> THEN "gate" ELSE "send"
    /\ UNCHANGED <<rest, bus, listening, collecting, closed, partial, got,
                   busChanges, readers>>

\* The host collects a packet.  A full one leaves the transfer open.
Collected ==
    /\ pump = "send" /\ bus_active /\ collecting
    /\ IF Len(chunk) = Packet
       THEN /\ partial' = partial \o chunk /\ pump' = "zlp"
            /\ UNCHANGED got
       ELSE /\ got' = got \o partial \o chunk /\ partial' = <<>>
            /\ pump' = "gate"
    /\ chunk' = <<>>
    /\ UNCHANGED <<ring, written, rest, bus, listening, collecting, raised,
                   closed, missing, busChanges, readers>>

\* Mutation: the transfer is left open behind a full packet.
Ended_Not == UNCHANGED <<got, partial>>

Ended == got' = got \o partial /\ partial' = <<>>

\* The zero-length packet
CollectedEnd ==
    /\ pump = "zlp" /\ bus_active /\ collecting
    /\ Ended
    /\ pump' = "gate"
    /\ UNCHANGED <<ring, written, rest, bus, listening, collecting, raised,
                   closed, chunk, missing, busChanges, readers>>

\* WRITE_TIMEOUT: nobody collects; the packet is dropped.
TimedOut ==
    /\ pump \in {"send", "zlp"} /\ bus # "down" /\ ~(bus_active /\ collecting)
    /\ pump' = "gate"
    /\ chunk' = <<>> /\ missing' = missing + Len(chunk)
    /\ UNCHANGED <<ring, written, rest, bus, listening, collecting, raised,
                   closed, partial, got, busChanges, readers>>

Refused ==
    /\ pump \in {"send", "zlp"} /\ bus = "down"
    /\ pump' = "connect"
    /\ chunk' = <<>> /\ missing' = missing + Len(chunk)
    /\ UNCHANGED <<ring, written, rest, bus, listening, collecting, raised,
                   closed, partial, got, busChanges, readers>>

Waits ==
    /\ raised \notin {NotRaised, OpenSettle} \/ closed < OpenSettle
    /\ raised' = IF raised \in {NotRaised, OpenSettle} THEN raised ELSE raised + 1
    /\ closed' = IF closed = OpenSettle THEN closed ELSE closed + 1
    /\ UNCHANGED <<ring, written, rest, bus, listening, collecting, pump, chunk,
                   partial, got, missing, busChanges, readers>>

HostLogInit ==
    /\ ring = [buf |-> [i \in 0..(Capacity - 1) |-> 0], read |-> 0, len |-> 0,
               dropped |-> 0]
    /\ written = 0 /\ rest = 0
    /\ bus = "down" /\ listening = FALSE /\ collecting = FALSE
    /\ pump = "connect" /\ raised = NotRaised /\ closed = 0
    /\ chunk = <<>> /\ partial = <<>> /\ got = <<>> /\ missing = 0
    /\ busChanges = 0 /\ readers = 0

HostLogNext ==
    \/ Logged \/ Bus \/ Attach \/ Connected \/ Shut \/ TakeChunk \/ Collected
    \/ CollectedEnd \/ TimedOut \/ Refused \/ Waits

HostLogSpec == HostLogInit /\ [][HostLogNext]_hostLogVars

-----------------------------------------------------------------------------
(* The types of the state. *)
HostLogTypeOK ==
    /\ ring.read \in 0..(Capacity - 1) /\ ring.len \in 0..Capacity
    /\ {ring.dropped, written, missing} \subseteq Nat
    /\ bus \in {"down", "configured", "suspended"}
    /\ {listening, collecting} \subseteq BOOLEAN
    /\ listening => bus = "configured"
    /\ pump \in {"connect", "gate", "send", "zlp"}
    /\ raised \in 0..OpenSettle \cup {NotRaised} /\ closed \in 0..OpenSettle
    /\ Len(chunk) <= Packet /\ (pump = "send") = (chunk # <<>>)

(* A byte logged is in the ring, in the packet, with the host, counted as  *)
(* dropped, or in a packet the pump gave up: none goes uncounted, with a   *)
(* report of the loss itself pushed into a ring that may be full (push,    *)
(* take_dropped and pump; "must never be silent").                         *)
EveryByteIsSomewhere ==
    written = Len(got) + Len(partial) + Len(chunk) + ring.len
                + ring.dropped + missing

(* The host has the log in order, without a byte twice, and then the ring, *)
(* whatever was evicted, given up or wrapped in between (push and pop).    *)
InOrder ==
    LET all == got \o partial \o chunk \o Waiting(ring)
    IN  \A i \in 1..(Len(all) - 1) : all[i] < all[i + 1]

(* Nothing leaves the ring until the pump has seen a reader for as long as *)
(* a reader takes to open: a reader that left, seen by the pump, has the   *)
(* next one waited for again (DrainGate, and the pump's new gate at each   *)
(* connection).                                                            *)
ReadersSettle == [][chunk' # <<>> /\ chunk = <<>> => closed >= OpenSettle]_hostLogVars

AllRead == ring.len = 0 /\ chunk = <<>> /\ partial = <<>>

(* A reader that stays gets all of the log there is in the end, whatever   *)
(* packets earlier readers left in the middle: the pump is not parked on a *)
(* write, nor a transfer left open (WRITE_TIMEOUT, the zero-length packet).*)
ReaderGetsTheLog == []<>(listening /\ collecting => AllRead)

(* The log a host reads: in order, with every loss counted.                 *)
HostLogCorrect ==
    [](HostLogTypeOK /\ EveryByteIsSomewhere /\ InOrder) /\ ReadersSettle
=============================================================================
