-------------------------------- MODULE Lxmf ---------------------------------
(***************************************************************************)
(* A message in one packet, as LXMF writes it (core/src/node/lxmf.rs): the *)
(* board's own (pack), and a stranger's, read in place and trusted with    *)
(* nothing (unpack, timestamp, text, fields and skip).                     *)
(*                                                                         *)
(* A byte is a number below Base: the first eight and the last of them are *)
(* integers and the others the headers named below, one for each kind the  *)
(* code tells apart.  A length of two or four bytes is two digits, and a   *)
(* source and a signature are one byte each.  Positions count from 0 and wrap at Usize, the  *)
(* board's usize.  The sender is a derivation of the format: what is left  *)
(* of a message to write is a stack of what must come, and each step       *)
(* writes the head of one, or a byte that is wrong there.                  *)
(***************************************************************************)
EXTENDS Naturals, Sequences

CONSTANTS
    Usize,           \* 2^32 on the board: usize counts up to it
    MAX_DEPTH,
    ENCRYPTED_MDU,
    Short,          \* the longest text with a length of one byte
    MaxBytes        \* bound: bytes in a payload

Base == 32

Fix == 0..7      \* 0x00..=0x7f
Nil == 9         \* 0xc0
Never == 10      \* 0xc1
Bool == 11       \* 0xc2, 0xc3
Str0 == 12       \* 0xa0..=0xbf
Str1 == 13
Bin8 == 14       \* 0xc4, 0xd9
Bin16 == 15      \* 0xc5, 0xda
Bin32 == 16      \* 0xc6, 0xdb
U8 == 17         \* 0xcc..=0xcf
I8 == 18         \* 0xd0..=0xd3
F64 == 19        \* 0xca, 0xcb
FixExt == 20     \* 0xd4..=0xd8
Ext8 == 21       \* 0xc7..=0xc9
Arr0 == 22       \* 0x90..=0x9f
Arr1 == 23
Arr4 == 24
Arr5 == 25
Arr16 == 26      \* 0xdc, 0xdd
Map0 == 27       \* 0x80..=0x8f
Map1 == 28
Map16 == 29      \* 0xde, 0xdf
Neg == Base - 1  \* 0xe0..=0xff

DESCRIPTIVE_FIELDS == {4}

\* What is not a value or a position: None, or Err
Bad == Usize

ASSUME LxmfAssumption ==
    /\ Usize \in Nat /\ Usize >= Base /\ MAX_DEPTH \in Nat
    /\ ENCRYPTED_MDU \in Nat /\ Short \in Nat /\ MaxBytes \in Nat

VARIABLES
    bytes,      \* the payload written so far
    todo,       \* what must still come, a stack: [part, n]
    meant,      \* what was meant by it: [sent, title, content, attachment, stamped]
    stampless,  \* the four-element payload its sender signed
    wrong       \* a byte has been written that cannot be there

lxmfVars == <<bytes, todo, meant, stampless, wrong>>

-----------------------------------------------------------------------------
(* Reading.  data[at + 1] is the byte at position at; a reader answers     *)
(* where what it read ends, or Bad.                                        *)

Has(data, at, n) == at + n <= Len(data)
At(data, at) == data[at + 1]

\* length, of one byte or of more
Length1(data, at) == IF Has(data, at, 1) THEN At(data, at) ELSE Bad
Length2(data, at) ==
    IF Has(data, at, 2) THEN (Base * At(data, at)) + At(data, at + 1) ELSE Bad

\* end
End(data, at) == IF at <= Len(data) THEN at ELSE Bad

\* A position after a length that was read, or not
Ends(data, at, n) == IF n = Bad THEN Bad ELSE End(data, at)

RECURSIVE Skip(_, _, _), Skips(_, _, _, _)

\* skip: the position after the value at `at`
Skip(data, at, depth) ==
    IF depth > MAX_DEPTH \/ ~Has(data, at, 1) THEN Bad
    ELSE LET head == At(data, at)
             n1 == Length1(data, at + 1)
             n2 == Length2(data, at + 1)
             items(k, from) == Skips(data, from, k, depth + 1)
         IN  CASE head \in Fix \union {Neg, Nil, Bool, Str0, Arr0, Map0} -> at + 1
               [] head \in {Str1, U8, I8, F64} -> End(data, at + 2)
               [] head = FixExt -> End(data, at + 3)
               [] head = Bin8 -> Ends(data, at + 2 + n1, n1)
               [] head = Ext8 -> Ends(data, at + 3 + n1, n1)
               [] head = Bin16 -> Ends(data, at + 3 + n2, n2)
               [] head = Bin32 -> Ends(data, (at + 3 + n2) % Usize, n2)
               [] head = Arr1 -> items(1, at + 1)
               [] head = Arr4 -> items(4, at + 1)
               [] head = Arr5 -> items(5, at + 1)
               [] head = Map1 -> items(2, at + 1)
               [] head = Arr16 -> IF n2 = Bad THEN Bad ELSE items(n2, at + 3)
               [] head = Map16 -> IF n2 = Bad THEN Bad ELSE items(2 * n2, at + 3)
               [] OTHER -> Bad

\* The walk stops at the first item that runs off the end.
Skips(data, at, items, depth) ==
    IF at = Bad \/ items = 0 THEN at
    ELSE Skips(data, Skip(data, at, depth), items - 1, depth)

\* timestamp and whole_seconds: a reading is [end, value]; None for what is
\* negative or too large to be a time
NoTime == Base
Timestamp(data, at) ==
    LET value == IF Has(data, at, 2) THEN At(data, at + 1) ELSE NoTime
        after == End(data, at + 2)
        fails == [end |-> Bad, value |-> NoTime]
    IN  IF ~Has(data, at, 1) THEN fails
        ELSE CASE At(data, at) \in Fix -> [end |-> at + 1, value |-> At(data, at)]
               [] At(data, at) = Neg -> [end |-> at + 1, value |-> NoTime]
               [] At(data, at) = U8 -> [end |-> after, value |-> value]
               [] At(data, at) \in {I8, F64} ->
                    [end |-> after, value |-> IF value < Base \div 2 THEN value ELSE NoTime]
               [] OTHER -> fails

\* text
Text(data, at) ==
    LET fails == [end |-> Bad, value |-> << >>]
        body(from, len) ==
            IF len = Bad \/ from + len > Len(data) THEN fails
            ELSE [end |-> from + len, value |-> SubSeq(data, from + 1, from + len)]
    IN  IF ~Has(data, at, 1) THEN fails
        ELSE CASE At(data, at) = Str0 -> body(at + 1, 0)
               [] At(data, at) = Str1 -> body(at + 1, 1)
               [] At(data, at) = Bin8 -> body(at + 2, Length1(data, at + 1))
               [] At(data, at) \in {Bin16, Bin32} -> body(at + 3, Length2(data, at + 1))
               [] OTHER -> fails

\* Mutation: only a key of one byte is looked at.
Describes_FixOnly(data, at) == At(data, at) \in Fix /\ At(data, at) \in DESCRIPTIVE_FIELDS

\* Whether the key at `at` is of a field that describes the message
Describes(data, at) ==
    \/ At(data, at) \in Fix /\ At(data, at) \in DESCRIPTIVE_FIELDS
    \/ At(data, at) = U8 /\ Has(data, at, 2) /\ At(data, at + 1) \in DESCRIPTIVE_FIELDS

\* fields: each key and its value in turn; an attachment if any describes not
RECURSIVE Entries(_, _, _, _)
Entries(data, at, count, attachment) ==
    IF count = 0 THEN [end |-> at, value |-> attachment]
    ELSE LET key == Skip(data, at, 1)
             next == IF key = Bad THEN Bad ELSE Skip(data, key, 1)
         IN  IF next = Bad THEN [end |-> Bad, value |-> FALSE]
             ELSE Entries(data, next, count - 1, attachment \/ ~Describes(data, at))

Fields(data, at) ==
    LET fails == [end |-> Bad, value |-> FALSE]
        n2 == Length2(data, at + 1)
    IN  IF ~Has(data, at, 1) THEN fails
        ELSE CASE At(data, at) \in {Nil, Map0} -> [end |-> at + 1, value |-> FALSE]
               [] At(data, at) = Map1 -> Entries(data, at + 1, 1, FALSE)
               [] At(data, at) = Map16 /\ n2 # Bad -> Entries(data, at + 3, n2, FALSE)
               [] OTHER -> fails

Refused == [ok |-> FALSE, sent |-> NoTime, title |-> << >>, content |-> << >>,
            attachment |-> FALSE, stamped |-> FALSE, signed |-> << >>]

\* Message::unpack, of the payload: each part from where the last one ended,
\* and nothing after them
Unpack(data) ==
    LET sixteen == /\ Len(data) >= 3 /\ data[1] = Arr16
                   /\ data[2] = 0 /\ data[3] \in {4, 5}
        fixed == Len(data) >= 1 /\ data[1] \in {Arr4, Arr5}
        five == (fixed /\ data[1] = Arr5) \/ (sixteen /\ data[3] = 5)
        first == IF sixteen THEN 3 ELSE 1
        time == Timestamp(data, first)
        title == IF time.end = Bad THEN [end |-> Bad, value |-> << >>] ELSE Text(data, time.end)
        content == IF title.end = Bad THEN title ELSE Text(data, title.end)
        fields == IF content.end = Bad THEN [end |-> Bad, value |-> FALSE]
                  ELSE Fields(data, content.end)
        last == IF fields.end = Bad THEN Bad
                ELSE IF five THEN Skip(data, fields.end, 0) ELSE fields.end
    IN  IF ~(sixteen \/ fixed) \/ last = Bad \/ last # Len(data) THEN Refused
        ELSE [ok |-> TRUE, sent |-> time.value, title |-> title.value,
              content |-> content.value, attachment |-> fields.value, stamped |-> five,
              signed |-> <<Arr4>> \o SubSeq(data, first + 1, fields.end)]

-----------------------------------------------------------------------------
(* The board's own messages *)

\* pack: a double, an empty title, the content and no fields
Pack(time, content) ==
    <<Arr4, F64, time, Bin8, 0>>
      \o (IF Len(content) <= Short THEN <<Bin8, Len(content)>>
          ELSE <<Bin16, Len(content) \div Base, Len(content) % Base>>)
      \o content \o <<Map0>>

MAX_CONTENT == ENCRYPTED_MDU - (1 + 1 + 1 + 2 + 2 + 3 + 1)

\* Mutation: the longest content is a byte too long.
TooLong_OffByOne(content) == Len(content) > MAX_CONTENT + 1

TooLong(content) == Len(content) > MAX_CONTENT

-----------------------------------------------------------------------------
(* The sender.  A part still to come is named, with a number: the depth of *)
(* a value, or how many bytes of a body.                                   *)

Part(name, n) == [part |-> name, n |-> n]
Bytes(name, n) == IF n = 0 THEN << >> ELSE <<Part(name, n)>>

\* The ways to begin a value: the bytes of its head, and the parts after it
Values(n) ==
    {[new |-> <<b>>, rest |-> << >>] : b \in {3, 4, Str0, Arr0}}
      \union {[new |-> <<Bin8, k>>, rest |-> Bytes("bytes", k)] : k \in {0, 1}}
      \union {[new |-> <<Bin16, 0, 1>>, rest |-> Bytes("bytes", 1)]}
      \union {[new |-> <<Bin32, d, Base - 1>>, rest |-> Bytes("bytes", (d + 1) * Base - 1)]
                : d \in {0, Base - 1}}
      \union {[new |-> <<FixExt>>, rest |-> Bytes("bytes", 2)]}
      \union {[new |-> <<Ext8, 0>>, rest |-> Bytes("bytes", 1)]}
      \union {[new |-> <<Arr1>>, rest |-> <<Part("value", n + 1)>>]}
      \union {[new |-> <<Arr16, 0, 1>>, rest |-> <<Part("value", n + 1)>>]}
      \union {[new |-> <<Map1>>, rest |-> <<Part("value", n + 1), Part("value", n + 1)>>]}

Texts(name) ==
    {[new |-> <<Str0>>, rest |-> << >>], [new |-> <<Str1>>, rest |-> Bytes(name, 1)]}
      \union {[new |-> <<Bin8, k>>, rest |-> Bytes(name, k)] : k \in {0, 2}}
      \union {[new |-> <<b, 0, 1>>, rest |-> Bytes(name, 1)] : b \in {Bin16, Bin32}}

\* A timestamp's bytes, and the time they say
Times == {<< <<3>>, 3>>, << <<Neg>>, NoTime>>, << <<U8, 31>>, 31>>,
          << <<I8, 31>>, NoTime>>, << <<F64, 3>>, 3>>}

FieldMaps ==
    {[new |-> <<b>>, rest |-> << >>] : b \in {Nil, Map0}}
      \union {[new |-> m, rest |-> <<Part("key", 1), Part("value", 1)>>]
                : m \in {<<Map1>>, <<Map16, 0, 1>>}}

Next1 == IF todo = << >> THEN Part("end", 0) ELSE Head(todo)

\* What is written belongs to the stamp, which nobody signs.
OfStamp == meant.stamped /\ \A i \in 2..Len(todo) : todo[i].part # "stamp"

\* The step that writes `new` for the part that is next, and has `rest` to
\* come in its place
Puts(new, rest) ==
    /\ Len(bytes) + Len(new) <= MaxBytes
    /\ bytes' = bytes \o new
    /\ todo' = rest \o Tail(todo)
    /\ stampless' = IF OfStamp THEN stampless ELSE stampless \o new

HeadOf == {[new |-> <<Arr4>>, stamped |-> FALSE], [new |-> <<Arr5>>, stamped |-> TRUE],
           [new |-> <<Arr16, 0, 4>>, stamped |-> FALSE],
           [new |-> <<Arr16, 0, 5>>, stamped |-> TRUE]}

PutHead ==
    /\ Next1.part = "head"
    /\ \E h \in HeadOf :
        /\ bytes' = h.new /\ stampless' = <<Arr4>>
        /\ meant' = [meant EXCEPT !.stamped = h.stamped]
        /\ todo' = <<Part("time", 0), Part("title", 0), Part("content", 0), Part("fields", 0)>>
                     \o (IF h.stamped THEN <<Part("stamp", 0)>> ELSE << >>)
    /\ UNCHANGED wrong

PutTime ==
    /\ Next1.part = "time"
    /\ \E t \in Times : Puts(t[1], << >>) /\ meant' = [meant EXCEPT !.sent = t[2]]
    /\ UNCHANGED wrong

PutText ==
    /\ \/ Next1.part = "title" /\ \E t \in Texts("of title") : Puts(t.new, t.rest)
       \/ Next1.part = "content" /\ \E t \in Texts("of content") : Puts(t.new, t.rest)
    /\ UNCHANGED <<meant, wrong>>

PutFields ==
    /\ Next1.part = "fields"
    /\ \E f \in FieldMaps : Puts(f.new, f.rest)
    /\ UNCHANGED <<meant, wrong>>

\* A byte of a body: of the title, of the content or of something else
PutByte ==
    /\ Next1.part \in {"of title", "of content", "bytes"}
    /\ \E b \in {4, Never} :
        /\ Puts(<<b>>, Bytes(Next1.part, Next1.n - 1))
        /\ meant' = CASE Next1.part = "of title" -> [meant EXCEPT !.title = Append(@, b)]
                      [] Next1.part = "of content" -> [meant EXCEPT !.content = Append(@, b)]
                      [] OTHER -> meant
    /\ UNCHANGED wrong

PutKey ==
    /\ Next1.part = "key"
    /\ \/ /\ \E k \in DESCRIPTIVE_FIELDS : Puts(<<k>>, << >>) \/ Puts(<<U8, k>>, << >>)
          /\ UNCHANGED meant
       \/ /\ Puts(<<3>>, << >>) \/ Puts(<<U8, 3>>, << >>) \/ Puts(<<Bin8, 0>>, << >>)
          /\ meant' = [meant EXCEPT !.attachment = TRUE]
    /\ UNCHANGED wrong

\* A value, nested as deep as the sender likes
PutValue ==
    /\ Next1.part \in {"value", "stamp"}
    /\ \E v \in Values(Next1.n) : Puts(v.new, v.rest)
    /\ wrong' = (wrong \/ Next1.n > MAX_DEPTH)
    /\ UNCHANGED meant

\* A byte that no message has there
Wrong(part) ==
    CASE part = "head" -> {Arr1, Nil}
      [] part = "time" -> {Str0, Nil}
      [] part \in {"title", "content"} -> {4, Nil}
      [] part = "fields" -> {4, Arr0}
      [] OTHER -> {Never}

Slip ==
    /\ ~wrong /\ Next1.part \notin {"end", "bytes", "of title", "of content"}
    /\ \E b \in Wrong(Next1.part) : Puts(<<b>>, << >>)
    /\ wrong' = TRUE
    /\ UNCHANGED meant

\* Something after the end
More ==
    /\ todo = << >> /\ ~wrong /\ Len(bytes) < MaxBytes
    /\ \E b \in {4, Nil} : bytes' = Append(bytes, b)
    /\ wrong' = TRUE
    /\ UNCHANGED <<todo, meant, stampless>>

\* The board writes one of its own (Node::pack), if it is not too long.
Own ==
    /\ bytes = << >>
    /\ \E k \in 0..(ENCRYPTED_MDU + 1) :
        LET content == [i \in 1..k |-> 4]
        IN  /\ ~TooLong(content)
            /\ bytes' = Pack(3, content) /\ stampless' = bytes'
            /\ meant' = [meant EXCEPT !.sent = 3, !.content = content]
    /\ todo' = << >>
    /\ UNCHANGED wrong

LxmfInit ==
    /\ bytes = << >> /\ stampless = << >> /\ wrong = FALSE
    /\ todo = <<Part("head", 0)>>
    /\ meant = [sent |-> NoTime, title |-> << >>, content |-> << >>,
                attachment |-> FALSE, stamped |-> FALSE]

LxmfNext ==
    \/ PutHead \/ PutTime \/ PutText \/ PutFields \/ PutByte \/ PutKey \/ PutValue
    \/ Slip \/ More \/ Own

LxmfSpec == LxmfInit /\ [][LxmfNext]_lxmfVars

-----------------------------------------------------------------------------
(* Properties *)

\* Type correctness.
LxmfTypeOK ==
    /\ bytes \in Seq(0..(Base - 1)) /\ Len(bytes) <= ENCRYPTED_MDU + 1
    /\ stampless \in Seq(0..(Base - 1)) /\ wrong \in BOOLEAN

\* What was written as a message is read as what was meant, whichever form
\* each part took, and its hash is over what its sender signed: the same with
\* a stamp as without (Message::unpack).
ReadAsMeant ==
    todo = << >> /\ ~wrong =>
        Unpack(bytes) =
            [ok |-> TRUE, sent |-> meant.sent, title |-> meant.title,
             content |-> meant.content, attachment |-> meant.attachment,
             stamped |-> meant.stamped, signed |-> stampless]

\* Nothing else is read as a message: not with a wrong byte anywhere, nested
\* deeper than MAX_DEPTH, with something after it, or cut short.
OnlyMessagesAreRead ==
    /\ todo # << >> \/ wrong => ~Unpack(bytes).ok
    /\ \A n \in 0..(Len(bytes) - 1) :
        ~wrong => ~Unpack(SubSeq(bytes, 1, n)).ok

\* What the board writes fits in one packet, a source and a signature with it,
\* and the longest fills it (MAX_CONTENT).
OwnFits ==
    todo = << >> /\ ~wrong /\ bytes = Pack(meant.sent, meant.content) =>
        /\ 2 + Len(bytes) <= ENCRYPTED_MDU
        /\ Len(meant.content) = MAX_CONTENT => 2 + Len(bytes) = ENCRYPTED_MDU

\* The reader and the writer agree about what a message is.
LxmfCorrect == LxmfTypeOK /\ ReadAsMeant /\ OnlyMessagesAreRead /\ OwnFits

\* "`None` for bytes that are not msgpack, a value cut short" (skip) and "a
\* payload cut short" (Malformed::Length): a message whose end has not come
\* yet is not read as a whole one.
CutShortIsRefused == todo # << >> /\ ~wrong => ~Unpack(bytes).ok
=============================================================================
