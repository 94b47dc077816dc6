-------------------------------- MODULE Nmea --------------------------------
(***************************************************************************)
(* What the receiver makes of the module's bytes (core/src/gps.rs): the    *)
(* lexer that finds sentences among bytes of which some are lost or are    *)
(* noise, the parser that refuses a sentence for one bad field, and the    *)
(* receiver's clock and satellites; and the seconds a date and a time are  *)
(* (Date::unix_seconds).                                                   *)
(*                                                                         *)
(* A sentence goes over the wire as its "$", piece 0, its body in two      *)
(* pieces, its sum, piece 3, and its line end, piece 4.  The sum tells a   *)
(* body put together from pieces of different sentences from one that was  *)
(* sent.  The module's time is in DayLength parts of a day.                *)
(***************************************************************************)
EXTENDS Integers, Sequences, FiniteSets, SequencesExt

CONSTANTS
    DayLength,      \* times of day
    MaxTime,        \* bound: the module's clock
    MaxSentence,    \* MAX_SENTENCE, in pieces
    Slots,          \* TALKERS
    Talkers,        \* the constellations
    Unsaid,         \* an empty field
    MaxSent,        \* bound: sentences
    MaxLost,        \* bound: bytes lost or spoilt
    FirstDays,      \* days the calendar is checked from: <<year, days>>
    CalendarDays    \* bound: days checked from each

\* The 29ths of February of the years 1 to y
Leaps(y) == y \div 4 - y \div 100 + y \div 400

ASSUME NmeaAssumption ==
    /\ DayLength \in Nat \ {0} /\ Slots \in Nat \ {0}
    /\ {MaxTime, MaxSentence, MaxSent, MaxLost, CalendarDays} \subseteq Nat
    /\ MaxSentence >= 3
    /\ Unsaid \notin Nat

\* A first of January and the days since 1970-01-01, counted by its years
ASSUME FirstDaysAssumption ==
    \A f \in FirstDays :
        /\ f[1] \in Nat \ {0}
        /\ f[2] = 365 * (f[1] - 1970) + Leaps(f[1] - 1) - Leaps(1969)

VARIABLES
    time,       \* the module's clock, which is right
    wire,       \* what is left of the sentence being sent
    intact,     \* it has arrived whole so far
    lexer,      \* Lexer: [open, body]
    said,       \* Receiver: [time, date]
    inView,     \* Receiver::in_view: <<talker, satellites>>, the slots in use
    sentences,  \* Receiver::sentences
    whole,      \* well-formed sentences that arrived whole
    sent, lost,
    calendar    \* [year, month, day, days since 1970-01-01], or Unsaid

nmeaVars == <<time, wire, intact, lexer, said, inView, sentences, whole, sent,
              lost, calendar>>

DayOf(t) == t \div DayLength
HourOf(t) == t % DayLength

\* time, date, small, fixed, angle, coordinates: a field is what it should be,
\* or it is not
FieldsParse == BOOLEAN

\* What a module that is right may say at t; it gives no date without the
\* time.  One field of a sentence that is not well formed does not parse.
SentencesAt(t) ==
    [kind : {"GGA"}, time : {HourOf(t), Unsaid}, formed : FieldsParse]
    \cup [kind : {"RMC"}, time : {HourOf(t)}, date : {DayOf(t), Unsaid},
          formed : {TRUE}]
    \cup [kind : {"GSV"}, talker : Talkers, sats : {1, 2}, formed : {TRUE}]
    \cup [kind : {"Other"}, formed : {TRUE}]

-----------------------------------------------------------------------------
(* Lexer::push: what the lexer is after a byte.  The sentence is checked   *)
(* at its line end.                                                        *)

\* Mutation: a start inside a sentence does not begin another.
Start_Kept(l) == IF l.open THEN l ELSE [open |-> TRUE, body |-> <<>>]

Start(l) == [open |-> TRUE, body |-> <<>>]

\* Mutation: a line too long is collected to its end.
Piece_NoLimit(l, x) == IF l.open THEN [l EXCEPT !.body = Append(@, x)] ELSE l

Piece(l, x) ==
    CASE ~l.open -> l
      [] l.open /\ Len(l.body) = MaxSentence -> [open |-> FALSE, body |-> <<>>]
      [] OTHER -> [l EXCEPT !.body = Append(@, x)]

Noise(l) == [open |-> FALSE, body |-> <<>>]

Closed(l) == [l EXCEPT !.open = FALSE]

\* Lexer::check: the sum is that of what was collected
Checked(l) ==
    /\ l.open /\ Len(l.body) = 3
    /\ l.body = [i \in 1..3 |-> [of |-> l.body[1].of, piece |-> i]]

\* parse: one field that is not well formed and the sentence is refused
parse(s) == s.formed

-----------------------------------------------------------------------------
(* Receiver::take for a sentence that parses *)

Keep(old, new) == IF new = Unsaid THEN old ELSE new

\* Mutation: RMC is read for its date only.
Clock_DateOnly(c, s) ==
    CASE s.kind = "GGA" -> [c EXCEPT !.time = Keep(@, s.time)]
      [] s.kind = "RMC" -> [c EXCEPT !.date = Keep(@, s.date)]
      [] OTHER -> c

Clock(c, s) ==
    CASE s.kind = "GGA" -> [c EXCEPT !.time = Keep(@, s.time)]
      [] s.kind = "RMC" -> [time |-> Keep(c.time, s.time),
                            date |-> Keep(c.date, s.date)]
      [] OTHER -> c

\* Mutation: an empty slot is taken before the talker's own is looked for.
View_Another(v, s) ==
    CASE s.kind # "GSV" -> v
      [] s.kind = "GSV" /\ Len(v) < Slots -> Append(v, <<s.talker, s.sats>>)
      [] OTHER -> [i \in 1..Len(v) |-> IF v[i][1] = s.talker
                                       THEN <<s.talker, s.sats>> ELSE v[i]]

View(v, s) ==
    CASE s.kind # "GSV" -> v
      [] s.kind = "GSV" /\ \E i \in 1..Len(v) : v[i][1] = s.talker ->
            [i \in 1..Len(v) |-> IF v[i][1] = s.talker
                                 THEN <<s.talker, s.sats>> ELSE v[i]]
      [] OTHER -> IF Len(v) < Slots THEN Append(v, <<s.talker, s.sats>>) ELSE v

-----------------------------------------------------------------------------
(* The module and the wire *)

\* The fields of a well-formed sentence parse (gga, rmc, gsv); one that does
\* not is counted and nothing of it is taken.
Send ==
    /\ wire = <<>> /\ sent < MaxSent /\ calendar = Unsaid
    /\ sent' = sent + 1
    /\ \E s \in SentencesAt(time) :
        wire' = [i \in 1..5 |-> [of |-> s, piece |-> i - 1]]
    /\ intact' = TRUE
    /\ UNCHANGED <<time, lexer, said, inView, sentences, whole, lost, calendar>>

Passes ==
    /\ wire = <<>> /\ time < MaxTime /\ calendar = Unsaid
    /\ time' = time + 1
    /\ UNCHANGED <<wire, intact, lexer, said, inView, sentences, whole, sent,
                   lost, calendar>>

\* Receiver::feed, a byte that arrives
Arrive ==
    /\ wire # <<>>
    /\ wire' = Tail(wire)
    /\ LET x == Head(wire)
           end == x.piece = 4
           taken == end /\ Checked(lexer)
           s == lexer.body[1].of
       IN  /\ lexer' = CASE x.piece = 0 -> Start(lexer)
                         [] end -> Closed(lexer)
                         [] OTHER -> Piece(lexer, x)
           /\ IF taken /\ parse(s)
              THEN /\ said' = Clock(said, s)
                   /\ inView' = View(inView, s)
                   /\ sentences' = sentences + 1
              ELSE UNCHANGED <<said, inView, sentences>>
           /\ whole' = IF end /\ intact /\ parse(x.of) THEN whole + 1 ELSE whole
    /\ UNCHANGED <<time, intact, sent, lost, calendar>>

\* A byte lost, or spoilt
Spoil ==
    /\ wire # <<>> /\ lost < MaxLost
    /\ lost' = lost + 1
    /\ wire' = Tail(wire)
    /\ intact' = FALSE
    /\ lexer' \in {lexer, Noise(lexer)}
    /\ UNCHANGED <<time, said, inView, sentences, whole, sent, calendar>>

-----------------------------------------------------------------------------
(* Date::unix_seconds: the days since 1970-01-01, by the calendar of the   *)
(* source's integer arithmetic.                                            *)

\* Mutation: the year starts in January.
unix_days_January(y, m, d) ==
    LET era == y \div 400  yoe == y - era * 400
        doy == (153 * (m - 1) + 2) \div 5 + d - 1
    IN  era * 146097 + yoe * 365 + yoe \div 4 - yoe \div 100 + doy - 719468

unix_days(yy, m, d) ==
    LET y == IF m <= 2 THEN yy - 1 ELSE yy
        era == y \div 400  yoe == y - era * 400
        doy == (153 * (IF m > 2 THEN m - 3 ELSE m + 9) + 2) \div 5 + d - 1
    IN  era * 146097 + yoe * 365 + yoe \div 4 - yoe \div 100 + doy - 719468

\* The calendar itself, a day at a time
Leap(y) == y % 4 = 0 /\ (y % 100 # 0 \/ y % 400 = 0)
MonthLength(y, m) ==
    CASE m = 2 -> IF Leap(y) THEN 29 ELSE 28
      [] m \in {4, 6, 9, 11} -> 30
      [] OTHER -> 31

OpenCalendar ==
    /\ calendar = Unsaid /\ sent = 0 /\ time = 0
    /\ \E f \in FirstDays :
        calendar' = [year |-> f[1], month |-> 1, day |-> 1, days |-> f[2],
                     from |-> f[2]]
    /\ UNCHANGED <<time, wire, intact, lexer, said, inView, sentences, whole,
                   sent, lost>>

NextDay ==
    /\ calendar # Unsaid /\ calendar.days < calendar.from + CalendarDays
    /\ LET c == [calendar EXCEPT !.days = @ + 1]
       IN calendar' =
            CASE c.day < MonthLength(c.year, c.month) -> [c EXCEPT !.day = @ + 1]
              [] c.day = MonthLength(c.year, c.month) /\ c.month < 12 ->
                    [c EXCEPT !.day = 1, !.month = @ + 1]
              [] OTHER -> [c EXCEPT !.day = 1, !.month = 1, !.year = @ + 1]
    /\ UNCHANGED <<time, wire, intact, lexer, said, inView, sentences, whole,
                   sent, lost>>

NmeaInit ==
    /\ time = 0 /\ wire = <<>> /\ intact = TRUE
    /\ lexer = [open |-> FALSE, body |-> <<>>]
    /\ said = [time |-> Unsaid, date |-> Unsaid]
    /\ inView = <<>> /\ sentences = 0 /\ whole = 0
    /\ sent = 0 /\ lost = 0
    /\ calendar = Unsaid

NmeaNext == Send \/ Passes \/ Arrive \/ Spoil \/ OpenCalendar \/ NextDay

NmeaSpec == NmeaInit /\ [][NmeaNext]_nmeaVars

-----------------------------------------------------------------------------
(* The types of the state. *)
NmeaTypeOK ==
    /\ time \in 0..MaxTime
    /\ lexer.open \in BOOLEAN /\ Len(lexer.body) <= MaxSentence
    /\ said.time \in 0..(DayLength - 1) \cup {Unsaid}
    /\ said.date \in 0..DayOf(MaxTime) \cup {Unsaid}
    /\ Len(inView) <= Slots
    /\ sent \in 0..MaxSent /\ lost \in 0..MaxLost
    /\ {sentences, whole} \subseteq 0..MaxSent

(* A well-formed sentence that arrives whole is taken, whatever was lost   *)
(* or spoilt before it: the lexer is in step again at every "$" (Lexer).   *)
WholeIsTaken == sentences >= whole

(* The node's clock as the GPS gives it, the last date with the last time, *)
(* is never ahead of the truth, whichever of the sentences were lost: a    *)
(* time is never put with a date that came after it (Receiver::take,       *)
(* gps_seconds in src/node.rs).  At midnight it is a day behind until the  *)
(* next RMC.                                                               *)
GpsClockNotAhead ==
    said.time # Unsaid /\ said.date # Unsaid =>
        said.date * DayLength + said.time <= time

(* A constellation is counted once among the satellites in view.           *)
CountedOnce ==
    \A i, j \in 1..Len(inView) : inView[i][1] = inView[j][1] => i = j

(* The seconds of a date are those of the calendar, leap years and their   *)
(* hundreds included (unix_seconds; a test knows a few dates).             *)
UnixIsTheCalendar ==
    calendar # Unsaid =>
        unix_days(calendar.year, calendar.month, calendar.day) = calendar.days

(* What is made of a stream with losses in it: every whole sentence, once,  *)
(* and a clock that is not ahead.                                           *)
NmeaCorrect ==
    NmeaTypeOK /\ WholeIsTaken /\ GpsClockNotAhead /\ CountedOnce /\ UnixIsTheCalendar
=============================================================================
