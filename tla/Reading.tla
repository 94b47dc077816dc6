------------------------------ MODULE Reading --------------------------------
(***************************************************************************)
(* How what is to be read is laid out in lines of the panel: text from     *)
(* anywhere and the screens' own sentences broken to a width, the typed    *)
(* text over the keyboard, a conversation as lines with what of it has     *)
(* been read, the rows of the lists, and what of a modal is left out where *)
(* it does not fit (core/src/screens.rs, panel/src/keyboard.rs and         *)
(* panel/src/layout.rs).                                                   *)
(*                                                                         *)
(* A character is an "x", a space, a newline or the ellipsis a phone puts  *)
(* for three dots; a word that only its length matters of is that many     *)
(* "x".  The steps make what is to be read: a character or a message more. *)
(***************************************************************************)
EXTENDS Naturals, Sequences, FiniteSets, SequencesExt

CONSTANTS
    Widths,     \* the widths text is broken to
    MaxText,    \* bound: characters of a text
    Titles, Bodies,     \* the titles and the contents of messages
    MaxThread   \* bound: messages in a conversation

ASSUME ReadingAssumption ==
    Widths \subseteq Nat /\ MaxText \in Nat /\ MaxThread \in Nat

VARIABLES
    laid,       \* what is laid out: "text", "typed", "thread", "row" or "modal"
    text,       \* the text
    width,      \* the width it is broken to
    entries,    \* the messages of the conversation, oldest first
    row,        \* a row of a list: [name, age], the name by its length
    modal       \* a modal's groups of lines: [priority, size]

readingVars == <<laid, text, width, entries, row, modal>>

LINE_CHARS == 20
MAX_TEXT_LINES == 16
SENT_INDENT == 2

Lesser(a, b) == IF a < b THEN a ELSE b
Minus(a, b) == IF a > b THEN a - b ELSE 0

-----------------------------------------------------------------------------
(* Text in lines *)

Ascii == {"x", " "}
Characters == Ascii \union {"nl", "dots"}

\* trim, trim_matches
Trimmed(s, blanks) ==
    LET solid == {i \in DOMAIN s : s[i] \notin blanks}
    IN  IF solid = {} THEN << >> ELSE SubSeq(s, Min(solid), Max(solid))

\* Mutation: a character folded to three is counted as one.
cells_One(s) == Len(s)

\* cells: how wide a text is as it is drawn
cells(s) == Len(s) + (2 * Cardinality({i \in DOMAIN s : s[i] = "dots"}))

\* drawable: what is drawn for it
drawable(s) == FlattenSeq([i \in DOMAIN s |-> IF s[i] = "dots" THEN <<".", ".", ".">> ELSE <<s[i]>>])

RECURSIVE Paragraph(_, _), Sentence(_, _), Paragraphs(_)

\* Paragraph::next, to the end: at a space where there is one within the width
\* or just past it, and inside a word where there is none
Paragraph(rest, w) ==
    IF cells(rest) <= w THEN <<rest>>
    ELSE LET cut == Max({k \in 0..Len(rest) : cells(SubSeq(rest, 1, k)) <= w})
             spaces == {i \in 1..cut : rest[i] = " "}
             inside == IF rest[cut + 1] = " " \/ spaces = {} THEN cut ELSE Max(spaces) - 1
             at == IF inside = 0 THEN 1 ELSE inside
         IN  <<Trimmed(SubSeq(rest, 1, at), {" "})>>
               \o Paragraph(Trimmed(SubSeq(rest, at + 1, Len(rest)), {" "}), w)

Paragraphs(s) ==
    LET ends == {i \in DOMAIN s : s[i] = "nl"}
    IN  IF ends = {} THEN <<s>>
        ELSE <<SubSeq(s, 1, Min(ends) - 1)>>
               \o Paragraphs(SubSeq(s, Min(ends) + 1, Len(s)))

wrap_drawn(s, w) ==
    LET ps == Paragraphs(Trimmed(s, {" ", "nl"}))
    IN  FlattenSeq([p \in DOMAIN ps |-> Paragraph(Trimmed(ps[p], {" "}), IF w < 3 THEN 3 ELSE w)])

\* wrap, of screens.rs and of keyboard.rs: the last space within the width or
\* just past it
Sentence(rest, w) ==
    IF rest = << >> \/ Len(rest) <= w THEN IF rest = << >> THEN << >> ELSE <<rest>>
    ELSE LET spaces == {i \in 1..(w + 1) : rest[i] = " "}
             cut == IF spaces = {} THEN w ELSE Max(spaces) - 1
         IN  <<Trimmed(SubSeq(rest, 1, cut), {" "})>>
               \o Sentence(Trimmed(SubSeq(rest, cut + 1, Len(rest)), {" "}), w)

wrap(s, w) == Sentence(Trimmed(s, {" "}), w)

-----------------------------------------------------------------------------
(* The text being typed, and the cursor after it *)

RECURSIVE RunsFrom(_, _, _)

\* runs: characters from + 1 to to; a break eats one space
RunsFrom(s, from, w) ==
    IF Len(s) - from <= w THEN <<[from |-> from, to |-> Len(s)]>>
    ELSE LET spaces == {i \in (from + 1)..(from + w) : s[i + 1] = " "}
             to == IF spaces = {} THEN from + w ELSE Max(spaces)
         IN  <<[from |-> from, to |-> to]>>
               \o RunsFrom(s, IF spaces = {} THEN to ELSE to + 1, w)

runs(s, w) == RunsFrom(Append(s, "_"), 0, w)

\* draw_text: the last of the runs, in so many lines
Shown(s, w, lines) ==
    LET all == runs(s, w)
        keep == Lesser(Lesser(lines, Len(all)), MAX_TEXT_LINES)
    IN  SubSeq(all, Len(all) - keep + 1, Len(all))

\* Layout::of and Geometry::of, on a panel so high: glyphs of 7 rows, lines
\* of 9, bars of 11
lines_in(h) == IF h < 7 THEN 0 ELSE ((h - 7) \div 9) + 1

Geometry(height) ==
    LET top == 13
        bottom == IF Minus(height, 11) < top THEN top ELSE height - 11
        rowH == IF bottom - top >= (4 * 11) + 2 + 7 + 9 THEN 11 ELSE 8
        grid == Minus(bottom, 4 * rowH)
        above == Minus(grid, top)
        rule == lines_in(Minus(above, 2)) >= 2
    IN  [top |-> top, bottom |-> bottom, row_h |-> rowH, grid |-> grid, rule |-> rule,
         lines |-> lines_in(IF rule THEN above - 2 ELSE above),
         visible |-> (bottom - top) \div 9]

\* draw_text, on a panel with the one line: what is left of it beside the count
Digits(n) == CHOOSE d \in 1..7 : n < 10 ^ d /\ (d = 1 \/ n >= 10 ^ (d - 1))
CountX(used, most) == Minus(125, 6 * (Digits(used) + 1 + Digits(most))) + 1
RoomBeside(used, most) == Minus(CountX(used, most), 4 + 6) \div 6

-----------------------------------------------------------------------------
(* Rows of a label and a value, in characters.  An age is so many whole    *)
(* hours and so many seconds, less than 3600.                              *)

NoAge == [hours |-> 0, secs |-> 3600]
Ages == {NoAge} \union
    {[hours |-> h, secs |-> s] : h \in {0, 1, 9, 10, 1193046}, s \in {0, 9, 10, 59, 60, 599, 600, 3599}}

\* age and age_or_dash
age(a) ==
    IF a = NoAge THEN 1
    ELSE IF a.hours > 0 THEN Digits(a.hours) + 2
    ELSE IF a.secs < 60 THEN Digits(a.secs) + 2 ELSE Digits(a.secs \div 60) + 4

\* What of a label is shown, and what is beside it
Row(label, value) == [label |-> label, value |-> value]

\* Mutation: the space between them is forgotten.
PeerLine_NoSpace(r) == Row(Lesser(r.name, LINE_CHARS - age(r.age)), age(r.age))

\* PeerRow::lines, the first
PeerLine(r) == Row(Lesser(r.name, LINE_CHARS - age(r.age) - 1), age(r.age))

\* Conversations::lines
ConversationLine(r) ==
    Row(1 + Lesser(r.name, LINE_CHARS - 1 - age(r.age) - 1), age(r.age))

\* Delivery::word, by its length, and whether there is a Delivery::note
Word == [none |-> 0, queued |-> 6, sent |-> 4, delivered |-> 9, failed |-> 6]

\* Entry::header: "You" and the word for one the board sent
Header(r, word) ==
    LET right == IF word = "none" THEN age(r.age) ELSE Word[word] + 1 + age(r.age)
        who == IF word = "none" THEN r.name ELSE 3
    IN  Row(Lesser(who, Minus(LINE_CHARS, right + 1)), right)

-----------------------------------------------------------------------------
(* A conversation, as lines *)

Entry == [sent : BOOLEAN, note : BOOLEAN, title : Titles, content : Bodies,
          attachment : BOOLEAN, unread : BOOLEAN]

\* Entry::body
Body(e) ==
    LET blank(s) == Trimmed(s, {" ", "nl"}) = << >>
        drawn(s) == IF blank(s) THEN << >>
                    ELSE wrap_drawn(s, IF e.sent THEN LINE_CHARS - SENT_INDENT ELSE LINE_CHARS)
        said == IF e.attachment \/ (blank(e.title) /\ blank(e.content))
                THEN << <<"said">> >> ELSE << >>
    IN  drawn(e.title) \o drawn(e.content) \o said

Line(n, kind, last) == [entry |-> n, kind |-> kind, last |-> last]

\* The lines of message n: a blank line before it belongs to the one above.
LinesOf(es, n) ==
    LET body == Len(Body(es[n]))
    IN  (IF n = 1 THEN << >> ELSE <<Line(n - 1, "blank", FALSE)>>)
          \o <<Line(n, "header", FALSE)>>
          \o (IF es[n].note THEN <<Line(n, "note", FALSE)>> ELSE << >>)
          \o [i \in 1..body |-> Line(n, "body", i = body)]

\* Thread::each
Each(es) ==
    IF es = << >> THEN <<Line(0, "none", FALSE)>>
    ELSE FlattenSeq([n \in DOMAIN es |-> LinesOf(es, n)])

\* The walks over those lines.  Thread::stops, as line numbers from 0
stops(lines) == {i \in 0..(Len(lines) - 1) : lines[i + 1].kind = "header"}

\* usize::MAX, as a line
TheEnd == 1000

\* Thread::first_unread, or else the end
first_unread(es, lines) ==
    LET new == {n \in DOMAIN es : es[n].unread}
    IN  IF new = {} THEN TheEnd
        ELSE Min({i \in stops(lines) : lines[i + 1].entry = Min(new)})

\* Thread::window: the lines in view
window(lines, first, rows) == first..(Lesser(first + rows, Len(lines)) - 1)

\* Mutation: a message is read once its header has been in view.
Passed_Header(line) == line.kind = "header"

Passed(line) == line.last

\* Thread::read_through
read_through(lines, first, rows) ==
    LET ends == {i \in DOMAIN lines : i <= first + rows /\ Passed(lines[i])}
    IN  IF ends = {} THEN 0 ELSE lines[Max(ends)].entry

\* Nav::max_scroll, and where render_with places a conversation opened
max_scroll(lines, rows) == Minus(Len(lines), rows)
placed(es, lines, rows) == Lesser(first_unread(es, lines), max_scroll(lines, rows))

\* Conversation::step, to the right
step(lines, top, rows) ==
    LET below == {s \in stops(lines) : s > top}
    IN  Lesser(IF below = {} THEN TheEnd ELSE Min(below), max_scroll(lines, rows))

-----------------------------------------------------------------------------
(* Modals.  A sentence is the lengths of its words.                        *)

VALUE == 6  REASON == 5  POSITION == 4  CONTEXT == 3  HELP == 2  LABEL == 1  SPACING == 0

Group(priority, size) == [priority |-> priority, size |-> size]
One(priority) == <<Group(priority, 1)>>

Words(lengths) == FlattenSeq([i \in DOMAIN lengths |-> [k \in 1..lengths[i] |-> "x"] \o <<" ">>])

\* Fit::wrapped
Wrapped(priority, lengths) == <<Group(priority, Len(wrap(Words(lengths), LINE_CHARS)))>>

\* ConfigError::message, and Refusal::reason
Messages == {<<9, 2, 7, 7, 3, 11, 3>>, <<9, 2, 3, 3, 3, 4, 3, 2, 6, 4>>, <<9, 7, 2, 3, 5, 4>>,
             <<9, 6, 2, 7, 4>>, <<6, 4, 2, 7, 3>>, <<2, 2, 2, 4, 4, 8, 4, 5>>,
             <<5, 2, 5, 3, 8, 2, 3, 6>>, <<5, 2, 5, 3, 8, 2, 3, 6, 2, 3, 3>>, <<8, 2, 3, 5, 2, 4, 4>>}
Sorries == {<<3, 3, 3, 2, 3, 4, 3, 3, 8, 7>>, <<4, 3, 3, 2, 2, 9, 2, 2, 5>>,
            <<1, 7, 4, 2, 3, 7, 5, 4, 5, 3, 4>>, <<5, 7, 4, 2, 9, 2, 2, 3, 4>>}

\* Editor::lines_in: of a band that has been changed, of a value with steps, or
\* of the frequency's digits; with why it was refused, or not
EditorOf(kind, why) ==
    One(CONTEXT) \o One(VALUE)
      \o (CASE kind = "band" -> <<Group(POSITION, 2)>> \o One(HELP)
            [] kind = "steps" -> One(SPACING) \o One(HELP)
            [] kind = "digits" -> One(POSITION) \o One(HELP) \o One(HELP))
      \o One(CONTEXT)
      \o (IF why = << >> THEN << >>
          ELSE One(SPACING) \o One(LABEL) \o Wrapped(REASON, why))

\* Lock::lines_in and Refusal::lines_in
LockOf(why) ==
    One(VALUE) \o One(SPACING)
      \o Wrapped(HELP, <<2, 3, 3, 5, 2, 3, 8, 4, 2, 4, 2, 3, 5, 4, 3, 6, 2, 11>>)
      \o One(SPACING) \o Wrapped(REASON, why)
SorryOf(why) == One(VALUE) \o One(SPACING) \o Wrapped(REASON, why)

ModalsSet ==
    {EditorOf(kind, why) : kind \in {"band", "steps", "digits"}, why \in Messages \union {<< >>}}
      \union {LockOf(why) : why \in {<<5, 3, 4, 2, 6, 8, 5>>, <<10, 3, 5, 2, 6, 8, 5>>}}
      \union {SorryOf(why) : why \in Sorries}

Total(m, kept) == FoldSet(LAMBDA g, n : n + m[g].size, 0, kept)

\* Mutation: of two that matter the same, the earlier goes.
GoesBefore_Earlier(m, g, h) ==
    m[g].priority < m[h].priority \/ (m[g].priority = m[h].priority /\ g <= h)

\* Fit::emit: what goes first
GoesBefore(m, g, h) ==
    m[g].priority < m[h].priority \/ (m[g].priority = m[h].priority /\ g >= h)

RECURSIVE Fit(_, _, _)
Fit(m, kept, rows) ==
    IF Total(m, kept) <= rows \/ kept = {} THEN kept
    ELSE Fit(m, kept \ {CHOOSE g \in kept : \A h \in kept : GoesBefore(m, g, h)}, rows)

emit(m, rows) == Fit(m, DOMAIN m, rows)

-----------------------------------------------------------------------------
(* What there is to lay out *)

ReadingInit ==
    /\ laid \in {"text", "typed", "thread", "row", "modal"}
    /\ text = << >> /\ entries = << >>
    /\ IF laid \in {"text", "typed"} THEN width \in Widths ELSE width = 0
    /\ IF laid = "row" THEN row \in [name : 0..LINE_CHARS, age : Ages]
       ELSE row = [name |-> 0, age |-> NoAge]
    /\ IF laid = "modal" THEN modal \in ModalsSet ELSE modal = << >>

\* A character more: of a message from anywhere, or typed
Writes(c) ==
    /\ laid = "text" \/ (laid = "typed" /\ c \in Ascii)
    /\ Len(text) < MaxText
    /\ text' = Append(text, c)
    /\ UNCHANGED <<laid, width, entries, row, modal>>

\* A message more in the conversation: what is sent is not unread
Adds(e) ==
    /\ laid = "thread" /\ Len(entries) < MaxThread
    /\ e.sent => ~e.unread /\ e.title = << >> /\ ~e.attachment
    /\ entries' = Append(entries, e)
    /\ UNCHANGED <<laid, text, width, row, modal>>

ReadingNext == (\E c \in Characters : Writes(c)) \/ (\E e \in Entry : Adds(e))

ReadingSpec == ReadingInit /\ [][ReadingNext]_readingVars

-----------------------------------------------------------------------------
(* Properties *)

\* Type correctness.
ReadingTypeOK ==
    /\ text \in Seq(Characters) /\ entries \in Seq(Entry)
    /\ row \in [name : 0..LINE_CHARS, age : Ages]

\* The words of a text
RECURSIVE WordsIn(_)
WordsIn(s) ==
    LET t == Trimmed(s, {" ", "nl"})
        gaps == {i \in DOMAIN t : t[i] \in {" ", "nl"}}
    IN  IF t = << >> THEN << >>
        ELSE IF gaps = {} THEN <<t>>
        ELSE <<SubSeq(t, 1, Min(gaps) - 1)>> \o WordsIn(SubSeq(t, Min(gaps), Len(t)))

\* A text broken into lines is the same text (wrap_drawn): no line is wider as
\* drawn than it may be, nothing but blanks goes, a word that fits on a line
\* is on one line, a blank line stays one, and no line is indented.
TextIsKept ==
    laid = "text" /\ width >= 3 =>
        LET lines == wrap_drawn(text, width)
            words == WordsIn(text)
            again == FlattenSeq([n \in DOMAIN lines |-> WordsIn(lines[n])])
            ps == Paragraphs(Trimmed(text, {" ", "nl"}))
        IN  /\ \A n \in DOMAIN lines :
                /\ Len(drawable(lines[n])) <= width
                /\ lines[n] = Trimmed(lines[n], {" ", "nl"})
            /\ FlattenSeq(again) = FlattenSeq(words)
            /\ (\A n \in DOMAIN words : cells(words[n]) <= width) => again = words
            /\ Cardinality({n \in DOMAIN lines : lines[n] = << >>})
                 = Cardinality({p \in DOMAIN ps : Trimmed(ps[p], {" "}) = << >>})

\* The three ways the code breaks text agree where they can be compared: on
\* the screens' own sentences, which are ASCII.
WrapsAgree ==
    laid = "typed" /\ width >= 3 /\ Trimmed(text, {" "}) # << >> =>
        wrap(text, width) = wrap_drawn(text, width)

\* Every character typed is in a line of its own place, but for one space at a
\* break; no line is too wide, and the cursor is drawn, whatever is left out
\* above it (runs and draw_text).
TypedIsShown ==
    laid = "typed" /\ width > 0 =>
        LET all == runs(text, width)
        IN  /\ all[1].from = 0 /\ all[Len(all)].to = Len(text) + 1
            /\ \A n \in DOMAIN all : all[n].to - all[n].from \in 1..width
            /\ \A n \in 1..(Len(all) - 1) :
                \/ all[n + 1].from = all[n].to
                \/ all[n + 1].from = all[n].to + 1 /\ text[all[n].to + 1] = " "
            /\ \A lines \in 1..3 :
                LET s == Shown(text, width, lines)
                IN  Len(s) <= lines /\ s[Len(s)].to = Len(text) + 1

\* On both panels the grid is whole, under a line of text at least that does
\* not touch it, and the end of the text stops short of the count.
GridIsWhole ==
    laid = "typed" =>
        \A height \in {64, 128} :
            LET g == Geometry(height)
            IN  /\ g.grid >= g.top /\ g.grid + (4 * g.row_h) <= g.bottom /\ g.lines >= 1
                /\ g.top + (9 * (g.lines - 1)) + 7 <= IF g.rule THEN g.grid - 2 ELSE g.grid
                /\ \A used \in {0, 9, 10, 99, 100, 287} :
                    /\ RoomBeside(used, 287) >= 1
                    /\ 4 + (6 * RoomBeside(used, 287)) < CountX(used, 287)

\* A row is as wide as the panel, whatever the name and however long ago: the
\* age whole, a space before it, and of the name what there is room for.
RowsFit ==
    laid = "row" =>
        \A r \in {PeerLine(row), ConversationLine(row)}
                   \union {Header(row, word) : word \in DOMAIN Word} :
            r.label + 1 + r.value <= LINE_CHARS

\* A message counts as read when the whole of it is above the foot of the view
\* or in it, and at the end all are (Thread::each, read_through).
ReadIsPassed ==
    laid = "thread" =>
        LET lines == Each(entries)
            foot == [n \in DOMAIN entries |->
                        Max({i \in DOMAIN lines : lines[i].entry = n /\ lines[i].kind # "blank"})]
        IN  \A rows \in 1..4 : \A first \in 0..max_scroll(lines, rows) :
                LET through == read_through(lines, first, rows)
                IN  /\ {n \in DOMAIN entries : foot[n] <= first + rows} = 1..through
                    /\ first = max_scroll(lines, rows) => through = Len(entries)

\* A conversation opens with its first unread message in view; and Right, from
\* there, shows the start of every later message and gets to the end
\* (first_unread, stops, Conversation::step).
OpensAtTheUnread ==
    laid = "thread" =>
        LET lines == Each(entries)
        IN  \A rows \in 1..4 :
            LET unread == first_unread(entries, lines)
                after1 == placed(entries, lines, rows)
                after2 == step(lines, after1, rows)
                after3 == step(lines, after2, rows)
                after4 == step(lines, after3, rows)
                views == {after1, after2, after3, after4}
            IN  /\ unread # TheEnd => unread \in window(lines, after1, rows)
                /\ Len(entries) <= 3 => after4 = max_scroll(lines, rows)
                /\ \A s \in stops(lines) : s >= after1 =>
                    \E v \in views : s \in window(lines, v, rows)

\* What of a modal is left out matters less than all that is kept, and there
\* was no room for it; the value and the reason, whole, are kept even on four
\* rows, and on the board's own panel all is (Fit).
ReasonOutlasts ==
    laid = "modal" =>
        \A rows \in 0..12 :
            LET kept == emit(modal, rows)
                gone == DOMAIN modal \ kept
            IN  /\ Total(modal, kept) <= rows
                /\ \A g \in gone, k \in kept :
                    modal[g].priority < modal[k].priority
                      \/ (modal[g].priority = modal[k].priority /\ g > k)
                /\ gone # {} =>
                    \E g \in gone : Total(modal, kept \union {g}) > rows
                /\ rows >= Geometry(64).visible =>
                    \A g \in DOMAIN modal : modal[g].priority >= REASON => g \in kept
                /\ rows >= Geometry(128).visible => gone \subseteq {g \in gone : modal[g].priority = SPACING}

\* What is laid out can be read: all of it, in its place, and no wider than
\* the panel.
ReadingCorrect ==
    /\ ReadingTypeOK /\ TextIsKept /\ WrapsAgree /\ TypedIsShown /\ GridIsWhole
    /\ RowsFit /\ ReadIsPassed /\ OpensAtTheUnread /\ ReasonOutlasts
=============================================================================
