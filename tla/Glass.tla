-------------------------------- MODULE Glass --------------------------------
(***************************************************************************)
(* What is on the glass: the frame the loop keeps of what the controller   *)
(* has been sent (Frame, core/src/sh1107.rs), the pages of it that have    *)
(* changed, the controller's own memory behind an I2C bus that fails       *)
(* (Panel, src/display.rs), the screen that sleeps and wakes (Ui,          *)
(* src/bin/rnode.rs), and the host's own picture drawn over the panel and  *)
(* read back (External and read_display, core/src/rnode/display.rs).       *)
(*                                                                         *)
(* A picture is the set of its lit pixels, <<x, y>>.  What a page of the   *)
(* interface looks like is left out: it is one of Screens.                 *)
(***************************************************************************)
EXTENDS Naturals, FiniteSets

CONSTANTS
    Width, Height,      \* WIDTH, HEIGHT
    PageHeight,         \* PAGE_HEIGHT
    AtOnce,             \* pages sent in one pass of the loop
    Interval,           \* RENDER_INTERVAL, in passes
    Screens,            \* pictures the interface may draw
    Torn,               \* what a page of the controller's memory is when unknown
    NoPicture,          \* nothing committed yet
    MaxFaults,          \* bound: transfers that fail
    MaxGestures,        \* bound: presses, alerts and menu choices
    MaxLines            \* bound: lines the host writes

ASSUME GlassAssumption ==
    /\ {Width, Height, PageHeight, AtOnce, Interval, MaxFaults, MaxGestures,
        MaxLines} \subseteq Nat
    /\ Width % 2 = 0 /\ Height % 2 = 0 /\ PageHeight > 0
    /\ Height % PageHeight = 0
    /\ Screens \subseteq SUBSET ((0..(Width - 1)) \X (0..(Height - 1)))
    \* A whole screen goes out between two renders.
    /\ AtOnce > 0 /\ Interval * AtOnce >= Height \div PageHeight

VARIABLES
    panel,      \* "off", "up", or "none": no Super IO, or its init failed
    memory,     \* the controller's memory, a set of pixels for each page or Torn
    lit,        \* the controller's display is on
    live,       \* Ui::live: its picture
    dirty,      \* Ui::live: its dirty pages
    screenAsleep,     \* Ui::asleep
    elapsed,    \* passes since Ui::last_render
    picture,    \* External::buf
    enabled,    \* External::enabled
    committed,  \* the host's picture when it was last drawn, or NoPicture
    faults, touched, lines

glassVars == <<panel, memory, lit, live, dirty, screenAsleep, elapsed, picture,
               enabled, committed, faults, touched, lines>>

Pages == 0..((Height \div PageHeight) - 1)
FB_WIDTH == Width \div 2
FB_HEIGHT == Height \div 2
Panel == (0..(Width - 1)) \X (0..(Height - 1))

-----------------------------------------------------------------------------
(* The frame *)

\* ram_position: the page axis runs down the panel
PageOf(px) == px[2] \div PageHeight
page(f, p) == {px \in f : PageOf(px) = p}

\* copy_from: only the pages that differ
Differ(f, g) == {p \in Pages : page(f, p) # page(g, p)}

-----------------------------------------------------------------------------
(* The host's picture *)

\* Mutation: a line past the end is stored.
Stored_Anywhere(y) == TRUE

\* write_line: stored or refused
Stored(y) == y < FB_HEIGHT

\* The picture over the whole panel, each pixel two by two
draw == {px \in Panel : <<px[1] \div 2, px[2] \div 2>> \in picture}

\* Mutation: the top half of the panel is all that is read.
read_display_Top(f) ==
    {px \in (0..(Width - 1)) \X (0..(FB_HEIGHT - 1)) : px \in f}

\* Pairs of rows, lit when either is
read_display(f) ==
    {px \in (0..(Width - 1)) \X (0..(FB_HEIGHT - 1)) :
        \E dy \in {0, 1} : <<px[1], px[2] * 2 + dy>> \in f}

-----------------------------------------------------------------------------
(* The panel *)

\* Mutation: a clean page counts against the pages a pass may send.
Batch_First(d) == {p \in d : p < AtOnce}

\* The pages flush_pages goes through: the first AtOnce of the dirty ones
Batch(d) == {p \in d : Cardinality({q \in d : q < p}) < AtOnce}

FirstOf(S, n) == {p \in S : Cardinality({q \in S : q < p}) < n}

\* Mutation: a page is marked sent before its data is.
MarkedSent_Early(batch, n) == FirstOf(batch, n + 1)

\* The pages of a batch marked sent when the transfer after the nth fails
MarkedSent(batch, n) == FirstOf(batch, n)

\* Panel::flush_pages: the transfer after n pages fails, or none does.  The page
\* that failed, if it was its data that was broken off and not the cursor's
\* move, holds nobody knows what.
flush_pages(f, d) ==
    \E n \in 0..Cardinality(Batch(d)) :
        LET fails == n < Cardinality(Batch(d))
            sent == FirstOf(Batch(d), n)
            failed == FirstOf(Batch(d), n + 1) \ sent
        IN  /\ fails => faults < MaxFaults
            /\ faults' = IF fails THEN faults + 1 ELSE faults
            /\ dirty' = d \ MarkedSent(Batch(d), n)
            /\ \E torn \in {{}, failed} :
                memory' = [p \in Pages |->
                    IF p \in sent THEN page(f, p)
                    ELSE IF p \in torn THEN Torn ELSE memory[p]]

\* Panel::power, on a bus that may fail: the failure is logged
PowerPanel(on) ==
    IF panel = "up"
    THEN \/ lit' = on /\ UNCHANGED faults
         \/ /\ faults < MaxFaults
            /\ faults' = faults + 1 /\ UNCHANGED lit
    ELSE UNCHANGED <<lit, faults>>

\* The boost, the scan for an address that takes writes, the controller's
\* configuration: any of them may leave the board without a panel for good.
\* A reset leaves the controller's memory as it was.
PanelUp ==
    /\ panel = "off"
    /\ \/ panel' = "up" /\ lit' = TRUE
       \/ panel' = "none" /\ lit' \in BOOLEAN
    /\ UNCHANGED <<memory, live, dirty, screenAsleep, elapsed, picture, enabled,
                   committed, faults, touched, lines>>

-----------------------------------------------------------------------------
(* The loop *)

due == elapsed = Interval

\* One pass: draw and commit when it is time, then send, unless asleep.
Pass ==
    /\ panel = "up"
    /\ \E s \in Screens :
        LET scratch == IF enabled THEN draw ELSE s
            marked == IF due THEN dirty \cup Differ(live, scratch) ELSE dirty
        IN  /\ live' = IF due THEN scratch ELSE live
            /\ committed' = IF due THEN IF enabled THEN picture ELSE NoPicture
                                   ELSE committed
            /\ IF screenAsleep \/ marked = {}
               THEN dirty' = marked /\ UNCHANGED <<memory, faults>>
               ELSE flush_pages(live', marked)
    /\ elapsed' = IF due THEN 0 ELSE elapsed + 1
    /\ UNCHANGED <<panel, lit, screenAsleep, picture, enabled, touched, lines>>

\* Ui::drain and wake: a press, that a sleeping screen swallows; or Ui::rouse,
\* something that happened
Woken ==
    /\ panel # "off" /\ touched < MaxGestures
    /\ touched' = touched + 1
    /\ screenAsleep' = FALSE
    /\ IF screenAsleep THEN PowerPanel(TRUE) ELSE UNCHANGED <<lit, faults>>
    /\ elapsed' = Interval
    /\ UNCHANGED <<panel, memory, live, dirty, picture, enabled, committed, lines>>

\* Ui::sleep, from the menu or after IDLE_SLEEP untouched
PanelSleep ==
    /\ panel # "off" /\ ~screenAsleep
    /\ screenAsleep' = TRUE
    /\ PowerPanel(FALSE)
    /\ UNCHANGED <<panel, memory, live, dirty, elapsed, picture, enabled,
                   committed, touched, lines>>

\* Redraw, from the menu
mark_all_dirty ==
    /\ panel # "off" /\ ~screenAsleep /\ touched < MaxGestures
    /\ touched' = touched + 1
    /\ dirty' = Pages
    /\ elapsed' = Interval
    /\ UNCHANGED <<panel, memory, lit, live, screenAsleep, picture, enabled,
                   committed, faults, lines>>

\* CMD_FB_WRITE, the line any byte
write_line ==
    /\ panel # "off" /\ lines < MaxLines
    /\ lines' = lines + 1
    /\ \E y \in 0..FB_HEIGHT, row \in SUBSET (0..(FB_WIDTH - 1)) :
        picture' = IF Stored(y)
                   THEN {px \in picture : px[2] # y} \cup {<<x, y>> : x \in row}
                   ELSE picture
    /\ UNCHANGED <<panel, memory, lit, live, dirty, screenAsleep, elapsed, enabled,
                   committed, faults, touched>>

\* CMD_FB_EXT
set_enabled ==
    /\ panel # "off" /\ lines < MaxLines
    /\ lines' = lines + 1
    /\ enabled' = ~enabled
    /\ UNCHANGED <<panel, memory, lit, live, dirty, screenAsleep, elapsed, picture,
                   committed, faults, touched>>

\* Frame::new: dark, and all of it to be sent
GlassInit ==
    /\ panel = "off" /\ memory = [p \in Pages |-> Torn] /\ lit = FALSE
    /\ live = {} /\ dirty = Pages
    /\ screenAsleep = FALSE /\ elapsed = Interval
    /\ picture = {} /\ enabled = FALSE /\ committed = NoPicture
    /\ faults = 0 /\ touched = 0 /\ lines = 0

GlassNext ==
    \/ PanelUp \/ Pass \/ Woken \/ PanelSleep \/ mark_all_dirty \/ write_line
    \/ set_enabled

GlassSpec == GlassInit /\ [][GlassNext]_glassVars

-----------------------------------------------------------------------------
(* The types of the state: the host's picture keeps to its frame. *)
GlassTypeOK ==
    /\ panel \in {"off", "up", "none"}
    /\ \A p \in Pages : memory[p] = Torn \/ memory[p] \in SUBSET Panel
    /\ {lit, screenAsleep, enabled} \subseteq BOOLEAN
    /\ live \in SUBSET Panel /\ dirty \subseteq Pages
    /\ elapsed \in 0..Interval
    /\ picture \subseteq (0..(FB_WIDTH - 1)) \X (0..(FB_HEIGHT - 1))
    /\ faults \in 0..MaxFaults /\ touched \in 0..MaxGestures
    /\ lines \in 0..MaxLines

(* A page the frame has as sent is on the glass as the frame has it: over  *)
(* failed transfers, sleeps, redraws and commits that bring a page back to *)
(* what it was (Frame::mark_sent after the data, copy_from marking what    *)
(* differs from what was sent or is still to be).                          *)
CleanIsShown == \A p \in Pages \ dirty : memory[p] = page(live, p)

(* A host that reads the display back after its picture was drawn gets the *)
(* whole of it, each pixel doubled sideways (draw and read_display, which  *)
(* folds rows; a test reads a few pixels).                                 *)
PictureComesBack ==
    committed # NoPicture =>
        read_display(live) =
            {px \in (0..(Width - 1)) \X (0..(FB_HEIGHT - 1)) :
                <<px[1] \div 2, px[2]>> \in committed}

(* A lit screen that keeps being drawn is, over and over, all sent: the    *)
(* pages at the bottom are not starved by those at the top, once the       *)
(* presses and the bus's failures end (flush_pages, two pages a pass).     *)
ShownInTheEnd == []<>(panel = "up" => dirty = {} \/ screenAsleep)

(* What the glass shows: what was drawn, or what is known to be yet to be   *)
(* sent, whatever the bus, a sleep or a host's picture did in between.      *)
GlassCorrect == GlassTypeOK /\ CleanIsShown /\ PictureComesBack
=============================================================================
