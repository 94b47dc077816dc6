-------------------------------- MODULE Panel --------------------------------
(***************************************************************************)
(* The interface on the panel: the presses the pad has queued, the         *)
(* navigator (panel/src/nav.rs) over oxinode's screens, menus, keyboard,   *)
(* editor and notices (core/src/ui.rs, panel/src/keyboard.rs), what the    *)
(* renderer tells it (core/src/screens.rs, panel/src/draw.rs), and the     *)
(* part of the modem loop that drains, performs and draws (Ui and perform  *)
(* in src/bin/rnode.rs).                                                   *)
(*                                                                         *)
(* A message is who it is with, which way it went and whether it has been  *)
(* read; on the panel it is Height lines and a blank one before the next.  *)
(* The keyboard's characters, and shift, are one kind of key.  An editor   *)
(* holds a legal value or an illegal one.                                  *)
(***************************************************************************)
EXTENDS Naturals, Sequences, SequencesExt, FiniteSets

CONSTANTS
    Peer,       \* who may be heard and written to
    Strip,      \* SCREENS: the screens of this image, in strip order
    Rows,       \* lines that fit between the bars
    Height,     \* lines of a message, its header and its last one included
    Plain,      \* how many lines an ordinary screen may have
    KeyGrid,    \* KEYS: rows of "char", "send" and "quit"
    Limit,      \* MESSAGE_MAX
    Queue,      \* pad::QUEUE
    MaxLog      \* bound: messages received and written

Input == {"Left", "Right", "Up", "Down", "Select", "Back"}
Screen == {"Home", "Messages", "Peers", "Radio", "Bluetooth", "Position", "System"}
NoOne == "no one"

ASSUME PanelAssumption ==
    /\ Strip \in Seq(Screen) /\ Len(Strip) > 0
    /\ Rows \in Nat \ {0} /\ Height \in Nat \ {0, 1} /\ Plain \subseteq Nat \ {0}
    /\ KeyGrid \in Seq(Seq({"char", "send", "quit"})) /\ Len(KeyGrid) > 0
    /\ \A r \in 1..Len(KeyGrid) : Len(KeyGrid[r]) = Len(KeyGrid[1])
    /\ Len(KeyGrid[1]) > 0
    /\ Limit \in Nat \ {0} /\ Queue \in Nat \ {0}
    /\ MaxLog \in Nat
    /\ NoOne \notin Peer

VARIABLES
    stage,      \* "drain": before the pad is looked at; "perform": after
    nav,        \* Nav
    chosen,     \* what the presses of this pass chose, yet to be done
    asleep,     \* Ui::asleep
    due,        \* the next drawing has been brought forward to this pass
    touched,    \* a press or a message in this pass: not idle
    arrived,    \* a message came since the loop last looked
    log,        \* the messages kept, both ways, oldest first
    peers,      \* the peers heard, latest first
    drawn,      \* drawn and drawn_peers: the lists as last drawn
    face        \* whose line the page last drawn had highlighted

panelVars == <<stage, nav, chosen, asleep, due, touched, arrived, log, peers, drawn, face>>

Least(a, b) == IF a < b THEN a ELSE b
Less(a, b) == IF a > b THEN a - b ELSE 0

----------------------------------------------------------------------------
(* The screens and their menus.  "None" is an item that only closes.       *)

Lists == {"Messages", "Peers"}

MenuOf(screen) ==
    IF screen = "Home" THEN <<"None", "SleepScreen", "Redraw", "Announce">>
    ELSE IF screen = "Radio"
         THEN <<"None", "Edit", "ToggleRadio", "SaveRadioConfig", "ResetRadioConfig">>
    ELSE IF screen = "Bluetooth" THEN <<"None", "ForgetBonds">>
    ELSE IF screen = "Position" THEN <<"None", "ToggleGps">>
    ELSE IF screen = "System" THEN <<"None", "Reboot", "Bootloader", "ToggleAlert">>
    ELSE <<>>

ReplyMenu == <<"None", "Compose", "Reply", "SendPosition", "RetryFailed">>

(* Action::changes_the_radio *)
ChangesTheRadio ==
    {"ToggleRadio", "ResetRadioConfig", "Edit", "Set", "Announce"}

----------------------------------------------------------------------------
(* Nav.  A place is where the view is; a detail is a conversation, with    *)
(* the place of the list under it.                                         *)

Top == [scroll |-> 0, lines |-> 0, selected |-> 0, entries |-> 0, per |-> 1]

Bare == [kind |-> "none"]
Menu(i) == [kind |-> "menu", item |-> i]
Modal(m) == [kind |-> m]

(* Keyboard::new *)
Keys == [kind |-> "compose", mode |-> "Typing", len |-> 0, row |-> 1, col |-> 1]

Closed == [peer |-> NoOne, count |-> 0, placed |-> FALSE, toEnd |-> FALSE, under |-> Top]

NewNav == [screen |-> 1, over |-> Bare, place |-> Top, visible |-> 0, detail |-> Closed]

Current(n) == Strip[n.screen]
InThread(n) == n.detail.peer # NoOne
IsList(n) == ~InThread(n) /\ Current(n) \in Lists
HasHighlight(n) == IsList(n) /\ n.place.entries > 0
ItemsOf(n) == IF InThread(n) THEN ReplyMenu ELSE MenuOf(Current(n))
MaxScroll(n) == Less(n.place.lines, n.visible)

ScrolledTo(n, line) == [n EXCEPT !.place.scroll = Least(line, MaxScroll(n))]

Followed_OneLine(n) ==
    LET top == n.place.selected * n.place.per
    IN  IF top < n.place.scroll THEN ScrolledTo(n, top)
        ELSE IF n.visible > 0 /\ top + 1 > n.place.scroll + n.visible
             THEN ScrolledTo(n, Less(top + 1, n.visible))
        ELSE ScrolledTo(n, n.place.scroll)

(* Nav::follow: the whole of the highlighted entry in view. *)
Followed(n) ==
    LET top  == n.place.selected * n.place.per
        foot == top + n.place.per
    IN  IF top < n.place.scroll THEN ScrolledTo(n, top)
        ELSE IF n.visible > 0 /\ foot > n.place.scroll + n.visible
             THEN ScrolledTo(n, Less(foot, n.visible))
        ELSE ScrolledTo(n, n.place.scroll)

(* Nav::set_content *)
WithContent(n, lines) ==
    LET m == [n EXCEPT !.place.lines = lines, !.visible = Rows]
    IN  ScrolledTo(m, m.place.scroll)

(* Nav::set_entries_of *)
WithEntries(n, entries, per) ==
    LET m == [n EXCEPT !.place.entries = entries, !.place.per = per,
                       !.place.selected = Least(@, Less(entries, 1))]
    IN  IF ~IsList(n) THEN n ELSE IF entries > 0 THEN Followed(m) ELSE m

(* Nav::open_detail and close_detail *)
Opened(n, p) ==
    [n EXCEPT !.detail = [Closed EXCEPT !.peer = p,
                            !.under = IF InThread(n) THEN n.detail.under ELSE n.place],
              !.place = Top, !.over = Bare]

ClosedDetail(n) ==
    [n EXCEPT !.place = n.detail.under, !.detail = Closed, !.over = Bare]

Over(n, o) == [n EXCEPT !.over = o]

(* What one press did: the navigator after it, and what it chose. *)
Did(n, act) == [nav |-> n, act |-> act]

(* Where message k of a thread starts, and how long a thread of k is. *)
StopOf(k) == (k - 1) * (Height + 1)
ThreadLines(k) == IF k = 0 THEN 1 ELSE k * (Height + 1) - 1

(* Conversation::step, by message; the view is clamped by the navigator. *)
Stepped(n, forward) ==
    LET top   == n.place.scroll
        stops == {StopOf(k) : k \in 1..n.detail.count}
        ahead == {s \in stops : s > top}
        behind == {s \in stops : s < top}
        to == IF forward
              THEN IF ahead = {} THEN MaxScroll(n) ELSE CHOOSE s \in ahead : \A t \in ahead : s <= t
              ELSE IF behind = {} THEN 0 ELSE CHOOSE s \in behind : \A t \in behind : s >= t
    IN  ScrolledTo(n, to)

(* Nav::browsing, in a conversation and on a screen. *)
InConversation(n, key) ==
    LET top == n.place.scroll
    IN  IF key \in {"Left", "Right"} THEN Did(Stepped(n, key = "Right"), "None")
        ELSE IF key = "Up" THEN Did([n EXCEPT !.place.scroll = Less(top, 1)], "None")
        ELSE IF key = "Down" THEN Did(ScrolledTo(n, top + 1), "None")
        ELSE IF key = "Select" THEN Did(Over(n, Menu(1)), "None")
        ELSE Did(ClosedDetail(n), "None")

OnScreen(n, key) ==
    LET count == Len(Strip)
        place == n.place
    IN  IF key = "Left"
        THEN Did([n EXCEPT !.screen = IF @ = 1 THEN count ELSE @ - 1, !.place = Top], "None")
        ELSE IF key = "Right"
        THEN Did([n EXCEPT !.screen = IF @ = count THEN 1 ELSE @ + 1, !.place = Top], "None")
        ELSE IF key = "Up"
        THEN IF HasHighlight(n)
             THEN Did(Followed([n EXCEPT !.place.selected = Less(@, 1)]), "None")
             ELSE Did([n EXCEPT !.place.scroll = Less(@, 1)], "None")
        ELSE IF key = "Down"
        THEN IF HasHighlight(n)
             THEN Did(Followed([n EXCEPT !.place.selected = Least(@ + 1, place.entries - 1)]), "None")
             ELSE Did(ScrolledTo(n, place.scroll + 1), "None")
        ELSE IF key = "Select"
        THEN IF HasHighlight(n) THEN Did(n, "Open")
             ELSE IF ItemsOf(n) # <<>> THEN Did(Over(n, Menu(1)), "None")
             ELSE Did(n, "None")
        ELSE Did(n, "None")

(* Nav::in_menu: it wraps, and shuts on the way out. *)
InMenu(n, key) ==
    LET i == n.over.item
        count == Len(ItemsOf(n))
    IN  IF key = "Up" THEN Did(Over(n, Menu(IF i = 1 THEN count ELSE i - 1)), "None")
        ELSE IF key = "Down" THEN Did(Over(n, Menu(IF i = count THEN 1 ELSE i + 1)), "None")
        ELSE IF key = "Back" THEN Did(Over(n, Bare), "None")
        ELSE IF key = "Select" THEN Did(Over(n, Bare), ItemsOf(n)[i])
        ELSE Did(n, "None")

----------------------------------------------------------------------------
(* Keyboard::handle.  Nothing is a key while a message is being sent.      *)

Wrapped(i, by, size) == 1 + ((i - 1 + by) % size)

Moved(kb, rows, cols) ==
    [kb EXCEPT !.row = Wrapped(@, rows, Len(KeyGrid)), !.col = Wrapped(@, cols, Len(KeyGrid[1]))]

Pressed_NoLimit(n, kb) ==
    LET key == KeyGrid[kb.row][kb.col]
    IN  IF key = "char" THEN Did(Over(n, [kb EXCEPT !.len = @ + 1]), "None")
        ELSE IF key = "send"
        THEN IF kb.len = 0 THEN Did(n, "None")
             ELSE Did(Over(n, [kb EXCEPT !.mode = "Sending"]), "SendTyped")
        ELSE Did(Over(n, Bare), "None")

(* Keyboard::press *)
Pressed(n, kb) ==
    LET key == KeyGrid[kb.row][kb.col]
    IN  IF key = "char" THEN Did(Over(n, [kb EXCEPT !.len = Least(@ + 1, Limit)]), "None")
        ELSE IF key = "send"
        THEN IF kb.len = 0 THEN Did(n, "None")
             ELSE Did(Over(n, [kb EXCEPT !.mode = "Sending"]), "SendTyped")
        ELSE IF kb.len = 0 THEN Did(Over(n, Bare), "None")
             ELSE Did(Over(n, [kb EXCEPT !.mode = "Quitting"]), "None")

Typed(n, key) ==
    LET kb == n.over
        rows == Len(KeyGrid)
        cols == Len(KeyGrid[1])
    IN  IF key = "Select" THEN Pressed(n, kb)
        ELSE IF key = "Back"
        THEN Did(Over(n, IF kb.len = 0 THEN Bare ELSE [kb EXCEPT !.len = @ - 1]), "None")
        ELSE Did(Over(n, IF key = "Up" THEN Moved(kb, rows - 1, 0)
                         ELSE IF key = "Down" THEN Moved(kb, 1, 0)
                         ELSE IF key = "Left" THEN Moved(kb, 0, cols - 1)
                         ELSE Moved(kb, 0, 1)), "None")

OnKeyboard(n, key) ==
    LET kb == n.over
    IN  IF kb.mode = "Sending" THEN Did(n, "None")
        ELSE IF kb.mode = "Refused" THEN Did(Over(n, [kb EXCEPT !.mode = "Typing"]), "None")
        ELSE IF kb.mode = "Quitting"
        THEN IF key = "Select" THEN Did(Over(n, Bare), "None")
             ELSE IF key = "Back" THEN Did(Over(n, [kb EXCEPT !.mode = "Typing"]), "None")
             ELSE Did(n, "None")
        ELSE Typed(n, key)

(* Editor: up and down change the value, select confirms a legal one and   *)
(* keeps an illegal one with the reason, back cancels.                     *)
Editor(legal) == [kind |-> "editor", legal |-> legal]

InEditor(n, key) ==
    IF key = "Up" THEN Did(Over(n, Editor(FALSE)), "None")
    ELSE IF key = "Down" THEN Did(Over(n, Editor(TRUE)), "None")
    ELSE IF key = "Back" THEN Did(Over(n, Bare), "None")
    ELSE IF key = "Select" /\ n.over.legal THEN Did(Over(n, Bare), "Set")
    ELSE Did(n, "None")

(* Nav::handle; any key closes a notice. *)
HandleKey(n, key) ==
    IF n.over.kind = "menu" THEN InMenu(n, key)
    ELSE IF n.over.kind = "compose" THEN OnKeyboard(n, key)
    ELSE IF n.over.kind = "editor" THEN InEditor(n, key)
    ELSE IF n.over.kind \in {"notice", "refused"} THEN Did(Over(n, Bare), "None")
    ELSE IF InThread(n) THEN InConversation(n, key)
    ELSE OnScreen(n, key)

----------------------------------------------------------------------------
(* What the node has: Station::conversations and entries.                  *)

(* The messages of a conversation, and which of them message i is. *)
With(p) == {i \in 1..Len(log) : log[i].peer = p}
CountWith(p) == Cardinality(With(p))
Number(i) == Cardinality({j \in With(log[i].peer) : j <= i})

ToFront(s, p) ==
    LET at == {i \in 1..Len(s) : s[i] = p}
    IN  <<p>> \o (IF at = {} THEN s ELSE RemoveAt(s, CHOOSE i \in at : TRUE))

(* Who has written or been written to, the latest first. *)
Conversations ==
    LET upto[i \in 0..Len(log)] ==
            IF i = 0 THEN <<>> ELSE ToFront(upto[i-1], log[i].peer)
    IN  upto[Len(log)]

(* Which peer a line of the lists as last drawn is. *)
LineOf(n, lists) ==
    LET rows == lists[Current(n)]
    IN  IF HasHighlight(n) /\ n.place.selected < Len(rows)
        THEN rows[n.place.selected + 1] ELSE NoOne

----------------------------------------------------------------------------
(* Ui::drain.  Every press that is waiting is handled before anything any  *)
(* of them chose is done; a dark panel spends the first on waking.  The    *)
(* conversation a choice was made in, and the line that was on the panel,  *)
(* are kept beside it for the properties.                                  *)
Handled(n, keys) ==
    LET one(st, i) ==
            LET r == HandleKey(st.nav, keys[i])
            IN  [nav |-> r.nav,
                 acts |-> IF r.act = "None" THEN st.acts
                          ELSE Append(st.acts, [act |-> r.act, peer |-> st.nav.detail.peer,
                                                line |-> face, alone |-> Len(keys) = 1])]
        run[i \in 0..Len(keys)] ==
            IF i = 0 THEN [nav |-> n, acts |-> <<>>] ELSE one(run[i-1], i)
    IN  run[Len(keys)]

Drained(keys) ==
    LET r == Handled(nav, IF asleep THEN Tail(keys) ELSE keys)
    IN  nav' = r.nav /\ chosen' = r.acts /\ due' = TRUE

(* The presses the pad has sent since the last pass, which only this looks *)
(* at; then the rouse if a message came.                                   *)
Drain(keys) ==
    /\ stage = "drain" /\ stage' = "perform"
    /\ IF keys = <<>>
       THEN UNCHANGED <<nav, chosen>> /\ due' = (due \/ arrived)
       ELSE Drained(keys)
    /\ asleep' = (asleep /\ keys = <<>> /\ ~arrived)
    /\ touched' = (keys # <<>> \/ arrived)
    /\ arrived' = FALSE
    /\ UNCHANGED <<log, peers, drawn, face>>

----------------------------------------------------------------------------
(* What was chosen is done, one at a time.                                 *)

Refuse_Notice(n) == Over(n, Modal("refused"))

(* NavExt::refuse: over a typed message the keyboard says it. *)
Refuse(n) ==
    IF n.over.kind = "compose" THEN Over(n, [n.over EXCEPT !.mode = "Refused"])
    ELSE Over(n, Modal("refused"))

Written_StaysOpen(n) ==
    IF InThread(n) THEN [n EXCEPT !.detail.toEnd = TRUE] ELSE n

(* NavExt::written: the keyboard closes and the thread shows its end. *)
Written(n) ==
    LET m == IF n.over.kind = "compose" THEN Over(n, Bare) ELSE n
    IN  IF InThread(m) THEN [m EXCEPT !.detail.toEnd = TRUE] ELSE m

NextChoice == Head(chosen)

Doing(acts) == /\ stage = "perform" /\ chosen # <<>> /\ NextChoice.act \in acts
               /\ chosen' = Tail(chosen)

Elsewhere == <<stage, touched, arrived, peers, drawn, face>>

Addressee_Newest == IF Conversations = <<>> THEN nav.detail.peer ELSE Head(Conversations)

Addressee == nav.detail.peer

(* A message is written to the peer whose conversation is open.  It is     *)
(* refused when every message kept is on its way, and with no fix for a    *)
(* position; with no conversation open nothing is done at all.             *)
WriteMessage ==
    /\ Doing({"Reply", "SendTyped", "SendPosition"})
    /\ LET act == NextChoice.act
           p == Addressee
       IN  \/ /\ InThread(nav) /\ Len(log) < MaxLog
              /\ (act = "SendTyped") => nav.over.kind = "compose"
              /\ log' = Append(log, [peer |-> p, read |-> TRUE])
              /\ nav' = Written(nav)
           \/ /\ InThread(nav)
              /\ (act = "SendTyped") => nav.over.kind = "compose"
              /\ nav' = Refuse(nav) /\ UNCHANGED log
           \/ /\ ~InThread(nav) \/ (act = "SendTyped" /\ nav.over.kind # "compose")
              /\ UNCHANGED <<nav, log>>
    /\ UNCHANGED <<Elsewhere, asleep, due>>

RetryFailed ==
    /\ Doing({"RetryFailed"})
    /\ nav' \in {nav} \union (IF InThread(nav) THEN {Refuse(nav)} ELSE {})
    /\ UNCHANGED <<Elsewhere, asleep, due, log>>

LineChosen_Now ==
    LET rows == [drawn EXCEPT !["Messages"] = Conversations, !["Peers"] = peers]
    IN  LineOf(nav, rows)

(* Which peer the highlighted line is, as the lists were last drawn. *)
LineChosen == LineOf(nav, drawn)

OpenConversation ==
    /\ Doing({"Open"})
    /\ nav' = IF LineChosen = NoOne THEN nav ELSE Opened(nav, LineChosen)
    /\ UNCHANGED <<Elsewhere, asleep, due, log>>

(* Action::Compose: the keyboard opens over whatever is there. *)
Compose ==
    /\ Doing({"Compose"})
    /\ nav' = Over(nav, Keys)
    /\ UNCHANGED <<Elsewhere, asleep, due, log>>

(* perform, when a host has the radio, which is asked anew for each. *)
HostHasIt ==
    /\ Doing(ChangesTheRadio)
    /\ nav' = Over(nav, Modal("notice"))
    /\ UNCHANGED <<Elsewhere, asleep, due, log>>

Edit ==
    /\ Doing({"Edit"})
    /\ nav' = Over(nav, Editor(TRUE))
    /\ UNCHANGED <<Elsewhere, asleep, due, log>>

(* What the radio, the record, the GPS and the bonds make of it is not the *)
(* interface's.                                                            *)
Otherwise ==
    /\ Doing((ChangesTheRadio \ {"Edit"})
             \union {"SaveRadioConfig", "ForgetBonds", "ToggleGps", "ToggleAlert"})
    /\ UNCHANGED <<nav, Elsewhere, asleep, due, log>>

Redraw ==
    /\ Doing({"Redraw"}) /\ due' = TRUE
    /\ UNCHANGED <<nav, Elsewhere, asleep, log>>

SleepScreen ==
    /\ Doing({"SleepScreen"}) /\ asleep' = TRUE
    /\ UNCHANGED <<nav, Elsewhere, due, log>>

(* Either restart: what the panel, the lists and the node had is gone. *)
Restart ==
    /\ stage = "perform" /\ chosen # <<>> /\ NextChoice.act \in {"Reboot", "Bootloader"}
    /\ stage' = "drain" /\ nav' = NewNav /\ chosen' = <<>>
    /\ asleep' = FALSE /\ due' = TRUE /\ touched' = FALSE /\ arrived' = FALSE
    /\ log' = <<>> /\ peers' = <<>>
    /\ drawn' = [l \in Lists |-> <<>>] /\ face' = NoOne

Perform ==
    \/ WriteMessage \/ RetryFailed \/ OpenConversation \/ Compose \/ HostHasIt
    \/ Edit \/ Otherwise \/ Redraw \/ SleepScreen \/ Restart

----------------------------------------------------------------------------
(* screens::render_with, and page_of under it.  A modal leaves the view    *)
(* alone; a thread is placed at its first unread message the first time    *)
(* and at its end after something was written.                             *)

FirstUnread(p) ==
    LET unread == {i \in With(p) : ~log[i].read}
    IN  IF unread = {} THEN ThreadLines(CountWith(p))
        ELSE StopOf(Number(CHOOSE i \in unread : \A j \in unread : i <= j))

DrawnThread(n) ==
    LET p == n.detail.peer
        total == ThreadLines(CountWith(p))
        m == WithContent(n, total)
        placed == IF ~n.detail.placed THEN ScrolledTo(m, FirstUnread(p))
                  ELSE IF n.detail.toEnd THEN ScrolledTo(m, total) ELSE m
    IN  [placed EXCEPT !.detail.count = CountWith(p),
                       !.detail.placed = TRUE, !.detail.toEnd = FALSE]

ListLines == [Messages |-> 1, Peers |-> 2]

DrawnScreen(n, lists, plain) ==
    LET screen == Current(n)
    IN  IF screen \notin Lists THEN WithContent(n, plain)
        ELSE IF lists[screen] = <<>> THEN WithEntries(WithContent(n, 1), 0, 1)
        ELSE WithEntries(WithContent(n, Len(lists[screen]) * ListLines[screen]),
                         Len(lists[screen]), ListLines[screen])

Modals == {"editor", "notice", "refused", "compose"}

Rendered(n, lists, plain) ==
    IF n.over.kind \in Modals THEN n
    ELSE IF InThread(n) THEN DrawnThread(n)
    ELSE DrawnScreen(n, lists, plain)

(* Thread::read_through: the messages whose last line is above the foot. *)
ReadThrough(n) ==
    Cardinality({k \in 1..CountWith(n.detail.peer) :
                    StopOf(k) + Height - 1 < n.place.scroll + Rows})

MarkedRead(p, through) ==
    [i \in 1..Len(log) |->
        IF log[i].peer = p /\ Number(i) <= through THEN [log[i] EXCEPT !.read = TRUE]
        ELSE log[i]]

Shows_UnderMenu(n, dark) == InThread(n) /\ n.over.kind \notin Modals /\ ~dark

(* Only what a lit panel showed has been read, and not under a menu. *)
Shows(n, dark) == InThread(n) /\ n.over.kind = "none" /\ ~dark

(* Ui::idle, then the drawing: when it is due, and every half second. *)
Draw ==
    /\ stage = "perform" /\ chosen = <<>> /\ stage' = "drain" /\ touched' = FALSE
    /\ asleep' \in (IF touched THEN {asleep} ELSE {asleep, TRUE})
    /\ \/ \E plain \in Plain :
            LET lists == [Messages |-> Conversations, Peers |-> peers]
                n == Rendered(nav, lists, plain)
            IN  /\ nav' = n /\ drawn' = lists /\ due' = FALSE
                /\ face' = IF n.over.kind \in Modals THEN NoOne ELSE LineOf(n, lists)
                /\ log' = IF Shows(n, asleep') THEN MarkedRead(n.detail.peer, ReadThrough(n)) ELSE log
       \/ ~due /\ UNCHANGED <<nav, drawn, due, face, log>>
    /\ UNCHANGED <<chosen, arrived, peers>>

----------------------------------------------------------------------------
(* Around the panel. *)

(* The loop takes a message, or an announce, before it looks at the pad. *)
Arrive(p) ==
    /\ stage = "drain" /\ Len(log) < MaxLog
    /\ log' = Append(log, [peer |-> p, read |-> FALSE])
    /\ arrived' = TRUE
    /\ UNCHANGED <<stage, nav, chosen, asleep, due, touched, peers, drawn, face>>

Hear(p) ==
    /\ stage = "drain"
    /\ peers' = ToFront(peers, p)
    /\ UNCHANGED <<stage, nav, chosen, asleep, due, touched, arrived, log, drawn, face>>

PanelInit ==
    /\ stage = "drain" /\ nav = NewNav /\ chosen = <<>>
    /\ asleep = FALSE /\ due = TRUE /\ touched = FALSE /\ arrived = FALSE
    /\ log = <<>> /\ peers = <<>>
    /\ drawn = [l \in Lists |-> <<>>] /\ face = NoOne

PanelNext ==
    \/ \E keys \in SeqOf(Input, Queue) : Drain(keys)
    \/ Perform \/ Draw
    \/ \E p \in Peer : Arrive(p) \/ Hear(p)

PanelSpec == PanelInit /\ [][PanelNext]_panelVars

----------------------------------------------------------------------------
Place == [scroll : Nat, lines : Nat, selected : Nat, entries : Nat, per : {1, 2}]

PanelTypeOK ==
    /\ stage \in {"drain", "perform"}
    /\ {asleep, due, touched, arrived} \subseteq BOOLEAN
    /\ nav.screen \in 1..Len(Strip) /\ nav.visible \in {0, Rows}
    /\ nav.place \in Place /\ nav.detail.under \in Place
    /\ nav.detail.peer \in Peer \union {NoOne}
    /\ nav.over.kind \in {"none", "menu"} \union Modals
    /\ (nav.over.kind = "menu") => nav.over.item \in 1..Len(ItemsOf(nav))
    /\ (nav.over.kind = "compose") =>
           /\ nav.over.len \in 0..Limit
           /\ nav.over.row \in 1..Len(KeyGrid) /\ nav.over.col \in 1..Len(KeyGrid[1])
    /\ Len(chosen) <= Queue
    /\ log \in Seq([peer : Peer, read : BOOLEAN]) /\ Len(log) <= MaxLog
    /\ drawn \in [Lists -> Seq(Peer)] /\ peers \in Seq(Peer)
    /\ face \in Peer \union {NoOne}

(* A message goes to the peer whose conversation it was chosen in, or to   *)
(* nobody: the presses queued behind the choice may leave that             *)
(* conversation, and open another, before it is written.                   *)
WrittenWhereChosen ==
    [][(stage = "perform" /\ Len(log') > Len(log)) =>
           log'[Len(log')].peer = Head(chosen).peer]_panelVars

(* A press on a list, with none queued around it, opens the conversation   *)
(* that was highlighted on the panel, whatever has come since to reorder   *)
(* the list and whatever the press before it changed.                      *)
OpensTheLineShown ==
    [][(nav'.detail.peer \notin {NoOne, nav.detail.peer} /\ Head(chosen).alone) =>
           nav'.detail.peer = Head(chosen).line]_panelVars

(* A message becomes read only by a drawing of its own thread that a       *)
(* person could see: lit, with nothing over it, and the view's foot below  *)
(* the message's last line.                                                *)
ReadWasShown ==
    [][\A i \in 1..Len(log) :
          (stage = "perform" /\ stage' = "drain" /\ Len(log') >= i /\ ~log[i].read /\ log'[i].read) =>
              /\ ~asleep' /\ nav'.over.kind = "none" /\ nav'.detail.peer = log[i].peer
              /\ Number(i) * (Height + 1) - 2 < nav'.place.scroll + Rows]_panelVars

(* A typed message that was handed over is in the thread when the keyboard *)
(* closes; refused, it is still in the keyboard.                           *)
TypedIsKept ==
    [][(nav.over.kind = "compose" /\ nav.over.len > 0 /\ nav.over.mode = "Sending" /\ nav' # nav) =>
           \/ Len(log') > Len(log)
           \/ nav'.over.kind = "compose" /\ nav'.over.len = nav.over.len]_panelVars

Waiting == nav.over.kind = "compose" /\ nav.over.mode = "Sending"

(* A keyboard over a conversation is never left waiting for its answer     *)
(* when the pass is over.                                                  *)
AnsweredInThread == (stage = "drain" /\ Waiting) => ~InThread(nav)

InView(n) ==
    LET place == n.place
    IN  /\ place.selected < place.entries
        /\ place.scroll <= MaxScroll(n)
        /\ place.per <= Rows =>
              /\ place.scroll <= place.selected * place.per
              /\ (place.selected + 1) * place.per <= place.scroll + Rows

(* After a drawing a list's highlight is on one of its entries, all of it  *)
(* in view if it fits, and the view does not go past the end.              *)
HighlightInView ==
    (stage = "drain" /\ ~due /\ HasHighlight(nav) /\ nav.over.kind = "none") => InView(nav)

(* A press does what the person who made it saw it would do, whatever came  *)
(* between the drawing and the press, and one press and the next.           *)
PanelCorrect ==
    /\ [](PanelTypeOK /\ AnsweredInThread /\ HighlightInView)
    /\ WrittenWhereChosen /\ OpensTheLineShown /\ ReadWasShown /\ TypedIsKept
=============================================================================
