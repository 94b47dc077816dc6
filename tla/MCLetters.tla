----------------------------- MODULE MCLetters ------------------------------
(***************************************************************************)
(* A message from the packet it comes in to the lines it is read in: the   *)
(* bytes (Lxmf), what the node keeps of it and of its sender (Mailbox),    *)
(* the panel's text (Reading).  Each is handed what the one before made of *)
(* it, and nothing back.  They share no variable, so a behaviour of this   *)
(* module moves one of them, chosen at the start.                          *)
(***************************************************************************)
EXTENDS Lxmf, Mailbox, Reading, TLC

CONSTANTS one, two, three   \* the hashes of the three messages

VARIABLE desk   \* the one that moves

lettersVars == <<desk, lxmfVars, mailboxVars, readingVars>>

LettersInit ==
    /\ desk \in {"packet", "mailbox", "panel"}
    /\ LxmfInit /\ MailboxInit /\ ReadingInit
    /\ desk = "panel" \/ laid = "thread"

LettersNext ==
    \/ desk = "packet" /\ LxmfNext /\ UNCHANGED <<desk, mailboxVars, readingVars>>
    \/ desk = "mailbox" /\ MailboxNext /\ UNCHANGED <<desk, lxmfVars, readingVars>>
    \/ desk = "panel" /\ ReadingNext /\ UNCHANGED <<desk, lxmfVars, mailboxVars>>

LettersSpec == LettersInit /\ [][LettersNext]_lettersVars

-----------------------------------------------------------------------------
(* The instance: three messages from two senders, in a table of one; packets *)
(* of up to ten bytes; texts that fit the view, overflow it, and break lines. *)
MCFrom == [h \in Hashes |-> IF h = two THEN "b" ELSE "a"]
MCStamp == [h \in Hashes |-> IF h = two THEN 2 ELSE 1]

\* The first and the third have one sender and one stamp.
MCAlike == Permutations({one, three})

Xs(n) == [i \in 1..n |-> "x"]
MCTitles == {<< >>, <<" ">>}
MCBodies == {<< >>, Xs(19), <<"x", "nl", "nl", "dots">>}
=============================================================================
