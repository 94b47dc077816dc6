---------------------------- MODULE RecordStore ------------------------------
(***************************************************************************)
(* What survives a power cycle: the device record and the node's identity, *)
(* each on a flash page of its own (src/store.rs, core/src/rnode/store.rs, *)
(* eeprom.rs and core/src/node/key.rs), the timer that writes the record   *)
(* (src/bin/rnode.rs), and the bonds that reach it from the Bluetooth      *)
(* task (src/nus.rs).                                                      *)
(*                                                                         *)
(* A page is a few words, written in the order of their addresses and      *)
(* erased in any order; power can go between any two of them.  A checksum  *)
(* and an MD5 are ideal: the value they are taken over.                    *)
(***************************************************************************)
EXTENDS Naturals, Sequences, FiniteSets, SequencesExt

CONSTANTS
    Phones,     \* the phones there are
    Configs,    \* the radio configurations that can be saved
    MaxBonds,   \* MAX_BONDS
    Attempts,   \* ATTEMPTS
    Idle,       \* PERSIST_IDLE
    MaxChanges, \* bound: changes to the record
    MaxPairings,\* bound: pairings
    MaxFaults,  \* bound: flash operations that fail
    MaxBoots    \* bound: restarts of either kind

ASSUME StoreAssumption ==
    /\ MaxBonds \in Nat \ {0} /\ Attempts \in Nat \ {0} /\ Idle \in Nat
    /\ Configs # {}
    /\ {MaxChanges, MaxPairings, MaxFaults, MaxBoots} \subseteq Nat

CONSTANTS Blank, Nil   \* 0xff bytes; Option::None

VARIABLES
    mem,        \* Protocol::store, the record in memory
    dirty,      \* dirty_since: Nil, or how long ago, up to Idle + 1
    flash,      \* flash[p]: the words of page p
    job,        \* the write in progress, or Nil
    key,        \* the identity the node runs with
    link,       \* the phone connected, or Nil while advertising
    stack,      \* the bonds the Bluetooth stack holds
    cell,       \* NEW_BOND
    forget,     \* FORGET_BONDS
    landed,     \* the record as last read back, or read at boot
    missed,     \* bonds that left the record or never reached it
    gaveUp,     \* the last write of the record was given up
    asked,      \* the last boot was asked for
    changes, pairings, faults, boots

counters == <<changes, pairings, faults, boots>>
recordVars == <<mem, dirty, flash, job, key, link, stack, cell, forget, landed,
          missed, gaveUp, asked, counters>>

-----------------------------------------------------------------------------
(* The EEPROM image *)

Md5(x) == <<"md5", x>>
Eeprom == [info |-> Blank, sum |-> Blank, lock |-> Blank,
           conf |-> Blank, confOk |-> FALSE]
status(rom) ==
    CASE rom.lock # "lock"          -> "Unprovisioned"
      [] rom.sum # Md5(rom.info)    -> "ChecksumMismatch"
      [] OTHER                      -> "Provisioned"
stored_config(rom) == IF rom.confOk THEN rom.conf ELSE Nil
save_config(rom, c) == [rom EXCEPT !.conf = c, !.confOk = TRUE]
delete_config(rom) == [rom EXCEPT !.confOk = FALSE]

\* What a host writes one byte after another to provision a board
Provisioning == {<<"info", "unit">>, <<"sum", Md5("unit")>>, <<"lock", "lock">>}

(* The device record.  A bond is a phone and the key of one pairing.       *)
New == [rom |-> Eeprom, sig |-> Nil, fw |-> Nil, bonds |-> << >>,
        alert |-> TRUE]

addrOf(b) == b[1]

\* Mutation: a full table grows.
add_bond_NoRoom(s, b) ==
    [s EXCEPT !.bonds =
        IF \E i \in 1..Len(@) : addrOf(@[i]) = addrOf(b) THEN @
        ELSE Append(@, b)]

\* Mutation: a phone that pairs again keeps the bond it had.
add_bond_KeepsOld(s, b) ==
    [s EXCEPT !.bonds =
        IF \E i \in 1..Len(@) : addrOf(@[i]) = addrOf(b) THEN @
        ELSE Append(IF Len(@) < MaxBonds THEN @ ELSE Tail(@), b)]

add_bond(s, b) ==
    LET same == {i \in 1..Len(s.bonds) : addrOf(s.bonds[i]) = addrOf(b)}
    IN  [s EXCEPT !.bonds =
            IF same # {}
            THEN [i \in 1..Len(@) |-> IF i \in same THEN b ELSE @[i]]
            ELSE Append(IF Len(@) < MaxBonds THEN @ ELSE Tail(@), b)]

clear_bonds(s) == [s EXCEPT !.bonds = << >>]

(* encode and decode.  The header holds the checksum of the rest; version  *)
(* 1 had no bonds, and its checksum stops before them.  A signature or a   *)
(* hash that is not flagged leaves its bytes zero.                         *)
Words == <<"head", "body", "bonds">>
record_crc(v, w) == <<w.body, IF v = 2 THEN w.bonds ELSE Nil>>
encode_as(v, s) ==
    LET rest == [body |-> <<s.rom, s.sig, s.fw>>, bonds |-> s.bonds]
    IN  [w \in ToSet(Words) |->
            IF w = "head"
            THEN [version |-> v, signed |-> s.sig # Nil,
                  hashed |-> s.fw # Nil, alertOff |-> ~s.alert,
                  crc |-> record_crc(v, rest)]
            ELSE rest[w]]
encode(s) == encode_as(2, s)

\* Mutation: the magic is believed without the checksum.
decode_NoChecksum(w) ==
    IF w.head = Blank THEN Nil
    ELSE [rom   |-> IF w.body = Blank THEN Eeprom ELSE w.body[1],
          sig   |-> IF w.body # Blank /\ w.head.signed THEN w.body[2] ELSE Nil,
          fw    |-> IF w.body # Blank /\ w.head.hashed THEN w.body[3] ELSE Nil,
          bonds |-> IF w.head.version = 2 /\ w.bonds # Blank THEN w.bonds
                                                            ELSE << >>,
          alert |-> ~w.head.alertOff]

decode(w) ==
    IF w.head = Blank \/ w.head.crc # record_crc(w.head.version, w)
    THEN Nil
    ELSE [rom   |-> w.body[1],
          sig   |-> IF w.head.signed THEN w.body[2] ELSE Nil,
          fw    |-> IF w.head.hashed THEN w.body[3] ELSE Nil,
          bonds |-> IF w.head.version = 2 THEN w.bonds ELSE << >>,
          alert |-> ~w.head.alertOff]

load(w) == IF decode(w) = Nil THEN New ELSE decode(w)

(* The identity's record, and the key a page holds or Nil: the page was   *)
(* never written, or is damaged.                                           *)
KeyWords == <<"head", "key">>
key_record(k) == [w \in ToSet(KeyWords) |->
                    IF w = "head" THEN <<"OXK1", k>> ELSE k]
read_key(w) == IF w.head = <<"OXK1", w.key>> THEN w.key ELSE Nil

Order(p) == IF p = "record" THEN Words ELSE KeyWords
Erased(p) == [w \in ToSet(Order(p)) |-> Blank]

-----------------------------------------------------------------------------
(* Writing a page: erase, write, read back, from the erase again when any  *)
(* of them fails.  A job is one call of save or save_key.                  *)

Save(p, image, then) ==
    [page |-> p, image |-> image, attempt |-> 1, at |-> 0, then |-> then]

\* The stack gets its bonds back from the record; nothing else survives.
\* The node then looks for its key, and makes one when there is none.
Boot(pages, why) ==
    LET loaded == load(pages["record"])
        found  == read_key(pages["key"])
        made   == <<"key", boots + 1>>
    IN  /\ mem' = loaded /\ landed' = loaded
        /\ stack' = ToSet(loaded.bonds)
        /\ missed' = {} /\ gaveUp' = FALSE
        /\ dirty' = Nil /\ cell' = Nil /\ forget' = FALSE /\ link' = Nil
        /\ key' = IF found = Nil THEN made ELSE found
        /\ job' = IF found = Nil THEN Save("key", key_record(made), "run")
                                  ELSE Nil
        /\ boots' = boots + 1
        /\ flash' = pages
        /\ asked' = why
        /\ UNCHANGED <<changes, pairings>>

\* Mutation: an erase reaches into the next page.
EraseWord_NextPage ==
    /\ job # Nil /\ job.at = 0
    /\ \E w \in ToSet(Order(job.page)) :
        /\ flash[job.page][w] # Blank
        /\ flash' = [p \in DOMAIN flash |->
                        [x \in DOMAIN flash[p] |->
                            IF x = w /\ p \in {job.page, "key"} THEN Blank
                            ELSE flash[p][x]]]
    /\ UNCHANGED <<mem, dirty, job, key, link, stack, cell, forget, landed,
                   missed, gaveUp, asked, counters>>

\* at = 0 while the page is being erased, then the number of words written + 1
EraseWord ==
    /\ job # Nil /\ job.at = 0
    /\ \E w \in ToSet(Order(job.page)) :
        /\ flash[job.page][w] # Blank
        /\ flash' = [flash EXCEPT ![job.page][w] = Blank]
    /\ UNCHANGED <<mem, dirty, job, key, link, stack, cell, forget, landed,
                   missed, gaveUp, asked, counters>>

EraseDone ==
    /\ job # Nil /\ job.at = 0 /\ flash[job.page] = Erased(job.page)
    /\ job' = [job EXCEPT !.at = 1]
    /\ UNCHANGED <<mem, dirty, flash, key, link, stack, cell, forget, landed,
                   missed, gaveUp, asked, counters>>

\* A word that did not take is a fault too: the write says nothing.
WriteWord ==
    /\ job # Nil /\ job.at \in 1..Len(Order(job.page))
    /\ LET w == Order(job.page)[job.at]
       IN  \/ /\ flash' = [flash EXCEPT ![job.page][w] = job.image[w]]
              /\ UNCHANGED faults
           \/ /\ faults < MaxFaults
              /\ faults' = faults + 1 /\ UNCHANGED flash
    /\ job' = [job EXCEPT !.at = @ + 1]
    /\ UNCHANGED <<mem, dirty, key, link, stack, cell, forget, landed,
                   missed, gaveUp, asked, changes, pairings, boots>>

\* Verify: the record is decoded and compared, the key byte for byte
Took == IF job.page = "record" THEN decode(flash["record"]) = mem
                               ELSE flash["key"] = job.image

\* Mutation: dirty_since is not cleared.
Return_StaysDirty(ok) ==
    IF job.then = "reboot" THEN Boot(flash, TRUE)
    ELSE /\ job' = Nil
         /\ gaveUp' = IF job.page = "record" THEN ~ok ELSE gaveUp
         /\ landed' = IF ok /\ job.page = "record" THEN mem ELSE landed
         /\ UNCHANGED <<mem, dirty, flash, key, link, stack, cell, forget,
                        missed, asked, changes, pairings, boots>>

\* The caller goes on, having logged a failure; a restart restarts anyway.
Return(ok) ==
    IF job.then = "reboot" THEN Boot(flash, TRUE)
    ELSE /\ job' = Nil
         /\ dirty' = IF job.page = "record" THEN Nil ELSE dirty
         /\ gaveUp' = IF job.page = "record" THEN ~ok ELSE gaveUp
         /\ landed' = IF ok /\ job.page = "record" THEN mem ELSE landed
         /\ UNCHANGED <<mem, flash, key, link, stack, cell, forget, missed,
                        asked, changes, pairings, boots>>

NextAttempt ==
    IF job.attempt < Attempts
    THEN /\ job' = [job EXCEPT !.attempt = @ + 1, !.at = 0]
         /\ UNCHANGED <<mem, dirty, flash, key, link, stack, cell, forget,
                        landed, missed, gaveUp, asked, changes, pairings,
                        boots>>
    ELSE Return(FALSE)

ReadBack ==
    /\ job # Nil /\ job.at = Len(Order(job.page)) + 1
    /\ IF Took THEN Return(TRUE) ELSE NextAttempt
    /\ UNCHANGED faults

\* The scheduler had no slot for an erase or for a write.
FlashFails ==
    /\ job # Nil /\ job.at <= Len(Order(job.page)) /\ faults < MaxFaults
    /\ faults' = faults + 1
    /\ NextAttempt

-----------------------------------------------------------------------------
(* The modem loop.  It waits for a write it started.                       *)

\* What a host's command or the panel makes of the record
WriteRom(s) == {[s EXCEPT !.rom[x[1]] = x[2]] : x \in Provisioning}
SaveConfig(s) == {[s EXCEPT !.rom = save_config(@, c)] : c \in Configs}
DeleteConfig(s) == {[s EXCEPT !.rom = delete_config(@)]}
StoreSignature(s) ==
    IF status(s.rom) = "Provisioned" THEN {[s EXCEPT !.sig = "signature"]}
                                     ELSE {}
SetFirmwareHash(s) == {[s EXCEPT !.fw = "hash"]}
ToggleAlert(s) == {[s EXCEPT !.alert = ~@]}
Commands(s) == WriteRom(s) \cup SaveConfig(s) \cup DeleteConfig(s)
                 \cup StoreSignature(s) \cup SetFirmwareHash(s)
                 \cup ToggleAlert(s)

\* Mutation: a bond is taken without starting the timer.
EndOfPass_BondQuietly(s, since) ==
    LET taken == IF cell = Nil THEN s ELSE add_bond(s, cell)
        due   == since # Nil /\ since > Idle
    IN  /\ mem' = taken
        /\ cell' = Nil
        /\ missed' = missed \cup (ToSet(mem.bonds) \ ToSet(taken.bonds))
        /\ dirty' = since
        /\ job' = IF due THEN Save("record", encode(taken), "run") ELSE Nil

\* The end of a pass: take the bond that was offered, then see to the timer.
EndOfPass(s, since) ==
    LET taken == IF cell = Nil THEN s ELSE add_bond(s, cell)
        d     == IF cell = Nil THEN since ELSE 0
        due   == d # Nil /\ d > Idle
    IN  /\ mem' = taken
        /\ cell' = Nil
        /\ missed' = missed \cup (ToSet(mem.bonds) \ ToSet(taken.bonds))
        /\ dirty' = d
        /\ job' = IF due THEN Save("record", encode(taken), "run") ELSE Nil

Pass ==
    /\ job = Nil
    /\ cell # Nil \/ (dirty # Nil /\ dirty > Idle)
    /\ EndOfPass(mem, dirty)
    /\ UNCHANGED <<flash, key, link, stack, forget, landed, gaveUp, asked,
                   counters>>

Change ==
    /\ job = Nil /\ changes < MaxChanges
    /\ changes' = changes + 1
    /\ \E s \in Commands(mem) : EndOfPass(s, 0)
    /\ UNCHANGED <<flash, key, link, stack, forget, landed, gaveUp, asked,
                   pairings, faults, boots>>

\* CMD_ROM_WIPE: the stack is not told
Wipe ==
    /\ job = Nil /\ changes < MaxChanges
    /\ changes' = changes + 1
    /\ EndOfPass(New, 0)
    /\ UNCHANGED <<flash, key, link, stack, forget, landed, gaveUp, asked,
                   pairings, faults, boots>>

ForgetBonds ==
    /\ job = Nil /\ changes < MaxChanges
    /\ changes' = changes + 1
    /\ EndOfPass(clear_bonds(mem), 0)
    /\ forget' = TRUE
    /\ UNCHANGED <<flash, key, link, stack, landed, gaveUp, asked,
                   pairings, faults, boots>>

\* Mutation: only a change whose timer has run out is written.
Restart_WhenDue ==
    /\ job = Nil /\ boots < MaxBoots
    /\ IF dirty # Nil /\ dirty > Idle
       THEN /\ job' = Save("record", encode(mem), "reboot")
            /\ UNCHANGED <<mem, dirty, flash, key, link, stack, cell, forget,
                           landed, missed, gaveUp, asked, counters>>
       ELSE Boot(flash, TRUE) /\ UNCHANGED faults

\* CMD_RESET, the touch, and the panel's two restarts: the record first
AskedRestart ==
    /\ job = Nil /\ boots < MaxBoots
    /\ job' = Save("record", encode(mem), "reboot")
    /\ UNCHANGED <<mem, dirty, flash, key, link, stack, cell, forget, landed,
                   missed, gaveUp, asked, counters>>

Age ==
    /\ dirty # Nil /\ dirty <= Idle
    /\ dirty' = dirty + 1
    /\ UNCHANGED <<mem, flash, job, key, link, stack, cell, forget, landed,
                   missed, gaveUp, asked, counters>>

PowerLoss ==
    /\ boots < MaxBoots
    /\ Boot(flash, FALSE)
    /\ UNCHANGED faults

-----------------------------------------------------------------------------
(* The Bluetooth task: one connection at a time; the signal to forget is   *)
(* looked at while advertising.                                            *)

Connect(p) ==
    /\ link = Nil /\ pairings < MaxPairings
    /\ link' = p
    /\ UNCHANGED <<mem, dirty, flash, job, key, stack, cell, forget, landed,
                   missed, gaveUp, asked, counters>>

offer_bond(b) ==
    /\ cell' = b
    /\ missed' = missed \cup ({cell} \ {Nil})

Pair ==
    /\ link # Nil /\ pairings < MaxPairings
    /\ pairings' = pairings + 1
    /\ stack' = {b \in stack : addrOf(b) # link} \cup {<<link, pairings'>>}
    /\ offer_bond(<<link, pairings'>>)
    /\ UNCHANGED <<mem, dirty, flash, job, key, link, forget, landed, gaveUp,
                   asked, changes, faults, boots>>

Disconnect ==
    /\ link # Nil
    /\ link' = Nil
    /\ UNCHANGED <<mem, dirty, flash, job, key, stack, cell, forget, landed,
                   missed, gaveUp, asked, counters>>

forget_bonds ==
    /\ link = Nil /\ forget
    /\ forget' = FALSE /\ stack' = {}
    /\ UNCHANGED <<mem, dirty, flash, job, key, link, cell, landed, missed,
                   gaveUp, asked, counters>>

-----------------------------------------------------------------------------
StoreNext ==
    \/ EraseWord \/ EraseDone \/ WriteWord \/ ReadBack \/ FlashFails
    \/ Pass \/ Change \/ Wipe \/ ForgetBonds \/ AskedRestart \/ Age \/ PowerLoss
    \/ \E p \in Phones : Connect(p)
    \/ Pair \/ Disconnect \/ forget_bonds

\* The first boot with this release of a board provisioned, as a TNC, with
\* one that wrote version 1 and had no node.  A board never provisioned is
\* what a boot that finds no record makes.
StoreInit ==
    LET unit == [Eeprom EXCEPT !.info = "unit", !.sum = Md5("unit"),
                               !.lock = "lock"]
        v1 == [New EXCEPT !.rom = save_config(unit, CHOOSE c \in Configs : TRUE)]
    IN  /\ flash = [p \in {"record", "key"} |->
                      IF p = "record" THEN encode_as(1, v1) ELSE Erased("key")]
        /\ mem = load(flash["record"]) /\ landed = mem
        /\ key = <<"key", 0>> /\ job = Save("key", key_record(key), "run")
        /\ dirty = Nil /\ link = Nil /\ stack = {} /\ cell = Nil
        /\ forget = FALSE /\ missed = {} /\ gaveUp = FALSE /\ asked = FALSE
        /\ changes = 0 /\ pairings = 0 /\ faults = 0 /\ boots = 0

StoreSpec == StoreInit /\ [][StoreNext]_recordVars

\* The executor polls every task, and the flash scheduler answers: a write
\* goes on, the loop comes round, and time passes.
Writing == EraseWord \/ EraseDone \/ WriteWord \/ ReadBack

StoreFairSpec ==
    /\ StoreSpec
    /\ WF_recordVars(Writing) /\ WF_recordVars(Pass) /\ WF_recordVars(Age)

-----------------------------------------------------------------------------
(* Properties *)

Bond == Phones \X (1..MaxPairings)
Table == UNION {[1..n -> Bond] : n \in 0..MaxBonds}
Rom == [info : {Blank, "unit"}, sum : {Blank, Md5("unit")}, lock : {Blank, "lock"},
        conf : Configs \cup {Blank}, confOk : BOOLEAN]
Record == [rom : Rom, sig : {Nil, "signature"}, fw : {Nil, "hash"},
           bonds : Table, alert : BOOLEAN]
Identity == {"key"} \X Nat

\* What the words of the two pages can be, when they are not blank
Body == Rom \X {Nil, "signature"} \X {Nil, "hash"}
Header == [version : {1, 2}, signed : BOOLEAN, hashed : BOOLEAN, alertOff : BOOLEAN,
           crc : Body \X (Table \cup {Nil})]
KeyHeader == {"OXK1"} \X (Identity \cup {Blank})
Write == [page : {"record", "key"}, attempt : 1..Attempts, at : Nat, then : {"run", "reboot"},
            image : [head : Header, body : Body, bonds : Table]
                      \cup [head : KeyHeader, key : Identity]]

\* 0xff bytes are no record, and an Option that is Nil is not one that is not.
ASSUME ValueAssumption ==
    /\ Blank \notin Body \cup Table \cup Header \cup Identity \cup KeyHeader
    /\ Nil \notin Record \cup Bond \cup Identity \cup Nat \cup {"signature", "hash"}
    /\ Nil \notin Write

\* Type correctness of the record in memory, the timer, the pages, the write
\* in progress and the Bluetooth task; a table of at most MAX_BONDS bonds
\* with one for each phone (DeviceStore::add_bond).
StoreTypeOK ==
    /\ mem \in Record /\ landed \in Record
    /\ \A i, j \in 1..Len(mem.bonds) :
        addrOf(mem.bonds[i]) = addrOf(mem.bonds[j]) => i = j
    /\ dirty \in {Nil} \cup 0..(Idle + 1)
    /\ \A p \in {"record", "key"} : DOMAIN flash[p] = ToSet(Order(p))
    /\ job = Nil \/ /\ job.page \in {"record", "key"}
                     /\ job.attempt \in 1..Attempts
                     /\ job.at \in 0..(Len(Order(job.page)) + 1)
                     /\ job.then \in {"run", "reboot"}
    /\ link \in Phones \cup {Nil} /\ stack \subseteq Bond
    /\ cell \in Bond \cup {Nil} /\ missed \subseteq Bond
    /\ {forget, gaveUp, asked} \subseteq BOOLEAN

\* While nothing waits for the timer and nothing is being written, the flash
\* holds what the memory holds, unless the last write was given up after
\* ATTEMPTS tries: no command, panel action or pairing changes the record
\* without dirty_since hearing of it.
CleanIsStored ==
    dirty = Nil /\ (job = Nil \/ job.page = "key") /\ ~gaveUp
        => load(flash["record"]) = mem

\* A boot brings back the record last read back from the flash.  When power
\* went, or the write was given up, with the page half erased or half
\* written, it brings back that record, the one being written, or a board
\* never provisioned, and never a mixture of two (store.rs: "not repaired
\* and not partially trusted").
BootsWhole ==
    [][boots' # boots =>
        \/ mem' = landed
        \/ mem' \in {New, mem} /\ (gaveUp \/ (job # Nil /\ job.page = "record"))]_recordVars

\* A restart that somebody asked for loses nothing but a bond the loop had
\* not taken yet, unless its last attempt to write failed: Reset, the
\* bootloader touch and the panel's restarts write the record whether or not
\* the timer has run out.
RestartKeepsAll ==
    [][boots' # boots /\ asked' =>
        mem' = mem \/ (job # Nil /\ job.attempt = Attempts)]_recordVars

\* Once the board's identity is on its page it is the board's for life: no
\* boot, wipe, failed write or write of the record next to it disturbs the
\* page or gives the node another key.
IdentityForLife ==
    [][read_key(flash["key"]) = key =>
        key' = key /\ read_key(flash'["key"]) = key]_recordVars

\* With no order to forget outstanding, a phone that the Bluetooth stack
\* lets in is in the record or on its way there, except one whose offer was
\* overwritten before the loop looked, that a newer phone pushed out of a
\* full table, or that a wipe of the EEPROM took.
TrustedIsKept ==
    ~forget => \A b \in stack :
        b \in ToSet(mem.bonds) \cup {cell} \cup missed

\* A change reaches the flash, or its write is given up: the timer runs out
\* when the changes stop, and a write ends.
ChangesAreWritten == (dirty # Nil) ~> (dirty = Nil)

\* What the board knows of itself outlives its resets: the record as it was
\* last written, the phones it trusts, its identity.
RecordKept ==
    /\ [](StoreTypeOK /\ CleanIsStored /\ TrustedIsKept)
    /\ BootsWhole /\ RestartKeepsAll /\ IdentityForLife
=============================================================================
