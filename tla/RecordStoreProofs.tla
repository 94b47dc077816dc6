-------------------------- MODULE RecordStoreProofs --------------------------
(***************************************************************************)
(* Proofs about RecordStore, for any number of phones, configurations,     *)
(* bonds, attempts, faults and losses of power: what a boot finds is never *)
(* a mixture of two records, a restart that was asked for loses nothing,   *)
(* the identity is for life, and what the Bluetooth stack trusts is in the *)
(* record or on its way there.                                             *)
(***************************************************************************)
EXTENDS RecordStore, TLAPS

(* A record whose table has one bond for each phone. *)
Good == {s \in Record : \A i, j \in 1..Len(s.bonds) :
                            addrOf(s.bonds[i]) = addrOf(s.bonds[j]) => i = j}

Pages == {"record", "key"}

(* What is to be on a page when its write is done. *)
Image(p) == IF p = "record" THEN encode(mem) ELSE key_record(key)

(* The rest of the state has its type. *)
ValuesInv ==
    /\ mem \in Good /\ landed \in Good
    /\ dirty \in {Nil} \cup 0..(Idle + 1)
    /\ key \in Identity
    /\ link \in Phones \cup {Nil} /\ stack \subseteq Bond
    /\ cell \in Bond \cup {Nil} /\ missed \subseteq Bond
    /\ forget \in BOOLEAN /\ gaveUp \in BOOLEAN /\ asked \in BOOLEAN
    /\ pairings \in 0..MaxPairings /\ boots \in Nat

(* A job writes the record as it is in memory, or the key the node runs    *)
(* with, and only one that writes the record ends in a restart: nothing    *)
(* changes either while the loop waits for it.                             *)
JobInv ==
    job = Nil \/
    \E p \in Pages, a \in 1..Attempts, t \in {"run", "reboot"} :
        \E n \in 0..(Len(Order(p)) + 1) :
            /\ job = [page |-> p, image |-> Image(p), attempt |-> a, at |-> n, then |-> t]
            /\ t = "reboot" => p = "record"

(* The words of the pages are blank or what some write made them; a header *)
(* is that of one record, in either version.                               *)
PagesInv ==
    /\ DOMAIN flash = Pages
    /\ \A p \in Pages : DOMAIN flash[p] = ToSet(Order(p))
    /\ flash = [p \in Pages |-> flash[p]]
    /\ \A p \in Pages : flash[p] = [w \in ToSet(Order(p)) |-> flash[p][w]]
    /\ \/ flash["record"].head = Blank
       \/ \E v \in {1, 2}, s \in Good : flash["record"].head = encode_as(v, s).head
    /\ flash["key"].head \in ({"OXK1"} \X Identity) \cup {Blank}
    /\ flash["key"].key \in Identity \cup {Blank}

(* Once the page is erased each word is blank or the new one, and those    *)
(* whose turn has not come are blank.                                      *)
WriteInv ==
    job # Nil /\ job.at >= 1 =>
        \A i \in 1..Len(Order(job.page)) :
            LET w == Order(job.page)[i]
            IN  /\ flash[job.page][w] \in {Blank, Image(job.page)[w]}
                /\ i >= job.at => flash[job.page][w] = Blank

(* A key is written only where it is not.                                  *)
KeyInv ==
    job # Nil /\ job.page = "key" /\ job.at = 0 => read_key(flash["key"]) # key

(* Until the page is being rewritten it holds the record that landed last, *)
(* or none; and that one, unless a write was given up.                     *)
LandedInv ==
    /\ job = Nil \/ job.page = "key" \/ job.at = 0 =>
            decode(flash["record"]) \in {Nil, landed}
    /\ (job = Nil \/ job.page = "key") /\ ~gaveUp =>
            load(flash["record"]) = landed

StoreInv ==
    /\ ValuesInv /\ JobInv /\ PagesInv /\ WriteInv /\ KeyInv /\ LandedInv
    /\ CleanIsStored /\ TrustedIsKept

USE StoreAssumption, ValueAssumption

----------------------------------------------------------------------------
(* The words, and what they say. *)

(* A bond table is a sequence of at most MAX_BONDS bonds. *)
LEMMA TableIsSeq == ASSUME NEW t PROVE t \in Table <=> t \in Seq(Bond) /\ Len(t) <= MaxBonds
<1>1. ASSUME t \in Table PROVE t \in Seq(Bond) /\ Len(t) <= MaxBonds
  <2>1. PICK n \in 0..MaxBonds : t \in [1..n -> Bond]
    BY <1>1 DEF Table
  <2> QED BY <2>1
<1>2. ASSUME t \in Seq(Bond), Len(t) <= MaxBonds PROVE t \in Table
  <2>1. Len(t) \in 0..MaxBonds /\ t \in [1..Len(t) -> Bond]
    BY <1>2
  <2> QED BY <2>1 DEF Table
<1> QED BY <1>1, <1>2

LEMMA EmptyTable == << >> \in Table /\ Len(<< >>) = 0 /\ 1..Len(<< >>) = {}
<1>1. << >> \in [1..0 -> Bond] /\ 0 \in 0..MaxBonds
  OBVIOUS
<1>2. << >> \in Table
  BY <1>1 DEF Table
<1> QED BY <1>2

LEMMA Names ==
    /\ ToSet(Order("record")) = {"head", "body", "bonds"} /\ Len(Order("record")) = 3
    /\ ToSet(Words) = {"head", "body", "bonds"}
    /\ Order("record") = <<"head", "body", "bonds">>
    /\ ToSet(Order("key")) = {"head", "key"} /\ Len(Order("key")) = 2
    /\ ToSet(KeyWords) = {"head", "key"} /\ Order("key") = <<"head", "key">>
<1>1. /\ Words = <<"head", "body", "bonds">> /\ DOMAIN Words = {1, 2, 3}
      /\ KeyWords = <<"head", "key">> /\ DOMAIN KeyWords = {1, 2}
      /\ Order("record") = Words /\ Order("key") = KeyWords
  BY DEF Words, KeyWords, Order
<1>2. ToSet(Words) = {Words[1], Words[2], Words[3]}
  BY <1>1 DEF ToSet
<1>3. ToSet(KeyWords) = {KeyWords[1], KeyWords[2]}
  BY <1>1 DEF ToSet
<1> QED BY <1>1, <1>2, <1>3

(* What encode makes of a record, word by word. *)
LEMMA Encoded ==
    ASSUME NEW v \in {1, 2}, NEW s \in Record
    PROVE  LET e == encode_as(v, s) IN
           /\ DOMAIN e = {"head", "body", "bonds"}
           /\ e.body = <<s.rom, s.sig, s.fw>> /\ e.bonds = s.bonds
           /\ e.head = [version |-> v, signed |-> s.sig # Nil, hashed |-> s.fw # Nil,
                        alertOff |-> ~s.alert,
                        crc |-> <<e.body, IF v = 2 THEN s.bonds ELSE Nil>>]
           /\ e.body \in Body /\ e.bonds \in Table /\ e.head \in Header
<1> DEFINE e == encode_as(v, s)
           crc == <<e.body, IF v = 2 THEN s.bonds ELSE Nil>>
<1>1. DOMAIN e = {"head", "body", "bonds"}
  BY Names DEF encode_as
<1>2. e.body = <<s.rom, s.sig, s.fw>> /\ e.bonds = s.bonds
  BY Names DEF encode_as
<1>3. e.head = [version |-> v, signed |-> s.sig # Nil, hashed |-> s.fw # Nil,
                alertOff |-> ~s.alert, crc |-> crc]
  BY <1>2, Names DEF encode_as, record_crc
<1>4. e.body \in Body /\ e.bonds \in Table
  BY <1>2 DEF Record, Body
<1>5. crc \in Body \X (Table \cup {Nil})
  BY <1>4, <1>2
<1>6. e.head \in Header
  <2> HIDE DEF crc
  <2> QED BY <1>3, <1>5 DEF Header
<1> QED BY <1>1, <1>2, <1>3, <1>4, <1>6

(* A page whose header is that of a record holds that record, or none: all *)
(* of it is there, or the checksum fails.                                  *)
LEMMA Decoded ==
    ASSUME NEW v \in {1, 2}, NEW s \in Record, NEW w, w.head = encode_as(v, s).head
    PROVE  /\ w.body = encode_as(v, s).body /\ (v = 2 => w.bonds = s.bonds) =>
                decode(w) = [s EXCEPT !.bonds = IF v = 2 THEN @ ELSE << >>]
           /\ ~(w.body = encode_as(v, s).body /\ (v = 2 => w.bonds = s.bonds)) =>
                decode(w) = Nil
<1> DEFINE e == encode_as(v, s)
           b == IF v = 2 THEN s.bonds ELSE Nil
<1>0. /\ w.head = e.head /\ e.head \in Header /\ e.body = <<s.rom, s.sig, s.fw>>
      /\ e.head = [version |-> v, signed |-> s.sig # Nil, hashed |-> s.fw # Nil,
                   alertOff |-> ~s.alert, crc |-> <<e.body, b>>]
  BY Encoded
<1> HIDE DEF e
<1>1. /\ w.head # Blank /\ w.head.version = v
      /\ w.head.crc = <<e.body, b>>
      /\ e.body = <<s.rom, s.sig, s.fw>>
  BY <1>0
<1>5. w.head.signed = (s.sig # Nil)
  BY <1>0
<1>6. w.head.hashed = (s.fw # Nil)
  BY <1>0
<1>7. w.head.alertOff = ~s.alert
  BY <1>0
<1>2. w.head.crc # record_crc(w.head.version, w)
        <=> ~(w.body = e.body /\ (v = 2 => w.bonds = s.bonds))
  BY <1>1 DEF record_crc
<1>3. ASSUME w.body = e.body, v = 2 => w.bonds = s.bonds
      PROVE  decode(w) = [s EXCEPT !.bonds = IF v = 2 THEN @ ELSE << >>]
  <2>1. decode(w) = [rom |-> w.body[1], sig |-> IF w.head.signed THEN w.body[2] ELSE Nil,
                     fw |-> IF w.head.hashed THEN w.body[3] ELSE Nil,
                     bonds |-> IF w.head.version = 2 THEN w.bonds ELSE << >>,
                     alert |-> ~w.head.alertOff]
    BY <1>1, <1>2, <1>3 DEF decode
  <2>2. w.body[1] = s.rom /\ w.body[2] = s.sig /\ w.body[3] = s.fw
    BY <1>1, <1>3
  <2>5. (IF w.head.signed THEN w.body[2] ELSE Nil) = s.sig
    BY <1>5, <2>2
  <2>6. (IF w.head.hashed THEN w.body[3] ELSE Nil) = s.fw
    BY <1>6, <2>2
  <2>7. (IF w.head.version = 2 THEN w.bonds ELSE << >>) = (IF v = 2 THEN s.bonds ELSE << >>)
    BY <1>1, <1>3
  <2>3. (~w.head.alertOff) = s.alert
    BY <1>7 DEF Record
  <2>4. decode(w) = [rom |-> s.rom, sig |-> s.sig, fw |-> s.fw,
                     bonds |-> IF v = 2 THEN s.bonds ELSE << >>, alert |-> s.alert]
    BY <2>1, <2>2, <2>3, <2>5, <2>6, <2>7
  <2> QED BY <2>4 DEF Record
<1>4. ASSUME ~(w.body = e.body /\ (v = 2 => w.bonds = s.bonds))
      PROVE  decode(w) = Nil
  BY <1>2, <1>4 DEF decode
<1> QED BY <1>3, <1>4 DEF e

LEMMA NewGood == New \in Good
<1>2. New.rom \in Rom
  BY DEF New, Eeprom, Rom
<1>3. New \in Record
  BY EmptyTable, <1>2 DEF New, Record
<1>4. New.bonds = << >>
  BY DEF New
<1> QED BY <1>3, <1>4, EmptyTable DEF Good

(* What encode wrote in this release is decoded to the record it was.      *)
LEMMA EncodedIsDecoded ==
    ASSUME NEW s \in Record, NEW w, w.head = encode(s).head, w.body = encode(s).body,
           w.bonds = encode(s).bonds
    PROVE  decode(w) = s
<1>1. encode(s) = encode_as(2, s) /\ encode_as(2, s).bonds = s.bonds
  BY Encoded DEF encode
<1>2. decode(w) = [s EXCEPT !.bonds = s.bonds]
  BY <1>1, Decoded
<1> QED BY <1>2 DEF Record

(* Only a whole record with no two bonds of a phone comes off a page. *)
LEMMA DecodedIsGood ==
    ASSUME NEW w, \/ w.head = Blank
                  \/ \E v \in {1, 2}, s \in Good : w.head = encode_as(v, s).head
    PROVE  /\ decode(w) \in Good \cup {Nil}
           /\ load(w) \in Good /\ load(w) \in {decode(w), New}
           /\ decode(w) # Nil => load(w) = decode(w)
<1>1. decode(w) \in Good \cup {Nil}
  <2>1. CASE w.head = Blank
    BY <2>1 DEF decode
  <2>2. ASSUME NEW v \in {1, 2}, NEW s \in Good, w.head = encode_as(v, s).head
        PROVE  decode(w) \in Good \cup {Nil}
    <3>1. s \in Record
      BY DEF Good
    <3>2. \/ decode(w) = Nil
          \/ decode(w) = [s EXCEPT !.bonds = s.bonds]
          \/ decode(w) = [s EXCEPT !.bonds = << >>]
      BY <2>2, <3>1, Decoded
    <3>3. [s EXCEPT !.bonds = s.bonds] = s
      BY <3>1 DEF Record
    <3>4. [s EXCEPT !.bonds = << >>] \in Good
      <4>2. [s EXCEPT !.bonds = << >>] \in Record /\ [s EXCEPT !.bonds = << >>].bonds = << >>
        BY <3>1, EmptyTable DEF Record
      <4> QED BY <4>2, EmptyTable DEF Good
    <3> QED BY <3>2, <3>3, <3>4
  <2> QED BY <2>1, <2>2
<1> QED BY <1>1, NewGood DEF load

(* A word erased leaves the record that was there, or none. *)
LEMMA ErasingDecodes ==
    ASSUME NEW w, NEW x, NEW u \in {"head", "body", "bonds"},
           \/ w.head = Blank
           \/ \E v \in {1, 2}, s \in Good : w.head = encode_as(v, s).head,
           x[u] = Blank, \A o \in {"head", "body", "bonds"} \ {u} : x[o] = w[o]
    PROVE  decode(x) \in {decode(w), Nil}
<1>1. CASE x.head = Blank
  BY <1>1 DEF decode
<1>2. ASSUME x.head # Blank PROVE decode(x) \in {decode(w), Nil}
  <2>1. u # "head" /\ x.head = w.head
    BY <1>2
  <2>2. PICK v \in {1, 2}, s \in Good : w.head = encode_as(v, s).head
    BY <1>2, <2>1
  <2>3. s \in Record /\ encode_as(v, s).body # Blank /\ s.bonds # Blank
    BY Encoded DEF Good, Record
  <2>4. x.head = encode_as(v, s).head
    BY <2>1, <2>2
  <2>5. CASE u = "body"
    <3>1. x.body # encode_as(v, s).body
      BY <2>3, <2>5
    <3> QED BY <2>3, <2>4, <3>1, Decoded
  <2>6. CASE u = "bonds"
    <3>1. x.body = w.body /\ x.bonds = Blank
      BY <2>6
    <3>2. CASE v = 2
      <4>1. x.bonds # s.bonds
        BY <2>3, <3>1
      <4> QED BY <2>3, <2>4, <3>2, <4>1, Decoded
    <3>3. CASE v = 1
      BY <2>2, <2>3, <2>4, <3>1, <3>3, Decoded
    <3> QED BY <3>2, <3>3
  <2> QED BY <2>1, <2>5, <2>6
<1> QED BY <1>1, <1>2

(* A page on which each word is blank or the new one holds the new record  *)
(* or none; none while a word is blank.                                    *)
LEMMA PartlyWritten ==
    ASSUME NEW s \in Record, NEW w,
           w.head \in {Blank, encode(s).head}, w.body \in {Blank, encode(s).body},
           w.bonds \in {Blank, encode(s).bonds}
    PROVE  /\ decode(w) \in {s, Nil}
           /\ w.head = Blank \/ w.body = Blank \/ w.bonds = Blank => decode(w) = Nil
<1>1. /\ encode(s).body # Blank /\ encode(s).bonds # Blank
      /\ encode(s) = encode_as(2, s) /\ encode(s).bonds = s.bonds
  BY Encoded DEF encode
<1>2. CASE w.head = Blank
  BY <1>2 DEF decode
<1>3. CASE w.head = encode(s).head /\ (w.body = Blank \/ w.bonds = Blank)
  <2>1. ~(w.body = encode_as(2, s).body /\ w.bonds = s.bonds)
    BY <1>1, <1>3
  <2> QED BY <1>1, <1>3, <2>1, Decoded
<1>4. CASE /\ w.head = encode(s).head /\ w.body = encode(s).body
           /\ w.bonds = encode(s).bonds
  <2>1. decode(w) = s
    BY <1>4, EncodedIsDecoded
  <2>2. w.head # Blank
    <3>1. encode_as(2, s).head \in Header
      BY Encoded
    <3> QED BY <1>1, <1>4, <3>1
  <2> QED BY <1>1, <1>4, <2>1, <2>2
<1> QED BY <1>2, <1>3, <1>4

(* A bond that is added is in the table, which keeps its bound and has one *)
(* bond for each phone (DeviceStore::add_bond).                            *)
LEMMA AddedBond ==
    ASSUME NEW s \in Good, NEW b \in Bond
    PROVE  add_bond(s, b) \in Good /\ b \in ToSet(add_bond(s, b).bonds)
<1> DEFINE t == s.bonds
           same == {i \in 1..Len(t) : addrOf(t[i]) = addrOf(b)}
           r == IF Len(t) < MaxBonds THEN t ELSE Tail(t)
           new == IF same # {} THEN [i \in 1..Len(t) |-> IF i \in same THEN b ELSE t[i]]
                  ELSE Append(r, b)
<1>1. /\ s \in Record /\ t \in Table
      /\ \A i, j \in 1..Len(t) : addrOf(t[i]) = addrOf(t[j]) => i = j
  BY DEF Good, Record
<1>2. t \in Seq(Bond) /\ Len(t) <= MaxBonds /\ Len(t) \in Nat
  BY <1>1, TableIsSeq
<1>3. add_bond(s, b) = [s EXCEPT !.bonds = new]
  BY DEF add_bond
<1> HIDE DEF new
<1>4. SUFFICES /\ new \in Seq(Bond) /\ Len(new) <= MaxBonds
               /\ \A i, j \in 1..Len(new) : addrOf(new[i]) = addrOf(new[j]) => i = j
               /\ \E i \in 1..Len(new) : new[i] = b
  <2>1. ASSUME new \in Seq(Bond), Len(new) <= MaxBonds,
               \A i, j \in 1..Len(new) : addrOf(new[i]) = addrOf(new[j]) => i = j,
               NEW i \in 1..Len(new), new[i] = b
        PROVE  add_bond(s, b) \in Good /\ b \in ToSet(add_bond(s, b).bonds)
    <3>1. new \in Table
      BY <2>1, TableIsSeq
    <3>2. add_bond(s, b) \in Record /\ add_bond(s, b).bonds = new
      BY <1>1, <1>3, <3>1 DEF Record
    <3>3. i \in DOMAIN new
      BY <2>1
    <3> QED BY <2>1, <3>2, <3>3 DEF Good, ToSet
  <2> QED BY <2>1
<1>5. CASE same # {}
  <2>1. new = [i \in 1..Len(t) |-> IF i \in same THEN b ELSE t[i]]
    BY <1>5 DEF new
  <2>2. new \in Seq(Bond) /\ Len(new) = Len(t)
    BY <1>2, <2>1
  <2>3. \A i \in 1..Len(t) : addrOf(new[i]) = addrOf(t[i])
    BY <2>1
  <2>4. PICK i \in 1..Len(t) : i \in same
    BY <1>5
  <2>5. new[i] = b
    BY <2>1, <2>4
  <2> QED BY <1>1, <1>2, <2>2, <2>3, <2>5
<1>6. CASE same = {}
  <2>1. /\ r \in Seq(Bond) /\ Len(r) < MaxBonds /\ Len(r) \in Nat
        /\ \A i \in 1..Len(r) : \E j \in 1..Len(t) : r[i] = t[j]
        /\ \A i, j \in 1..Len(r) : addrOf(r[i]) = addrOf(r[j]) => i = j
    <3>1. CASE Len(t) < MaxBonds
      BY <1>1, <1>2, <3>1
    <3>2. CASE ~(Len(t) < MaxBonds)
      <4>1. r = Tail(t) /\ Len(t) = MaxBonds /\ t # << >>
        BY <1>2, <3>2
      <4>2. r \in Seq(Bond) /\ Len(r) = Len(t) - 1 /\ \A i \in 1..Len(r) : r[i] = t[i + 1]
        BY <1>2, <4>1
      <4>3. \A i \in 1..Len(r) : i + 1 \in 1..Len(t)
        BY <1>2, <4>2
      <4>4. \A i, j \in 1..Len(r) : addrOf(r[i]) = addrOf(r[j]) => i + 1 = j + 1
        BY <1>1, <4>2, <4>3
      <4> QED BY <1>2, <4>1, <4>2, <4>3, <4>4
    <3> QED BY <3>1, <3>2
  <2>2. new = Append(r, b)
    BY <1>6 DEF new
  <2> HIDE DEF r
  <2>3. /\ new \in Seq(Bond) /\ Len(new) = Len(r) + 1 /\ new[Len(r) + 1] = b
        /\ \A i \in 1..Len(r) : new[i] = r[i]
    BY <2>1, <2>2
  <2>4. \A i \in 1..Len(r) : addrOf(r[i]) # addrOf(b)
    BY <1>6, <2>1
  <2>5. ASSUME NEW i \in 1..Len(new), NEW j \in 1..Len(new), addrOf(new[i]) = addrOf(new[j])
        PROVE  i = j
    <3>1. i \in 1..Len(r) \/ i = Len(r) + 1
      BY <2>1, <2>3
    <3>2. j \in 1..Len(r) \/ j = Len(r) + 1
      BY <2>1, <2>3
    <3>3. CASE i \in 1..Len(r) /\ j \in 1..Len(r)
      BY <2>1, <2>3, <2>5, <3>3
    <3>4. CASE i \in 1..Len(r) /\ j = Len(r) + 1
      BY <2>3, <2>4, <2>5, <3>4
    <3>5. CASE i = Len(r) + 1 /\ j \in 1..Len(r)
      BY <2>3, <2>4, <2>5, <3>5
    <3> QED BY <3>1, <3>2, <3>3, <3>4, <3>5
  <2>6. Len(r) + 1 \in 1..Len(new) /\ Len(new) <= MaxBonds
    BY <2>1, <2>3
  <2> QED BY <2>3, <2>5, <2>6
<1> QED BY <1>5, <1>6

----------------------------------------------------------------------------
(* The write in progress. *)

LEMMA ImageFacts ==
    ASSUME ValuesInv
    PROVE  /\ Image("record") = encode(mem) /\ Image("key") = key_record(key)
           /\ Image("record") \in [head : Header, body : Body, bonds : Table]
           /\ Image("record").head = encode_as(2, mem).head
           /\ Image("key") = [head |-> <<"OXK1", key>>, key |-> key]
           /\ Image("key").head = <<"OXK1", key>> /\ Image("key").key = key
<1>1. mem \in Record /\ key \in Identity
  BY DEF ValuesInv, Good
<1>2. Image("record") = encode(mem) /\ Image("key") = key_record(key)
  BY DEF Image
<1>3. encode(mem) \in [head : Header, body : Body, bonds : Table]
  <2> DEFINE e == encode_as(2, mem)
  <2>1. e = [w \in {"head", "body", "bonds"} |-> e[w]]
    BY Names DEF encode_as
  <2>2. e.head \in Header /\ e.body \in Body /\ e.bonds \in Table
    BY <1>1, Encoded
  <2> HIDE DEF e
  <2>3. e = [head |-> e.head, body |-> e.body, bonds |-> e.bonds]
    BY <2>1
  <2>4. e \in [head : Header, body : Body, bonds : Table]
    BY <2>2, <2>3
  <2> QED BY <2>4 DEF encode, e
<1>4. key_record(key) = [head |-> <<"OXK1", key>>, key |-> key]
  BY Names DEF key_record
<1> QED BY <1>2, <1>3, <1>4 DEF encode

LEMMA AJob ==
    ASSUME ValuesInv, NEW p \in Pages, NEW a \in 1..Attempts, NEW t \in {"run", "reboot"},
           NEW n \in 0..(Len(Order(p)) + 1)
    PROVE  [page |-> p, image |-> Image(p), attempt |-> a, at |-> n, then |-> t] # Nil
<1>1. Image(p) \in [head : Header, body : Body, bonds : Table]
                     \cup [head : KeyHeader, key : Identity]
  <2>1. key \in Identity /\ <<"OXK1", key>> \in KeyHeader
    BY DEF ValuesInv, KeyHeader
  <2> QED BY <2>1, ImageFacts DEF Pages
<1>2. n \in Nat
  BY Names DEF Pages
<1>3. [page |-> p, image |-> Image(p), attempt |-> a, at |-> n, then |-> t] \in Write
  BY <1>1, <1>2 DEF Write, Pages
<1> QED BY <1>3

(* The job, as its fields. *)
LEMMA JobFacts ==
    ASSUME JobInv, job # Nil
    PROVE  /\ job.page \in Pages /\ job.attempt \in 1..Attempts
           /\ job.then \in {"run", "reboot"} /\ (job.then = "reboot" => job.page = "record")
           /\ job.at \in 0..(Len(Order(job.page)) + 1)
           /\ job = [page |-> job.page, image |-> Image(job.page), attempt |-> job.attempt,
                     at |-> job.at, then |-> job.then]
BY DEF JobInv

(* Only what is read is used of the state here: a step that leaves all of  *)
(* it alone leaves what is said of it.                                     *)
LEMMA FrameInv ==
    ASSUME StoreInv, UNCHANGED <<mem, dirty, flash, job, key, landed, gaveUp>>
    PROVE  /\ JobInv' /\ PagesInv' /\ WriteInv' /\ KeyInv' /\ LandedInv' /\ CleanIsStored'
<1>1. JobInv'
  BY DEF StoreInv, JobInv, Image
<1>2. PagesInv'
  BY DEF StoreInv, PagesInv
<1>3. WriteInv' /\ KeyInv'
  BY DEF StoreInv, WriteInv, KeyInv, Image
<1>4. LandedInv' /\ CleanIsStored'
  BY DEF StoreInv, LandedInv, CleanIsStored
<1> QED BY <1>1, <1>2, <1>3, <1>4

(* The values but the timer are those of a step that only writes a page.   *)
LEMMA ValuesFrame ==
    ASSUME StoreInv,
           UNCHANGED <<mem, dirty, key, link, stack, cell, forget, landed, missed, gaveUp,
                       asked, pairings, boots>>
    PROVE  ValuesInv' /\ TrustedIsKept' /\ \A p \in Pages : Image(p)' = Image(p)
<1>1. ValuesInv'
  BY DEF StoreInv, ValuesInv
<1>2. TrustedIsKept'
  BY DEF StoreInv, TrustedIsKept
<1>3. \A p \in Pages : Image(p)' = Image(p)
  BY DEF Image
<1> QED BY <1>1, <1>2, <1>3

(* One word of one page. *)
LEMMA PageUpdate ==
    ASSUME PagesInv, NEW p \in Pages, NEW w \in ToSet(Order(p)), NEW x,
           flash' = [flash EXCEPT ![p][w] = x]
    PROVE  /\ flash'[p][w] = x
           /\ \A o \in ToSet(Order(p)) \ {w} : flash'[p][o] = flash[p][o]
           /\ \A q \in Pages \ {p} : flash'[q] = flash[q]
           /\ DOMAIN flash' = Pages
           /\ \A q \in Pages : DOMAIN flash'[q] = ToSet(Order(q))
           /\ flash' = [q \in Pages |-> flash'[q]]
           /\ \A q \in Pages : flash'[q] = [o \in ToSet(Order(q)) |-> flash'[q][o]]
BY DEF PagesInv

(* A page keeps its form when a word of it is erased, or written as it is  *)
(* to be.                                                                  *)
LEMMA PagesStay ==
    ASSUME ValuesInv, PagesInv, NEW p \in Pages, NEW w \in ToSet(Order(p)),
           NEW x \in {Blank, Image(p)[w]}, flash' = [flash EXCEPT ![p][w] = x]
    PROVE  PagesInv'
<1>1. /\ flash'[p][w] = x
      /\ \A o \in ToSet(Order(p)) \ {w} : flash'[p][o] = flash[p][o]
      /\ \A q \in Pages \ {p} : flash'[q] = flash[q]
  BY PageUpdate
<1>2. /\ DOMAIN flash' = Pages
      /\ \A q \in Pages : DOMAIN flash'[q] = ToSet(Order(q))
      /\ flash' = [q \in Pages |-> flash'[q]]
      /\ \A q \in Pages : flash'[q] = [o \in ToSet(Order(q)) |-> flash'[q][o]]
  BY PageUpdate
<1>3. mem \in Good /\ key \in Identity
  BY DEF ValuesInv
<1>4. \/ flash'["record"].head = flash["record"].head
      \/ flash'["record"].head = Blank
      \/ flash'["record"].head = encode_as(2, mem).head
  BY <1>1, Names, ImageFacts DEF Pages
<1>5. \/ flash["record"].head = Blank
      \/ \E v \in {1, 2}, s \in Good : flash["record"].head = encode_as(v, s).head
  BY DEF PagesInv
<1>6. \/ flash'["record"].head = Blank
      \/ \E v \in {1, 2}, s \in Good : flash'["record"].head = encode_as(v, s).head
  BY <1>3, <1>4, <1>5
<1>7. /\ flash'["key"].head \in {flash["key"].head, Blank, <<"OXK1", key>>}
      /\ flash'["key"].key \in {flash["key"].key, Blank, key}
  BY <1>1, Names, ImageFacts DEF Pages
<1>8. /\ flash'["key"].head \in ({"OXK1"} \X Identity) \cup {Blank}
      /\ flash'["key"].key \in Identity \cup {Blank}
  BY <1>3, <1>7 DEF PagesInv
<1> QED BY <1>2, <1>6, <1>8 DEF PagesInv

(* The key cannot be read from its page while a word of it is blank.       *)
LEMMA BlankIsNoKey ==
    ASSUME NEW w, w.head \in ({"OXK1"} \X Identity) \cup {Blank},
           w.key \in Identity \cup {Blank}, w.head = Blank \/ w.key = Blank
    PROVE  read_key(w) = Nil
<1>1. <<"OXK1", w.key>> \in KeyHeader
  BY DEF KeyHeader
<1>2. w.head # <<"OXK1", w.key>>
  <2>1. CASE w.head = Blank
    BY <1>1, <2>1
  <2>2. CASE w.head \in {"OXK1"} \X Identity /\ w.key = Blank
    BY <2>2
  <2> QED BY <2>1, <2>2
<1> QED BY <1>2 DEF read_key

LEMMA EraseWordInv ==
    ASSUME StoreInv, EraseWord
    PROVE  StoreInv'
<1> DEFINE p == job.page
<1>1. job # Nil /\ job.at = 0 /\ job' = job /\ p \in Pages
  BY JobFacts DEF EraseWord, StoreInv
<1>2. UNCHANGED <<mem, dirty, key, link, stack, cell, forget, landed, missed, gaveUp,
                  asked, pairings, boots>>
  BY DEF EraseWord, counters
<1>3. PICK w \in ToSet(Order(p)) : flash' = [flash EXCEPT ![p][w] = Blank]
  BY DEF EraseWord
<1>4. ValuesInv' /\ TrustedIsKept' /\ \A q \in Pages : Image(q)' = Image(q)
  BY <1>2, ValuesFrame
<1>5. PagesInv /\ ValuesInv /\ PagesInv'
  BY <1>1, <1>3, PagesStay DEF StoreInv
<1>6. JobInv'
  BY <1>1, <1>4 DEF StoreInv, JobInv
<1>7. /\ flash'[p][w] = Blank
      /\ \A o \in ToSet(Order(p)) \ {w} : flash'[p][o] = flash[p][o]
      /\ \A q \in Pages \ {p} : flash'[q] = flash[q]
  <2> HIDE DEF p
  <2> QED BY <1>1, <1>3, <1>5, PageUpdate
<1>8. WriteInv'
  BY <1>1 DEF WriteInv
<1>9. KeyInv'
  <2>1. ASSUME p = "key" PROVE read_key(flash'["key"]) # key
    <3>1. flash'["key"].head = Blank \/ flash'["key"].key = Blank
      BY <1>7, <2>1, Names
    <3>2. read_key(flash'["key"]) = Nil
      BY <1>5, <3>1, BlankIsNoKey DEF PagesInv
    <3> QED BY <1>5, <3>2 DEF ValuesInv
  <2> QED BY <1>1, <1>2, <2>1 DEF KeyInv
<1>10. decode(flash'["record"]) \in {decode(flash["record"]), Nil}
  <2>1. CASE p = "record"
    <3> DEFINE y == flash["record"]
               x == flash'["record"]
    <3>1. /\ w \in {"head", "body", "bonds"} /\ x[w] = Blank
          /\ \A o \in {"head", "body", "bonds"} \ {w} : x[o] = y[o]
      BY <1>7, <2>1, Names
    <3>2. \/ y.head = Blank
          \/ \E v \in {1, 2}, s \in Good : y.head = encode_as(v, s).head
      BY <1>5 DEF PagesInv
    <3> HIDE DEF x, y
    <3>3. decode(x) \in {decode(y), Nil}
      BY <3>1, <3>2, ErasingDecodes
    <3> QED BY <3>3 DEF x, y
  <2>2. CASE p = "key"
    BY <1>1, <1>7, <2>2 DEF Pages
  <2> QED BY <1>1, <2>1, <2>2 DEF Pages
<1>11. p = "key" => flash'["record"] = flash["record"]
  BY <1>7 DEF Pages
<1>12. LandedInv'
  BY <1>1, <1>2, <1>10, <1>11 DEF StoreInv, LandedInv
<1>13. CleanIsStored'
  BY <1>1, <1>2, <1>11 DEF StoreInv, CleanIsStored
<1> QED BY <1>4, <1>5, <1>6, <1>8, <1>9, <1>12, <1>13 DEF StoreInv

LEMMA EraseDoneInv ==
    ASSUME StoreInv, EraseDone
    PROVE  StoreInv'
<1> DEFINE p == job.page
<1>1. /\ job # Nil /\ job.at = 0 /\ p \in Pages /\ flash[p] = Erased(p)
      /\ job.attempt \in 1..Attempts /\ job.then \in {"run", "reboot"}
      /\ job.then = "reboot" => p = "record"
      /\ job' = [page |-> p, image |-> Image(p), attempt |-> job.attempt, at |-> 1,
                 then |-> job.then]
  BY JobFacts DEF EraseDone, StoreInv
<1>2. UNCHANGED <<mem, dirty, key, link, stack, cell, forget, landed, missed, gaveUp,
                  asked, pairings, boots>> /\ flash' = flash
  BY DEF EraseDone, counters
<1>3. ValuesInv' /\ TrustedIsKept' /\ \A q \in Pages : Image(q)' = Image(q)
  BY <1>2, ValuesFrame
<1>4. 1 \in 0..(Len(Order(p)) + 1)
  BY <1>1, Names DEF Pages
<1>5. job' # Nil
  BY <1>1, <1>4, AJob DEF StoreInv
<1>6. JobInv'
  BY <1>1, <1>3, <1>4 DEF JobInv
<1>7. PagesInv'
  BY <1>2 DEF StoreInv, PagesInv
<1>8. \A i \in 1..Len(Order(p)) : flash[p][Order(p)[i]] = Blank
  BY <1>1, Names DEF Erased, Pages
<1>9. WriteInv' /\ KeyInv'
  BY <1>1, <1>2, <1>8 DEF WriteInv, KeyInv
<1>10. LandedInv' /\ CleanIsStored'
  BY <1>1, <1>2, <1>5 DEF StoreInv, LandedInv, CleanIsStored
<1> QED BY <1>3, <1>6, <1>7, <1>9, <1>10 DEF StoreInv

LEMMA WriteWordInv ==
    ASSUME StoreInv, WriteWord
    PROVE  StoreInv'
<1>1. PICK p \in Pages : job.page = p
  BY JobFacts DEF WriteWord, StoreInv
<1>2. PICK n \in 1..Len(Order(p)) : job.at = n
  BY <1>1 DEF WriteWord
<1>3. /\ job # Nil
      /\ job.attempt \in 1..Attempts /\ job.then \in {"run", "reboot"}
      /\ job.then = "reboot" => p = "record"
      /\ job.image = Image(p)
      /\ job' = [page |-> p, image |-> Image(p), attempt |-> job.attempt, at |-> n + 1,
                 then |-> job.then]
  BY <1>1, <1>2, JobFacts DEF WriteWord, StoreInv
<1>4. UNCHANGED <<mem, dirty, key, link, stack, cell, forget, landed, missed, gaveUp,
                  asked, pairings, boots>>
  BY DEF WriteWord
<1>5. PICK w \in ToSet(Order(p)) : w = Order(p)[n]
  BY Names DEF Pages
<1>6. flash' = [flash EXCEPT ![p][w] = Image(p)[w]] \/ flash' = flash
  BY <1>1, <1>2, <1>3, <1>5 DEF WriteWord
<1>7. ValuesInv' /\ TrustedIsKept' /\ \A q \in Pages : Image(q)' = Image(q)
  BY <1>4, ValuesFrame
<1>8. n + 1 \in 0..(Len(Order(p)) + 1) /\ n \in Nat
  BY Names DEF Pages
<1>9. job' # Nil
  BY <1>3, <1>8, AJob DEF StoreInv
<1>10. JobInv'
  BY <1>3, <1>7, <1>8 DEF JobInv
<1>11. ValuesInv /\ PagesInv
  BY DEF StoreInv
<1>12. /\ flash'[p][w] \in {flash[p][w], Image(p)[w]}
       /\ \A o \in ToSet(Order(p)) \ {w} : flash'[p][o] = flash[p][o]
       /\ \A q \in Pages \ {p} : flash'[q] = flash[q]
  <2>1. CASE flash' = flash
    BY <2>1
  <2>2. CASE flash' = [flash EXCEPT ![p][w] = Image(p)[w]]
    BY <1>11, <2>2, PageUpdate
  <2> QED BY <1>6, <2>1, <2>2
<1>13. PagesInv'
  <2>1. CASE flash' = flash
    BY <1>11, <2>1 DEF PagesInv
  <2>2. CASE flash' = [flash EXCEPT ![p][w] = Image(p)[w]]
    BY <1>11, <2>2, PagesStay
  <2> QED BY <1>6, <2>1, <2>2
<1>14. \A i \in 1..Len(Order(p)) :
          /\ flash[p][Order(p)[i]] \in {Blank, Image(p)[Order(p)[i]]}
          /\ i >= n => flash[p][Order(p)[i]] = Blank
  BY <1>1, <1>2, <1>3, <1>8 DEF StoreInv, WriteInv
<1>15. ASSUME NEW i \in 1..Len(Order(p))
       PROVE  /\ flash'[p][Order(p)[i]] \in {Blank, Image(p)[Order(p)[i]]}
              /\ i >= n + 1 => flash'[p][Order(p)[i]] = Blank
  <2>1. CASE i = n
    <3>1. n \in Nat /\ Order(p)[i] = w
      BY <1>5, <1>8, <2>1
    <3>2. ~(i >= n + 1)
      BY <1>8, <2>1
    <3> QED BY <1>12, <1>14, <3>1, <3>2
  <2>2. CASE i # n
    <3>1. Order(p)[i] # w /\ Order(p)[i] \in ToSet(Order(p))
      BY <1>5, <2>2, Names DEF Pages
    <3>2. i >= n + 1 => i >= n
      BY <1>8, Names DEF Pages
    <3> QED BY <1>12, <1>14, <3>1, <3>2
  <2> QED BY <2>1, <2>2
<1>16. WriteInv'
  BY <1>3, <1>7, <1>15 DEF WriteInv
<1>17. KeyInv'
  BY <1>3, <1>8 DEF KeyInv
<1>18. p = "key" => flash'["record"] = flash["record"]
  BY <1>12 DEF Pages
<1>19. job'.page = p /\ job'.at # 0
  BY <1>3, <1>8
<1>20. LandedInv' /\ CleanIsStored'
  <2>1. CASE p = "record"
    BY <1>9, <1>19, <2>1 DEF LandedInv, CleanIsStored
  <2>2. CASE p = "key"
    <3>1. flash'["record"] = flash["record"] /\ job.page = "key"
      BY <1>1, <1>18, <2>2
    <3> QED BY <1>4, <3>1 DEF StoreInv, LandedInv, CleanIsStored
  <2> QED BY <2>1, <2>2 DEF Pages
<1> QED BY <1>7, <1>10, <1>13, <1>16, <1>17, <1>20 DEF StoreInv

(* Where a write may end: it took, as the readback found; or it did not,   *)
(* and the key is not on its page, and the record page holds what landed   *)
(* last, or nothing.                                                       *)
Failing ==
    \/ job.at <= Len(Order(job.page))
    \/ job.at = Len(Order(job.page)) + 1 /\ ~Took

LEMMA Unfinished ==
    ASSUME StoreInv, job # Nil, Failing
    PROVE  /\ job.page = "key" => read_key(flash["key"]) # key
           /\ job.page = "record" => decode(flash["record"]) \in {Nil, landed}
<1>1. JobInv /\ PagesInv /\ ValuesInv
  BY DEF StoreInv
<1>2. ASSUME job.page = "key" PROVE read_key(flash["key"]) # key
  <2> DEFINE w == flash["key"]
  <2>0. Len(Order(job.page)) = 2
    BY <1>2, Names
  <2>4. job.image = Image("key")
    BY <1>1, <1>2, JobFacts
  <2>1. job.at \in 0..3
    <3>1. job.at \in 0..(Len(Order(job.page)) + 1)
      BY <1>1, JobFacts
    <3> QED BY <2>0, <3>1
  <2>2. CASE job.at = 0
    BY <1>2, <2>2 DEF StoreInv, KeyInv
  <2>3. CASE job.at # 0
    <3>1. /\ w.head \in {Blank, Image("key").head} /\ w.key \in {Blank, Image("key").key}
          /\ 2 >= job.at => w.key = Blank
      <4>1. \A i \in 1..2 : /\ w[Order("key")[i]] \in {Blank, Image("key")[Order("key")[i]]}
                            /\ i >= job.at => w[Order("key")[i]] = Blank
        BY <1>2, <2>1, <2>3, Names DEF StoreInv, WriteInv
      <4>2. Order("key")[1] = "head" /\ Order("key")[2] = "key" /\ 1 \in 1..2 /\ 2 \in 1..2
        BY Names
      <4> QED BY <4>1, <4>2
    <3>2. w.head = Blank \/ w.key = Blank
      <4>1. CASE 2 >= job.at
        BY <3>1, <4>1
      <4>2. CASE ~(2 >= job.at)
        <5>1. job.at = 3 /\ ~Took
          BY <2>0, <2>1, <4>2 DEF Failing
        <5>2. w # Image("key")
          BY <1>2, <2>4, <5>1 DEF Took
        <5>3. w = [o \in {"head", "key"} |-> w[o]]
          BY <1>1, Names DEF PagesInv, Pages
        <5> HIDE DEF w
        <5>4. w = [head |-> w.head, key |-> w.key]
          BY <5>3
        <5> QED BY <1>1, <3>1, <5>2, <5>4, ImageFacts
      <4> QED BY <4>1, <4>2
    <3>3. read_key(w) = Nil
      BY <1>1, <3>2, BlankIsNoKey DEF PagesInv
    <3> QED BY <1>1, <3>3 DEF ValuesInv
  <2> QED BY <2>2, <2>3
<1>3. ASSUME job.page = "record" PROVE decode(flash["record"]) \in {Nil, landed}
  <2> DEFINE w == flash["record"]
  <2>0. Len(Order(job.page)) = 3
    BY <1>3, Names
  <2>1. job.at \in 0..4
    <3>1. job.at \in 0..(Len(Order(job.page)) + 1)
      BY <1>1, JobFacts
    <3> QED BY <2>0, <3>1
  <2>2. CASE job.at = 0
    BY <2>2 DEF StoreInv, LandedInv
  <2>3. CASE job.at # 0
    <3>1. /\ w.head \in {Blank, encode(mem).head} /\ w.body \in {Blank, encode(mem).body}
          /\ w.bonds \in {Blank, encode(mem).bonds}
          /\ 3 >= job.at => w.bonds = Blank
      <4>1. \A i \in 1..3 :
               /\ w[Order("record")[i]] \in {Blank, Image("record")[Order("record")[i]]}
               /\ i >= job.at => w[Order("record")[i]] = Blank
        BY <1>3, <2>1, <2>3, Names DEF StoreInv, WriteInv
      <4>2. /\ Order("record")[1] = "head" /\ Order("record")[2] = "body"
            /\ Order("record")[3] = "bonds" /\ 1 \in 1..3 /\ 2 \in 1..3 /\ 3 \in 1..3
        BY Names
      <4> QED BY <1>1, <4>1, <4>2, ImageFacts
    <3>2. mem \in Record
      BY <1>1 DEF ValuesInv, Good
    <3>3. decode(w) \in {mem, Nil} /\ (w.bonds = Blank => decode(w) = Nil)
      BY <3>1, <3>2, PartlyWritten
    <3>4. CASE 3 >= job.at
      BY <3>1, <3>3, <3>4
    <3>5. CASE ~(3 >= job.at)
      <4>1. ~Took
        BY <2>0, <2>1, <3>5 DEF Failing
      <4>2. decode(w) # mem
        BY <1>3, <4>1 DEF Took
      <4> QED BY <3>3, <4>2
    <3> QED BY <3>4, <3>5
  <2> QED BY <2>2, <2>3
<1> QED BY <1>2, <1>3

----------------------------------------------------------------------------
(* A boot finds the record and the key as the pages have them. *)
LEMMA BootInv ==
    ASSUME StoreInv, NEW why \in BOOLEAN, Boot(flash, why)
    PROVE  /\ StoreInv'
           /\ mem' = load(flash["record"]) /\ boots' = boots + 1 /\ asked' = why
           /\ read_key(flash["key"]) # Nil => key' = read_key(flash["key"])
<1> DEFINE found == read_key(flash["key"])
           made == <<"key", boots + 1>>
           s == load(flash["record"])
<1>1. /\ mem' = s /\ landed' = s /\ stack' = ToSet(s.bonds)
      /\ missed' = {} /\ gaveUp' = FALSE
      /\ dirty' = Nil /\ cell' = Nil /\ forget' = FALSE /\ link' = Nil
      /\ key' = IF found = Nil THEN made ELSE found
      /\ job' = IF found = Nil THEN Save("key", key_record(made), "run") ELSE Nil
      /\ boots' = boots + 1 /\ flash' = flash /\ asked' = why /\ pairings' = pairings
  BY DEF Boot
<1>2. ValuesInv /\ PagesInv
  BY DEF StoreInv
<1>3. /\ s \in Good /\ s \in {decode(flash["record"]), New}
      /\ decode(flash["record"]) \in Good \cup {Nil}
      /\ decode(flash["record"]) # Nil => s = decode(flash["record"])
  <2> DEFINE y == flash["record"]
  <2>1. \/ y.head = Blank
        \/ \E v \in {1, 2}, r \in Good : y.head = encode_as(v, r).head
    BY <1>2 DEF PagesInv
  <2> HIDE DEF y
  <2>2. /\ load(y) \in Good /\ load(y) \in {decode(y), New} /\ decode(y) \in Good \cup {Nil}
        /\ decode(y) # Nil => load(y) = decode(y)
    BY <2>1, DecodedIsGood
  <2> QED BY <2>2 DEF y
<1>4. found \in Identity \cup {Nil}
  <2>1. CASE flash["key"].head = <<"OXK1", flash["key"].key>>
    <3>1. <<"OXK1", flash["key"].key>> # Blank
      <4>1. flash["key"].key \in Identity \cup {Blank}
        BY <1>2 DEF PagesInv
      <4> QED BY <4>1 DEF KeyHeader
    <3>2. flash["key"].head \in {"OXK1"} \X Identity
      BY <1>2, <2>1, <3>1 DEF PagesInv
    <3> QED BY <2>1, <3>2 DEF read_key
  <2>2. CASE flash["key"].head # <<"OXK1", flash["key"].key>>
    BY <2>2 DEF read_key
  <2> QED BY <2>1, <2>2
<1>5. made \in Identity /\ made # Nil
  BY <1>2 DEF ValuesInv, Identity
<1> HIDE DEF s, found, made
<1>6. ToSet(s.bonds) \subseteq Bond
  <2>1. s.bonds \in Seq(Bond)
    BY <1>3, TableIsSeq DEF Good, Record
  <2> QED BY <2>1 DEF ToSet
<1>7. ValuesInv'
  <2>1. mem' \in Good /\ landed' \in Good /\ key' \in Identity /\ stack' \subseteq Bond
    BY <1>1, <1>3, <1>4, <1>5, <1>6
  <2>2. /\ dirty' \in {Nil} \cup 0..(Idle + 1) /\ link' \in Phones \cup {Nil}
        /\ cell' \in Bond \cup {Nil} /\ missed' \subseteq Bond
        /\ pairings' \in 0..MaxPairings /\ boots' \in Nat
    BY <1>1, <1>2 DEF ValuesInv
  <2>3. forget' \in BOOLEAN /\ gaveUp' \in BOOLEAN /\ asked' \in BOOLEAN
    BY <1>1
  <2> QED BY <2>1, <2>2, <2>3 DEF ValuesInv
<1>8. JobInv'
  <2>1. CASE found = Nil
    <3>1. key' = made /\ job' = Save("key", key_record(made), "run")
      BY <1>1, <2>1
    <3>2. /\ job' = [page |-> "key", image |-> Image("key")', attempt |-> 1, at |-> 0,
                    then |-> "run"]
          /\ "key" \in Pages /\ 1 \in 1..Attempts /\ 0 \in 0..(Len(Order("key")) + 1)
      BY <3>1, Names DEF Save, Image, Pages
    <3> QED BY <3>2 DEF JobInv
  <2>2. CASE found # Nil
    BY <1>1, <2>2 DEF JobInv
  <2> QED BY <2>1, <2>2
<1>9. PagesInv'
  BY <1>1, <1>2 DEF PagesInv
<1>10. job' # Nil => job'.page = "key" /\ job'.at = 0 /\ found = Nil
  BY <1>1 DEF Save
<1>11. WriteInv'
  BY <1>10 DEF WriteInv
<1>12. KeyInv'
  <2>1. ASSUME found = Nil PROVE read_key(flash'["key"]) # key'
    BY <1>1, <1>5, <2>1 DEF found
  <2> QED BY <1>10, <2>1 DEF KeyInv
<1>13. LandedInv' /\ CleanIsStored'
  <2>1. decode(flash'["record"]) \in {Nil, landed'} /\ load(flash'["record"]) = landed'
    BY <1>1, <1>3 DEF s
  <2> QED BY <1>1, <2>1 DEF LandedInv, CleanIsStored
<1>14. TrustedIsKept'
  BY <1>1 DEF TrustedIsKept
<1>15. StoreInv'
  BY <1>7, <1>8, <1>9, <1>11, <1>12, <1>13, <1>14 DEF StoreInv
<1> QED BY <1>1, <1>15 DEF s, found

(* A write that ends: it took, or it is given up. *)
LEMMA ReturnInv ==
    ASSUME StoreInv, job # Nil, NEW ok \in BOOLEAN,
           IF ok THEN Took ELSE Failing, Return(ok)
    PROVE  StoreInv'
<1>1. CASE job.then = "reboot"
  BY <1>1, BootInv DEF Return
<1>2. CASE job.then # "reboot"
  <2>1. PICK p \in Pages : job.page = p
    BY JobFacts DEF StoreInv
  <2>2. /\ job' = Nil
        /\ dirty' = IF p = "record" THEN Nil ELSE dirty
        /\ gaveUp' = IF p = "record" THEN ~ok ELSE gaveUp
        /\ landed' = IF ok /\ p = "record" THEN mem ELSE landed
        /\ UNCHANGED <<mem, flash, key, link, stack, cell, forget, missed,
                       asked, pairings, boots>>
    BY <1>2, <2>1 DEF Return
  <2>3. ValuesInv /\ PagesInv
    BY DEF StoreInv
  <2>4. gaveUp' \in BOOLEAN
    BY <2>2, <2>3 DEF ValuesInv
  <2>5. ValuesInv'
    BY <2>2, <2>3, <2>4 DEF ValuesInv
  <2>6. JobInv' /\ WriteInv' /\ KeyInv'
    BY <2>2 DEF JobInv, WriteInv, KeyInv
  <2>7. PagesInv'
    BY <2>2, <2>3 DEF PagesInv
  <2>8. TrustedIsKept'
    BY <2>2 DEF StoreInv, TrustedIsKept
  <2>9. LandedInv' /\ CleanIsStored'
    <3>1. CASE p = "key"
      <4>1. UNCHANGED <<mem, dirty, gaveUp, landed, flash>>
        BY <2>2, <3>1
      <4> QED BY <2>1, <3>1, <4>1 DEF StoreInv, LandedInv, CleanIsStored
    <3>2. CASE p = "record" /\ ok
      <4>1. decode(flash["record"]) = mem /\ mem \in Record
        BY <2>1, <2>3, <3>2 DEF Took, ValuesInv, Good
      <4>2. load(flash["record"]) = mem
        BY <4>1 DEF load
      <4>3. landed' = mem' /\ flash' = flash /\ mem' = mem
        BY <2>2, <3>2
      <4> QED BY <4>1, <4>2, <4>3 DEF LandedInv, CleanIsStored
    <3>3. CASE p = "record" /\ ~ok
      <4>1. decode(flash["record"]) \in {Nil, landed}
        BY <2>1, <3>3, Unfinished
      <4>2. landed' = landed /\ flash' = flash /\ gaveUp' = TRUE
        BY <2>2, <3>3
      <4> QED BY <4>1, <4>2 DEF LandedInv, CleanIsStored
    <3> QED BY <3>1, <3>2, <3>3 DEF Pages
  <2> QED BY <2>5, <2>6, <2>7, <2>8, <2>9 DEF StoreInv
<1> QED BY <1>1, <1>2

LEMMA RetryInv ==
    ASSUME StoreInv, job # Nil, Failing, NextAttempt
    PROVE  StoreInv'
<1>1. CASE ~(job.attempt < Attempts)
  <2>1. Return(FALSE)
    BY <1>1 DEF NextAttempt
  <2> QED BY <2>1, ReturnInv
<1>2. CASE job.attempt < Attempts
  <2>1. PICK p \in Pages : job.page = p
    BY JobFacts DEF StoreInv
  <2>2. /\ job.attempt + 1 \in 1..Attempts /\ job.then \in {"run", "reboot"}
        /\ job.then = "reboot" => p = "record"
        /\ job' = [page |-> p, image |-> Image(p), attempt |-> job.attempt + 1, at |-> 0,
                   then |-> job.then]
    <3>1. PICK a \in 1..Attempts, t \in {"run", "reboot"}, n \in 0..(Len(Order(p)) + 1) :
             /\ job = [page |-> p, image |-> Image(p), attempt |-> a, at |-> n, then |-> t]
             /\ t = "reboot" => p = "record"
      BY <2>1 DEF StoreInv, JobInv
    <3>2. job' = [job EXCEPT !.attempt = @ + 1, !.at = 0]
      BY <1>2 DEF NextAttempt
    <3>3. a + 1 \in 1..Attempts /\ job.attempt = a /\ job.then = t
      BY <1>2, <3>1
    <3>4. job' = [page |-> p, image |-> Image(p), attempt |-> a + 1, at |-> 0, then |-> t]
      BY <3>1, <3>2
    <3> QED BY <3>1, <3>3, <3>4
  <2>3. UNCHANGED <<mem, dirty, key, link, stack, cell, forget, landed, missed, gaveUp,
                    asked, pairings, boots>> /\ flash' = flash
    BY <1>2 DEF NextAttempt
  <2>4. ValuesInv' /\ TrustedIsKept' /\ \A q \in Pages : Image(q)' = Image(q)
    BY <2>3, ValuesFrame
  <2>5. 0 \in 0..(Len(Order(p)) + 1)
    BY Names DEF Pages
  <2>6. job' # Nil
    BY <2>2, <2>5, AJob DEF StoreInv
  <2>7. JobInv'
    BY <2>2, <2>4, <2>5 DEF JobInv
  <2>8. PagesInv'
    BY <2>3 DEF StoreInv, PagesInv
  <2>9. WriteInv'
    BY <2>2 DEF WriteInv
  <2>10. /\ p = "key" => read_key(flash["key"]) # key
         /\ p = "record" => decode(flash["record"]) \in {Nil, landed}
    BY <2>1, Unfinished
  <2>11. KeyInv'
    BY <2>2, <2>3, <2>10 DEF KeyInv
  <2>12. LandedInv' /\ CleanIsStored'
    <3>1. CASE p = "key"
      BY <2>1, <2>3, <3>1 DEF StoreInv, LandedInv, CleanIsStored
    <3>2. CASE p = "record"
      BY <2>2, <2>3, <2>6, <2>10, <3>2 DEF LandedInv, CleanIsStored
    <3> QED BY <3>1, <3>2 DEF Pages
  <2> QED BY <2>4, <2>7, <2>8, <2>9, <2>11, <2>12 DEF StoreInv
<1> QED BY <1>1, <1>2

LEMMA ReadBackInv ==
    ASSUME StoreInv, ReadBack \/ FlashFails
    PROVE  StoreInv'
<1>1. CASE ReadBack /\ Took
  BY <1>1, ReturnInv DEF ReadBack
<1>2. CASE ReadBack /\ ~Took
  BY <1>2, RetryInv DEF ReadBack, Failing
<1>3. CASE FlashFails
  BY <1>3, RetryInv DEF FlashFails, Failing
<1> QED BY <1>1, <1>2, <1>3

----------------------------------------------------------------------------
(* The end of a pass. *)

LEMMA CommandFacts ==
    ASSUME NEW s \in Good, NEW c \in Commands(s)
    PROVE  c \in Good
<1>1. s \in Record /\ s.rom \in Rom
  BY DEF Good, Record
<1>2. c \in Record /\ c.bonds = s.bonds
  <2>1. CASE c \in WriteRom(s)
    <3>1. PICK x \in Provisioning : c = [s EXCEPT !.rom[x[1]] = x[2]]
      BY <2>1 DEF WriteRom
    <3>2. [s.rom EXCEPT ![x[1]] = x[2]] \in Rom
      BY <1>1 DEF Provisioning, Rom
    <3>3. c = [s EXCEPT !.rom = [s.rom EXCEPT ![x[1]] = x[2]]]
      BY <3>1
    <3> QED BY <1>1, <3>2, <3>3 DEF Record
  <2>2. CASE c \in SaveConfig(s) \cup DeleteConfig(s)
    <3>1. \E r \in Rom : c = [s EXCEPT !.rom = r]
      <4>1. ASSUME NEW f \in Configs, c = [s EXCEPT !.rom = save_config(@, f)]
            PROVE  \E r \in Rom : c = [s EXCEPT !.rom = r]
        <5>1. save_config(s.rom, f) \in Rom
          BY <1>1 DEF save_config, Rom
        <5> QED BY <4>1, <5>1
      <4>2. ASSUME c = [s EXCEPT !.rom = delete_config(@)]
            PROVE  \E r \in Rom : c = [s EXCEPT !.rom = r]
        <5>1. delete_config(s.rom) \in Rom
          BY <1>1 DEF delete_config, Rom
        <5> QED BY <4>2, <5>1
      <4> QED BY <2>2, <4>1, <4>2 DEF SaveConfig, DeleteConfig
    <3> QED BY <1>1, <3>1 DEF Record
  <2>3. CASE c \in StoreSignature(s) \cup SetFirmwareHash(s)
    BY <1>1, <2>3 DEF StoreSignature, SetFirmwareHash, Record
  <2>4. CASE c \in ToggleAlert(s)
    BY <1>1, <2>4 DEF ToggleAlert, Record
  <2> QED BY <2>1, <2>2, <2>3, <2>4 DEF Commands
<1> QED BY <1>2 DEF Good

(* What a pass makes of the record is given back with a bond that was      *)
(* offered, and the timer runs, or the write of it has begun.              *)
LEMMA EndOfPassInv ==
    ASSUME StoreInv, job = Nil, NEW s \in Good, NEW since \in {Nil} \cup 0..(Idle + 1),
           EndOfPass(s, since), cell # Nil \/ since # Nil,
           UNCHANGED <<flash, key, link, stack, landed, gaveUp, asked, pairings, boots>>,
           forget' \in {forget, TRUE}
    PROVE  StoreInv'
<1> DEFINE taken == IF cell = Nil THEN s ELSE add_bond(s, cell)
           d == IF cell = Nil THEN since ELSE 0
<1>1. /\ mem' = taken /\ cell' = Nil /\ dirty' = d
      /\ missed' = missed \cup (ToSet(mem.bonds) \ ToSet(taken.bonds))
      /\ job' = Nil \/ job' = Save("record", encode(taken), "run")
  BY DEF EndOfPass
<1>2. ValuesInv /\ PagesInv
  BY DEF StoreInv
<1>3. taken \in Good /\ (cell # Nil => cell \in ToSet(taken.bonds))
  BY <1>2, AddedBond DEF ValuesInv
<1>4. d \in 0..(Idle + 1) /\ d # Nil
  OBVIOUS
<1> HIDE DEF taken, d
<1>5. ToSet(mem.bonds) \subseteq Bond
  <2>1. mem.bonds \in Seq(Bond)
    BY <1>2, TableIsSeq DEF ValuesInv, Good, Record
  <2> QED BY <2>1 DEF ToSet
<1>6. ValuesInv'
  <2>1. forget' \in BOOLEAN
    BY <1>2 DEF ValuesInv
  <2>2. gaveUp' \in BOOLEAN /\ asked' \in BOOLEAN
    BY <1>2 DEF ValuesInv
  <2> QED BY <1>1, <1>2, <1>3, <1>4, <1>5, <2>1, <2>2 DEF ValuesInv
<1>7. JobInv'
  <2>1. CASE job' = Nil
    BY <2>1 DEF JobInv
  <2>2. CASE job' = Save("record", encode(taken), "run")
    <3>1. /\ job' = [page |-> "record", image |-> Image("record")', attempt |-> 1, at |-> 0,
                    then |-> "run"]
          /\ "record" \in Pages /\ 1 \in 1..Attempts /\ 0 \in 0..(Len(Order("record")) + 1)
      BY <1>1, <2>2, Names DEF Save, Image, Pages
    <3> QED BY <3>1 DEF JobInv
  <2> QED BY <1>1, <2>1, <2>2
<1>8. PagesInv'
  BY <1>2 DEF PagesInv
<1>9. job' # Nil => job'.page = "record" /\ job'.at = 0
  BY <1>1 DEF Save
<1>10. WriteInv' /\ KeyInv'
  BY <1>9 DEF WriteInv, KeyInv
<1>11. LandedInv' /\ CleanIsStored'
  BY <1>1, <1>4 DEF StoreInv, LandedInv, CleanIsStored
<1>12. TrustedIsKept'
  <2>1. ASSUME ~forget', NEW b \in stack'
        PROVE  b \in ToSet(mem'.bonds) \cup {cell'} \cup missed'
    <3>1. b \in ToSet(mem.bonds) \cup {cell} \cup missed /\ b # Nil
      BY <1>2, <2>1 DEF StoreInv, TrustedIsKept, ValuesInv
    <3> QED BY <1>1, <1>3, <3>1
  <2> QED BY <2>1 DEF TrustedIsKept
<1> QED BY <1>6, <1>7, <1>8, <1>10, <1>11, <1>12 DEF StoreInv

LEMMA PassInv ==
    ASSUME StoreInv, Pass \/ Change \/ Wipe \/ ForgetBonds
    PROVE  StoreInv'
<1>1. /\ mem \in Good /\ dirty \in {Nil} \cup 0..(Idle + 1)
      /\ 0 \in {Nil} \cup 0..(Idle + 1) /\ 0 # Nil
  BY DEF StoreInv, ValuesInv
<1>2. CASE Pass
  BY <1>1, <1>2, EndOfPassInv DEF Pass, counters
<1>3. CASE Change
  BY <1>1, <1>3, CommandFacts, EndOfPassInv DEF Change
<1>4. CASE Wipe
  BY <1>1, <1>4, NewGood, EndOfPassInv DEF Wipe
<1>5. CASE ForgetBonds
  <2>1. clear_bonds(mem) \in Good
    <3>1. clear_bonds(mem) \in Record /\ clear_bonds(mem).bonds = << >>
      BY <1>1, EmptyTable DEF clear_bonds, Good, Record
    <3> QED BY <3>1, EmptyTable DEF Good
  <2> QED BY <1>1, <1>5, <2>1, EndOfPassInv DEF ForgetBonds
<1> QED BY <1>2, <1>3, <1>4, <1>5

LEMMA AskedRestartInv ==
    ASSUME StoreInv, AskedRestart
    PROVE  StoreInv'
<1>1. /\ job = Nil /\ job' = Save("record", encode(mem), "reboot")
      /\ UNCHANGED <<mem, dirty, key, link, stack, cell, forget, landed, missed, gaveUp,
                     asked, pairings, boots>> /\ flash' = flash
  BY DEF AskedRestart, counters
<1>2. ValuesInv' /\ TrustedIsKept' /\ \A q \in Pages : Image(q)' = Image(q)
  BY <1>1, ValuesFrame
<1>3. /\ job' = [page |-> "record", image |-> Image("record"), attempt |-> 1, at |-> 0,
                then |-> "reboot"]
      /\ "record" \in Pages /\ 1 \in 1..Attempts /\ 0 \in 0..(Len(Order("record")) + 1)
  BY <1>1, Names DEF Save, Image, Pages
<1>4. job' # Nil
  BY <1>3, AJob DEF StoreInv
<1>5. JobInv'
  BY <1>2, <1>3 DEF JobInv
<1>6. PagesInv'
  BY <1>1 DEF StoreInv, PagesInv
<1>7. WriteInv' /\ KeyInv'
  BY <1>3 DEF WriteInv, KeyInv
<1>8. LandedInv' /\ CleanIsStored'
  BY <1>1, <1>3, <1>4 DEF StoreInv, LandedInv, CleanIsStored
<1> QED BY <1>2, <1>5, <1>6, <1>7, <1>8 DEF StoreInv

LEMMA AgeInv ==
    ASSUME StoreInv, Age
    PROVE  StoreInv'
<1>1. /\ dirty # Nil /\ dirty <= Idle /\ dirty' = dirty + 1
      /\ UNCHANGED <<mem, flash, job, key, link, stack, cell, forget, landed, missed,
                     gaveUp, asked, pairings, boots>>
  BY DEF Age, counters
<1>2. dirty' \in 0..(Idle + 1) /\ dirty' # Nil
  BY <1>1 DEF StoreInv, ValuesInv
<1>3. ValuesInv'
  BY <1>1, <1>2 DEF StoreInv, ValuesInv
<1>4. TrustedIsKept' /\ JobInv' /\ PagesInv'
  BY <1>1 DEF StoreInv, TrustedIsKept, JobInv, PagesInv, Image
<1>5. WriteInv' /\ KeyInv' /\ LandedInv'
  BY <1>1 DEF StoreInv, WriteInv, KeyInv, LandedInv, Image
<1>6. CleanIsStored'
  BY <1>2 DEF CleanIsStored
<1> QED BY <1>3, <1>4, <1>5, <1>6 DEF StoreInv

(* The Bluetooth task. *)
LEMMA BluetoothInv ==
    ASSUME StoreInv, Disconnect \/ Pair \/ forget_bonds \/ \E p \in Phones : Connect(p)
    PROVE  StoreInv'
<1>1. UNCHANGED <<mem, dirty, flash, job, key, landed, gaveUp, asked, boots>>
  BY DEF Connect, Disconnect, Pair, forget_bonds, counters
<1>2. JobInv' /\ PagesInv' /\ WriteInv' /\ KeyInv' /\ LandedInv' /\ CleanIsStored'
  BY <1>1, FrameInv
<1>3. ValuesInv
  BY DEF StoreInv
<1>4. CASE Pair
  <2> DEFINE new == <<link, pairings'>>
  <2>1. /\ link # Nil /\ pairings < MaxPairings /\ pairings' = pairings + 1
        /\ stack' = {b \in stack : addrOf(b) # link} \cup {new}
        /\ cell' = new /\ missed' = missed \cup ({cell} \ {Nil})
        /\ link' = link /\ forget' = forget
    BY <1>4 DEF Pair, offer_bond
  <2>2. new \in Bond
    BY <1>3, <2>1 DEF ValuesInv, Bond
  <2> HIDE DEF new
  <2>3. ValuesInv'
    BY <1>1, <1>3, <2>1, <2>2 DEF ValuesInv
  <2>4. TrustedIsKept'
    BY <1>1, <1>3, <2>1 DEF StoreInv, TrustedIsKept, ValuesInv
  <2> QED BY <1>2, <2>3, <2>4 DEF StoreInv
<1>5. CASE Disconnect \/ \E p \in Phones : Connect(p)
  <2>1. /\ link' \in Phones \cup {Nil}
        /\ UNCHANGED <<stack, cell, forget, missed, pairings>>
    BY <1>5 DEF Connect, Disconnect, counters
  <2>2. ValuesInv' /\ TrustedIsKept'
    BY <1>1, <2>1 DEF StoreInv, ValuesInv, TrustedIsKept
  <2> QED BY <1>2, <2>2 DEF StoreInv
<1>6. CASE forget_bonds
  <2>1. /\ forget' = FALSE /\ stack' = {}
        /\ UNCHANGED <<link, cell, missed, pairings>>
    BY <1>6 DEF forget_bonds, counters
  <2>2. ValuesInv' /\ TrustedIsKept'
    BY <1>1, <2>1 DEF StoreInv, ValuesInv, TrustedIsKept
  <2> QED BY <1>2, <2>2 DEF StoreInv
<1> QED BY <1>4, <1>5, <1>6

----------------------------------------------------------------------------
LEMMA InitInv == StoreInit => StoreInv
<1> DEFINE unit == [Eeprom EXCEPT !.info = "unit", !.sum = Md5("unit"), !.lock = "lock"]
           v1 == [New EXCEPT !.rom = save_config(unit, CHOOSE c \in Configs : TRUE)]
           y == flash["record"]
<1> SUFFICES ASSUME StoreInit PROVE StoreInv
  OBVIOUS
<1>1. /\ flash = [p \in Pages |-> IF p = "record" THEN encode_as(1, v1) ELSE Erased("key")]
      /\ mem = load(y) /\ landed = mem
      /\ key = <<"key", 0>> /\ job = Save("key", key_record(key), "run")
      /\ dirty = Nil /\ link = Nil /\ stack = {} /\ cell = Nil
      /\ forget = FALSE /\ missed = {} /\ gaveUp = FALSE /\ asked = FALSE
      /\ pairings = 0 /\ boots = 0
  BY DEF StoreInit, Pages
<1>2. v1 \in Good
  <2>1. (CHOOSE c \in Configs : TRUE) \in Configs
    OBVIOUS
  <2>2. PICK c \in Configs : c = CHOOSE e \in Configs : TRUE
    BY <2>1
  <2>3. save_config(unit, c) \in Rom
    BY DEF save_config, Eeprom, Rom
  <2>4. PICK r \in Rom : v1 = [New EXCEPT !.rom = r]
    BY <2>2, <2>3
  <2>5. [New EXCEPT !.rom = r] \in Record /\ [New EXCEPT !.rom = r].bonds = << >>
    BY NewGood DEF Good, Record, New
  <2> QED BY <2>4, <2>5, EmptyTable DEF Good
<1> HIDE DEF v1
<1>3. v1 \in Record
  BY <1>2 DEF Good
<1>4. y = encode_as(1, v1) /\ flash["key"] = Erased("key")
  BY <1>1 DEF Pages
<1>5. \E v \in {1, 2}, s \in Good : y.head = encode_as(v, s).head
  BY <1>2, <1>4
<1> HIDE DEF y
<1>6. /\ load(y) \in Good /\ load(y) \in {decode(y), New} /\ decode(y) \in Good \cup {Nil}
      /\ decode(y) # Nil => load(y) = decode(y)
  BY <1>5, DecodedIsGood
<1>7. ValuesInv
  <2>1. <<"key", 0>> \in Identity
    BY DEF Identity
  <2>2. forget \in BOOLEAN /\ gaveUp \in BOOLEAN /\ asked \in BOOLEAN
    BY <1>1
  <2> QED BY <1>1, <1>6, <2>1, <2>2 DEF ValuesInv
<1>8. /\ job = [page |-> "key", image |-> Image("key"), attempt |-> 1, at |-> 0, then |-> "run"]
      /\ "key" \in Pages /\ 1 \in 1..Attempts /\ 0 \in 0..(Len(Order("key")) + 1)
  BY <1>1, Names DEF Save, Image, Pages
<1>9. JobInv
  BY <1>8 DEF JobInv
<1>10. WriteInv
  BY <1>8 DEF WriteInv
<1>11. /\ flash["key"] = [w \in {"head", "key"} |-> Blank]
       /\ flash["key"].head = Blank /\ flash["key"].key = Blank
  BY <1>4, Names DEF Erased
<1>12. PagesInv
  <2>1. y = [w \in {"head", "body", "bonds"} |-> y[w]]
    BY <1>4, Names DEF encode_as
  <2>2. DOMAIN flash = Pages /\ flash = [p \in Pages |-> flash[p]]
    BY <1>1
  <2>3. \A p \in Pages : /\ DOMAIN flash[p] = ToSet(Order(p))
                         /\ flash[p] = [w \in ToSet(Order(p)) |-> flash[p][w]]
    BY <1>11, <2>1, Names DEF y, Pages
  <2> QED BY <1>5, <1>11, <2>2, <2>3 DEF PagesInv, y
<1>13. KeyInv
  <2>1. read_key(flash["key"]) = Nil
    BY <1>11, BlankIsNoKey
  <2> QED BY <1>7, <2>1 DEF KeyInv, ValuesInv
<1>14. LandedInv /\ CleanIsStored
  BY <1>1, <1>6 DEF LandedInv, CleanIsStored, y
<1>15. TrustedIsKept
  BY <1>1 DEF TrustedIsKept
<1> QED BY <1>7, <1>9, <1>10, <1>12, <1>13, <1>14, <1>15 DEF StoreInv

LEMMA StepInv == StoreInv /\ [StoreNext]_recordVars => StoreInv'
<1> SUFFICES ASSUME StoreInv, [StoreNext]_recordVars PROVE StoreInv'
  OBVIOUS
<1>1. CASE UNCHANGED recordVars
  <2>1. UNCHANGED <<mem, dirty, flash, job, key, link, stack, cell, forget, landed, missed,
                    gaveUp, asked, pairings, boots>>
    BY <1>1 DEF recordVars, counters
  <2> QED BY <2>1, FrameInv, ValuesFrame DEF StoreInv
<1>2. CASE EraseWord \/ EraseDone \/ WriteWord \/ ReadBack \/ FlashFails
  BY <1>2, EraseWordInv, EraseDoneInv, WriteWordInv, ReadBackInv
<1>3. CASE Pass \/ Change \/ Wipe \/ ForgetBonds \/ AskedRestart \/ Age
  BY <1>3, PassInv, AskedRestartInv, AgeInv
<1>4. CASE PowerLoss
  BY <1>4, BootInv DEF PowerLoss
<1>5. CASE Pair \/ Disconnect \/ forget_bonds \/ \E p \in Phones : Connect(p)
  BY <1>5, BluetoothInv
<1> QED BY <1>1, <1>2, <1>3, <1>4, <1>5 DEF StoreNext

LEMMA Inductive == StoreSpec => []StoreInv
BY InitInv, StepInv, PTL DEF StoreSpec

(* The record in memory and the one that landed, the timer, the pages, the *)
(* write in progress and the Bluetooth task keep their types, and the      *)
(* table has one bond for each phone.                                      *)
THEOREM TypeCorrect == StoreSpec => []StoreTypeOK
<1>1. StoreInv => StoreTypeOK
  <2> SUFFICES ASSUME StoreInv PROVE StoreTypeOK
    OBVIOUS
  <2>1. ValuesInv /\ PagesInv
    BY DEF StoreInv
  <2>2. /\ mem \in Record /\ landed \in Record
        /\ \A i, j \in 1..Len(mem.bonds) :
              addrOf(mem.bonds[i]) = addrOf(mem.bonds[j]) => i = j
    BY <2>1 DEF ValuesInv, Good
  <2>3. {forget, gaveUp, asked} \subseteq BOOLEAN
    BY <2>1 DEF ValuesInv
  <2>4. \A p \in {"record", "key"} : DOMAIN flash[p] = ToSet(Order(p))
    BY <2>1 DEF PagesInv, Pages
  <2>5. job = Nil \/ /\ job.page \in {"record", "key"}
                      /\ job.attempt \in 1..Attempts
                      /\ job.at \in 0..(Len(Order(job.page)) + 1)
                      /\ job.then \in {"run", "reboot"}
    BY JobFacts DEF StoreInv, Pages
  <2> QED BY <2>1, <2>2, <2>3, <2>4, <2>5 DEF StoreTypeOK, ValuesInv
<1> QED BY Inductive, <1>1, PTL

(* While the timer is not running and no write is, the flash holds what    *)
(* the memory does, unless the last write was given up; and a phone the    *)
(* stack lets in is in the record or on its way there.                     *)
THEOREM NothingForgotten == StoreSpec => [](CleanIsStored /\ TrustedIsKept)
<1>1. StoreInv => CleanIsStored /\ TrustedIsKept
  BY DEF StoreInv
<1> QED BY Inductive, <1>1, PTL

(* A boot is a loss of power, or a write that ends in a restart: one that  *)
(* took, or failed for the last time.                                      *)
LEMMA BootSteps ==
    ASSUME StoreInv, [StoreNext]_recordVars, boots' # boots
    PROVE  \E why \in BOOLEAN :
              /\ Boot(flash, why)
              /\ why => /\ job # Nil /\ job.page = "record"
                        /\ Took \/ job.attempt = Attempts
<1>1. CASE PowerLoss
  BY <1>1 DEF PowerLoss
<1>2. CASE ReadBack \/ FlashFails
  <2>1. job # Nil /\ JobInv
    BY <1>2 DEF ReadBack, FlashFails, StoreInv
  <2>2. (Return(TRUE) /\ Took) \/ NextAttempt
    BY <1>2 DEF ReadBack, FlashFails
  <2>3. ASSUME NEW ok \in BOOLEAN, Return(ok)
        PROVE  Boot(flash, TRUE) /\ job.page = "record"
    <3>1. job.then = "reboot"
      BY <2>3 DEF Return
    <3> QED BY <2>1, <2>3, <3>1, JobFacts DEF Return
  <2>4. CASE Return(TRUE) /\ Took
    BY <2>1, <2>3, <2>4
  <2>5. CASE NextAttempt
    <3>1. ~(job.attempt < Attempts) /\ Return(FALSE)
      BY <2>5 DEF NextAttempt
    <3>2. job.attempt \in 1..Attempts
      BY <2>1, JobFacts
    <3>3. job.attempt = Attempts
      BY <3>1, <3>2
    <3> QED BY <2>1, <2>3, <3>1, <3>3
  <2> QED BY <2>2, <2>4, <2>5
<1>3. CASE \/ EraseWord \/ EraseDone \/ WriteWord \/ Pass \/ Change \/ Wipe \/ ForgetBonds
           \/ AskedRestart \/ Age \/ Pair \/ Disconnect \/ forget_bonds
           \/ \E p \in Phones : Connect(p)
           \/ UNCHANGED recordVars
  <2>1. boots' = boots
    BY <1>3 DEF EraseWord, EraseDone, WriteWord, Pass, Change, Wipe, ForgetBonds,
                AskedRestart, Age, Pair, Disconnect, forget_bonds, Connect, recordVars,
                counters
  <2> QED BY <2>1
<1> QED BY <1>1, <1>2, <1>3 DEF StoreNext

(* A boot brings back the record that landed last; with a write under way  *)
(* or given up also the one being written or a board never provisioned,    *)
(* and never a mixture.                                                    *)
THEOREM WholeOrNothing == StoreSpec => BootsWhole
<1>1. ASSUME StoreInv, [StoreNext]_recordVars
      PROVE  [boots' # boots =>
                 \/ mem' = landed
                 \/ mem' \in {New, mem}
                      /\ (gaveUp \/ (job # Nil /\ job.page = "record"))]_recordVars
  <2> SUFFICES ASSUME boots' # boots
               PROVE  \/ mem' = landed
                      \/ /\ mem' \in {New, mem}
                         /\ gaveUp \/ (job # Nil /\ job.page = "record")
    OBVIOUS
  <2> DEFINE y == flash["record"]
  <2>1. mem' = load(y)
    <3>1. PICK why \in BOOLEAN : Boot(flash, why)
      BY <1>1, BootSteps
    <3> QED BY <1>1, <3>1, BootInv
  <2>2. /\ load(y) \in {decode(y), New}
        /\ decode(y) # Nil => load(y) = decode(y)
        /\ decode(y) = Nil => load(y) = New
    BY <1>1 DEF load
  <2>3. CASE (job = Nil \/ job.page = "key") /\ ~gaveUp
    BY <1>1, <2>1, <2>3 DEF StoreInv, LandedInv
  <2>4. CASE (job = Nil \/ job.page = "key") /\ gaveUp
    <3>1. decode(y) \in {Nil, landed}
      BY <1>1, <2>4 DEF StoreInv, LandedInv
    <3> QED BY <2>1, <2>2, <2>4, <3>1
  <2>5. CASE job # Nil /\ job.page # "key"
    <3>1. job.page = "record"
      BY <1>1, <2>5, JobFacts DEF StoreInv, Pages
    <3>2. decode(y) \in {Nil, landed, mem}
      <4>1. CASE Failing
        BY <1>1, <2>5, <3>1, <4>1, Unfinished
      <4>2. CASE ~Failing
        <5>1. job.at \in 0..(Len(Order(job.page)) + 1) /\ Len(Order(job.page)) = 3
          BY <1>1, <2>5, <3>1, JobFacts, Names DEF StoreInv
        <5>2. Took
          BY <4>2, <5>1 DEF Failing
        <5> QED BY <3>1, <5>2 DEF Took
      <4> QED BY <4>1, <4>2
    <3> QED BY <2>1, <2>2, <2>5, <3>1, <3>2
  <2> QED BY <2>3, <2>4, <2>5
<1> QED BY Inductive, <1>1, PTL DEF StoreSpec, BootsWhole

(* A restart that was asked for loses nothing of the record, unless the    *)
(* last attempt to write it failed.                                        *)
THEOREM AskedLosesNothing == StoreSpec => RestartKeepsAll
<1>1. ASSUME StoreInv, [StoreNext]_recordVars
      PROVE  [boots' # boots /\ asked' =>
                 mem' = mem \/ (job # Nil /\ job.attempt = Attempts)]_recordVars
  <2> SUFFICES ASSUME boots' # boots, asked', ~(job # Nil /\ job.attempt = Attempts)
               PROVE  mem' = mem
    OBVIOUS
  <2>1. PICK why \in BOOLEAN :
            /\ Boot(flash, why)
            /\ why => /\ job # Nil /\ job.page = "record"
                      /\ Took \/ job.attempt = Attempts
    BY <1>1, BootSteps
  <2>2. mem' = load(flash["record"]) /\ asked' = why
    BY <1>1, <2>1, BootInv
  <2>3. job.page = "record" /\ Took
    BY <2>1, <2>2
  <2>4. decode(flash["record"]) = mem /\ mem # Nil
    BY <1>1, <2>3 DEF Took, StoreInv, ValuesInv, Good
  <2> QED BY <2>2, <2>4 DEF load
<1> QED BY Inductive, <1>1, PTL DEF StoreSpec, RestartKeepsAll

(* Once the identity is on its page it is the board's for life.            *)
THEOREM OneIdentity == StoreSpec => IdentityForLife
<1>1. ASSUME StoreInv, [StoreNext]_recordVars
      PROVE  [read_key(flash["key"]) = key =>
                 key' = key /\ read_key(flash'["key"]) = key]_recordVars
  <2> SUFFICES ASSUME read_key(flash["key"]) = key
               PROVE  key' = key /\ read_key(flash'["key"]) = key
    OBVIOUS
  <2>0. PagesInv /\ ValuesInv /\ JobInv
    BY <1>1 DEF StoreInv
  <2>1. CASE boots' # boots
    <3>1. PICK why \in BOOLEAN : Boot(flash, why)
      BY <1>1, <2>1, BootSteps
    <3>2. key # Nil
      BY <2>0 DEF ValuesInv
    <3>3. key' = key
      BY <1>1, <3>1, <3>2, BootInv
    <3> QED BY <3>1, <3>3 DEF Boot
  <2>2. CASE EraseWord
    <3>1. job # Nil /\ job.at = 0 /\ key' = key
      BY <2>2 DEF EraseWord
    <3>2. job.page # "key"
      BY <1>1, <3>1 DEF StoreInv, KeyInv
    <3>3. flash'["key"] = flash["key"]
      <4>1. PICK w \in ToSet(Order(job.page)) : flash' = [flash EXCEPT ![job.page][w] = Blank]
        BY <2>2 DEF EraseWord
      <4>2. DOMAIN flash = Pages
        BY <2>0 DEF PagesInv
      <4> QED BY <3>2, <4>1, <4>2 DEF Pages
    <3> QED BY <3>1, <3>3
  <2>3. CASE WriteWord
    <3>1. job # Nil /\ key' = key
      BY <2>3 DEF WriteWord
    <3>2. flash' = flash \/
            flash' = [flash EXCEPT ![job.page][Order(job.page)[job.at]] =
                                       job.image[Order(job.page)[job.at]]]
      BY <2>3 DEF WriteWord
    <3>3. CASE job.page = "key"
      <4>1. job.at \in 1..2
        BY <2>3, <3>3, Names DEF WriteWord
      <4>2. Failing
        <5>1. Len(Order(job.page)) = 2
          BY <3>3, Names
        <5> QED BY <4>1, <5>1 DEF Failing
      <4> QED BY <1>1, <3>1, <3>3, <4>2, Unfinished
    <3>4. CASE job.page # "key"
      <4>1. flash'["key"] = flash["key"]
        BY <2>0, <3>2, <3>4 DEF PagesInv, Pages
      <4> QED BY <3>1, <4>1
    <3> QED BY <3>3, <3>4
  <2>4. CASE (ReadBack \/ FlashFails) /\ boots' = boots
    <3>1. boots \in Nat
      BY <2>0 DEF ValuesInv
    <3>2. flash' = flash /\ key' = key
      BY <2>4, <3>1 DEF ReadBack, FlashFails, NextAttempt, Return, Boot
    <3> QED BY <3>2
  <2>5. CASE \/ EraseDone \/ Pass \/ Change \/ Wipe \/ ForgetBonds
             \/ AskedRestart \/ Age \/ Pair \/ Disconnect \/ forget_bonds
             \/ \E p \in Phones : Connect(p)
             \/ UNCHANGED recordVars
    <3>1. flash' = flash /\ key' = key
      BY <2>5 DEF EraseDone, Pass, Change, Wipe, ForgetBonds, AskedRestart, Age, Pair,
                  Disconnect, forget_bonds, Connect, recordVars
    <3> QED BY <3>1
  <2>6. CASE PowerLoss
    <3>1. boots' = boots + 1 /\ boots \in Nat
      BY <2>0, <2>6 DEF PowerLoss, Boot, ValuesInv
    <3> QED BY <2>1, <3>1
  <2> QED BY <1>1, <2>1, <2>2, <2>3, <2>4, <2>5, <2>6 DEF StoreNext
<1> QED BY Inductive, <1>1, PTL DEF StoreSpec, IdentityForLife

(* What the board knows of itself outlives its resets, for every number of *)
(* phones, tries, faults and boots.                                        *)
THEOREM KnowledgeIsKept == StoreSpec => RecordKept
BY TypeCorrect, NothingForgotten, WholeOrNothing, AskedLosesNothing, OneIdentity, PTL
   DEF RecordKept
=============================================================================
