---------------------------- MODULE RadioProofs -----------------------------
(***************************************************************************)
(* Proofs about Radio, for tables, bands and powers of any size and chips  *)
(* that fail as often as they like.  What is aired and what is received is *)
(* not inductive: it needs how far bring-up has got, and that a chip with  *)
(* something applied has the registers of one valid configuration, though  *)
(* not always of the one the loop remembers.                               *)
(***************************************************************************)
EXTENDS Radio, TLAPS, FiniteSetTheorems, WellFoundedInduction

USE RadioAssumption DEF Ratings, Landings

(* The chip has its registers, and nothing else. *)
IsChip(ch) ==
    /\ ch = [regs |-> ch.regs, mode |-> ch.mode, len |-> ch.len, window |-> ch.window,
             pending |-> ch.pending, busy |-> ch.busy, clock |-> ch.clock,
             switch |-> ch.switch]
    /\ ch.regs = [freq |-> ch.regs.freq, table |-> ch.regs.table, sf |-> ch.regs.sf,
                  bw |-> ch.regs.bw, cr |-> ch.regs.cr, ldro |-> ch.regs.ldro,
                  pa |-> ch.regs.pa, power |-> ch.regs.power]
    /\ ch.mode \in {"standby", "rx"} /\ ch.len \in {"max", "one"}
    /\ ch.window \in BOOLEAN

(* Registers that are those of one valid configuration, whichever it is. *)
Whole(r) ==
    /\ r.table = band_of(r.freq) /\ r.table # None
    /\ r.pa = pa_config_in(r.table, r.power)
    /\ r.power <= module_max_dbm(r.table)
    /\ \E b \in Table(r.table) :
          r.bw = bandwidth_code_in(r.table, b) /\ r.ldro = low_data_rate_optimize(r.sf, b)
    /\ r.sf \in SfMin..SfMax /\ r.cr \in 1..4
    /\ (r.pa.pa_sel # 2 /\ requires_vbat_supply(r.power)) => r.pa.reg_pa_supply = 1

AppliedWhole == applied # None => Whole(chip.regs)

(* How far bring-up has got says what has been done to the chip. *)
UpInv ==
    /\ stage \in {"reset", "attach", "clock", "switch", "route", "regulator",
                  "loop", "radioless"}
    /\ stage \notin {"reset", "radioless"} => ~chip.busy
    /\ stage \in {"switch", "route", "regulator", "loop"} => chip.clock
    /\ stage \in {"route", "regulator", "loop"} => chip.switch
    /\ stage # "loop" => applied = None /\ ~receiving

(* The band's editor starts below both bands only where there is none. *)
BandInv ==
    editor # None /\ editor.field = "band" =>
        /\ editor.candidate \in {0 - 1, 0, 1}
        /\ editor.candidate < 0 => band_of(editor.original.freq) = None

Editor == [field : EditFields, original : Config, cursor : 1..Digits, candidate : Int]

EditorInv == editor \in Editor \cup {None} /\ BandInv

ModemInv ==
    /\ IsChip(chip) /\ receiving \in BOOLEAN
    /\ applied \in Config \cup {None} /\ (applied # None => ValidConfig(applied))
    /\ AppliedWhole /\ ReceivesAsApplied

ProtocolInv ==
    /\ config \in Config /\ stored \in Config \cup {None} /\ radio \in {"on", "off"}
    /\ locked \in BOOLEAN

RadioInv == ModemInv /\ ProtocolInv /\ EditorInv /\ UpInv /\ host \in BOOLEAN

-----------------------------------------------------------------------------
(* Configurations *)

LEMMA NoneIsNoConfig == None \notin Config /\ None # "SubGhz" /\ None # "HighFrequency"
OBVIOUS

(* A band is one of two or none, and the two do not meet. *)
LEMMA BandFacts ==
    ASSUME NEW f
    PROVE  /\ band_of(f) \in {"SubGhz", "HighFrequency", None}
           /\ f \in SubGhz <=> band_of(f) = "SubGhz"
           /\ f \in HighFrequency <=> band_of(f) = "HighFrequency"
<1>1. ~(f \in SubGhz /\ f \in HighFrequency)
  OBVIOUS
<1> QED
  BY <1>1, NoneIsNoConfig DEF band_of

(* What RadioConfig::check has gone through when it finds nothing. *)
LEMMA ValidFacts ==
    ASSUME NEW c \in Config, ValidConfig(c)
    PROVE  /\ band_of(c.freq) # None
           /\ c.bw \in Table(band_of(c.freq))
           /\ c.sf \in SfMin..SfMax /\ c.cr \in CrMin..CrMax
           /\ c.power <= module_max_dbm(band_of(c.freq))
           /\ pa_config_in(band_of(c.freq), c.power) # None
<1> DEFINE band == band_of(c.freq)
           max == module_max_dbm(band)
           pa == pa_config_in(band, c.power)
<1>1. c.power \in Int /\ max \in Int
  BY DEF Config, module_max_dbm
<1> HIDE DEF band, max, pa
<1>2. band # None
  BY DEF ValidConfig, check, band
<1>3. c.bw \in Table(band)
  BY <1>2 DEF ValidConfig, check, band
<1>4. c.sf \in SfMin..SfMax
  BY <1>2, <1>3 DEF ValidConfig, check, band
<1>5. c.cr \in CrMin..CrMax
  BY <1>2, <1>3, <1>4 DEF ValidConfig, check, band
<1>6. ~(c.power > max) /\ ~(c.power <= max /\ pa = None)
  BY <1>2, <1>3, <1>4, <1>5 DEF ValidConfig, check, band, max, pa
<1> QED
  BY <1>1, <1>2, <1>3, <1>4, <1>5, <1>6 DEF band, max, pa

(* The accessors' stand-ins are never a valid configuration's: its band,    *)
(* its codes and its amplifier are the ones the tables give.               *)
LEMMA AccessorFacts ==
    ASSUME NEW c \in Config, ValidConfig(c)
    PROVE  /\ Band(c) = band_of(c.freq)
           /\ bandwidth_code(c) = bandwidth_code_in(band_of(c.freq), c.bw)
           /\ valid_coding_rate_code(c) = c.cr - 4
           /\ pa_config(c) = pa_config_in(band_of(c.freq), c.power)
<1> DEFINE band == band_of(c.freq)
           below == {b \in Table(band) : b < c.bw}
           code == (IF band = "SubGhz" THEN 3 ELSE 13) + Cardinality(below)
<1>1. band # None /\ c.bw \in Table(band)
  BY ValidFacts
<1>2. Cardinality(below) \in Nat
  <2>1. IsFiniteSet(Table(band))
    BY DEF Table
  <2> QED
    BY <2>1, FS_Subset, FS_CardinalityType
<1>3. bandwidth_code_in(band, c.bw) = code
  BY <1>1 DEF bandwidth_code_in
<1> HIDE DEF below
<1>4. code \in Int
  BY <1>2
<1>5. bandwidth_code(c) = bandwidth_code_in(band, c.bw)
  <2> HIDE DEF code
  <2> QED
    BY <1>1, <1>3, <1>4 DEF bandwidth_code
<1>6. coding_rate_code(c.cr) = c.cr - 4 /\ c.cr - 4 \in Int
  BY ValidFacts DEF coding_rate_code
<1>7. valid_coding_rate_code(c) = c.cr - 4
  <2> DEFINE four == c.cr - 4
  <2> HIDE DEF four
  <2>1. four \in Int /\ coding_rate_code(c.cr) = four
    BY <1>6 DEF four
  <2>2. valid_coding_rate_code(c) = four
    BY <2>1 DEF valid_coding_rate_code
  <2> QED
    BY <2>2 DEF four
<1>8. pa_config(c) = pa_config_in(band, c.power)
  BY <1>1, ValidFacts DEF pa_config
<1> QED
  BY <1>1, <1>5, <1>7, <1>8 DEF Band

(* An amplifier asked for more than the regulator supplies is fed from the *)
(* battery: the low-power one is never asked for so much.                  *)
LEMMA SupplyFacts ==
    ASSUME NEW band, NEW dbm \in Int, NEW pa, pa = pa_config_in(band, dbm), pa # None,
           pa.pa_sel # 2, requires_vbat_supply(dbm)
    PROVE  pa.reg_pa_supply = 1
<1>1. CASE band = "SubGhz"
  <2>1. ~low_power_pa_accepts(dbm)
    <3>1. ~(LpMax > VbatAbove) /\ dbm > VbatAbove /\ LpMax \in Int /\ VbatAbove \in Int
      BY DEF requires_vbat_supply
    <3> QED
      BY <3>1 DEF low_power_pa_accepts
  <2>2. pa = high_power(dbm)
    BY <1>1, <2>1 DEF pa_config_in, pa_config_for
  <2> QED
    BY <2>2 DEF high_power
<1>2. CASE band # "SubGhz"
  BY <1>2 DEF pa_config_in, HIGH_FREQUENCY
<1> QED
  BY <1>1, <1>2

(* The registers of a valid configuration are those of one, whole. *)
LEMMA ValidIsWhole ==
    ASSUME NEW c \in Config, ValidConfig(c)
    PROVE  Whole(Registers(c))
<1> DEFINE four == c.cr - 4
           ldro == low_data_rate_optimize(c.sf, c.bw)
           pa == pa_config_in(band_of(c.freq), c.power)
<1>1. four \in 1..4
  BY ValidFacts
<1>2. ldro = low_data_rate_optimize(c.sf, c.bw) /\ pa = pa_config_in(band_of(c.freq), c.power)
  OBVIOUS
<1>3. c.power \in Int /\ pa # None
  BY ValidFacts DEF Config
<1> HIDE DEF four, ldro, pa
<1>4. Registers(c) = [freq |-> c.freq, table |-> band_of(c.freq), sf |-> c.sf,
                      bw |-> bandwidth_code_in(band_of(c.freq), c.bw), cr |-> four,
                      ldro |-> ldro, pa |-> pa, power |-> c.power]
  BY AccessorFacts DEF Registers, four, ldro, pa
<1>5. (pa.pa_sel # 2 /\ requires_vbat_supply(c.power)) => pa.reg_pa_supply = 1
  BY <1>2, <1>3, SupplyFacts
<1> DEFINE r == Registers(c)
<1>6. /\ r.freq = c.freq /\ r.table = band_of(c.freq) /\ r.sf = c.sf
      /\ r.bw = bandwidth_code_in(band_of(c.freq), c.bw) /\ r.cr = four
      /\ r.ldro = ldro /\ r.pa = pa /\ r.power = c.power
  BY <1>4
<1> HIDE DEF r
<1> QED
  BY <1>1, <1>2, <1>5, <1>6, ValidFacts DEF Whole, r

(* A setting makes a configuration of a configuration: its own field, or   *)
(* the three a band brings.                                                *)
IsSetting(s) ==
    \/ s.field \in Fields /\ s.value \in Int
    \/ s.field = "band" /\ s.value \in {"SubGhz", "HighFrequency"}

LEMMA OnBandFacts ==
    ASSUME NEW c \in Config, NEW band \in {"SubGhz", "HighFrequency"}
    PROVE  /\ on_band(c, band) \in Config
           /\ band_of(on_band(c, band).freq) = band
           /\ on_band(c, band).sf = c.sf /\ on_band(c, band).cr = c.cr
<1>1. CASE band_of(c.freq) = band
  BY <1>1 DEF on_band
<1>2. CASE band_of(c.freq) # band
  <2> DEFINE landing == IF band = "SubGhz" THEN DEFAULT ELSE LANDING_2G4
  <2>1. landing \in Config /\ band_of(landing.freq) = band
    OBVIOUS
  <2> HIDE DEF landing
  <2>2. on_band(c, band) = [c EXCEPT !.freq = landing.freq, !.bw = landing.bw,
                                     !.power = landing.power]
    BY <1>2 DEF on_band, landing
  <2>3. PICK f \in Int, w \in Int, p \in Int :
            f = landing.freq /\ w = landing.bw /\ p = landing.power
    BY <2>1 DEF Config
  <2>4. /\ [c EXCEPT !.freq = f, !.bw = w, !.power = p] \in Config
        /\ [c EXCEPT !.freq = f, !.bw = w, !.power = p].freq = f
        /\ [c EXCEPT !.freq = f, !.bw = w, !.power = p].sf = c.sf
        /\ [c EXCEPT !.freq = f, !.bw = w, !.power = p].cr = c.cr
    BY DEF Config
  <2> QED
    BY <2>1, <2>2, <2>3, <2>4
<1> QED
  BY <1>1, <1>2

LEMMA WithFacts ==
    ASSUME NEW c \in Config, NEW s, IsSetting(s)
    PROVE  With(c, s) \in Config
<1>1. CASE s.field = "band"
  BY <1>1, OnBandFacts DEF IsSetting, With, Fields
<1>2. CASE s.field \in Fields /\ s.value \in Int
  <2>1. PICK f \in Fields, v \in Int : f = s.field /\ v = s.value
    BY <1>2
  <2>2. [c EXCEPT ![f] = v] \in Config
    BY DEF Config, Fields
  <2> QED
    BY <2>1, <2>2 DEF With, Fields
<1> QED
  BY <1>1, <1>2 DEF IsSetting

-----------------------------------------------------------------------------
(* The chip *)

(* What bring-up does, and nothing after it. *)
SameUp(ch, other) ==
    ch.busy = other.busy /\ ch.clock = other.clock /\ ch.switch = other.switch

LEMMA WrittenFacts ==
    /\ Len(Order) = 6
    /\ {"freq", "table", "sf", "bw", "cr", "ldro", "pa", "power", "len"} \subseteq Written(Len(Order))
<1>1. Len(Order) = 6
  BY DEF Order
<1>2. /\ Order[1] = {"freq"} /\ Order[2] = {"table"} /\ Order[3] = {"sf", "bw", "cr", "ldro"}
      /\ Order[4] = {"len"} /\ Order[5] = {"pa"} /\ Order[6] = {"power"}
  BY DEF Order
<1>3. \A i \in 1..6 : Order[i] \subseteq Written(6)
  BY DEF Written
<1>4. 1 \in 1..6 /\ 2 \in 1..6 /\ 3 \in 1..6 /\ 4 \in 1..6 /\ 5 \in 1..6 /\ 6 \in 1..6
  OBVIOUS
<1>5. /\ {"freq"} \subseteq Written(6) /\ {"table"} \subseteq Written(6)
      /\ {"sf", "bw", "cr", "ldro"} \subseteq Written(6) /\ {"len"} \subseteq Written(6)
      /\ {"pa"} \subseteq Written(6) /\ {"power"} \subseteq Written(6)
  BY <1>2, <1>3, <1>4
<1> QED
  BY <1>1, <1>5

(* Programming writes registers, the ceiling of the length, and standby;   *)
(* all of it leaves the registers of the one configuration.                *)
LEMMA ProgrammedFacts ==
    ASSUME NEW ch, IsChip(ch), NEW c, NEW k
    PROVE  /\ IsChip(Programmed(ch, c, k)) /\ SameUp(Programmed(ch, c, k), ch)
           /\ k = Len(Order) =>
                /\ Programmed(ch, c, k).regs = Registers(c)
                /\ Programmed(ch, c, k).len = "max"
<1> DEFINE q == Registers(c)
           regs == [r \in DOMAIN ch.regs |-> IF r \in Written(k) THEN q[r] ELSE ch.regs[r]]
           len == IF "len" \in Written(k) THEN "max" ELSE ch.len
           new == [regs |-> regs, mode |-> "standby", len |-> len, window |-> ch.window,
                   pending |-> ch.pending, busy |-> ch.busy, clock |-> ch.clock,
                   switch |-> ch.switch]
<1>1. Programmed(ch, c, k) = new
  <2>1. Programmed(ch, c, k) = [ch EXCEPT !.mode = "standby", !.len = len, !.regs = regs]
    BY DEF Programmed
  <2>2. PICK r0, m0, l0, w0, p0, b0, c0, s0 :
            ch = [regs |-> r0, mode |-> m0, len |-> l0, window |-> w0, pending |-> p0,
                  busy |-> b0, clock |-> c0, switch |-> s0]
    BY DEF IsChip
  <2> HIDE DEF len, regs
  <2>3. new = [regs |-> regs, mode |-> "standby", len |-> len, window |-> w0,
               pending |-> p0, busy |-> b0, clock |-> c0, switch |-> s0]
    BY <2>2
  <2> HIDE DEF new
  <2> QED
    BY <2>1, <2>2, <2>3
<1>2. regs = [freq |-> regs.freq, table |-> regs.table, sf |-> regs.sf, bw |-> regs.bw,
              cr |-> regs.cr, ldro |-> regs.ldro, pa |-> regs.pa, power |-> regs.power]
  BY DEF IsChip
<1>3. len \in {"max", "one"}
  BY DEF IsChip
<1>4. ASSUME k = Len(Order) PROVE regs = q /\ len = "max"
  <2>1. q = [freq |-> q.freq, table |-> q.table, sf |-> q.sf, bw |-> q.bw,
             cr |-> q.cr, ldro |-> q.ldro, pa |-> q.pa, power |-> q.power]
    BY DEF Registers
  <2>2. {"freq", "table", "sf", "bw", "cr", "ldro", "pa", "power", "len"} \subseteq Written(k)
    BY <1>4, WrittenFacts
  <2> HIDE DEF q
  <2> QED
    BY <2>1, <2>2 DEF IsChip
<1>5. IsChip(new) /\ SameUp(new, ch) /\ new.regs = regs /\ new.len = len
  <2> HIDE DEF regs, len
  <2> QED
    BY <1>2, <1>3 DEF IsChip, SameUp
<1> HIDE DEF regs, len, new
<1> QED
  BY <1>1, <1>4, <1>5

LEMMA ReceivingFacts ==
    ASSUME NEW ch, IsChip(ch), NEW k
    PROVE  /\ IsChip(Receiving(ch, k)) /\ SameUp(Receiving(ch, k), ch)
           /\ Receiving(ch, k).regs = ch.regs
           /\ k = 5 => /\ Receiving(ch, k).mode = "rx" /\ Receiving(ch, k).len = "max"
                       /\ ~Receiving(ch, k).window
<1> DEFINE mode == IF k = 5 THEN "rx" ELSE IF k > 0 THEN "standby" ELSE ch.mode
           len == IF k > 1 THEN "max" ELSE ch.len
           window == IF k > 2 THEN FALSE ELSE ch.window
           pending == IF k > 3 THEN {} ELSE ch.pending
           new == [regs |-> ch.regs, mode |-> mode, len |-> len, window |-> window,
                   pending |-> pending, busy |-> ch.busy, clock |-> ch.clock,
                   switch |-> ch.switch]
<1>1. Receiving(ch, k) = new
  <2>1. Receiving(ch, k) = [ch EXCEPT !.mode = mode, !.len = len, !.window = window,
                                      !.pending = pending]
    BY DEF Receiving
  <2>2. PICK r0, m0, l0, w0, p0, b0, c0, s0 :
            ch = [regs |-> r0, mode |-> m0, len |-> l0, window |-> w0, pending |-> p0,
                  busy |-> b0, clock |-> c0, switch |-> s0]
    BY DEF IsChip
  <2> HIDE DEF mode, len, window, pending
  <2>3. new = [regs |-> r0, mode |-> mode, len |-> len, window |-> window,
               pending |-> pending, busy |-> b0, clock |-> c0, switch |-> s0]
    BY <2>2
  <2> HIDE DEF new
  <2> QED
    BY <2>1, <2>2, <2>3
<1>2. mode \in {"standby", "rx"} /\ len \in {"max", "one"}
  BY DEF IsChip
<1>3. window \in BOOLEAN
  BY DEF IsChip
<1>4. k = 5 => mode = "rx" /\ len = "max"
  OBVIOUS
<1>5. k = 5 => ~window
  OBVIOUS
<1> HIDE DEF mode, len, window, pending
<1>6. IsChip(new) /\ SameUp(new, ch) /\ new.regs = ch.regs
  BY <1>2, <1>3 DEF IsChip, SameUp
<1> QED
  BY <1>1, <1>4, <1>5, <1>6

LEMMA FaultyFacts ==
    ASSUME NEW ch, IsChip(ch), NEW new \in Faulty(ch)
    PROVE  /\ IsChip(new) /\ SameUp(new, ch) /\ new.regs = ch.regs
           /\ new.mode = ch.mode /\ new.len = ch.len /\ new.window = ch.window
BY DEF Faulty, IsChip, SameUp

(* act leaves the loop right about the chip, and the chip with the whole of *)
(* one configuration if any is applied.                                    *)
LEMMA ReconfigureInv ==
    ASSUME ModemInv, NEW c \in Config, ValidConfig(c), Reconfigure(c)
    PROVE  ModemInv' /\ SameUp(chip', chip)
<1> USE DEF ModemInv
<1> DEFINE done == Programmed(chip, c, Len(Order))
<1>0. /\ IsChip(done) /\ SameUp(done, chip) /\ done.regs = Registers(c)
      /\ Whole(Registers(c)) /\ c # None
  BY ProgrammedFacts, ValidIsWhole, NoneIsNoConfig
<1> HIDE DEF done
<1>1. CASE ApplyFails(c)
  <2>1. applied' = None /\ receiving' = FALSE
    BY <1>1 DEF ApplyFails
  <2>2. IsChip(chip') /\ SameUp(chip', chip)
    <3>1. CASE chip' \in Faulty(chip)
      BY <3>1, FaultyFacts
    <3>2. CASE \E k \in 0..Len(Order) : chip' \in Faulty(Programmed(chip, c, k))
      <4>1. PICK k \in 0..Len(Order) : chip' \in Faulty(Programmed(chip, c, k))
        BY <3>2
      <4> DEFINE part == Programmed(chip, c, k)
      <4>2. IsChip(part) /\ SameUp(part, chip)
        BY ProgrammedFacts
      <4> HIDE DEF part
      <4>3. IsChip(chip') /\ SameUp(chip', part)
        BY <4>1, <4>2, FaultyFacts DEF part
      <4> QED
        BY <4>2, <4>3 DEF SameUp
    <3> QED
      BY <1>1, <3>1, <3>2 DEF ApplyFails
  <2> QED
    BY <2>1, <2>2 DEF AppliedWhole, ReceivesAsApplied
<1>2. CASE StartRxFails(c)
  <2>1. applied' = applied /\ receiving' = FALSE
    BY <1>2 DEF StartRxFails
  <2>2. PICK k \in 0..5 : chip' \in Faulty(Receiving(done, k))
    BY <1>2 DEF StartRxFails, done
  <2>3. IsChip(chip') /\ SameUp(chip', chip) /\ chip'.regs = Registers(c)
    BY <1>0, <2>2, ReceivingFacts, FaultyFacts DEF SameUp
  <2> QED
    BY <1>0, <2>1, <2>3 DEF AppliedWhole, ReceivesAsApplied
<1>3. CASE chip' = Receiving(done, 5) /\ applied' = c /\ receiving' = TRUE
  <2>1. /\ IsChip(chip') /\ SameUp(chip', chip) /\ chip'.regs = Registers(c)
        /\ chip'.mode = "rx" /\ chip'.len = "max" /\ ~chip'.window
    BY <1>0, <1>3, ReceivingFacts DEF SameUp
  <2> QED
    BY <1>0, <1>3, <2>1 DEF AppliedWhole, ReceivesAsApplied
<1> QED
  BY <1>1, <1>2, <1>3 DEF Reconfigure, done

LEMMA StandbyInv ==
    ASSUME ModemInv, Standby
    PROVE  ModemInv' /\ SameUp(chip', chip)
<1> USE DEF ModemInv
<1>1. applied' = applied /\ receiving' = FALSE
  BY DEF Standby
<1>2. IsChip(chip') /\ SameUp(chip', chip) /\ chip'.regs = chip.regs
  <2>1. CASE chip' = [chip EXCEPT !.mode = "standby"]
    BY <2>1 DEF IsChip, SameUp
  <2>2. CASE chip' \in Faulty(chip)
    BY <2>2, FaultyFacts
  <2> QED
    BY <2>1, <2>2 DEF Standby
<1> QED
  BY <1>1, <1>2 DEF AppliedWhole, ReceivesAsApplied

LEMMA UntouchedInv ==
    ASSUME ModemInv, UNCHANGED modem
    PROVE  ModemInv' /\ SameUp(chip', chip)
BY DEF ModemInv, modem, SameUp, AppliedWhole, ReceivesAsApplied

(* On a board with no radio nothing is done to it. *)
Radioless == stage = "radioless" => UNCHANGED <<applied, receiving>>

LEMMA ReprogramsInv ==
    ASSUME ModemInv, NEW c \in Config, ValidConfig(c), Reprograms(c)
    PROVE  ModemInv' /\ SameUp(chip', chip) /\ Radioless
BY ReconfigureInv, UntouchedInv DEF Reprograms, Radioless, Untouched, modem

LEMMA StopsInv ==
    ASSUME ModemInv, Stops
    PROVE  ModemInv' /\ SameUp(chip', chip) /\ Radioless
BY StandbyInv, UntouchedInv DEF Stops, Radioless, Untouched, modem

LEMMA UntouchedStays ==
    ASSUME ModemInv, Untouched
    PROVE  ModemInv' /\ SameUp(chip', chip) /\ Radioless
BY UntouchedInv DEF Radioless, Untouched, modem

-----------------------------------------------------------------------------
(* The invariant *)

LEMMA InitInv == Init => RadioInv
<1> SUFFICES ASSUME Init PROVE RadioInv
  OBVIOUS
<1>1. ModemInv
  BY DEF Init, ModemInv, IsChip, Boots, AppliedWhole, ReceivesAsApplied
<1>2. ProtocolInv /\ host \in BOOLEAN
  BY DEF Init, ProtocolInv
<1>3. EditorInv /\ UpInv
  BY DEF Init, EditorInv, BandInv, UpInv
<1> QED
  BY <1>1, <1>2, <1>3 DEF RadioInv

LEMMA ResumeInv ==
    ASSUME ModemInv, ProtocolInv, stored # None, Resume
    PROVE  ModemInv' /\ ProtocolInv' /\ SameUp(chip', chip) /\ Radioless
<1>1. stored \in Config
  BY DEF ProtocolInv
<1>2. ProtocolInv'
  BY <1>1 DEF Resume, ProtocolInv
<1>3. CASE ValidConfig(stored) /\ Reprograms(stored)
  BY <1>1, <1>2, <1>3, ReprogramsInv
<1>4. CASE Untouched
  BY <1>2, <1>4, UntouchedStays
<1> QED
  BY <1>3, <1>4 DEF Resume

LEMMA SwitchOnInv ==
    ASSUME ModemInv, NEW c \in Config, switch_on(c)
    PROVE  ModemInv' /\ SameUp(chip', chip) /\ Radioless /\ radio' \in {"on", "off"}
<1>1. radio' \in {"on", "off"}
  BY DEF switch_on
<1>2. CASE ValidConfig(c) /\ Reprograms(c)
  BY <1>1, <1>2, ReprogramsInv
<1>3. CASE Stops
  BY <1>1, <1>3, StopsInv
<1> QED
  BY <1>2, <1>3 DEF switch_on

LEMMA EditorStays ==
    ASSUME EditorInv, UNCHANGED editor
    PROVE  EditorInv'
BY DEF EditorInv, BandInv

(* What is done on the loop's side of bring-up leaves bring-up done. *)
LEMMA UpStays ==
    ASSUME UpInv, Serving, stage' = stage, SameUp(chip', chip), Radioless
    PROVE  UpInv'
BY DEF UpInv, SameUp, Serving, Radioless

LEMMA BringUpInv ==
    ASSUME RadioInv, Reset \/ Attach \/ Clock \/ RfSwitch \/ Route
    PROVE  RadioInv'
<1> USE DEF RadioInv
<1>1. /\ stage # "loop" /\ UNCHANGED <<applied, receiving, protocol, host, editor>>
      /\ stage' # "loop" /\ applied = None /\ receiving = FALSE
  BY DEF Reset, Attach, Clock, RfSwitch, Route, Step, modem, UpInv, ModemInv
<1>2. IsChip(chip') /\ UpInv'
  <2>0. IsChip(chip) /\ UpInv
    BY DEF ModemInv
  <2>1. CASE Reset
    BY <1>1, <2>0, <2>1 DEF Reset, IsChip, UpInv
  <2>2. CASE Attach
    BY <1>1, <2>0, <2>2 DEF Attach, Step, modem, IsChip, UpInv
  <2>3. CASE Clock
    <3>1. PICK running \in BOOLEAN, errors \in BOOLEAN :
            /\ chip' = [chip EXCEPT !.clock = running]
            /\ stage' \in {"radioless"} \cup
                    (IF clock_ok(errors, running) THEN {"switch"} ELSE {})
      BY <2>3 DEF Clock
    <3>2. stage' = "radioless" \/ (stage' = "switch" /\ running)
      BY <3>1 DEF clock_ok
    <3>3. IsChip(chip') /\ chip'.clock = running /\ chip'.busy = chip.busy
      BY <2>0, <3>1 DEF IsChip
    <3> QED
      BY <1>1, <2>0, <2>3, <3>2, <3>3 DEF Clock, UpInv
  <2>4. CASE RfSwitch
    BY <1>1, <2>0, <2>4 DEF RfSwitch, Step, IsChip, UpInv
  <2>5. CASE Route
    BY <1>1, <2>0, <2>5 DEF Route, Step, IsChip, UpInv
  <2> QED
    BY <2>1, <2>2, <2>3, <2>4, <2>5
<1>3. ModemInv'
  BY <1>1, <1>2 DEF ModemInv, AppliedWhole, ReceivesAsApplied
<1>4. ProtocolInv' /\ (host \in BOOLEAN)'
  BY <1>1 DEF ProtocolInv, protocol
<1>5. EditorInv'
  BY <1>1, EditorStays
<1> QED
  BY <1>2, <1>3, <1>4, <1>5

LEMMA RegulatorInv ==
    ASSUME RadioInv, Regulator
    PROVE  RadioInv'
<1> USE DEF RadioInv
<1>1. /\ stage = "regulator" /\ stage' \in {"loop", "radioless"}
      /\ UNCHANGED <<host, editor>>
  BY DEF Regulator
<1>2. /\ ModemInv' /\ ProtocolInv' /\ SameUp(chip', chip)
      /\ stage' = "radioless" => UNCHANGED <<applied, receiving>>
  <2>1. CASE UNCHANGED protocol /\ Untouched
    BY <2>1, UntouchedInv DEF Untouched, modem, protocol, ProtocolInv
  <2>2. CASE stage' = "loop" /\ stored # None /\ Resume
    BY <2>2, ResumeInv
  <2> QED
    BY <2>1, <2>2 DEF Regulator
<1>3. UpInv'
  BY <1>1, <1>2 DEF UpInv, SameUp
<1> QED
  BY <1>1, <1>2, <1>3, EditorStays

LEMMA LineInv ==
    ASSUME RadioInv, ChipHears \/ Serve \/ ServeFails
    PROVE  RadioInv'
<1> USE DEF RadioInv
<1>1. UNCHANGED <<stage, applied, receiving, protocol, host, editor>>
  BY DEF ChipHears, Serve, ServeFails, modem
<1>2. \/ chip' = chip
      \/ chip' = [chip EXCEPT !.pending = chip.pending \cup {"packet"}]
      \/ chip' = [chip EXCEPT !.pending = {}]
  BY DEF ChipHears, Serve, ServeFails, modem
<1>3. /\ IsChip(chip') /\ SameUp(chip', chip) /\ chip'.regs = chip.regs
      /\ chip'.mode = chip.mode /\ chip'.len = chip.len /\ chip'.window = chip.window
  BY <1>2 DEF IsChip, SameUp, ModemInv
<1>4. ModemInv'
  BY <1>1, <1>3 DEF ModemInv, AppliedWhole, ReceivesAsApplied
<1>5. ProtocolInv' /\ (host \in BOOLEAN)' /\ UpInv'
  BY <1>1, <1>3 DEF ProtocolInv, protocol, UpInv, SameUp
<1> QED
  BY <1>1, <1>4, <1>5, EditorStays

(* What a wait and a frame leave of the chip, register by register. *)
LEMMA AfterFacts ==
    ASSUME NEW ch, IsChip(ch), NEW window, NEW len, NEW after,
           after = [ch EXCEPT !.mode = "standby", !.pending = {}, !.window = window,
                              !.len = len]
    PROVE  after = [regs |-> ch.regs, mode |-> "standby", len |-> len, window |-> window,
                    pending |-> {}, busy |-> ch.busy, clock |-> ch.clock,
                    switch |-> ch.switch]
<1>1. PICK r0, m0, l0, w0, p0, b0, c0, s0 :
        ch = [regs |-> r0, mode |-> m0, len |-> l0, window |-> w0, pending |-> p0,
              busy |-> b0, clock |-> c0, switch |-> s0]
  BY DEF IsChip
<1> DEFINE new == [regs |-> r0, mode |-> "standby", len |-> len, window |-> window,
                   pending |-> {}, busy |-> b0, clock |-> c0, switch |-> s0]
<1>2. new = [regs |-> ch.regs, mode |-> "standby", len |-> len, window |-> window,
             pending |-> {}, busy |-> ch.busy, clock |-> ch.clock, switch |-> ch.switch]
  BY <1>1
<1>3. after = new
  BY <1>1
<1> QED
  BY <1>2, <1>3

LEMMA TransmitInv ==
    ASSUME RadioInv, Transmit
    PROVE  RadioInv'
<1> USE DEF RadioInv
<1>1. stage = "loop" /\ UNCHANGED <<stage, applied, protocol, host, editor>>
  BY DEF Transmit, MaySend
<1>2. PICK went \in BOOLEAN, listened \in BOOLEAN :
        LET after == [chip EXCEPT !.mode = "standby", !.pending = {},
                        !.window = chip.window \/ listened,
                        !.len = IF went THEN "one" ELSE IF listened THEN "max" ELSE chip.len]
        IN  \/ ~receiving /\ chip' = after /\ UNCHANGED <<receiving, faults>>
            \/ receiving /\ chip' = Receiving(after, 5)
               /\ UNCHANGED <<receiving, faults>>
            \/ /\ receiving /\ receiving' = FALSE /\ Fault
               /\ \E k \in 0..5 : chip' \in Faulty(Receiving(after, k))
  BY DEF Transmit
<1> DEFINE len == IF went THEN "one" ELSE IF listened THEN "max" ELSE chip.len
           window == chip.window \/ listened
           after == [chip EXCEPT !.mode = "standby", !.pending = {}, !.window = window,
                                 !.len = len]
<1>3. window \in BOOLEAN
  BY DEF ModemInv, IsChip
<1>4. len \in {"max", "one"}
  BY DEF ModemInv, IsChip
<1>5. \/ ~receiving /\ chip' = after /\ receiving' = receiving
      \/ receiving /\ chip' = Receiving(after, 5) /\ receiving' = receiving
      \/ receiving' = FALSE /\ \E k \in 0..5 : chip' \in Faulty(Receiving(after, k))
  BY <1>2
<1> HIDE DEF len, window
<1>6. IsChip(after) /\ SameUp(after, chip) /\ after.regs = chip.regs
  <2>1. IsChip(chip)
    BY DEF ModemInv
  <2>2. after = [regs |-> chip.regs, mode |-> "standby", len |-> len, window |-> window,
                 pending |-> {}, busy |-> chip.busy, clock |-> chip.clock,
                 switch |-> chip.switch]
    BY <2>1, AfterFacts
  <2> HIDE DEF after
  <2> QED
    BY <1>3, <1>4, <2>1, <2>2 DEF IsChip, SameUp
<1> HIDE DEF after
<1>7. /\ IsChip(chip') /\ SameUp(chip', chip) /\ chip'.regs = chip.regs
      /\ receiving' \in BOOLEAN
      /\ receiving' => /\ receiving /\ chip'.mode = "rx" /\ chip'.len = "max"
                       /\ ~chip'.window
  <2>1. CASE ~receiving /\ chip' = after /\ receiving' = receiving
    BY <1>6, <2>1 DEF ModemInv
  <2>2. CASE receiving /\ chip' = Receiving(after, 5) /\ receiving' = receiving
    BY <1>6, <2>2, ReceivingFacts DEF ModemInv, SameUp
  <2>3. CASE receiving' = FALSE /\ \E k \in 0..5 : chip' \in Faulty(Receiving(after, k))
    <3>1. PICK k \in 0..5 : chip' \in Faulty(Receiving(after, k))
      BY <2>3
    <3> DEFINE part == Receiving(after, k)
    <3>2. IsChip(part) /\ SameUp(part, after) /\ part.regs = after.regs
      BY <1>6, ReceivingFacts
    <3> HIDE DEF part
    <3>3. IsChip(chip') /\ SameUp(chip', part) /\ chip'.regs = part.regs
      BY <3>1, <3>2, FaultyFacts DEF part
    <3> QED
      BY <1>6, <2>3, <3>2, <3>3 DEF SameUp
  <2> QED
    BY <1>5, <2>1, <2>2, <2>3
<1>8. ModemInv'
  BY <1>1, <1>7 DEF ModemInv, AppliedWhole, ReceivesAsApplied
<1>9. ProtocolInv' /\ (host \in BOOLEAN)'
  BY <1>1 DEF ProtocolInv, protocol
<1> QED
  BY <1>1, <1>7, <1>8, <1>9, EditorStays, UpStays DEF Serving, Radioless

(* A host's frames and the panel's stored or default configuration: what   *)
(* is set is a setting, and what is asked of the radio is one of the three *)
(* things the loop does to it.                                             *)
LEMMA HostInv ==
    ASSUME RadioInv,
           HostSet \/ HostRadioOn \/ HostRadioOff \/ HostKeeps \/ HostComes \/ HostGoes
    PROVE  RadioInv'
<1> USE DEF RadioInv
<1>1. Serving /\ UNCHANGED <<stage, editor>>
  BY DEF HostSet, HostRadioOn, HostRadioOff, HostKeeps, HostComes, HostGoes
<1>2. (host \in BOOLEAN)'
  BY DEF HostSet, HostRadioOn, HostRadioOff, HostKeeps, HostComes, HostGoes
<1>3. ModemInv' /\ ProtocolInv' /\ SameUp(chip', chip) /\ Radioless
  <2>1. CASE HostSet
    <3>1. UNCHANGED modem /\ UNCHANGED <<radio, locked, stored>>
      BY <2>1 DEF HostSet
    <3>2. config' \in Config
      <4>1. PICK f \in HostFrames :
                \/ config' = config
                \/ decode(f) # None /\ config' = With(config, decode(f))
        BY <2>1 DEF HostSet
      <4>2. CASE config' = config
        BY <4>2 DEF ProtocolInv
      <4>3. CASE decode(f) # None /\ config' = With(config, decode(f))
        <5>1. f.cmd \in Fields /\ f.value \in Int
          OBVIOUS
        <5>2. decode(f) = [field |-> f.cmd, value |-> f.value]
          BY <4>3 DEF decode
        <5>3. IsSetting(decode(f))
          BY <5>1, <5>2 DEF IsSetting
        <5> QED
          BY <4>3, <5>3, WithFacts DEF ProtocolInv
      <4> QED
        BY <4>1, <4>2, <4>3
    <3> QED
      BY <3>1, <3>2, UntouchedInv DEF ProtocolInv, Radioless, modem
  <2>2. CASE HostRadioOn
    BY <2>2, SwitchOnInv DEF HostRadioOn, ProtocolInv
  <2>3. CASE HostRadioOff
    BY <2>3, StopsInv DEF HostRadioOff, ProtocolInv
  <2>4. CASE HostKeeps
    <3>1. UNCHANGED modem /\ UNCHANGED <<config, radio>>
      BY <2>4 DEF HostKeeps
    <3>2. stored' \in Config \cup {None}
      BY <2>4 DEF HostKeeps, ProtocolInv
    <3>3. locked' \in BOOLEAN
      BY <2>4 DEF HostKeeps, ProtocolInv
    <3> QED
      BY <3>1, <3>2, <3>3, UntouchedInv DEF ProtocolInv, Radioless, modem
  <2>5. CASE HostComes
    BY <2>5, UntouchedInv DEF HostComes, protocol, ProtocolInv, Radioless, modem
  <2>6. CASE HostGoes
    <3>1. CASE stored # None /\ Resume
      BY <3>1, ResumeInv
    <3>2. CASE UNCHANGED protocol /\ Untouched
      BY <3>2, UntouchedStays DEF protocol, ProtocolInv
    <3> QED
      BY <2>6, <3>1, <3>2 DEF HostGoes
  <2> QED
    BY <2>1, <2>2, <2>3, <2>4, <2>5, <2>6
<1> QED
  BY <1>1, <1>2, <1>3, EditorStays, UpStays

-----------------------------------------------------------------------------
(* The panel's editor *)

LEMMA LeastThere ==
    ASSUME NEW S, NEW a \in Int, \A x \in S : x \in Int /\ a <= x, S # {}
    PROVE  Min(S) \in S
<1> DEFINE T == {x - a : x \in S}
           R == OpToRel(<, Nat)
<1>1. T \subseteq Nat /\ T # {}
  OBVIOUS
<1>2. IsWellFoundedOn(R, Nat)
  BY NatLessThanWellFounded
<1>3. \A x, y \in Nat : y < x => <<y, x>> \in R
  BY DEF OpToRel
<1>4. \A x \in S : x - a \in T
  OBVIOUS
<1>5. \A t \in T : \E x \in S : t = x - a
  OBVIOUS
<1> HIDE DEF T, R
<1>6. PICK t \in T : \A y \in T : <<y, t>> \notin R
  BY <1>1, <1>2, WFMin
<1>7. PICK x \in S : t = x - a
  BY <1>5
<1>8. \A y \in S : x <= y
  <2>1. ASSUME NEW y \in S PROVE x <= y
    <3>1. y - a \in Nat /\ x - a \in Nat /\ ~(y - a < x - a)
      BY <1>1, <1>3, <1>4, <1>6, <1>7
    <3>2. x \in Int /\ y \in Int
      OBVIOUS
    <3> QED
      BY <3>1, <3>2
  <2> QED
    BY <2>1
<1> QED
  BY <1>8 DEF Min

LEMMA GreatestThere ==
    ASSUME NEW S, NEW b \in Int, \A x \in S : x \in Int /\ x <= b, S # {}
    PROVE  Max(S) \in S
<1> DEFINE T == {b - x : x \in S}
           R == OpToRel(<, Nat)
<1>1. T \subseteq Nat /\ T # {}
  OBVIOUS
<1>2. IsWellFoundedOn(R, Nat)
  BY NatLessThanWellFounded
<1>3. \A x, y \in Nat : y < x => <<y, x>> \in R
  BY DEF OpToRel
<1>4. \A x \in S : b - x \in T
  OBVIOUS
<1>5. \A t \in T : \E x \in S : t = b - x
  OBVIOUS
<1> HIDE DEF T, R
<1>6. PICK t \in T : \A y \in T : <<y, t>> \notin R
  BY <1>1, <1>2, WFMin
<1>7. PICK x \in S : t = b - x
  BY <1>5
<1>8. \A y \in S : x >= y
  <2>1. ASSUME NEW y \in S PROVE x >= y
    <3>1. b - y \in Nat /\ b - x \in Nat /\ ~(b - y < b - x)
      BY <1>1, <1>3, <1>4, <1>6, <1>7
    <3>2. x \in Int /\ y \in Int
      OBVIOUS
    <3> QED
      BY <3>1, <3>2
  <2> QED
    BY <2>1
<1> QED
  BY <1>8 DEF Max

(* What the editor walks through is bounded on either side. *)
LEMMA StepsFacts ==
    ASSUME NEW field \in EditFields
    PROVE  \E a, b \in Int : \A v \in steps(field) : v \in Int /\ a <= v /\ v <= b
<1>1. CASE field = "band"
  <2>1. steps(field) = {0, 1}
    BY <1>1 DEF steps
  <2> QED
    BY <2>1
<1>2. CASE field = "bw" \/ field = "sf"
  <2>1. steps(field) \subseteq 0..U32Max
    BY <1>2 DEF steps
  <2> QED
    BY <2>1
<1>3. CASE field = "cr"
  <2>1. steps(field) = CrMin..CrMax
    BY <1>3 DEF steps
  <2> QED
    BY <2>1
<1>4. CASE field = "power"
  <2>1. steps(field) = HfMin..HpMax
    BY <1>4 DEF steps
  <2> QED
    BY <2>1
<1>5. CASE field = "freq"
  <2>1. steps(field) = {}
    BY <1>5 DEF steps
  <2> QED
    BY <2>1
<1> QED
  BY <1>1, <1>2, <1>3, <1>4, <1>5 DEF EditFields, Fields

LEMMA PlaceFacts ==
    ASSUME NEW cursor \in 1..Digits
    PROVE  Place(cursor) \in Nat \ {0}
<1>1. Digits - cursor \in 0..(Digits - 1)
  OBVIOUS
<1> HIDE RadioAssumption
<1> QED
  BY <1>1, PlaceAssumption, Zenon DEF Place

(* Turning a key leaves a number, and one of the set's or what was there. *)
LEMMA TurnedFacts ==
    ASSUME NEW e \in Editor, NEW by \in {1, Radix - 1}
    PROVE  /\ Turned(e, by) \in Int
           /\ e.field # "freq" => Turned(e, by) \in steps(e.field) \cup {e.candidate}
<1>1. /\ e.field \in EditFields /\ e.candidate \in Int /\ e.cursor \in 1..Digits
  BY DEF Editor
<1>2. PICK a \in Int, b \in Int : \A v \in steps(e.field) : v \in Int /\ a <= v /\ v <= b
  BY <1>1, StepsFacts
<1>3. CASE e.field = "freq"
  <2> DEFINE d == Digit(e.candidate, e.cursor)
             to == (d + by) % Radix
  <2>1. PICK p \in Nat \ {0} : p = Place(e.cursor)
    BY <1>1, PlaceFacts
  <2>2. d \in Int
    BY <1>1, <2>1 DEF Digit
  <2>3. by \in Int
    OBVIOUS
  <2>4. to \in Int
    BY <2>2, <2>3
  <2>5. Turned(e, by) = e.candidate + (to - d) * p * Fraction
    BY <1>3, <2>1 DEF Turned
  <2> HIDE DEF d, to
  <2>6. (to - d) * p * Fraction \in Int
    BY <2>1, <2>2, <2>4
  <2> QED
    BY <1>1, <1>3, <2>5, <2>6
<1>4. CASE e.field # "freq"
  <2> DEFINE above == {v \in steps(e.field) : v > e.candidate}
             below == {v \in steps(e.field) : v < e.candidate}
  <2>1. above # {} => Min(above) \in above
    <3>1. \A x \in above : x \in Int /\ a <= x
      BY <1>2
    <3> HIDE DEF above
    <3> QED
      BY <3>1, LeastThere
  <2>2. below # {} => Max(below) \in below
    <3>1. \A x \in below : x \in Int /\ x <= b
      BY <1>2
    <3> HIDE DEF below
    <3> QED
      BY <3>1, GreatestThere
  <2>3. Turned(e, by) \in {e.candidate, Min(above), Max(below)}
        /\ (Turned(e, by) = e.candidate \/ (above # {} /\ Turned(e, by) = Min(above))
              \/ (below # {} /\ Turned(e, by) = Max(below)))
    BY <1>4 DEF Turned
  <2>4. above \subseteq steps(e.field) /\ below \subseteq steps(e.field)
    OBVIOUS
  <2> HIDE DEF above, below
  <2>5. Turned(e, by) \in steps(e.field) \cup {e.candidate}
    BY <2>1, <2>2, <2>3, <2>4
  <2> QED
    BY <1>1, <1>2, <2>5
<1> QED
  BY <1>3, <1>4

(* The editor opens on a value of the configuration and stays one. *)
LEMMA EditorMoves ==
    ASSUME EditorInv, NEW v, NEW c, editor # None,
           v \in Int, c \in 1..Digits,
           editor.field = "band" => v \in {0, 1, editor.candidate},
           \/ editor' = [editor EXCEPT !.candidate = v]
           \/ editor' = [editor EXCEPT !.cursor = c]
    PROVE  EditorInv'
<1>1. PICK f \in EditFields, o \in Config, k \in 1..Digits, w \in Int :
        editor = [field |-> f, original |-> o, cursor |-> k, candidate |-> w]
  BY DEF EditorInv, Editor
<1>2. \/ editor' = [field |-> f, original |-> o, cursor |-> k, candidate |-> v]
      \/ editor' = [field |-> f, original |-> o, cursor |-> c, candidate |-> w]
  BY <1>1
<1>3. editor' \in Editor
  BY <1>2 DEF Editor
<1>4. /\ editor'.field = f /\ editor'.original = o /\ editor'.candidate \in {v, w}
      /\ editor.field = f /\ editor.original = o /\ editor.candidate = w
  BY <1>1, <1>2
<1>5. BandInv'
  BY <1>4 DEF BandInv, EditorInv
<1> QED
  BY <1>3, <1>5 DEF EditorInv

LEMMA OpenInv ==
    ASSUME EditorInv, ProtocolInv, Open
    PROVE  EditorInv'
<1>1. PICK field \in EditFields :
        editor' = [field |-> field, original |-> config, cursor |-> 1,
                   candidate |-> value_in(field, config)]
  BY DEF Open
<1>2. value_in(field, config) \in Int
  <2>1. CASE field = "band"
    BY <2>1 DEF value_in
  <2>2. CASE field # "band"
    BY <2>2 DEF value_in, ProtocolInv, Config, EditFields, Fields
  <2> QED
    BY <2>1, <2>2
<1>3. field = "band" =>
        /\ value_in(field, config) \in {0 - 1, 0, 1}
        /\ value_in(field, config) < 0 => band_of(config.freq) = None
  BY BandFacts DEF value_in
<1> DEFINE v == value_in(field, config)
<1> HIDE DEF v
<1>4. editor' = [field |-> field, original |-> config, cursor |-> 1, candidate |-> v]
  BY <1>1 DEF v
<1>5. editor' \in Editor
  BY <1>2, <1>4 DEF Editor, ProtocolInv, v
<1>6. BandInv'
  BY <1>3, <1>4 DEF BandInv, v
<1> QED
  BY <1>5, <1>6 DEF EditorInv

LEMMA EditInv ==
    ASSUME RadioInv, Open \/ Turn \/ Cursor \/ Cancel
    PROVE  RadioInv'
<1> USE DEF RadioInv
<1>1. Serving /\ UNCHANGED <<stage, host, modem, protocol>>
  BY DEF Open, Turn, Cursor, Cancel, Panel
<1>2. EditorInv'
  <2>1. CASE Open
    BY <2>1, OpenInv
  <2>2. CASE Turn
    <3>1. editor # None /\ editor \in Editor
      BY <2>2 DEF Turn, EditorInv
    <3>2. PICK by \in {1, Radix - 1} :
            editor' = [editor EXCEPT !.candidate = Turned(editor, by)]
      BY <2>2 DEF Turn
    <3>3. PICK v : v = Turned(editor, by)
      OBVIOUS
    <3>4. v \in Int /\ (editor.field # "freq" => v \in steps(editor.field) \cup {editor.candidate})
      BY <3>1, <3>3, TurnedFacts
    <3>5. editor.field = "band" => v \in {0, 1, editor.candidate}
      BY <3>4 DEF steps
    <3>6. editor' = [editor EXCEPT !.candidate = v]
      BY <3>2, <3>3
    <3>7. 1 \in 1..Digits
      OBVIOUS
    <3> QED
      BY <3>1, <3>4, <3>5, <3>6, <3>7, EditorMoves
  <2>3. CASE Cursor
    <3>1. editor # None /\ editor.field = "freq"
      BY <2>3 DEF Cursor
    <3>2. PICK c \in 1..Digits : editor' = [editor EXCEPT !.cursor = c]
      BY <2>3 DEF Cursor
    <3>3. 0 \in Int
      OBVIOUS
    <3> QED
      BY <3>1, <3>2, <3>3, EditorMoves
  <2>4. CASE Cancel
    BY <2>4 DEF Cancel, EditorInv, BandInv
  <2> QED
    BY <2>1, <2>2, <2>3, <2>4
<1>3. ModemInv' /\ SameUp(chip', chip) /\ Radioless
  BY <1>1, UntouchedInv DEF Radioless, modem
<1>4. ProtocolInv' /\ (host \in BOOLEAN)'
  BY <1>1 DEF ProtocolInv, protocol
<1> QED
  BY <1>1, <1>2, <1>3, <1>4, UpStays

LEMMA SettingFacts ==
    ASSUME NEW e \in Editor
    PROVE  /\ IsSetting(setting(e)) /\ setting(e).field = e.field
           /\ candidate_config(e) \in Config
<1>1. e.field \in EditFields /\ e.original \in Config /\ e.candidate \in Int
  BY DEF Editor
<1>2. /\ setting(e).field = e.field
      /\ e.field = "band" => setting(e).value \in {"SubGhz", "HighFrequency"}
      /\ e.field # "band" => setting(e).value \in {U32Max, e.candidate}
  BY DEF setting
<1>3. IsSetting(setting(e))
  BY <1>1, <1>2 DEF IsSetting, EditFields
<1> QED
  BY <1>1, <1>2, <1>3, WithFacts DEF candidate_config

LEMMA SetFromPanelInv ==
    ASSUME ModemInv, ProtocolInv, NEW s, IsSetting(s), set_from_panel(s)
    PROVE  ModemInv' /\ ProtocolInv' /\ SameUp(chip', chip) /\ Radioless
<1>1. CASE UNCHANGED protocol /\ Untouched
  BY <1>1, UntouchedStays DEF protocol, ProtocolInv
<1>2. CASE /\ config' = With(config, s)
           /\ stored' = IF stored = None THEN None ELSE config'
           /\ \/ radio = "on" /\ switch_on(config')
              \/ radio = "off" /\ UNCHANGED radio /\ Untouched
           /\ UNCHANGED locked
  <2>1. config' \in Config
    BY <1>2, WithFacts DEF ProtocolInv
  <2>2. PICK c \in Config : c = config'
    BY <2>1
  <2>3. stored' \in Config \cup {None} /\ locked' \in BOOLEAN
    BY <1>2, <2>1 DEF ProtocolInv
  <2>4. CASE switch_on(config')
    <3>1. switch_on(c)
      BY <2>2, <2>4
    <3> QED
      BY <2>1, <2>3, <3>1, SwitchOnInv DEF ProtocolInv
  <2>5. CASE UNCHANGED radio /\ Untouched
    BY <2>1, <2>3, <2>5, UntouchedStays DEF ProtocolInv
  <2> QED
    BY <1>2, <2>4, <2>5
<1> QED
  BY <1>1, <1>2 DEF set_from_panel

LEMMA ConfirmInv ==
    ASSUME RadioInv, Confirm
    PROVE  RadioInv'
<1> USE DEF RadioInv
<1>1. Serving /\ UNCHANGED <<stage, host>> /\ editor \in Editor
  BY DEF Confirm, Panel, EditorInv
<1>2. EditorInv'
  <2>1. editor' = editor \/ editor' = None
    BY DEF Confirm
  <2> QED
    BY <2>1, EditorStays DEF EditorInv, BandInv
<1>3. ModemInv' /\ ProtocolInv' /\ SameUp(chip', chip) /\ Radioless
  <2>1. CASE UNCHANGED protocol /\ Untouched
    BY <2>1, UntouchedStays DEF protocol, ProtocolInv
  <2>2. CASE set_from_panel(setting(editor))
    BY <1>1, <2>2, SettingFacts, SetFromPanelInv
  <2> QED
    BY <2>1, <2>2 DEF Confirm
<1> QED
  BY <1>1, <1>2, <1>3, UpStays

LEMMA PanelInv ==
    ASSUME RadioInv, PanelToggle \/ PanelSave \/ PanelReset
    PROVE  RadioInv'
<1> USE DEF RadioInv
<1>1. Serving /\ UNCHANGED <<stage, host, editor>>
  BY DEF PanelToggle, PanelSave, PanelReset, Panel
<1>2. ModemInv' /\ ProtocolInv' /\ SameUp(chip', chip) /\ Radioless
  <2>1. CASE PanelToggle
    <3>1. UNCHANGED <<config, locked, stored>>
      BY <2>1 DEF PanelToggle
    <3>2. CASE radio' = "off" /\ Stops
      BY <3>1, <3>2, StopsInv DEF ProtocolInv
    <3>3. CASE switch_on(config)
      BY <3>1, <3>3, SwitchOnInv DEF ProtocolInv
    <3> QED
      BY <2>1, <3>2, <3>3 DEF PanelToggle
  <2>2. CASE PanelSave
    BY <2>2, UntouchedInv DEF PanelSave, ProtocolInv, Radioless, modem
  <2>3. CASE PanelReset
    <3>1. CASE stored # None /\ Resume
      BY <3>1, ResumeInv
    <3>2. CASE /\ config' = DEFAULT
               /\ \/ radio = "on" /\ switch_on(DEFAULT)
                  \/ radio = "off" /\ UNCHANGED radio /\ Untouched
               /\ UNCHANGED <<locked, stored>>
      <4>1. DEFAULT \in Config
        OBVIOUS
      <4>2. CASE switch_on(DEFAULT)
        BY <3>2, <4>1, <4>2, SwitchOnInv DEF ProtocolInv
      <4>3. CASE UNCHANGED radio /\ Untouched
        BY <3>2, <4>1, <4>3, UntouchedStays DEF ProtocolInv
      <4> QED
        BY <3>2, <4>2, <4>3
    <3> QED
      BY <2>3, <3>1, <3>2 DEF PanelReset
  <2> QED
    BY <2>1, <2>2, <2>3
<1> QED
  BY <1>1, <1>2, EditorStays, UpStays

-----------------------------------------------------------------------------
LEMMA NextInv == RadioInv /\ [Next]_vars => RadioInv'
<1> SUFFICES ASSUME RadioInv, [Next]_vars PROVE RadioInv'
  OBVIOUS
<1>1. CASE Reset \/ Attach \/ Clock \/ RfSwitch \/ Route
  BY <1>1, BringUpInv
<1>2. CASE Regulator
  BY <1>2, RegulatorInv
<1>3. CASE ChipHears \/ Serve \/ ServeFails
  BY <1>3, LineInv
<1>4. CASE Transmit
  BY <1>4, TransmitInv
<1>5. CASE HostSet \/ HostRadioOn \/ HostRadioOff \/ HostKeeps \/ HostComes \/ HostGoes
  BY <1>5, HostInv
<1>6. CASE Open \/ Turn \/ Cursor \/ Cancel
  BY <1>6, EditInv
<1>7. CASE Confirm
  BY <1>7, ConfirmInv
<1>8. CASE PanelToggle \/ PanelSave \/ PanelReset
  BY <1>8, PanelInv
<1>9. CASE UNCHANGED vars
  <2>1. UNCHANGED <<stage, chip, applied, receiving, config, radio, locked, stored, host,
                    editor>>
    BY <1>9 DEF vars, modem, protocol
  <2>2. ModemInv'
    BY <2>1 DEF RadioInv, ModemInv, AppliedWhole, ReceivesAsApplied
  <2>3. ProtocolInv' /\ UpInv' /\ (host \in BOOLEAN)'
    BY <2>1 DEF RadioInv, ProtocolInv, UpInv
  <2> QED
    BY <2>1, <2>2, <2>3, EditorStays DEF RadioInv
<1> QED
  BY <1>1, <1>2, <1>3, <1>4, <1>5, <1>6, <1>7, <1>8, <1>9 DEF Next

LEMMA Inductive == Spec => []RadioInv
BY InitInv, NextInv, PTL DEF Spec

(* The loop's beliefs are about valid configurations, an open editor holds *)
(* a digit of its frequency or a number, and nothing else is ever there.   *)
THEOREM RadioTypeCorrect == Spec => []TypeOK
<1>1. RadioInv => TypeOK
  BY NoneIsNoConfig DEF RadioInv, ModemInv, ProtocolInv, EditorInv, Editor, IsChip, TypeOK
<1> QED
  BY <1>1, Inductive, PTL

(* Whatever is aired goes out of a chip whose registers are all those of   *)
(* one valid configuration, on one band, within the module's rating there, *)
(* wherever in a sequence of commands the chip has failed.                 *)
THEOREM AiredWhole == Spec => []AiredIsOneConfig
<1>1. RadioInv => AiredIsOneConfig
  BY DEF RadioInv, ModemInv, AppliedWhole, Whole, MaySend, AiredIsOneConfig
<1> QED
  BY <1>1, Inductive, PTL

(* A loop that believes it is receiving is, as the configuration it        *)
(* believes in, with no other limit left over from a transmission.         *)
THEOREM ReceivingIsSo == Spec => []ReceivesAsApplied
<1>1. RadioInv => ReceivesAsApplied
  BY DEF RadioInv, ModemInv
<1> QED
  BY <1>1, Inductive, PTL

(* Nothing is received or aired before the oscillator runs and the antenna *)
(* switch is set, and a chip that never came out of reset is left alone.   *)
THEOREM UsedWhenUp == Spec => []UsedOnlyWhenUp
<1>1. RadioInv => UsedOnlyWhenUp
  BY DEF RadioInv, UpInv, MaySend, UsedOnlyWhenUp
<1> QED
  BY <1>1, Inductive, PTL

-----------------------------------------------------------------------------
(* An edit that is confirmed *)

(* Closed, or carried out, it had been found valid; carried out, the       *)
(* configuration takes the setting, and the record and the radio follow.   *)
LEMMA ConfirmFacts ==
    ASSUME RadioInv, Confirm, config' # config \/ editor' = None
    PROVE  /\ editor \in Editor /\ BandInv /\ config \in Config
           /\ ValidConfig(candidate_config(editor))
           /\ \/ UNCHANGED <<config, radio, stored>>
              \/ /\ config' = With(config, setting(editor))
                 /\ stored' = IF stored = None THEN None ELSE config'
                 /\ radio' = radio \/ (radio = "on" /\ switch_on(config'))
<1>1. editor \in Editor /\ BandInv /\ config \in Config /\ editor # None
  BY DEF RadioInv, EditorInv, ProtocolInv, Confirm
<1>2. confirmed(editor) = "Ok"
  BY <1>1 DEF Confirm, protocol
<1>3. ValidConfig(candidate_config(editor))
  BY <1>2 DEF confirmed, ValidConfig
<1>4. UNCHANGED protocol \/ set_from_panel(setting(editor))
  BY <1>2 DEF Confirm
<1>5. CASE UNCHANGED protocol
  BY <1>1, <1>3, <1>5 DEF protocol
<1>6. CASE set_from_panel(setting(editor))
  BY <1>1, <1>3, <1>6 DEF set_from_panel, protocol
<1> QED
  BY <1>4, <1>5, <1>6

(* What is confirmed is what the editor showed: a frequency past what a u32 *)
(* holds would have saturated, and is in no band.                          *)
LEMMA SettingIsShown ==
    ASSUME NEW e \in Editor, e.field # "band", ValidConfig(candidate_config(e))
    PROVE  setting(e).value = e.candidate
<1>1. e.field \in Fields /\ e.original \in Config
  BY DEF Editor, EditFields
<1>2. CASE e.field = "freq" /\ e.candidate > U32Max
  <2>1. setting(e) = [field |-> "freq", value |-> U32Max]
    BY <1>2 DEF setting
  <2>2. PICK s : s = setting(e)
    OBVIOUS
  <2>3. candidate_config(e) = [e.original EXCEPT !["freq"] = U32Max]
    BY <1>2, <2>1 DEF candidate_config, With
  <2>4. candidate_config(e).freq = U32Max /\ candidate_config(e) \in Config
    BY <1>1, <2>3 DEF Config
  <2>5. band_of(U32Max) = None
    BY DEF band_of
  <2> QED
    BY <2>4, <2>5, ValidFacts
<1>3. CASE ~(e.field = "freq" /\ e.candidate > U32Max)
  BY <1>1, <1>3 DEF setting, Fields
<1> QED
  BY <1>2, <1>3

(* What is applied when an edit is confirmed is what the editor showed. *)
THEOREM ShownIsApplied == Spec => AppliedAsShown
<1> DEFINE Shown ==
            (Confirm /\ config' # config) =>
                IF editor.field = "band"
                THEN /\ band_of(config'.freq) = (IF editor.candidate = 1
                                                 THEN "HighFrequency" ELSE "SubGhz")
                     /\ config'.sf = config.sf /\ config'.cr = config.cr
                ELSE config' = [config EXCEPT ![editor.field] = editor.candidate]
<1>1. RadioInv => Shown
  <2> SUFFICES ASSUME RadioInv, Confirm, config' # config PROVE Shown
    OBVIOUS
  <2>1. /\ editor \in Editor /\ config \in Config
        /\ ValidConfig(candidate_config(editor))
        /\ config' = With(config, setting(editor))
    BY ConfirmFacts
  <2>2. setting(editor).field = editor.field
    BY <2>1, SettingFacts
  <2>3. CASE editor.field = "band"
    <3>1. PICK band \in {"SubGhz", "HighFrequency"} :
            band = IF editor.candidate = 1 THEN "HighFrequency" ELSE "SubGhz"
      OBVIOUS
    <3>2. setting(editor).value = band
      BY <2>3, <3>1 DEF setting
    <3>3. config' = on_band(config, band)
      BY <2>1, <2>2, <2>3, <3>2 DEF With
    <3> QED
      BY <2>1, <2>3, <3>1, <3>3, OnBandFacts
  <2>4. CASE editor.field # "band"
    BY <2>1, <2>2, <2>4, SettingIsShown DEF With
  <2> QED
    BY <2>3, <2>4
<1>2. RadioInv /\ [Next]_vars => [Shown]_vars
  BY <1>1
<1> QED
  BY <1>2, Inductive, PTL DEF Spec, AppliedAsShown

(* Confirmed on the configuration the editor was opened on, the candidate  *)
(* that was found valid is the one that is applied.                        *)
LEMMA ConfirmedIsValid ==
    ASSUME RadioInv, Confirm, config' # config \/ editor' = None, config = editor.original
    PROVE  UNCHANGED <<config, radio, stored>> \/ ValidConfig(config')
<1>1. /\ editor \in Editor /\ BandInv /\ config \in Config
      /\ ValidConfig(candidate_config(editor))
      /\ UNCHANGED <<config, radio, stored>> \/ config' = With(config, setting(editor))
  BY ConfirmFacts
<1>2. editor # None
  BY DEF Confirm
<1>3. CASE editor.field = "band" /\ editor.candidate < 0
  <2>1. band_of(config.freq) = None
    BY <1>1, <1>2, <1>3 DEF BandInv
  <2>2. ValidConfig(config)
    BY <1>1, <1>3 DEF candidate_config
  <2> QED
    BY <1>1, <2>1, <2>2, ValidFacts
<1>4. CASE ~(editor.field = "band" /\ editor.candidate < 0)
  BY <1>1, <1>4 DEF candidate_config
<1> QED
  BY <1>3, <1>4

(* An edit confirmed on the configuration it was opened on never takes the *)
(* radio off the air, nor leaves a record the board cannot boot with.      *)
THEOREM EditsAreSafe == Spec => EditsKeepTheRadioOn
<1> DEFINE Kept ==
            (Confirm /\ editor' = None /\ config = editor.original)
              => /\ radio' = radio
                 /\ config' # config => ValidConfig(config')
                 /\ stored' # stored => ValidConfig(stored')
<1>1. RadioInv => Kept
  <2> SUFFICES ASSUME RadioInv, Confirm, editor' = None, config = editor.original
               PROVE  Kept
    OBVIOUS
  <2>1. CASE UNCHANGED <<config, radio, stored>>
    BY <2>1
  <2>2. CASE /\ config' = With(config, setting(editor))
             /\ stored' = IF stored = None THEN None ELSE config'
             /\ radio' = radio \/ (radio = "on" /\ switch_on(config'))
    <3>1. CASE ValidConfig(config')
      BY <2>2, <3>1 DEF switch_on
    <3> QED
      BY <2>1, <3>1, ConfirmedIsValid
  <2> QED
    BY <2>1, <2>2, ConfirmFacts
<1>2. RadioInv /\ [Next]_vars => [Kept]_vars
  BY <1>1
<1> QED
  BY <1>2, Inductive, PTL DEF Spec, EditsKeepTheRadioOn

(* No order of one-field edits leads from a valid configuration on one band *)
(* to the other: the bandwidth would have had to be valid on both.         *)
THEOREM BandsAreCrossedWhole == Spec => CrossesWhole
<1> DEFINE Crosses(e) ==
            (Confirm /\ config = e.original /\ band_of(config'.freq) # band_of(config.freq))
              => ValidConfig(config') /\ (ValidConfig(config) => e.field = "band")
<1>1. RadioInv => Crosses(editor)
  <2> SUFFICES ASSUME RadioInv, Confirm, config = editor.original,
                      band_of(config'.freq) # band_of(config.freq)
               PROVE  Crosses(editor)
    OBVIOUS
  <2>1. config' # config
    OBVIOUS
  <2>2. ValidConfig(config')
    BY <2>1, ConfirmedIsValid
  <2>3. /\ editor \in Editor /\ config \in Config
        /\ ValidConfig(candidate_config(editor))
        /\ config' = With(config, setting(editor))
    BY <2>1, ConfirmFacts
  <2>4. ASSUME ValidConfig(config), editor.field # "band" PROVE FALSE
    <3>1. PICK f \in Fields, v \in Int :
            f = editor.field /\ v = editor.candidate /\ v = setting(editor).value
              /\ f = setting(editor).field
      BY <2>3, <2>4, SettingFacts, SettingIsShown DEF Editor, EditFields
    <3>2. config' = [config EXCEPT ![f] = v] /\ config' \in Config
      <4>1. f # "band"
        BY <2>4, <3>1
      <4>2. config' = [config EXCEPT ![f] = v]
        BY <2>3, <3>1, <4>1 DEF With
      <4> QED
        BY <2>3, <4>2 DEF Config, Fields
    <3>3. f = "freq"
      BY <2>3, <3>2 DEF Config, Fields
    <3>4. config'.bw = config.bw
      BY <2>3, <3>2, <3>3 DEF Config
    <3>5. /\ config'.bw \in Table(band_of(config'.freq)) /\ band_of(config'.freq) # None
          /\ config.bw \in Table(band_of(config.freq)) /\ band_of(config.freq) # None
      BY <2>2, <2>3, <2>4, <3>2, ValidFacts
    <3> QED
      BY <3>4, <3>5, BandFacts DEF Table
  <2> QED
    BY <2>2, <2>4
<1>2. RadioInv /\ [Next]_vars => [Crosses(editor)]_vars
  BY <1>1
<1> QED
  BY <1>2, Inductive, PTL DEF Spec, CrossesWhole

(* With the radio up and nobody's host about, the configuration is the one *)
(* the board boots with, whenever there is one.                            *)
Standalone == stage = "loop" /\ ~host /\ stored # None => config = stored

LEMMA StandaloneInv == Standalone /\ [Next]_vars => Standalone'
<1> SUFFICES ASSUME Standalone, [Next]_vars PROVE Standalone'
  OBVIOUS
<1>1. CASE Reset \/ Attach \/ Clock \/ RfSwitch \/ Route
  BY <1>1 DEF Reset, Attach, Clock, RfSwitch, Route, Step, Standalone
<1>2. CASE Regulator
  BY <1>2 DEF Regulator, Resume, Standalone, protocol
<1>3. CASE ChipHears \/ Serve \/ ServeFails \/ Transmit
  BY <1>3 DEF ChipHears, Serve, ServeFails, Transmit, Standalone, protocol
<1>4. CASE HostSet \/ HostRadioOn \/ HostRadioOff \/ HostKeeps \/ HostComes
  BY <1>4 DEF HostSet, HostRadioOn, HostRadioOff, HostKeeps, HostComes, Standalone
<1>5. CASE HostGoes
  BY <1>5 DEF HostGoes, Resume, Standalone, protocol
<1>6. CASE Open \/ Turn \/ Cursor \/ Cancel
  BY <1>6 DEF Open, Turn, Cursor, Cancel, Panel, Standalone, protocol
<1>7. CASE Confirm
  <2>1. UNCHANGED <<stage, host>>
    BY <1>7 DEF Confirm, Panel
  <2>2. \/ UNCHANGED protocol
        \/ stored' = (IF stored = None THEN None ELSE config')
    BY <1>7 DEF Confirm, set_from_panel
  <2> QED
    BY <2>1, <2>2 DEF Standalone, protocol
<1>8. CASE PanelToggle \/ PanelSave \/ PanelReset
  BY <1>8 DEF PanelToggle, PanelSave, PanelReset, Panel, Resume, Standalone
<1>9. CASE UNCHANGED vars
  BY <1>9 DEF vars, protocol, Standalone
<1> QED
  BY <1>1, <1>2, <1>3, <1>4, <1>5, <1>6, <1>7, <1>8, <1>9 DEF Next

LEMMA AlwaysStandalone == Spec => []Standalone
<1>1. Init => Standalone
  BY DEF Init, Standalone
<1> QED
  BY <1>1, StandaloneInv, PTL DEF Spec

(* With the radio up, an edit of one field changes that field of the       *)
(* stored configuration and no other, whatever a host had set before it    *)
(* left without saving.                                                    *)
THEOREM EditsAreOfOneField == Spec => EditsStoreOneField
<1> DEFINE Stored(e) ==
            (stage = "loop" /\ Confirm /\ e.field # "band")
              => (stored' # stored => stored' = [stored EXCEPT ![e.field] = config'[e.field]])
<1>1. RadioInv /\ Standalone => Stored(editor)
  <2> SUFFICES ASSUME RadioInv, Standalone, stage = "loop", Confirm,
                      editor.field # "band", stored' # stored
               PROVE  stored' = [stored EXCEPT ![editor.field] = config'[editor.field]]
    OBVIOUS
  <2>1. editor \in Editor /\ stored \in Config \cup {None}
    BY DEF RadioInv, EditorInv, ProtocolInv, Confirm
  <2>2. ~host /\ set_from_panel(setting(editor))
    BY DEF Confirm, protocol
  <2>3. /\ config' = With(config, setting(editor)) /\ stored # None /\ stored' = config'
    BY <2>2 DEF set_from_panel, protocol
  <2>4. config = stored /\ stored \in Config
    BY <2>1, <2>2, <2>3 DEF Standalone
  <2>5. PICK f \in Fields, v \in Int :
          f = setting(editor).field /\ v = setting(editor).value /\ f = editor.field
    BY <2>1, SettingFacts DEF IsSetting
  <2>6. config' = [stored EXCEPT ![f] = v]
    <3>1. f # "band"
      BY <2>5
    <3> QED
      BY <2>3, <2>4, <2>5, <3>1 DEF With
  <2>7. [stored EXCEPT ![f] = v][f] = v
    BY <2>4 DEF Config, Fields
  <2> QED
    BY <2>3, <2>5, <2>6, <2>7
<1>2. RadioInv /\ Standalone /\ [Next]_vars => [Stored(editor)]_vars
  BY <1>1
<1> QED
  BY <1>2, Inductive, AlwaysStandalone, PTL DEF Spec, EditsStoreOneField, OneFieldStored

(* The chip runs what the board believes it runs, and what was asked for. *)
THEOREM ChipRunsWhatIsBelieved == Spec => RadioCorrect
BY RadioTypeCorrect, AiredWhole, ReceivingIsSo, UsedWhenUp, ShownIsApplied,
   EditsAreSafe, EditsAreOfOneField, BandsAreCrossedWhole, PTL
   DEF RadioCorrect
=============================================================================
