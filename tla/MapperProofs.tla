---------------------------- MODULE MapperProofs ----------------------------
(***************************************************************************)
(* What the mappers promise, proved for every cartridge and every program. *)
(***************************************************************************)
EXTENDS Cartridge, TLAPS

USE DEF Slots

-----------------------------------------------------------------------------
(* Bits.                                                                   *)

LEMMA BitType == ASSUME NEW n \in Int, NEW w \in {1, 2, 4, 8, 16, 32, 64, 128}
                 PROVE  Bit(n, w) \in 0..1
  BY DEF Bit

LEMMA AndType == ASSUME NEW a \in Int, NEW b \in Int PROVE And(a, b) \in 0..255
<1> DEFINE both(w) == Bit(a, w) * Bit(b, w) * w
<1>1. ASSUME NEW w \in {1, 2, 4, 8, 16, 32, 64, 128} PROVE both(w) \in {0, w}
  <2>1. Bit(a, w) \in {0, 1} /\ Bit(b, w) \in {0, 1}
    BY BitType
  <2>2. CASE Bit(a, w) = 1 /\ Bit(b, w) = 1
    BY <2>2
  <2>3. CASE Bit(a, w) = 0 /\ Bit(b, w) \in {0, 1}
    BY <2>3
  <2>4. CASE Bit(a, w) = 1 /\ Bit(b, w) = 0
    BY <2>4
  <2> QED
    BY <2>1, <2>2, <2>3, <2>4
<1>2. And(a, b) = both(1) + both(2) + both(4) + both(8) + both(16) + both(32) + both(64) + both(128)
  BY DEF And
<1> HIDE DEF both
<1>3. /\ both(1) \in {0, 1} /\ both(2) \in {0, 2} /\ both(4) \in {0, 4} /\ both(8) \in {0, 8}
      /\ both(16) \in {0, 16} /\ both(32) \in {0, 32} /\ both(64) \in {0, 64} /\ both(128) \in {0, 128}
  BY <1>1
<1> QED
  BY <1>2, <1>3

LEMMA MaskedType == ASSUME NEW bank \in Int, NEW count \in Int
                    PROVE  Masked(bank, count) \in Nat
<1> DEFINE mask == count - 1
<1>1. mask \in Int
  OBVIOUS
<1>2. Masked(bank, count) = And(bank, mask)
  BY DEF Masked
<1> HIDE DEF mask
<1>3. And(bank, mask) \in 0..255
  BY <1>1, AndType
<1> QED
  BY <1>2, <1>3

-----------------------------------------------------------------------------
(* The serial port of the MMC1.                                            *)

LEMMA Mmc1Fields ==
  ASSUME NEW m \in Mmc1Type
  PROVE  /\ m.shift_reg \in 0..31 /\ m.shift_count \in 0..4
         /\ m.control \in 0..31 /\ m.chr_bank0 \in 0..31
         /\ m.chr_bank1 \in 0..31 /\ m.prg_bank \in 0..31
  BY DEF Mmc1Type

LEMMA RegistersType == ASSUME NEW m \in Mmc1Type PROVE Registers(m) \in [0..3 -> 0..31]
  BY Mmc1Fields DEF Registers

(* One more bit: the marker moves down, and the bits above it make the     *)
(* number received.                                                        *)
LEMMA ShiftBit ==
  ASSUME NEW m \in Mmc1Type, NEW bit \in 0..1
  PROVE  /\ ShiftIn(m, bit) \in 0..31
         /\ m.shift_count = 0 => ShiftIn(m, bit) \div 16 = bit
         /\ m.shift_count = 1 => ShiftIn(m, bit) \div 8 = (m.shift_reg \div 16) + 2 * bit
         /\ m.shift_count = 2 => ShiftIn(m, bit) \div 4 = (m.shift_reg \div 8) + 4 * bit
         /\ m.shift_count = 3 => ShiftIn(m, bit) \div 2 = (m.shift_reg \div 4) + 8 * bit
         /\ m.shift_count = 4 => ShiftIn(m, bit) = (m.shift_reg \div 2) + 16 * bit
<1>1. m.shift_reg \in 0..31
  BY Mmc1Fields
<1> QED
  BY <1>1 DEF ShiftIn

LEMMA ShiftedPort ==
  ASSUME NEW m \in Mmc1Type, NEW bit \in 0..1, m.shift_count < 4,
         NEW n \in Mmc1Type,
         n = [m EXCEPT !.shift_reg = ShiftIn(m, bit), !.shift_count = @ + 1]
  PROVE  /\ Weight(m) < 16
         /\ Weight(n) = 2 * Weight(m)
         /\ Value(n) = Value(m) + bit * Weight(m)
         /\ Registers(n) = Registers(m)
<1>1. /\ n.shift_reg = ShiftIn(m, bit) /\ n.shift_count = m.shift_count + 1
      /\ n.control = m.control /\ n.chr_bank0 = m.chr_bank0
      /\ n.chr_bank1 = m.chr_bank1 /\ n.prg_bank = m.prg_bank
  BY DEF Mmc1Type
<1>2. m.shift_count \in {0, 1, 2, 3}
  BY Mmc1Fields
<1>3. Registers(n) = Registers(m)
  BY <1>1 DEF Registers
<1>4. CASE m.shift_count = 0
  BY <1>1, <1>3, <1>4, ShiftBit DEF Weight, Value
<1>5. CASE m.shift_count = 1
  BY <1>1, <1>3, <1>5, ShiftBit DEF Weight, Value
<1>6. CASE m.shift_count = 2
  BY <1>1, <1>3, <1>6, ShiftBit DEF Weight, Value
<1>7. CASE m.shift_count = 3
  BY <1>1, <1>3, <1>7, ShiftBit DEF Weight, Value
<1> QED
  BY <1>2, <1>4, <1>5, <1>6, <1>7

LEMMA ClearShiftPort ==
  ASSUME NEW m \in Mmc1Type
  PROVE  LET n == ClearShift(m)
         IN /\ n \in Mmc1Type
            /\ Weight(n) = 1 /\ Value(n) = 0 /\ Registers(n) = Registers(m)
<1> DEFINE n == ClearShift(m)
<1>1. n \in Mmc1Type
  <2> DEFINE r == 16
             k == 0
  <2>1. n = [m EXCEPT !.shift_reg = r, !.shift_count = k]
    BY DEF ClearShift
  <2>2. r \in 0..31 /\ k \in 0..4
    OBVIOUS
  <2> HIDE DEF n, r, k
  <2> QED
    BY <2>1, <2>2 DEF Mmc1Type
<1>2. /\ n.shift_count = 0
      /\ n.control = m.control /\ n.chr_bank0 = m.chr_bank0
      /\ n.chr_bank1 = m.chr_bank1 /\ n.prg_bank = m.prg_bank
  BY DEF ClearShift, Mmc1Type
<1> HIDE DEF n
<1>3. Weight(n) = 1 /\ Value(n) = 0 /\ Registers(n) = Registers(m)
  BY <1>2 DEF Weight, Value, Registers
<1> QED
  BY <1>1, <1>3 DEF n

LEMMA RegisterLoaded ==
  ASSUME NEW m \in Mmc1Type, NEW n \in Mmc1Type, NEW r \in 0..3, NEW v \in 0..31,
         \A q \in 0..3 : Registers(n)[q] = IF q = r THEN v ELSE Registers(m)[q]
  PROVE  Registers(n) = [Registers(m) EXCEPT ![r] = v]
<1>1. Registers(n) \in [0..3 -> 0..31] /\ Registers(m) \in [0..3 -> 0..31]
  BY RegistersType
<1> QED
  BY <1>1

LEMMA LoadedPort ==
  ASSUME NEW m \in Mmc1Type, NEW r \in 0..3, NEW v \in 0..31
  PROVE  /\ Loaded(m, r, v) \in Mmc1Type
         /\ Registers(Loaded(m, r, v)) = [Registers(m) EXCEPT ![r] = v]
<1> DEFINE n == Loaded(m, r, v)
<1>1. CASE r = 0
  <2>1. n = [m EXCEPT !.control = v]
    BY <1>1 DEF Loaded
  <2> HIDE DEF n
  <2>2. /\ n \in Mmc1Type
        /\ n.control = v /\ n.chr_bank0 = m.chr_bank0
        /\ n.chr_bank1 = m.chr_bank1 /\ n.prg_bank = m.prg_bank
    BY <2>1 DEF Mmc1Type
  <2>3. \A q \in 0..3 : Registers(n)[q] = IF q = r THEN v ELSE Registers(m)[q]
    BY <1>1, <2>2 DEF Registers
  <2> QED
    BY <2>2, <2>3, RegisterLoaded DEF n
<1>2. CASE r = 1
  <2>1. n = [m EXCEPT !.chr_bank0 = v]
    BY <1>2 DEF Loaded
  <2> HIDE DEF n
  <2>2. /\ n \in Mmc1Type
        /\ n.control = m.control /\ n.chr_bank0 = v
        /\ n.chr_bank1 = m.chr_bank1 /\ n.prg_bank = m.prg_bank
    BY <2>1 DEF Mmc1Type
  <2>3. \A q \in 0..3 : Registers(n)[q] = IF q = r THEN v ELSE Registers(m)[q]
    BY <1>2, <2>2 DEF Registers
  <2> QED
    BY <2>2, <2>3, RegisterLoaded DEF n
<1>3. CASE r = 2
  <2>1. n = [m EXCEPT !.chr_bank1 = v]
    BY <1>3 DEF Loaded
  <2> HIDE DEF n
  <2>2. /\ n \in Mmc1Type
        /\ n.control = m.control /\ n.chr_bank0 = m.chr_bank0
        /\ n.chr_bank1 = v /\ n.prg_bank = m.prg_bank
    BY <2>1 DEF Mmc1Type
  <2>3. \A q \in 0..3 : Registers(n)[q] = IF q = r THEN v ELSE Registers(m)[q]
    BY <1>3, <2>2 DEF Registers
  <2> QED
    BY <2>2, <2>3, RegisterLoaded DEF n
<1>4. CASE r = 3
  <2>1. n = [m EXCEPT !.prg_bank = v]
    BY <1>4 DEF Loaded
  <2> HIDE DEF n
  <2>2. /\ n \in Mmc1Type
        /\ n.control = m.control /\ n.chr_bank0 = m.chr_bank0
        /\ n.chr_bank1 = m.chr_bank1 /\ n.prg_bank = v
    BY <2>1 DEF Mmc1Type
  <2>3. \A q \in 0..3 : Registers(n)[q] = IF q = r THEN v ELSE Registers(m)[q]
    BY <1>4, <2>2 DEF Registers
  <2> QED
    BY <2>2, <2>3, RegisterLoaded, SMTT(30) DEF n
<1> QED
  BY <1>1, <1>2, <1>3, <1>4

(* The writes of the MMC1, each a step of the port or none.                *)
LEMMA Mmc1WriteStep ==
  ASSUME mmc1 \in Mmc1Type, NEW pg \in 8..31, NEW data \in 0..255, Mmc1Write(pg, data)
  PROVE  mmc1' \in Mmc1Type /\ (Port!Next \/ UNCHANGED Port!port)
<1>1. CASE pg < 16 /\ UNCHANGED <<mmc1, config>>
  BY <1>1 DEF Port!port, Weight, Value, Registers
<1>2. CASE Mmc1Reset
  <2> DEFINE n == ClearShift(mmc1)
             c == ForceFixedLast(n.control)
  <2>1. n \in Mmc1Type /\ Weight(n) = 1 /\ Value(n) = 0 /\ Registers(n) = Registers(mmc1)
    BY ClearShiftPort
  <2>2. mmc1' = [n EXCEPT !.control = c]
    BY <1>2 DEF Mmc1Reset
  <2>3. n.control \in 0..31
    BY <2>1, Mmc1Fields
  <2> HIDE DEF n
  <2>4. c \in 0..31 /\ c = Port!FixedLast(n.control)
    BY <2>3 DEF ForceFixedLast, Port!FixedLast
  <2> HIDE DEF c
  <2>5. mmc1' = Loaded(n, 0, c)
    BY <2>2 DEF Loaded
  <2>6. mmc1' \in Mmc1Type /\ Registers(mmc1)' = [Registers(n) EXCEPT ![0] = c]
    <3>1. 0 \in 0..3
      OBVIOUS
    <3>2. n \in Mmc1Type /\ c \in 0..31
      BY <2>1, <2>4
    <3>3. /\ Loaded(n, 0, c) \in Mmc1Type
          /\ Registers(Loaded(n, 0, c)) = [Registers(n) EXCEPT ![0] = c]
      BY <3>1, <3>2, LoadedPort
    <3> QED
      BY <2>5, <3>3
  <2>7. mmc1'.shift_count = n.shift_count
    BY <2>1, <2>2 DEF Mmc1Type
  <2>8. Weight(mmc1)' = 1 /\ Value(mmc1)' = 0
    <3>1. n.shift_count = 0
      BY DEF n, ClearShift, Mmc1Type
    <3> QED
      BY <2>7, <3>1 DEF Weight, Value
  <2>9. Registers(mmc1)[0] = n.control
    BY <2>1 DEF Registers
  <2>10. Registers(mmc1)' = [Registers(mmc1) EXCEPT ![0] = Port!FixedLast(@)]
    BY <2>1, <2>4, <2>6, <2>9
  <2>11. Port!Reset
    BY <2>8, <2>10 DEF Port!Reset
  <2> QED
    BY <2>6, <2>11 DEF Port!Next
<1>3. ASSUME NEW bit \in 0..1, Mmc1Shift(bit)
      PROVE  mmc1' \in Mmc1Type /\ Port!Receive(bit)
  <2>1. /\ mmc1.shift_count < 4
        /\ mmc1' = [mmc1 EXCEPT !.shift_reg = ShiftIn(mmc1, bit), !.shift_count = @ + 1]
    BY <1>3 DEF Mmc1Shift
  <2>2. ShiftIn(mmc1, bit) \in 0..31 /\ mmc1.shift_count \in 0..4
    BY ShiftBit, Mmc1Fields
  <2> DEFINE v == ShiftIn(mmc1, bit)
             k == mmc1.shift_count + 1
  <2>3. mmc1' = [mmc1 EXCEPT !.shift_reg = v, !.shift_count = k]
    BY <2>1
  <2>4. v \in 0..31 /\ k \in 0..4
    BY <2>1, <2>2
  <2> HIDE DEF v, k
  <2>5. mmc1' \in Mmc1Type
    BY <2>3, <2>4 DEF Mmc1Type
  <2> QED
    BY <2>1, <2>5, ShiftedPort DEF Port!Receive
<1>4. ASSUME NEW r \in 0..3, NEW bit \in 0..1, Mmc1Load(r, bit)
      PROVE  mmc1' \in Mmc1Type /\ Port!Load(r, bit)
  <2> DEFINE v == ShiftIn(mmc1, bit)
             n == Loaded(mmc1, r, v)
  <2>1. mmc1.shift_count = 4 /\ v \in Loadable /\ mmc1' = ClearShift(n)
    BY <1>4 DEF Mmc1Load
  <2>2. v \in 0..31 /\ v = Value(mmc1) + bit * 16 /\ Weight(mmc1) = 16
    <3>1. v \in 0..31
      BY <2>1, LoadableAssumption
    <3>2. v = (mmc1.shift_reg \div 2) + 16 * bit
      BY DEF ShiftIn
    <3>3. Value(mmc1) = mmc1.shift_reg \div 2 /\ Weight(mmc1) = 16
      BY <2>1 DEF Value, Weight
    <3>4. mmc1.shift_reg \in 0..31
      BY Mmc1Fields
    <3> QED
      BY <3>1, <3>2, <3>3, <3>4
  <2> HIDE DEF v
  <2>3. n \in Mmc1Type /\ Registers(n) = [Registers(mmc1) EXCEPT ![r] = v]
    BY <2>2, LoadedPort
  <2> HIDE DEF n
  <2>4. /\ mmc1' \in Mmc1Type
        /\ Weight(mmc1)' = 1 /\ Value(mmc1)' = 0 /\ Registers(mmc1)' = Registers(n)
    BY <2>1, <2>3, ClearShiftPort
  <2> QED
    BY <2>1, <2>2, <2>3, <2>4 DEF Port!Load
<1>5. data % 2 \in 0..1 /\ (pg \div 4) % 4 \in 0..3
  OBVIOUS
<1> QED
  BY <1>1, <1>2, <1>3, <1>4, <1>5 DEF Mmc1Write, Port!Next

-----------------------------------------------------------------------------
(* The latches of the MMC2.                                                *)

(* The banks of a cartridge of any size; a PRG bank counted back from the  *)
(* last one is below zero when the cartridge is too small to have it.      *)
BanksType == [prg : [Slots -> Int], chr : [Slots -> Nat], mirroring : Mirrorings]

LEMMA CountType ==
  ASSUME rom \in Roms
  PROVE  ChrCount \in Int /\ PrgCount \in Int
<1>1. rom.chr \in Nat /\ rom.prg \in Nat
  BY RomsAssumption
<1>2. ChrKb \in {1, 4, 8}
  BY DEF ChrKb
<1>3. PrgKb \in {8, 16, 32}
  BY DEF PrgKb
<1>4. ChrCount \in Int
  BY <1>1, <1>2 DEF ChrCount
<1>5. PrgCount \in Int
  BY <1>1, <1>3 DEF PrgCount
<1> QED
  BY <1>4, <1>5

LEMMA ChrBankShown ==
  ASSUME rom \in Roms, NEW c \in BanksType, NEW i \in Slots, NEW bank \in Int
  PROVE  /\ ChrBank(c, i, bank) \in BanksType
         /\ ChrBank(c, i, bank).chr = [c.chr EXCEPT ![i] = Masked(bank, ChrCount)]
<1> DEFINE b == Masked(bank, ChrCount)
<1>1. b \in Nat
  BY CountType, MaskedType
<1>2. ChrBank(c, i, bank) = [c EXCEPT !.chr[i] = b]
  BY DEF ChrBank
<1> HIDE DEF b
<1>3. [c EXCEPT !.chr[i] = b] \in BanksType
  BY <1>1 DEF BanksType
<1>4. [c EXCEPT !.chr[i] = b].chr = [c.chr EXCEPT ![i] = b]
  BY DEF BanksType
<1> QED
  BY <1>2, <1>3, <1>4 DEF b

LEMMA PrgBankShown ==
  ASSUME rom \in Roms, NEW c \in BanksType, NEW i \in Slots, NEW bank \in Int
  PROVE  PrgBank(c, i, bank) \in BanksType /\ PrgBank(c, i, bank).chr = c.chr
<1> DEFINE b == Masked(bank, PrgCount)
<1>1. b \in Nat
  BY CountType, MaskedType
<1>2. PrgBank(c, i, bank) = [c EXCEPT !.prg[i] = b]
  BY DEF PrgBank
<1> HIDE DEF b
<1>3. [c EXCEPT !.prg[i] = b] \in BanksType
  BY <1>1 DEF BanksType
<1>4. [c EXCEPT !.prg[i] = b].chr = c.chr
  BY DEF BanksType
<1> QED
  BY <1>2, <1>3, <1>4

LEMMA MirroringShown ==
  ASSUME NEW c \in BanksType, NEW m \in Mirrorings
  PROVE  Mirroring(c, m) \in BanksType /\ Mirroring(c, m).chr = c.chr
  BY DEF Mirroring, BanksType

LEMMA SelectedType ==
  ASSUME NEW m \in Mmc2Type, NEW s \in Sides
  PROVE  Selected(m, s) \in 0..31 /\ Slot(s) \in Slots
  BY DEF Selected, Mmc2Type, Slot, Sides

(* The banks shown are those the latches pick, latch for latch.            *)
Shown(c, m) == \A s \in Sides : c.chr[Slot(s)] = Masked(Selected(m, s), ChrCount)

LEMMA BothBanksShown ==
  ASSUME rom \in Roms, NEW c \in BanksType, NEW m \in Mmc2Type
  PROVE  BothBanks(c, m) \in BanksType /\ Shown(BothBanks(c, m), m)
<1> DEFINE l == Selected(m, "left")
           r == Selected(m, "right")
           d == ChrBank(c, 0, l)
           e == ChrBank(d, 1, r)
<1>1. l \in Int /\ r \in Int
  BY SelectedType DEF Sides
<1>2. 0 \in Slots /\ 1 \in Slots
  OBVIOUS
<1> HIDE DEF l, r
<1>3. d \in BanksType /\ d.chr = [c.chr EXCEPT ![0] = Masked(l, ChrCount)]
  BY <1>1, <1>2, ChrBankShown
<1>4. BothBanks(c, m) = e
  BY DEF BothBanks, l, r
<1> HIDE DEF d
<1>5. d \in BanksType
  BY <1>3
<1>6. e \in BanksType /\ e.chr = [d.chr EXCEPT ![1] = Masked(r, ChrCount)]
  BY <1>1, <1>2, <1>5, ChrBankShown
<1> HIDE DEF e
<1>7. c.chr \in [Slots -> Nat]
  BY DEF BanksType
<1>8. e.chr[0] = Masked(l, ChrCount) /\ e.chr[1] = Masked(r, ChrCount)
  BY <1>3, <1>6, <1>7
<1>9. Shown(e, m)
  BY <1>8 DEF Shown, Sides, Slot, l, r
<1> QED
  BY <1>4, <1>6, <1>9

LEMMA SetLatchStep ==
  ASSUME NEW m \in Mmc2Type, NEW s \in Sides, NEW tile \in Tiles
  PROVE  LET n == SetLatch([m EXCEPT !.need_update = FALSE], s, tile)
         IN /\ n \in Mmc2Type
            /\ n.page = m.page
            /\ n.latch = CASE tile = "fd" -> [m.latch EXCEPT ![s] = 0]
                           [] tile = "fe" -> [m.latch EXCEPT ![s] = 1]
                           [] tile = "other" -> m.latch
            /\ n.need_update \/ n.latch = m.latch
<1> DEFINE o == [m EXCEPT !.need_update = FALSE]
<1>2. /\ o \in Mmc2Type /\ o.page = m.page /\ o.latch = m.latch
  BY DEF Mmc2Type
<1>1. CASE tile = "other"
  BY <1>1, <1>2 DEF SetLatch
<1> HIDE DEF o
<1>3. ASSUME NEW v \in 0..1
      PROVE  LET n == [o EXCEPT !.latch[s] = v, !.need_update = TRUE]
             IN /\ n \in Mmc2Type
                /\ n.page = m.page /\ n.latch = [m.latch EXCEPT ![s] = v] /\ n.need_update
  <2> DEFINE l == [o.latch EXCEPT ![s] = v]
             n == [o EXCEPT !.latch = l, !.need_update = TRUE]
  <2>1. [o EXCEPT !.latch[s] = v, !.need_update = TRUE] = n
    BY <1>2 DEF Mmc2Type
  <2>2. l \in [Sides -> 0..1] /\ l = [m.latch EXCEPT ![s] = v]
    BY <1>2 DEF Mmc2Type
  <2> HIDE DEF l
  <2>3. /\ n \in Mmc2Type
        /\ n.page = m.page /\ n.latch = l /\ n.need_update
    BY <1>2, <2>2 DEF Mmc2Type
  <2> QED
    BY <2>1, <2>2, <2>3
<1>4. CASE tile = "fd"
  <2> DEFINE v == 0
             n == [o EXCEPT !.latch[s] = v, !.need_update = TRUE]
  <2>1. v \in 0..1
    OBVIOUS
  <2>2. SetLatch(o, s, tile) = n
    BY <1>4 DEF SetLatch
  <2>3. [m.latch EXCEPT ![s] = v] =
          CASE tile = "fd" -> [m.latch EXCEPT ![s] = 0]
            [] tile = "fe" -> [m.latch EXCEPT ![s] = 1]
            [] tile = "other" -> m.latch
    BY <1>4
  <2> HIDE DEF v
  <2>4. /\ n \in Mmc2Type
        /\ n.page = m.page /\ n.latch = [m.latch EXCEPT ![s] = v] /\ n.need_update
    BY <1>3, <2>1, Zenon
  <2> HIDE DEF n
  <2> QED
    BY <2>2, <2>3, <2>4, Zenon DEF o
<1>5. CASE tile = "fe"
  <2> DEFINE v == 1
             n == [o EXCEPT !.latch[s] = v, !.need_update = TRUE]
  <2>1. v \in 0..1
    OBVIOUS
  <2>2. SetLatch(o, s, tile) = n
    BY <1>5 DEF SetLatch
  <2>3. [m.latch EXCEPT ![s] = v] =
          CASE tile = "fd" -> [m.latch EXCEPT ![s] = 0]
            [] tile = "fe" -> [m.latch EXCEPT ![s] = 1]
            [] tile = "other" -> m.latch
    BY <1>5
  <2> HIDE DEF v
  <2>4. /\ n \in Mmc2Type
        /\ n.page = m.page /\ n.latch = [m.latch EXCEPT ![s] = v] /\ n.need_update
    BY <1>3, <2>1, Zenon
  <2> HIDE DEF n
  <2> QED
    BY <2>2, <2>3, <2>4, Zenon DEF o
<1> QED
  BY <1>1, <1>4, <1>5 DEF Tiles, o

(* On an MMC2 the banks shown are right, or a fetch will update them.      *)
LatchInv ==
  rom.board = "mmc2" =>
    mmc2 \in Mmc2Type /\ config \in BanksType /\ (mmc2.need_update \/ Shown(config, mmc2))

LEMMA Mmc2FetchStep ==
  ASSUME rom \in Roms, rom.board = "mmc2", LatchInv,
         NEW s \in Sides, NEW tile \in Tiles, Mmc2Fetch(s, tile), UNCHANGED rom
  PROVE  LatchInv' /\ Latched!Fetch(s, tile)
<1> DEFINE n == SetLatch([mmc2 EXCEPT !.need_update = FALSE], s, tile)
           c == IF mmc2.need_update THEN BothBanks(config, mmc2) ELSE config
<1>1. mmc2 \in Mmc2Type /\ config \in BanksType /\ (mmc2.need_update \/ Shown(config, mmc2))
  BY DEF LatchInv
<1>2. c \in BanksType /\ Shown(c, mmc2)
  BY <1>1, BothBanksShown
<1>3. /\ config' = c /\ mmc2' = n
      /\ fetched' = [side |-> s, tile |-> tile, bank |-> config'.chr[Slot(s)]]
  BY DEF Mmc2Fetch
<1>4. /\ n \in Mmc2Type /\ n.page = mmc2.page
      /\ n.latch = CASE tile = "fd" -> [mmc2.latch EXCEPT ![s] = 0]
                     [] tile = "fe" -> [mmc2.latch EXCEPT ![s] = 1]
                     [] tile = "other" -> mmc2.latch
      /\ n.need_update \/ n.latch = mmc2.latch
  BY <1>1, SetLatchStep
<1> HIDE DEF n, c
<1>5. c.chr[Slot(s)] = Masked(mmc2.page[s][mmc2.latch[s]], ChrCount)
  BY <1>2 DEF Shown, Selected
<1>6. Latched!Fetch(s, tile)
  <2>1. fetched' = [side |-> s, tile |-> tile,
                    bank |-> Masked(mmc2.page[s][mmc2.latch[s]], ChrCount)]
    BY <1>3, <1>5
  <2>2. /\ mmc2'.page = mmc2.page
        /\ mmc2'.latch = CASE tile = "fd" -> [mmc2.latch EXCEPT ![s] = 0]
                           [] tile = "fe" -> [mmc2.latch EXCEPT ![s] = 1]
                           [] tile = "other" -> mmc2.latch
    BY <1>3, <1>4, Zenon
  <2>3. \A bank, count : Latched!Masked(bank, count) = Masked(bank, count)
    BY DEF Latched!Masked, Latched!And, Latched!Bit, Masked, And, Bit
  <2> QED
    BY <2>1, <2>2, <2>3 DEF Latched!Fetch
<1>7. n.latch = mmc2.latch => Shown(c, n)
  BY <1>2, <1>4 DEF Shown, Selected
<1>8. ChrCount' = ChrCount
  BY DEF ChrCount, ChrKb
<1>9. LatchInv'
  BY <1>2, <1>3, <1>4, <1>7, <1>8 DEF LatchInv, Shown
<1> QED
  BY <1>6, <1>9

LEMMA Mmc2SetPageStep ==
  ASSUME rom \in Roms, rom.board = "mmc2", LatchInv, UNCHANGED <<rom, fetched>>,
         NEW s \in Sides, NEW v \in 0..1, NEW bank \in 0..31, Mmc2SetPage(s, v, bank)
  PROVE  LatchInv' /\ Latched!SetPage(s, v)
<1> DEFINE m == [mmc2 EXCEPT !.page[s][v] = bank]
           c == ChrBank(config, Slot(s), Selected(m, s))
<1>1. mmc2 \in Mmc2Type /\ config \in BanksType /\ (mmc2.need_update \/ Shown(config, mmc2))
  BY DEF LatchInv
<1>2. mmc2' = m /\ config' = c
  BY DEF Mmc2SetPage
<1>3. /\ m \in Mmc2Type
      /\ m.page = [mmc2.page EXCEPT ![s][v] = bank] /\ m.latch = mmc2.latch
      /\ m.need_update = mmc2.need_update
  <2> DEFINE g == [mmc2.page EXCEPT ![s][v] = bank]
  <2>1. g \in [Sides -> [0..1 -> 0..31]]
    BY <1>1 DEF Mmc2Type
  <2>2. m = [mmc2 EXCEPT !.page = g]
    BY <1>1 DEF Mmc2Type
  <2> HIDE DEF g, m
  <2>3. /\ m \in Mmc2Type /\ m.page = g /\ m.latch = mmc2.latch
        /\ m.need_update = mmc2.need_update
    BY <1>1, <2>1, <2>2 DEF Mmc2Type
  <2> QED
    BY <2>3 DEF g
<1> HIDE DEF m
<1>4. Selected(m, s) \in 0..31 /\ Slot(s) \in Slots
  BY <1>3, SelectedType
<1>5. Selected(m, s) \in Int
  BY <1>4
<1>6. /\ c \in BanksType
      /\ c.chr = [config.chr EXCEPT ![Slot(s)] = Masked(Selected(m, s), ChrCount)]
  BY <1>1, <1>4, <1>5, ChrBankShown
<1> HIDE DEF c
<1>7. mmc2.page \in [Sides -> [0..1 -> 0..31]] /\ config.chr \in [Slots -> Nat]
  BY <1>1 DEF Mmc2Type, BanksType
<1>8. Latched!SetPage(s, v)
  <2>1. mmc2'.page[s][v] = bank
    BY <1>2, <1>3, <1>7
  <2> QED
    BY <1>2, <1>3, <2>1 DEF Latched!SetPage
<1>9. Shown(config, mmc2) => Shown(c, m)
  <2> SUFFICES ASSUME Shown(config, mmc2), NEW t \in Sides
               PROVE  c.chr[Slot(t)] = Masked(Selected(m, t), ChrCount)
    BY DEF Shown
  <2>1. CASE t = s
    BY <1>4, <1>6, <1>7, <2>1
  <2>2. CASE t # s
    <3>1. Slot(t) # Slot(s)
      BY <2>2 DEF Slot, Sides
    <3>2. m.page[t] = mmc2.page[t]
      BY <1>3, <1>7, <2>2
    <3>3. Selected(m, t) = Selected(mmc2, t)
      BY <1>3, <3>2 DEF Selected
    <3>4. c.chr[Slot(t)] = config.chr[Slot(t)]
      BY <1>6, <1>7, <3>1
    <3> QED
      BY <3>3, <3>4 DEF Shown
  <2> QED
    BY <2>1, <2>2
<1>10. ChrCount' = ChrCount
  BY DEF ChrCount, ChrKb
<1>11. LatchInv'
  BY <1>1, <1>2, <1>3, <1>6, <1>9, <1>10 DEF LatchInv, Shown
<1> QED
  BY <1>8, <1>11

LEMMA Mmc2WriteStep ==
  ASSUME rom \in Roms, rom.board = "mmc2", LatchInv, UNCHANGED <<rom, fetched>>,
         NEW pg \in 8..31, NEW data \in 0..255, Mmc2Write(pg, data)
  PROVE  LatchInv' /\ (Latched!Next \/ UNCHANGED Latched!banks)
<1>1. ASSUME UNCHANGED mmc2, config' \in BanksType, config'.chr = config.chr
      PROVE  LatchInv' /\ UNCHANGED Latched!banks
  <2>1. ChrCount' = ChrCount
    BY DEF ChrCount, ChrKb
  <2> QED
    BY <1>1, <2>1 DEF LatchInv, Shown, Latched!banks
<1>2. config \in BanksType /\ 0 \in Slots
  BY DEF LatchInv
<1> DEFINE digit == pg \div 2
<1>3. CASE digit = 10 /\ config' = PrgBank(config, 0, data % 16) /\ UNCHANGED mmc2
  <2>1. data % 16 \in Int
    OBVIOUS
  <2> QED
    BY <1>1, <1>2, <1>3, <2>1, PrgBankShown
<1>4. CASE digit \in 11..14 /\ Mmc2SetPage(PageOf(digit)[1], PageOf(digit)[2], data % 32)
  <2>1. PageOf(digit)[1] \in Sides /\ PageOf(digit)[2] \in 0..1
    BY <1>4 DEF PageOf, Sides
  <2>2. data % 32 \in 0..31
    OBVIOUS
  <2> DEFINE s == PageOf(digit)[1]
             v == PageOf(digit)[2]
             bank == data % 32
  <2>3. s \in Sides /\ v \in 0..1 /\ bank \in 0..31 /\ Mmc2SetPage(s, v, bank)
    BY <1>4, <2>1, <2>2
  <2> HIDE DEF s, v, bank
  <2>4. LatchInv' /\ Latched!SetPage(s, v)
    BY <2>3, Mmc2SetPageStep
  <2> QED
    BY <2>3, <2>4 DEF Latched!Next, Latched!Sides, Sides
<1>5. CASE /\ digit = 15 /\ UNCHANGED mmc2
           /\ config' = Mirroring(config, IF data % 2 = 0 THEN "vertical" ELSE "horizontal")
  <2> DEFINE m == IF data % 2 = 0 THEN "vertical" ELSE "horizontal"
  <2>1. m \in Mirrorings
    BY DEF Mirrorings
  <2> HIDE DEF m
  <2>2. Mirroring(config, m) \in BanksType /\ Mirroring(config, m).chr = config.chr
    BY <1>2, <2>1, MirroringShown
  <2> QED
    BY <1>1, <1>5, <2>2 DEF m
<1>6. CASE digit < 10 /\ UNCHANGED <<mmc2, config>>
  BY <1>1, <1>2, <1>6
<1> QED
  BY <1>3, <1>4, <1>5, <1>6 DEF Mmc2Write

-----------------------------------------------------------------------------
(* The cartridge.                                                          *)

MapperInv == rom \in Roms /\ mmc1 \in Mmc1Type /\ LatchInv

LEMMA InitMapperInv ==
  ASSUME Init
  PROVE  MapperInv /\ Port!Init /\ Latched!Init
<1>1. mmc1 \in Mmc1Type /\ Port!Init
  <2>1. mmc1 \in Mmc1Type
    BY DEF Init, Mmc1Default, Mmc1Type
  <2>2. Registers(mmc1) = [r \in 0..3 |-> IF r = 0 THEN 12 ELSE 0]
    BY DEF Init, Mmc1Default, Registers
  <2>3. Weight(mmc1) = 1 /\ Value(mmc1) = 0
    BY DEF Init, Mmc1Default, Weight, Value
  <2> QED
    BY <2>1, <2>2, <2>3 DEF Port!Init
<1>2. rom \in Roms /\ mmc2 = Mmc2Default /\ config = ConfigDefault /\ fetched = FetchedDefault
  BY DEF Init
<1>3. mmc2 \in Mmc2Type
  BY <1>2 DEF Mmc2Default, Mmc2Type
<1>4. ASSUME rom.board = "mmc2"
      PROVE  config \in BanksType /\ config.chr = [i \in Slots |-> 0]
  <2> DEFINE last == PrgCount - 1
             fixed == [i \in {1, 2, 3} |-> last - 3 + i]
             prg == [i \in Slots |-> IF i \in {1, 2, 3} THEN fixed[i] ELSE 0]
  <2>1. config = [prg |-> prg, chr |-> [i \in Slots |-> 0], mirroring |-> rom.mirroring]
    BY <1>2, <1>4 DEF ConfigDefault
  <2>2. last \in Int
    BY <1>2, CountType
  <2> HIDE DEF last
  <2>3. prg \in [Slots -> Int]
    BY <2>2
  <2>4. rom.mirroring \in Mirrorings
    BY <1>2, RomsAssumption
  <2> HIDE DEF prg
  <2> QED
    BY <2>1, <2>3, <2>4 DEF BanksType
<1>5. ASSUME rom.board = "mmc2"
      PROVE  Shown(config, mmc2)
  <2>1. ChrCount \in Int
    BY <1>2, CountType
  <2>2. Masked(0, ChrCount) = 0
    <3> DEFINE mask == ChrCount - 1
    <3>1. \A w \in {1, 2, 4, 8, 16, 32, 64, 128} : Bit(0, w) = 0
      BY DEF Bit
    <3>2. \A w \in {1, 2, 4, 8, 16, 32, 64, 128} : Bit(mask, w) \in 0..1
      BY <2>1, BitType
    <3> HIDE DEF mask
    <3>3. And(0, mask) = 0
      BY <3>1, <3>2 DEF And
    <3> QED
      BY <3>3 DEF Masked, mask
  <2>3. \A s \in Sides : Selected(mmc2, s) = 0
    BY <1>2 DEF Selected, Mmc2Default
  <2>4. \A s \in Sides : config.chr[Slot(s)] = 0
    BY <1>4, <1>5 DEF Slot
  <2> QED
    BY <2>2, <2>3, <2>4 DEF Shown
<1>6. Latched!Init
  BY <1>2 DEF Mmc2Default, FetchedDefault, Latched!Init, Latched!Sides, Sides
<1> QED
  BY <1>1, <1>2, <1>3, <1>4, <1>5, <1>6 DEF MapperInv, LatchInv

LEMMA NextMapperInv ==
  ASSUME MapperInv, [Next]_vars
  PROVE  /\ MapperInv'
         /\ Port!Next \/ UNCHANGED Port!port
         /\ Latched!Next \/ UNCHANGED Latched!banks
<1>1. ASSUME UNCHANGED mmc1 PROVE mmc1' \in Mmc1Type /\ UNCHANGED Port!port
  BY <1>1 DEF MapperInv, Port!port, Registers, Weight, Value
<1>2. ASSUME UNCHANGED <<rom, mmc2, fetched>>, rom.board # "mmc2" \/ UNCHANGED config
      PROVE  LatchInv' /\ UNCHANGED Latched!banks
  <2>1. ChrCount' = ChrCount
    BY <1>2 DEF ChrCount, ChrKb
  <2> QED
    BY <1>2, <2>1 DEF MapperInv, LatchInv, Shown, Latched!banks
<1>3. ASSUME NEW pg \in 8..31, NEW odd \in BOOLEAN, NEW data \in 0..255, CpuWrite(pg, odd, data)
      PROVE  /\ rom' = rom /\ mmc1' \in Mmc1Type /\ LatchInv'
             /\ Port!Next \/ UNCHANGED Port!port
             /\ Latched!Next \/ UNCHANGED Latched!banks
  <2> rom' = rom /\ UNCHANGED fetched
    BY <1>3 DEF CpuWrite
  <2>1. CASE UNCHANGED <<config, mmc1, mmc2>>
    BY <1>1, <1>2, <2>1
  <2>2. CASE Board("mmc1") /\ Mmc1Write(pg, data) /\ UNCHANGED mmc2
    BY <1>2, <2>2, Mmc1WriteStep DEF Board, MapperInv
  <2>3. CASE Board("mmc2") /\ Mmc2Write(pg, data) /\ UNCHANGED mmc1
    BY <1>1, <2>3, Mmc2WriteStep DEF Board, MapperInv
  <2>4. CASE ~Board("mmc2") /\ UNCHANGED <<mmc1, mmc2>>
    BY <1>1, <1>2, <2>4 DEF Board
  <2>5. DiscreteWrite(data) => ~Board("mmc2")
    BY DEF DiscreteWrite, Board
  <2>6. Board("mmc3") \/ Board("m19") => ~Board("mmc2")
    BY DEF Board
  <2> QED
    BY <1>3, <2>1, <2>2, <2>3, <2>4, <2>5, <2>6 DEF CpuWrite, MapperWrite
<1>4. ASSUME NEW s \in Sides, NEW tile \in Tiles, Fetch(s, tile)
      PROVE  rom' = rom /\ mmc1' = mmc1 /\ LatchInv' /\ Latched!Fetch(s, tile)
  BY <1>4, Mmc2FetchStep DEF Fetch, Board, MapperInv
<1>5. CASE Write
  <2>1. PICK pg \in DOMAIN Bytes[rom.board] :
               \E odd \in BOOLEAN, data \in Bytes[rom.board][pg] : CpuWrite(pg, odd, data)
    BY <1>5 DEF Write
  <2>2. PICK odd \in BOOLEAN, data \in Bytes[rom.board][pg] : CpuWrite(pg, odd, data)
    BY <2>1
  <2>3. rom.board \in Boards
    BY RomsAssumption DEF MapperInv
  <2>4. pg \in 8..31 /\ data \in 0..255
    BY <2>3, CartridgeAssumption
  <2> QED
    BY <1>3, <2>2, <2>4, ZenonT(40) DEF MapperInv
<1>6. ASSUME NEW s \in Sides, NEW tile \in Tiles, Fetch(s, tile)
      PROVE  MapperInv' /\ UNCHANGED Port!port /\ Latched!Next
  BY <1>1, <1>4, <1>6 DEF MapperInv, Latched!Next, Latched!Sides, Sides, Tiles
<1>7. CASE Scanline \/ CpuCycle
  BY <1>1, <1>2, <1>7 DEF Scanline, CpuCycle, MapperInv
<1>8. CASE UNCHANGED vars
  BY <1>1, <1>2, <1>8 DEF vars, MapperInv
<1> QED
  BY <1>5, <1>6, <1>7, <1>8 DEF Next, ReadOrHook

(* What both results rest on: the registers keep their widths, and on an   *)
(* MMC2 the banks shown are right or due to be updated.                    *)
THEOREM MapperInvariant == Spec => []MapperInv
<1>1. Init => MapperInv
  BY InitMapperInv
<1>2. MapperInv /\ [Next]_vars => MapperInv'
  BY NextMapperInv
<1> QED
  BY <1>1, <1>2, PTL DEF Spec

(* Every write of the CPU to an MMC1, in any order and with resets at any  *)
(* point, is a step of a five-bit serial port or none: whatever the        *)
(* cartridge, the program and the values it loads.                         *)
THEOREM SerialPortImplemented == Spec => ImplementsSerialPort
<1>1. Init => Port!Init
  BY InitMapperInv
<1>2. MapperInv /\ [Next]_vars => [Port!Next]_(Port!port)
  BY NextMapperInv
<1> QED
  BY <1>1, <1>2, MapperInvariant, PTL DEF Spec, Port!Spec, ImplementsSerialPort

(* Every fetch of the PPU from an MMC2 is served by the bank the latch of  *)
(* its half picks when it is made, although the bank registers follow a    *)
(* latch late: whatever the cartridge, its program and the PPU's fetches.  *)
THEOREM LatchedBanksImplemented == Spec => ImplementsLatchedBanks
<1>1. Init => Latched!Init
  BY InitMapperInv
<1>2. MapperInv /\ [Next]_vars => [Latched!Next]_(Latched!banks)
  BY NextMapperInv
<1> QED
  BY <1>1, <1>2, MapperInvariant, PTL DEF Spec, Latched!Spec, ImplementsLatchedBanks

-----------------------------------------------------------------------------
(* Reads stay in the ROM.                                                  *)

(* A cartridge that holds the banks its board shows.  The header counts    *)
(* PRG in 16 KB and CHR in 8 KB; the boards of 32 KB banks show one, the   *)
(* MMC2 fixes the last three of 8 KB, and mapper 19 takes any bank below   *)
(* 224 from the ROM.                                                       *)
Fits(r) ==
  /\ r.prg % 16 = 0 /\ r.chr % 8 = 0
  /\ r.board \in {"cnrom", "axrom", "gxrom", "mmc2"} => r.prg >= 32
  /\ r.board = "m19" => r.chr >= 224

(* Banks within the ROM in every slot. *)
RomBanks ==
  [prg : [Slots -> 0 .. PrgCount - 1], chr : [Slots -> 0 .. ChrCount - 1],
   mirroring : Mirrorings]

M19Shape ==
  [chr_banks : [0..11 -> 0..255], ram_enable : 0..255,
   irq_counter : Int, irq_enabled : BOOLEAN, irq_pending : BOOLEAN]

BanksInv ==
  /\ MapperInv
  /\ Fits(rom)
  /\ config \in RomBanks
  /\ mmc3 \in Mmc3Type
  /\ m19 \in M19Shape

(* A mask keeps at most the bits of the other operand. *)
LEMMA BitHalves ==
  ASSUME NEW n \in Nat
  PROVE  /\ n = 2 * (n \div 2) + Bit(n, 1)
         /\ n \div 2 = 2 * (n \div 4) + Bit(n, 2)
         /\ n \div 4 = 2 * (n \div 8) + Bit(n, 4)
         /\ n \div 8 = 2 * (n \div 16) + Bit(n, 8)
         /\ n \div 16 = 2 * (n \div 32) + Bit(n, 16)
         /\ n \div 32 = 2 * (n \div 64) + Bit(n, 32)
         /\ n \div 64 = 2 * (n \div 128) + Bit(n, 64)
         /\ n \div 128 = 2 * (n \div 256) + Bit(n, 128)
         /\ n \div 256 >= 0
BY DEF Bit

LEMMA AndBound == ASSUME NEW a \in Int, NEW b \in Nat PROVE And(a, b) \in 0..b
<1> DEFINE both(w) == Bit(a, w) * Bit(b, w) * w
           bit(w) == Bit(b, w) * w
           Weights == {1, 2, 4, 8, 16, 32, 64, 128}
<1>1. ASSUME NEW w \in Weights PROVE both(w) \in 0 .. bit(w)
  <2>1. Bit(a, w) \in {0, 1} /\ Bit(b, w) \in {0, 1}
    BY BitType
  <2>2. CASE Bit(a, w) = 1 /\ Bit(b, w) = 1
    BY <2>2
  <2>3. CASE Bit(a, w) = 0 /\ Bit(b, w) \in {0, 1}
    BY <2>3
  <2>4. CASE Bit(a, w) = 1 /\ Bit(b, w) = 0
    BY <2>4
  <2> QED
    BY <2>1, <2>2, <2>3, <2>4
<1>2. And(a, b) = both(1) + both(2) + both(4) + both(8) + both(16) + both(32) + both(64) + both(128)
  BY DEF And
<1>3. bit(1) + bit(2) + bit(4) + bit(8) + bit(16) + bit(32) + bit(64) + bit(128) <= b
  <2>1. /\ Bit(b, 1) \in Nat /\ Bit(b, 2) \in Nat /\ Bit(b, 4) \in Nat /\ Bit(b, 8) \in Nat
        /\ Bit(b, 16) \in Nat /\ Bit(b, 32) \in Nat /\ Bit(b, 64) \in Nat
        /\ Bit(b, 128) \in Nat
    BY BitType
  <2>2. /\ b = 2 * (b \div 2) + Bit(b, 1)
        /\ b \div 2 = 2 * (b \div 4) + Bit(b, 2)
        /\ b \div 4 = 2 * (b \div 8) + Bit(b, 4)
        /\ b \div 8 = 2 * (b \div 16) + Bit(b, 8)
        /\ b \div 16 = 2 * (b \div 32) + Bit(b, 16)
        /\ b \div 32 = 2 * (b \div 64) + Bit(b, 32)
        /\ b \div 64 = 2 * (b \div 128) + Bit(b, 64)
        /\ b \div 128 = 2 * (b \div 256) + Bit(b, 128)
        /\ b \div 256 >= 0
    BY BitHalves
  <2>3. b \div 256 \in Nat
    OBVIOUS
  <2> QED
    BY <2>1, <2>2, <2>3
<1>4. \A w \in Weights : bit(w) \in Nat
  BY BitType
<1> HIDE DEF both, bit
<1>5. /\ both(1) \in 0 .. bit(1) /\ both(2) \in 0 .. bit(2) /\ both(4) \in 0 .. bit(4)
      /\ both(8) \in 0 .. bit(8) /\ both(16) \in 0 .. bit(16) /\ both(32) \in 0 .. bit(32)
      /\ both(64) \in 0 .. bit(64) /\ both(128) \in 0 .. bit(128)
  BY <1>1
<1>6. /\ bit(1) \in Nat /\ bit(2) \in Nat /\ bit(4) \in Nat /\ bit(8) \in Nat
      /\ bit(16) \in Nat /\ bit(32) \in Nat /\ bit(64) \in Nat /\ bit(128) \in Nat
  BY <1>4
<1> QED
  BY <1>2, <1>3, <1>5, <1>6

LEMMA MaskedInRom ==
  ASSUME NEW bank \in Int, NEW count \in Nat, count > 0
  PROVE  Masked(bank, count) \in 0 .. count - 1
<1> DEFINE mask == count - 1
<1>1. mask \in Nat
  OBVIOUS
<1>2. Masked(bank, count) = And(bank, mask)
  BY DEF Masked
<1> HIDE DEF mask
<1>3. And(bank, mask) \in 0..mask
  BY <1>1, AndBound
<1> QED
  BY <1>2, <1>3 DEF mask

(* What a fitting cartridge holds. *)
LEMMA FittingCounts ==
  ASSUME rom \in Roms, Fits(rom)
  PROVE  /\ rom.prg \in Nat /\ rom.chr \in Nat
         /\ PrgKb \in {8, 16, 32} /\ ChrKb \in {1, 4, 8}
         /\ PrgCount \in Nat /\ PrgCount > 0 /\ PrgCount * PrgKb <= rom.prg
         /\ ChrCount \in Nat /\ ChrCount > 0 /\ ChrCount * ChrKb <= rom.chr
         /\ rom.board = "mmc2" => PrgCount >= 4
         /\ rom.board = "mmc1" => ChrCount % 2 = 0
         /\ rom.board = "m19" => ChrCount >= 224 /\ ChrKb = 1
<1>1. rom.chr \in Nat /\ rom.prg \in Nat /\ rom.chr > 0 /\ rom.prg > 0 /\ rom.board \in Boards
  BY RomsAssumption
<1>2. rom.prg % 16 = 0 /\ rom.chr % 8 = 0
  BY DEF Fits
<1>3. rom.prg >= 16 /\ rom.chr >= 8
  BY <1>1, <1>2
<1>4. /\ PrgKb \in {8, 16, 32}
      /\ PrgKb = 32 => rom.prg >= 32
      /\ rom.board = "mmc2" => PrgKb = 8 /\ rom.prg >= 32
  BY <1>1, <1>2 DEF PrgKb, Fits, Boards
<1>5. /\ ChrKb \in {1, 4, 8}
      /\ rom.board = "mmc1" => ChrKb = 4
      /\ rom.board = "m19" => ChrKb = 1 /\ rom.chr >= 224
  BY DEF ChrKb, Fits
<1>6. PrgCount \in Nat /\ PrgCount > 0 /\ PrgCount * PrgKb <= rom.prg
  <2>1. CASE PrgKb = 8
    BY <1>1, <1>3, <2>1 DEF PrgCount
  <2>2. CASE PrgKb = 16
    BY <1>1, <1>3, <2>2 DEF PrgCount
  <2>3. CASE PrgKb = 32
    BY <1>1, <1>4, <2>3 DEF PrgCount
  <2> QED
    BY <1>4, <2>1, <2>2, <2>3
<1>7. ChrCount \in Nat /\ ChrCount > 0 /\ ChrCount * ChrKb <= rom.chr
  <2>1. CASE ChrKb = 1
    BY <1>1, <1>3, <2>1 DEF ChrCount
  <2>2. CASE ChrKb = 4
    BY <1>1, <1>3, <2>2 DEF ChrCount
  <2>3. CASE ChrKb = 8
    BY <1>1, <1>3, <2>3 DEF ChrCount
  <2> QED
    BY <1>5, <2>1, <2>2, <2>3
<1>8. rom.board = "mmc2" => PrgCount >= 4
  BY <1>1, <1>4 DEF PrgCount
<1>9. rom.board = "mmc1" => ChrCount % 2 = 0
  BY <1>1, <1>2, <1>5 DEF ChrCount
<1>10. rom.board = "m19" => ChrCount >= 224 /\ ChrKb = 1
  BY <1>1, <1>5 DEF ChrCount
<1> QED
  BY <1>1, <1>4, <1>5, <1>6, <1>7, <1>8, <1>9, <1>10

LEMMA ChrBankInRom ==
  ASSUME rom \in Roms, Fits(rom), NEW c \in RomBanks, NEW i \in Slots, NEW bank \in Int
  PROVE  ChrBank(c, i, bank) \in RomBanks
<1> DEFINE b == Masked(bank, ChrCount)
<1>1. b \in 0 .. ChrCount - 1
  BY FittingCounts, MaskedInRom
<1>2. ChrBank(c, i, bank) = [c EXCEPT !.chr[i] = b]
  BY DEF ChrBank
<1> HIDE DEF b
<1>3. [c EXCEPT !.chr[i] = b] \in RomBanks
  BY <1>1 DEF RomBanks
<1> QED
  BY <1>2, <1>3

LEMMA PrgBankInRom ==
  ASSUME rom \in Roms, Fits(rom), NEW c \in RomBanks, NEW i \in Slots, NEW bank \in Int
  PROVE  PrgBank(c, i, bank) \in RomBanks
<1> DEFINE b == Masked(bank, PrgCount)
<1>1. b \in 0 .. PrgCount - 1
  BY FittingCounts, MaskedInRom
<1>2. PrgBank(c, i, bank) = [c EXCEPT !.prg[i] = b]
  BY DEF PrgBank
<1> HIDE DEF b
<1>3. [c EXCEPT !.prg[i] = b] \in RomBanks
  BY <1>1 DEF RomBanks
<1> QED
  BY <1>2, <1>3

LEMMA MirroringInRom ==
  ASSUME NEW c \in RomBanks, NEW m \in Mirrorings
  PROVE  Mirroring(c, m) \in RomBanks
  BY DEF Mirroring, RomBanks

LEMMA DefaultInRom ==
  ASSUME rom \in Roms, Fits(rom)
  PROVE  ConfigDefault \in RomBanks
<1> DEFINE last == PrgCount - 1
           mirroring == IF rom.board = "axrom" THEN "screen_a" ELSE rom.mirroring
           Default(prg) == [prg |-> prg, chr |-> [i \in Slots |-> 0], mirroring |-> mirroring]
<1>1. /\ PrgCount \in Nat /\ PrgCount > 0 /\ ChrCount \in Nat /\ ChrCount > 0
      /\ rom.board = "mmc2" => PrgCount >= 4
  BY FittingCounts
<1>2. mirroring \in Mirrorings
  BY RomsAssumption DEF Mirrorings
<1>3. ASSUME NEW prg \in [Slots -> 0 .. PrgCount - 1] PROVE Default(prg) \in RomBanks
  BY <1>1, <1>2, <1>3 DEF RomBanks
<1>4. CASE rom.board \in {"mmc3", "m19"}
  <2> DEFINE prg == [i \in Slots |-> IF i \in {3} THEN last ELSE 0]
  <2>1. ConfigDefault = Default(prg)
    BY <1>4 DEF ConfigDefault
  <2> QED
    BY <1>1, <1>3, <2>1
<1>5. CASE rom.board = "mmc2"
  <2> DEFINE prg == [i \in Slots |-> IF i \in {1, 2, 3} THEN last - 3 + i ELSE 0]
  <2>1. ConfigDefault = Default(prg)
    BY <1>5 DEF ConfigDefault
  <2> QED
    BY <1>1, <1>3, <1>5, <2>1
<1>6. CASE rom.board = "uxrom"
  <2> DEFINE prg == [i \in Slots |-> IF i \in {1} THEN last ELSE 0]
  <2>1. ConfigDefault = Default(prg)
    BY <1>6 DEF ConfigDefault
  <2> QED
    BY <1>1, <1>3, <2>1
<1>7. CASE rom.board \notin {"mmc3", "m19", "mmc2", "uxrom"}
  <2> DEFINE prg == [i \in Slots |-> 0]
  <2>1. ConfigDefault = Default(prg)
    BY <1>7 DEF ConfigDefault
  <2> QED
    BY <1>1, <1>3, <2>1
<1> QED
  BY <1>4, <1>5, <1>6, <1>7

(* The MMC3. *)
LEMMA Mmc3Fields ==
  ASSUME NEW m \in Mmc3Type
  PROVE  /\ m.chr_mode \in 0..1 /\ m.prg_mode \in 0..1 /\ m.register \in 0..7
         /\ m.registers \in [0..7 -> 0..255]
         /\ m.irq_load_value \in 0..255 /\ m.irq_counter \in 0..255
         /\ m.irq_reload \in BOOLEAN /\ m.irq_enabled \in BOOLEAN
  BY DEF Mmc3Type

LEMMA UpdateBanksInRom ==
  ASSUME rom \in Roms, Fits(rom), NEW c \in RomBanks, NEW m \in Mmc3Type
  PROVE  UpdateBanks(c, m) \in RomBanks
<1> DEFINE R == m.registers
           pair(i) == IF i % 2 = 0 THEN And(R[i \div 2], 254) ELSE Or(R[i \div 2], 1)
           chr(i) == IF (i < 4) = (m.chr_mode = 0) THEN pair(i % 4) ELSE R[2 + (i % 4)]
           prg(i) == CASE i = 1 -> R[7]
                       [] i = 3 -> PrgCount - 1
                       [] OTHER -> IF (i = 0) = (m.prg_mode = 0) THEN R[6] ELSE PrgCount - 2
           Chr(i) == Masked(chr(i), ChrCount)
           Prg(i) == IF i <= 3 THEN Masked(prg(i), PrgCount) ELSE c.prg[i]
<1>1. /\ PrgCount \in Nat /\ PrgCount > 0 /\ ChrCount \in Nat /\ ChrCount > 0
  BY FittingCounts
<1> HIDE DEF R
<1>2. ASSUME NEW k \in 0..7 PROVE R[k] \in Int
  <2>1. R \in [0..7 -> 0..255]
    BY Mmc3Fields DEF R
  <2> QED
    BY <2>1
<1>3. c.prg \in [Slots -> 0 .. PrgCount - 1]
  BY DEF RomBanks
<1>4. UpdateBanks(c, m) = [c EXCEPT !.chr = [i \in Slots |-> Chr(i)],
                                    !.prg = [i \in Slots |-> Prg(i)]]
  BY DEF UpdateBanks, RomBanks, R
<1>5. ASSUME NEW i \in 0..3 PROVE pair(i) \in Int
  <2>1. i \div 2 \in 0..7
    OBVIOUS
  <2>2. R[i \div 2] \in Int
    BY <1>2, <2>1
  <2>3. ASSUME NEW a \in Int PROVE And(a, 254) \in Int /\ Or(a, 1) \in Int
    <3>1. 254 \in Int /\ 1 \in Int
      OBVIOUS
    <3>2. \A b \in Int : And(a, b) \in 0..255
      BY AndType
    <3>3. And(a, 254) \in 0..255 /\ And(a, 1) \in 0..255
      BY <3>1, <3>2
    <3> QED
      BY <3>3 DEF Or
  <2> QED
    BY <2>2, <2>3
<1> HIDE DEF pair
<1>6. ASSUME NEW i \in Slots PROVE Chr(i) \in 0 .. ChrCount - 1
  <2>1. i % 4 \in 0..3 /\ 2 + (i % 4) \in 0..7
    OBVIOUS
  <2>2. chr(i) \in Int
    BY <1>2, <1>5, <2>1
  <2> HIDE DEF chr
  <2> QED
    BY <1>1, <2>2, MaskedInRom
<1>7. ASSUME NEW i \in Slots PROVE Prg(i) \in 0 .. PrgCount - 1
  <2>1. prg(i) \in Int
    BY <1>1, <1>2
  <2> HIDE DEF prg
  <2>2. Masked(prg(i), PrgCount) \in 0 .. PrgCount - 1
    BY <1>1, <2>1, MaskedInRom
  <2> QED
    BY <1>3, <2>2
<1> HIDE DEF Chr, Prg
<1>8. [i \in Slots |-> Chr(i)] \in [Slots -> 0 .. ChrCount - 1]
  BY <1>6
<1>9. [i \in Slots |-> Prg(i)] \in [Slots -> 0 .. PrgCount - 1]
  BY <1>7
<1>10. ASSUME NEW f \in [Slots -> 0 .. ChrCount - 1], NEW g \in [Slots -> 0 .. PrgCount - 1]
       PROVE  [c EXCEPT !.chr = f, !.prg = g] \in RomBanks
  BY <1>10 DEF RomBanks
<1> QED
  BY <1>4, <1>8, <1>9, <1>10

LEMMA Mmc3WriteBanks ==
  ASSUME rom \in Roms, Fits(rom), config \in RomBanks, mmc3 \in Mmc3Type,
         NEW pg \in 8..31, NEW odd \in BOOLEAN, NEW data \in 0..255,
         Mmc3Write(pg, odd, data)
  PROVE  config' \in RomBanks /\ mmc3' \in Mmc3Type
<1>1. CASE BankSelect(data)
  <2> DEFINE m == [mmc3 EXCEPT !.register = data % 8, !.prg_mode = Bit(data, 64),
                               !.chr_mode = Bit(data, 128)]
  <2>1. data % 8 \in 0..7 /\ Bit(data, 64) \in 0..1 /\ Bit(data, 128) \in 0..1
    BY BitType
  <2>2. m \in Mmc3Type
    BY <2>1, ZenonT(40) DEF Mmc3Type
  <2>3. mmc3' = m /\ config' = UpdateBanks(config, m)
    BY <1>1 DEF BankSelect
  <2> HIDE DEF m
  <2> QED
    BY <2>2, <2>3, UpdateBanksInRom
<1>2. CASE BankData(data)
  <2> DEFINE r == mmc3.register
             v == IF r <= 1 THEN data - (data % 2) ELSE IF r >= 6 THEN data % 64 ELSE data
             m == [mmc3 EXCEPT !.registers[r] = v]
  <2>1. r \in 0..7 /\ v \in 0..255
    BY Mmc3Fields
  <2>2. mmc3' = m /\ config' = UpdateBanks(config, m)
    BY <1>2 DEF BankData
  <2> HIDE DEF r, v
  <2>3. m \in Mmc3Type
    BY <2>1, ZenonT(40) DEF Mmc3Type
  <2> HIDE DEF m
  <2> QED
    BY <2>2, <2>3, UpdateBanksInRom
<1>3. CASE MirroringWrite(data)
  <2>1. (IF data % 2 = 1 THEN "horizontal" ELSE "vertical") \in Mirrorings
    BY DEF Mirrorings
  <2> QED
    BY <1>3, <2>1, MirroringInRom DEF MirroringWrite
<1>4. CASE IrqLatch(data)
  BY <1>4, ZenonT(40) DEF IrqLatch, Mmc3Type
<1>7. CASE IrqReload
  <2>1. 0 \in 0..255 /\ TRUE \in BOOLEAN
    OBVIOUS
  <2>2. ASSUME NEW n \in 0..255, NEW b \in BOOLEAN
        PROVE  [mmc3 EXCEPT !.irq_counter = n, !.irq_reload = b] \in Mmc3Type
    BY <2>2, ZenonT(40) DEF Mmc3Type
  <2> QED
    BY <1>7, <2>1, <2>2 DEF IrqReload
<1>5. CASE IrqEnable(odd)
  BY <1>5, ZenonT(40) DEF IrqEnable, Mmc3Type
<1>6. CASE UNCHANGED <<mmc3, config>>
  BY <1>6
<1> QED
  BY <1>1, <1>2, <1>3, <1>4, <1>5, <1>6, <1>7 DEF Mmc3Write

LEMMA Mmc3ScanlineType ==
  ASSUME mmc3 \in Mmc3Type, Mmc3Scanline
  PROVE  mmc3' \in Mmc3Type
<1>1. CountedDown(mmc3) \in 0..255
  BY Mmc3Fields DEF CountedDown
<1> QED
  BY <1>1, ZenonT(40) DEF Mmc3Scanline, Mmc3Type

(* Mapper 19. *)
LEMMA M19WriteBanks ==
  ASSUME rom \in Roms, Fits(rom), config \in RomBanks, m19 \in M19Shape,
         NEW pg \in 8..31, NEW data \in 0..255, M19Write(pg, data)
  PROVE  config' \in RomBanks /\ m19' \in M19Shape
<1>0. Half \in Nat \ {0}
  BY Mapper19Assumption
<1>1. ASSUME NEW n \in Int, NEW on \in BOOLEAN, NEW pending \in BOOLEAN
      PROVE  /\ [m19 EXCEPT !.irq_counter = n, !.irq_pending = pending] \in M19Shape
             /\ [m19 EXCEPT !.irq_counter = n, !.irq_pending = pending, !.irq_enabled = on]
                  \in M19Shape
  BY <1>1, ZenonT(40) DEF M19Shape
<1>2. m19.irq_counter \in Int /\ FALSE \in BOOLEAN /\ (data >= 128) \in BOOLEAN
  BY DEF M19Shape
<1>3. CASE CounterLow(data) /\ UNCHANGED config
  <2> DEFINE n == m19.irq_counter - (m19.irq_counter % Half) + (data % Half)
  <2>1. n \in Int
    BY <1>0, <1>2
  <2>2. m19' = [m19 EXCEPT !.irq_counter = n, !.irq_pending = FALSE]
    BY <1>3 DEF CounterLow
  <2> HIDE DEF n
  <2> QED
    BY <1>1, <1>2, <1>3, <2>1, <2>2
<1>4. CASE CounterHigh(data) /\ UNCHANGED config
  <2> DEFINE n == (m19.irq_counter % Half) + Half * (data % Half)
             on == data >= 128
  <2>1. n \in Int /\ on \in BOOLEAN
    BY <1>0, <1>2
  <2>2. m19' = [m19 EXCEPT !.irq_counter = n, !.irq_pending = FALSE, !.irq_enabled = on]
    BY <1>4 DEF CounterHigh
  <2> HIDE DEF n, on
  <2> QED
    BY <1>1, <1>2, <1>4, <2>1, <2>2
<1>5. CASE pg \in 16..27 /\ M19ChrBank(pg, data) /\ UNCHANGED config
  BY <1>5 DEF M19ChrBank, M19Shape
<1>6. CASE pg \in 28..30 /\ M19PrgBank(pg, data)
  <2>1. pg - 28 \in Slots /\ data \in Int
    BY <1>6
  <2>2. config' \in RomBanks
    BY <1>6, <2>1, PrgBankInRom DEF M19PrgBank
  <2>3. m19' \in M19Shape
    BY <1>6 DEF M19PrgBank, M19Shape
  <2> QED
    BY <2>2, <2>3
<1>7. CASE UNCHANGED <<m19, config>>
  BY <1>7
<1> QED
  BY <1>3, <1>4, <1>5, <1>6, <1>7 DEF M19Write

LEMMA M19CycleShape ==
  ASSUME m19 \in M19Shape, M19Cycle
  PROVE  m19' \in M19Shape
<1>1. m19.irq_counter + 1 \in Int /\ TRUE \in BOOLEAN
  BY DEF M19Shape
<1>2. ASSUME NEW n \in Int PROVE [m19 EXCEPT !.irq_counter = n] \in M19Shape
  BY <1>2 DEF M19Shape
<1>3. ASSUME NEW pending \in BOOLEAN PROVE [m19 EXCEPT !.irq_pending = pending] \in M19Shape
  BY <1>3 DEF M19Shape
<1>4. \/ m19' = m19 \/ m19' = [m19 EXCEPT !.irq_counter = m19.irq_counter + 1]
      \/ m19' = [m19 EXCEPT !.irq_pending = TRUE]
  BY DEF M19Cycle
<1> QED
  BY <1>1, <1>2, <1>3, <1>4

(* The MMC1 changes the mirroring only: its reads compute their banks. *)
LEMMA Mmc1WriteBanks ==
  ASSUME config \in RomBanks, mmc1 \in Mmc1Type, NEW pg \in 8..31, NEW data \in 0..255,
         Mmc1Write(pg, data)
  PROVE  config' \in RomBanks
<1>1. ASSUME NEW control \in 0..31 PROVE ControlMirroring(control) \in Mirrorings
  BY DEF ControlMirroring, Mirrorings
<1>2. ASSUME NEW register, NEW bit, Mmc1Load(register, bit)
      PROVE  config' \in RomBanks
  <2>1. ShiftIn(mmc1, bit) \in 0..31
    BY <1>2, LoadableAssumption DEF Mmc1Load
  <2>2. config' = config \/ config' = Mirroring(config, ControlMirroring(ShiftIn(mmc1, bit)))
    BY <1>2 DEF Mmc1Load
  <2> QED
    BY <1>1, <2>1, <2>2, MirroringInRom
<1> QED
  BY <1>2 DEF Mmc1Write, Mmc1Reset, Mmc1Shift

(* The MMC2. *)
LEMMA Mmc2WriteBanks ==
  ASSUME rom \in Roms, Fits(rom), config \in RomBanks, mmc2 \in Mmc2Type,
         NEW pg \in 8..31, NEW data \in 0..255, Mmc2Write(pg, data)
  PROVE  config' \in RomBanks
<1>1. CASE config' = PrgBank(config, 0, data % 16)
  <2>1. 0 \in Slots /\ data % 16 \in Int
    OBVIOUS
  <2> QED
    BY <1>1, <2>1, PrgBankInRom
<1>2. ASSUME NEW s \in Sides, NEW v \in 0..1, NEW bank \in 0..31, Mmc2SetPage(s, v, bank)
      PROVE  config' \in RomBanks
  <2> DEFINE m == [mmc2 EXCEPT !.page[s][v] = bank]
  <2>1. m \in Mmc2Type
    BY DEF Mmc2Type
  <2>2. config' = ChrBank(config, Slot(s), Selected(m, s))
    BY <1>2 DEF Mmc2SetPage
  <2> HIDE DEF m
  <2>3. Slot(s) \in Slots /\ Selected(m, s) \in Int
    BY <2>1, SelectedType DEF Slot
  <2> QED
    BY <2>2, <2>3, ChrBankInRom
<1>3. CASE pg \div 2 \in 11..14 /\ Mmc2SetPage(PageOf(pg \div 2)[1], PageOf(pg \div 2)[2], data % 32)
  <2>1. data % 32 \in 0..31 /\ pg \div 2 \in 11..14
    BY <1>3
  <2>2. PageOf(pg \div 2)[1] \in Sides /\ PageOf(pg \div 2)[2] \in 0..1
    BY <2>1 DEF PageOf, Sides
  <2> QED
    BY <1>2, <1>3, <2>1, <2>2
<1>4. CASE config' = Mirroring(config, IF data % 2 = 0 THEN "vertical" ELSE "horizontal")
  <2>1. (IF data % 2 = 0 THEN "vertical" ELSE "horizontal") \in Mirrorings
    BY DEF Mirrorings
  <2> QED
    BY <1>4, <2>1, MirroringInRom
<1>5. CASE config' = config
  BY <1>5
<1> QED
  BY <1>1, <1>3, <1>4, <1>5 DEF Mmc2Write

LEMMA Mmc2FetchBanks ==
  ASSUME rom \in Roms, Fits(rom), config \in RomBanks, mmc2 \in Mmc2Type,
         NEW s \in Sides, NEW tile \in Tiles, Mmc2Fetch(s, tile)
  PROVE  config' \in RomBanks
<1> DEFINE c == ChrBank(config, 0, Selected(mmc2, "left"))
<1>1. 0 \in Slots /\ 1 \in Slots /\ "left" \in Sides /\ "right" \in Sides
  BY DEF Sides
<1>2. Selected(mmc2, "left") \in Int /\ Selected(mmc2, "right") \in Int
  BY <1>1, SelectedType
<1>3. c \in RomBanks
  BY <1>1, <1>2, ChrBankInRom
<1>4. config' = config \/ config' = ChrBank(c, 1, Selected(mmc2, "right"))
  BY DEF Mmc2Fetch, BothBanks
<1> HIDE DEF c
<1> QED
  BY <1>1, <1>2, <1>3, <1>4, ChrBankInRom

(* The boards without registers. *)
LEMMA DiscreteWriteBanks ==
  ASSUME rom \in Roms, Fits(rom), config \in RomBanks, NEW data \in 0..255,
         DiscreteWrite(data)
  PROVE  config' \in RomBanks
<1>1. 0 \in Slots /\ data \in Int /\ (data \div 16) % 4 \in Int /\ data % 4 \in Int
  OBVIOUS
<1>2. PrgBank(config, 0, data) \in RomBanks /\ ChrBank(config, 0, data) \in RomBanks
  BY <1>1, PrgBankInRom, ChrBankInRom
<1>3. PrgBank(config, 0, (data \div 16) % 4) \in RomBanks
  BY <1>1, PrgBankInRom
<1>4. ChrBank(PrgBank(config, 0, (data \div 16) % 4), 0, data % 4) \in RomBanks
  BY <1>1, <1>3, ChrBankInRom
<1>5. (IF Bit(data, 16) = 0 THEN "screen_a" ELSE "screen_b") \in Mirrorings
  BY DEF Mirrorings
<1>6. Mirroring(PrgBank(config, 0, data), IF Bit(data, 16) = 0 THEN "screen_a" ELSE "screen_b")
        \in RomBanks
  BY <1>2, <1>5, MirroringInRom
<1> QED
  BY <1>2, <1>4, <1>6 DEF DiscreteWrite

LEMMA InitBanksInv ==
  ASSUME Init, \A r \in Roms : Fits(r)
  PROVE  BanksInv
<1>1. rom \in Roms /\ Fits(rom) /\ MapperInv
  BY InitMapperInv DEF Init
<1>2. config \in RomBanks
  BY <1>1, DefaultInRom DEF Init
<1>3. mmc3 \in Mmc3Type
  BY DEF Init, Mmc3Default, Mmc3Type
<1>4. m19 \in M19Shape
  BY DEF Init, M19Default, M19Shape
<1> QED
  BY <1>1, <1>2, <1>3, <1>4 DEF BanksInv

LEMMA NextBanksInv ==
  ASSUME BanksInv, [Next]_vars
  PROVE  BanksInv'
<1> rom \in Roms /\ Fits(rom) /\ config \in RomBanks /\ mmc3 \in Mmc3Type /\ m19 \in M19Shape
    /\ mmc1 \in Mmc1Type /\ (rom.board = "mmc2" => mmc2 \in Mmc2Type)
  BY DEF BanksInv, MapperInv, LatchInv
<1>1. MapperInv'
  BY NextMapperInv DEF BanksInv
<1>2. rom' = rom
  BY DEF Next, Write, ReadOrHook, CpuWrite, Fetch, Scanline, CpuCycle, vars
<1>3. ASSUME NEW pg \in 8..31, NEW odd \in BOOLEAN, NEW data \in 0..255, CpuWrite(pg, odd, data)
      PROVE  config' \in RomBanks /\ mmc3' \in Mmc3Type /\ m19' \in M19Shape
  <2>1. CASE UNCHANGED <<config, mmc3, m19>>
    BY <2>1
  <2>2. CASE Mmc1Write(pg, data) /\ UNCHANGED <<mmc3, m19>>
    BY <2>2, Mmc1WriteBanks
  <2>3. CASE Board("mmc2") /\ Mmc2Write(pg, data) /\ UNCHANGED <<mmc3, m19>>
    BY <2>3, Mmc2WriteBanks DEF Board
  <2>4. CASE Mmc3Write(pg, odd, data) /\ UNCHANGED m19
    BY <2>4, Mmc3WriteBanks
  <2>5. CASE M19Write(pg, data) /\ UNCHANGED mmc3
    BY <2>5, M19WriteBanks
  <2>6. CASE DiscreteWrite(data) /\ UNCHANGED <<mmc3, m19>>
    BY <2>6, DiscreteWriteBanks
  <2> QED
    BY <1>3, <2>1, <2>2, <2>3, <2>4, <2>5, <2>6 DEF CpuWrite, MapperWrite
<1>4. ASSUME Write
      PROVE  config' \in RomBanks /\ mmc3' \in Mmc3Type /\ m19' \in M19Shape
  <2>1. PICK pg \in DOMAIN Bytes[rom.board] :
               \E odd \in BOOLEAN, data \in Bytes[rom.board][pg] : CpuWrite(pg, odd, data)
    BY <1>4 DEF Write
  <2>2. PICK odd \in BOOLEAN, data \in Bytes[rom.board][pg] : CpuWrite(pg, odd, data)
    BY <2>1
  <2>3. rom.board \in Boards
    BY RomsAssumption
  <2>4. pg \in 8..31 /\ data \in 0..255
    BY <2>3, CartridgeAssumption
  <2> QED
    BY <1>3, <2>2, <2>4
<1>5. ASSUME NEW s \in Sides, NEW tile \in Tiles, Fetch(s, tile)
      PROVE  config' \in RomBanks /\ mmc3' \in Mmc3Type /\ m19' \in M19Shape
  BY <1>5, Mmc2FetchBanks DEF Fetch, Board
<1>6. ASSUME Scanline
      PROVE  config' \in RomBanks /\ mmc3' \in Mmc3Type /\ m19' \in M19Shape
  BY <1>6, Mmc3ScanlineType DEF Scanline
<1>7. ASSUME CpuCycle
      PROVE  config' \in RomBanks /\ mmc3' \in Mmc3Type /\ m19' \in M19Shape
  BY <1>7, M19CycleShape DEF CpuCycle
<1>8. ASSUME UNCHANGED vars
      PROVE  config' \in RomBanks /\ mmc3' \in Mmc3Type /\ m19' \in M19Shape
  BY <1>8 DEF vars
<1>9. config' \in RomBanks /\ mmc3' \in Mmc3Type /\ m19' \in M19Shape
  BY <1>4, <1>5, <1>6, <1>7, <1>8 DEF Next, ReadOrHook
<1>10. config' \in RomBanks'
  BY <1>2, <1>9 DEF RomBanks, PrgCount, PrgKb, ChrCount, ChrKb
<1> QED
  BY <1>1, <1>2, <1>9, <1>10 DEF BanksInv, Fits

LEMMA Remainder ==
  ASSUME NEW n \in Nat, NEW count \in Nat, count > 0
  PROVE  n % count \in 0 .. count - 1
  OBVIOUS

(* The pair a bank belongs to lies in the ROM if the ROM is made of pairs. *)
LEMMA PairInRom ==
  ASSUME NEW bank \in Nat, NEW count \in Nat, count > 0, count % 2 = 0
  PROVE  (bank - (bank % 2)) % count \in 0 .. count - 2
<1> DEFINE even == bank - (bank % 2)
           q == even \div count
           r == even % count
<1>1. even \in Nat /\ even % 2 = 0
  OBVIOUS
<1>2. q \in Int /\ r \in 0 .. count - 1 /\ even = count * q + r
  BY <1>1
<1> HIDE DEF even, q, r
<1>3. PICK half \in Nat : count = 2 * half
  <2>1. count \div 2 \in Nat /\ count = 2 * (count \div 2)
    OBVIOUS
  <2> QED
    BY <2>1
<1>4. PICK e \in Nat : even = 2 * e
  <2>1. even \div 2 \in Nat /\ even = 2 * (even \div 2)
    BY <1>1
  <2> QED
    BY <2>1
<1>5. half * q \in Int /\ count * q = 2 * (half * q)
  BY <1>2, <1>3
<1>6. r = 2 * (e - half * q)
  BY <1>2, <1>4, <1>5
<1>7. r # count - 1
  BY <1>3, <1>5, <1>6
<1>8. r \in 0 .. count - 2
  BY <1>2, <1>7
<1> QED
  BY <1>8 DEF r, even

LEMMA Mmc1ReadsInRom ==
  ASSUME BanksInv, rom.board = "mmc1", NEW half \in {"low", "high"}
  PROVE  /\ Mmc1PrgBank(half) \in 0 .. PrgCount - 1
         /\ Mmc1ChrBank(half) \in 0 .. ChrCount - 1
<1>1. /\ PrgCount \in Nat /\ PrgCount > 0
      /\ ChrCount \in Nat /\ ChrCount > 0 /\ ChrCount % 2 = 0
  BY FittingCounts DEF BanksInv, MapperInv
<1>2. /\ mmc1.control \in 0..31 /\ mmc1.chr_bank0 \in 0..31
      /\ mmc1.chr_bank1 \in 0..31 /\ mmc1.prg_bank \in 0..31
  BY Mmc1Fields DEF BanksInv, MapperInv
<1>3. Mmc1PrgBank(half) \in 0 .. PrgCount - 1
  <2> DEFINE selected == mmc1.prg_bank % 16
             mode == (mmc1.control \div 4) % 4
             pair == (selected - (selected % 2)) % PrgCount
  <2>1. selected \in Nat /\ selected - (selected % 2) \in Nat
    BY <1>2
  <2>7. mode \in {0, 1, 2, 3}
    BY <1>2
  <2>2. selected % PrgCount \in 0 .. PrgCount - 1 /\ pair \in 0 .. PrgCount - 1
    BY <1>1, <2>1, Remainder
  <2>3. pair + 1 \in Nat
    BY <2>2
  <2>4. (pair + 1) % PrgCount \in 0 .. PrgCount - 1
    BY <1>1, <2>3, Remainder
  <2>5. 0 \in 0 .. PrgCount - 1 /\ PrgCount - 1 \in 0 .. PrgCount - 1
    BY <1>1
  <2>6. Mmc1PrgBank(half) =
          CASE mode \in {0, 1} -> IF half = "low" THEN pair ELSE (pair + 1) % PrgCount
            [] mode = 2 -> IF half = "low" THEN 0 ELSE selected % PrgCount
            [] mode = 3 -> IF half = "low" THEN selected % PrgCount ELSE PrgCount - 1
    BY DEF Mmc1PrgBank
  <2> HIDE DEF selected, mode, pair
  <2> QED
    BY <2>2, <2>4, <2>5, <2>6, <2>7
<1>4. Mmc1ChrBank(half) \in 0 .. ChrCount - 1
  <2> DEFINE pair == (mmc1.chr_bank0 - (mmc1.chr_bank0 % 2)) % ChrCount
  <2>1. pair \in 0 .. ChrCount - 2
    BY <1>1, <1>2, PairInRom, SMTT(30)
  <2>2. mmc1.chr_bank0 % ChrCount \in 0 .. ChrCount - 1
    BY <1>1, <1>2, Remainder
  <2>3. mmc1.chr_bank1 % ChrCount \in 0 .. ChrCount - 1
    BY <1>1, <1>2, Remainder
  <2>4. Mmc1ChrBank(half) =
          IF mmc1.control < 16 THEN pair + (IF half = "low" THEN 0 ELSE 1)
          ELSE (IF half = "low" THEN mmc1.chr_bank0 ELSE mmc1.chr_bank1) % ChrCount
    BY DEF Mmc1ChrBank
  <2> HIDE DEF pair
  <2>5. pair + (IF half = "low" THEN 0 ELSE 1) \in 0 .. ChrCount - 1
    BY <1>1, <2>1
  <2> QED
    BY <2>2, <2>3, <2>4, <2>5
<1> QED
  BY <1>3, <1>4

LEMMA M19ReadsInRom ==
  ASSUME BanksInv, rom.board = "m19", NEW i \in 0..11, ~M19Shown(i).ram
  PROVE  M19Shown(i).bank \in 0 .. ChrCount - 1
<1> DEFINE bank == m19.chr_banks[i]
<1>1. ChrCount \in Nat /\ ChrCount >= 224
  BY FittingCounts DEF BanksInv, MapperInv
<1>2. bank \in 0..255
  BY DEF BanksInv, M19Shape
<1>3. bank % ChrCount \in 0 .. ChrCount - 1
  BY <1>1, <1>2, Remainder
<1> DEFINE takesRam == CASE i <= 3 -> Bit(m19.ram_enable, 64) = 0
                         [] i \in 4..7 -> Bit(m19.ram_enable, 128) = 0
                         [] i >= 8 -> TRUE
<1>4. M19Shown(i) = CASE bank < 224 -> [ram |-> FALSE, bank |-> bank]
                      [] bank >= 224 /\ takesRam -> [ram |-> TRUE, bank |-> bank % 2]
                      [] bank >= 224 /\ ~takesRam -> [ram |-> FALSE, bank |-> bank % ChrCount]
  BY DEF M19Shown
<1> HIDE DEF bank, takesRam
<1>5. CASE bank < 224
  <2>1. M19Shown(i) = [ram |-> FALSE, bank |-> bank]
    BY <1>2, <1>4, <1>5
  <2> QED
    BY <1>1, <1>2, <1>5, <2>1
<1>6. CASE bank >= 224 /\ takesRam
  <2>1. M19Shown(i) = [ram |-> TRUE, bank |-> bank % 2]
    BY <1>2, <1>4, <1>6
  <2> QED
    BY <2>1
<1>7. CASE bank >= 224 /\ ~takesRam
  <2>1. M19Shown(i) = [ram |-> FALSE, bank |-> bank % ChrCount]
    BY <1>2, <1>4, <1>7
  <2> QED
    BY <1>3, <2>1
<1> QED
  BY <1>2, <1>5, <1>6, <1>7

LEMMA ServedFromRom ==
  ASSUME BanksInv
  PROVE  ReadsInRom
<1>1. /\ rom.prg \in Nat /\ rom.chr \in Nat
      /\ PrgKb \in {8, 16, 32} /\ ChrKb \in {1, 4, 8}
      /\ PrgCount \in Nat /\ PrgCount > 0 /\ PrgCount * PrgKb <= rom.prg
      /\ ChrCount \in Nat /\ ChrCount > 0 /\ ChrCount * ChrKb <= rom.chr
  BY FittingCounts DEF BanksInv, MapperInv
<1>2. ASSUME NEW bank \in 0 .. PrgCount - 1
      PROVE  bank >= 0 /\ (bank + 1) * PrgKb <= rom.prg
  <2>1. bank \in Nat /\ bank + 1 <= PrgCount
    BY <1>1
  <2>2. CASE PrgKb = 8
    BY <1>1, <2>1, <2>2
  <2>3. CASE PrgKb = 16
    BY <1>1, <2>1, <2>3
  <2>4. CASE PrgKb = 32
    BY <1>1, <2>1, <2>4
  <2> QED
    BY <1>1, <2>2, <2>3, <2>4
<1>3. ASSUME NEW bank \in 0 .. ChrCount - 1
      PROVE  bank >= 0 /\ (bank + 1) * ChrKb <= rom.chr
  <2>1. bank \in Nat /\ bank + 1 <= ChrCount
    BY <1>1
  <2>2. CASE ChrKb = 1
    BY <1>1, <2>1, <2>2
  <2>3. CASE ChrKb = 4
    BY <1>1, <2>1, <2>3
  <2>4. CASE ChrKb = 8
    BY <1>1, <2>1, <2>4
  <2> QED
    BY <1>1, <2>2, <2>3, <2>4
<1>4. ASSUME NEW i \in Slots
      PROVE  config.prg[i] \in 0 .. PrgCount - 1 /\ config.chr[i] \in 0 .. ChrCount - 1
  BY DEF BanksInv, RomBanks
<1>5. 0..((32 \div PrgKb) - 1) \subseteq Slots /\ 0..((8 \div ChrKb) - 1) \subseteq Slots
  BY <1>1
<1>6. CASE rom.board = "mmc1"
  <2>1. \A h \in {"low", "high"} : /\ Mmc1PrgBank(h) \in 0 .. PrgCount - 1
                                  /\ Mmc1ChrBank(h) \in 0 .. ChrCount - 1
    BY <1>6, Mmc1ReadsInRom
  <2> QED
    BY <1>2, <1>3, <1>6, <2>1 DEF ReadsInRom, Board
<1>7. CASE rom.board = "m19"
  <2>1. \A i \in 0..11 : ~M19Shown(i).ram => M19Shown(i).bank \in 0 .. ChrCount - 1
    BY <1>7, M19ReadsInRom
  <2> QED
    BY <1>2, <1>3, <1>4, <1>5, <1>7, <2>1 DEF ReadsInRom, Board
<1>8. CASE rom.board \notin {"mmc1", "m19"}
  BY <1>2, <1>3, <1>4, <1>5, <1>8 DEF ReadsInRom, Board
<1> QED
  BY <1>6, <1>7, <1>8

(* No sequence of writes makes the CPU or the PPU read outside the ROM of  *)
(* a cartridge that holds the banks its board shows, whatever its size: a  *)
(* bank is masked or taken modulo the count when it is written or read.    *)
THEOREM ReadsStayInRom ==
  ASSUME \A r \in Roms : Fits(r)
  PROVE  Spec => []ReadsInRom
<1>1. Init => BanksInv
  BY InitBanksInv
<1>2. BanksInv /\ [Next]_vars => BanksInv'
  BY NextBanksInv
<1>3. BanksInv => ReadsInRom
  BY ServedFromRom
<1> QED
  BY <1>1, <1>2, <1>3, PTL DEF Spec

=============================================================================
