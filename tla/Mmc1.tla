-------------------------------- MODULE Mmc1 --------------------------------
(***************************************************************************)
(* mappers/mapper_mmc1.rs: a shift register filled one bit per write, four *)
(* registers loaded from it, and the banks the registers select.           *)
(***************************************************************************)
EXTENDS MapperConfig

CONSTANT Loadable  \* the values loaded into the registers (a bound for TLC)

ASSUME LoadableAssumption == Loadable \subseteq 0..31

VARIABLE mmc1

Mmc1Default ==
  [shift_reg |-> 16, shift_count |-> 0,
   control |-> 12, chr_bank0 |-> 0, chr_bank1 |-> 0, prg_bank |-> 0]

Mmc1Type ==
  [shift_reg : 0..31, shift_count : 0..4,
   control : 0..31, chr_bank0 : 0..31, chr_bank1 : 0..31, prg_bank : 0..31]

ClearShift(m) == [m EXCEPT !.shift_reg = 16, !.shift_count = 0]

ForceFixedLast(control) == 16 * (control \div 16) + 12 + (control % 4)

ResetControlOnly ==
  mmc1' = [mmc1 EXCEPT !.control = ForceFixedLast(@)] /\ UNCHANGED config

Mmc1Reset ==
  /\ mmc1' = [ClearShift(mmc1) EXCEPT !.control = ForceFixedLast(@)]
  /\ UNCHANGED config

ShiftIn(m, bit) == (m.shift_reg \div 2) + 16 * bit

Mmc1Shift(bit) ==
  /\ mmc1.shift_count < 4
  /\ mmc1' = [mmc1 EXCEPT !.shift_reg = ShiftIn(mmc1, bit), !.shift_count = @ + 1]
  /\ UNCHANGED config

ControlMirroring(control) ==
  CASE control % 4 = 0 -> "screen_a"
    [] control % 4 = 1 -> "screen_b"
    [] control % 4 = 2 -> "vertical"
    [] control % 4 = 3 -> "horizontal"

Loaded(m, register, v) ==
  CASE register = 0 -> [m EXCEPT !.control = v]
    [] register = 1 -> [m EXCEPT !.chr_bank0 = v]
    [] register = 2 -> [m EXCEPT !.chr_bank1 = v]
    [] register = 3 -> [m EXCEPT !.prg_bank = v]

(* The fifth bit arrives.                                                  *)
Mmc1Load(register, bit) ==
  LET v == ShiftIn(mmc1, bit)
  IN /\ mmc1.shift_count = 4
     /\ v \in Loadable
     /\ mmc1' = ClearShift(Loaded(mmc1, register, v))
     /\ config' = IF register = 0 THEN Mirroring(config, ControlMirroring(v)) ELSE config

(* MapperMMC1::write_prg *)
Mmc1Write(pg, data) ==
  \/ pg < 16 /\ UNCHANGED <<mmc1, config>>
  \/ pg >= 16 /\ data >= 128 /\ Mmc1Reset
  \/ pg >= 16 /\ data < 128 /\ (Mmc1Shift(data % 2) \/ Mmc1Load((pg \div 4) % 4, data % 2))

(* read_prg: the 16 KB bank behind $8000 ("low") or $C000 ("high").        *)
Mmc1PrgBank(half) ==
  LET selected == mmc1.prg_bank % 16
      mode == (mmc1.control \div 4) % 4
      pair == (selected - (selected % 2)) % PrgCount
  IN CASE mode \in {0, 1} -> IF half = "low" THEN pair ELSE (pair + 1) % PrgCount
       [] mode = 2 -> IF half = "low" THEN 0 ELSE selected % PrgCount
       [] mode = 3 -> IF half = "low" THEN selected % PrgCount ELSE PrgCount - 1

(* chr_index: the 4 KB bank behind $0000 or $1000.                         *)
Mmc1ChrBank(half) ==
  IF mmc1.control < 16
  THEN ((mmc1.chr_bank0 - (mmc1.chr_bank0 % 2)) % ChrCount) + (IF half = "low" THEN 0 ELSE 1)
  ELSE (IF half = "low" THEN mmc1.chr_bank0 ELSE mmc1.chr_bank1) % ChrCount

(* The port's registers, in the order the fifth write's address selects.   *)
Registers(m) ==
  [r \in 0..3 |->
    CASE r = 0 -> m.control [] r = 1 -> m.chr_bank0
      [] r = 2 -> m.chr_bank1 [] r = 3 -> m.prg_bank]

(* The weight of the next bit, and the bits received: those above the      *)
(* marker that the shift register starts with.                             *)
Weight(m) ==
  CASE m.shift_count = 0 -> 1 [] m.shift_count = 1 -> 2 [] m.shift_count = 2 -> 4
    [] m.shift_count = 3 -> 8 [] m.shift_count = 4 -> 16

Value(m) ==
  CASE m.shift_count = 0 -> 0
    [] m.shift_count = 1 -> m.shift_reg \div 16
    [] m.shift_count = 2 -> m.shift_reg \div 8
    [] m.shift_count = 3 -> m.shift_reg \div 4
    [] m.shift_count = 4 -> m.shift_reg \div 2

Port == INSTANCE SerialPort WITH
  weight <- Weight(mmc1), value <- Value(mmc1), registers <- Registers(mmc1)
=============================================================================
