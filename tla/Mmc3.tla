-------------------------------- MODULE Mmc3 --------------------------------
(***************************************************************************)
(* mappers/mapper_mmc3.rs: eight bank registers behind one data port, two  *)
(* mode bits that swap the halves of the PPU's slots and slots 0 and 2 of  *)
(* the CPU's, and a counter of scanlines that requests an interrupt.       *)
(***************************************************************************)
EXTENDS MapperConfig

VARIABLE mmc3

Mmc3Default ==
  [chr_mode |-> 0, prg_mode |-> 0, register |-> 0, registers |-> [r \in 0..7 |-> 0],
   irq_load_value |-> 0, irq_counter |-> 0, irq_reload |-> FALSE, irq_enabled |-> FALSE]

Mmc3Type ==
  [chr_mode : 0..1, prg_mode : 0..1, register : 0..7, registers : [0..7 -> 0..255],
   irq_load_value : 0..255, irq_counter : 0..255, irq_reload : BOOLEAN, irq_enabled : BOOLEAN]

(* update_banks: R0 and R1 are pairs of 1 KB banks, R2 to R5 single ones.  *)
UpdateBanks(c, m) ==
  LET R == m.registers
      pair(i) == IF i % 2 = 0 THEN And(R[i \div 2], 254) ELSE Or(R[i \div 2], 1)
      chr(i) == IF (i < 4) = (m.chr_mode = 0) THEN pair(i % 4) ELSE R[2 + (i % 4)]
      prg(i) == CASE i = 1 -> R[7]
                  [] i = 3 -> PrgCount - 1
                  [] OTHER -> IF (i = 0) = (m.prg_mode = 0) THEN R[6] ELSE PrgCount - 2
  IN [c EXCEPT
        !.chr = [i \in Slots |-> Masked(chr(i), ChrCount)],
        !.prg = [i \in Slots |-> IF i <= 3 THEN Masked(prg(i), PrgCount) ELSE @[i]]]

BankSelect(data) ==
  LET m == [mmc3 EXCEPT !.register = data % 8, !.prg_mode = Bit(data, 64), !.chr_mode = Bit(data, 128)]
  IN mmc3' = m /\ config' = UpdateBanks(config, m)

BankData(data) ==
  LET r == mmc3.register
      v == IF r <= 1 THEN data - (data % 2) ELSE IF r >= 6 THEN data % 64 ELSE data
      m == [mmc3 EXCEPT !.registers[r] = v]
  IN mmc3' = m /\ config' = UpdateBanks(config, m)

(* A four-screen board keeps its mirroring.                                *)
MirroringWrite(data) ==
  /\ config' = IF rom.mirroring = "four_screen" THEN config
               ELSE Mirroring(config, IF data % 2 = 1 THEN "horizontal" ELSE "vertical")
  /\ UNCHANGED mmc3

IrqLatch(data) ==
  mmc3' = [mmc3 EXCEPT !.irq_load_value = data] /\ UNCHANGED config

IrqReload ==
  mmc3' = [mmc3 EXCEPT !.irq_counter = 0, !.irq_reload = TRUE] /\ UNCHANGED config

IrqEnable(on) ==
  mmc3' = [mmc3 EXCEPT !.irq_enabled = on] /\ UNCHANGED config

(* MapperMMC3::write_prg *)
Mmc3Write(pg, odd, data) ==
  LET range == pg \div 4
  IN \/ range = 4 /\ ~odd /\ BankSelect(data)
     \/ range = 4 /\ odd /\ BankData(data)
     \/ range = 5 /\ ~odd /\ MirroringWrite(data)
     \/ range = 6 /\ ~odd /\ IrqLatch(data)
     \/ range = 6 /\ odd /\ IrqReload
     \/ range = 7 /\ IrqEnable(odd)
     \/ (range < 4 \/ (range = 5 /\ odd)) /\ UNCHANGED <<mmc3, config>>

ReloadedAtOne(m) ==
  IF m.irq_counter <= 1 \/ m.irq_reload THEN m.irq_load_value ELSE m.irq_counter - 1

CountedDown(m) ==
  IF m.irq_counter = 0 \/ m.irq_reload THEN m.irq_load_value ELSE m.irq_counter - 1

(* on_scanline *)
Mmc3Scanline ==
  /\ mmc3' = [mmc3 EXCEPT !.irq_counter = CountedDown(mmc3), !.irq_reload = FALSE]
  /\ irq' = (mmc3'.irq_counter = 0 /\ mmc3.irq_enabled)
=============================================================================
