------------------------------ MODULE Mapper19 ------------------------------
(***************************************************************************)
(* mappers/mapper19.rs: bank registers for the PRG and for twelve 1 KB     *)
(* slots of the PPU, the last four its nametables, and a counter of CPU    *)
(* cycles that requests an interrupt at its top.  Banks $E0 and up are     *)
(* the internal RAM (CIRAM), unless ram_enable takes it from a half of the *)
(* pattern tables.                                                         *)
(***************************************************************************)
EXTENDS MapperConfig

CONSTANT Half  \* values of each half of the IRQ counter (256 and 128 in the code)

ASSUME Mapper19Assumption == Half \in Nat \ {0}

VARIABLE m19

CounterTop == Half * Half - 1

M19Default ==
  [chr_banks |-> [i \in 0..11 |-> 0], ram_enable |-> 0,
   irq_counter |-> 0, irq_enabled |-> FALSE, irq_pending |-> FALSE]

M19Type ==
  [chr_banks : [0..11 -> 0..255], ram_enable : 0..255,
   irq_counter : 0..CounterTop, irq_enabled : BOOLEAN, irq_pending : BOOLEAN]

CounterLow(data) ==
  m19' = [m19 EXCEPT !.irq_counter = @ - (@ % Half) + (data % Half), !.irq_pending = FALSE]

CounterHigh(data) ==
  m19' = [m19 EXCEPT !.irq_counter = (@ % Half) + Half * (data % Half), !.irq_pending = FALSE,
                     !.irq_enabled = data >= 128]

(* Pages 16 to 23 are the pattern tables, 24 to 27 the nametables.         *)
M19ChrBank(pg, data) ==
  m19' = [m19 EXCEPT !.chr_banks[pg - 16] = data]

(* $E800 selects a PRG bank and enables the internal RAM.                  *)
M19PrgBank(pg, data) ==
  /\ config' = PrgBank(config, pg - 28, data)
  /\ m19' = IF pg = 29 THEN [m19 EXCEPT !.ram_enable = data] ELSE m19

(* Mapper19::write_prg; $4800 is its sound chip, $F800 its write protection,*)
(* which nothing reads.                                                    *)
M19Write(pg, data) ==
  CASE pg = 10 -> CounterLow(data) /\ UNCHANGED config
    [] pg = 11 -> CounterHigh(data) /\ UNCHANGED config
    [] pg \in 16..27 -> M19ChrBank(pg, data) /\ UNCHANGED config
    [] pg \in 28..30 -> M19PrgBank(pg, data)
    [] OTHER -> UNCHANGED <<m19, config>>

(* read_chr_19: what a slot shows, a bank of the CHR ROM or a page of the  *)
(* internal RAM.                                                           *)
M19Shown(slot) ==
  LET bank == m19.chr_banks[slot]
      takesRam == CASE slot <= 3 -> Bit(m19.ram_enable, 64) = 0
                    [] slot \in 4..7 -> Bit(m19.ram_enable, 128) = 0
                    [] slot >= 8 -> TRUE
  IN CASE bank < 224 -> [ram |-> FALSE, bank |-> bank]
       [] bank >= 224 /\ takesRam -> [ram |-> TRUE, bank |-> bank % 2]
       [] bank >= 224 /\ ~takesRam -> [ram |-> FALSE, bank |-> bank % ChrCount]

(* on_cpu_cycle *)
M19Cycle ==
  LET raises == m19.irq_enabled /\ m19.irq_counter = CounterTop /\ ~m19.irq_pending
  IN /\ m19' = IF ~m19.irq_enabled THEN m19
               ELSE IF m19.irq_counter < CounterTop THEN [m19 EXCEPT !.irq_counter = @ + 1]
               ELSE [m19 EXCEPT !.irq_pending = TRUE]
     /\ irq' = raises
=============================================================================
