---------------------------- MODULE MapperConfig ----------------------------
(***************************************************************************)
(* The bank registers every mapper works on, from nes/src/mappers: what a  *)
(* cartridge holds (Rom), the banks it shows (MapperConfig), and what      *)
(* MapperBase reads through them.  Sizes are in kilobytes, a CPU address   *)
(* is its 2 KB page (address >> 11, the finest split any mapper decodes)   *)
(* and whether it is odd.  The bytes of the ROM are left out.              *)
(***************************************************************************)
EXTENDS Bits

CONSTANT Roms  \* the cartridges that may be inserted

Boards == {"nrom", "mmc1", "uxrom", "cnrom", "mmc3", "axrom", "mmc2", "m19", "gxrom"}
Mirrorings == {"horizontal", "vertical", "four_screen", "screen_a", "screen_b"}

(* Sizes as read_nes_file leaves them: 8 KB of CHR RAM stand for no CHR.   *)
ASSUME RomsAssumption ==
  Roms \subseteq [board : Boards, prg : Nat \ {0}, chr : Nat \ {0},
                  mirroring : Mirrorings]

VARIABLES
  rom,
  config,  \* the banks behind each slot of the CPU and of the PPU, and the mirroring
  irq      \* what the last hook of the mapper answered

Slots == 0..7

(* set_prg_bank_size and set_chr_bank_size, as each mapper's new calls     *)
(* them; 32 KB and 8 KB are the defaults.                                  *)
PrgKb ==
  CASE rom.board \in {"mmc2", "mmc3", "m19"} -> 8
    [] rom.board \in {"mmc1", "uxrom"} \/ (rom.board = "nrom" /\ rom.prg = 16) -> 16
    [] OTHER -> 32

ChrKb ==
  CASE rom.board \in {"mmc3", "m19"} -> 1
    [] rom.board \in {"mmc1", "mmc2"} -> 4
    [] OTHER -> 8

PrgCount == rom.prg \div PrgKb
ChrCount == rom.chr \div ChrKb

PrgBank(c, i, bank) == [c EXCEPT !.prg[i] = Masked(bank, PrgCount)]

ChrBank(c, i, bank) == [c EXCEPT !.chr[i] = Masked(bank, ChrCount)]

Mirroring(c, m) == [c EXCEPT !.mirroring = m]

(* The slots each mapper's new fills; the others start at bank 0.          *)
ConfigDefault ==
  LET last == PrgCount - 1
      fixed == CASE rom.board \in {"mmc3", "m19"} -> [i \in {3} |-> last]
                 [] rom.board = "mmc2" -> [i \in {1, 2, 3} |-> last - 3 + i]
                 [] rom.board = "uxrom" -> [i \in {1} |-> last]
                 [] OTHER -> [i \in {} |-> 0]
  IN [prg |-> [i \in Slots |-> IF i \in DOMAIN fixed THEN fixed[i] ELSE 0],
      chr |-> [i \in Slots |-> 0],
      mirroring |-> IF rom.board = "axrom" THEN "screen_a" ELSE rom.mirroring]

ConfigType ==
  [prg : [Slots -> Nat], chr : [Slots -> Nat], mirroring : Mirrorings]
=============================================================================
