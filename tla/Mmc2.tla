-------------------------------- MODULE Mmc2 --------------------------------
(***************************************************************************)
(* mappers/mapper_mmc2.rs: the PRG bank, the two pages of each half of the *)
(* pattern tables, and the latches a fetch of a trigger tile sets.  The    *)
(* bank registers follow a latch at the next fetch only (need_update), and *)
(* follow a write to a page at once.                                       *)
(*                                                                         *)
(* The tile "fd" of the left half is address $0FD8 and of the right half   *)
(* any of $1FD8-$1FDF; likewise "fe".                                      *)
(***************************************************************************)
EXTENDS MapperConfig

VARIABLES
  mmc2,
  fetched  \* the half, the tile and the bank of the last read_chr

Sides == {"left", "right"}
Tiles == {"fd", "fe", "other"}

Slot(s) == IF s = "left" THEN 0 ELSE 1

Mmc2Default ==
  [latch |-> [s \in Sides |-> 1],
   page |-> [s \in Sides |-> [v \in 0..1 |-> 0]],
   need_update |-> FALSE]

Mmc2Type ==
  [latch : [Sides -> 0..1], page : [Sides -> [0..1 -> 0..31]], need_update : BOOLEAN]

FetchedDefault == [side |-> "left", tile |-> "other", bank |-> 0]

FetchedType == [side : Sides, tile : Tiles, bank : Nat]

Selected(m, s) == m.page[s][m.latch[s]]

(* Writes of $B000, $C000, $D000 and $E000 by their top digit.             *)
PageOf(digit) ==
  CASE digit = 11 -> <<"left", 0>> [] digit = 12 -> <<"left", 1>>
    [] digit = 13 -> <<"right", 0>> [] digit = 14 -> <<"right", 1>>

Mmc2SetPage(s, v, bank) ==
  LET m == [mmc2 EXCEPT !.page[s][v] = bank]
  IN /\ mmc2' = m
     /\ config' = ChrBank(config, Slot(s), Selected(m, s))

(* MapperMMC2::write_prg *)
Mmc2Write(pg, data) ==
  LET digit == pg \div 2
  IN \/ digit = 10 /\ config' = PrgBank(config, 0, data % 16) /\ UNCHANGED mmc2
     \/ digit \in 11..14 /\ Mmc2SetPage(PageOf(digit)[1], PageOf(digit)[2], data % 32)
     \/ /\ digit = 15
        /\ config' = Mirroring(config, IF data % 2 = 0 THEN "vertical" ELSE "horizontal")
        /\ UNCHANGED mmc2
     \/ digit < 10 /\ UNCHANGED <<mmc2, config>>

SetLatchOnly(m, s, tile) ==
  IF tile = "other" THEN m
  ELSE [m EXCEPT !.latch[s] = IF tile = "fd" THEN 0 ELSE 1]

SetLatch(m, s, tile) ==
  IF tile = "other" THEN m
  ELSE [m EXCEPT !.latch[s] = IF tile = "fd" THEN 0 ELSE 1, !.need_update = TRUE]

BothBanks(c, m) ==
  ChrBank(ChrBank(c, 0, Selected(m, "left")), 1, Selected(m, "right"))

(* read_chr: on_read_chr, then the byte of the bank now in the slot.       *)
Mmc2Fetch(s, tile) ==
  /\ config' = IF mmc2.need_update THEN BothBanks(config, mmc2) ELSE config
  /\ mmc2' = SetLatch([mmc2 EXCEPT !.need_update = FALSE], s, tile)
  /\ fetched' = [side |-> s, tile |-> tile, bank |-> config'.chr[Slot(s)]]

Latched == INSTANCE LatchedBanks WITH
  size <- ChrCount, page <- mmc2.page, latch <- mmc2.latch
=============================================================================
