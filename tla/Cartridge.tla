----------------------------- MODULE Cartridge ------------------------------
(***************************************************************************)
(* A cartridge as the console sees it (mappers/mapper_base.rs): writes of  *)
(* the CPU that reach its mapper, the PPU's fetches, and the two hooks the *)
(* PPU calls, one per rendered scanline and one per CPU cycle.  Which      *)
(* mapper it has is chosen once, from the Rom.                             *)
(***************************************************************************)
EXTENDS Mmc1, Mmc2, Mmc3, Mapper19

CONSTANT Bytes  \* for each board, the pages its program writes and the bytes it writes there

ASSUME CartridgeAssumption ==
  \A b \in Boards : \A pg \in DOMAIN Bytes[b] : pg \in 8..31 /\ Bytes[b][pg] \subseteq 0..255

vars == <<rom, config, mmc1, mmc2, mmc3, m19, fetched, irq>>

Init ==
  /\ rom \in Roms
  /\ config = ConfigDefault
  /\ mmc1 = Mmc1Default
  /\ mmc2 = Mmc2Default
  /\ mmc3 = Mmc3Default
  /\ m19 = M19Default
  /\ fetched = FetchedDefault
  /\ irq = FALSE

TypeOK ==
  /\ rom \in Roms
  /\ config \in ConfigType
  /\ mmc1 \in Mmc1Type
  /\ mmc2 \in Mmc2Type
  /\ mmc3 \in Mmc3Type
  /\ m19 \in M19Type
  /\ fetched \in FetchedType
  /\ irq \in BOOLEAN

Board(b) == rom.board = b

(* The boards that decode no address: a write anywhere, work RAM included, *)
(* switches their banks.                                                   *)
DiscreteWrite(data) ==
  \/ Board("nrom") /\ UNCHANGED config
  \/ Board("uxrom") /\ config' = PrgBank(config, 0, data)
  \/ Board("cnrom") /\ config' = ChrBank(config, 0, data)
  \/ /\ Board("axrom")
     /\ config' = Mirroring(PrgBank(config, 0, data),
                            IF Bit(data, 16) = 0 THEN "screen_a" ELSE "screen_b")
  \/ /\ Board("gxrom")
     /\ config' = ChrBank(PrgBank(config, 0, (data \div 16) % 4), 0, data % 4)

(* MapperBase::write_prg *)
MapperWrite(pg, odd, data) ==
  \/ Board("mmc1") /\ Mmc1Write(pg, data) /\ UNCHANGED <<mmc2, mmc3, m19>>
  \/ Board("mmc2") /\ Mmc2Write(pg, data) /\ UNCHANGED <<mmc1, mmc3, m19>>
  \/ Board("mmc3") /\ Mmc3Write(pg, odd, data) /\ UNCHANGED <<mmc1, mmc2, m19>>
  \/ Board("m19") /\ M19Write(pg, data) /\ UNCHANGED <<mmc1, mmc2, mmc3>>
  \/ DiscreteWrite(data) /\ UNCHANGED <<mmc1, mmc2, mmc3, m19>>

(* NesMemory::set passes the writes of $6000 and up to the mapper, and no  *)
(* others.                                                                 *)
Delivered == 12..31

CpuWrite(pg, odd, data) ==
  /\ \/ pg \in Delivered /\ MapperWrite(pg, odd, data)
     \/ pg \notin Delivered /\ UNCHANGED <<config, mmc1, mmc2, mmc3, m19>>
  /\ UNCHANGED <<rom, fetched, irq>>

(* A read of the pattern tables; only the MMC2 hooks them.                 *)
Fetch(s, tile) ==
  /\ Board("mmc2")
  /\ Mmc2Fetch(s, tile)
  /\ UNCHANGED <<rom, mmc1, mmc3, m19, irq>>

Scanline ==
  /\ Board("mmc3")
  /\ Mmc3Scanline
  /\ UNCHANGED <<rom, config, mmc1, mmc2, m19, fetched>>

CpuCycle ==
  /\ Board("m19")
  /\ M19Cycle
  /\ UNCHANGED <<rom, config, mmc1, mmc2, mmc3, fetched>>

Write ==
  \E pg \in DOMAIN Bytes[rom.board] : \E odd \in BOOLEAN, data \in Bytes[rom.board][pg] :
    CpuWrite(pg, odd, data)

ReadOrHook ==
  \/ \E s \in Sides, tile \in Tiles : Fetch(s, tile)
  \/ Scanline
  \/ CpuCycle

Next == Write \/ ReadOrHook

Spec == Init /\ [][Next]_vars

(* The PPU keeps rendering.                                                *)
Fairness == WF_vars(Scanline)

FairSpec == Spec /\ Fairness

-----------------------------------------------------------------------------
(* Every read of the CPU and of the PPU is served from within the ROM,     *)
(* whatever the program wrote to the bank registers.                       *)
ReadsInRom ==
  LET halves == {"low", "high"}
      prg == IF Board("mmc1") THEN {Mmc1PrgBank(h) : h \in halves}
             ELSE {config.prg[i] : i \in 0..((32 \div PrgKb) - 1)}
      chr == CASE Board("mmc1") -> {Mmc1ChrBank(h) : h \in halves}
               [] Board("m19") -> {M19Shown(i).bank : i \in {j \in 0..11 : ~M19Shown(j).ram}}
               [] OTHER -> {config.chr[i] : i \in 0..((8 \div ChrKb) - 1)}
  IN /\ \A bank \in prg : bank >= 0 /\ (bank + 1) * PrgKb <= rom.prg
     /\ \A bank \in chr : bank >= 0 /\ (bank + 1) * ChrKb <= rom.chr

(* The MMC1's shift register, marker bit and all, is a serial port: bits   *)
(* arrive least significant first, the fifth write addresses the register, *)
(* and a reset in the middle forgets what arrived.                         *)
ImplementsSerialPort == Port!Spec

(* Each fetch of the PPU is served by the bank its latch picked before it, *)
(* although the MMC2's bank registers follow a latch one fetch late and a  *)
(* write to a page at once, in whatever order they come.                   *)
ImplementsLatchedBanks == Latched!Spec

(* A program that leaves the MMC3's interrupt enabled gets it again and    *)
(* again, unless it keeps restarting the counter.                          *)
ScanlineIrqRecurs ==
  <>[](Board("mmc3") /\ mmc3.irq_enabled) => []<>(irq \/ mmc3.irq_reload)
=============================================================================
