----------------------------- MODULE SpriteDma -----------------------------
(***************************************************************************)
(* Sprite DMA (Emulator::run_oam_dma_with_dmc) interleaved with the        *)
(* channel's own transfers.  A write of $4014 schedules the transfer; it   *)
(* starts on the next CPU cycle that is not a write and keeps the CPU off  *)
(* the bus for its work cycles, those the channel takes, and those it      *)
(* needs to finish afterwards.                                             *)
(*                                                                         *)
(* The steps of a cycle of tick_one are those of DmcCycle; while the       *)
(* transfer runs its own loops step the channel.                           *)
(***************************************************************************)
EXTENDS DmcCycle, Integers

CONSTANTS
  Work,    \* cycles of a transfer that starts on a put cycle (513)
  Finish   \* cycles the channel is given to finish afterwards (16)

ASSUME SpriteDmaAssumption == Work \in Nat \ {0} /\ Finish \in Nat \ {0}

VARIABLES
  is_get,      \* Cpu2::is_get_phase
  scheduled,   \* oam_dma.is_some()
  work_left,
  align_puts,
  finish_left  \* iterations left of the loop that lets the channel finish

cpu == <<instr, cyc>>
oam == <<work_left, align_puts, finish_left>>
spriteVars == <<vars, is_get, scheduled, oam>>

SpriteTypeOK ==
  /\ dmc \in DmcState
  /\ cycle_odd \in BOOLEAN /\ is_get \in BOOLEAN
  /\ phase \in {"apu", "dma", "cpu", "oam_dma", "oam_apu", "finish", "finish_dma"}
  /\ instr \in InstrPatterns /\ cyc \in DOMAIN instr
  /\ scheduled \in BOOLEAN
  /\ work_left \in 0 .. Work + 1
  /\ align_puts \in 0..1
  /\ finish_left \in 0..Finish

SpriteInit ==
  /\ Init
  /\ is_get = TRUE
  /\ scheduled = FALSE
  /\ work_left = 0 /\ align_puts = 0 /\ finish_left = 0

-----------------------------------------------------------------------------
(* Emulator::tick_one.                                                     *)

(* A scheduled transfer waits for a cycle that is not a write. *)
Due == scheduled /\ ~pending_is_write

TickApuStep == ApuStep /\ UNCHANGED <<is_get, scheduled, oam>>

TickDmaIdle == ~Due /\ DmaIdle /\ UNCHANGED <<is_get, scheduled, oam>>

TickDmaDummyRead ==
  /\ ~Due
  /\ DmaDummyRead
  /\ is_get' = ~is_get
  /\ UNCHANGED <<scheduled, oam>>

(* A fetch is taken for a get: a put follows. *)
TickDmaSampleFetch ==
  /\ ~Due
  /\ DmaSampleFetch
  /\ is_get' = FALSE
  /\ UNCHANGED <<scheduled, oam>>

CpuFlips == is_get' = ~is_get /\ UNCHANGED oam

TickCpuOther == CpuOther /\ CpuFlips /\ UNCHANGED scheduled

WriteChannel ==
  /\ WriteControl \/ WriteLength \/ WriteEnable \/ WriteDisable
  /\ CpuFlips
  /\ UNCHANGED scheduled

WriteSpriteDma ==
  /\ CpuWrite
  /\ scheduled' = TRUE
  /\ CpuFlips
  /\ UNCHANGED dmc

-----------------------------------------------------------------------------
(* run_oam_dma_with_dmc.                                                   *)

(* Mutation: the scheduled transfer is looked at, not taken. *)
StartWithoutTaking ==
  /\ phase = "dma" /\ Due
  /\ UNCHANGED scheduled
  /\ work_left' = IF is_get THEN Work + 1 ELSE Work
  /\ align_puts' = 0
  /\ phase' = "oam_dma"
  /\ UNCHANGED <<dmc, cycle_odd, cpu, is_get, finish_left>>

(* The transfer begins on the cycle tick_one has already stepped the Apu   *)
(* for; a halt on a get cycle needs one more to align.                     *)
StartSpriteDma ==
  /\ phase = "dma" /\ Due
  /\ scheduled' = FALSE
  /\ work_left' = IF is_get THEN Work + 1 ELSE Work
  /\ align_puts' = 0
  /\ phase' = "oam_dma"
  /\ UNCHANGED <<dmc, cycle_odd, cpu, is_get, finish_left>>

(* Mutation: the put given up stays owed. *)
PutStaysOwed(fetched) ==
  CASE fetched -> align_puts' = 1 /\ UNCHANGED work_left
    [] ~fetched /\ align_puts > 0 /\ ~is_get -> UNCHANGED <<align_puts, work_left>>
    [] OTHER -> work_left' = work_left - 1 /\ UNCHANGED align_puts

(* Mutation: no put is given up to realign after a fetch. *)
UnalignedWork(fetched) ==
  /\ work_left' = IF fetched THEN work_left ELSE work_left - 1
  /\ UNCHANGED align_puts

(* What a cycle of the transfer does for it: a fetch of the channel takes  *)
(* the cycle, and a later put to realign.                                  *)
SpriteWork(fetched) ==
  CASE fetched -> align_puts' = 1 /\ UNCHANGED work_left
    [] ~fetched /\ align_puts > 0 /\ ~is_get -> align_puts' = 0 /\ UNCHANGED work_left
    [] OTHER -> work_left' = work_left - 1 /\ UNCHANGED align_puts

(* What the engine's cycle leaves once its bus action is done. *)
Applied(c) == IF c.action = "SampleFetch" THEN FinishSampleFetch(c.dmc) ELSE c.dmc

(* Apu::step, as far as the channel goes. *)
StepApu == dmc' = Step(TickDisableDelay(dmc)) /\ cycle_odd' = ~cycle_odd

(* The cycles go on until the work is done; the next one is then a get.    *)
OamDma ==
  /\ phase = "oam_dma"
  /\ LET c == DmaCycle(dmc, FALSE)
     IN dmc' = Applied(c) /\ SpriteWork(c.action = "SampleFetch")
  /\ IF work_left' > 0
     THEN /\ phase' = "oam_apu"
          /\ is_get' = ~is_get
          /\ UNCHANGED finish_left
     ELSE /\ phase' = "finish"
          /\ is_get' = TRUE
          /\ finish_left' = Finish
  /\ UNCHANGED <<cycle_odd, cpu, scheduled>>

OamApu ==
  /\ phase = "oam_apu"
  /\ StepApu
  /\ phase' = "oam_dma"
  /\ UNCHANGED <<cpu, is_get, scheduled, oam>>

(* The channel finishes a transfer that the work did not cover. *)
Finishing == finish_left > 0 /\ DmaActive(dmc)

FinishApu ==
  /\ phase = "finish" /\ Finishing
  /\ StepApu
  /\ phase' = "finish_dma"
  /\ UNCHANGED <<cpu, is_get, scheduled, oam>>

FinishDma ==
  /\ phase = "finish_dma"
  /\ dmc' = Applied(DmaCycle(dmc, FALSE))
  /\ finish_left' = finish_left - 1
  /\ is_get' = ~is_get
  /\ phase' = "finish"
  /\ UNCHANGED <<cycle_odd, cpu, scheduled, work_left, align_puts>>

Resume ==
  /\ phase = "finish" /\ ~Finishing
  /\ phase' = "apu"
  /\ finish_left' = 0
  /\ align_puts' = 0
  /\ UNCHANGED <<dmc, cycle_odd, cpu, is_get, scheduled, work_left>>

SpriteNext ==
  \/ TickApuStep \/ TickDmaIdle \/ TickDmaDummyRead \/ TickDmaSampleFetch
  \/ TickCpuOther \/ WriteChannel \/ WriteSpriteDma
  \/ StartSpriteDma \/ OamDma \/ OamApu \/ FinishApu \/ FinishDma \/ Resume

SpriteSpec == SpriteInit /\ [][SpriteNext]_spriteVars

(* The emulator's loop keeps running cycles. *)
SpriteFairness == WF_spriteVars(SpriteNext)
-----------------------------------------------------------------------------
InTransfer == phase \in {"oam_dma", "oam_apu", "finish", "finish_dma"}

(* The channel's own invariant survives the cycles that the sprite         *)
(* transfer runs past tick_one: one transfer, no byte overwritten, no      *)
(* latch left over.                                                        *)
ChannelConsistent == DmcInv(dmc)

(* The channel never fetches while the put after its last fetch is owed,   *)
(* so the one bit of align_puts loses none.                                *)
FetchesApart ==
  [][OamDma /\ DmaCycle(dmc, FALSE).action = "SampleFetch" => align_puts = 0]_spriteVars

(* A scheduled transfer is run: neither writes nor the channel put it off  *)
(* for ever, and the CPU is given back.                                    *)
TransferEnds == scheduled \/ InTransfer ~> phase = "cpu" /\ ~scheduled
=============================================================================
