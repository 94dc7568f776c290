------------------------------ MODULE DmcCycle ------------------------------
(***************************************************************************)
(* The part of Emulator::tick_one that runs the delta modulation channel   *)
(* against the CPU.  One CPU cycle is three steps in a fixed order:        *)
(*   "apu"  the channel's timers (Apu::step);                              *)
(*   "dma"  one cycle of its DMA engine, which may take the bus;           *)
(*   "cpu"  otherwise one cycle of the CPU, which may write a register.    *)
(* The CPU is any program: a sequence of instructions, each seen as what   *)
(* its cycles write and what Cpu2::pending_is_write reports of them.       *)
(***************************************************************************)
EXTENDS Dmc, Sequences

VARIABLES
  dmc,        \* the channel
  cycle_odd,  \* parity of Apu::cycle_count
  phase,      \* the step of the cycle that runs next
  instr,      \* what the current instruction's cycles put on the bus
  cyc         \* the instruction's next cycle

vars == <<dmc, cycle_odd, phase, instr, cyc>>

(* The bus cycles of an instruction.  "read": pending_is_write is false;   *)
(* "other": it is true but no channel register is written (a stack push,   *)
(* or the dummy read of an indexed store, which it reports as a write);    *)
(* "reg": a write that may address a register; "unseen": such a write on a *)
(* cycle for which pending_is_write is false, as it does not list the      *)
(* unofficial instructions that read, modify and write.                    *)
BusCycle == {"read", "other", "reg", "unseen"}

(* Two reads more, as in SLO (ind,X), are an implied instruction before.   *)
InstrPatterns ==
  { <<"read", "read">>,                                          \* implied, immediate
    <<"read", "read", "read">>,                                  \* zero page, store included
    <<"read", "read", "read", "reg">>,                           \* STA abs
    <<"read", "read", "read", "other", "reg">>,                  \* STA abs,X
    <<"read", "read", "read", "other", "other", "reg">>,         \* STA (ind,X), (ind),Y
    <<"read", "read", "read", "read", "reg", "reg">>,            \* ASL abs
    <<"read", "read", "read", "read", "other", "reg", "reg">>,   \* ASL abs,X
    <<"read", "read", "read", "read", "reg">>,                   \* SHX abs,Y
    <<"read", "read", "read", "read", "unseen", "unseen">>,      \* SLO abs
    <<"read", "read", "read", "read", "read", "unseen", "unseen">>, \* SLO abs,X
    <<"read", "read", "other">>,                                 \* PHA, PHP
    <<"read", "read", "read", "other", "other", "read">>,        \* JSR
    <<"read", "read", "other", "other", "other", "read", "read">> } \* BRK, IRQ, NMI

pending_is_write == instr[cyc] \in {"other", "reg"}

TypeOK ==
  /\ dmc \in DmcState
  /\ cycle_odd \in BOOLEAN
  /\ phase \in {"apu", "dma", "cpu"}
  /\ instr \in InstrPatterns
  /\ cyc \in DOMAIN instr

Init ==
  /\ \E r \in Rates : dmc = DmcDefault(r)
  /\ cycle_odd = FALSE
  /\ phase = "apu"
  /\ instr \in InstrPatterns
  /\ cyc = 1

-----------------------------------------------------------------------------
(* The channel's share of Apu::step. *)
ApuStep ==
  /\ phase = "apu"
  /\ dmc' = Step(TickDisableDelay(dmc))
  /\ cycle_odd' = ~cycle_odd
  /\ phase' = "dma"
  /\ UNCHANGED <<instr, cyc>>

(* A CPU write on a cycle that no transfer waits for only advances the     *)
(* delay of a load; every other cycle is offered to the DMA engine.        *)
OfferedCycle ==
  IF pending_is_write /\ ~DmaActive(dmc)
  THEN [dmc |-> TickLoadDelay(dmc), action |-> "None"]
  ELSE DmaCycle(dmc, pending_is_write)

DmaIdle ==
  /\ phase = "dma"
  /\ OfferedCycle.action = "None"
  /\ dmc' = OfferedCycle.dmc
  /\ phase' = "cpu"
  /\ UNCHANGED <<cycle_odd, instr, cyc>>

DmaDummyRead ==
  /\ phase = "dma"
  /\ OfferedCycle.action = "DummyRead"
  /\ dmc' = OfferedCycle.dmc
  /\ phase' = "apu"
  /\ UNCHANGED <<cycle_odd, instr, cyc>>

DmaSampleFetch ==
  /\ phase = "dma"
  /\ OfferedCycle.action = "SampleFetch"
  /\ dmc' = FinishSampleFetch(OfferedCycle.dmc)
  /\ phase' = "apu"
  /\ UNCHANGED <<cycle_odd, instr, cyc>>

(* The CPU moves to its next bus cycle, or to its next instruction. *)
NextBusCycle ==
  IF cyc < Len(instr)
  THEN cyc' = cyc + 1 /\ instr' = instr
  ELSE cyc' = 1 /\ instr' \in InstrPatterns

CpuCycle ==
  /\ phase = "cpu"
  /\ phase' = "apu"
  /\ NextBusCycle
  /\ UNCHANGED cycle_odd

(* A CPU cycle that leaves the channel's registers alone. *)
CpuOther == CpuCycle /\ UNCHANGED dmc

CpuWrite == CpuCycle /\ instr[cyc] \in {"reg", "unseen"}

WriteControl ==
  /\ CpuWrite
  /\ \E irq, loop \in BOOLEAN, r \in Rates : dmc' = SetControl(dmc, irq, loop, r)

WriteLength ==
  /\ CpuWrite
  /\ \E n \in Lengths : dmc' = SetSampleLength(dmc, n)

WriteEnable == CpuWrite /\ dmc' = SetEnabled(dmc, TRUE, cycle_odd)

WriteDisable == CpuWrite /\ dmc' = SetEnabled(dmc, FALSE, cycle_odd)

Next ==
  \/ ApuStep
  \/ DmaIdle \/ DmaDummyRead \/ DmaSampleFetch
  \/ CpuOther \/ WriteControl \/ WriteLength \/ WriteEnable \/ WriteDisable

Spec == Init /\ [][Next]_vars

(* The emulator's loop keeps calling tick_one. *)
Fairness == WF_vars(Next)

-----------------------------------------------------------------------------
(* The CPU only runs, and so only writes registers, between transfers. *)
CpuBetweenTransfers == phase = "cpu" => dmc.dma_cycles_left = 0

(* The invariant of the loop: the channel's own, and what the phase adds. *)
IInv == TypeOK /\ DmcInv(dmc) /\ CpuBetweenTransfers

(* One transfer at a time, and never one the CPU could run beside          *)
(* (Dmc::dma_cycle, request_reload_dma, set_enabled).                      *)
ExclusiveTransfer == OneTransfer(dmc) /\ CpuBetweenTransfers

(* An abort or a halt delay does not outlive its transfer, whichever of    *)
(* cancel, abort, halt or re-enable ends it.                               *)
LatchesOwned == NoStaleLatch(dmc)

(* After a stop has taken effect no full transfer begins: what is left is  *)
(* at most the one-cycle abort.                                            *)
StopCancelsRequest == StoppedOnlyAborts(dmc)

(* $4015 D4 goes from inactive to active only by a write that enables the  *)
(* channel: a stop that was reported is not undone by a loop, a fetch in   *)
(* flight or the implicit-stop glitch.                                     *)
ActiveOnlyByEnable == [][IsActive(dmc') /\ ~IsActive(dmc) => WriteEnable]_vars

(* The channel implements the byte stream it promises. *)
Stream == INSTANCE SampleStream WITH remaining <- dmc.current_length,
                                     full <- dmc.sample_buffer
ImplementsStream == Stream!StreamSpec

(* Once the program leaves $4015 alone, an empty buffer is refilled or the *)
(* sample ends: no request is lost for good.                               *)
BufferRefilled ==
  <>[][~WriteEnable /\ ~WriteDisable]_vars =>
    (dmc.current_length > 0 /\ ~dmc.sample_buffer
       ~> dmc.sample_buffer \/ dmc.current_length = 0)
=============================================================================
