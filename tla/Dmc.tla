-------------------------------- MODULE Dmc --------------------------------
(***************************************************************************)
(* The delta modulation channel of nes/src/apu/dmc.rs as a value: its      *)
(* state is a record with the source's field names, and each method of     *)
(* `impl Dmc` is an operator from that record to the next one.  The        *)
(* modules that run it (DmcCycle, OamDma) compose these operators in the   *)
(* order the emulator calls them.                                          *)
(*                                                                         *)
(* Abstracted data: the sample byte (only whether the buffer holds one),   *)
(* the shift register and the output level, and the sample address, which  *)
(* moves in step with current_length.                                      *)
(***************************************************************************)
EXTENDS Naturals

CONSTANTS
  Rates,    \* timer periods $4010 can select, in CPU cycles (54..428 in the code)
  Bits,     \* bits per sample byte (8 in the code)
  Lengths   \* sample lengths $4013 can select (1, 17, 33, ... in the code)

ASSUME DmcAssumption ==
  /\ Rates \subseteq Nat \ {0, 1} /\ Rates # {}
  /\ Bits \in Nat \ {0}
  /\ Lengths \subseteq Nat \ {0} /\ 1 \in Lengths

(* The fields of struct Dmc that decide what the channel does next. *)
DmcState ==
  [irq_enabled : BOOLEAN, loop_enabled : BOOLEAN, irq_flag : BOOLEAN,
   rate : Rates, current_rate : Nat, bits_remaining : 1..Bits,
   sample_length : Lengths, current_length : Nat,
   sample_buffer : BOOLEAN, silence_flag : BOOLEAN,
   needs_dma : BOOLEAN, is_load_dma : BOOLEAN, dma_abort : BOOLEAN,
   dma_cycles_left : 0..4, load_dma_delay : 0..3, dma_halt_delay : 0..255,
   disable_delay : 0..5, disable_age : 0..5,
   implicit_stop_delay : 0..3, reload_suppress : 0..1]

(* Dmc::default(); the code's default rate is RATES[0]. *)
DmcDefault(r) ==
  [irq_enabled |-> FALSE, loop_enabled |-> FALSE, irq_flag |-> FALSE,
   rate |-> r, current_rate |-> 0, bits_remaining |-> Bits,
   sample_length |-> 1, current_length |-> 0,
   sample_buffer |-> FALSE, silence_flag |-> TRUE,
   needs_dma |-> FALSE, is_load_dma |-> FALSE, dma_abort |-> FALSE,
   dma_cycles_left |-> 0, load_dma_delay |-> 0, dma_halt_delay |-> 0,
   disable_delay |-> 0, disable_age |-> 0,
   implicit_stop_delay |-> 0, reload_suppress |-> 0]

-----------------------------------------------------------------------------
(* Register writes.                                                        *)

(* $4010: interrupt enable, loop, rate; the running timer is left alone. *)
SetControl(d, irq, loop, r) ==
  [d EXCEPT !.irq_enabled = irq, !.loop_enabled = loop, !.rate = r,
            !.irq_flag = @ /\ irq]

(* $4013: the length the next (re)start of the sample loads. *)
SetSampleLength(d, n) == [d EXCEPT !.sample_length = n]

(* $4015 with D4 clear: the stop is only scheduled. *)
Disable(d, cycle_odd) ==
  LET idle == d.disable_delay = 0
  IN [d EXCEPT !.disable_delay = IF ~idle THEN @ ELSE IF cycle_odd THEN 5 ELSE 4,
               !.disable_age = IF idle THEN 0 ELSE @,
               !.load_dma_delay = 0,
               !.is_load_dma = FALSE,
               !.irq_flag = FALSE]

(* $4015 with D4 set: cancels a scheduled stop and restarts a finished sample. *)
Enable(d, cycle_odd) ==
  LET restart == d.current_length = 0
      load    == restart /\ ~d.sample_buffer
  IN [d EXCEPT !.disable_delay = 0,
               !.disable_age = 0,
               !.dma_abort = FALSE,
               !.current_length = IF restart THEN d.sample_length ELSE @,
               !.load_dma_delay = IF ~restart THEN @ ELSE IF cycle_odd THEN 2 ELSE 3,
               !.needs_dma = @ \/ load,
               !.is_load_dma = @ \/ load,
               !.dma_halt_delay = IF load THEN 0 ELSE @,
               !.irq_flag = FALSE]

SetEnabled(d, enabled, cycle_odd) ==
  IF enabled THEN Enable(d, cycle_odd) ELSE Disable(d, cycle_odd)

-----------------------------------------------------------------------------
(* Stopping.                                                               *)

(* A stop that takes effect: clear the length; a transfer that has not     *)
(* halted the CPU yet is cancelled (explicit stop) or cut to one cycle     *)
(* (implicit stop), one in flight is left to finish or cut.                *)
ApplyStopNow(d, prefer_abort) ==
  LET pending  == d.dma_cycles_left = 0 /\ d.needs_dma
      inFlight == d.dma_cycles_left > 0
      cancel   == pending /\ ~d.dma_abort /\ ~prefer_abort
  IN [d EXCEPT !.current_length = 0,
               !.needs_dma = @ /\ ~cancel,
               !.dma_abort = @ \/ (prefer_abort /\ (pending \/ inFlight)),
               !.dma_halt_delay = IF cancel THEN 0 ELSE @,
               !.dma_cycles_left = IF inFlight /\ prefer_abort THEN 1 ELSE @]

TickDisableDelay(d) ==
  CASE d.disable_delay = 0 -> d
    [] d.disable_delay = 1 ->
         ApplyStopNow([d EXCEPT !.disable_delay = 0, !.disable_age = 0], FALSE)
    [] OTHER -> [d EXCEPT !.disable_delay = @ - 1, !.disable_age = @ + 1]

-----------------------------------------------------------------------------
(* The output unit.                                                        *)

(* Mutation: a reload request restarts the engine under a transfer. *)
RequestReloadAlways(d) ==
  IF d.current_length = 0 \/ d.sample_buffer THEN d
  ELSE [d EXCEPT !.needs_dma = TRUE, !.is_load_dma = FALSE, !.dma_halt_delay = 0]

(* Mutation: a reload is asked for when no byte is left, too. *)
RequestReloadOfEnded(d) ==
  IF d.load_dma_delay > 0 \/ d.dma_cycles_left > 0 \/ d.needs_dma \/ d.sample_buffer
  THEN d
  ELSE [d EXCEPT !.needs_dma = TRUE, !.is_load_dma = FALSE, !.dma_halt_delay = 0]

(* A reload is asked for when the buffer has been emptied. *)
RequestReloadDma(d) ==
  LET stopping == d.disable_delay > 0
      busy     == d.load_dma_delay > 0 \/ d.dma_cycles_left > 0 \/ d.needs_dma
      refused  == \/ busy
                  \/ d.reload_suppress > 0 /\ d.implicit_stop_delay = 0
                  \/ d.current_length = 0
                  \/ d.sample_buffer
                  \/ stopping /\ d.disable_age > 3
  IN IF refused THEN d
     ELSE [d EXCEPT !.needs_dma = TRUE,
                    !.is_load_dma = FALSE,
                    !.dma_halt_delay = 0,
                    !.dma_abort = \/ @
                                  \/ stopping /\ d.disable_age >= 2
                                  \/ d.implicit_stop_delay > 0]

(* Mutation: a reload is asked for only when a byte was taken. *)
OutputClockOnlyAfterByte(d) ==
  LET clocked == [d EXCEPT !.current_rate = d.rate]
      taken   == [clocked EXCEPT !.bits_remaining = Bits,
                                 !.silence_flag = ~d.sample_buffer,
                                 !.sample_buffer = FALSE]
  IN CASE d.bits_remaining > 1 -> [clocked EXCEPT !.bits_remaining = @ - 1]
       [] d.bits_remaining = 1 /\ d.sample_buffer -> RequestReloadDma(taken)
       [] OTHER -> taken

(* One clock of the output unit: the last bit of a byte takes the buffer. *)
OutputClock(d) ==
  IF d.bits_remaining > 1
  THEN [d EXCEPT !.current_rate = d.rate, !.bits_remaining = @ - 1]
  ELSE RequestReloadDma([d EXCEPT !.current_rate = d.rate,
                                  !.bits_remaining = Bits,
                                  !.silence_flag = ~d.sample_buffer,
                                  !.sample_buffer = FALSE])

ClockTimer(d) ==
  IF d.current_rate > 1 THEN [d EXCEPT !.current_rate = @ - 1] ELSE OutputClock(d)

TickReloadSuppress(d) ==
  [d EXCEPT !.reload_suppress = IF @ > 0 THEN @ - 1 ELSE @]

TickImplicitStop(d) ==
  CASE d.implicit_stop_delay = 0 -> d
    [] d.implicit_stop_delay = 1 ->
         ApplyStopNow([d EXCEPT !.implicit_stop_delay = 0], TRUE)
    [] OTHER -> [d EXCEPT !.implicit_stop_delay = @ - 1]

(* Dmc::step, once per CPU cycle. *)
Step(d) == TickImplicitStop(TickReloadSuppress(ClockTimer(d)))

(* The level Dmc::step returns. *)
DmcIrq(d) == d.irq_enabled /\ d.irq_flag

-----------------------------------------------------------------------------
(* The DMA engine.                                                         *)

DmaActive(d) == d.dma_cycles_left > 0 \/ (d.needs_dma /\ d.load_dma_delay = 0)

TickLoadDelay(d) ==
  LET arm == /\ d.load_dma_delay = 1
             /\ ~d.sample_buffer /\ d.current_length > 0
             /\ ~d.needs_dma /\ d.dma_cycles_left = 0
  IN IF d.load_dma_delay = 0 THEN d
     ELSE [d EXCEPT !.load_dma_delay = @ - 1,
                    !.needs_dma = @ \/ arm,
                    !.is_load_dma = @ \/ arm,
                    !.dma_halt_delay = IF arm THEN 0 ELSE @]

(* The transfer the request turns into, or has turned into: its remaining  *)
(* cycles are counted from the cycle that halts the CPU.                   *)
Halted(d) ==
  IF d.dma_cycles_left > 0 THEN d
  ELSE [d EXCEPT !.dma_cycles_left = IF d.is_load_dma \/ d.dma_halt_delay % 2 = 1
                                     THEN 3 ELSE 4,
                 !.needs_dma = FALSE, !.is_load_dma = FALSE, !.dma_halt_delay = 0]

(* Mutation: a dropped request leaves its abort behind. *)
DroppedRequestKeepingAbort(d) ==
  [d EXCEPT !.needs_dma = FALSE, !.is_load_dma = FALSE, !.dma_halt_delay = 0]

(* What a request that is not a transfer yet does on this cycle: a write   *)
(* delays it, or cancels it when it is aborted; an aborted one is a single *)
(* dummy read.                                                             *)
DroppedRequest(d) == [d EXCEPT !.needs_dma = FALSE, !.dma_abort = FALSE,
                               !.is_load_dma = FALSE, !.dma_halt_delay = 0]
DelayedRequest(d) ==
  [d EXCEPT !.dma_halt_delay = IF @ < 255 THEN @ + 1 ELSE @]

Advance(d) ==
  LET h == Halted(d)
  IN CASE h.dma_cycles_left > 1 ->
            [dmc |-> [h EXCEPT !.dma_cycles_left = @ - 1], action |-> "DummyRead"]
       [] h.dma_cycles_left = 1 /\ h.dma_abort ->
            [dmc |-> [h EXCEPT !.dma_cycles_left = 0, !.dma_abort = FALSE],
             action |-> "DummyRead"]
       [] OTHER ->
            [dmc |-> [h EXCEPT !.dma_cycles_left = 0], action |-> "SampleFetch"]

(* Dmc::dma_cycle: the next state and what the emulator does on the bus. *)
DmaCycle(d, is_write) ==
  LET waiting == d.dma_cycles_left = 0
  IN CASE d.load_dma_delay > 0 ->
            [dmc |-> TickLoadDelay(d), action |-> "None"]
       [] d.load_dma_delay = 0 /\ waiting /\ ~d.needs_dma ->
            [dmc |-> d, action |-> "None"]
       [] d.load_dma_delay = 0 /\ waiting /\ d.needs_dma /\ is_write ->
            [dmc |-> IF d.dma_abort THEN DroppedRequest(d) ELSE DelayedRequest(d),
             action |-> "None"]
       [] d.load_dma_delay = 0 /\ waiting /\ d.needs_dma /\ ~is_write /\ d.dma_abort ->
            [dmc |-> DroppedRequest(d), action |-> "DummyRead"]
       [] OTHER -> Advance(d)

(* CPU cycles until the output unit takes the buffer. *)
CyclesToTake(d) == d.current_rate + d.rate * (d.bits_remaining - 1)

(* The last byte of a one-byte sample, loaded two or three cycles before   *)
(* the buffer is taken, restarts the sample for a moment.                  *)
ImplicitStopGlitch(d) ==
  IF d.sample_length = 1 /\ ~d.loop_enabled /\ CyclesToTake(d) \in 2..3
  THEN [d EXCEPT !.current_length = d.sample_length,
                 !.implicit_stop_delay = IF @ = 0 /\ d.disable_delay = 0 THEN 3 ELSE @]
  ELSE d

(* Mutation: a fetch does not hold the next request back. *)
FinishWithoutSuppress(d) ==
  LET f == [d EXCEPT !.sample_buffer = TRUE, !.current_length = @ - 1]
  IN CASE d.current_length = 0 -> [d EXCEPT !.sample_buffer = FALSE]
       [] d.current_length > 1 -> f
       [] d.current_length = 1 /\ d.loop_enabled ->
            [f EXCEPT !.current_length = d.sample_length]
       [] OTHER -> ImplicitStopGlitch([f EXCEPT !.irq_flag = @ \/ d.irq_enabled])

(* Mutation: a fetch that completes after a stop fills the buffer. *)
FinishIntoStopped(d) ==
  LET f == [d EXCEPT !.sample_buffer = TRUE, !.current_length = @ - 1,
                     !.reload_suppress = 1]
  IN CASE d.current_length = 0 -> [d EXCEPT !.sample_buffer = TRUE]
       [] d.current_length > 1 -> f
       [] d.current_length = 1 /\ d.loop_enabled ->
            [f EXCEPT !.current_length = d.sample_length]
       [] OTHER -> ImplicitStopGlitch([f EXCEPT !.irq_flag = @ \/ d.irq_enabled])

FinishSampleFetch(d) ==
  LET f == [d EXCEPT !.sample_buffer = TRUE,
                     !.current_length = @ - 1,
                     !.reload_suppress = 1]
  IN CASE d.current_length = 0 -> [d EXCEPT !.sample_buffer = FALSE]
       [] d.current_length > 1 -> f
       [] d.current_length = 1 /\ d.loop_enabled ->
            [f EXCEPT !.current_length = d.sample_length]
       [] OTHER -> ImplicitStopGlitch([f EXCEPT !.irq_flag = @ \/ d.irq_enabled])

(* What $4015 D4 reads. *)
IsActive(d) == d.current_length > 0 /\ d.disable_delay = 0

-----------------------------------------------------------------------------
(* What holds of the channel between any two of its operations.            *)

(* A transfer in flight excludes a request and a load delay: the engine    *)
(* has one transfer at a time.                                             *)
OneTransfer(d) ==
  d.dma_cycles_left > 0 => ~d.needs_dma /\ d.load_dma_delay = 0

(* A byte is requested or fetched only while the buffer is empty, so none  *)
(* is overwritten before it is played.                                     *)
HasRoom(d) == d.needs_dma \/ d.dma_cycles_left > 0 => ~d.sample_buffer

(* An abort or a halt delay belongs to a transfer that exists; left over   *)
(* it would cut or shorten the next one.                                   *)
NoStaleLatch(d) ==
  /\ d.dma_abort => d.needs_dma \/ d.dma_cycles_left > 0
  /\ d.dma_halt_delay > 0 => d.needs_dma

(* With no bytes left only an aborted request may still halt the CPU.      *)
StoppedOnlyAborts(d) == d.needs_dma /\ d.current_length = 0 => d.dma_abort

(* The age of a scheduled stop and the cycles it still has never exceed    *)
(* the delay it started with.                                              *)
DisableWindow(d) ==
  /\ d.disable_age + d.disable_delay <= 5
  /\ d.disable_delay = 0 => d.disable_age = 0

DmcInv(d) ==
  /\ OneTransfer(d)
  /\ HasRoom(d)
  /\ NoStaleLatch(d)
  /\ StoppedOnlyAborts(d)
  /\ DisableWindow(d)
  /\ d.irq_flag => d.irq_enabled
=============================================================================
