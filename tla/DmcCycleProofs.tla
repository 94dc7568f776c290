-------------------------- MODULE DmcCycleProofs --------------------------
(***************************************************************************)
(* The delta modulation channel, for every set of rates and lengths and    *)
(* every program.  Each operator of Dmc preserves Good, the conjunction of *)
(* the channel's type and its invariant; each step of the emulator's loop  *)
(* composes some of them, so that the invariant of the loop follows, and   *)
(* so does the stream of bytes the channel implements; then sprite DMA,    *)
(* which shares the channel's transfers.                                   *)
(*                                                                         *)
(* The type of a channel is split into its shape (a function on the field  *)
(* names) and the type of each field: the provers keep the first through   *)
(* an EXCEPT without looking at the fields, and the second field by field. *)
(***************************************************************************)
EXTENDS MCDmcCycle, MCSpriteDma, TLAPS

-----------------------------------------------------------------------------
(* The channel                                                             *)

Fields ==
  {"irq_enabled", "loop_enabled", "irq_flag", "rate", "current_rate", "bits_remaining",
   "sample_length", "current_length", "sample_buffer", "silence_flag", "needs_dma",
   "is_load_dma", "dma_abort", "dma_cycles_left", "load_dma_delay", "dma_halt_delay",
   "disable_delay", "disable_age", "implicit_stop_delay", "reload_suppress"}

Shaped(d) == d = [f \in Fields |-> d[f]]

Typed(d) ==
  /\ d.irq_enabled \in BOOLEAN
  /\ d.loop_enabled \in BOOLEAN
  /\ d.irq_flag \in BOOLEAN
  /\ d.rate \in Rates
  /\ d.current_rate \in Nat
  /\ d.bits_remaining \in 1..Bits
  /\ d.sample_length \in Lengths
  /\ d.current_length \in Nat
  /\ d.sample_buffer \in BOOLEAN
  /\ d.silence_flag \in BOOLEAN
  /\ d.needs_dma \in BOOLEAN
  /\ d.is_load_dma \in BOOLEAN
  /\ d.dma_abort \in BOOLEAN
  /\ d.dma_cycles_left \in 0..4
  /\ d.load_dma_delay \in 0..3
  /\ d.dma_halt_delay \in 0..255
  /\ d.disable_delay \in 0..5
  /\ d.disable_age \in 0..5
  /\ d.implicit_stop_delay \in 0..3
  /\ d.reload_suppress \in 0..1

Good(d) == Shaped(d) /\ Typed(d) /\ DmcInv(d)

LEMMA StateIsTyped == ASSUME NEW d \in DmcState PROVE Shaped(d) /\ Typed(d)
BY DEF Shaped, Typed, DmcState, Fields

LEMMA TypedIsState == ASSUME NEW d, Shaped(d), Typed(d) PROVE d \in DmcState
BY DEF Shaped, Typed, DmcState, Fields

LEMMA DefaultGood == ASSUME NEW r \in Rates PROVE Good(DmcDefault(r))
BY DmcAssumption DEF Good, Shaped, Typed, Fields, DmcDefault, DmcInv, OneTransfer,
   HasRoom, NoStaleLatch, StoppedOnlyAborts, DisableWindow

LEMMA SetControlGood ==
  ASSUME NEW d, Good(d), NEW irq \in BOOLEAN, NEW loop \in BOOLEAN,
         NEW r \in Rates
  PROVE  Good(SetControl(d, irq, loop, r))
<1>1. Shaped(SetControl(d, irq, loop, r))
  BY DEF Good, Shaped, SetControl
<1>2. Typed(SetControl(d, irq, loop, r))
  BY DEF Good, Shaped, Typed, Fields, DmcInv, DisableWindow, SetControl
<1>3. DmcInv(SetControl(d, irq, loop, r))
  BY DEF Good, Shaped, Typed, Fields, SetControl, DmcInv, OneTransfer,
     HasRoom, NoStaleLatch, StoppedOnlyAborts, DisableWindow
<1>4. QED
  BY <1>1, <1>2, <1>3 DEF Good

LEMMA SetSampleLengthGood ==
  ASSUME NEW d, Good(d), NEW n \in Lengths
  PROVE  Good(SetSampleLength(d, n))
<1>1. Shaped(SetSampleLength(d, n))
  BY DEF Good, Shaped, SetSampleLength
<1>2. Typed(SetSampleLength(d, n))
  BY DEF Good, Shaped, Typed, Fields, DmcInv, DisableWindow, SetSampleLength
<1>3. DmcInv(SetSampleLength(d, n))
  BY DEF Good, Shaped, Typed, Fields, SetSampleLength, DmcInv, OneTransfer,
     HasRoom, NoStaleLatch, StoppedOnlyAborts, DisableWindow
<1>4. QED
  BY <1>1, <1>2, <1>3 DEF Good

LEMMA DisableGood ==
  ASSUME NEW d, Good(d), NEW odd \in BOOLEAN
  PROVE  Good(Disable(d, odd))
<1>1. Shaped(Disable(d, odd))
  BY DEF Good, Shaped, Disable
<1>2. Typed(Disable(d, odd))
  BY DEF Good, Shaped, Typed, Fields, DmcInv, DisableWindow, Disable
<1>3. DmcInv(Disable(d, odd))
  BY DEF Good, Shaped, Typed, Fields, Disable, DmcInv, OneTransfer,
     HasRoom, NoStaleLatch, StoppedOnlyAborts, DisableWindow
<1>4. QED
  BY <1>1, <1>2, <1>3 DEF Good

LEMMA EnableGood ==
  ASSUME NEW d, Good(d), NEW odd \in BOOLEAN, d.dma_cycles_left = 0
  PROVE  Good(Enable(d, odd))
<1>1. Shaped(Enable(d, odd))
  BY DEF Good, Shaped, Enable
<1>2. Typed(Enable(d, odd))
  BY DmcAssumption DEF Good, Shaped, Typed, Fields, DmcInv, DisableWindow, Enable
<1>3. DmcInv(Enable(d, odd))
  BY DmcAssumption DEF Good, Shaped, Typed, Fields, Enable, DmcInv, OneTransfer,
     HasRoom, NoStaleLatch, StoppedOnlyAborts, DisableWindow
<1>4. QED
  BY <1>1, <1>2, <1>3 DEF Good

LEMMA ApplyStopNowGood ==
  ASSUME NEW d, Good(d), NEW prefer \in BOOLEAN
  PROVE  Good(ApplyStopNow(d, prefer))
<1>1. Shaped(ApplyStopNow(d, prefer))
  BY DEF Good, Shaped, ApplyStopNow
<1>2. Typed(ApplyStopNow(d, prefer))
  BY DEF Good, Shaped, Typed, Fields, DmcInv, DisableWindow, ApplyStopNow
<1>3. DmcInv(ApplyStopNow(d, prefer))
  BY DEF Good, Shaped, Typed, Fields, ApplyStopNow, DmcInv, OneTransfer,
     HasRoom, NoStaleLatch, StoppedOnlyAborts, DisableWindow
<1>4. QED
  BY <1>1, <1>2, <1>3 DEF Good

LEMMA RequestReloadDmaGood ==
  ASSUME NEW d, Good(d)
  PROVE  Good(RequestReloadDma(d))
<1> DEFINE abort == \/ d.dma_abort
                    \/ d.disable_delay > 0 /\ d.disable_age >= 2
                    \/ d.implicit_stop_delay > 0
           e == [d EXCEPT !.needs_dma = TRUE, !.is_load_dma = FALSE,
                          !.dma_halt_delay = 0, !.dma_abort = abort]
<1>1. CASE RequestReloadDma(d) = d
  BY <1>1
<1>2. CASE RequestReloadDma(d) # d
  <2>1. RequestReloadDma(d) = e
    BY <1>2 DEF RequestReloadDma
  <2>2. Shaped(e)
    BY DEF Good, Shaped
  <2>3. Typed(e)
    <3>1. abort \in BOOLEAN
      OBVIOUS
    <3>2. \A a \in BOOLEAN :
            Typed([d EXCEPT !.needs_dma = TRUE, !.is_load_dma = FALSE,
                            !.dma_halt_delay = 0, !.dma_abort = a])
      BY DEF Good, Shaped, Typed, Fields
    <3>3. QED
      BY <3>1, <3>2
  <2>4. DmcInv(e)
    BY <1>2 DEF RequestReloadDma, Good, Shaped, Typed, Fields, DmcInv, OneTransfer,
       HasRoom, NoStaleLatch, StoppedOnlyAborts, DisableWindow
  <2>5. QED
    BY <2>1, <2>2, <2>3, <2>4 DEF Good
<1>3. QED
  BY <1>1, <1>2

LEMMA TickReloadSuppressGood ==
  ASSUME NEW d, Good(d)
  PROVE  Good(TickReloadSuppress(d))
<1>1. Shaped(TickReloadSuppress(d))
  BY DEF Good, Shaped, TickReloadSuppress
<1>2. Typed(TickReloadSuppress(d))
  BY DEF Good, Shaped, Typed, Fields, DmcInv, DisableWindow, TickReloadSuppress
<1>3. DmcInv(TickReloadSuppress(d))
  BY DEF Good, Shaped, Typed, Fields, TickReloadSuppress, DmcInv, OneTransfer,
     HasRoom, NoStaleLatch, StoppedOnlyAborts, DisableWindow
<1>4. QED
  BY <1>1, <1>2, <1>3 DEF Good

LEMMA TickLoadDelayGood ==
  ASSUME NEW d, Good(d)
  PROVE  Good(TickLoadDelay(d))
<1> DEFINE e(n, a, h) ==
      [d EXCEPT !.load_dma_delay = n, !.needs_dma = @ \/ a, !.is_load_dma = @ \/ a,
                !.dma_halt_delay = h]
<1>1. CASE d.load_dma_delay = 0
  BY <1>1 DEF TickLoadDelay
<1>2. CASE d.load_dma_delay > 0
  <2>1. d.load_dma_delay - 1 \in 0..2
    BY <1>2 DEF Good, Typed
  <2>2. Shaped(TickLoadDelay(d))
    BY DEF Good, Shaped, TickLoadDelay
  <2>3. Typed(TickLoadDelay(d))
    <3>1. \A n \in 0..2, a \in BOOLEAN, h \in {0, d.dma_halt_delay} : Typed(e(n, a, h))
      BY DEF Good, Shaped, Typed, Fields
    <3>2. \E a \in BOOLEAN, h \in {0, d.dma_halt_delay} :
            TickLoadDelay(d) = e(d.load_dma_delay - 1, a, h)
      <4> DEFINE arm == /\ d.load_dma_delay = 1
                        /\ ~d.sample_buffer /\ d.current_length > 0
                        /\ ~d.needs_dma /\ d.dma_cycles_left = 0
      <4>1. TickLoadDelay(d) = e(d.load_dma_delay - 1, arm,
                                 IF arm THEN 0 ELSE d.dma_halt_delay)
        BY <1>2 DEF TickLoadDelay
      <4>2. QED
        BY <4>1
    <3>3. QED
      BY <2>1, <3>1, <3>2
  <2>4. DmcInv(TickLoadDelay(d))
    BY <1>2 DEF TickLoadDelay, Good, Shaped, Typed, Fields, DmcInv, OneTransfer,
       HasRoom, NoStaleLatch, StoppedOnlyAborts, DisableWindow
  <2>5. QED
    BY <2>2, <2>3, <2>4 DEF Good
<1>3. QED
  BY <1>1, <1>2 DEF Good, Typed

LEMMA DroppedRequestGood ==
  ASSUME NEW d, Good(d), d.dma_cycles_left = 0
  PROVE  Good(DroppedRequest(d))
<1>1. Shaped(DroppedRequest(d))
  BY DEF Good, Shaped, DroppedRequest
<1>2. Typed(DroppedRequest(d))
  BY DEF Good, Shaped, Typed, Fields, DmcInv, DisableWindow, DroppedRequest
<1>3. DmcInv(DroppedRequest(d))
  BY DEF Good, Shaped, Typed, Fields, DroppedRequest, DmcInv, OneTransfer,
     HasRoom, NoStaleLatch, StoppedOnlyAborts, DisableWindow
<1>4. QED
  BY <1>1, <1>2, <1>3 DEF Good

LEMMA DelayedRequestGood ==
  ASSUME NEW d, Good(d), d.needs_dma
  PROVE  Good(DelayedRequest(d))
<1>1. Shaped(DelayedRequest(d))
  BY DEF Good, Shaped, DelayedRequest
<1>2. Typed(DelayedRequest(d))
  BY DEF Good, Shaped, Typed, Fields, DmcInv, DisableWindow, DelayedRequest
<1>3. DmcInv(DelayedRequest(d))
  BY DEF Good, Shaped, Typed, Fields, DelayedRequest, DmcInv, OneTransfer,
     HasRoom, NoStaleLatch, StoppedOnlyAborts, DisableWindow
<1>4. QED
  BY <1>1, <1>2, <1>3 DEF Good

LEMMA ImplicitStopGlitchGood ==
  ASSUME NEW d, Good(d), ~d.needs_dma
  PROVE  Good(ImplicitStopGlitch(d))
<1>1. Shaped(ImplicitStopGlitch(d))
  BY DEF Good, Shaped, ImplicitStopGlitch, CyclesToTake
<1>2. Typed(ImplicitStopGlitch(d))
  BY DmcAssumption DEF Good, Shaped, Typed, Fields, DmcInv, DisableWindow, ImplicitStopGlitch, CyclesToTake
<1>3. DmcInv(ImplicitStopGlitch(d))
  BY DmcAssumption DEF Good, Shaped, Typed, Fields, ImplicitStopGlitch, CyclesToTake, DmcInv, OneTransfer,
     HasRoom, NoStaleLatch, StoppedOnlyAborts, DisableWindow
<1>4. QED
  BY <1>1, <1>2, <1>3 DEF Good

LEMMA TickDisableDelayGood ==
  ASSUME NEW d, Good(d)
  PROVE  Good(TickDisableDelay(d))
<1>1. CASE d.disable_delay = 0
  BY <1>1 DEF TickDisableDelay
<1>2. CASE d.disable_delay = 1
  <2> DEFINE e == [d EXCEPT !.disable_delay = 0, !.disable_age = 0]
  <2>1. Shaped(e) /\ Typed(e)
    <3>1. Shaped(e)
      BY DEF Good, Shaped
    <3>2. Typed(e)
      BY DEF Good, Shaped, Typed, Fields
    <3>3. QED
      BY <3>1, <3>2
  <2>2. DmcInv(e)
    BY DEF Good, Shaped, Typed, Fields, DmcInv, OneTransfer, HasRoom, NoStaleLatch,
       StoppedOnlyAborts, DisableWindow
  <2>3. TickDisableDelay(d) = ApplyStopNow(e, FALSE)
    BY <1>2 DEF TickDisableDelay
  <2>4. QED
    BY <2>1, <2>2, <2>3, ApplyStopNowGood DEF Good
<1>3. CASE d.disable_delay > 1
  <2> DEFINE e == [d EXCEPT !.disable_delay = @ - 1, !.disable_age = @ + 1]
  <2>1. Shaped(e)
    BY DEF Good, Shaped
  <2>2. Typed(e)
    BY <1>3 DEF Good, Shaped, Typed, Fields, DmcInv, DisableWindow
  <2>3. DmcInv(e)
    BY <1>3 DEF Good, Shaped, Typed, Fields, DmcInv, OneTransfer, HasRoom,
       NoStaleLatch, StoppedOnlyAborts, DisableWindow
  <2>4. TickDisableDelay(d) = e
    <3>1. d.disable_delay # 0 /\ d.disable_delay # 1
      BY <1>3 DEF Good, Typed
    <3>2. QED
      BY <3>1 DEF TickDisableDelay
  <2>5. QED
    BY <2>1, <2>2, <2>3, <2>4 DEF Good
<1>4. QED
  BY <1>1, <1>2, <1>3 DEF Good, Typed

LEMMA TickImplicitStopGood ==
  ASSUME NEW d, Good(d)
  PROVE  Good(TickImplicitStop(d))
<1>1. CASE d.implicit_stop_delay = 0
  BY <1>1 DEF TickImplicitStop
<1>2. CASE d.implicit_stop_delay = 1
  <2> DEFINE e == [d EXCEPT !.implicit_stop_delay = 0]
  <2>1. Good(e)
    BY DEF Good, Shaped, Typed, Fields, DmcInv, OneTransfer, HasRoom, NoStaleLatch,
       StoppedOnlyAborts, DisableWindow
  <2>2. TickImplicitStop(d) = ApplyStopNow(e, TRUE)
    BY <1>2 DEF TickImplicitStop
  <2>3. QED
    BY <2>1, <2>2, ApplyStopNowGood
<1>3. CASE d.implicit_stop_delay > 1
  <2> DEFINE e == [d EXCEPT !.implicit_stop_delay = @ - 1]
  <2>1. Good(e)
    BY <1>3 DEF Good, Shaped, Typed, Fields, DmcInv, OneTransfer, HasRoom,
       NoStaleLatch, StoppedOnlyAborts, DisableWindow
  <2>2. TickImplicitStop(d) = e
    <3>1. d.implicit_stop_delay # 0 /\ d.implicit_stop_delay # 1
      BY <1>3 DEF Good, Typed
    <3>2. QED
      BY <3>1 DEF TickImplicitStop
  <2>3. QED
    BY <2>1, <2>2
<1>4. QED
  BY <1>1, <1>2, <1>3 DEF Good, Typed

LEMMA ClockTimerGood ==
  ASSUME NEW d, Good(d)
  PROVE  Good(ClockTimer(d))
<1>1. CASE d.current_rate > 1
  <2> DEFINE e == [d EXCEPT !.current_rate = @ - 1]
  <2>1. Shaped(e)
    BY DEF Good, Shaped
  <2>2. Typed(e)
    BY <1>1 DEF Good, Shaped, Typed, Fields
  <2>3. DmcInv(e)
    BY DEF Good, Shaped, Typed, Fields, DmcInv, OneTransfer, HasRoom, NoStaleLatch,
       StoppedOnlyAborts, DisableWindow
  <2>4. QED
    BY <1>1, <2>1, <2>2, <2>3 DEF ClockTimer, Good
<1>2. CASE ~(d.current_rate > 1) /\ d.bits_remaining > 1
  <2> DEFINE e == [d EXCEPT !.current_rate = d.rate, !.bits_remaining = @ - 1]
  <2>1. Shaped(e)
    BY DEF Good, Shaped
  <2>2. Typed(e)
    BY <1>2, DmcAssumption DEF Good, Shaped, Typed, Fields
  <2>3. DmcInv(e)
    BY DEF Good, Shaped, Typed, Fields, DmcInv, OneTransfer, HasRoom, NoStaleLatch,
       StoppedOnlyAborts, DisableWindow
  <2>4. QED
    BY <1>2, <2>1, <2>2, <2>3 DEF ClockTimer, OutputClock, Good
<1>3. CASE ~(d.current_rate > 1) /\ ~(d.bits_remaining > 1)
  <2> DEFINE e == [d EXCEPT !.current_rate = d.rate, !.bits_remaining = Bits,
                            !.silence_flag = ~d.sample_buffer, !.sample_buffer = FALSE]
  <2>1. Shaped(e)
    BY DEF Good, Shaped
  <2>2. Typed(e)
    BY DmcAssumption DEF Good, Shaped, Typed, Fields
  <2>3. DmcInv(e)
    BY DEF Good, Shaped, Typed, Fields, DmcInv, OneTransfer, HasRoom, NoStaleLatch,
       StoppedOnlyAborts, DisableWindow
  <2>4. ClockTimer(d) = RequestReloadDma(e)
    BY <1>3 DEF ClockTimer, OutputClock
  <2>5. QED
    BY <2>1, <2>2, <2>3, <2>4, RequestReloadDmaGood DEF Good
<1>4. QED
  BY <1>1, <1>2, <1>3

LEMMA StepGood ==
  ASSUME NEW d, Good(d)
  PROVE  Good(Step(d))
BY ClockTimerGood, TickReloadSuppressGood, TickImplicitStopGood DEF Step

(* A transfer begins only on a request that is not aborted. *)
LEMMA HaltedGood ==
  ASSUME NEW d, Good(d), d.load_dma_delay = 0,
         d.dma_cycles_left > 0 \/ (d.needs_dma /\ ~d.dma_abort)
  PROVE  Good(Halted(d)) /\ Halted(d).dma_cycles_left > 0
<1>1. Shaped(Halted(d))
  BY DEF Good, Shaped, Halted
<1>2. Typed(Halted(d))
  <2> DEFINE e(n) == [d EXCEPT !.dma_cycles_left = n, !.needs_dma = FALSE,
                               !.is_load_dma = FALSE, !.dma_halt_delay = 0]
  <2>1. \A n \in {3, 4} : Typed(e(n))
    BY DEF Good, Shaped, Typed, Fields
  <2>2. Halted(d) \in {d, e(3), e(4)}
    BY DEF Halted
  <2>3. QED
    BY <2>1, <2>2 DEF Good
<1>3. DmcInv(Halted(d)) /\ Halted(d).dma_cycles_left > 0
  BY DEF Halted, Good, Shaped, Typed, Fields, DmcInv, OneTransfer, HasRoom,
     NoStaleLatch, StoppedOnlyAborts, DisableWindow
<1>4. QED
  BY <1>1, <1>2, <1>3 DEF Good

(* The cycle of a transfer: the bus action is never "None", and a byte is  *)
(* fetched only as its last cycle.                                         *)
LEMMA AdvanceGood ==
  ASSUME NEW d, Good(d), d.load_dma_delay = 0,
         d.dma_cycles_left > 0 \/ (d.needs_dma /\ ~d.dma_abort)
  PROVE  /\ Good(Advance(d).dmc)
         /\ Advance(d).action \in {"DummyRead", "SampleFetch"}
         /\ Advance(d).action = "SampleFetch" =>
              ~Advance(d).dmc.needs_dma /\ Advance(d).dmc.dma_cycles_left = 0
<1> DEFINE h == Halted(d)
           e1 == [h EXCEPT !.dma_cycles_left = @ - 1]
           e2 == [h EXCEPT !.dma_cycles_left = 0, !.dma_abort = FALSE]
           e3 == [h EXCEPT !.dma_cycles_left = 0]
<1>1. Good(h) /\ h.dma_cycles_left > 0
  BY HaltedGood
<1> HIDE DEF h
<1>2. CASE h.dma_cycles_left > 1
  <2>1. Advance(d) = [dmc |-> e1, action |-> "DummyRead"]
    BY <1>2 DEF Advance, h
  <2>2. Shaped(e1)
    BY <1>1 DEF Good, Shaped
  <2>3. Typed(e1)
    BY <1>1, <1>2 DEF Good, Shaped, Typed, Fields
  <2>4. DmcInv(e1)
    BY <1>1, <1>2 DEF Good, Shaped, Typed, Fields, DmcInv, OneTransfer, HasRoom,
       NoStaleLatch, StoppedOnlyAborts, DisableWindow
  <2>5. QED
    BY <2>1, <2>2, <2>3, <2>4 DEF Good
<1>3. CASE h.dma_cycles_left = 1 /\ h.dma_abort
  <2>1. Advance(d) = [dmc |-> e2, action |-> "DummyRead"]
    BY <1>3 DEF Advance, h
  <2>2. Shaped(e2)
    BY <1>1 DEF Good, Shaped
  <2>3. Typed(e2)
    BY <1>1 DEF Good, Shaped, Typed, Fields
  <2>4. DmcInv(e2)
    BY <1>1 DEF Good, Shaped, Typed, Fields, DmcInv, OneTransfer, HasRoom,
       NoStaleLatch, StoppedOnlyAborts, DisableWindow
  <2>5. QED
    BY <2>1, <2>2, <2>3, <2>4 DEF Good
<1>4. CASE h.dma_cycles_left = 1 /\ ~h.dma_abort
  <2>1. Advance(d) = [dmc |-> e3, action |-> "SampleFetch"]
    BY <1>4 DEF Advance, h
  <2>2. Shaped(e3)
    BY <1>1 DEF Good, Shaped
  <2>3. Typed(e3)
    BY <1>1 DEF Good, Shaped, Typed, Fields
  <2>4. DmcInv(e3) /\ ~e3.needs_dma /\ e3.dma_cycles_left = 0
    BY <1>1, <1>4 DEF Good, Shaped, Typed, Fields, DmcInv, OneTransfer, HasRoom,
       NoStaleLatch, StoppedOnlyAborts, DisableWindow
  <2>5. Good(e3)
    BY <2>2, <2>3, <2>4 DEF Good
  <2> HIDE DEF e3
  <2>6. QED
    BY <2>1, <2>4, <2>5
<1>5. QED
  <2>1. h.dma_cycles_left = 1 \/ h.dma_cycles_left > 1
    BY <1>1 DEF Good, Typed
  <2>2. QED
    BY <1>2, <1>3, <1>4, <2>1

(* What one cycle of the engine leaves, by the action it asks for. *)
LEMMA DmaCycleGood ==
  ASSUME NEW d, Good(d), NEW w \in BOOLEAN
  PROVE  /\ Good(DmaCycle(d, w).dmc)
         /\ DmaCycle(d, w).action = "None" => DmaCycle(d, w).dmc.dma_cycles_left = 0
         /\ DmaCycle(d, w).action = "SampleFetch" =>
              /\ ~DmaCycle(d, w).dmc.needs_dma
              /\ DmaCycle(d, w).dmc.dma_cycles_left = 0
<1> DEFINE waiting == d.load_dma_delay = 0 /\ d.dma_cycles_left = 0
<1>1. CASE d.load_dma_delay > 0
  <2>1. DmaCycle(d, w) = [dmc |-> TickLoadDelay(d), action |-> "None"]
    BY <1>1 DEF DmaCycle
  <2>2. d.dma_cycles_left = 0
    BY <1>1 DEF Good, Typed, DmcInv, OneTransfer
  <2>3. TickLoadDelay(d).dma_cycles_left = 0
    BY <2>2 DEF TickLoadDelay, Good, Shaped, Fields
  <2>4. QED
    BY <2>1, <2>3, TickLoadDelayGood
<1>2. CASE waiting /\ ~d.needs_dma
  <2>1. DmaCycle(d, w) = [dmc |-> d, action |-> "None"]
    BY <1>2 DEF DmaCycle
  <2>2. QED
    BY <2>1, <1>2
<1>3. CASE waiting /\ d.needs_dma /\ w
  <2> DEFINE e == IF d.dma_abort THEN DroppedRequest(d) ELSE DelayedRequest(d)
  <2>1. DmaCycle(d, w) = [dmc |-> e, action |-> "None"]
    BY <1>3 DEF DmaCycle
  <2>2. Good(e)
    BY <1>3, DroppedRequestGood, DelayedRequestGood
  <2>3. e.dma_cycles_left = 0
    BY <1>3 DEF DroppedRequest, DelayedRequest, Good, Shaped, Fields
  <2>4. QED
    BY <2>1, <2>2, <2>3
<1>4. CASE waiting /\ d.needs_dma /\ ~w /\ d.dma_abort
  <2>1. DmaCycle(d, w) = [dmc |-> DroppedRequest(d), action |-> "DummyRead"]
    BY <1>4 DEF DmaCycle
  <2>2. QED
    BY <2>1, <1>4, DroppedRequestGood
<1>5. CASE /\ d.load_dma_delay = 0
           /\ d.dma_cycles_left > 0 \/ (d.needs_dma /\ ~d.dma_abort /\ ~w)
  <2>1. DmaCycle(d, w) = Advance(d)
    <3>1. d.dma_cycles_left = 0 => d.needs_dma /\ ~d.dma_abort /\ ~w
      BY <1>5
    <3>2. QED
      BY <1>5, <3>1 DEF DmaCycle
  <2>2. QED
    BY <2>1, <1>5, AdvanceGood
<1>6. QED
  <2>1. d.load_dma_delay = 0 \/ d.load_dma_delay > 0
    BY DEF Good, Typed
  <2>2. d.dma_cycles_left = 0 \/ d.dma_cycles_left > 0
    BY DEF Good, Typed
  <2>3. QED
    BY <1>1, <1>2, <1>3, <1>4, <1>5, <2>1, <2>2

LEMMA FinishSampleFetchGood ==
  ASSUME NEW d, Good(d), ~d.needs_dma, d.dma_cycles_left = 0
  PROVE  Good(FinishSampleFetch(d))
<1> DEFINE f == [d EXCEPT !.sample_buffer = TRUE, !.current_length = @ - 1,
                          !.reload_suppress = 1]
<1>1. CASE d.current_length = 0
  <2> DEFINE e == [d EXCEPT !.sample_buffer = FALSE]
  <2>1. Shaped(e)
    BY DEF Good, Shaped
  <2>2. Typed(e)
    BY DEF Good, Shaped, Typed, Fields
  <2>3. DmcInv(e)
    BY DEF Good, Shaped, Typed, Fields, DmcInv, OneTransfer, HasRoom, NoStaleLatch,
       StoppedOnlyAborts, DisableWindow
  <2>4. FinishSampleFetch(d) = e
    BY <1>1 DEF FinishSampleFetch
  <2>5. QED
    BY <2>1, <2>2, <2>3, <2>4 DEF Good
<1>2. ASSUME d.current_length > 0
      PROVE  Shaped(f) /\ Typed(f) /\ DmcInv(f) /\ ~f.needs_dma
  <2>1. Shaped(f)
    BY DEF Good, Shaped
  <2>2. Typed(f)
    BY <1>2 DEF Good, Shaped, Typed, Fields
  <2>3. DmcInv(f) /\ ~f.needs_dma
    BY DEF Good, Shaped, Typed, Fields, DmcInv, OneTransfer, HasRoom, NoStaleLatch,
       StoppedOnlyAborts, DisableWindow
  <2>4. QED
    BY <2>1, <2>2, <2>3
<1>3. CASE d.current_length > 1
  <2>1. FinishSampleFetch(d) = f
    BY <1>3 DEF FinishSampleFetch, Good, Typed
  <2>2. d.current_length > 0
    BY <1>3 DEF Good, Typed
  <2>3. QED
    BY <1>2, <2>1, <2>2 DEF Good
<1>4. CASE d.current_length = 1 /\ d.loop_enabled
  <2> DEFINE e == [f EXCEPT !.current_length = d.sample_length]
  <2>1. FinishSampleFetch(d) = e
    BY <1>4 DEF FinishSampleFetch
  <2>2. Shaped(f) /\ Typed(f) /\ DmcInv(f) /\ ~f.needs_dma /\ d.sample_length \in Lengths
    BY <1>2, <1>4 DEF Good, Typed
  <2> HIDE DEF f
  <2>3. Good(e)
    BY <2>2, DmcAssumption DEF Good, Shaped, Typed, Fields, DmcInv, OneTransfer, HasRoom,
       NoStaleLatch, StoppedOnlyAborts, DisableWindow
  <2>4. QED
    BY <2>1, <2>3
<1>5. CASE d.current_length = 1 /\ ~d.loop_enabled
  <2> DEFINE e == [f EXCEPT !.irq_flag = @ \/ d.irq_enabled]
  <2>1. FinishSampleFetch(d) = ImplicitStopGlitch(e)
    BY <1>5 DEF FinishSampleFetch
  <2>2. /\ Shaped(f) /\ Typed(f) /\ DmcInv(f) /\ ~f.needs_dma
        /\ f.irq_enabled = d.irq_enabled
    BY <1>2, <1>5 DEF Good, Shaped, Fields
  <2> HIDE DEF f
  <2>3. Shaped(e)
    BY <2>2 DEF Shaped
  <2>4. Typed(e)
    BY <2>2 DEF Shaped, Typed, Fields
  <2>5. DmcInv(e) /\ ~e.needs_dma
    BY <2>2 DEF Shaped, Typed, Fields, DmcInv, OneTransfer, HasRoom, NoStaleLatch,
       StoppedOnlyAborts, DisableWindow
  <2>6. QED
    BY <2>1, <2>3, <2>4, <2>5, ImplicitStopGlitchGood DEF Good
<1>6. QED
  <2>1. d.current_length \in Nat
    BY DEF Good, Typed
  <2>2. d.current_length = 0 \/ d.current_length = 1 \/ d.current_length > 1
    BY <2>1
  <2>3. QED
    BY <1>1, <1>3, <1>4, <1>5, <2>2

-----------------------------------------------------------------------------
(* The loop                                                                *)

LEMMA PatternsNonEmpty ==
  ASSUME NEW p \in InstrPatterns
  PROVE  Len(p) \in Nat /\ 1 \in 1..Len(p) /\ DOMAIN p = 1..Len(p)
BY DEF InstrPatterns

(* Where the CPU goes next keeps the type of instr and cyc. *)
LEMMA NextBusCycleType ==
  ASSUME instr \in InstrPatterns, cyc \in DOMAIN instr, NextBusCycle
  PROVE  instr' \in InstrPatterns /\ cyc' \in DOMAIN instr'
<1>1. CASE cyc < Len(instr)
  BY <1>1, PatternsNonEmpty DEF NextBusCycle
<1>2. CASE ~(cyc < Len(instr))
  <2>1. cyc' = 1 /\ instr' \in InstrPatterns
    BY <1>2 DEF NextBusCycle
  <2>2. 1 \in 1..Len(instr') /\ DOMAIN instr' = 1..Len(instr')
    BY <2>1, PatternsNonEmpty
  <2>3. QED
    BY <2>1, <2>2
<1>3. QED
  BY <1>1, <1>2

(* What the engine leaves of the cycle it is offered. *)
LEMMA OfferedCycleGood ==
  ASSUME Good(dmc)
  PROVE  /\ Good(OfferedCycle.dmc)
         /\ OfferedCycle.action = "None" => OfferedCycle.dmc.dma_cycles_left = 0
         /\ OfferedCycle.action = "SampleFetch" =>
              ~OfferedCycle.dmc.needs_dma /\ OfferedCycle.dmc.dma_cycles_left = 0
<1>1. pending_is_write \in BOOLEAN
  BY DEF pending_is_write
<1>2. CASE pending_is_write /\ ~DmaActive(dmc)
  <2>1. OfferedCycle = [dmc |-> TickLoadDelay(dmc), action |-> "None"]
    BY <1>2 DEF OfferedCycle
  <2>2. dmc.dma_cycles_left = 0
    BY <1>2 DEF DmaActive, Good, Typed
  <2>3. TickLoadDelay(dmc).dma_cycles_left = 0
    BY <2>2 DEF TickLoadDelay, Good, Shaped, Fields
  <2>4. QED
    BY <2>1, <2>3, TickLoadDelayGood
<1>3. CASE ~(pending_is_write /\ ~DmaActive(dmc))
  <2>1. OfferedCycle = DmaCycle(dmc, pending_is_write)
    BY <1>3 DEF OfferedCycle
  <2>2. QED
    BY <1>1, <2>1, DmaCycleGood
<1>4. QED
  BY <1>2, <1>3

LoopInv ==
  /\ Good(dmc)
  /\ cycle_odd \in BOOLEAN
  /\ phase \in {"apu", "dma", "cpu"}
  /\ instr \in InstrPatterns
  /\ cyc \in DOMAIN instr
  /\ CpuBetweenTransfers

LEMMA LoopInvIsIInv == LoopInv <=> IInv
BY StateIsTyped, TypedIsState DEF LoopInv, IInv, TypeOK, Good

LEMMA LoopInvInit == Init => LoopInv
<1> SUFFICES ASSUME Init PROVE LoopInv
  OBVIOUS
<1>1. Good(dmc)
  BY DefaultGood DEF Init
<1>2. cyc \in DOMAIN instr
  BY PatternsNonEmpty DEF Init
<1>3. QED
  BY <1>1, <1>2 DEF Init, LoopInv, CpuBetweenTransfers

LEMMA LoopInvStep == LoopInv /\ [Next]_vars => LoopInv'
<1> SUFFICES ASSUME LoopInv, [Next]_vars PROVE LoopInv'
  OBVIOUS
<1> USE DEF LoopInv
<1>1. CASE ApuStep
  <2>1. Good(dmc)'
    BY <1>1, TickDisableDelayGood, StepGood DEF ApuStep
  <2>2. QED
    BY <1>1, <2>1 DEF ApuStep, CpuBetweenTransfers
<1>2. CASE DmaIdle
  BY <1>2, OfferedCycleGood DEF DmaIdle, CpuBetweenTransfers
<1>3. CASE DmaDummyRead
  BY <1>3, OfferedCycleGood DEF DmaDummyRead, CpuBetweenTransfers
<1>4. CASE DmaSampleFetch
  <2>1. Good(dmc)'
    BY <1>4, OfferedCycleGood, FinishSampleFetchGood DEF DmaSampleFetch
  <2>2. QED
    BY <1>4, <2>1 DEF DmaSampleFetch, CpuBetweenTransfers
<1>5. ASSUME CpuCycle, Good(dmc)' PROVE LoopInv'
  <2>1. instr' \in InstrPatterns /\ cyc' \in DOMAIN instr'
    BY <1>5, NextBusCycleType DEF CpuCycle
  <2>2. QED
    BY <1>5, <2>1 DEF CpuCycle, CpuBetweenTransfers
<1>6. CASE CpuOther
  BY <1>5, <1>6 DEF CpuOther
<1>7. CASE WriteControl
  BY <1>5, <1>7, SetControlGood DEF WriteControl, CpuWrite
<1>8. CASE WriteLength
  BY <1>5, <1>8, SetSampleLengthGood DEF WriteLength, CpuWrite
<1>9. CASE WriteEnable
  <2>1. dmc.dma_cycles_left = 0
    BY <1>9 DEF WriteEnable, CpuWrite, CpuCycle, CpuBetweenTransfers
  <2>2. QED
    BY <1>5, <1>9, <2>1, EnableGood DEF WriteEnable, CpuWrite, SetEnabled
<1>10. CASE WriteDisable
  BY <1>5, <1>10, DisableGood DEF WriteDisable, CpuWrite, SetEnabled
<1>11. CASE UNCHANGED vars
  BY <1>11 DEF vars, CpuBetweenTransfers
<1>12. QED
  BY <1>1, <1>2, <1>3, <1>4, <1>6, <1>7, <1>8, <1>9, <1>10, <1>11 DEF Next

(* The invariant of the emulator's loop around the channel: the types, the *)
(* channel's own invariant, and that the CPU runs only between transfers.  *)
THEOREM Invariance == Spec => []IInv
<1>1. Spec => []LoopInv
  BY LoopInvInit, LoopInvStep, PTL DEF Spec
<1>2. QED
  BY <1>1, LoopInvIsIInv, PTL

(* Every field of the channel keeps its type. *)
THEOREM TypeCorrect == Spec => []TypeOK
BY Invariance, PTL DEF IInv

(* The CPU never runs, and nothing is requested, beside a transfer. *)
THEOREM TransfersExclusive == Spec => []ExclusiveTransfer
<1>1. IInv => ExclusiveTransfer
  BY DEF IInv, DmcInv, ExclusiveTransfer
<1>2. QED
  BY <1>1, Invariance, PTL


(* No abort and no halt delay is left over for a later transfer. *)
THEOREM LatchesAreOwned == Spec => []LatchesOwned
<1>1. IInv => LatchesOwned
  BY DEF IInv, DmcInv, LatchesOwned
<1>2. QED
  BY <1>1, Invariance, PTL

(* After a stop has taken effect no full transfer begins. *)
THEOREM StopsCancelRequests == Spec => []StopCancelsRequest
<1>1. IInv => StopCancelsRequest
  BY DEF IInv, DmcInv, StopCancelsRequest
<1>2. QED
  BY <1>1, Invariance, PTL

-----------------------------------------------------------------------------
(* The channel as a stream of bytes.  Each operator either leaves the      *)
(* bytes alone, may stop the sample, or may empty the buffer.              *)

SameBytes(d, e) ==
  /\ e.current_length = d.current_length
  /\ e.sample_buffer = d.sample_buffer
  /\ e.disable_delay = d.disable_delay

MayStop(d, e) ==
  /\ e.current_length \in {d.current_length, 0}
  /\ e.sample_buffer = d.sample_buffer

MayTake(d, e) ==
  /\ e.current_length \in {d.current_length, 0}
  /\ e.sample_buffer = d.sample_buffer \/ e.sample_buffer = FALSE
  /\ e.disable_delay = d.disable_delay

LEMMA TickDisableDelayBytes ==
  ASSUME NEW d, Good(d)
  PROVE  MayStop(d, TickDisableDelay(d))
BY DEF TickDisableDelay, ApplyStopNow, MayStop, Good, Shaped, Typed, Fields

LEMMA ClockTimerBytes ==
  ASSUME NEW d, Good(d)
  PROVE  MayTake(d, ClockTimer(d))
BY DEF ClockTimer, OutputClock, RequestReloadDma, MayTake, Good, Shaped, Typed, Fields

LEMMA StepBytes ==
  ASSUME NEW d, Good(d)
  PROVE  MayTake(d, Step(d))
<1> DEFINE c == ClockTimer(d)
           s == TickReloadSuppress(c)
<1>1. Good(c) /\ MayTake(d, c)
  BY ClockTimerGood, ClockTimerBytes
<1> HIDE DEF c
<1>2. Good(s) /\ SameBytes(c, s)
  BY <1>1, TickReloadSuppressGood, ZenonT(40)
     DEF TickReloadSuppress, SameBytes, Good, Shaped, Typed, Fields
<1> HIDE DEF s
<1>3. /\ MayStop(s, TickImplicitStop(s))
      /\ TickImplicitStop(s).disable_delay = s.disable_delay
  BY <1>2 DEF TickImplicitStop, ApplyStopNow, MayStop, Good, Shaped, Typed, Fields
<1>4. Step(d) = TickImplicitStop(s)
  BY DEF Step, s, c
<1>5. QED
  BY <1>1, <1>2, <1>3, <1>4 DEF MayTake, MayStop, SameBytes

LEMMA AdvanceBytes ==
  ASSUME NEW d, Good(d), d.load_dma_delay = 0,
         d.dma_cycles_left > 0 \/ (d.needs_dma /\ ~d.dma_abort)
  PROVE  SameBytes(d, Advance(d).dmc)
<1> DEFINE h == Halted(d)
<1>1. Good(h) /\ h.dma_cycles_left > 0
  BY HaltedGood
<1>2. SameBytes(d, h)
  BY DEF Halted, SameBytes, Good, Shaped, Fields
<1> HIDE DEF h
<1>3. SameBytes(h, Advance(d).dmc)
  <2>1. h.dma_cycles_left = 1 \/ h.dma_cycles_left > 1
    BY <1>1 DEF Good, Typed
  <2>2. CASE h.dma_cycles_left > 1
    BY <1>1, <2>2 DEF Advance, h, SameBytes, Good, Shaped, Fields
  <2>3. CASE h.dma_cycles_left = 1
    BY <1>1, <2>3 DEF Advance, h, SameBytes, Good, Shaped, Fields
  <2>4. QED
    BY <2>1, <2>2, <2>3
<1>4. QED
  BY <1>2, <1>3 DEF SameBytes

(* A cycle of the engine moves no byte; a fetch meets an empty buffer. *)
LEMMA DmaCycleBytes ==
  ASSUME NEW d, Good(d), NEW w \in BOOLEAN
  PROVE  /\ SameBytes(d, DmaCycle(d, w).dmc)
         /\ DmaCycle(d, w).action = "SampleFetch" => ~d.sample_buffer
<1> DEFINE waiting == d.load_dma_delay = 0 /\ d.dma_cycles_left = 0
<1>1. CASE d.load_dma_delay > 0
  <2>1. DmaCycle(d, w) = [dmc |-> TickLoadDelay(d), action |-> "None"]
    BY <1>1 DEF DmaCycle
  <2>2. SameBytes(d, TickLoadDelay(d))
    BY DEF TickLoadDelay, SameBytes, Good, Shaped, Fields
  <2>3. QED
    BY <2>1, <2>2
<1>2. CASE waiting /\ ~d.needs_dma
  <2>1. DmaCycle(d, w) = [dmc |-> d, action |-> "None"]
    BY <1>2 DEF DmaCycle
  <2>2. QED
    BY <2>1 DEF SameBytes
<1>3. CASE waiting /\ d.needs_dma /\ w
  <2> DEFINE e == IF d.dma_abort THEN DroppedRequest(d) ELSE DelayedRequest(d)
  <2>1. DmaCycle(d, w) = [dmc |-> e, action |-> "None"]
    BY <1>3 DEF DmaCycle
  <2>2. SameBytes(d, e)
    BY DEF DroppedRequest, DelayedRequest, SameBytes, Good, Shaped, Fields
  <2>3. QED
    BY <2>1, <2>2
<1>4. CASE waiting /\ d.needs_dma /\ ~w /\ d.dma_abort
  <2>1. DmaCycle(d, w) = [dmc |-> DroppedRequest(d), action |-> "DummyRead"]
    BY <1>4 DEF DmaCycle
  <2>2. SameBytes(d, DroppedRequest(d))
    BY DEF DroppedRequest, SameBytes, Good, Shaped, Fields
  <2>3. QED
    BY <2>1, <2>2
<1>5. CASE /\ d.load_dma_delay = 0
           /\ d.dma_cycles_left > 0 \/ (d.needs_dma /\ ~d.dma_abort /\ ~w)
  <2>1. DmaCycle(d, w) = Advance(d)
    <3>1. d.dma_cycles_left = 0 => d.needs_dma /\ ~d.dma_abort /\ ~w
      BY <1>5
    <3>2. QED
      BY <1>5, <3>1 DEF DmaCycle
  <2>2. ~d.sample_buffer
    BY <1>5 DEF Good, DmcInv, HasRoom
  <2>3. QED
    BY <2>1, <2>2, <1>5, AdvanceBytes
<1>6. QED
  <2>1. d.load_dma_delay = 0 \/ d.load_dma_delay > 0
    BY DEF Good, Typed
  <2>2. d.dma_cycles_left = 0 \/ d.dma_cycles_left > 0
    BY DEF Good, Typed
  <2>3. QED
    BY <1>1, <1>2, <1>3, <1>4, <1>5, <2>1, <2>2

LEMMA OfferedCycleBytes ==
  ASSUME Good(dmc)
  PROVE  /\ SameBytes(dmc, OfferedCycle.dmc)
         /\ OfferedCycle.action = "SampleFetch" => ~dmc.sample_buffer
<1>1. pending_is_write \in BOOLEAN
  BY DEF pending_is_write
<1>2. CASE pending_is_write /\ ~DmaActive(dmc)
  <2>1. OfferedCycle = [dmc |-> TickLoadDelay(dmc), action |-> "None"]
    BY <1>2 DEF OfferedCycle
  <2>2. SameBytes(dmc, TickLoadDelay(dmc))
    BY DEF TickLoadDelay, SameBytes, Good, Shaped, Fields
  <2>3. QED
    BY <2>1, <2>2
<1>3. CASE ~(pending_is_write /\ ~DmaActive(dmc))
  <2>1. OfferedCycle = DmaCycle(dmc, pending_is_write)
    BY <1>3 DEF OfferedCycle
  <2>2. QED
    BY <1>1, <2>1, DmaCycleBytes
<1>4. QED
  BY <1>2, <1>3

(* A completed fetch delivers one byte, or is discarded after a stop. *)
LEMMA FinishSampleFetchBytes ==
  ASSUME NEW d, Good(d), ~d.sample_buffer
  PROVE  LET e == FinishSampleFetch(d)
         IN /\ e.disable_delay = d.disable_delay
            /\ \/ SameBytes(d, e) /\ d.current_length = 0
               \/ /\ d.current_length > 0
                  /\ e.sample_buffer = TRUE
                  /\ \/ e.current_length = d.current_length - 1
                     \/ d.current_length = 1 /\ e.current_length \in Lengths
<1> DEFINE f == [d EXCEPT !.sample_buffer = TRUE, !.current_length = @ - 1,
                          !.reload_suppress = 1]
<1>1. d.current_length = 0 \/ d.current_length = 1 \/ d.current_length > 1
  <2>1. d.current_length \in Nat
    BY DEF Good, Typed
  <2>2. QED
    BY <2>1
<1>f. /\ f.sample_buffer = TRUE /\ f.current_length = d.current_length - 1
      /\ f.sample_length = d.sample_length /\ f.disable_delay = d.disable_delay
      /\ f = [g \in Fields |-> f[g]]
  <2>1. d = [g \in Fields |-> d[g]]
    BY DEF Good, Shaped
  <2>2. QED
    BY <2>1 DEF Fields
<1>l. d.sample_length \in Lengths
  BY DEF Good, Typed
<1>2. CASE d.current_length = 0
  <2>1. FinishSampleFetch(d) = [d EXCEPT !.sample_buffer = FALSE]
    BY <1>2 DEF FinishSampleFetch
  <2>2. QED
    BY <1>2, <2>1 DEF SameBytes, Good, Shaped, Typed, Fields
<1>3. CASE d.current_length > 1
  <2>1. FinishSampleFetch(d) = f
    BY <1>3 DEF FinishSampleFetch, Good, Typed
  <2>2. d.current_length > 0
    BY <1>3 DEF Good, Typed
  <2> HIDE DEF f
  <2>3. QED
    BY <2>1, <2>2, <1>f
<1>4. CASE d.current_length = 1 /\ d.loop_enabled
  <2>1. FinishSampleFetch(d) = [f EXCEPT !.current_length = d.sample_length]
    BY <1>4 DEF FinishSampleFetch
  <2> HIDE DEF f
  <2>2. QED
    BY <1>4, <2>1, <1>f, <1>l DEF Fields
<1>5. CASE d.current_length = 1 /\ ~d.loop_enabled
  <2> DEFINE e == [f EXCEPT !.irq_flag = @ \/ d.irq_enabled]
  <2>1. FinishSampleFetch(d) = ImplicitStopGlitch(e)
    BY <1>5 DEF FinishSampleFetch
  <2>2. /\ e.sample_buffer = TRUE /\ e.current_length = 0 /\ e.sample_length \in Lengths
        /\ e.disable_delay = d.disable_delay
        /\ e = [g \in Fields |-> e[g]]
    <3> HIDE DEF f
    <3>1. QED
      BY <1>5, <1>f, <1>l DEF Fields
  <2> HIDE DEF e
  <2>3. /\ ImplicitStopGlitch(e).sample_buffer = TRUE
        /\ ImplicitStopGlitch(e).disable_delay = d.disable_delay
        /\ ImplicitStopGlitch(e).current_length \in {0, e.sample_length}
    BY <2>2 DEF ImplicitStopGlitch, Fields
  <2>4. QED
    BY <1>5, <2>1, <2>2, <2>3
<1>6. QED
  BY <1>1, <1>2, <1>3, <1>4, <1>5

LEMMA EnableBytes ==
  ASSUME NEW d, Good(d), NEW odd \in BOOLEAN
  PROVE  LET e == Enable(d, odd)
         IN /\ e.sample_buffer = d.sample_buffer
            /\ \/ e.current_length = d.current_length
               \/ d.current_length = 0 /\ e.current_length \in Lengths
BY DEF Enable, Good, Shaped, Typed, Fields

(* A write of $4015 with D4 clear leaves a stop scheduled. *)
LEMMA DisableBytes ==
  ASSUME NEW d, Good(d), NEW odd \in BOOLEAN
  PROVE  LET e == Disable(d, odd)
         IN /\ e.current_length = d.current_length
            /\ e.sample_buffer = d.sample_buffer
            /\ e.disable_delay > 0
BY DEF Disable, Good, Shaped, Typed, Fields

LEMMA SettingBytes ==
  ASSUME NEW d, Good(d), NEW irq \in BOOLEAN, NEW loop \in BOOLEAN, NEW r \in Rates,
         NEW n \in Lengths
  PROVE  /\ SameBytes(d, SetControl(d, irq, loop, r))
         /\ SameBytes(d, SetSampleLength(d, n))
BY DEF SetControl, SetSampleLength, SameBytes, Good, Shaped, Fields

(* What every step does to the bytes, and that only an enabling write      *)
(* makes the channel active.                                               *)
LEMMA StepStream ==
  ASSUME LoopInv, [Next]_vars
  PROVE  /\ [Stream!StreamNext]_(Stream!stream)
         /\ IsActive(dmc') /\ ~IsActive(dmc) => WriteEnable
<1> USE DEF LoopInv
<1> DEFINE Goal == /\ [Stream!StreamNext]_(Stream!stream)
                   /\ IsActive(dmc') /\ ~IsActive(dmc) => WriteEnable
<1>0. dmc.sample_buffer \in BOOLEAN /\ dmc.current_length \in Nat
  BY DEF Good, Typed
<1>1. ASSUME SameBytes(dmc, dmc') PROVE Goal
  BY <1>1 DEF SameBytes, Stream!stream, IsActive
<1>2. CASE ApuStep
  <2> DEFINE t == TickDisableDelay(dmc)
  <2>1. Good(t) /\ MayStop(dmc, t)
    BY TickDisableDelayGood, TickDisableDelayBytes
  <2>2. IsActive(t) => IsActive(dmc)
    BY DEF TickDisableDelay, ApplyStopNow, IsActive, Good, Shaped, Typed, Fields
  <2> HIDE DEF t
  <2>3. MayTake(t, Step(t)) /\ dmc' = Step(t)
    BY <1>2, <2>1, StepBytes DEF ApuStep, t
  <2>4. IsActive(dmc') => IsActive(dmc)
    BY <2>1, <2>2, <2>3 DEF MayTake, IsActive, Good, Typed
  <2>5. MayTake(t, dmc')
    BY <2>3
  <2>6. [Stream!StreamNext]_(Stream!stream)
    BY <1>0, <2>1, <2>5 DEF MayStop, MayTake, Stream!stream, Stream!StreamNext, Stream!Take,
       Stream!Stop
  <2>7. QED
    BY <2>4, <2>6
<1>3. CASE DmaIdle \/ DmaDummyRead
  BY <1>1, <1>3, OfferedCycleBytes DEF DmaIdle, DmaDummyRead
<1>4. CASE DmaSampleFetch
  <2> DEFINE o == OfferedCycle.dmc
  <2>1. Good(o) /\ SameBytes(dmc, o) /\ ~o.sample_buffer
    BY <1>4, OfferedCycleGood, OfferedCycleBytes DEF DmaSampleFetch, SameBytes
  <2>2. dmc' = FinishSampleFetch(o)
    BY <1>4 DEF DmaSampleFetch
  <2> HIDE DEF o
  <2>3. /\ dmc'.disable_delay = o.disable_delay
        /\ \/ SameBytes(o, dmc') /\ o.current_length = 0
           \/ /\ o.current_length > 0
              /\ dmc'.sample_buffer = TRUE
              /\ \/ dmc'.current_length = o.current_length - 1
                 \/ o.current_length = 1 /\ dmc'.current_length \in Lengths
    BY <2>1, <2>2, FinishSampleFetchBytes
  <2>4. [Stream!StreamNext]_(Stream!stream)
    BY <1>0, <2>1, <2>3 DEF SameBytes, Stream!stream, Stream!StreamNext, Stream!Deliver
  <2>5. IsActive(dmc') => IsActive(dmc)
    BY <1>0, <2>1, <2>3 DEF SameBytes, IsActive
  <2>6. QED
    BY <2>4, <2>5
<1>5. CASE CpuOther \/ UNCHANGED vars
  BY <1>1, <1>5 DEF CpuOther, vars, SameBytes
<1>6. CASE WriteControl
  BY <1>1, <1>6, SettingBytes, DmcAssumption DEF WriteControl
<1>7. CASE WriteLength
  <2>1. PICK n \in Lengths : dmc' = SetSampleLength(dmc, n)
    BY <1>7 DEF WriteLength
  <2>2. SameBytes(dmc, SetSampleLength(dmc, n))
    BY DEF SetSampleLength, SameBytes, Good, Shaped, Fields
  <2>3. QED
    BY <1>1, <2>1, <2>2
<1>8. CASE WriteEnable
  <2>1. dmc' = Enable(dmc, cycle_odd)
    BY <1>8 DEF WriteEnable, SetEnabled
  <2>2. /\ dmc'.sample_buffer = dmc.sample_buffer
        /\ \/ dmc'.current_length = dmc.current_length
           \/ dmc.current_length = 0 /\ dmc'.current_length \in Lengths
    BY <2>1, EnableBytes
  <2>3. QED
    BY <1>8, <2>2 DEF Stream!stream, Stream!StreamNext, Stream!Restart
<1>9. CASE WriteDisable
  <2>1. dmc' = Disable(dmc, cycle_odd)
    BY <1>9 DEF WriteDisable, SetEnabled
  <2>2. /\ dmc'.current_length = dmc.current_length
        /\ dmc'.sample_buffer = dmc.sample_buffer
        /\ dmc'.disable_delay > 0
    BY <2>1, DisableBytes
  <2>3. QED
    BY <2>2 DEF Stream!stream, IsActive
<1>10. QED
  BY <1>2, <1>3, <1>4, <1>5, <1>6, <1>7, <1>8, <1>9 DEF Next

(* $4015 D4 goes from inactive to active only by an enabling write, for    *)
(* every program and every sample length.                                  *)
THEOREM ActiveOnlyWhenEnabled == Spec => ActiveOnlyByEnable
<1>1. Spec => []LoopInv
  BY LoopInvInit, LoopInvStep, PTL DEF Spec
<1>2. LoopInv /\ [Next]_vars => [IsActive(dmc') /\ ~IsActive(dmc) => WriteEnable]_vars
  BY StepStream
<1>3. QED
  BY <1>1, <1>2, PTL DEF Spec, ActiveOnlyByEnable

(* The channel run by the emulator's loop delivers its samples byte by     *)
(* byte: it implements the stream it promises.                             *)
THEOREM Implements == Spec => ImplementsStream
<1>1. Spec => []LoopInv
  BY LoopInvInit, LoopInvStep, PTL DEF Spec
<1>2. Init => Stream!StreamInit
  BY DEF Init, DmcDefault, Stream!StreamInit
<1>3. LoopInv /\ [Next]_vars => [Stream!StreamNext]_(Stream!stream)
  BY StepStream
<1>4. QED
  BY <1>1, <1>2, <1>3, PTL DEF Spec, ImplementsStream, Stream!StreamSpec
-----------------------------------------------------------------------------
(* How long a transfer keeps the CPU off the bus.  Three facts bound it:   *)
(* a transfer in flight counts down; an abort is decided and carried out   *)
(* in the cycle in which the output unit reloads its timer, so that it     *)
(* never meets another request; and after a fetch the next request is      *)
(* held back by reload_suppress, or, in the implicit-stop glitch, by the   *)
(* timer, which still has more than one cycle to go.                       *)

(* While an implicit stop is pending no transfer is in flight, a request   *)
(* is already an abort, and a scheduled explicit stop comes later, by      *)
(* `margin` cycles at least.                                               *)
ImplicitStopAlone(d, margin) ==
  d.implicit_stop_delay > 0 =>
    /\ d.dma_cycles_left = 0
    /\ d.load_dma_delay = 0
    /\ d.needs_dma => d.dma_abort
    /\ d.current_length > 0
    /\ d.disable_delay > 0 => d.disable_delay >= d.implicit_stop_delay + margin

(* The next step of the output unit asks for no byte. *)
NoReloadNext(d) ==
  \/ d.current_length = 0
  \/ d.reload_suppress > 0 /\ d.implicit_stop_delay = 0
  \/ d.current_rate > 1
  \/ d.bits_remaining > 1

(* The output unit has just reloaded its timer, and no transfer runs. *)
JustTaken(d) == d.current_rate > 1 /\ d.dma_cycles_left = 0 /\ d.load_dma_delay = 0

SameTransfer(d, e) ==
  /\ e.dma_cycles_left = d.dma_cycles_left
  /\ e.load_dma_delay = d.load_dma_delay

LEMMA TickDisableDelayHold ==
  ASSUME NEW d, Good(d), ImplicitStopAlone(d, 1)
  PROVE  LET e == TickDisableDelay(d)
         IN /\ ImplicitStopAlone(e, 0)
            /\ SameTransfer(d, e)
            /\ e.dma_abort = d.dma_abort
            /\ e.needs_dma => d.needs_dma
            /\ NoReloadNext(d) => NoReloadNext(e)
BY DEF TickDisableDelay, ApplyStopNow, ImplicitStopAlone, SameTransfer, NoReloadNext,
   Good, Shaped, Typed, Fields

LEMMA ClockTimerHold ==
  ASSUME NEW d, Good(d), ImplicitStopAlone(d, 0), ~d.dma_abort
  PROVE  LET e == ClockTimer(d)
         IN /\ ImplicitStopAlone(e, 0)
            /\ SameTransfer(d, e)
            /\ e.dma_abort => JustTaken(e)
            /\ NoReloadNext(d) /\ e.needs_dma => d.needs_dma
BY DmcAssumption
   DEF ClockTimer, OutputClock, RequestReloadDma, ImplicitStopAlone, SameTransfer,
   NoReloadNext, JustTaken, Good, Shaped, Typed, Fields

LEMMA TickReloadSuppressHold ==
  ASSUME NEW d, Good(d), ImplicitStopAlone(d, 0)
  PROVE  LET e == TickReloadSuppress(d)
         IN /\ ImplicitStopAlone(e, 0)
            /\ SameTransfer(d, e)
            /\ e.dma_abort = d.dma_abort
            /\ e.needs_dma = d.needs_dma
            /\ e.current_rate = d.current_rate
BY DEF TickReloadSuppress, ImplicitStopAlone, SameTransfer, Good, Shaped, Typed, Fields

LEMMA TickImplicitStopHold ==
  ASSUME NEW d, Good(d), ImplicitStopAlone(d, 0)
  PROVE  LET e == TickImplicitStop(d)
         IN /\ ImplicitStopAlone(e, 1)
            /\ SameTransfer(d, e)
            /\ e.dma_abort => d.dma_abort
            /\ e.needs_dma => d.needs_dma
            /\ e.current_rate = d.current_rate
BY DEF TickImplicitStop, ApplyStopNow, ImplicitStopAlone, SameTransfer, Good, Shaped, Typed,
   Fields, DmcInv, NoStaleLatch

(* What the channel's share of Apu::step does to a transfer: nothing, and  *)
(* after NoReloadNext it asks for none.                                    *)
LEMMA ApuStepHold ==
  ASSUME NEW d, Good(d), ImplicitStopAlone(d, 1), ~d.dma_abort
  PROVE  LET e == Step(TickDisableDelay(d))
         IN /\ ImplicitStopAlone(e, 1)
            /\ SameTransfer(d, e)
            /\ e.dma_abort => JustTaken(e)
            /\ NoReloadNext(d) /\ e.needs_dma => d.needs_dma
<1> DEFINE t == TickDisableDelay(d)
           c == ClockTimer(t)
           s == TickReloadSuppress(c)
           e == TickImplicitStop(s)
<1>1. /\ Good(t) /\ ImplicitStopAlone(t, 0) /\ SameTransfer(d, t) /\ ~t.dma_abort
      /\ t.needs_dma => d.needs_dma
      /\ NoReloadNext(d) => NoReloadNext(t)
  BY TickDisableDelayGood, TickDisableDelayHold
<1>2. Step(t) = e
  BY DEF Step
<1> HIDE DEF t
<1>3. /\ Good(c) /\ ImplicitStopAlone(c, 0) /\ SameTransfer(t, c)
      /\ c.dma_abort => JustTaken(c)
      /\ NoReloadNext(t) /\ c.needs_dma => t.needs_dma
  BY <1>1, ClockTimerGood, ClockTimerHold
<1> HIDE DEF c
<1>4. /\ Good(s) /\ ImplicitStopAlone(s, 0) /\ SameTransfer(c, s)
      /\ s.dma_abort = c.dma_abort /\ s.needs_dma = c.needs_dma
      /\ s.current_rate = c.current_rate
  BY <1>3, TickReloadSuppressGood, TickReloadSuppressHold
<1> HIDE DEF s
<1>5. /\ ImplicitStopAlone(e, 1) /\ SameTransfer(s, e)
      /\ e.dma_abort => s.dma_abort
      /\ e.needs_dma => s.needs_dma
      /\ e.current_rate = s.current_rate
  BY <1>4, TickImplicitStopHold
<1> HIDE DEF e
<1>6. SameTransfer(d, e)
  BY <1>1, <1>3, <1>4, <1>5 DEF SameTransfer
<1>7. e.dma_abort => JustTaken(e)
  BY <1>3, <1>4, <1>5 DEF SameTransfer, JustTaken
<1>8. NoReloadNext(d) /\ e.needs_dma => d.needs_dma
  BY <1>1, <1>3, <1>4, <1>5
<1>9. QED
  BY <1>2, <1>5, <1>6, <1>7, <1>8 DEF t

(* A cycle offered to the engine either leaves the bus to the CPU, with no *)
(* abort left; or is the single dummy read of an aborted request; or is    *)
(* one of a full transfer, which then has one cycle less to go; or         *)
(* fetches, with no implicit stop pending.                                 *)
BusLeft(d, e) == ~e.dma_abort /\ e.dma_cycles_left = 0 /\ ImplicitStopAlone(e, 1)

AbortRead(d, e) ==
  /\ d.needs_dma
  /\ JustTaken(d)
  /\ JustTaken(e) /\ ~e.needs_dma /\ ~e.dma_abort
  /\ ImplicitStopAlone(e, 1)

TransferRead(d, e) ==
  /\ IF d.dma_cycles_left > 0
     THEN e.dma_cycles_left = d.dma_cycles_left - 1
     ELSE d.needs_dma /\ e.dma_cycles_left \in {2, 3}
  /\ e.dma_cycles_left > 0
  /\ ~e.dma_abort
  /\ e.implicit_stop_delay = 0

TransferEnd(d, e) ==
  /\ d.dma_cycles_left = 1
  /\ e.dma_cycles_left = 0 /\ e.load_dma_delay = 0
  /\ ~e.needs_dma /\ ~e.dma_abort
  /\ e.implicit_stop_delay = 0

LEMMA HaltedHold ==
  ASSUME NEW d, Good(d), d.load_dma_delay = 0, d.dma_abort => JustTaken(d),
         ImplicitStopAlone(d, 1), d.dma_cycles_left > 0 \/ (d.needs_dma /\ ~d.dma_abort)
  PROVE  LET h == Halted(d)
         IN /\ IF d.dma_cycles_left > 0
               THEN h.dma_cycles_left = d.dma_cycles_left
               ELSE d.needs_dma /\ h.dma_cycles_left \in {3, 4}
            /\ ~h.needs_dma /\ ~h.dma_abort /\ h.load_dma_delay = 0
            /\ h.implicit_stop_delay = 0
BY DEF Halted, ImplicitStopAlone, JustTaken, Good, Shaped, Typed, Fields, DmcInv, OneTransfer

LEMMA AdvanceHold ==
  ASSUME NEW d, Good(d), d.load_dma_delay = 0, d.dma_abort => JustTaken(d),
         ImplicitStopAlone(d, 1), d.dma_cycles_left > 0 \/ (d.needs_dma /\ ~d.dma_abort)
  PROVE  \/ Advance(d).action = "DummyRead" /\ TransferRead(d, Advance(d).dmc)
         \/ Advance(d).action = "SampleFetch" /\ TransferEnd(d, Advance(d).dmc)
<1> DEFINE h == Halted(d)
<1>1. Good(h) /\ h.dma_cycles_left > 0
  BY HaltedGood
<1>2. /\ IF d.dma_cycles_left > 0
         THEN h.dma_cycles_left = d.dma_cycles_left
         ELSE d.needs_dma /\ h.dma_cycles_left \in {3, 4}
      /\ ~h.needs_dma /\ ~h.dma_abort /\ h.load_dma_delay = 0
      /\ h.implicit_stop_delay = 0
  BY HaltedHold
<1>3. Advance(d) = IF h.dma_cycles_left > 1
                   THEN [dmc |-> [h EXCEPT !.dma_cycles_left = @ - 1], action |-> "DummyRead"]
                   ELSE [dmc |-> [h EXCEPT !.dma_cycles_left = 0], action |-> "SampleFetch"]
  <2> HIDE DEF h
  <2>1. h.dma_cycles_left = 1 \/ h.dma_cycles_left > 1
    BY <1>1 DEF Good, Typed
  <2>2. QED
    BY <1>2, <2>1 DEF Advance, h
<1> HIDE DEF h
<1>4. CASE h.dma_cycles_left > 1
  BY <1>1, <1>2, <1>3, <1>4 DEF TransferRead, Good, Shaped, Typed, Fields
<1>5. CASE ~(h.dma_cycles_left > 1)
  <2>1. d.dma_cycles_left = 1
    BY <1>1, <1>2, <1>5 DEF Good, Typed
  <2>2. QED
    BY <1>1, <1>2, <1>3, <1>5, <2>1 DEF TransferEnd, Good, Shaped, Typed, Fields
<1>6. QED
  BY <1>4, <1>5

LEMMA DmaCycleHold ==
  ASSUME NEW d, Good(d), NEW w \in BOOLEAN, d.dma_abort => JustTaken(d),
         ImplicitStopAlone(d, 1)
  PROVE  LET o == DmaCycle(d, w)
         IN \/ o.action = "None" /\ BusLeft(d, o.dmc)
            \/ o.action = "DummyRead" /\ AbortRead(d, o.dmc)
            \/ o.action = "DummyRead" /\ TransferRead(d, o.dmc)
            \/ o.action = "SampleFetch" /\ TransferEnd(d, o.dmc)
<1> DEFINE waiting == d.load_dma_delay = 0 /\ d.dma_cycles_left = 0
<1>1. CASE d.load_dma_delay > 0
  <2>1. DmaCycle(d, w) = [dmc |-> TickLoadDelay(d), action |-> "None"]
    BY <1>1 DEF DmaCycle
  <2>2. BusLeft(d, TickLoadDelay(d))
    BY <1>1 DEF TickLoadDelay, BusLeft, ImplicitStopAlone, JustTaken, Good, Shaped, Typed,
       Fields, DmcInv, OneTransfer
  <2>3. QED
    BY <2>1, <2>2
<1>2. CASE waiting /\ ~d.needs_dma
  <2>1. DmaCycle(d, w) = [dmc |-> d, action |-> "None"]
    BY <1>2 DEF DmaCycle
  <2>2. BusLeft(d, d)
    BY <1>2 DEF BusLeft, Good, Typed, DmcInv, NoStaleLatch
  <2>3. QED
    BY <2>1, <2>2
<1>3. CASE waiting /\ d.needs_dma /\ w
  <2> DEFINE e == IF d.dma_abort THEN DroppedRequest(d) ELSE DelayedRequest(d)
  <2>1. DmaCycle(d, w) = [dmc |-> e, action |-> "None"]
    BY <1>3 DEF DmaCycle
  <2>2. BusLeft(d, e)
    BY <1>3 DEF DroppedRequest, DelayedRequest, BusLeft, ImplicitStopAlone, Good, Shaped,
       Typed, Fields
  <2>3. QED
    BY <2>1, <2>2
<1>4. CASE waiting /\ d.needs_dma /\ ~w /\ d.dma_abort
  <2>1. DmaCycle(d, w) = [dmc |-> DroppedRequest(d), action |-> "DummyRead"]
    BY <1>4 DEF DmaCycle
  <2>2. AbortRead(d, DroppedRequest(d))
    BY <1>4 DEF DroppedRequest, AbortRead, JustTaken, ImplicitStopAlone, Good, Shaped,
       Typed, Fields
  <2>3. QED
    BY <2>1, <2>2
<1>5. CASE /\ d.load_dma_delay = 0
           /\ d.dma_cycles_left > 0 \/ (d.needs_dma /\ ~d.dma_abort /\ ~w)
  <2>1. DmaCycle(d, w) = Advance(d)
    <3>1. d.dma_cycles_left = 0 => d.needs_dma /\ ~d.dma_abort /\ ~w
      BY <1>5
    <3>2. QED
      BY <1>5, <3>1 DEF DmaCycle
  <2>2. QED
    BY <2>1, <1>5, AdvanceHold
<1>6. QED
  <2>1. d.load_dma_delay = 0 \/ d.load_dma_delay > 0
    BY DEF Good, Typed
  <2>2. d.dma_cycles_left = 0 \/ d.dma_cycles_left > 0
    BY DEF Good, Typed
  <2>3. QED
    BY <1>1, <1>2, <1>3, <1>4, <1>5, <2>1, <2>2

LEMMA OfferedCycleHold ==
  ASSUME Good(dmc), dmc.dma_abort => JustTaken(dmc), ImplicitStopAlone(dmc, 1)
  PROVE  \/ OfferedCycle.action = "None" /\ BusLeft(dmc, OfferedCycle.dmc)
         \/ OfferedCycle.action = "DummyRead" /\ AbortRead(dmc, OfferedCycle.dmc)
         \/ OfferedCycle.action = "DummyRead" /\ TransferRead(dmc, OfferedCycle.dmc)
         \/ OfferedCycle.action = "SampleFetch" /\ TransferEnd(dmc, OfferedCycle.dmc)
<1>1. pending_is_write \in BOOLEAN
  BY DEF pending_is_write
<1>2. CASE pending_is_write /\ ~DmaActive(dmc)
  <2>1. OfferedCycle = [dmc |-> TickLoadDelay(dmc), action |-> "None"]
    BY <1>2 DEF OfferedCycle
  <2>2. BusLeft(dmc, TickLoadDelay(dmc))
    BY <1>2 DEF DmaActive, TickLoadDelay, BusLeft, ImplicitStopAlone, JustTaken, Good,
       Shaped, Typed, Fields, DmcInv, OneTransfer, NoStaleLatch
  <2>3. QED
    BY <2>1, <2>2
<1>3. CASE ~(pending_is_write /\ ~DmaActive(dmc))
  <2>1. OfferedCycle = DmaCycle(dmc, pending_is_write)
    BY <1>3 DEF OfferedCycle
  <2>2. QED
    BY <1>1, <2>1, DmaCycleHold
<1>4. QED
  BY <1>2, <1>3

(* After a fetch the next step asks for no byte: the sample is over, or    *)
(* reload_suppress holds the request back, or, when the implicit-stop      *)
(* glitch lifts that, the buffer is taken in two cycles at the earliest.   *)
LEMMA FinishSampleFetchHold ==
  ASSUME NEW d, Good(d), ~d.needs_dma, ~d.dma_abort, d.dma_cycles_left = 0,
         d.load_dma_delay = 0, d.implicit_stop_delay = 0
  PROVE  LET e == FinishSampleFetch(d)
         IN /\ ImplicitStopAlone(e, 1)
            /\ NoReloadNext(e)
            /\ SameTransfer(d, e)
            /\ ~e.needs_dma /\ ~e.dma_abort
<1> DEFINE Goal(e) == /\ ImplicitStopAlone(e, 1)
                      /\ NoReloadNext(e)
                      /\ SameTransfer(d, e)
                      /\ ~e.needs_dma /\ ~e.dma_abort
           f == [d EXCEPT !.sample_buffer = TRUE, !.current_length = @ - 1,
                          !.reload_suppress = 1]
           g == [f EXCEPT !.irq_flag = @ \/ d.irq_enabled]
<1>1. CASE d.current_length = 0
  <2>1. FinishSampleFetch(d) = [d EXCEPT !.sample_buffer = FALSE]
    BY <1>1 DEF FinishSampleFetch
  <2>2. QED
    BY <1>1, <2>1 DEF ImplicitStopAlone, NoReloadNext, SameTransfer, Good, Shaped, Fields
<1>2. /\ f.reload_suppress = 1 /\ f.implicit_stop_delay = 0 /\ SameTransfer(d, f)
      /\ ~f.needs_dma /\ ~f.dma_abort
  BY DEF SameTransfer, Good, Shaped, Fields
<1>3. CASE d.current_length > 1
  <2>1. FinishSampleFetch(d) = f
    BY <1>3 DEF FinishSampleFetch, Good, Typed
  <2> HIDE DEF f
  <2>2. QED
    BY <1>2, <2>1 DEF ImplicitStopAlone, NoReloadNext
<1>4. CASE d.current_length = 1 /\ d.loop_enabled
  <2> DEFINE e == [f EXCEPT !.current_length = d.sample_length]
  <2>1. FinishSampleFetch(d) = e
    BY <1>4 DEF FinishSampleFetch
  <2>2. /\ e.reload_suppress = 1 /\ e.implicit_stop_delay = 0 /\ SameTransfer(d, e)
        /\ ~e.needs_dma /\ ~e.dma_abort
    BY DEF SameTransfer, Good, Shaped, Fields
  <2> HIDE DEF e
  <2>3. QED
    BY <2>1, <2>2 DEF ImplicitStopAlone, NoReloadNext
<1>5. CASE d.current_length = 1 /\ ~d.loop_enabled
  <2>1. FinishSampleFetch(d) = ImplicitStopGlitch(g)
    BY <1>5 DEF FinishSampleFetch
  <2>2. /\ g.reload_suppress = 1 /\ g.implicit_stop_delay = 0 /\ SameTransfer(d, g)
        /\ ~g.needs_dma /\ ~g.dma_abort
        /\ Shaped(g)
        /\ g.current_rate \in Nat /\ g.rate \in Rates /\ g.bits_remaining \in 1..Bits
        /\ g.disable_delay \in 0..5 /\ g.sample_length \in Lengths
    BY ZenonT(40) DEF SameTransfer, Good, Shaped, Typed, Fields
  <2> HIDE DEF g
  <2>3. SameTransfer(d, g) /\ d.dma_cycles_left = 0 /\ d.load_dma_delay = 0
    BY <2>2
  <2>4. CASE g.sample_length = 1 /\ ~g.loop_enabled /\ CyclesToTake(g) \in 2..3
    <3> DEFINE e == [g EXCEPT !.current_length = g.sample_length,
                              !.implicit_stop_delay = IF @ = 0 /\ g.disable_delay = 0 THEN 3 ELSE @]
    <3>1. ImplicitStopGlitch(g) = e
      BY <2>4 DEF ImplicitStopGlitch
    <3>2. g.current_rate > 1 \/ g.bits_remaining > 1
      <4>1. g.rate \in Nat
        BY <2>2, DmcAssumption
      <4>2. CASE g.bits_remaining = 1
        <5>1. g.rate * (g.bits_remaining - 1) = 0
          BY <4>1, <4>2
        <5>2. QED
          BY <2>2, <2>4, <5>1 DEF CyclesToTake
      <4>3. QED
        BY <2>2, <4>2, DmcAssumption
    <3>3. NoReloadNext(e)
      BY <2>2, <3>2 DEF NoReloadNext, Shaped, Fields
    <3>4. ImplicitStopAlone(e, 1) /\ SameTransfer(d, e) /\ ~e.needs_dma /\ ~e.dma_abort
      BY <2>2, <2>3, <2>4 DEF ImplicitStopAlone, SameTransfer, Shaped, Fields
    <3>5. QED
      BY <2>1, <3>1, <3>3, <3>4
  <2>5. CASE ~(g.sample_length = 1 /\ ~g.loop_enabled /\ CyclesToTake(g) \in 2..3)
    <3>1. ImplicitStopGlitch(g) = g
      BY <2>5 DEF ImplicitStopGlitch
    <3>2. QED
      BY <2>1, <2>2, <3>1 DEF ImplicitStopAlone, NoReloadNext
  <2>6. QED
    BY <2>4, <2>5
<1>6. QED
  <2>1. d.current_length = 0 \/ d.current_length = 1 \/ d.current_length > 1
    BY DEF Good, Typed
  <2>2. QED
    BY <1>1, <1>3, <1>4, <1>5, <2>1

LEMMA SettingHold ==
  ASSUME NEW d, Good(d), ImplicitStopAlone(d, 1), ~d.dma_abort, d.dma_cycles_left = 0,
         NEW irq \in BOOLEAN, NEW loop \in BOOLEAN, NEW r \in Rates, NEW n \in Lengths,
         NEW odd \in BOOLEAN
  PROVE  /\ BusLeft(d, SetControl(d, irq, loop, r))
         /\ BusLeft(d, SetSampleLength(d, n))
         /\ BusLeft(d, Enable(d, odd))
         /\ BusLeft(d, Disable(d, odd))
<1>1. BusLeft(d, SetControl(d, irq, loop, r))
  BY DEF SetControl, BusLeft, ImplicitStopAlone, Good, Shaped, Typed, Fields
<1>2. BusLeft(d, SetSampleLength(d, n))
  BY DEF SetSampleLength, BusLeft, ImplicitStopAlone, Good, Shaped, Typed, Fields
<1>3. BusLeft(d, Enable(d, odd))
  BY DEF Enable, BusLeft, ImplicitStopAlone, Good, Shaped, Typed, Fields
<1>4. BusLeft(d, Disable(d, odd))
  BY DEF Disable, BusLeft, ImplicitStopAlone, Good, Shaped, Typed, Fields
<1>5. QED
  BY <1>1, <1>2, <1>3, <1>4

(* What holds of the channel between two steps of the loop. *)
AbortIsFresh == dmc.dma_abort => phase = "dma" /\ JustTaken(dmc)

(* The cycles in a row for which the CPU has been off the bus, against the *)
(* transfer that holds it.                                                 *)
TransferCountsDown == dmc.dma_cycles_left > 0 => stalled + dmc.dma_cycles_left <= 4

(* Between a transfer and the CPU's next cycle nothing is requested. *)
NothingFollows ==
  phase # "cpu" /\ stalled > 0 /\ dmc.dma_cycles_left = 0 =>
    /\ ~dmc.needs_dma
    /\ dmc.load_dma_delay = 0
    /\ phase = "apu" => NoReloadNext(dmc)

StallInv ==
  /\ LoopInv
  /\ ImplicitStopAlone(dmc, 1)
  /\ AbortIsFresh
  /\ stalled \in 0..4
  /\ TransferCountsDown
  /\ NothingFollows

LEMMA StallInvInit == MCInit => StallInv
<1> SUFFICES ASSUME MCInit PROVE StallInv
  OBVIOUS
<1>1. LoopInv
  BY LoopInvInit DEF MCInit
<1>2. PICK r \in Rates : dmc = DmcDefault(r)
  BY DEF MCInit, Init
<1>3. stalled = 0
  BY DEF MCInit
<1>4. ~dmc.dma_abort /\ dmc.implicit_stop_delay = 0 /\ dmc.dma_cycles_left = 0
  BY <1>2 DEF DmcDefault
<1>5. QED
  BY <1>1, <1>3, <1>4 DEF StallInv, ImplicitStopAlone, AbortIsFresh, TransferCountsDown,
     NothingFollows

LEMMA StallInvStep == StallInv /\ [MCNext]_MCvars => StallInv'
<1> SUFFICES ASSUME StallInv, [MCNext]_MCvars PROVE StallInv'
  OBVIOUS
<1> USE DEF StallInv
<1>1. CASE UNCHANGED MCvars
  <2>1. LoopInv'
    BY <1>1, LoopInvStep DEF MCvars, vars
  <2>2. QED
    BY <1>1, <2>1 DEF MCvars, vars, ImplicitStopAlone, AbortIsFresh, TransferCountsDown,
       NothingFollows, NoReloadNext, JustTaken
<1>2. ASSUME MCNext PROVE LoopInv' /\ Good(dmc) /\ Good(dmc')
  BY <1>2, LoopInvStep DEF MCNext, LoopInv
<1>3. CASE MCNext /\ ApuStep
  <2>1. dmc' = Step(TickDisableDelay(dmc)) /\ phase = "apu" /\ phase' = "dma"
    BY <1>3 DEF ApuStep
  <2>2. stalled' = stalled
    BY <1>3, <2>1 DEF MCNext, Stalls
  <2>3. Good(dmc) /\ ~dmc.dma_abort
    BY <1>2, <1>3, <2>1 DEF AbortIsFresh
  <2>4. /\ ImplicitStopAlone(dmc', 1)
        /\ SameTransfer(dmc, dmc')
        /\ dmc'.dma_abort => JustTaken(dmc')
        /\ NoReloadNext(dmc) /\ dmc'.needs_dma => dmc.needs_dma
    BY <2>1, <2>3, ApuStepHold
  <2>5. ImplicitStopAlone(dmc, 1)'
    BY <2>4 DEF ImplicitStopAlone
  <2>6. AbortIsFresh'
    BY <2>1, <2>4 DEF AbortIsFresh, JustTaken
  <2>7. TransferCountsDown'
    BY <2>2, <2>4 DEF TransferCountsDown, SameTransfer
  <2>8. NothingFollows'
    BY <2>1, <2>2, <2>4 DEF NothingFollows, SameTransfer
  <2>9. QED
    BY <1>2, <1>3, <2>2, <2>5, <2>6, <2>7, <2>8
<1>4. CASE MCNext /\ phase = "dma" /\ ~ApuStep
  <2> DEFINE o == OfferedCycle.dmc
  <2>1. Good(dmc) /\ LoopInv' /\ (dmc.dma_abort => JustTaken(dmc))
    BY <1>2, <1>4 DEF AbortIsFresh
  <2>2. \/ OfferedCycle.action = "None" /\ BusLeft(dmc, o)
        \/ OfferedCycle.action = "DummyRead" /\ AbortRead(dmc, o)
        \/ OfferedCycle.action = "DummyRead" /\ TransferRead(dmc, o)
        \/ OfferedCycle.action = "SampleFetch" /\ TransferEnd(dmc, o)
    BY <2>1, OfferedCycleHold
  <2>3. DmaIdle \/ DmaDummyRead \/ DmaSampleFetch
    BY <1>4 DEF MCNext, Next, CpuCycle, CpuOther, WriteControl, WriteLength, WriteEnable,
       WriteDisable, CpuWrite
  <2>4. Good(o)
    BY <2>1, OfferedCycleGood
  <2>5. ASSUME phase' = "apu" PROVE stalled' = stalled + 1
    BY <1>4, <2>5 DEF MCNext, Stalls
  <2>6. CASE OfferedCycle.action = "None" /\ BusLeft(dmc, o)
    <3>1. dmc' = o /\ phase' = "cpu"
      BY <2>3, <2>6 DEF DmaIdle, DmaDummyRead, DmaSampleFetch
    <3>2. stalled' = stalled
      BY <1>4, <3>1 DEF MCNext, Stalls
    <3> HIDE DEF o
    <3>3. QED
      BY <2>1, <2>6, <3>1, <3>2 DEF BusLeft, ImplicitStopAlone, AbortIsFresh,
         TransferCountsDown, NothingFollows
  <2>7. CASE OfferedCycle.action = "DummyRead" /\ AbortRead(dmc, o)
    <3>1. dmc' = o /\ phase' = "apu"
      BY <2>3, <2>7 DEF DmaIdle, DmaDummyRead, DmaSampleFetch
    <3>2. stalled = 0
      BY <1>4, <2>7 DEF NothingFollows, AbortRead, JustTaken
    <3>3. stalled' = 1
      BY <2>5, <3>1, <3>2
    <3> HIDE DEF o
    <3>4. NothingFollows' /\ TransferCountsDown' /\ AbortIsFresh'
      BY <2>7, <3>1, <3>3 DEF AbortRead, JustTaken, NothingFollows, TransferCountsDown,
         AbortIsFresh, NoReloadNext
    <3>5. QED
      BY <2>1, <2>7, <3>1, <3>3, <3>4 DEF AbortRead, ImplicitStopAlone
  <2>8. CASE OfferedCycle.action = "DummyRead" /\ TransferRead(dmc, o)
    <3>1. dmc' = o /\ phase' = "apu"
      BY <2>3, <2>8 DEF DmaIdle, DmaDummyRead, DmaSampleFetch
    <3>2. stalled' = stalled + 1
      BY <2>5, <3>1
    <3>3. dmc.dma_cycles_left \in 0..4 /\ dmc'.dma_cycles_left \in 0..4
      BY <1>2, <1>4 DEF Good, Typed
    <3> HIDE DEF o
    <3>4. dmc.dma_cycles_left = 0 => stalled = 0
      BY <1>4, <2>8, <3>3 DEF NothingFollows, TransferRead
    <3>5. stalled' + dmc'.dma_cycles_left <= 4 /\ dmc'.dma_cycles_left > 0
      BY <2>8, <3>1, <3>2, <3>3, <3>4 DEF TransferRead, TransferCountsDown
    <3>6. NothingFollows' /\ TransferCountsDown' /\ AbortIsFresh' /\ stalled' \in 0..4
      BY <2>8, <3>1, <3>2, <3>3, <3>5 DEF TransferRead, NothingFollows, TransferCountsDown,
         AbortIsFresh
    <3>7. ImplicitStopAlone(dmc, 1)'
      BY <2>8, <3>1 DEF TransferRead, ImplicitStopAlone
    <3>8. QED
      BY <2>1, <3>6, <3>7
  <2>9. CASE OfferedCycle.action = "SampleFetch" /\ TransferEnd(dmc, o)
    <3>1. dmc' = FinishSampleFetch(o) /\ phase' = "apu"
      BY <2>3, <2>9 DEF DmaIdle, DmaDummyRead, DmaSampleFetch
    <3>2. stalled' = stalled + 1 /\ stalled + 1 <= 4
      BY <2>5, <2>9, <3>1 DEF TransferEnd, TransferCountsDown
    <3> HIDE DEF o
    <3>3. /\ ImplicitStopAlone(dmc', 1)
          /\ NoReloadNext(dmc')
          /\ SameTransfer(o, dmc')
          /\ ~dmc'.needs_dma /\ ~dmc'.dma_abort
      BY <2>4, <2>9, <3>1, FinishSampleFetchHold DEF TransferEnd
    <3>4. NothingFollows' /\ TransferCountsDown' /\ AbortIsFresh'
      BY <2>9, <3>1, <3>2, <3>3 DEF TransferEnd, SameTransfer, NothingFollows,
         TransferCountsDown, AbortIsFresh, NoReloadNext
    <3>5. ImplicitStopAlone(dmc, 1)'
      BY <3>3 DEF ImplicitStopAlone
    <3>6. QED
      BY <2>1, <3>2, <3>4, <3>5
  <2>10. QED
    BY <2>2, <2>6, <2>7, <2>8, <2>9
<1>5. CASE MCNext /\ phase = "cpu"
  <2>1. stalled' = 0 /\ phase' = "apu"
    BY <1>5 DEF MCNext, Stalls, Next, CpuCycle, CpuOther, WriteControl, WriteLength,
       WriteEnable, WriteDisable, CpuWrite, ApuStep, DmaIdle, DmaDummyRead, DmaSampleFetch
  <2>2. Good(dmc) /\ ~dmc.dma_abort /\ dmc.dma_cycles_left = 0 /\ cycle_odd \in BOOLEAN
    BY <1>2, <1>5 DEF AbortIsFresh, LoopInv, CpuBetweenTransfers
  <2>3. BusLeft(dmc, dmc')
    <3>1. CASE CpuOther
      BY <2>2, <3>1 DEF CpuOther, BusLeft
    <3>2. CASE WriteControl
      BY <2>2, <3>2, SettingHold, DmcAssumption DEF WriteControl
    <3>3. CASE WriteLength
      BY <2>2, <3>3, SettingHold, DmcAssumption DEF WriteLength
    <3>4. CASE WriteEnable
      BY <2>2, <3>4, SettingHold, DmcAssumption DEF WriteEnable, SetEnabled
    <3>5. CASE WriteDisable
      BY <2>2, <3>5, SettingHold, DmcAssumption DEF WriteDisable, SetEnabled
    <3>6. QED
      BY <1>5, <3>1, <3>2, <3>3, <3>4, <3>5 DEF MCNext, Next, ApuStep, DmaIdle,
         DmaDummyRead, DmaSampleFetch
  <2>4. QED
    BY <1>2, <1>5, <2>1, <2>3 DEF BusLeft, ImplicitStopAlone, AbortIsFresh,
       TransferCountsDown, NothingFollows
<1>6. QED
  <2>1. phase \in {"apu", "dma", "cpu"}
    BY DEF LoopInv
  <2>2. MCNext /\ phase = "apu" => ApuStep
    BY DEF MCNext, Next, ApuStep, DmaIdle, DmaDummyRead, DmaSampleFetch, CpuCycle, CpuOther,
       WriteControl, WriteLength, WriteEnable, WriteDisable, CpuWrite
  <2>3. QED
    BY <1>1, <1>3, <1>4, <1>5, <2>1, <2>2

(* A transfer keeps the CPU off the bus for at most four cycles, and the   *)
(* CPU runs between two transfers, whatever the rate, the sample and the   *)
(* program (Dmc::dma_cycle, reload_suppress).                              *)
THEOREM StallsAreShort == MCSpec => []StallBounded
<1>1. StallInv => StallBounded
  BY DEF StallInv, StallBounded
<1>2. QED
  BY <1>1, StallInvInit, StallInvStep, PTL DEF MCSpec

-----------------------------------------------------------------------------
(* Sprite DMA, for every program, rate, sample length and length of the    *)
(* transfer: the channel stays consistent, and no fetch of the channel     *)
(* catches the transfer with a put still owed.                             *)

(* A cycle offered while the CPU is off the bus, with its bus action done. *)
LEMMA FreeCycleGood ==
  ASSUME NEW d, Good(d)
  PROVE  Good(Applied(DmaCycle(d, FALSE)))
<1> DEFINE c == DmaCycle(d, FALSE)
<1>1. /\ Good(c.dmc)
      /\ c.action = "SampleFetch" => ~c.dmc.needs_dma /\ c.dmc.dma_cycles_left = 0
  BY DmaCycleGood
<1> HIDE DEF c
<1>2. Good(Applied(c))
  BY <1>1, FinishSampleFetchGood DEF Applied
<1>3. QED
  BY <1>2 DEF c

(* The channel is not about to fetch. *)
NoFetchDue(d) == d.dma_cycles_left = 1 => d.dma_abort

(* The channel's timers leave a transfer's cycles alone, unless they cut   *)
(* it to the one that aborts it.                                           *)
KeepsTransfer(d, e) ==
  /\ d.dma_abort => e.dma_abort
  /\ \/ e.dma_cycles_left = d.dma_cycles_left
     \/ d.dma_cycles_left > 0 /\ e.dma_cycles_left = 1 /\ e.dma_abort

LEMMA KeepsNoFetchDue ==
  ASSUME NEW d, NEW e, Good(d), KeepsTransfer(d, e)
  PROVE  /\ NoFetchDue(d) => NoFetchDue(e)
         /\ d.dma_cycles_left = 0 => e.dma_cycles_left = 0
BY DEF KeepsTransfer, NoFetchDue, Good, Typed

LEMMA TickDisableDelayKeepsTransfer ==
  ASSUME NEW d, Good(d)
  PROVE  KeepsTransfer(d, TickDisableDelay(d))
BY DEF TickDisableDelay, ApplyStopNow, KeepsTransfer, Good, Shaped, Typed, Fields

LEMMA TickImplicitStopKeepsTransfer ==
  ASSUME NEW d, Good(d)
  PROVE  KeepsTransfer(d, TickImplicitStop(d))
<1> DEFINE e == [d EXCEPT !.implicit_stop_delay = 0]
<1>1. CASE d.implicit_stop_delay = 1
  <2>1. TickImplicitStop(d) = ApplyStopNow(e, TRUE)
    BY <1>1 DEF TickImplicitStop
  <2>2. /\ e.dma_cycles_left = d.dma_cycles_left /\ e.dma_abort = d.dma_abort
        /\ e = [f \in Fields |-> e[f]]
    BY DEF Good, Shaped, Fields
  <2> HIDE DEF e
  <2>3. ApplyStopNow(e, TRUE).dma_cycles_left = IF e.dma_cycles_left > 0 THEN 1
                                                ELSE e.dma_cycles_left
    BY <2>2 DEF ApplyStopNow, Fields
  <2>4. e.dma_abort \/ e.dma_cycles_left > 0 => ApplyStopNow(e, TRUE).dma_abort
    BY <2>2 DEF ApplyStopNow, Fields, Good, Typed
  <2>5. QED
    BY <2>1, <2>2, <2>3, <2>4 DEF KeepsTransfer
<1>2. CASE d.implicit_stop_delay # 1
  BY <1>2 DEF TickImplicitStop, KeepsTransfer, Good, Shaped, Fields
<1>3. QED
  BY <1>1, <1>2

LEMMA ClockTimerKeepsTransfer ==
  ASSUME NEW d, Good(d)
  PROVE  KeepsTransfer(d, ClockTimer(d))
<1>1. ClockTimer(d).dma_cycles_left = d.dma_cycles_left
  BY DEF ClockTimer, OutputClock, RequestReloadDma, Good, Shaped, Typed, Fields
<1>2. d.dma_abort => ClockTimer(d).dma_abort
  BY DEF ClockTimer, OutputClock, RequestReloadDma, Good, Shaped, Typed, Fields
<1>3. QED
  BY <1>1, <1>2 DEF KeepsTransfer

LEMMA StepKeepsTransfer ==
  ASSUME NEW d, Good(d)
  PROVE  KeepsTransfer(d, Step(d))
<1> DEFINE c == ClockTimer(d)
           s == TickReloadSuppress(c)
<1>1. Good(c) /\ KeepsTransfer(d, c)
  BY ClockTimerGood, ClockTimerKeepsTransfer
<1> HIDE DEF c
<1>2. Good(s) /\ KeepsTransfer(c, s)
  BY <1>1, TickReloadSuppressGood, ZenonT(40) DEF TickReloadSuppress, KeepsTransfer,
     Good, Shaped, Typed, Fields
<1> HIDE DEF s
<1>3. KeepsTransfer(s, TickImplicitStop(s))
  BY <1>2, TickImplicitStopKeepsTransfer
<1>4. Step(d) = TickImplicitStop(s)
  BY DEF Step, s, c
<1>5. KeepsTransfer(d, s)
  BY <1>1, <1>2 DEF KeepsTransfer, Good, Typed
<1>6. QED
  BY <1>2, <1>3, <1>4, <1>5 DEF KeepsTransfer, Good, Typed

LEMMA FinishKeepsTransfer ==
  ASSUME NEW d, Good(d), ~d.needs_dma, d.dma_cycles_left = 0
  PROVE  FinishSampleFetch(d).dma_cycles_left = 0
BY DEF FinishSampleFetch, ImplicitStopGlitch, CyclesToTake, Good, Shaped, Typed, Fields

(* A fetch is at least two cycles after the one that halts the CPU. *)
LEMMA FetchNotImmediate ==
  ASSUME NEW d, Good(d), NoFetchDue(d), NEW w \in BOOLEAN, ~w
  PROVE  /\ DmaCycle(d, w).action # "SampleFetch"
         /\ d.dma_cycles_left = 0 => NoFetchDue(DmaCycle(d, w).dmc)
<1> DEFINE waiting == d.load_dma_delay = 0 /\ d.dma_cycles_left = 0
<1>1. CASE d.load_dma_delay > 0
  <2>1. DmaCycle(d, w) = [dmc |-> TickLoadDelay(d), action |-> "None"]
    BY <1>1 DEF DmaCycle
  <2>2. TickLoadDelay(d).dma_cycles_left = d.dma_cycles_left
    BY DEF TickLoadDelay, Good, Shaped, Fields
  <2>3. DmaCycle(d, w).action = "None" /\ DmaCycle(d, w).dmc = TickLoadDelay(d)
    BY <2>1
  <2>4. d.dma_cycles_left = 0 => NoFetchDue(TickLoadDelay(d))
    BY <2>2 DEF NoFetchDue
  <2>5. QED
    BY <2>3, <2>4
<1>2. CASE waiting /\ ~d.needs_dma
  <2>1. DmaCycle(d, w) = [dmc |-> d, action |-> "None"]
    BY <1>2 DEF DmaCycle
  <2>2. DmaCycle(d, w).action = "None" /\ DmaCycle(d, w).dmc = d
    BY <2>1
  <2>3. QED
    BY <2>2
<1>3. CASE waiting /\ d.needs_dma /\ d.dma_abort
  <2>1. DmaCycle(d, w) = [dmc |-> DroppedRequest(d), action |-> "DummyRead"]
    BY <1>3 DEF DmaCycle
  <2>2. DroppedRequest(d).dma_cycles_left = d.dma_cycles_left
    BY DEF DroppedRequest, Good, Shaped, Fields
  <2>3. DmaCycle(d, w).action = "DummyRead" /\ DmaCycle(d, w).dmc = DroppedRequest(d)
    BY <2>1
  <2>4. d.dma_cycles_left = 0 => NoFetchDue(DroppedRequest(d))
    BY <2>2 DEF NoFetchDue
  <2>5. QED
    BY <2>3, <2>4
<1>4. CASE /\ d.load_dma_delay = 0
           /\ d.dma_cycles_left > 0 \/ (d.needs_dma /\ ~d.dma_abort)
  <2> DEFINE h == Halted(d)
  <2>1. DmaCycle(d, w) = Advance(d)
    <3>1. d.dma_cycles_left = 0 => d.needs_dma /\ ~d.dma_abort
      BY <1>4
    <3>2. QED
      BY <1>4, <3>1 DEF DmaCycle
  <2>2. /\ Good(h) /\ h.dma_cycles_left > 0
        /\ d.dma_cycles_left > 0 => h = d
        /\ d.dma_cycles_left = 0 => h.dma_cycles_left \in {3, 4}
    <3>1. Good(h) /\ h.dma_cycles_left > 0
      BY <1>4, HaltedGood
    <3>2. QED
      BY <3>1 DEF Halted, Good, Shaped, Fields
  <2> HIDE DEF h
  <2>3. h.dma_cycles_left > 1 \/ (h.dma_cycles_left = 1 /\ h.dma_abort /\ d.dma_cycles_left > 0)
    BY <2>2 DEF Good, Typed, NoFetchDue
  <2>4. CASE h.dma_cycles_left > 1
    <3> DEFINE e == [h EXCEPT !.dma_cycles_left = @ - 1]
    <3>1. Advance(d) = [dmc |-> e, action |-> "DummyRead"]
      BY <2>4 DEF Advance, h
    <3>2. e.dma_cycles_left = h.dma_cycles_left - 1
      BY <2>2 DEF Good, Shaped, Fields
    <3> HIDE DEF e
    <3>3. DmaCycle(d, w).action = "DummyRead" /\ DmaCycle(d, w).dmc = e
      BY <2>1, <3>1
    <3>4. DmaCycle(d, w).dmc.dma_cycles_left = h.dma_cycles_left - 1
      BY <3>2, <3>3
    <3>5. d.dma_cycles_left = 0 => NoFetchDue(DmaCycle(d, w).dmc)
      BY <2>2, <3>4 DEF NoFetchDue
    <3>6. QED
      BY <3>3, <3>5
  <2>5. CASE h.dma_cycles_left = 1 /\ h.dma_abort /\ d.dma_cycles_left > 0
    <3>1. Advance(d).action = "DummyRead"
      BY <2>5 DEF Advance, h
    <3>2. DmaCycle(d, w).action = "DummyRead" /\ d.dma_cycles_left # 0
      BY <2>1, <2>5, <3>1
    <3>3. QED
      BY <3>2
  <2>6. QED
    BY <2>3, <2>4, <2>5
<1>5. QED
  <2>1. d.load_dma_delay = 0 \/ d.load_dma_delay > 0
    BY DEF Good, Typed
  <2>2. d.dma_cycles_left = 0 \/ d.dma_cycles_left > 0
    BY DEF Good, Typed
  <2>3. QED
    BY <1>1, <1>2, <1>3, <1>4, <2>1, <2>2

-----------------------------------------------------------------------------
(* The loop, the sprite transfer's cycles included.                        *)

SpriteInv ==
  /\ Good(dmc)
  /\ cycle_odd \in BOOLEAN /\ is_get \in BOOLEAN
  /\ phase \in {"apu", "dma", "cpu", "oam_dma", "oam_apu", "finish", "finish_dma"}
  /\ instr \in InstrPatterns /\ cyc \in DOMAIN instr
  /\ CpuBetweenTransfers
  /\ scheduled \in BOOLEAN
  /\ work_left \in 0 .. Work + 1
  /\ align_puts \in 0..1
  /\ finish_left \in 0..Finish

(* Which of the transfer's counters are spent in which phase. *)
CountersInv ==
  /\ phase \in {"oam_dma", "oam_apu"} => work_left > 0
  /\ phase \in {"finish", "finish_dma"} => work_left = 0
  /\ phase = "finish_dma" => finish_left > 0

(* A put that is owed is taken within two cycles of its fetch: on the get  *)
(* before it the channel has no transfer, and on the put itself at most    *)
(* one that has just begun.                                                *)
AlignInv ==
  phase \in {"oam_dma", "oam_apu"} /\ align_puts = 1 =>
    /\ NoFetchDue(dmc)
    /\ is_get => dmc.dma_cycles_left = 0

LEMMA SpriteInvInit == SpriteInit => SpriteInv /\ CountersInv /\ AlignInv
<1> SUFFICES ASSUME SpriteInit PROVE SpriteInv /\ CountersInv /\ AlignInv
  OBVIOUS
<1>1. LoopInv
  BY LoopInvInit DEF SpriteInit
<1>b. is_get \in BOOLEAN /\ scheduled \in BOOLEAN
  BY Zenon DEF SpriteInit
<1>n. work_left \in 0 .. Work + 1 /\ align_puts \in 0..1 /\ finish_left \in 0..Finish
  BY SpriteDmaAssumption DEF SpriteInit
<1>2. SpriteInv
  BY <1>1, <1>b, <1>n DEF LoopInv, SpriteInv
<1>3. CountersInv /\ AlignInv
  BY DEF SpriteInit, Init, CountersInv, AlignInv
<1>4. QED
  BY <1>2, <1>3

(* A step of tick_one is one of the loop around the channel. *)
LEMMA TickStepKeeps ==
  ASSUME SpriteInv, Next, phase \in {"apu", "dma", "cpu"},
         is_get' \in BOOLEAN, scheduled' \in BOOLEAN, UNCHANGED oam
  PROVE  SpriteInv' /\ CountersInv' /\ AlignInv'
<1>1. LoopInv
  BY DEF LoopInv, SpriteInv
<1>2. LoopInv'
  BY <1>1, LoopInvStep
<1>3. SpriteInv'
  BY <1>2 DEF LoopInv, SpriteInv, oam
<1>4. phase' \in {"apu", "dma", "cpu"}
  BY <1>2 DEF LoopInv
<1>5. CountersInv' /\ AlignInv'
  BY <1>4 DEF CountersInv, AlignInv
<1>6. QED
  BY <1>3, <1>5

LEMMA StepApuGood ==
  ASSUME Good(dmc), cycle_odd \in BOOLEAN, StepApu
  PROVE  /\ Good(dmc)' /\ cycle_odd' \in BOOLEAN
         /\ NoFetchDue(dmc) => NoFetchDue(dmc')
         /\ dmc.dma_cycles_left = 0 => dmc'.dma_cycles_left = 0
<1> DEFINE t == TickDisableDelay(dmc)
<1>1. Good(t) /\ KeepsTransfer(dmc, t)
  BY TickDisableDelayGood, TickDisableDelayKeepsTransfer
<1>2. dmc' = Step(t) /\ cycle_odd' = ~cycle_odd
  BY DEF StepApu
<1> HIDE DEF t
<1>3. Good(dmc') /\ KeepsTransfer(t, dmc')
  BY <1>1, <1>2, StepGood, StepKeepsTransfer
<1>4. QED
  BY <1>1, <1>2, <1>3, KeepsNoFetchDue

LEMMA SpriteInvStep ==
  SpriteInv /\ CountersInv /\ AlignInv /\ [SpriteNext]_spriteVars
    => SpriteInv' /\ CountersInv' /\ AlignInv'
<1> SUFFICES ASSUME SpriteInv, CountersInv, AlignInv, [SpriteNext]_spriteVars
             PROVE  SpriteInv' /\ CountersInv' /\ AlignInv'
  OBVIOUS
<1>t. is_get \in BOOLEAN /\ scheduled \in BOOLEAN
  BY DEF SpriteInv
<1>1. CASE TickApuStep
  BY <1>1, <1>t, TickStepKeeps DEF TickApuStep, ApuStep, Next
<1>2. CASE TickDmaIdle
  BY <1>2, <1>t, TickStepKeeps DEF TickDmaIdle, DmaIdle, Next
<1>3. CASE TickDmaDummyRead
  BY <1>3, <1>t, TickStepKeeps DEF TickDmaDummyRead, DmaDummyRead, Next
<1>4. CASE TickDmaSampleFetch
  BY <1>4, <1>t, TickStepKeeps DEF TickDmaSampleFetch, DmaSampleFetch, Next
<1>5. CASE TickCpuOther
  BY <1>5, <1>t, TickStepKeeps DEF TickCpuOther, CpuFlips, CpuOther, CpuCycle, Next
<1>6. CASE WriteChannel
  <2>1. Next /\ phase = "cpu"
    BY <1>6 DEF WriteChannel, Next, WriteControl, WriteLength, WriteEnable, WriteDisable,
       CpuWrite, CpuCycle
  <2>2. QED
    BY <1>6, <1>t, <2>1, TickStepKeeps DEF WriteChannel, CpuFlips
<1>7. CASE WriteSpriteDma
  <2>1. Next /\ phase = "cpu"
    BY <1>7 DEF WriteSpriteDma, Next, CpuOther, CpuWrite, CpuCycle
  <2>2. QED
    BY <1>7, <1>t, <2>1, TickStepKeeps DEF WriteSpriteDma, CpuFlips
<1>8. CASE StartSpriteDma
  <2>1. work_left' \in 1 .. Work + 1
    BY <1>8, SpriteDmaAssumption DEF StartSpriteDma
  <2>b. scheduled' \in BOOLEAN
    BY <1>8, Zenon DEF StartSpriteDma
  <2>2. QED
    BY <1>8, <2>1, <2>b DEF StartSpriteDma, SpriteInv, CountersInv, AlignInv, CpuBetweenTransfers, cpu
<1>9. CASE OamDma
  <2> DEFINE c == DmaCycle(dmc, FALSE)
  <2>1. Good(dmc')
    BY <1>9, FreeCycleGood DEF OamDma, SpriteInv
  <2>2. /\ NoFetchDue(dmc) => c.action # "SampleFetch"
        /\ NoFetchDue(dmc) /\ dmc.dma_cycles_left = 0 => NoFetchDue(c.dmc)
    BY FetchNotImmediate DEF SpriteInv
  <2>3. /\ c.action = "SampleFetch" => ~c.dmc.needs_dma /\ c.dmc.dma_cycles_left = 0
        /\ Good(c.dmc)
    BY DmaCycleGood DEF SpriteInv
  <2>4. dmc' = Applied(c) /\ SpriteWork(c.action = "SampleFetch")
    BY <1>9 DEF OamDma
  <2>w. work_left \in 1 .. Work + 1 /\ align_puts \in 0..1
    BY <1>9 DEF OamDma, SpriteInv, CountersInv
  <2>b. is_get' \in BOOLEAN
    BY <1>9, <1>t, Zenon DEF OamDma
  <2>p. /\ UNCHANGED <<cycle_odd, cpu, scheduled>>
        /\ \/ work_left' > 0 /\ phase' = "oam_apu" /\ finish_left' = finish_left
           \/ ~(work_left' > 0) /\ phase' = "finish" /\ finish_left' = Finish
    BY <1>9, Zenon DEF OamDma
  <2> HIDE DEF c
  <2>5. CASE c.action = "SampleFetch"
    <3>1. align_puts' = 1 /\ work_left' = work_left
      BY <2>4, <2>5 DEF SpriteWork
    <3>2. dmc' = FinishSampleFetch(c.dmc)
      BY <2>4, <2>5 DEF Applied
    <3>3. dmc'.dma_cycles_left = 0
      BY <2>3, <2>5, <3>2, FinishKeepsTransfer
    <3>4. NoFetchDue(dmc')
      BY <3>3 DEF NoFetchDue
    <3>5. QED
      BY <2>1, <2>b, <2>p, <2>w, SpriteDmaAssumption, <3>1, <3>3, <3>4 DEF SpriteInv, CountersInv, AlignInv,
         CpuBetweenTransfers, cpu
  <2>6. CASE c.action # "SampleFetch"
    <3>1. dmc' = c.dmc
      BY <2>4, <2>6 DEF Applied
    <3>2. CASE align_puts = 1 /\ ~is_get
      <4>1. align_puts' = 0 /\ work_left' = work_left
        BY <2>4, <2>6, <3>2 DEF SpriteWork
      <4>2. QED
        BY <2>1, <2>b, <2>p, <2>w, SpriteDmaAssumption, <4>1 DEF SpriteInv, CountersInv, AlignInv,
           CpuBetweenTransfers, cpu
    <3>3. CASE ~(align_puts = 1 /\ ~is_get)
      <4>1. align_puts' = align_puts /\ work_left' = work_left - 1
        BY <2>4, <2>6, <2>w, <3>3 DEF SpriteWork
      <4>2. align_puts' = 1 => is_get /\ NoFetchDue(dmc) /\ dmc.dma_cycles_left = 0
        BY <1>9, <3>3, <4>1 DEF OamDma, AlignInv
      <4>3. align_puts' = 1 => NoFetchDue(dmc')
        BY <2>2, <3>1, <4>2
      <4>4. AlignInv'
        BY <1>9, <4>2, <4>3 DEF OamDma, AlignInv
      <4>5. QED
        BY <2>1, <2>b, <2>p, <2>w, SpriteDmaAssumption, <4>1, <4>4 DEF SpriteInv,
           CountersInv, CpuBetweenTransfers, cpu
    <3>4. QED
      BY <3>2, <3>3
  <2>7. QED
    BY <2>5, <2>6
<1>10. CASE OamApu
  <2>1. /\ Good(dmc)' /\ cycle_odd' \in BOOLEAN
        /\ NoFetchDue(dmc) => NoFetchDue(dmc')
        /\ dmc.dma_cycles_left = 0 => dmc'.dma_cycles_left = 0
    BY <1>10, StepApuGood DEF OamApu, SpriteInv
  <2>2. QED
    BY <1>10, <2>1 DEF OamApu, SpriteInv, CountersInv, AlignInv, CpuBetweenTransfers, cpu, oam
<1>11. CASE FinishApu
  <2>1. Good(dmc)' /\ cycle_odd' \in BOOLEAN
    BY <1>11, StepApuGood DEF FinishApu, SpriteInv
  <2>2. QED
    BY <1>11, <2>1 DEF FinishApu, Finishing, SpriteInv, CountersInv, AlignInv,
       CpuBetweenTransfers, cpu, oam
<1>12. CASE FinishDma
  <2>1. Good(dmc')
    BY <1>12, FreeCycleGood DEF FinishDma, SpriteInv
  <2>2. finish_left' \in 0..Finish
    BY <1>12, SpriteDmaAssumption DEF FinishDma, SpriteInv, CountersInv
  <2>3. QED
    BY <1>12, <1>t, <2>1, <2>2 DEF FinishDma, SpriteInv, CountersInv, AlignInv,
       CpuBetweenTransfers, cpu
<1>13. CASE Resume
  BY <1>13, SpriteDmaAssumption DEF Resume, SpriteInv, CountersInv, AlignInv,
     CpuBetweenTransfers, cpu
<1>14. CASE UNCHANGED spriteVars
  BY <1>14 DEF spriteVars, vars, oam, SpriteInv, CountersInv, AlignInv, CpuBetweenTransfers
<1>15. QED
  BY <1>1, <1>2, <1>3, <1>4, <1>5, <1>6, <1>7, <1>8, <1>9, <1>10, <1>11, <1>12, <1>13, <1>14
     DEF SpriteNext

LEMMA SpriteInvariance == SpriteSpec => [](SpriteInv /\ CountersInv /\ AlignInv)
BY SpriteInvInit, SpriteInvStep, PTL DEF SpriteSpec

(* The transfer's counters keep their ranges, whatever the channel does.   *)
THEOREM SpriteTypeCorrect == SpriteSpec => []SpriteTypeOK
<1>1. SpriteInv => SpriteTypeOK
  BY TypedIsState DEF SpriteInv, SpriteTypeOK, Good
<1>2. QED
  BY <1>1, SpriteInvariance, PTL

(* The channel's invariant holds through sprite transfers.                 *)
THEOREM ChannelStaysConsistent == SpriteSpec => []ChannelConsistent
<1>1. SpriteInv => ChannelConsistent
  BY DEF SpriteInv, Good, ChannelConsistent
<1>2. QED
  BY <1>1, SpriteInvariance, PTL

LEMMA FetchNotOwed ==
  SpriteInv /\ AlignInv /\ OamDma /\ DmaCycle(dmc, FALSE).action = "SampleFetch"
    => align_puts = 0
<1> SUFFICES ASSUME SpriteInv, AlignInv, OamDma, DmaCycle(dmc, FALSE).action = "SampleFetch"
             PROVE  align_puts = 0
  OBVIOUS
<1>1. ~NoFetchDue(dmc)
  BY FetchNotImmediate DEF SpriteInv
<1>2. QED
  BY <1>1 DEF AlignInv, SpriteInv, OamDma

(* No fetch while the put after the last one is owed.                      *)
THEOREM FetchesAreApart == SpriteSpec => FetchesApart
<1>1. SpriteInv /\ AlignInv /\ [SpriteNext]_spriteVars
        => [OamDma /\ DmaCycle(dmc, FALSE).action = "SampleFetch" => align_puts = 0]_spriteVars
  BY FetchNotOwed
<1>2. QED
  BY <1>1, SpriteInvariance, PTL DEF SpriteSpec, FetchesApart

-----------------------------------------------------------------------------
(* What a transfer costs.                                                  *)

CostInv ==
  /\ extra \in Nat /\ fetches \in Nat
  /\ InTransfer => extra = 2 * fetches - align_puts

LEMMA CostStep ==
  SpriteInv /\ CountersInv /\ AlignInv /\ CostInv /\ [MCSpriteNext]_MCSpriteVars => CostInv'
<1> SUFFICES ASSUME SpriteInv, CountersInv, AlignInv, CostInv,
                    [MCSpriteNext]_MCSpriteVars
             PROVE  CostInv'
  OBVIOUS
<1>1. CASE OamDma /\ ObserveTransfer
  <2> DEFINE fetched == DmaCycle(dmc, FALSE).action = "SampleFetch"
  <2>1. /\ phase = "oam_dma" /\ SpriteWork(fetched)
        /\ phase' \in {"oam_apu", "finish"}
    BY <1>1, Zenon DEF OamDma
  <2>2. fetched => align_puts = 0
    BY <1>1, FetchNotOwed
  <2>3. /\ extra' = extra + (IF work_left' = work_left THEN 1 ELSE 0)
        /\ fetches' = fetches + (IF fetched THEN 1 ELSE 0)
    BY <1>1, <2>1 DEF ObserveTransfer
  <2>4. /\ work_left \in Nat /\ align_puts \in 0..1 /\ extra \in Nat /\ fetches \in Nat
        /\ extra = 2 * fetches - align_puts
    BY <2>1, SpriteDmaAssumption DEF SpriteInv, CostInv, InTransfer
  <2> HIDE DEF fetched
  <2>5. CASE fetched
    BY <2>1, <2>2, <2>3, <2>4, <2>5 DEF SpriteWork, CostInv
  <2>6. CASE ~fetched /\ align_puts > 0 /\ ~is_get
    BY <2>1, <2>3, <2>4, <2>6 DEF SpriteWork, CostInv
  <2>7. CASE ~fetched /\ ~(align_puts > 0 /\ ~is_get)
    BY <2>1, <2>3, <2>4, <2>7 DEF SpriteWork, CostInv
  <2> QED
    BY <2>5, <2>6, <2>7
<1>2. CASE StartSpriteDma /\ ObserveTransfer
  BY <1>2 DEF StartSpriteDma, ObserveTransfer, CostInv
<1>3. CASE (OamApu \/ FinishApu \/ FinishDma \/ Resume) /\ ObserveTransfer
  <2>1. /\ extra' = extra /\ fetches' = fetches /\ InTransfer
        /\ align_puts' = align_puts \/ ~InTransfer'
    BY <1>3 DEF OamApu, FinishApu, FinishDma, Resume, ObserveTransfer, InTransfer, oam
  <2> QED
    BY <2>1 DEF CostInv
<1>5. CASE UNCHANGED MCSpriteVars
  BY <1>5 DEF MCSpriteVars, spriteVars, vars, oam, CostInv, InTransfer
<1>4. CASE ( \/ TickApuStep \/ TickDmaIdle \/ TickDmaDummyRead \/ TickDmaSampleFetch
             \/ TickCpuOther \/ WriteChannel \/ WriteSpriteDma ) /\ ObserveTransfer
  <2>1. CpuCycle => phase = "cpu" /\ phase' = "apu"
    BY DEF CpuCycle
  <2>2. phase \in {"apu", "dma", "cpu"} /\ phase' \in {"apu", "dma", "cpu"}
    BY <1>4, <2>1 DEF TickApuStep, TickDmaIdle, TickDmaDummyRead, TickDmaSampleFetch,
       TickCpuOther, WriteChannel, WriteSpriteDma, ApuStep, DmaIdle, DmaDummyRead,
       DmaSampleFetch, CpuOther, WriteControl, WriteLength, WriteEnable, WriteDisable,
       CpuWrite
  <2>3. extra' \in Nat /\ fetches' \in Nat
    <3>1. phase # "oam_dma"
      BY <2>2
    <3>2. (extra' = 0 /\ fetches' = 0) \/ (extra' = extra /\ fetches' = fetches)
      BY <1>4, <3>1, Zenon DEF ObserveTransfer
    <3> QED
      BY <3>2 DEF CostInv
  <2> QED
    BY <2>2, <2>3 DEF CostInv, InTransfer
<1> QED
  BY <1>1, <1>2, <1>3, <1>4, <1>5 DEF MCSpriteNext, SpriteNext

(* What a sprite transfer takes beyond its work is two cycles for each     *)
(* fetch of the channel in it, the last put excepted: run_oam_dma_with_dmc *)
(* forgets no put and gives up none twice, whatever the length of a        *)
(* transfer and the channel's rates.                                       *)
THEOREM EveryFetchCostsTwo == MCSpriteSpec => []CostAccounted
<1>1. MCSpriteInit => SpriteInit /\ CostInv
  BY DEF MCSpriteInit, SpriteInit, Init, CostInv, InTransfer
<1>2. [MCSpriteNext]_MCSpriteVars => [SpriteNext]_spriteVars
  BY DEF MCSpriteNext, MCSpriteVars
<1>3. CostInv => CostAccounted
  BY DEF CostInv, CostAccounted, InTransfer
<1> QED
  BY <1>1, <1>2, <1>3, SpriteInvInit, SpriteInvStep, CostStep, PTL DEF MCSpriteSpec
=============================================================================
