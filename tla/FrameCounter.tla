---------------------------- MODULE FrameCounter ----------------------------
(***************************************************************************)
(* The frame sequencer of nes/src/apu/mod.rs: the divider that clocks the  *)
(* envelopes and length counters and raises the frame interrupt, as run by *)
(* Emulator::tick_one against a CPU that reads $4015 and writes $4017.     *)
(*                                                                         *)
(* One CPU cycle is "apu" (Apu::step) and then "cpu" (the program's access *)
(* or none).  Between a reboot's reset_state and the next cycle nothing    *)
(* else touches the sequencer.                                             *)
(***************************************************************************)
EXTENDS Integers, Sequences

CONSTANTS
  Steps4,  \* STEP_CYCLES_4: 7457, 14913, 22371, 29828, 29829, 29830
  Steps5   \* STEP_CYCLES_5: 7457, 14913, 22371, 29829, 37281, 37282

(* The steps increase, those that clock the units and follow one that does *)
(* are not on consecutive cycles, and none is reached on the cycle after   *)
(* the sequence restarts.                                                  *)
StepTable(s) ==
  /\ s \in [1..6 -> Nat \ {0, 1}]
  /\ \A i \in 1..5 : s[i] < s[i + 1]
  /\ s[1] + 1 < s[2] /\ s[2] + 1 < s[3]

ASSUME FrameCounterAssumption == StepTable(Steps4) /\ StepTable(Steps5)

Modes == {"Step4", "Step5"}

VARIABLES
  mode,           \* frame_counter_mode
  counter,        \* frame_counter
  frame_step,
  reset_delay,    \* frame_reset_delay
  new_value,      \* frame_new_value: the mode a write of $4017 asks for, or "none"
  block,          \* block_frame_tick
  irq_enabled,
  flag,           \* frame_counter_irq, what $4015 D6 reads
  line,           \* frame_irq_line, what the CPU's level detector sees
  clear_pending,  \* frame_irq_clear_pending
  is_get,         \* the phase of this CPU cycle
  phase,          \* which half of the cycle runs next
  clocked         \* the units this step clocked: "none", "quarter" or "half"

sequencer == <<mode, counter, frame_step, block>>
interrupt == <<irq_enabled, flag, line, clear_pending>>
pending   == <<reset_delay, new_value>>
vars      == <<sequencer, interrupt, pending, is_get, phase, clocked>>

TypeOK ==
  /\ mode \in Modes
  /\ counter \in Nat
  /\ frame_step \in 0..5
  /\ reset_delay \in 0..4
  /\ new_value \in Modes \cup {"none"}
  /\ block \in 0..2
  /\ irq_enabled \in BOOLEAN /\ flag \in BOOLEAN
  /\ line \in BOOLEAN /\ clear_pending \in BOOLEAN
  /\ is_get \in BOOLEAN
  /\ phase \in {"apu", "cpu"}
  /\ clocked \in {"none", "quarter", "half"}

Init ==
  /\ mode = "Step4" /\ counter = 0 /\ frame_step = 0
  /\ reset_delay = 0 /\ new_value = "none" /\ block = 0
  /\ irq_enabled = TRUE
  /\ flag = FALSE /\ line = FALSE /\ clear_pending = FALSE
  /\ is_get \in BOOLEAN
  /\ phase = "apu"
  /\ clocked = "none"

-----------------------------------------------------------------------------
(* Apu::step.                                                              *)

Steps(m) == IF m = "Step4" THEN Steps4 ELSE Steps5

(* Mutation: every get cycle acknowledges. *)
AcknowledgedUnasked == is_get

(* A status read's acknowledgement takes effect on the next get cycle. *)
Acknowledged == clear_pending /\ is_get

(* The delayed $4017 write takes effect on this cycle. *)
Applies == new_value # "none" /\ reset_delay <= 1

(* The sequencer reaches its next step on this cycle. *)
StepReached == ~Applies /\ counter + 1 >= Steps(mode)[frame_step + 1]

(* Mutation: raising the flag does not cancel a pending acknowledgement. *)
InterruptKeepingClear(reached) ==
  LET last == reached /\ mode = "Step4" /\ frame_step >= 3
      set  == last /\ (irq_enabled \/ frame_step < 5)
      drop == last /\ ~irq_enabled /\ frame_step = 5
      wire == set /\ irq_enabled /\ frame_step >= 4
  IN /\ flag' = (((flag /\ ~Acknowledged) \/ set) /\ ~drop)
     /\ line' = (((line /\ ~Acknowledged) \/ wire) /\ ~drop)
     /\ clear_pending' = (clear_pending /\ ~Acknowledged)
     /\ UNCHANGED irq_enabled

(* Mutation: the wire is driven only when the flag was down. *)
InterruptOnRise(reached) ==
  LET last == reached /\ mode = "Step4" /\ frame_step >= 3
      set  == last /\ (irq_enabled \/ frame_step < 5)
      drop == last /\ ~irq_enabled /\ frame_step = 5
      wire == set /\ irq_enabled /\ frame_step >= 4 /\ ~flag
  IN /\ flag' = (((flag /\ ~Acknowledged) \/ set) /\ ~drop)
     /\ line' = (((line /\ ~Acknowledged) \/ wire) /\ ~drop)
     /\ clear_pending' = (clear_pending /\ ~Acknowledged /\ ~last)
     /\ UNCHANGED irq_enabled

(* The interrupt after the acknowledgement and the step, if one is reached. *)
Interrupt(reached) ==
  LET last == reached /\ mode = "Step4" /\ frame_step >= 3
      set  == last /\ (irq_enabled \/ frame_step < 5)
      drop == last /\ ~irq_enabled /\ frame_step = 5
      wire == set /\ irq_enabled /\ frame_step >= 4
  IN /\ flag' = (((flag /\ ~Acknowledged) \/ set) /\ ~drop)
     /\ line' = (((line /\ ~Acknowledged) \/ wire) /\ ~drop)
     /\ clear_pending' = (clear_pending /\ ~Acknowledged /\ ~last)
     /\ UNCHANGED irq_enabled

(* What each step clocks: Q, H, Q, nothing, H, nothing. *)
Units == <<"quarter", "half", "quarter", "none", "half", "none">>

(* The units are clocked at most once in two cycles. *)
Clock(units, b) ==
  IF units # "none" /\ b = 0
  THEN clocked' = units /\ block' = 2
  ELSE clocked' = "none" /\ block' = b

Unblocked(b) == IF b > 0 THEN b - 1 ELSE b

(* Mutation: the write's own clock is not held back. *)
ApplyUnblocked ==
  LET now == new_value = "Step5"
  IN /\ mode' = new_value
     /\ counter' = 0
     /\ frame_step' = 0
     /\ clocked' = (IF now THEN "half" ELSE "none")
     /\ block' = Unblocked(IF now THEN 2 ELSE block)

(* The cycle that applies the write restarts the sequence; five-step mode  *)
(* clocks the units at once.                                               *)
ApplyFrameValue ==
  LET now == new_value = "Step5" /\ block = 0
  IN /\ mode' = new_value
     /\ counter' = 0
     /\ frame_step' = 0
     /\ clocked' = (IF now THEN "half" ELSE "none")
     /\ block' = Unblocked(IF now THEN 2 ELSE block)

(* Any other cycle advances the divider. *)
ClockFrameCounter ==
  /\ UNCHANGED mode
  /\ IF StepReached
     THEN /\ frame_step' = (frame_step + 1) % 6
          /\ counter' = IF frame_step = 5 THEN 0 ELSE counter + 1
          /\ Clock(Units[frame_step + 1], Unblocked(block))
     ELSE /\ counter' = counter + 1
          /\ Clock("none", Unblocked(block))
          /\ UNCHANGED frame_step

ApuStep ==
  /\ phase = "apu"
  /\ Interrupt(StepReached)
  /\ reset_delay' = IF new_value # "none" /\ reset_delay > 0
                    THEN reset_delay - 1 ELSE reset_delay
  /\ new_value' = IF Applies THEN "none" ELSE new_value
  /\ IF Applies THEN ApplyFrameValue ELSE ClockFrameCounter
  /\ phase' = "cpu"
  /\ UNCHANGED is_get

-----------------------------------------------------------------------------
(* The rest of the cycle.                                                  *)

(* The phase alternates, except that a DMC sample fetch forces the next    *)
(* cycle to a put and the end of a sprite DMA to a get                     *)
(* (Emulator::tick_one, run_oam_dma_with_dmc).                             *)
EndCycle(next_get) ==
  /\ phase = "cpu"
  /\ is_get' = next_get
  /\ phase' = "apu"
  /\ UNCHANGED <<sequencer, clocked>>

(* A cycle on which nobody touches $4015 and $4017. *)
NoAccess ==
  /\ \E g \in BOOLEAN : EndCycle(g)
  /\ UNCHANGED <<interrupt, pending>>

(* A read of $4015, by an instruction or by a DMA cycle that repeats it. *)
ReadStatus ==
  /\ \E g \in BOOLEAN : EndCycle(g)
  /\ clear_pending' = TRUE
  /\ UNCHANGED <<irq_enabled, flag, line, pending>>

WriteFrameCounter(m, inhibit) ==
  /\ EndCycle(~is_get)
  /\ irq_enabled' = ~inhibit
  /\ flag' = (flag /\ ~inhibit)
  /\ line' = (line /\ ~inhibit)
  /\ clear_pending' = (clear_pending /\ ~inhibit)
  /\ new_value' = m
  /\ reset_delay' = IF is_get THEN 4 ELSE 3

(* Each fetch of a sprite DMA applies a pending acknowledgement first, and *)
(* may itself be a read of $4015.                                          *)
SpriteFetch ==
  /\ phase = "cpu"
  /\ flag' = (flag /\ ~clear_pending)
  /\ line' = (line /\ ~clear_pending)
  /\ clear_pending' \in BOOLEAN
  /\ UNCHANGED <<sequencer, pending, irq_enabled, is_get, phase, clocked>>

(* Mutation: the mode and its delayed write are not restored. *)
ResetKeepingMode ==
  /\ phase = "apu"
  /\ counter' = 0 /\ frame_step' = 0 /\ block' = 0
  /\ irq_enabled' = TRUE /\ flag' = FALSE /\ clear_pending' = FALSE
  /\ is_get' \in BOOLEAN
  /\ clocked' = "none"
  /\ UNCHANGED <<line, phase, mode, pending>>

(* A reboot reuses the Apu: reset_state restores every field but the line. *)
ResetState ==
  /\ phase = "apu"
  /\ mode' = "Step4" /\ counter' = 0 /\ frame_step' = 0
  /\ reset_delay' = 0 /\ new_value' = "none" /\ block' = 0
  /\ irq_enabled' = TRUE /\ flag' = FALSE /\ clear_pending' = FALSE
  /\ is_get' \in BOOLEAN
  /\ clocked' = "none"
  /\ UNCHANGED <<line, phase>>

CpuStep ==
  \/ NoAccess
  \/ ReadStatus
  \/ \E m \in Modes, inhibit \in BOOLEAN : WriteFrameCounter(m, inhibit)
  \/ SpriteFetch

(* One power-on: the emulator between two reboots. *)
Next == ApuStep \/ CpuStep

Spec == Init /\ [][Next]_vars

(* The emulator's loop keeps running cycles. *)
Fairness == WF_vars(ApuStep) /\ WF_vars(CpuStep /\ phase' = "apu")

-----------------------------------------------------------------------------
(* The interrupt wire is only driven while the flag is up and interrupts   *)
(* are enabled: neither an inhibiting $4017 write, an acknowledgement nor  *)
(* the end of the sequence leaves one without the other.                   *)
LineNeedsFlag == line => flag /\ irq_enabled

(* The sequencer never runs past a step, whatever mode a $4017 write       *)
(* switches to and when: the counter stays below the step it waits for.    *)
NoStepOverrun == counter < Steps(mode)[frame_step + 1]

(* A step of the sequencer is never swallowed by block_frame_tick: that    *)
(* only holds back the clock of a five-step write.                         *)
NoStepSwallowed ==
  phase = "apu" /\ StepReached /\ Units[frame_step + 1] # "none" => block <= 1

(* The wire stays up until the program acknowledges it or inhibits it. *)
LineFallsOnlyWhenAnswered ==
  [][line /\ ~line' => clear_pending \/ WriteFrameCounter(new_value', TRUE)]_vars

(* Once the program lets the four-step sequence run with interrupts        *)
(* enabled, the wire is driven again and again.                            *)
FrameIrqRepeats ==
  <>[](mode = "Step4" /\ new_value = "none" /\ irq_enabled) => []<>line
=============================================================================
