------------------------- MODULE FrameCounterProofs -------------------------
(***************************************************************************)
(* The frame sequencer for every pair of step tables.  The interrupt       *)
(* flags, the divider and block_frame_tick are independent of each other,  *)
(* so the invariant is three invariants over the same steps.               *)
(***************************************************************************)
EXTENDS MCFrameCounter, TLAPS

(* A clock that still blocks the next one was given on this very cycle. *)
BlockIsFresh ==
  block = 2 => /\ frame_step \in {1, 2, 3, 5}
               /\ counter = Steps(mode)[frame_step]

(* The divider, whatever the interrupt does. *)
SequencerInv == TypeOK /\ NoStepOverrun /\ BlockIsFresh

IInv == SequencerInv /\ LineNeedsFlag

(* What the assumption says of the table in use. *)
LEMMA StepsTable == ASSUME NEW m \in Modes PROVE StepTable(Steps(m))
BY FrameCounterAssumption DEF Steps, Modes

LEMMA StepsPositive ==
  ASSUME NEW m \in Modes, NEW k \in 1..6
  PROVE  Steps(m)[k] \in Nat /\ Steps(m)[k] > 1
BY StepsTable DEF StepTable

LEMMA InvInit == Init => IInv
<1> SUFFICES ASSUME Init PROVE IInv
  OBVIOUS
<1>1. TypeOK /\ LineNeedsFlag /\ BlockIsFresh
  <2>1. LineNeedsFlag
    BY Zenon DEF Init, LineNeedsFlag
  <2>2. /\ irq_enabled \in BOOLEAN /\ flag \in BOOLEAN
        /\ line \in BOOLEAN /\ clear_pending \in BOOLEAN
    BY Zenon DEF Init
  <2>3. mode \in Modes /\ counter = 0 /\ frame_step = 0 /\ block = 0
        /\ reset_delay = 0 /\ new_value = "none" /\ is_get \in BOOLEAN
        /\ phase = "apu" /\ clocked = "none"
    BY Zenon DEF Init, Modes
  <2>4. QED
    BY <2>1, <2>2, <2>3 DEF TypeOK, BlockIsFresh
<1>2. NoStepOverrun
  BY StepsPositive DEF Init, Modes, NoStepOverrun
<1>3. QED
  BY <1>1, <1>2 DEF IInv, SequencerInv

(* The step of the Apu, one part of the invariant at a time. *)
LEMMA ApuStepType == ASSUME SequencerInv, ApuStep PROVE TypeOK'
<1>1. /\ flag' \in BOOLEAN /\ line' \in BOOLEAN /\ clear_pending' \in BOOLEAN
      /\ irq_enabled' \in BOOLEAN
  BY DEF SequencerInv, ApuStep, Interrupt, TypeOK
<1>2. /\ reset_delay' \in 0..4 /\ new_value' \in Modes \cup {"none"}
      /\ phase' \in {"apu", "cpu"} /\ is_get' \in BOOLEAN
  BY DEF SequencerInv, ApuStep, TypeOK
<1>3. /\ mode' \in Modes /\ counter' \in Nat /\ frame_step' \in 0..5
      /\ block' \in 0..2 /\ clocked' \in {"none", "quarter", "half"}
  <2>1. CASE Applies
    BY <2>1 DEF SequencerInv, ApuStep, TypeOK, Applies, ApplyFrameValue, Unblocked
  <2>2. CASE ~Applies /\ StepReached
    <3>1. Units[frame_step + 1] \in {"none", "quarter", "half"}
      BY DEF SequencerInv, TypeOK, Units
    <3>2. (frame_step + 1) % 6 \in 0..5
      BY DEF SequencerInv, TypeOK
    <3>3. QED
      BY <2>2, <3>1, <3>2
         DEF SequencerInv, ApuStep, TypeOK, ClockFrameCounter, Clock, Unblocked
  <2>3. CASE ~Applies /\ ~StepReached
    BY <2>3 DEF SequencerInv, ApuStep, TypeOK, ClockFrameCounter, Clock, Unblocked
  <2>4. QED
    BY <2>1, <2>2, <2>3
<1>4. QED
  BY <1>1, <1>2, <1>3 DEF TypeOK

LEMMA ApuStepLine == ASSUME IInv, ApuStep PROVE LineNeedsFlag'
BY DEF IInv, SequencerInv, ApuStep, Interrupt, TypeOK, LineNeedsFlag

LEMMA ApuStepCounter == ASSUME SequencerInv, ApuStep PROVE NoStepOverrun' /\ BlockIsFresh'
<1>0. mode \in Modes /\ frame_step \in 0..5 /\ counter \in Nat /\ block \in 0..2
  BY DEF SequencerInv, TypeOK
<1>1. CASE Applies
  <2>1. new_value \in Modes
    BY <1>1 DEF SequencerInv, TypeOK, Applies
  <2>2. Steps(new_value)[1] > 0
    BY <2>1, StepsPositive
  <2>3. block' # 2 /\ mode' = new_value /\ counter' = 0 /\ frame_step' = 0
    BY <1>0, <1>1 DEF ApuStep, ApplyFrameValue, Unblocked
  <2>4. QED
    BY <2>2, <2>3 DEF NoStepOverrun, BlockIsFresh
<1>2. CASE ~Applies /\ StepReached
  <2>1. /\ mode' = mode
        /\ frame_step' = (frame_step + 1) % 6
        /\ counter' = IF frame_step = 5 THEN 0 ELSE counter + 1
        /\ Clock(Units[frame_step + 1], Unblocked(block))
    BY <1>2 DEF ApuStep, ClockFrameCounter
  <2>2. counter + 1 = Steps(mode)[frame_step + 1]
    <3>1. Steps(mode)[frame_step + 1] \in Nat
      BY <1>0, StepsPositive
    <3>2. counter < Steps(mode)[frame_step + 1]
      BY DEF SequencerInv, NoStepOverrun
    <3>3. QED
      BY <1>0, <1>2, <3>1, <3>2 DEF StepReached
  <2>3. CASE frame_step = 5
    <3>1. frame_step' = 0 /\ counter' = 0 /\ block' # 2
      BY <1>0, <2>1, <2>3 DEF Units, Clock, Unblocked
    <3>2. QED
      BY <1>0, <2>1, <3>1, StepsPositive DEF NoStepOverrun, BlockIsFresh
  <2>4. CASE frame_step < 5
    <3>1. frame_step' = frame_step + 1 /\ counter' = Steps(mode)[frame_step']
      BY <1>0, <2>1, <2>2, <2>4
    <3>2. Steps(mode)[frame_step + 1] < Steps(mode)[frame_step + 2]
      BY <1>0, <2>4, StepsTable DEF StepTable
    <3>3. block' = 2 => frame_step' \in {1, 2, 3, 5}
      BY <1>0, <2>1, <2>4, <3>1 DEF Units, Clock, Unblocked
    <3>4. QED
      BY <1>0, <2>1, <3>1, <3>2, <3>3 DEF NoStepOverrun, BlockIsFresh
  <2>5. QED
    BY <1>0, <2>3, <2>4
<1>3. CASE ~Applies /\ ~StepReached
  <2>1. /\ mode' = mode /\ frame_step' = frame_step /\ counter' = counter + 1
        /\ block' # 2
    BY <1>0, <1>3 DEF ApuStep, ClockFrameCounter, Clock, Unblocked
  <2>2. counter + 1 < Steps(mode)[frame_step + 1]
    <3>1. Steps(mode)[frame_step + 1] \in Nat
      BY <1>0, StepsPositive
    <3>2. QED
      BY <1>0, <1>3, <3>1 DEF StepReached
  <2>3. QED
    BY <2>1, <2>2 DEF NoStepOverrun, BlockIsFresh
<1>4. QED
  BY <1>1, <1>2, <1>3

LEMMA CpuStepSequencer == ASSUME SequencerInv, CpuStep PROVE SequencerInv'
<1>1. TypeOK'
  <2>1. CASE NoAccess
    BY <2>1 DEF SequencerInv, TypeOK, NoAccess, EndCycle, interrupt, pending, sequencer
  <2>2. CASE ReadStatus
    BY <2>2 DEF SequencerInv, TypeOK, ReadStatus, EndCycle, pending, sequencer
  <2>3. ASSUME NEW m \in Modes, NEW inhibit \in BOOLEAN,
               WriteFrameCounter(m, inhibit)
        PROVE  TypeOK'
    BY <2>3 DEF SequencerInv, TypeOK, WriteFrameCounter, EndCycle, sequencer
  <2>4. CASE SpriteFetch
    BY <2>4 DEF SequencerInv, TypeOK, SpriteFetch, pending, sequencer
  <2>5. QED
    BY <2>1, <2>2, <2>3, <2>4 DEF CpuStep
<1>2. UNCHANGED sequencer
  BY DEF CpuStep, NoAccess, ReadStatus, WriteFrameCounter, SpriteFetch, EndCycle
<1>3. NoStepOverrun' /\ BlockIsFresh'
  BY <1>2 DEF SequencerInv, sequencer, NoStepOverrun, BlockIsFresh
<1>4. QED
  BY <1>1, <1>3 DEF SequencerInv

LEMMA SequencerInvStep == SequencerInv /\ [Next]_vars => SequencerInv'
<1> SUFFICES ASSUME SequencerInv, [Next]_vars PROVE SequencerInv'
  OBVIOUS
<1>1. CASE ApuStep
  BY <1>1, ApuStepType, ApuStepCounter DEF SequencerInv
<1>2. CASE CpuStep
  BY <1>2, CpuStepSequencer
<1>3. CASE UNCHANGED vars
  BY <1>3 DEF vars, sequencer, interrupt, pending, SequencerInv, TypeOK, NoStepOverrun,
     BlockIsFresh
<1>4. QED
  BY <1>1, <1>2, <1>3 DEF Next

LEMMA CpuStepLine == ASSUME IInv, CpuStep PROVE LineNeedsFlag'
<1> USE DEF IInv, SequencerInv, TypeOK, LineNeedsFlag
<1>1. CASE NoAccess \/ ReadStatus
  BY <1>1 DEF NoAccess, ReadStatus, interrupt
<1>2. ASSUME NEW m \in Modes, NEW inhibit \in BOOLEAN,
             WriteFrameCounter(m, inhibit)
      PROVE  LineNeedsFlag'
  BY <1>2 DEF WriteFrameCounter
<1>3. CASE SpriteFetch
  BY <1>3 DEF SpriteFetch
<1>4. QED
  BY <1>1, <1>2, <1>3 DEF CpuStep

LEMMA InvStep == IInv /\ [Next]_vars => IInv'
<1> SUFFICES ASSUME IInv, [Next]_vars PROVE IInv'
  OBVIOUS
<1>1. SequencerInv'
  BY SequencerInvStep DEF IInv
<1>2. CASE ApuStep
  BY <1>1, <1>2, ApuStepLine DEF IInv
<1>3. CASE CpuStep
  BY <1>1, <1>3, CpuStepLine DEF IInv
<1>4. CASE UNCHANGED vars
  BY <1>1, <1>4 DEF vars, interrupt, IInv, LineNeedsFlag
<1>5. QED
  BY <1>2, <1>3, <1>4 DEF Next

(* The sequencer's inductive invariant: types, flag and wire, the counter  *)
(* below the step it waits for, and a block that is only set near a clock. *)
THEOREM Invariance == Spec => []IInv
BY InvInit, InvStep, PTL DEF Spec

(* Every variable of the sequencer keeps its type. *)
THEOREM TypeCorrect == Spec => []TypeOK
BY Invariance, PTL DEF IInv, SequencerInv

(* The wire is only driven with the flag up and interrupts enabled. *)
THEOREM LinesNeedFlags == Spec => []LineNeedsFlag
BY Invariance, PTL DEF IInv, SequencerInv

(* The counter never passes the step it waits for, so it never wraps. *)
THEOREM NoStepsOverrun == Spec => []NoStepOverrun
BY Invariance, PTL DEF IInv, SequencerInv

(* No step of the sequencer loses its clock to block_frame_tick. *)
THEOREM NoStepsSwallowed == Spec => []NoStepSwallowed
<1>1. IInv => NoStepSwallowed
  <2> SUFFICES ASSUME IInv, StepReached, block = 2, Units[frame_step + 1] # "none"
               PROVE  FALSE
    BY DEF IInv, SequencerInv, TypeOK, NoStepSwallowed
  <2>1. frame_step \in {1, 2} /\ counter = Steps(mode)[frame_step]
    BY DEF IInv, SequencerInv, BlockIsFresh, Units
  <2>2. StepTable(Steps(mode))
    BY StepsTable DEF IInv, SequencerInv, TypeOK
  <2>3. QED
    BY <2>1, <2>2 DEF StepTable, StepReached
<1>2. QED
  BY <1>1, Invariance, PTL

(* The wire only falls to an acknowledgement or an inhibiting write. *)
THEOREM LinesFallOnlyWhenAnswered == Spec => LineFallsOnlyWhenAnswered
<1> DEFINE Answered ==
      line /\ ~line' => clear_pending \/ WriteFrameCounter(new_value', TRUE)
<1>1. IInv /\ [Next]_vars => [Answered]_vars
  <2> SUFFICES ASSUME IInv, Next PROVE Answered
    OBVIOUS
  <2>1. CASE ApuStep
    BY <2>1 DEF IInv, SequencerInv, TypeOK, LineNeedsFlag, ApuStep, Interrupt, Acknowledged
  <2>2. CASE NoAccess \/ ReadStatus \/ SpriteFetch
    BY <2>2 DEF IInv, SequencerInv, TypeOK, NoAccess, ReadStatus, SpriteFetch, interrupt
  <2>3. ASSUME NEW m \in Modes, NEW inhibit \in BOOLEAN,
               WriteFrameCounter(m, inhibit)
        PROVE  Answered
    <3>1. CASE inhibit
      BY <2>3, <3>1 DEF WriteFrameCounter
    <3>2. CASE ~inhibit
      BY <2>3, <3>2 DEF WriteFrameCounter, IInv, TypeOK
    <3>3. QED
      BY <3>1, <3>2
  <2>4. QED
    BY <2>1, <2>2, <2>3 DEF Next, CpuStep
<1>2. QED
  BY <1>1, Invariance, PTL DEF Spec, LineFallsOnlyWhenAnswered

-----------------------------------------------------------------------------
(* Across reboots.  reset_state restores every field but the wire, so that *)
(* only half of LineNeedsFlag survives one: the wire is still up with      *)
(* interrupts enabled, but the flag is down.                               *)

LineNeedsEnable == line => irq_enabled

(* The units have just been clocked: by a step, which blocks the next      *)
(* cycle, or by a five-step write, from which every step is further away.  *)
ClockIsBlocked ==
  since = 0 => block = 2 \/ (block = 1 /\ counter = 0 /\ frame_step = 0)

RebootInv ==
  /\ SequencerInv
  /\ LineNeedsEnable
  /\ seen \in BOOLEAN
  /\ OnlyReadFlagCleared
  /\ since \in 0..3
  /\ ClockIsBlocked

LEMMA RebootInvInit == MCInit => RebootInv
<1> SUFFICES ASSUME MCInit PROVE RebootInv
  OBVIOUS
<1>1. SequencerInv
  BY InvInit DEF MCInit, IInv
<1>2. LineNeedsEnable /\ seen \in BOOLEAN /\ OnlyReadFlagCleared
  BY Zenon DEF MCInit, Init, LineNeedsEnable, OnlyReadFlagCleared
<1>3. since = 3
  BY DEF MCInit
<1>4. QED
  BY <1>1, <1>2, <1>3 DEF RebootInv, ClockIsBlocked

LEMMA ResetStateSequencer == ASSUME SequencerInv, ResetState PROVE SequencerInv'
<1>1. /\ mode' = "Step4" /\ counter' = 0 /\ frame_step' = 0
      /\ reset_delay' = 0 /\ new_value' = "none" /\ block' = 0
      /\ is_get' \in BOOLEAN /\ phase' = phase /\ clocked' = "none"
  BY Zenon DEF ResetState
<1>2. /\ irq_enabled' \in BOOLEAN /\ flag' \in BOOLEAN
      /\ line' \in BOOLEAN /\ clear_pending' \in BOOLEAN
  BY Zenon DEF ResetState, SequencerInv, TypeOK
<1>3. TypeOK'
  BY <1>1, <1>2 DEF SequencerInv, TypeOK, Modes
<1>4. Steps("Step4")[1] > 0
  BY StepsPositive DEF Modes
<1>5. NoStepOverrun' /\ BlockIsFresh'
  BY <1>1, <1>4 DEF NoStepOverrun, BlockIsFresh
<1>6. QED
  BY <1>3, <1>5 DEF SequencerInv

(* The wire and the acknowledgement over the steps of one power-on. *)
LineAnswered == line /\ ~line' => clear_pending \/ WriteFrameCounter(new_value', TRUE)

PendingOnlyByRead ==
  clear_pending' /\ flag' => (clear_pending /\ flag) \/ ReadStatus \/ SpriteFetch

LEMMA NextInterrupt ==
  ASSUME RebootInv, Next
  PROVE  LineNeedsEnable' /\ LineAnswered /\ PendingOnlyByRead
<1> USE DEF RebootInv, SequencerInv, TypeOK, LineNeedsEnable, LineAnswered, PendingOnlyByRead
<1>1. CASE ApuStep
  BY <1>1 DEF ApuStep, Interrupt, Acknowledged
<1>2. CASE NoAccess
  BY <1>2 DEF NoAccess, interrupt
<1>3. ASSUME NEW m \in Modes, NEW inhibit \in BOOLEAN, WriteFrameCounter(m, inhibit)
      PROVE  LineNeedsEnable' /\ LineAnswered /\ PendingOnlyByRead
  <2>1. LineNeedsEnable' /\ PendingOnlyByRead
    BY <1>3 DEF WriteFrameCounter
  <2>2. CASE inhibit
    BY <1>3, <2>1, <2>2 DEF WriteFrameCounter
  <2>3. CASE ~inhibit
    BY <1>3, <2>1, <2>3 DEF WriteFrameCounter
  <2>4. QED
    BY <2>2, <2>3
<1>4. CASE ReadStatus
  BY <1>4 DEF ReadStatus
<1>5. CASE SpriteFetch
  BY <1>5 DEF SpriteFetch
<1>6. QED
  BY <1>1, <1>2, <1>3, <1>4, <1>5 DEF Next, CpuStep

LEMMA ApuStepClock ==
  ASSUME RebootInv, ApuStep
  PROVE  /\ clocked' # "none" => since >= 1
         /\ clocked' # "none" =>
              block' = 2 \/ (block' = 1 /\ counter' = 0 /\ frame_step' = 0)
<1> USE DEF RebootInv
<1>0. /\ mode \in Modes /\ frame_step \in 0..5 /\ counter \in Nat /\ block \in 0..2
      /\ since \in 0..3
  BY DEF SequencerInv, TypeOK
<1>1. CASE Applies
  BY <1>0, <1>1 DEF ApuStep, ApplyFrameValue, Unblocked, ClockIsBlocked
<1>2. CASE ~Applies
  <2>1. clocked' # "none" => StepReached /\ Unblocked(block) = 0 /\ block' = 2
    BY <1>2 DEF ApuStep, ClockFrameCounter, Clock
  <2>2. Steps(mode)[1] \in Nat /\ Steps(mode)[1] > 1
    BY <1>0, StepsPositive
  <2>3. ASSUME StepReached, Unblocked(block) = 0 PROVE since # 0
    BY <1>0, <2>2, <2>3 DEF StepReached, Unblocked, ClockIsBlocked
  <2>4. QED
    BY <1>0, <2>1, <2>3
<1>3. QED
  BY <1>1, <1>2

LEMMA RebootInvStep == RebootInv /\ [MCNext]_MCvars => RebootInv'
<1> SUFFICES ASSUME RebootInv, [MCNext]_MCvars PROVE RebootInv'
  OBVIOUS
<1>1. CASE UNCHANGED MCvars
  BY <1>1 DEF MCvars, vars, sequencer, interrupt, pending, RebootInv, SequencerInv, TypeOK,
     NoStepOverrun, BlockIsFresh, LineNeedsEnable, OnlyReadFlagCleared, ClockIsBlocked
<1>2. CASE Reboot
  <2>1. SequencerInv'
    BY <1>2, ResetStateSequencer DEF RebootInv, Reboot
  <2>2. LineNeedsEnable' /\ seen' \in BOOLEAN /\ OnlyReadFlagCleared'
    BY <1>2, Zenon DEF Reboot, ResetState, LineNeedsEnable, OnlyReadFlagCleared
  <2>3. since' = 3
    BY <1>2 DEF Reboot
  <2>4. QED
    BY <2>1, <2>2, <2>3 DEF RebootInv, ClockIsBlocked
<1>3. CASE Next /\ Observe
  <2>1. SequencerInv'
    BY <1>3, SequencerInvStep DEF RebootInv
  <2>2. LineNeedsEnable'
    BY <1>3, NextInterrupt
  <2>3. seen' \in BOOLEAN /\ OnlyReadFlagCleared'
    <3>1. flag' \in BOOLEAN /\ seen \in BOOLEAN
      BY <2>1 DEF SequencerInv, TypeOK, RebootInv
    <3>2. seen' = IF clear_pending' /\ phase = "cpu" /\ (ReadStatus \/ SpriteFetch)
                  THEN flag' ELSE seen
      BY <1>3 DEF Observe
    <3>3. PendingOnlyByRead /\ (ReadStatus \/ SpriteFetch => phase = "cpu")
      BY <1>3, NextInterrupt DEF ReadStatus, SpriteFetch, EndCycle
    <3>4. CASE clear_pending' /\ phase = "cpu" /\ (ReadStatus \/ SpriteFetch)
      <4>1. seen' = flag'
        BY <3>2, <3>4
      <4>2. QED
        BY <3>1, <4>1, Zenon DEF OnlyReadFlagCleared
    <3>5. CASE ~(clear_pending' /\ phase = "cpu" /\ (ReadStatus \/ SpriteFetch))
      <4>1. seen' = seen
        BY <3>2, <3>5
      <4>2. QED
        BY <3>1, <3>3, <3>5, <4>1, Zenon DEF OnlyReadFlagCleared, PendingOnlyByRead, RebootInv
    <3>6. QED
      BY <3>4, <3>5
  <2>4. since' \in 0..3 /\ ClockIsBlocked'
    <3>1. since' = CASE phase = "cpu" -> since
                     [] phase = "apu" /\ clocked' # "none" -> 0
                     [] OTHER -> IF since < 3 THEN since + 1 ELSE 3
      BY <1>3 DEF Observe
    <3>2. CASE CpuStep
      <4>1. phase = "cpu" /\ UNCHANGED sequencer
        BY <3>2 DEF CpuStep, NoAccess, ReadStatus, WriteFrameCounter, SpriteFetch, EndCycle
      <4>2. QED
        BY <3>1, <4>1 DEF RebootInv, ClockIsBlocked, sequencer
    <3>3. CASE ApuStep
      <4>1. phase = "apu"
        BY <3>3 DEF ApuStep
      <4>2. clocked' # "none" => ClockIsBlocked'
        BY <3>3, ApuStepClock DEF ClockIsBlocked
      <4>3. QED
        BY <3>1, <4>1, <4>2 DEF RebootInv, ClockIsBlocked
    <3>4. QED
      BY <1>3, <3>2, <3>3 DEF Next
  <2>5. QED
    BY <2>1, <2>2, <2>3, <2>4 DEF RebootInv
<1>4. QED
  BY <1>1, <1>2, <1>3 DEF MCNext

(* What an acknowledgement will clear, some read of $4015 has returned:    *)
(* also after the reboots that leave the wire up.                          *)
THEOREM ReadsAcknowledge == MCSpec => []OnlyReadFlagCleared
<1>1. RebootInv => OnlyReadFlagCleared
  BY DEF RebootInv
<1>2. QED
  BY <1>1, RebootInvInit, RebootInvStep, PTL DEF MCSpec

(* The units are clocked at most once in two cycles, however a $4017 write *)
(* falls on the sequencer's own steps.                                     *)
THEOREM UnitsClockedApart == MCSpec => ClocksApart
<1>1. RebootInv /\ [MCNext]_MCvars =>
        [phase = "apu" /\ clocked' # "none" => since >= 1]_MCvars
  <2> SUFFICES ASSUME RebootInv, MCNext, phase = "apu", clocked' # "none"
               PROVE  since >= 1
    OBVIOUS
  <2>1. ~Reboot
    BY DEF Reboot, ResetState
  <2>2. ApuStep
    BY <2>1 DEF MCNext, Next, CpuStep, NoAccess, ReadStatus, WriteFrameCounter, SpriteFetch,
       EndCycle
  <2>3. QED
    BY <2>2, ApuStepClock
<1>2. QED
  BY <1>1, RebootInvInit, RebootInvStep, PTL DEF MCSpec, ClocksApart

(* The wire falls only when the program answers it: a reboot leaves it up. *)
THEOREM LinesFallOnlyWhenAnsweredAcrossReboots == MCSpec => LineFallsOnlyWhenAnswered
<1>1. RebootInv /\ [MCNext]_MCvars => [LineAnswered]_vars
  <2>1. CASE UNCHANGED MCvars
    BY <2>1 DEF MCvars
  <2>2. CASE Reboot
    BY <2>2 DEF Reboot, ResetState, LineAnswered
  <2>3. ASSUME RebootInv, Next PROVE LineAnswered
    BY <2>3, NextInterrupt
  <2>4. QED
    BY <2>1, <2>2, <2>3 DEF MCNext
<1>2. QED
  BY <1>1, RebootInvInit, RebootInvStep, PTL DEF MCSpec, LineFallsOnlyWhenAnswered, LineAnswered

-----------------------------------------------------------------------------
(* A game before its first write of $4017: the divider counts the cycles   *)
(* of the game, and its step is the last one passed.                       *)

Fresh == age < Steps4[6]

GameInv ==
  /\ age \in 0..Steps4[6]
  /\ Fresh => /\ mode = "Step4" /\ new_value = "none" /\ irq_enabled /\ counter = age
              /\ frame_step # 0 => Steps4[frame_step] <= age
              /\ flag => age >= Steps4[4]

AsAtPowerOn ==
  /\ \A i \in 1..6 : age' = Steps4[i] => clocked' = Units[i]
  /\ clocked' # "none" => \E i \in 1..6 : age' = Steps4[i]
  /\ flag' => age' >= Steps4[4]
  /\ age' \in {Steps4[5], Steps4[6]} => line'

LEMMA Table4 ==
  /\ \A i \in 1..6 : Steps4[i] \in Nat /\ Steps4[i] > 1
  /\ \A i, j \in 1..6 : i < j => Steps4[i] < Steps4[j]
  /\ Steps4[1] + 1 < Steps4[2] /\ Steps4[2] + 1 < Steps4[3]
BY FrameCounterAssumption DEF StepTable

LEMMA GameInvInit == MCInit => GameInv
<1> SUFFICES ASSUME MCInit PROVE GameInv
  OBVIOUS
<1>1. age = 0 /\ mode = "Step4" /\ new_value = "none" /\ counter = 0 /\ frame_step = 0
  BY DEF MCInit, Init
<1>2. irq_enabled /\ ~flag
  BY Zenon DEF MCInit, Init
<1>3. Steps4[6] \in Nat
  BY Table4
<1>4. QED
  BY <1>1, <1>2, <1>3 DEF GameInv

(* The next step is reached on its cycle and no other, and is clocked.     *)
LEMMA ApuStepReaches ==
  ASSUME SequencerInv, GameInv, Fresh, ApuStep, age' = age + 1
  PROVE  /\ StepReached <=> age' = Steps4[frame_step + 1]
         /\ clocked' = IF StepReached THEN Units[frame_step + 1] ELSE "none"
         /\ mode' = "Step4" /\ new_value' = "none"
         /\ age' < Steps4[6] => counter' = age'
         /\ age' < Steps4[6] /\ frame_step' # 0 => Steps4[frame_step'] <= age'
         /\ ~StepReached => frame_step' = frame_step
<1>1. /\ frame_step \in 0..5 /\ counter \in Nat /\ block \in 0..2 /\ counter = age
      /\ mode = "Step4" /\ new_value = "none"
      /\ frame_step # 0 => Steps4[frame_step] <= age
  BY DEF SequencerInv, TypeOK, GameInv
<1>2. ~Applies /\ Steps(mode) = Steps4 /\ ClockFrameCounter /\ new_value' = "none"
  BY <1>1 DEF ApuStep, Applies, Steps
<1>3. /\ counter < Steps4[frame_step + 1] /\ Steps4[frame_step + 1] \in Nat
      /\ block = 2 => frame_step \in {1, 2, 3, 5} /\ counter = Steps4[frame_step]
  BY <1>1, <1>2, Table4 DEF SequencerInv, NoStepOverrun, BlockIsFresh
<1>4. StepReached <=> age' = Steps4[frame_step + 1]
  BY <1>1, <1>2, <1>3 DEF StepReached
<1>5. CASE StepReached
  <2>1. /\ frame_step' = (frame_step + 1) % 6
        /\ counter' = IF frame_step = 5 THEN 0 ELSE counter + 1
        /\ Clock(Units[frame_step + 1], Unblocked(block)) /\ mode' = mode
    BY <1>2, <1>5 DEF ClockFrameCounter
  <2>2. Units[frame_step + 1] # "none" => Unblocked(block) = 0
    <3>1. ASSUME block = 2 PROVE Units[frame_step + 1] = "none"
      <4>1. frame_step \notin {1, 2}
        BY <1>1, <1>3, <1>4, <1>5, <3>1, Table4
      <4>2. frame_step \in {3, 5}
        BY <1>3, <3>1, <4>1
      <4>3. QED
        BY <4>2 DEF Units
    <3>2. QED
      BY <1>1, <3>1 DEF Unblocked
  <2>3. clocked' = Units[frame_step + 1]
    BY <2>1, <2>2 DEF Clock
  <2>4. age' < Steps4[6] => /\ frame_step < 5 /\ frame_step' = frame_step + 1
                            /\ counter' = age'
    BY <1>1, <1>4, <1>5, <2>1
  <2>5. QED
    BY <1>1, <1>2, <1>4, <1>5, <2>1, <2>3, <2>4, Table4
<1>6. CASE ~StepReached
  <2>1. counter' = counter + 1 /\ frame_step' = frame_step /\ clocked' = "none" /\ mode' = mode
    BY <1>2, <1>6 DEF ClockFrameCounter, Clock
  <2>2. frame_step # 0 => Steps4[frame_step] <= age'
    BY <1>1, Table4
  <2>3. QED
    BY <1>1, <1>2, <1>4, <1>6, <2>1, <2>2
<1>7. QED
  BY <1>5, <1>6

LEMMA ApuStepGame ==
  ASSUME SequencerInv, GameInv, Fresh, ApuStep, age' = age + 1
  PROVE  AsAtPowerOn /\ GameInv'
<1>1. /\ frame_step \in 0..5 /\ age \in 0..Steps4[6] /\ age < Steps4[6] /\ Steps4[6] \in Nat
      /\ mode = "Step4" /\ irq_enabled /\ (frame_step # 0 => Steps4[frame_step] <= age)
      /\ flag => age >= Steps4[4]
  BY Table4 DEF SequencerInv, TypeOK, GameInv, Fresh
<1>2. /\ StepReached <=> age' = Steps4[frame_step + 1]
      /\ clocked' = IF StepReached THEN Units[frame_step + 1] ELSE "none"
  BY ApuStepReaches, Zenon
<1>3. ASSUME NEW i \in 1..6, age' = Steps4[i]
      PROVE  i = frame_step + 1 /\ StepReached
  <2>1. Steps4[i] <= Steps4[frame_step + 1]
    BY <1>1, <1>3, Table4 DEF SequencerInv, NoStepOverrun, Steps, TypeOK, GameInv, Fresh
  <2>2. frame_step # 0 => Steps4[frame_step] < Steps4[i]
    BY <1>1, <1>3, Table4
  <2>3. i = frame_step + 1
    <3>1. ~(i > frame_step + 1)
      BY <1>1, <2>1, Table4
    <3>2. ~(i < frame_step + 1)
      <4>1. SUFFICES ASSUME i < frame_step + 1 PROVE FALSE
        OBVIOUS
      <4>2. frame_step # 0 /\ i <= frame_step /\ frame_step \in 1..6
        BY <1>1, <4>1
      <4>3. Steps4[i] <= Steps4[frame_step]
        BY <4>2, Table4
      <4>4. QED
        BY <2>2, <4>2, <4>3, Table4
    <3>3. QED
      BY <1>1, <3>1, <3>2
  <2>4. QED
    BY <1>2, <1>3, <2>3
<1>4. /\ flag' => flag \/ (StepReached /\ frame_step >= 3)
      /\ StepReached /\ frame_step >= 4 => line'
      /\ irq_enabled' = irq_enabled
  <2>. DEFINE last == StepReached /\ mode = "Step4" /\ frame_step >= 3
              set  == last /\ (irq_enabled \/ frame_step < 5)
              drop == last /\ ~irq_enabled /\ frame_step = 5
              wire == set /\ irq_enabled /\ frame_step >= 4
  <2>1. /\ flag' = (((flag /\ ~Acknowledged) \/ set) /\ ~drop)
        /\ line' = (((line /\ ~Acknowledged) \/ wire) /\ ~drop)
        /\ irq_enabled' = irq_enabled
    BY Zenon DEF ApuStep, Interrupt
  <2>2. frame_step >= 4 => frame_step >= 3
    BY <1>1
  <2>3. StepReached /\ frame_step >= 4 => wire /\ ~drop
    BY <1>1, <2>2, Zenon
  <2>4. StepReached /\ frame_step >= 4 => line'
    BY <2>1, <2>3, Zenon
  <2>5. QED
    BY <2>1, <2>4, Zenon
<1>5. flag' => age' >= Steps4[4]
  <2>1. CASE flag
    BY <1>1, <2>1, Table4
  <2>2. CASE StepReached /\ frame_step >= 3
    BY <1>1, <1>2, <2>2, Table4
  <2>3. QED
    BY <1>4, <2>1, <2>2
<1>6. age' \in {Steps4[5], Steps4[6]} => line'
  <2>1. ASSUME age' = Steps4[5] PROVE line'
    <3>1. StepReached /\ frame_step >= 4
      BY <1>1, <1>3, <2>1
    <3>2. QED
      BY <1>4, <3>1, Zenon
  <2>2. ASSUME age' = Steps4[6] PROVE line'
    <3>1. StepReached /\ frame_step >= 4
      BY <1>1, <1>3, <2>2
    <3>2. QED
      BY <1>4, <3>1, Zenon
  <2>3. QED
    BY <2>1, <2>2
<1>7. /\ \A i \in 1..6 : age' = Steps4[i] => clocked' = Units[i]
      /\ clocked' # "none" => \E i \in 1..6 : age' = Steps4[i]
  <2>1. frame_step + 1 \in 1..6
    BY <1>1
  <2>2. QED
    BY <1>2, <1>3, <2>1
<1>8. GameInv'
  <2>1. age' \in 0..Steps4[6]
    BY <1>1
  <2>2. /\ mode' = "Step4" /\ new_value' = "none" /\ (age' < Steps4[6] => counter' = age')
        /\ age' < Steps4[6] /\ frame_step' # 0 => Steps4[frame_step'] <= age'
    BY ApuStepReaches, Zenon
  <2>3. irq_enabled'
    BY <1>1, <1>4, Zenon
  <2>4. QED
    BY <1>5, <2>1, <2>2, <2>3 DEF GameInv, Fresh
<1>9. QED
  BY <1>5, <1>6, <1>7, <1>8 DEF AsAtPowerOn

Writes == \E m \in Modes, inhibit \in BOOLEAN : WriteFrameCounter(m, inhibit)

LEMMA GameInvStep == RebootInv /\ GameInv /\ [MCNext]_MCvars => GameInv'
<1> SUFFICES ASSUME RebootInv, GameInv, [MCNext]_MCvars PROVE GameInv'
  OBVIOUS
<1>0. SequencerInv /\ Steps4[6] \in Nat /\ Steps4[6] > 1
  BY Table4 DEF RebootInv
<1>1. CASE UNCHANGED MCvars
  BY <1>1 DEF MCvars, vars, sequencer, interrupt, pending, GameInv, Fresh
<1>2. CASE Reboot
  <2>1. /\ age' = 0 /\ mode' = "Step4" /\ new_value' = "none" /\ counter' = 0
        /\ frame_step' = 0
    BY <1>2 DEF Reboot, ResetState
  <2>2. irq_enabled' /\ ~flag'
    BY <1>2, Zenon DEF Reboot, ResetState
  <2>3. QED
    BY <1>0, <2>1, <2>2 DEF GameInv, Fresh
<1>3. CASE Next /\ Observe
  <2>0. ~(ApuStep /\ Writes)
    BY DEF ApuStep, Writes, WriteFrameCounter, EndCycle
  <2>1. age' = CASE Writes -> Steps4[6]
                 [] ApuStep /\ age < Steps4[6] -> age + 1
                 [] OTHER -> age
    BY <1>3, Zenon DEF Observe, Writes
  <2>2. CASE ApuStep
    <3>1. ~Writes
      BY <2>0, <2>2
    <3>2. CASE Fresh
      BY <1>0, <2>1, <2>2, <3>1, <3>2, ApuStepGame DEF Fresh
    <3>3. CASE ~Fresh
      BY <2>1, <3>1, <3>3 DEF Fresh, GameInv
    <3>4. QED
      BY <3>2, <3>3
  <2>3. CASE NoAccess \/ ReadStatus \/ SpriteFetch
    <3>1. CASE Writes
      BY <1>0, <2>0, <2>1, <3>1 DEF GameInv, Fresh
    <3>2. CASE ~Writes
      <4>1. age' = age
        BY <2>1, <2>3, <3>2 DEF ApuStep, NoAccess, ReadStatus, SpriteFetch, EndCycle
      <4>2. UNCHANGED <<mode, counter, frame_step, new_value, irq_enabled>>
        BY <2>3 DEF NoAccess, ReadStatus, SpriteFetch, EndCycle, sequencer, interrupt, pending
      <4>3. flag' => flag
        BY <2>3 DEF NoAccess, ReadStatus, SpriteFetch, interrupt
      <4>4. QED
        BY <4>1, <4>2, <4>3 DEF GameInv, Fresh
    <3>3. QED
      BY <3>1, <3>2
  <2>4. CASE Writes
    BY <1>0, <2>0, <2>1, <2>4 DEF GameInv, Fresh
  <2>5. QED
    BY <1>3, <2>2, <2>3, <2>4 DEF Next, CpuStep, Writes
<1>4. QED
  BY <1>1, <1>2, <1>3 DEF MCNext

(* A reboot into another game leaves nothing of the last one in the        *)
(* sequencer (reset_state): until it writes $4017, every game is clocked   *)
(* and interrupted on the cycles of the four-step table.                   *)
THEOREM RebootedAsAtPowerOn == MCSpec => GamesStartAlike
<1>1. RebootInv /\ GameInv /\ [MCNext]_MCvars =>
        [ApuStep /\ age < Steps4[6] =>
           /\ \A i \in 1..6 : age' = Steps4[i] => clocked' = Units[i]
           /\ clocked' # "none" => \E i \in 1..6 : age' = Steps4[i]
           /\ flag' => age' >= Steps4[4]
           /\ age' \in {Steps4[5], Steps4[6]} => line']_MCvars
  <2> SUFFICES ASSUME RebootInv, GameInv, MCNext, ApuStep, age < Steps4[6]
               PROVE  AsAtPowerOn
    BY DEF AsAtPowerOn
  <2>1. ~Reboot
    BY DEF Reboot, ResetState, ApuStep
  <2>2. ~\E m \in Modes, inhibit \in BOOLEAN : WriteFrameCounter(m, inhibit)
    BY DEF ApuStep, WriteFrameCounter, EndCycle
  <2>3. age' = age + 1
    BY <2>1, <2>2 DEF MCNext, Observe
  <2>4. QED
    BY <2>3, ApuStepGame DEF RebootInv, Fresh
<1>2. QED
  BY <1>1, RebootInvInit, RebootInvStep, GameInvInit, GameInvStep, PTL
     DEF MCSpec, GamesStartAlike
=============================================================================
