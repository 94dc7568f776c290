---------------------------- MODULE CpuProofs ----------------------------
(***************************************************************************)
(* The processor. First its interrupts, for every distance between two     *)
(* changes of VBL: what is serviced was asked for, and nothing asked for   *)
(* is lost. Then its instructions, for every opcode, operand and memory:   *)
(* the ticks of each one follow its sequence of steps, and each tick that  *)
(* counts makes one access.                                                *)
(***************************************************************************)
EXTENDS MCCpuInterrupts, MCCpu2, TLAPS


-----------------------------------------------------------------------------
(* The invariant                                                           *)

(* An interrupt sequence is a BRK under way.                               *)
SequenceUnderWay(c) ==
  /\ c.hardware_interrupt # "none" => c.op = "brk" /\ ~c.finished
  /\ ~c.finished => c.current_cycle <= Ticks[c.op]

(* What a branch or a hijack latched is still there.                       *)
LatchKept(c) ==
  /\ c.irq_poll <=> c.latched_vector # "none"
  /\ c.irq_poll => c.op = "brk" \/ c.op \in Branches
  /\ c.latched_vector = "nmi" => c.pending_interrupt = "nmi"

(* What the last poll saw is still there, unless a sequence consumed it on *)
(* its last cycle.                                                         *)
SnapshotKept(c) ==
  /\ c.poll_snapshot <=> c.poll_snapshot_vector # "none"
  /\ c.poll_snapshot_vector = "nmi" =>
       c.pending_interrupt = "nmi" \/ (c.op = "brk" /\ c.finished)

(* The first byte of the vector is of the one that the second will be of.  *)
HalfFetched(c) ==
  c.op = "brk" /\ ~c.finished /\ c.current_cycle = 7 =>
    c.low_byte = SequenceVector(c)

(* An IRQ that was latched or polled was seen unmasked.                    *)
PolledUnmasked(c, u) ==
  c.latched_vector = "irq" \/ c.poll_snapshot_vector = "irq" => u

(* The line is what VBL and its enable make it.                            *)
Level(n) == n.line_low <=> n.vbl /\ n.enable

(* A fall of the line that may still be taken back is that of this cycle's *)
(* VBL or of the write that ended the instruction.                         *)
FallIsFresh ==
  nmi.low_for <= 1 =>
    IF phase = "cpu" THEN gap = VblGap ELSE gap > 0 \/ cpu.finished

(* A request is taken back between two instructions, by one that ended or  *)
(* by a sprite transfer, or before a read of $2002 that a DMA repeats:     *)
(* never within an interrupt sequence.                                     *)
CancelledOutside ==
  nmi.cancel_requested => cpu.finished \/ (Accessing /\ cpu.op = "status")

IInv ==
  /\ TypeOK
  /\ unmasked \in BOOLEAN
  /\ SequenceUnderWay(cpu)
  /\ LatchKept(cpu)
  /\ SnapshotKept(cpu)
  /\ HalfFetched(cpu)
  /\ PolledUnmasked(cpu, unmasked)
  /\ Level(nmi)
  /\ FallIsFresh
  /\ CancelledOutside

-----------------------------------------------------------------------------
(* The line                                                                *)

NmiState ==
  [since : 0..2, vbl : BOOLEAN, enable : BOOLEAN, line_low : BOOLEAN, low_for : 0..2,
   delay : 0..1, requested : BOOLEAN, cancel_requested : BOOLEAN]

(* The fields that the shapes of an update leave.                          *)

LEMMA FallFields ==
  ASSUME NEW n \in NmiState, NEW l \in BOOLEAN, NEW f \in 0..2, NEW d \in 0..1,
         NEW r \in BOOLEAN
  PROVE  /\ [n EXCEPT !.line_low = l, !.low_for = f, !.delay = d, !.requested = r]
              \in NmiState
         /\ [n EXCEPT !.line_low = l, !.low_for = f, !.delay = d, !.requested = r].line_low
              <=> l
         /\ [n EXCEPT !.line_low = l, !.low_for = f, !.delay = d, !.requested = r].vbl
              <=> n.vbl
         /\ [n EXCEPT !.line_low = l, !.low_for = f, !.delay = d, !.requested = r].enable
              <=> n.enable
         /\ [n EXCEPT !.line_low = l, !.low_for = f, !.delay = d,
                      !.requested = r].cancel_requested <=> n.cancel_requested
BY DEF NmiState

LEMMA RiseFields ==
  ASSUME NEW n \in NmiState, NEW l \in BOOLEAN, NEW d \in 0..1, NEW r \in BOOLEAN,
         NEW c \in BOOLEAN
  PROVE  /\ [n EXCEPT !.line_low = l, !.delay = d, !.requested = r,
                      !.cancel_requested = c] \in NmiState
         /\ [n EXCEPT !.line_low = l, !.delay = d, !.requested = r,
                      !.cancel_requested = c].line_low <=> l
         /\ [n EXCEPT !.line_low = l, !.delay = d, !.requested = r,
                      !.cancel_requested = c].vbl <=> n.vbl
         /\ [n EXCEPT !.line_low = l, !.delay = d, !.requested = r,
                      !.cancel_requested = c].enable <=> n.enable
BY DEF NmiState

LEMMA LowFields ==
  ASSUME NEW n \in NmiState, NEW l \in BOOLEAN
  PROVE  /\ [n EXCEPT !.line_low = l] \in NmiState
         /\ [n EXCEPT !.line_low = l].line_low <=> l
         /\ [n EXCEPT !.line_low = l].vbl <=> n.vbl
         /\ [n EXCEPT !.line_low = l].enable <=> n.enable
         /\ [n EXCEPT !.line_low = l].cancel_requested <=> n.cancel_requested
BY DEF NmiState

LEMMA VblFields ==
  ASSUME NEW n \in NmiState, NEW v \in BOOLEAN
  PROVE  /\ [n EXCEPT !.vbl = v] \in NmiState
         /\ [n EXCEPT !.vbl = v].vbl <=> v
         /\ [n EXCEPT !.vbl = v].low_for = n.low_for
         /\ [n EXCEPT !.vbl = v].line_low <=> n.line_low
         /\ [n EXCEPT !.vbl = v].cancel_requested <=> n.cancel_requested
BY DEF NmiState

LEMMA CheckFields ==
  ASSUME NEW n \in NmiState, NEW d \in 0..1, NEW r \in BOOLEAN, NEW c \in BOOLEAN
  PROVE  /\ [n EXCEPT !.cancel_requested = c, !.requested = r, !.delay = d] \in NmiState
         /\ [n EXCEPT !.cancel_requested = c, !.requested = r, !.delay = d].line_low
              <=> n.line_low
         /\ [n EXCEPT !.cancel_requested = c, !.requested = r, !.delay = d].vbl <=> n.vbl
         /\ [n EXCEPT !.cancel_requested = c, !.requested = r, !.delay = d].enable
              <=> n.enable
         /\ [n EXCEPT !.cancel_requested = c, !.requested = r, !.delay = d].cancel_requested
              <=> c
         /\ [n EXCEPT !.cancel_requested = c, !.requested = r, !.delay = d].low_for
              = n.low_for
BY DEF NmiState

LEMMA SinceFields ==
  ASSUME NEW n \in NmiState, NEW s \in 0..2
  PROVE  /\ [n EXCEPT !.since = s] \in NmiState
         /\ [n EXCEPT !.since = s].line_low <=> n.line_low
         /\ [n EXCEPT !.since = s].vbl <=> n.vbl
         /\ [n EXCEPT !.since = s].enable <=> n.enable
         /\ [n EXCEPT !.since = s].cancel_requested <=> n.cancel_requested
         /\ [n EXCEPT !.since = s].low_for = n.low_for
BY DEF NmiState

LEMMA LowForFields ==
  ASSUME NEW n \in NmiState, NEW f \in 0..2
  PROVE  /\ [n EXCEPT !.low_for = f] \in NmiState
         /\ [n EXCEPT !.low_for = f].line_low <=> n.line_low
         /\ [n EXCEPT !.low_for = f].vbl <=> n.vbl
         /\ [n EXCEPT !.low_for = f].enable <=> n.enable
         /\ [n EXCEPT !.low_for = f].cancel_requested <=> n.cancel_requested
         /\ [n EXCEPT !.low_for = f].low_for = f
BY DEF NmiState

LEMMA FallsSo ==
  ASSUME NEW n \in NmiState, NEW last \in BOOLEAN
  PROVE  /\ LineFalls(n, last) \in NmiState
         /\ LineFalls(n, last).line_low
         /\ LineFalls(n, last).vbl <=> n.vbl
         /\ LineFalls(n, last).enable <=> n.enable
         /\ LineFalls(n, last).cancel_requested <=> n.cancel_requested
<1>. TRUE \in BOOLEAN /\ 0 \in 0..2 /\ (IF last THEN 1 ELSE 0) \in 0..1
     /\ (~last) \in BOOLEAN
  OBVIOUS
<1>1. LineFalls(n, last) \in NmiState
  BY FallFields, Zenon DEF LineFalls
<1>2. LineFalls(n, last).line_low
  BY FallFields, Zenon DEF LineFalls
<1>3. LineFalls(n, last).vbl <=> n.vbl
  BY FallFields, Zenon DEF LineFalls
<1>4. LineFalls(n, last).enable <=> n.enable
  BY FallFields, Zenon DEF LineFalls
<1>5. LineFalls(n, last).cancel_requested <=> n.cancel_requested
  BY FallFields, Zenon DEF LineFalls
<1>. QED BY <1>1, <1>2, <1>3, <1>4, <1>5, Zenon

(* The request is taken back only for a line that fell at most a dot ago.  *)
LEMMA RisesSo ==
  ASSUME NEW n \in NmiState
  PROVE  /\ LineRises(n) \in NmiState
         /\ ~LineRises(n).line_low
         /\ LineRises(n).vbl <=> n.vbl
         /\ LineRises(n).enable <=> n.enable
         /\ LineRises(n).cancel_requested => n.cancel_requested \/ n.low_for <= 1
         /\ LineRises(n).low_for <= 1 => n.low_for <= 1
<1>. TRUE \in BOOLEAN /\ FALSE \in BOOLEAN /\ 0 \in 0..1
  OBVIOUS
<1>1. CASE n.low_for > 1
  <2>1. LineRises(n) = [n EXCEPT !.line_low = FALSE]
    BY <1>1, Zenon DEF LineRises
  <2>2. LineRises(n).low_for = n.low_for
    BY <2>1 DEF NmiState
  <2>. QED BY <2>1, <2>2, LowFields, Zenon
<1>2. CASE ~(n.low_for > 1)
  <2>1. n.low_for <= 1
    BY <1>2 DEF NmiState
  <2>2. LineRises(n) = [n EXCEPT !.line_low = FALSE, !.delay = 0, !.requested = FALSE,
                                 !.cancel_requested = TRUE]
    BY <1>2, Zenon DEF LineRises
  <2>3. LineRises(n) \in NmiState
    BY <1>2, RiseFields, Zenon DEF LineRises
  <2>4. ~LineRises(n).line_low
    BY <1>2, RiseFields, Zenon DEF LineRises
  <2>5. LineRises(n).vbl <=> n.vbl
    BY <1>2, RiseFields, Zenon DEF LineRises
  <2>6. LineRises(n).enable <=> n.enable
    BY <1>2, RiseFields, Zenon DEF LineRises
  <2>. QED BY <2>1, <2>3, <2>4, <2>5, <2>6, Zenon
<1>. QED BY <1>1, <1>2, Zenon

LEMMA Updated ==
  ASSUME NEW n \in NmiState, NEW last \in BOOLEAN
  PROVE  /\ UpdateNmiLine(n, last) \in NmiState
         /\ Level(UpdateNmiLine(n, last))
         /\ UpdateNmiLine(n, last).cancel_requested =>
              n.cancel_requested \/ (n.low_for <= 1 /\ n.line_low /\ ~(n.vbl /\ n.enable))
         /\ ~n.vbl => (UpdateNmiLine(n, last).low_for <= 1 => n.low_for <= 1)
<1>1. CASE n.vbl /\ n.enable /\ ~n.line_low
  <2>1. UpdateNmiLine(n, last) = LineFalls(n, last)
    BY <1>1, Zenon DEF UpdateNmiLine
  <2>. QED BY <1>1, <2>1, FallsSo, Zenon DEF Level
<1>2. CASE ~(n.vbl /\ n.enable) /\ n.line_low
  <2>1. UpdateNmiLine(n, last) = LineRises(n)
    BY <1>2, Zenon DEF UpdateNmiLine
  <2>. QED BY <1>2, <2>1, RisesSo, ZenonT(30) DEF Level
<1>3. CASE Level(n)
  <2>1. UpdateNmiLine(n, last) = n
    BY <1>3, Zenon DEF UpdateNmiLine, Level
  <2>. QED BY <1>3, <2>1, Zenon
<1>. QED BY <1>1, <1>2, <1>3, Zenon DEF Level

LEMMA Counted3 ==
  ASSUME NEW n \in 0..2
  PROVE  OneMore(n) \in 0..2 /\ OneMore(n) >= 1 /\ (OneMore(n) <= 1 => n = 0)
BY DEF OneMore

LEMMA Dot ==
  ASSUME NEW n \in NmiState, Level(n), NEW last \in BOOLEAN,
         NEW event \in {"none", "set", "clear"}
  PROVE  /\ SourceDot(n, event, last) \in NmiState
         /\ Level(SourceDot(n, event, last))
         /\ event = "none" => SourceDot(n, event, last).low_for = OneMore(n.low_for)
         /\ SourceDot(n, event, last).cancel_requested =>
              n.cancel_requested \/ (event = "clear" /\ n.low_for = 0)
<1>. TRUE \in BOOLEAN /\ FALSE \in BOOLEAN /\ 0 \in 0..2
  OBVIOUS
<1>1. n.low_for \in 0..2 /\ OneMore(n.low_for) \in 0..2
  BY Counted3 DEF NmiState
<1>. DEFINE ticked == CountDot(n)
            counted == [ticked EXCEPT !.since = OneMore(@)]
            passed == [counted EXCEPT !.since = 0]
<1>2. /\ ticked \in NmiState /\ ticked.low_for = OneMore(n.low_for)
      /\ ticked.line_low <=> n.line_low
      /\ ticked.vbl <=> n.vbl
      /\ ticked.enable <=> n.enable
      /\ ticked.cancel_requested <=> n.cancel_requested
  BY <1>1, LowForFields, Zenon DEF CountDot
<1>. HIDE DEF ticked
<1>3. OneMore(ticked.since) \in 0..2
  <2>1. ticked.since \in 0..2
    BY <1>2 DEF NmiState
  <2>. QED BY <2>1, Counted3
<1>4. /\ counted \in NmiState /\ counted.low_for = OneMore(n.low_for)
      /\ counted.line_low <=> n.line_low
      /\ counted.vbl <=> n.vbl
      /\ counted.enable <=> n.enable
      /\ counted.cancel_requested <=> n.cancel_requested
  BY <1>2, <1>3, SinceFields, Zenon
<1>. HIDE DEF counted
<1>5. /\ passed \in NmiState
      /\ passed.line_low <=> n.line_low
      /\ passed.enable <=> n.enable
      /\ passed.cancel_requested <=> n.cancel_requested
  BY <1>4, SinceFields, Zenon
<1>. HIDE DEF passed
<1>6. CASE event = "none"
  <2>1. SourceDot(n, event, last) = counted
    BY <1>6 DEF SourceDot, counted, ticked
  <2>. QED BY <1>4, <1>6, <2>1, Zenon DEF Level
<1>7. CASE event = "set"
  <2>. DEFINE w == [passed EXCEPT !.vbl = TRUE]
  <2>1. /\ w \in NmiState
        /\ w.vbl
        /\ w.cancel_requested <=> n.cancel_requested
        /\ w.line_low <=> n.line_low
    BY <1>5, VblFields, Zenon
  <2>2. w.enable <=> n.enable
    BY <1>5 DEF NmiState
  <2>3. SourceDot(n, event, last) = UpdateNmiLine(w, last)
    BY <1>7 DEF SourceDot, SetVbl, passed, counted, ticked
  <2>. HIDE DEF w
  <2>4. ~(w.line_low /\ ~(w.vbl /\ w.enable))
    BY <2>1, <2>2, Zenon DEF Level
  <2>5. /\ UpdateNmiLine(w, last) \in NmiState /\ Level(UpdateNmiLine(w, last))
        /\ UpdateNmiLine(w, last).cancel_requested => w.cancel_requested
    BY <2>1, <2>4, Updated, Zenon
  <2>6. SourceDot(n, event, last).cancel_requested => n.cancel_requested
    BY <2>1, <2>3, <2>5, Zenon
  <2>7. event # "none" /\ event # "clear"
    BY <1>7
  <2>. QED BY <2>3, <2>5, <2>6, <2>7, Zenon
<1>8. CASE event = "clear"
  <2>. DEFINE w == [counted EXCEPT !.vbl = FALSE]
  <2>1. /\ w \in NmiState /\ w.low_for = OneMore(n.low_for)
        /\ w.cancel_requested <=> n.cancel_requested
    BY <1>4, VblFields, Zenon
  <2>2. SourceDot(n, event, last) = UpdateNmiLine(w, last)
    BY <1>8 DEF SourceDot, SetVbl, counted, ticked
  <2>. HIDE DEF w
  <2>3. w.low_for <= 1 => n.low_for = 0
    BY <1>1, <2>1, Counted3
  <2>4. /\ UpdateNmiLine(w, last) \in NmiState /\ Level(UpdateNmiLine(w, last))
        /\ UpdateNmiLine(w, last).cancel_requested => w.cancel_requested \/ w.low_for <= 1
    BY <2>1, Updated, Zenon
  <2>5. SourceDot(n, event, last).cancel_requested =>
          n.cancel_requested \/ n.low_for = 0
    BY <2>1, <2>2, <2>3, <2>4, Zenon
  <2>6. event # "none"
    BY <1>8
  <2>. QED BY <1>8, <2>2, <2>4, <2>5, <2>6, Zenon
<1>. QED BY <1>6, <1>7, <1>8

(* A cycle without a change of VBL is two dots at least after the last     *)
(* fall; a change takes a request back only if the line fell before it.    *)
LEMMA ThreeDots ==
  ASSUME NEW n \in NmiState, Level(n), NEW d \in 1..3,
         NEW event \in {"none", "set", "clear"}
  PROVE  /\ SourceCycle(n, event, d) \in NmiState
         /\ Level(SourceCycle(n, event, d))
         /\ event = "none" => SourceCycle(n, event, d).low_for = 2
         /\ SourceCycle(n, event, d).cancel_requested =>
              n.cancel_requested \/ (event = "clear" /\ n.low_for = 0)
<1>. TRUE \in BOOLEAN /\ FALSE \in BOOLEAN
  OBVIOUS
<1>. DEFINE at(k) == IF k = d THEN event ELSE "none"
            e1 == at(1)
            e2 == at(2)
            e3 == at(3)
            m1 == SourceDot(n, e1, FALSE)
            m2 == SourceDot(m1, e2, FALSE)
            m3 == SourceDot(m2, e3, TRUE)
<1>0. /\ e1 \in {"none", "set", "clear"} /\ e2 \in {"none", "set", "clear"}
      /\ e3 \in {"none", "set", "clear"}
      /\ e1 = event \/ e1 = "none"
      /\ e2 = event \/ e2 = "none"
      /\ e3 = event \/ e3 = "none"
      /\ (e1 = "none" /\ e2 = "none") \/ (e1 = "none" /\ e3 = "none")
           \/ (e2 = "none" /\ e3 = "none")
      /\ event = "none" => e1 = "none" /\ e2 = "none" /\ e3 = "none"
  OBVIOUS
<1>1. SourceCycle(n, event, d) = m3
  BY Zenon DEF SourceCycle
<1>. HIDE DEF e1, e2, e3
<1>2. /\ m1 \in NmiState /\ Level(m1)
      /\ e1 = "none" => m1.low_for = OneMore(n.low_for)
      /\ m1.cancel_requested => n.cancel_requested \/ (e1 = "clear" /\ n.low_for = 0)
  BY <1>0, Dot, Zenon
<1>. HIDE DEF m1
<1>3. /\ m2 \in NmiState /\ Level(m2)
      /\ e2 = "none" => m2.low_for = OneMore(m1.low_for)
      /\ m2.cancel_requested => m1.cancel_requested \/ (e2 = "clear" /\ m1.low_for = 0)
  BY <1>0, <1>2, Dot, Zenon
<1>. HIDE DEF m2
<1>4. /\ m3 \in NmiState /\ Level(m3)
      /\ e3 = "none" => m3.low_for = OneMore(m2.low_for)
      /\ m3.cancel_requested => m2.cancel_requested \/ (e3 = "clear" /\ m2.low_for = 0)
  BY <1>0, <1>3, Dot, Zenon
<1>. HIDE DEF m3
<1>5. n.low_for \in 0..2 /\ m1.low_for \in 0..2 /\ m2.low_for \in 0..2
  BY <1>2, <1>3 DEF NmiState
<1>6. e1 = "none" => m1.low_for # 0
  BY <1>2, <1>5 DEF OneMore
<1>7. e2 = "none" => m2.low_for # 0
  BY <1>3, <1>5 DEF OneMore
<1>8. event = "none" => m3.low_for = 2
  BY <1>0, <1>2, <1>3, <1>4, <1>5 DEF OneMore
<1>9. m3.cancel_requested => n.cancel_requested \/ (event = "clear" /\ n.low_for = 0)
  BY <1>0, <1>2, <1>3, <1>4, <1>6, <1>7
<1>. QED BY <1>1, <1>4, <1>8, <1>9, Zenon

LEMMA Checked ==
  ASSUME NEW n \in NmiState, Level(n)
  PROVE  /\ AfterChecks(n) \in NmiState /\ Level(AfterChecks(n))
         /\ ~AfterChecks(n).cancel_requested
         /\ AfterChecks(n).low_for = n.low_for
<1>. 0 \in 0..1 /\ FALSE \in BOOLEAN /\ (n.delay > 0) \in BOOLEAN
  OBVIOUS
<1>1. AfterChecks(n) = [n EXCEPT !.cancel_requested = FALSE, !.requested = n.delay > 0,
                                 !.delay = 0]
  BY Zenon DEF AfterChecks
<1>2. AfterChecks(n) \in NmiState
  BY CheckFields, Zenon DEF AfterChecks
<1>3. AfterChecks(n).low_for = n.low_for
  <2>1. PICK r \in BOOLEAN :
          AfterChecks(n) = [n EXCEPT !.cancel_requested = FALSE, !.requested = r, !.delay = 0]
    BY <1>1, Zenon
  <2>. QED BY <2>1 DEF NmiState
<1>4. ~AfterChecks(n).cancel_requested
  BY CheckFields, Zenon DEF AfterChecks
<1>5. AfterChecks(n).line_low <=> n.line_low
  BY CheckFields, Zenon DEF AfterChecks
<1>6. AfterChecks(n).vbl <=> n.vbl
  BY CheckFields, Zenon DEF AfterChecks
<1>7. AfterChecks(n).enable <=> n.enable
  BY CheckFields, Zenon DEF AfterChecks
<1>. QED BY <1>2, <1>3, <1>4, <1>5, <1>6, <1>7, Zenon DEF Level

LEMMA StatusWasRead ==
  ASSUME NEW n \in NmiState
  PROVE  /\ ReadStatus(n) \in NmiState /\ Level(ReadStatus(n))
         /\ ReadStatus(n).low_for <= 1 => n.low_for <= 1
<1>. DEFINE early == n.since <= 1
            w == [n EXCEPT !.requested = @ /\ ~early, !.cancel_requested = @ \/ early]
            u == [w EXCEPT !.vbl = FALSE]
<1>1. early \in BOOLEAN /\ n.requested \in BOOLEAN /\ n.cancel_requested \in BOOLEAN
  BY DEF NmiState
<1>2. (n.requested /\ ~early) \in BOOLEAN /\ (n.cancel_requested \/ early) \in BOOLEAN
  BY <1>1, Zenon
<1>3. /\ u \in NmiState /\ u.low_for = n.low_for
      /\ ~u.vbl
  BY <1>2 DEF NmiState
<1>4. ReadStatus(n) = UpdateNmiLine(u, TRUE)
  BY DEF ReadStatus, StatusRead, SetVbl
<1>. HIDE DEF u
<1>. QED BY <1>3, <1>4, Updated, Zenon

LEMMA ControlWasWritten ==
  ASSUME NEW n \in NmiState, NEW e \in BOOLEAN
  PROVE  ControlWrite(n, e) \in NmiState /\ Level(ControlWrite(n, e))
<1>1. [n EXCEPT !.enable = e] \in NmiState
  BY DEF NmiState
<1>. QED BY <1>1, Updated DEF ControlWrite

-----------------------------------------------------------------------------
(* A tick of the CPU, stage by stage                                       *)

LEMMA TicksSo ==
  /\ \A k \in Kinds : Ticks[k] \in 2..7
  /\ Ticks["brk"] = 7 /\ Ticks["status"] = 4 /\ Ticks["control"] = 4
  /\ Ticks["acknowledge"] = 4 /\ "brk" \in Kinds /\ Branches \subseteq Kinds
  /\ "implied" \in Kinds
BY DEF Kinds, Ticks, Branches

LEMMA Detects ==
  ASSUME NEW c \in CpuState
  PROVE  /\ DetectedVector(c) \in Vectors
         /\ DetectedVector(c) = "nmi" =>
              c.pending_interrupt = "nmi"
                \/ (c.irq_poll /\ c.latched_vector = "nmi")
                \/ (~NoFinalPoll(c) /\ c.poll_snapshot_vector = "nmi")
BY DEF DetectedVector, CpuState, Vectors

LEMMA Starts ==
  ASSUME NEW c \in CpuState, c.finished, NEW k \in Kinds,
         c.hardware_interrupt = "none"
  PROVE  /\ Boundary(c, k) \in CpuState
         /\ Boundary(c, k).pending_interrupt = c.pending_interrupt
         /\ Boundary(c, k).low_byte = c.low_byte
         /\ Boundary(c, k).i <=> c.i
         /\ ~Boundary(c, k).finished /\ ~Boundary(c, k).irq_poll
         /\ Boundary(c, k).latched_vector = "none"
         /\ Boundary(c, k).current_cycle = 1
         /\ Boundary(c, k).hardware_interrupt = DetectedVector(c)
         /\ Boundary(c, k).op = IF DetectedVector(c) # "none" THEN "brk" ELSE k
<1>1. PICK v \in Vectors, o \in Kinds :
        /\ v = DetectedVector(c)
        /\ o = (IF v # "none" THEN "brk" ELSE k)
        /\ Boundary(c, k) = [c EXCEPT !.irq_poll = FALSE, !.latched_vector = "none",
                    !.poll_snapshot = FALSE, !.poll_snapshot_vector = "none",
                    !.hardware_interrupt = v,
                    !.op = o,
                    !.current_cycle = 1,
                    !.finished = FALSE]
  BY Detects, TicksSo, ZenonT(40) DEF Boundary, CpuState
<1>. DEFINE b == Boundary(c, k)
<1>2. b = [c EXCEPT !.irq_poll = FALSE, !.latched_vector = "none",
                    !.poll_snapshot = FALSE, !.poll_snapshot_vector = "none",
                    !.hardware_interrupt = v,
                    !.op = o,
                    !.current_cycle = 1,
                    !.finished = FALSE]
  BY <1>1
<1>. HIDE DEF b
<1>3. b \in CpuState
  <2>. FALSE \in BOOLEAN /\ "none" \in Vectors /\ 1 \in 1..8
    BY DEF Vectors
  <2>1. v \in Vectors /\ o \in Kinds
    BY <1>1
  <2>2. ASSUME NEW f \in BOOLEAN, NEW l \in Vectors, NEW g \in 1..8
        PROVE  [c EXCEPT !.irq_poll = f, !.latched_vector = l, !.poll_snapshot = f,
                         !.poll_snapshot_vector = l, !.hardware_interrupt = v,
                         !.op = o, !.current_cycle = g, !.finished = f] \in CpuState
    BY <2>1 DEF CpuState
  <2>. QED BY <1>2, <2>2, Zenon
<1>4. b.pending_interrupt = c.pending_interrupt /\ b.low_byte = c.low_byte
  BY <1>2 DEF CpuState, Vectors
<1>50. b.i = c.i
  BY <1>2
<1>51. (b.i <=> c.i)
  BY <1>50
<1>52.  ~b.finished
  BY <1>2 DEF CpuState, Vectors
<1>53. ~b.irq_poll
  BY <1>2 DEF CpuState, Vectors
<1>5. (b.i <=> c.i) /\ ~b.finished /\ ~b.irq_poll
  BY <1>51, <1>52, <1>53
<1>6. b.current_cycle = 1 /\ b.hardware_interrupt = v /\ b.op = o
  BY <1>2 DEF CpuState, Vectors
<1>7. b.latched_vector = "none"
  BY <1>2 DEF CpuState, Vectors
<1>. QED BY <1>1, <1>3, <1>4, <1>5, <1>6, <1>7 DEF b

LEMMA CancelType ==
  ASSUME NEW c \in CpuState, NEW v \in Vectors, NEW w \in Vectors, NEW x \in Vectors,
         NEW b \in BOOLEAN
  PROVE  [c EXCEPT !.pending_interrupt = v, !.latched_vector = w,
                   !.poll_snapshot_vector = x, !.poll_snapshot = b] \in CpuState
BY DEF CpuState

LEMMA Takes ==
  ASSUME NEW c \in CpuState, NEW n
  PROVE  /\ TakeNmi(c, n) \in CpuState
         /\ TakeNmi(c, n).pending_interrupt =
              IF NmiTaken(n) THEN "nmi"
              ELSE IF n.cancel_requested /\ c.pending_interrupt = "nmi" THEN "none"
              ELSE c.pending_interrupt
         /\ TakeNmi(c, n).low_byte = c.low_byte
         /\ TakeNmi(c, n).i <=> c.i
         /\ TakeNmi(c, n).finished <=> c.finished
         /\ TakeNmi(c, n).irq_poll <=> c.irq_poll
         /\ TakeNmi(c, n).latched_vector =
              IF n.cancel_requested /\ c.latched_vector = "nmi" THEN "none"
              ELSE c.latched_vector
         /\ TakeNmi(c, n).current_cycle = c.current_cycle
         /\ TakeNmi(c, n).hardware_interrupt = c.hardware_interrupt
         /\ TakeNmi(c, n).op = c.op
<1>. DEFINE d == IF n.cancel_requested THEN CancelNmi(c) ELSE c
<1>1. /\ d \in CpuState
      /\ d.pending_interrupt =
              IF n.cancel_requested /\ c.pending_interrupt = "nmi" THEN "none"
              ELSE c.pending_interrupt
      /\ d.low_byte = c.low_byte
      /\ d.i <=> c.i
      /\ d.finished <=> c.finished
      /\ d.irq_poll <=> c.irq_poll
      /\ d.latched_vector =
              IF n.cancel_requested /\ c.latched_vector = "nmi" THEN "none"
              ELSE c.latched_vector
      /\ d.current_cycle = c.current_cycle
      /\ d.hardware_interrupt = c.hardware_interrupt
      /\ d.op = c.op
  <2>1. CASE ~n.cancel_requested
    BY <2>1 DEF CpuState
  <2>2. CASE n.cancel_requested
      <4>. DEFINE v == IF c.pending_interrupt = "nmi" THEN "none" ELSE c.pending_interrupt
                  w == IF c.latched_vector = "nmi" THEN "none" ELSE c.latched_vector
                  x == IF c.poll_snapshot_vector = "nmi" THEN "none"
                       ELSE c.poll_snapshot_vector
                  b == c.poll_snapshot /\ ~(c.poll_snapshot_vector = "nmi")
      <4>1. v \in Vectors /\ w \in Vectors /\ x \in Vectors /\ b \in BOOLEAN
        BY DEF CpuState, Vectors
      <4>2. d = [c EXCEPT !.pending_interrupt = v, !.latched_vector = w,
                         !.poll_snapshot_vector = x, !.poll_snapshot = b]
        BY <2>2, Zenon DEF CancelNmi
      <4>. HIDE DEF d, v, w, x, b
      <4>5. d.pending_interrupt = v /\ d.latched_vector = w
        BY <4>1, <4>2 DEF CpuState, Vectors
      <4>6. d.i <=> c.i
        BY <4>1, <4>2 DEF CpuState, Vectors
      <4>7. d.finished <=> c.finished
        BY <4>1, <4>2 DEF CpuState, Vectors
      <4>8. d.irq_poll <=> c.irq_poll
        BY <4>1, <4>2 DEF CpuState, Vectors
      <4>9. d \in CpuState
        BY <4>1, <4>2, CancelType, Zenon
      <4>. QED BY <2>2, <4>1, <4>2, <4>5, <4>6, <4>7, <4>8, <4>9 DEF v, w, CpuState, Vectors
  <2>. QED BY <2>1, <2>2
<1>. HIDE DEF d
<1>2. TakeNmi(c, n) = IF NmiTaken(n) THEN [d EXCEPT !.pending_interrupt = "nmi"] ELSE d
  BY Zenon DEF TakeNmi, d
<1>3. CASE NmiTaken(n)
  BY <1>1, <1>2, <1>3 DEF CpuState, Vectors
<1>4. CASE ~NmiTaken(n)
  BY <1>1, <1>2, <1>4
<1>. QED BY <1>3, <1>4

(* The extra poll of a branch or of an interrupt sequence. *)
Extra(c) ==
  \/ c.op \in Branches /\ c.current_cycle = 2 /\ Detected(c)
  \/ c.op = "brk" /\ c.current_cycle \in 2..5 /\ c.pending_interrupt = "nmi"

LEMMA Polls ==
  ASSUME NEW c \in CpuState
  PROVE  /\ Poll(c) \in CpuState
         /\ Poll(c).pending_interrupt = c.pending_interrupt
         /\ Poll(c).low_byte = c.low_byte
         /\ Poll(c).finished <=> c.finished
         /\ Poll(c).i <=> c.i
         /\ Poll(c).current_cycle = c.current_cycle
         /\ Poll(c).hardware_interrupt = c.hardware_interrupt
         /\ Poll(c).op = c.op
         /\ Poll(c).poll_snapshot <=> Detected(c)
         /\ Poll(c).poll_snapshot_vector =
              IF Detected(c) THEN c.pending_interrupt ELSE "none"
         /\ Poll(c).irq_poll <=> c.irq_poll \/ Extra(c)
         /\ Poll(c).latched_vector =
              IF Extra(c) /\ (c.latched_vector = "none" \/ c.pending_interrupt = "nmi")
              THEN c.pending_interrupt ELSE c.latched_vector
<1>. DEFINE s == Detected(c)
            t == IF Detected(c) THEN c.pending_interrupt ELSE "none"
            b == c.irq_poll \/ Extra(c)
            l == IF Extra(c) /\ (c.latched_vector = "none" \/ c.pending_interrupt = "nmi")
                 THEN c.pending_interrupt ELSE c.latched_vector
            p == Poll(c)
<1>1. p = [c EXCEPT !.poll_snapshot = s, !.poll_snapshot_vector = t, !.irq_poll = b,
                    !.latched_vector = l]
  BY Zenon DEF Poll, Extra
<1>2. s \in BOOLEAN /\ b \in BOOLEAN
  BY Zenon DEF Detected
<1>3. t \in Vectors /\ l \in Vectors
  BY DEF CpuState, Vectors
<1>. HIDE DEF s, t, b, l, p
<1>4. p \in CpuState
  BY <1>1, <1>2, <1>3 DEF CpuState
<1>5. p.pending_interrupt = c.pending_interrupt /\ p.low_byte = c.low_byte
      /\ p.finished = c.finished /\ p.i = c.i /\ p.current_cycle = c.current_cycle
      /\ p.hardware_interrupt = c.hardware_interrupt /\ p.op = c.op
  BY <1>1
<1>6. p.poll_snapshot_vector = t /\ p.latched_vector = l
  BY <1>1 DEF CpuState
<1>7. p.poll_snapshot <=> s
  BY <1>1, <1>2 DEF CpuState
<1>8. p.irq_poll <=> b
  BY <1>1, <1>2 DEF CpuState
<1>. QED BY <1>4, <1>5, <1>6, <1>7, <1>8, Zenon DEF s, t, b, l, p

(* What an instruction that is not an interrupt sequence does.             *)
LEMMA Runs ==
  ASSUME NEW c \in CpuState, NEW flag \in BOOLEAN, c.op # "brk"
  PROVE  /\ Execute(c, flag) \in CpuState
         /\ Execute(c, flag).pending_interrupt = c.pending_interrupt
         /\ Execute(c, flag).low_byte = c.low_byte
         /\ Execute(c, flag).finished <=> c.current_cycle = Ticks[c.op]
         /\ Execute(c, flag).current_cycle = c.current_cycle
         /\ Execute(c, flag).hardware_interrupt = c.hardware_interrupt
         /\ Execute(c, flag).op = c.op
         /\ Execute(c, flag).poll_snapshot <=> c.poll_snapshot
         /\ Execute(c, flag).poll_snapshot_vector = c.poll_snapshot_vector
         /\ Execute(c, flag).irq_poll <=> c.irq_poll
         /\ Execute(c, flag).latched_vector = c.latched_vector
<1>. DEFINE j == IF SetsFlag(c) THEN flag ELSE c.i
            f == c.current_cycle = Ticks[c.op]
            x == Execute(c, flag)
<1>1. x = [c EXCEPT !.i = j, !.finished = f]
  BY Zenon DEF Execute
<1>2. j \in BOOLEAN
  BY DEF CpuState
<1>3. f \in BOOLEAN
  BY Zenon
<1>. HIDE DEF j, f, x
<1>4. x \in CpuState
  BY <1>1, <1>2, <1>3 DEF CpuState
<1>5. x.pending_interrupt = c.pending_interrupt /\ x.low_byte = c.low_byte
      /\ x.current_cycle = c.current_cycle /\ x.hardware_interrupt = c.hardware_interrupt
      /\ x.op = c.op /\ x.poll_snapshot = c.poll_snapshot
      /\ x.poll_snapshot_vector = c.poll_snapshot_vector
      /\ x.irq_poll = c.irq_poll /\ x.latched_vector = c.latched_vector
  BY <1>1
<1>6. x.finished <=> f
  BY <1>1, <1>2, <1>3 DEF CpuState
<1>. QED BY <1>4, <1>5, <1>6, Zenon DEF f, x

LEMMA SequenceType ==
  ASSUME NEW c \in CpuState
  PROVE  SequenceVector(c) \in Vectors
BY DEF SequenceVector, CpuState, Vectors

(* The last cycle of an interrupt sequence.                                *)
LEMMA Ends ==
  ASSUME NEW c \in CpuState, NEW flag, c.op = "brk", c.current_cycle = 7
  PROVE  /\ Execute(c, flag) \in CpuState
         /\ Execute(c, flag).pending_interrupt =
              IF SequenceVector(c) = "nmi" THEN "none" ELSE c.pending_interrupt
         /\ Execute(c, flag).low_byte = c.low_byte
         /\ Execute(c, flag).finished
         /\ Execute(c, flag).current_cycle = 7
         /\ Execute(c, flag).hardware_interrupt = "none"
         /\ Execute(c, flag).op = "brk"
         /\ Execute(c, flag).poll_snapshot <=> c.poll_snapshot
         /\ Execute(c, flag).poll_snapshot_vector = c.poll_snapshot_vector
         /\ ~Execute(c, flag).irq_poll
         /\ Execute(c, flag).latched_vector = "none"
<1>. DEFINE v == IF SequenceVector(c) = "nmi" THEN "none" ELSE c.pending_interrupt
            x == Execute(c, flag)
<1>1. x = [c EXCEPT !.pending_interrupt = v, !.irq_poll = FALSE,
                    !.latched_vector = "none", !.hardware_interrupt = "none",
                    !.finished = TRUE]
  <2>1. x = EndSequence(c)
    BY DEF Execute, HandleInterrupt
  <2>. QED BY <2>1, Zenon DEF EndSequence
<1>2. v \in Vectors
  BY DEF CpuState, Vectors
<1>. HIDE DEF v, x
<1>4. x \in CpuState
  <2>1. ASSUME NEW l \in Vectors, NEW p \in BOOLEAN, NEW f \in BOOLEAN
        PROVE  [c EXCEPT !.pending_interrupt = v, !.irq_poll = p,
                         !.latched_vector = l, !.hardware_interrupt = l,
                         !.finished = f] \in CpuState
    BY <1>2 DEF CpuState
  <2>. "none" \in Vectors /\ TRUE \in BOOLEAN /\ FALSE \in BOOLEAN
    BY DEF Vectors
  <2>. QED BY <1>1, <2>1, Zenon
<1>5. x.low_byte = c.low_byte /\ x.current_cycle = c.current_cycle /\ x.op = c.op
      /\ x.poll_snapshot = c.poll_snapshot
      /\ x.poll_snapshot_vector = c.poll_snapshot_vector
  BY <1>1
<1>6. x.pending_interrupt = v /\ x.latched_vector = "none"
      /\ x.hardware_interrupt = "none"
  BY <1>1 DEF CpuState
<1>7. x.finished
  BY <1>1 DEF CpuState
<1>8. ~x.irq_poll
  BY <1>1 DEF CpuState
<1>. QED BY <1>4, <1>5, <1>6, <1>7, <1>8, Zenon DEF v, x

(* The other cycles of an interrupt sequence.                              *)
LEMMA Handles ==
  ASSUME NEW c \in CpuState, NEW flag, c.op = "brk", c.current_cycle # 7
  PROVE  /\ Execute(c, flag) \in CpuState
         /\ Execute(c, flag).pending_interrupt = c.pending_interrupt
         /\ Execute(c, flag).low_byte =
              IF c.current_cycle = 6 THEN SequenceVector(c) ELSE c.low_byte
         /\ Execute(c, flag).finished <=> c.finished
         /\ Execute(c, flag).current_cycle = c.current_cycle
         /\ Execute(c, flag).hardware_interrupt = c.hardware_interrupt
         /\ Execute(c, flag).op = "brk"
         /\ Execute(c, flag).poll_snapshot <=> c.poll_snapshot
         /\ Execute(c, flag).poll_snapshot_vector = c.poll_snapshot_vector
         /\ Execute(c, flag).irq_poll <=> c.irq_poll
         /\ Execute(c, flag).latched_vector = c.latched_vector
<1>1. CASE c.current_cycle = 5
  <2>1. Execute(c, flag) = [c EXCEPT !.i = TRUE]
    BY <1>1 DEF Execute, HandleInterrupt
  <2>2. [c EXCEPT !.i = TRUE] \in CpuState
    BY DEF CpuState
  <2>. QED BY <1>1, <2>1, <2>2
<1>2. CASE c.current_cycle = 6
  <2>1. Execute(c, flag) = [c EXCEPT !.low_byte = SequenceVector(c)]
    BY <1>2 DEF Execute, HandleInterrupt
  <2>2. /\ [c EXCEPT !.low_byte = SequenceVector(c)] \in CpuState
        /\ [c EXCEPT !.low_byte = SequenceVector(c)].low_byte = SequenceVector(c)
    BY SequenceType DEF CpuState
  <2>. QED BY <1>2, <2>1, <2>2
<1>3. CASE c.current_cycle # 5 /\ c.current_cycle # 6
  <2>1. Execute(c, flag) = c
    BY <1>3 DEF Execute, HandleInterrupt
  <2>. QED BY <1>3, <2>1
<1>. QED BY <1>1, <1>2, <1>3

(* The CPU once it has started an instruction and taken the requests.      *)
InTick(c) ==
  /\ c \in CpuState
  /\ ~c.finished
  /\ SequenceUnderWay(c) /\ LatchKept(c) /\ HalfFetched(c)

LEMMA Begun ==
  ASSUME NEW c \in CpuState, NEW n \in NmiState, NEW k \in Kinds,
         SequenceUnderWay(c), LatchKept(c), HalfFetched(c),
         n.cancel_requested => c.finished \/ c.op = "status",
         NEW e, e = TakeNmi(Boundary(c, k), n)
  PROVE  /\ InTick(e)
         /\ e.low_byte = c.low_byte
         /\ e.i <=> c.i
         /\ e.pending_interrupt =
              IF NmiTaken(n) THEN "nmi"
              ELSE IF n.cancel_requested /\ c.pending_interrupt = "nmi" THEN "none"
              ELSE c.pending_interrupt
         /\ c.finished => /\ e.current_cycle = 1 /\ e.latched_vector = "none"
                          /\ e.hardware_interrupt = DetectedVector(c)
         /\ ~c.finished => /\ e.current_cycle = c.current_cycle /\ e.op = c.op
                           /\ e.latched_vector = c.latched_vector
                           /\ e.hardware_interrupt = c.hardware_interrupt
<1>1. CASE c.finished
  <2>. DEFINE b == Boundary(c, k)
  <2>1. c.hardware_interrupt = "none"
    BY <1>1 DEF SequenceUnderWay
  <2>2. /\ b \in CpuState
        /\ b.pending_interrupt = c.pending_interrupt
        /\ b.low_byte = c.low_byte
        /\ b.i <=> c.i
        /\ ~b.finished /\ ~b.irq_poll
        /\ b.latched_vector = "none"
        /\ b.current_cycle = 1
        /\ b.hardware_interrupt = DetectedVector(c)
        /\ b.op = IF DetectedVector(c) # "none" THEN "brk" ELSE k
    BY <1>1, <2>1, Starts
  <2>. HIDE DEF b
  <2>3. /\ e \in CpuState
        /\ e.pending_interrupt =
              IF NmiTaken(n) THEN "nmi"
              ELSE IF n.cancel_requested /\ b.pending_interrupt = "nmi" THEN "none"
              ELSE b.pending_interrupt
        /\ e.low_byte = b.low_byte
        /\ e.i <=> b.i
        /\ ~e.finished
        /\ ~e.irq_poll
        /\ e.latched_vector = "none"
        /\ e.current_cycle = 1
        /\ e.hardware_interrupt = b.hardware_interrupt
        /\ e.op = b.op
    <3>1. e = TakeNmi(b, n)
      BY DEF b
    <3>2. /\ e \in CpuState
          /\ e.low_byte = b.low_byte
          /\ e.i <=> b.i
          /\ e.finished <=> b.finished
          /\ e.irq_poll <=> b.irq_poll
          /\ e.current_cycle = b.current_cycle
          /\ e.hardware_interrupt = b.hardware_interrupt
          /\ e.op = b.op
      <4>1. /\ TakeNmi(b, n) \in CpuState
            /\ TakeNmi(b, n).low_byte = b.low_byte
            /\ TakeNmi(b, n).i <=> b.i
            /\ TakeNmi(b, n).finished <=> b.finished
            /\ TakeNmi(b, n).irq_poll <=> b.irq_poll
            /\ TakeNmi(b, n).current_cycle = b.current_cycle
            /\ TakeNmi(b, n).hardware_interrupt = b.hardware_interrupt
            /\ TakeNmi(b, n).op = b.op
        BY <2>2, Takes, Zenon
      <4>. QED BY <2>2, <3>1, <4>1, Zenon
    <3>3. e.pending_interrupt =
              IF NmiTaken(n) THEN "nmi"
              ELSE IF n.cancel_requested /\ b.pending_interrupt = "nmi" THEN "none"
              ELSE b.pending_interrupt
      <4>1. TakeNmi(b, n).pending_interrupt =
              IF NmiTaken(n) THEN "nmi"
              ELSE IF n.cancel_requested /\ b.pending_interrupt = "nmi" THEN "none"
              ELSE b.pending_interrupt
        BY <2>2, Takes, Zenon
      <4>. QED BY <2>2, <3>1, <4>1, Zenon
    <3>4. e.latched_vector = IF n.cancel_requested /\ b.latched_vector = "nmi" THEN "none"
                             ELSE b.latched_vector
      <4>1. TakeNmi(b, n).latched_vector =
              IF n.cancel_requested /\ b.latched_vector = "nmi" THEN "none"
              ELSE b.latched_vector
        BY <2>2, Takes, Zenon
      <4>. QED BY <2>2, <3>1, <4>1, Zenon
    <3>. QED BY <2>2, <3>2, <3>3, <3>4
  <2>4. e.current_cycle <= Ticks[e.op]
    BY <2>2, <2>3, TicksSo
  <2>5. InTick(e)
    BY <2>2, <2>3, <2>4 DEF InTick, SequenceUnderWay, LatchKept, HalfFetched
  <2>. QED BY <1>1, <2>2, <2>3, <2>5
<1>2. CASE ~c.finished
  <2>1. e = TakeNmi(c, n)
    BY <1>2 DEF Boundary
  <2>2. ~(n.cancel_requested /\ c.latched_vector = "nmi")
    BY <1>2 DEF LatchKept, Branches
  <2>3. /\ e \in CpuState
        /\ e.pending_interrupt =
              IF NmiTaken(n) THEN "nmi"
              ELSE IF n.cancel_requested /\ c.pending_interrupt = "nmi" THEN "none"
              ELSE c.pending_interrupt
        /\ e.low_byte = c.low_byte
        /\ e.i <=> c.i
        /\ ~e.finished
        /\ e.irq_poll <=> c.irq_poll
        /\ e.latched_vector = c.latched_vector
        /\ e.current_cycle = c.current_cycle
        /\ e.hardware_interrupt = c.hardware_interrupt
        /\ e.op = c.op
    <3>2. /\ e \in CpuState
          /\ e.low_byte = c.low_byte
          /\ e.i <=> c.i
          /\ e.finished <=> c.finished
          /\ e.irq_poll <=> c.irq_poll
          /\ e.current_cycle = c.current_cycle
          /\ e.hardware_interrupt = c.hardware_interrupt
          /\ e.op = c.op
      <4>1. /\ TakeNmi(c, n) \in CpuState
            /\ TakeNmi(c, n).low_byte = c.low_byte
            /\ TakeNmi(c, n).i <=> c.i
            /\ TakeNmi(c, n).finished <=> c.finished
            /\ TakeNmi(c, n).irq_poll <=> c.irq_poll
            /\ TakeNmi(c, n).current_cycle = c.current_cycle
            /\ TakeNmi(c, n).hardware_interrupt = c.hardware_interrupt
            /\ TakeNmi(c, n).op = c.op
        BY Takes, Zenon
      <4>. QED BY <2>1, <4>1, Zenon
    <3>3. e.pending_interrupt =
              IF NmiTaken(n) THEN "nmi"
              ELSE IF n.cancel_requested /\ c.pending_interrupt = "nmi" THEN "none"
              ELSE c.pending_interrupt
      <4>1. TakeNmi(c, n).pending_interrupt =
              IF NmiTaken(n) THEN "nmi"
              ELSE IF n.cancel_requested /\ c.pending_interrupt = "nmi" THEN "none"
              ELSE c.pending_interrupt
        BY Takes, Zenon
      <4>. QED BY <2>1, <4>1, Zenon
    <3>4. e.latched_vector = IF n.cancel_requested /\ c.latched_vector = "nmi" THEN "none"
                             ELSE c.latched_vector
      <4>1. TakeNmi(c, n).latched_vector =
              IF n.cancel_requested /\ c.latched_vector = "nmi" THEN "none"
              ELSE c.latched_vector
        BY Takes, Zenon
      <4>. QED BY <2>1, <4>1, Zenon
    <3>. QED BY <1>2, <2>2, <3>2, <3>3, <3>4
  <2>4. SequenceVector(e) = SequenceVector(c)
    BY <2>3 DEF SequenceVector
  <2>5. e.latched_vector = "nmi" => e.pending_interrupt = "nmi"
    BY <2>2, <2>3 DEF LatchKept
  <2>6. InTick(e)
    BY <1>2, <2>3, <2>4, <2>5 DEF InTick, SequenceUnderWay, LatchKept, HalfFetched
  <2>. QED BY <1>2, <2>3, <2>6
<1>. QED BY <1>1, <1>2

(* A poll on the last cycle of a sequence changes nothing that it fetches. *)
LEMMA LastPoll ==
  ASSUME NEW c, InTick(c), c.op = "brk", c.current_cycle = 7
  PROVE  SequenceVector(Poll(c)) = c.low_byte
<1>1. ~Extra(c)
  BY DEF Extra, Branches
<1>2. Poll(c).latched_vector = c.latched_vector
      /\ Poll(c).hardware_interrupt = c.hardware_interrupt
  BY <1>1, Polls DEF InTick
<1>. QED BY <1>2 DEF InTick, HalfFetched, SequenceVector

(* The rest of the tick. *)
Ended(c, flag) == [Execute(Poll(c), flag) EXCEPT !.current_cycle = @ + 1]

(* A tick keeps the invariant of the CPU, and takes no NMI away but at the *)
(* end of the sequence that services it.                                   *)
LEMMA Ticked ==
  ASSUME NEW c, InTick(c), NEW flag \in BOOLEAN, NEW u,
         c.latched_vector = "irq" => u,
         c.pending_interrupt = "irq" /\ ~c.i => u,
         NEW x, x = Ended(c, flag)
  PROVE  /\ x \in CpuState
         /\ SequenceUnderWay(x) /\ LatchKept(x) /\ SnapshotKept(x) /\ HalfFetched(x)
         /\ PolledUnmasked(x, u)
         /\ x.current_cycle = c.current_cycle + 1
         /\ x.hardware_interrupt = c.hardware_interrupt \/ x.finished
         /\ c.op # "brk" => (x.finished <=> c.current_cycle = Ticks[c.op])
         /\ c.op = "brk" => (x.finished <=> c.current_cycle = 7)
         /\ c.pending_interrupt = "nmi" /\ x.pending_interrupt # "nmi" =>
              x.finished /\ x.low_byte = "nmi"
<1>. DEFINE p == Poll(c)
            y == Execute(p, flag)
<1>1. /\ p \in CpuState
      /\ p.pending_interrupt = c.pending_interrupt
      /\ p.low_byte = c.low_byte
      /\ ~p.finished
      /\ p.i <=> c.i
      /\ p.current_cycle = c.current_cycle
      /\ p.hardware_interrupt = c.hardware_interrupt
      /\ p.op = c.op
      /\ p.poll_snapshot <=> Detected(c)
      /\ p.poll_snapshot_vector = IF Detected(c) THEN c.pending_interrupt ELSE "none"
      /\ p.irq_poll <=> c.irq_poll \/ Extra(c)
      /\ p.latched_vector =
           IF Extra(c) /\ (c.latched_vector = "none" \/ c.pending_interrupt = "nmi")
           THEN c.pending_interrupt ELSE c.latched_vector
  BY Polls DEF InTick
<1>2. Extra(c) => /\ c.pending_interrupt # "none"
                  /\ c.op = "brk" \/ c.op \in Branches
                  /\ c.pending_interrupt = "nmi" \/ ~c.i
  BY DEF Extra, Detected
<1>3. Detected(c) => c.pending_interrupt # "none" /\ (c.pending_interrupt = "nmi" \/ ~c.i)
  BY DEF Detected
<1>4. c.pending_interrupt \in {"none", "irq", "nmi"} /\ c.current_cycle \in 1..8
  BY DEF InTick, CpuState, Vectors
<1>5. /\ p.irq_poll <=> p.latched_vector # "none"
      /\ p.irq_poll => p.op = "brk" \/ p.op \in Branches
      /\ p.latched_vector = "nmi" => p.pending_interrupt = "nmi"
  BY <1>1, <1>2, <1>4 DEF InTick, LatchKept
<1>6. /\ p.poll_snapshot <=> p.poll_snapshot_vector # "none"
      /\ p.poll_snapshot_vector = "nmi" => p.pending_interrupt = "nmi"
  BY <1>1, <1>3
<1>7. p.latched_vector = "irq" \/ p.poll_snapshot_vector = "irq" => u
  BY <1>1, <1>2, <1>3, <1>4
<1>8. /\ p.hardware_interrupt # "none" => p.op = "brk"
      /\ p.current_cycle <= Ticks[p.op] /\ p.op \in Kinds
  BY <1>1 DEF InTick, SequenceUnderWay, CpuState
<1>9. p.op = "brk" /\ p.current_cycle = 7 => SequenceVector(p) = p.low_byte
  BY <1>1, LastPoll
<1>. HIDE DEF p
<1>10. ASSUME y \in CpuState, y.current_cycle \in 1..7
       PROVE  /\ x \in CpuState /\ x.current_cycle = y.current_cycle + 1
              /\ x.pending_interrupt = y.pending_interrupt
              /\ x.low_byte = y.low_byte
              /\ x.finished <=> y.finished
              /\ x.hardware_interrupt = y.hardware_interrupt
              /\ x.op = y.op
              /\ x.poll_snapshot <=> y.poll_snapshot
              /\ x.poll_snapshot_vector = y.poll_snapshot_vector
              /\ x.irq_poll <=> y.irq_poll
              /\ x.latched_vector = y.latched_vector
  <2>. DEFINE g == y.current_cycle + 1
  <2>1. g \in 1..8
    BY <1>10
  <2>2. x = [y EXCEPT !.current_cycle = g]
    BY DEF p, Ended
  <2>. HIDE DEF g, y
  <2>3. x \in CpuState /\ x.current_cycle = g
    BY <1>10, <2>1, <2>2 DEF CpuState
  <2>4. /\ x.pending_interrupt = y.pending_interrupt /\ x.low_byte = y.low_byte
        /\ x.finished = y.finished /\ x.hardware_interrupt = y.hardware_interrupt
        /\ x.op = y.op /\ x.poll_snapshot = y.poll_snapshot
        /\ x.poll_snapshot_vector = y.poll_snapshot_vector
        /\ x.irq_poll = y.irq_poll /\ x.latched_vector = y.latched_vector
    BY <1>10, <2>1, <2>2 DEF CpuState
  <2>. QED BY <2>3, <2>4, Zenon DEF g
<1>11. CASE p.op # "brk"
  <2>1. /\ y \in CpuState
        /\ y.pending_interrupt = p.pending_interrupt
        /\ y.low_byte = p.low_byte
        /\ y.finished <=> p.current_cycle = Ticks[p.op]
        /\ y.current_cycle = p.current_cycle
        /\ y.hardware_interrupt = p.hardware_interrupt
        /\ y.op = p.op
        /\ y.poll_snapshot <=> p.poll_snapshot
        /\ y.poll_snapshot_vector = p.poll_snapshot_vector
        /\ y.irq_poll <=> p.irq_poll
        /\ y.latched_vector = p.latched_vector
    BY <1>1, <1>11, Runs
  <2>. HIDE DEF y
  <2>2. Ticks[p.op] \in 2..7 /\ y.current_cycle \in 1..7
    BY <1>1, <1>4, <1>8, <2>1, TicksSo
  <2>3. SequenceUnderWay(x)
    BY <1>1, <1>4, <1>8, <1>10, <1>11, <2>1, <2>2 DEF SequenceUnderWay
  <2>4. LatchKept(x) /\ SnapshotKept(x) /\ HalfFetched(x) /\ PolledUnmasked(x, u)
    BY <1>5, <1>6, <1>7, <1>10, <1>11, <2>1, <2>2
       DEF LatchKept, SnapshotKept, HalfFetched, PolledUnmasked
  <2>. QED BY <1>1, <1>10, <1>11, <2>1, <2>2, <2>3, <2>4
<1>12. CASE p.op = "brk" /\ p.current_cycle = 7
  <2>1. /\ y \in CpuState
        /\ y.pending_interrupt =
             IF SequenceVector(p) = "nmi" THEN "none" ELSE p.pending_interrupt
        /\ y.low_byte = p.low_byte
        /\ y.finished
        /\ y.current_cycle = 7
        /\ y.hardware_interrupt = "none"
        /\ y.op = "brk"
        /\ y.poll_snapshot <=> p.poll_snapshot
        /\ y.poll_snapshot_vector = p.poll_snapshot_vector
        /\ ~y.irq_poll
        /\ y.latched_vector = "none"
    BY <1>1, <1>12, Ends
  <2>. HIDE DEF y
  <2>2. SequenceUnderWay(x) /\ LatchKept(x) /\ SnapshotKept(x) /\ HalfFetched(x)
        /\ PolledUnmasked(x, u)
    BY <1>6, <1>7, <1>10, <2>1
       DEF SequenceUnderWay, LatchKept, SnapshotKept, HalfFetched, PolledUnmasked
  <2>. QED BY <1>1, <1>9, <1>10, <1>12, <2>1, <2>2
<1>13. CASE p.op = "brk" /\ p.current_cycle # 7
  <2>1. /\ y \in CpuState
        /\ y.pending_interrupt = p.pending_interrupt
        /\ y.low_byte = IF p.current_cycle = 6 THEN SequenceVector(p) ELSE p.low_byte
        /\ ~y.finished
        /\ y.current_cycle = p.current_cycle
        /\ y.hardware_interrupt = p.hardware_interrupt
        /\ y.op = "brk"
        /\ y.poll_snapshot <=> p.poll_snapshot
        /\ y.poll_snapshot_vector = p.poll_snapshot_vector
        /\ y.irq_poll <=> p.irq_poll
        /\ y.latched_vector = p.latched_vector
    BY <1>1, <1>13, Handles
  <2>. HIDE DEF y
  <2>2. p.current_cycle \in 1..6
    BY <1>1, <1>4, <1>8, <1>13, TicksSo
  <2>3. SequenceUnderWay(x)
    BY <1>10, <2>1, <2>2, TicksSo DEF SequenceUnderWay
  <2>4. LatchKept(x) /\ SnapshotKept(x) /\ PolledUnmasked(x, u)
    BY <1>5, <1>6, <1>7, <1>10, <1>13, <2>1, <2>2
       DEF LatchKept, SnapshotKept, PolledUnmasked
  <2>5. HalfFetched(x)
    BY <1>10, <2>1, <2>2 DEF HalfFetched, SequenceVector
  <2>. QED BY <1>1, <1>10, <1>13, <2>1, <2>2, <2>3, <2>4, <2>5
<1>. QED BY <1>11, <1>12, <1>13

(* The lines' part in a cycle leaves all but an IRQ alone.                 *)
LEMMA Requested ==
  ASSUME NEW c \in CpuState, NEW x \in {Irq(c), ClearIrq(c)}, NEW u,
         SequenceUnderWay(c), LatchKept(c), SnapshotKept(c), HalfFetched(c),
         PolledUnmasked(c, u)
  PROVE  /\ x \in CpuState
         /\ SequenceUnderWay(x) /\ LatchKept(x) /\ SnapshotKept(x) /\ HalfFetched(x)
         /\ PolledUnmasked(x, u)
         /\ x.finished <=> c.finished
         /\ x.op = c.op /\ x.current_cycle = c.current_cycle
         /\ c.pending_interrupt = "nmi" => x.pending_interrupt = "nmi"
<1>1. PICK v \in Vectors : /\ x = [c EXCEPT !.pending_interrupt = v]
                           /\ v = "nmi" <=> c.pending_interrupt = "nmi"
  <2>1. CASE x = Irq(c)
    BY <2>1 DEF Irq, CpuState, Vectors
  <2>2. CASE x = ClearIrq(c)
    BY <2>2 DEF ClearIrq, CpuState, Vectors
  <2>. QED BY <2>1, <2>2
<1>2. x \in CpuState /\ x.pending_interrupt = v
  BY <1>1 DEF CpuState
<1>3. /\ x.low_byte = c.low_byte /\ x.finished = c.finished
      /\ x.hardware_interrupt = c.hardware_interrupt
      /\ x.op = c.op /\ x.poll_snapshot = c.poll_snapshot
      /\ x.current_cycle = c.current_cycle
      /\ x.poll_snapshot_vector = c.poll_snapshot_vector
      /\ x.irq_poll = c.irq_poll /\ x.latched_vector = c.latched_vector
  BY <1>1 DEF CpuState
<1>4. SequenceVector(x) = SequenceVector(c)
  BY <1>3 DEF SequenceVector
<1>. QED BY <1>1, <1>2, <1>3, <1>4
         DEF SequenceUnderWay, LatchKept, SnapshotKept, HalfFetched, PolledUnmasked

-----------------------------------------------------------------------------
(* The steps                                                               *)

LEMMA Initially == MCInit => IInv
<1>. SUFFICES ASSUME MCInit PROVE IInv
  OBVIOUS
<1>1. PICK b \in BOOLEAN :
        cpu = [pending_interrupt |-> "none", irq_poll |-> FALSE,
               latched_vector |-> "none", poll_snapshot |-> FALSE,
               poll_snapshot_vector |-> "none", hardware_interrupt |-> "none",
               op |-> "brk", current_cycle |-> 1, finished |-> TRUE,
               i |-> b, low_byte |-> "none"]
  BY DEF MCInit, Init
<1>2. cpu \in CpuState
  BY <1>1, TicksSo DEF CpuState, Vectors
<1>3. /\ SequenceUnderWay(cpu) /\ LatchKept(cpu) /\ SnapshotKept(cpu)
      /\ HalfFetched(cpu) /\ PolledUnmasked(cpu, unmasked)
  BY <1>1 DEF SequenceUnderWay, LatchKept, SnapshotKept, HalfFetched, PolledUnmasked
<1>4. nmi = [since |-> 2, vbl |-> FALSE, enable |-> FALSE, line_low |-> FALSE,
             low_for |-> 2, delay |-> 0, requested |-> FALSE,
             cancel_requested |-> FALSE]
  BY DEF MCInit, Init, NmiInit, Source, NmiLineInit
<1>5. NmiTypeOK /\ Level(nmi) /\ nmi.low_for = 2 /\ ~nmi.cancel_requested
  BY <1>4 DEF NmiTypeOK, Level
<1>6. /\ apu_line \in BOOLEAN /\ irq_line \in BOOLEAN /\ unmasked \in BOOLEAN
      /\ gap \in 0..VblGap /\ phase = "lines"
  <2>1. /\ apu_line = FALSE /\ irq_line = FALSE /\ unmasked = FALSE /\ gap = 0
        /\ phase = "lines"
    BY Zenon DEF MCInit, Init
  <2>2. gap \in 0..VblGap
    BY <2>1, CpuInterruptsAssumption
  <2>. QED BY <2>1, <2>2, Zenon
<1>7. TypeOK
  BY <1>2, <1>5, <1>6 DEF TypeOK
<1>8. FallIsFresh /\ CancelledOutside
  BY <1>5 DEF FallIsFresh, CancelledOutside
<1>. QED BY <1>3, <1>5, <1>6, <1>7, <1>8 DEF IInv

(* The request as the CPU's turn finds it.                                 *)
LEMMA Ran ==
  ASSUME IInv, Ppu
  PROVE  /\ nmi' \in NmiState /\ Level(nmi') /\ gap' \in 0..VblGap
         /\ phase = "lines" => (nmi'.low_for <= 1 => gap' = VblGap)
         /\ phase = "lines" =>
              (nmi'.cancel_requested => nmi.cancel_requested \/ cpu.finished)
<1>1. nmi \in NmiState /\ Level(nmi) /\ gap \in 0..VblGap
  BY DEF IInv, TypeOK, NmiTypeOK, NmiState
<1>2. CASE nmi' = SourceCycle(nmi, "none", 1) /\ UNCHANGED gap
  <2>1. /\ nmi' \in NmiState /\ Level(nmi') /\ nmi'.low_for = 2
        /\ nmi'.cancel_requested => nmi.cancel_requested
    BY <1>1, <1>2, ThreeDots
  <2>. QED BY <1>1, <1>2, <2>1
<1>3. ASSUME gap = 0, gap' = VblGap, NEW event \in {"set", "clear"}, NEW d \in 1..3,
             nmi' = SourceCycle(nmi, event, d)
      PROVE  /\ nmi' \in NmiState /\ Level(nmi')
             /\ nmi'.cancel_requested => nmi.cancel_requested \/ nmi.low_for = 0
  BY <1>1, <1>3, ThreeDots
<1>4. CASE gap = 0 /\ gap' = VblGap
             /\ \E event \in {"set", "clear"}, d \in 1..3 :
                  nmi' = SourceCycle(nmi, event, d)
  <2>1. phase = "lines" => (nmi.low_for = 0 => cpu.finished)
    BY <1>4 DEF IInv, FallIsFresh
  <2>. QED BY <1>3, <1>4, <2>1, CpuInterruptsAssumption
<1>. QED BY <1>2, <1>4 DEF Ppu

LEMMA LinesKeep ==
  ASSUME IInv, Lines, UNCHANGED unmasked
  PROVE  IInv'
<1>1. /\ nmi' \in NmiState /\ Level(nmi') /\ gap' \in 0..VblGap
      /\ nmi'.low_for <= 1 => gap' = VblGap
      /\ nmi'.cancel_requested => nmi.cancel_requested \/ cpu.finished
  BY Ran DEF Lines
<1>2. cpu' \in {Irq(cpu), ClearIrq(cpu)}
  BY DEF Lines, Request
<1>3. /\ cpu' \in CpuState
      /\ SequenceUnderWay(cpu') /\ LatchKept(cpu') /\ SnapshotKept(cpu')
      /\ HalfFetched(cpu') /\ PolledUnmasked(cpu', unmasked)
      /\ cpu'.finished <=> cpu.finished
      /\ cpu'.op = cpu.op /\ cpu'.current_cycle = cpu.current_cycle
  BY <1>2, Requested DEF IInv, TypeOK
<1>4. CancelledOutside'
  BY <1>1, <1>3 DEF IInv, CancelledOutside, Accessing
<1>5. FallIsFresh'
  BY <1>1 DEF FallIsFresh, Lines
<1>6. TypeOK'
  BY <1>1, <1>3 DEF TypeOK, NmiTypeOK, NmiState, Lines
<1>. QED BY <1>1, <1>3, <1>4, <1>5, <1>6 DEF IInv

(* A tick of the CPU, of an instruction under way or of a new one.         *)
LEMMA CpuTicks ==
  ASSUME IInv, NEW k \in Kinds, NEW flag \in BOOLEAN, NEW x, x = AfterTick(k, flag),
         NEW u, u <=> (IrqUnmasked \/ (unmasked /\ ~cpu.finished))
  PROVE  /\ x \in CpuState
         /\ SequenceUnderWay(x) /\ LatchKept(x) /\ SnapshotKept(x) /\ HalfFetched(x)
         /\ PolledUnmasked(x, u)
         /\ x # cpu
         /\ cpu.finished => ~x.finished /\ x.hardware_interrupt = DetectedVector(cpu)
         /\ ~cpu.finished /\ cpu.op # "brk" /\ cpu.current_cycle = Ticks[cpu.op]
              => x.finished
         /\ cpu.pending_interrupt = "nmi" /\ x.pending_interrupt # "nmi" =>
              nmi.cancel_requested \/ (x.finished /\ x.low_byte = "nmi")
<1>. DEFINE e == TakeNmi(Boundary(cpu, k), nmi)
            e0 == TakeNmi(Boundary(cpu, "implied"), nmi)
            taken == IF NmiTaken(nmi) THEN "nmi"
                     ELSE IF nmi.cancel_requested /\ cpu.pending_interrupt = "nmi"
                          THEN "none"
                     ELSE cpu.pending_interrupt
<1>1. /\ cpu \in CpuState /\ nmi \in NmiState
      /\ SequenceUnderWay(cpu) /\ LatchKept(cpu) /\ HalfFetched(cpu)
      /\ nmi.cancel_requested => cpu.finished \/ cpu.op = "status"
  BY DEF IInv, TypeOK, NmiTypeOK, NmiState, CancelledOutside
<1>2. /\ InTick(e)
      /\ e.low_byte = cpu.low_byte
      /\ e.i <=> cpu.i
      /\ e.pending_interrupt = taken
      /\ cpu.finished => /\ e.current_cycle = 1 /\ e.latched_vector = "none"
                         /\ e.hardware_interrupt = DetectedVector(cpu)
      /\ ~cpu.finished => /\ e.current_cycle = cpu.current_cycle /\ e.op = cpu.op
                          /\ e.latched_vector = cpu.latched_vector
                          /\ e.hardware_interrupt = cpu.hardware_interrupt
  BY <1>1, Begun
<1>3. (e0.i <=> cpu.i) /\ e0.pending_interrupt = taken
  BY <1>1, TicksSo, Begun
<1>4. IrqUnmasked <=> e0.pending_interrupt = "irq" /\ ~e0.i
  BY DEF IrqUnmasked, Started
<1>5. x = Ended(e, flag)
  BY DEF AfterTick, Started, Ended
<1>. HIDE DEF e, e0, taken
<1>6. e.pending_interrupt = "irq" /\ ~e.i => u
  BY <1>2, <1>3, <1>4
<1>7. e.latched_vector = "irq" => u
  BY <1>2 DEF IInv, PolledUnmasked
<1>8. /\ x \in CpuState
      /\ SequenceUnderWay(x) /\ LatchKept(x) /\ SnapshotKept(x) /\ HalfFetched(x)
      /\ PolledUnmasked(x, u)
      /\ x.current_cycle = e.current_cycle + 1
      /\ x.hardware_interrupt = e.hardware_interrupt \/ x.finished
      /\ e.op # "brk" => (x.finished <=> e.current_cycle = Ticks[e.op])
      /\ e.op = "brk" => (x.finished <=> e.current_cycle = 7)
      /\ e.pending_interrupt = "nmi" /\ x.pending_interrupt # "nmi" =>
           x.finished /\ x.low_byte = "nmi"
  BY <1>2, <1>5, <1>6, <1>7, Ticked
<1>9. e.op \in Kinds /\ cpu.current_cycle \in 1..8 /\ Ticks[e.op] \in 2..7
  BY <1>1, <1>2, TicksSo DEF InTick, CpuState
<1>10. cpu.finished => ~x.finished
  BY <1>2, <1>8, <1>9
<1>11. x # cpu
  BY <1>2, <1>8, <1>9, <1>10
<1>12. cpu.pending_interrupt = "nmi" /\ ~nmi.cancel_requested => e.pending_interrupt = "nmi"
  BY <1>2 DEF taken
<1>. QED BY <1>2, <1>8, <1>10, <1>11, <1>12

(* What a tick of the step, with or without an access, is.                 *)
LEMMA ATick ==
  ASSUME IInv, Tick \/ Access, Observe
  PROVE  \E k \in Kinds, flag \in BOOLEAN :
           /\ cpu' = AfterTick(k, flag)
           /\ unmasked' <=> (IrqUnmasked \/ (unmasked /\ ~cpu.finished))
<1>1. PICK k \in Kinds, flag \in BOOLEAN : cpu' = AfterTick(k, flag)
  <2>1. cpu.op \in Kinds
    BY DEF IInv, TypeOK, CpuState
  <2>2. CASE Tick
    BY <2>1, <2>2 DEF Tick
  <2>3. CASE Access
    <3>1. cpu' = AfterTick(cpu.op, FALSE) /\ FALSE \in BOOLEAN
      BY <2>3, Zenon DEF Access
    <3>. QED BY <2>1, <3>1, Zenon
  <2>. QED BY <2>2, <2>3
<1>2. cpu' # cpu
  BY <1>1, CpuTicks
<1>3. phase = "cpu"
  BY DEF Tick, Access
<1>4. unmasked' = (IrqUnmasked \/ (unmasked /\ ~cpu.finished))
  BY <1>2, <1>3, Zenon DEF Observe
<1>. QED BY <1>1, <1>4, Zenon

LEMMA Ticking ==
  ASSUME IInv, Tick \/ Access, Observe
  PROVE  /\ cpu' \in CpuState
         /\ SequenceUnderWay(cpu') /\ LatchKept(cpu') /\ SnapshotKept(cpu')
         /\ HalfFetched(cpu') /\ PolledUnmasked(cpu', unmasked')
         /\ cpu.finished => /\ ~cpu'.finished
                            /\ cpu'.hardware_interrupt = DetectedVector(cpu)
         /\ Access => cpu'.finished
         /\ cpu.pending_interrupt = "nmi" /\ cpu'.pending_interrupt # "nmi" =>
              nmi.cancel_requested \/ (cpu'.finished /\ cpu'.low_byte = "nmi")
<1>1. PICK k \in Kinds, flag \in BOOLEAN :
           /\ cpu' = AfterTick(k, flag)
           /\ unmasked' <=> (IrqUnmasked \/ (unmasked /\ ~cpu.finished))
  BY ATick
<1>2. Access => ~cpu.finished /\ cpu.op # "brk" /\ cpu.current_cycle = Ticks[cpu.op]
  BY TicksSo DEF Access, Accessing
<1>. QED BY <1>1, <1>2, CpuTicks

LEMMA TickKeeps ==
  ASSUME IInv, Tick, Observe
  PROVE  IInv'
<1>1. /\ cpu' \in CpuState
      /\ SequenceUnderWay(cpu') /\ LatchKept(cpu') /\ SnapshotKept(cpu')
      /\ HalfFetched(cpu') /\ PolledUnmasked(cpu', unmasked')
  BY Ticking
<1>2. nmi \in NmiState /\ Level(nmi) /\ gap \in 0..VblGap
  BY DEF IInv, TypeOK, NmiTypeOK, NmiState
<1>3. /\ nmi' \in NmiState /\ Level(nmi') /\ ~nmi'.cancel_requested
      /\ nmi'.low_for = nmi.low_for
  BY <1>2, Checked DEF Tick
<1>4. nmi.low_for <= 1 => gap = VblGap
  BY DEF IInv, FallIsFresh, Tick
<1>5. /\ gap' \in 0..VblGap /\ gap' >= gap - 1 /\ phase' \in {"lines", "cpu"}
      /\ phase' = "cpu" => gap' = gap
  BY <1>2, CpuInterruptsAssumption DEF Tick, Counted
<1>6. FallIsFresh'
  BY <1>2, <1>3, <1>4, <1>5, CpuInterruptsAssumption DEF FallIsFresh
<1>7. CancelledOutside'
  BY <1>3 DEF CancelledOutside
<1>8. TypeOK'
  BY <1>1, <1>3, <1>5 DEF IInv, TypeOK, NmiTypeOK, NmiState, Tick
<1>9. unmasked' \in BOOLEAN
  BY Zenon DEF IInv, Observe, IrqUnmasked
<1>. QED BY <1>1, <1>3, <1>6, <1>7, <1>8, <1>9 DEF IInv

LEMMA AccessKeeps ==
  ASSUME IInv, Access, Observe
  PROVE  IInv'
<1>1. /\ cpu' \in CpuState /\ cpu'.finished
      /\ SequenceUnderWay(cpu') /\ LatchKept(cpu') /\ SnapshotKept(cpu')
      /\ HalfFetched(cpu') /\ PolledUnmasked(cpu', unmasked')
  BY Ticking
<1>2. nmi \in NmiState /\ Level(nmi) /\ gap \in 0..VblGap
  BY DEF IInv, TypeOK, NmiTypeOK, NmiState
<1>3. AfterChecks(nmi) \in NmiState /\ Level(AfterChecks(nmi))
  BY <1>2, Checked
<1>4. nmi' \in NmiState /\ Level(nmi')
  <2>1. \/ nmi' = ReadStatus(AfterChecks(nmi))
        \/ \E e \in BOOLEAN : nmi' = ControlWrite(AfterChecks(nmi), e)
        \/ nmi' = AfterChecks(nmi)
    BY Zenon DEF Access
  <2>. QED BY <1>3, <2>1, StatusWasRead, ControlWasWritten
<1>5. gap' \in 0..VblGap /\ phase' = "lines"
  BY <1>2, CpuInterruptsAssumption DEF Access, Counted
<1>6. FallIsFresh' /\ CancelledOutside'
  BY <1>1, <1>5 DEF FallIsFresh, CancelledOutside
<1>7. apu_line' \in BOOLEAN /\ irq_line' \in BOOLEAN
  BY DEF IInv, TypeOK, Access
<1>8. TypeOK'
  BY <1>1, <1>4, <1>5, <1>7 DEF TypeOK, NmiTypeOK, NmiState
<1>9. unmasked' \in BOOLEAN
  BY Zenon DEF IInv, Observe, IrqUnmasked
<1>. QED BY <1>1, <1>4, <1>6, <1>8, <1>9 DEF IInv

LEMMA StallKeeps ==
  ASSUME IInv, Stall, Observe
  PROVE  IInv' /\ UNCHANGED <<cpu, unmasked>>
<1>1. cpu' = cpu /\ gap' = gap /\ phase = "cpu" /\ phase' = "lines"
  BY DEF Stall
<1>2. unmasked' = unmasked
  BY <1>1 DEF Observe
<1>3. nmi \in NmiState /\ Level(nmi) /\ gap \in 0..VblGap
  BY DEF IInv, TypeOK, NmiTypeOK, NmiState
<1>4. /\ nmi' \in NmiState /\ Level(nmi')
      /\ nmi'.low_for <= 1 => nmi.low_for <= 1
      /\ nmi' = nmi \/ cpu.finished \/ (Accessing /\ cpu.op = "status")
  <2>1. \/ nmi' = ReadStatus(nmi) /\ (cpu.finished \/ (Accessing /\ cpu.op = "status"))
        \/ nmi' = nmi
    BY DEF Stall, Copying
  <2>. QED BY <1>3, <2>1, StatusWasRead
<1>5. FallIsFresh'
  BY <1>1, <1>3, <1>4, CpuInterruptsAssumption DEF IInv, FallIsFresh
<1>6. CancelledOutside'
  BY <1>1, <1>4 DEF IInv, CancelledOutside, Accessing
<1>7. apu_line' \in BOOLEAN /\ irq_line' \in BOOLEAN
  BY DEF IInv, TypeOK, Stall
<1>8. TypeOK'
  BY <1>1, <1>3, <1>4, <1>7 DEF IInv, TypeOK, NmiTypeOK, NmiState
<1>. QED BY <1>1, <1>2, <1>4, <1>5, <1>6, <1>8 DEF IInv

LEMMA Invariance == IInv /\ [Next /\ Observe]_MCvars => IInv'
<1>. SUFFICES ASSUME IInv, [Next /\ Observe]_MCvars PROVE IInv'
  OBVIOUS
<1>1. CASE Lines /\ Observe
  <2>1. UNCHANGED unmasked
    BY <1>1 DEF Lines, Observe
  <2>. QED BY <1>1, <2>1, LinesKeep
<1>2. CASE Tick /\ Observe
  BY <1>2, TickKeeps
<1>3. CASE Access /\ Observe
  BY <1>3, AccessKeeps
<1>4. CASE Stall /\ Observe
  BY <1>4, StallKeeps
<1>5. CASE UNCHANGED MCvars
  BY <1>5 DEF MCvars, vars, IInv, TypeOK, NmiTypeOK, FallIsFresh, CancelledOutside,
              Accessing
<1>. QED BY <1>1, <1>2, <1>3, <1>4, <1>5 DEF Next

-----------------------------------------------------------------------------
(* The results                                                             *)

(* Every state of the CPU's interrupts is of its type, for every distance  *)
(* of the changes of VBL.                                                  *)
THEOREM CpuInterruptsTypeOK == MCSpec => []TypeOK
<1>1. IInv => TypeOK
  BY DEF IInv
<1>. QED BY <1>1, Initially, Invariance, PTL DEF MCSpec

(* Cpu2::tick's boundary starts an NMI sequence only for a request that is *)
(* still pending: no poll of the sequence itself starts it again.          *)
THEOREM NmiOnce == MCSpec => NmiServicedOnce
<1>1. IInv /\ [Next /\ Observe]_MCvars
        => [Begins("nmi") => cpu.pending_interrupt = "nmi"]_vars
  <2>. SUFFICES ASSUME IInv, Next /\ Observe, Begins("nmi")
                PROVE  cpu.pending_interrupt = "nmi"
    BY DEF MCvars, vars
  <2>1. CASE Lines
    <3>1. cpu'.finished <=> cpu.finished
      BY <2>1, Requested DEF IInv, TypeOK, Lines, Request
    <3>. QED BY <3>1 DEF Begins
  <2>2. CASE Tick \/ Access
    <3>1. DetectedVector(cpu) = "nmi" /\ cpu.finished
      BY <2>2, Ticking DEF Begins
    <3>. QED BY <3>1, Detects DEF IInv, TypeOK, LatchKept, SnapshotKept, NoFinalPoll
  <2>3. CASE Stall
    BY <2>3 DEF Stall, Begins
  <2>. QED BY <2>1, <2>2, <2>3 DEF Next
<1>. QED BY <1>1, Initially, Invariance, PTL DEF MCSpec, NmiServicedOnce

(* A pending NMI leaves only by being cancelled or by the sequence that    *)
(* fetched its vector.                                                     *)
THEOREM NmiKept == MCSpec => NmiNotLost
<1>1. IInv /\ [Next /\ Observe]_MCvars
        => [cpu.pending_interrupt = "nmi" /\ cpu'.pending_interrupt # "nmi" =>
              nmi.cancel_requested \/ (cpu'.finished /\ cpu'.low_byte = "nmi")]_vars
  <2>. SUFFICES ASSUME IInv, Next /\ Observe, cpu.pending_interrupt = "nmi",
                       cpu'.pending_interrupt # "nmi"
                PROVE  nmi.cancel_requested \/ (cpu'.finished /\ cpu'.low_byte = "nmi")
    BY DEF MCvars, vars
  <2>1. CASE Lines
    BY <2>1, Requested DEF IInv, TypeOK, Lines, Request
  <2>2. CASE Tick \/ Access
    BY <2>2, Ticking
  <2>3. CASE Stall
    BY <2>3 DEF Stall
  <2>. QED BY <2>1, <2>2, <2>3 DEF Next
<1>. QED BY <1>1, Initially, Invariance, PTL DEF MCSpec, NmiNotLost

(* The vector's second byte is of the vector whose first byte was fetched, *)
(* whatever came up or was cancelled in between.                           *)
THEOREM VectorOfOne == MCSpec => VectorWhole
<1>1. IInv /\ phase = "cpu" /\ ~cpu.finished /\ cpu.op = "brk" /\ cpu.current_cycle = 7
        => SequenceVector(Poll(Started("implied"))) = cpu.low_byte
  <2>. SUFFICES ASSUME IInv, ~cpu.finished, cpu.op = "brk", cpu.current_cycle = 7
                PROVE  SequenceVector(Poll(Started("implied"))) = cpu.low_byte
    OBVIOUS
  <2>. DEFINE e == Started("implied")
  <2>1. /\ InTick(e) /\ e.low_byte = cpu.low_byte /\ e.op = "brk"
        /\ e.current_cycle = 7
    <3>1. /\ cpu \in CpuState /\ nmi \in NmiState
          /\ SequenceUnderWay(cpu) /\ LatchKept(cpu) /\ HalfFetched(cpu)
          /\ nmi.cancel_requested => cpu.finished \/ cpu.op = "status"
      BY DEF IInv, TypeOK, NmiTypeOK, NmiState, CancelledOutside
    <3>. QED BY <3>1, TicksSo, Begun DEF Started
  <2>. HIDE DEF e
  <2>2. SequenceVector(Poll(e)) = e.low_byte
    BY <2>1, LastPoll
  <2>. QED BY <2>1, <2>2 DEF e
<1>2. IInv /\ [Next /\ Observe]_MCvars
        => [phase = "cpu" /\ ~cpu.finished /\ cpu.op = "brk" /\ cpu.current_cycle = 7
              /\ cpu'.finished
              => SequenceVector(Poll(Started("implied"))) = cpu.low_byte]_vars
  BY <1>1
<1>. QED BY <1>2, Initially, Invariance, PTL DEF MCSpec, VectorWhole

(* An IRQ sequence begins only for a line that was up with the I flag      *)
(* clear at some cycle of the instruction before it.                       *)
THEOREM IrqSeenUnmasked == MCSpec => MaskedIrqNotServiced
<1>1. IInv /\ [Next /\ Observe]_MCvars => [Begins("irq") => unmasked]_MCvars
  <2>. SUFFICES ASSUME IInv, Next /\ Observe, Begins("irq")
                PROVE  unmasked
    BY DEF MCvars
  <2>1. CASE Lines
    <3>1. cpu'.finished <=> cpu.finished
      BY <2>1, Requested DEF IInv, TypeOK, Lines, Request
    <3>. QED BY <3>1 DEF Begins
  <2>2. CASE Tick \/ Access
    <3>1. DetectedVector(cpu) = "irq" /\ cpu.finished
      BY <2>2, Ticking DEF Begins
    <3>2. cpu.poll_snapshot_vector \in {"none", "irq", "nmi"}
      BY DEF IInv, TypeOK, CpuState, Vectors
    <3>3. CASE cpu.irq_poll
      BY <3>1, <3>3 DEF DetectedVector, IInv, LatchKept, PolledUnmasked
    <3>4. CASE ~cpu.irq_poll
      <4>1. ~NoFinalPoll(cpu) /\ cpu.poll_snapshot /\ cpu.pending_interrupt # "nmi"
        BY <3>1, <3>4 DEF DetectedVector
      <4>. QED BY <3>2, <4>1 DEF IInv, SnapshotKept, PolledUnmasked, NoFinalPoll
    <3>. QED BY <3>3, <3>4
  <2>3. CASE Stall
    BY <2>3 DEF Stall, Begins
  <2>. QED BY <2>1, <2>2, <2>3 DEF Next
<1>. QED BY <1>1, Initially, Invariance, PTL DEF MCSpec, MaskedIrqNotServiced

-----------------------------------------------------------------------------
(* The instruction table                                                   *)

Loads ==
  {"LDA", "LDX", "LDY", "EOR", "AND", "ORA", "ADC", "SBC", "USBC", "CMP", "CPX", "CPY", "BIT",
   "LAX", "LXA", "LAS", "ANC", "ALR", "ARR", "ANE", "SBX", "NOP"}

Implied == Flags \union Transfers \union {"NOP", "BRK", "RTI", "RTS", "PHA", "PHP", "PLA", "PLP"}

Indexing == {"absx", "absy", "indy"}
Direct == {"abs", "zp", "zpx", "zpy", "indx"}

(* The instructions and their addressing modes.                            *)
Known(op, mode) ==
  \/ op = "JAM"
  \/ op \in BranchOps /\ mode = "rel"
  \/ op = "JSR" /\ mode = "abs"
  \/ op = "JMP" /\ mode \in {"abs", "ind"}
  \/ op \in {"ASL", "LSR", "ROL", "ROR"} /\ mode = "acc"
  \/ op \in Official /\ mode \in {"abs", "zp", "zpx", "absx"}
  \/ op \in Unofficial /\ mode \in {"abs", "zp", "zpx", "indx"} \union Indexing
  \/ op \in Stores /\ mode \in Direct \union {"absx", "absy"}
  \/ op \in {"STA"} \union Unstable /\ mode = "indy"
  \/ op \in Implied /\ mode = "impl"
  \/ op \in Loads /\ mode \in {"imm"} \union Direct \union Indexing

LEMMA Quarters ==
  /\ \A k \in 1 .. 64 : Known(Operands_00_3f[k][1], Operands_00_3f[k][2])
  /\ \A k \in 1 .. 64 : Known(Operands_40_7f[k][1], Operands_40_7f[k][2])
  /\ \A k \in 1 .. 64 : Known(Operands_80_bf[k][1], Operands_80_bf[k][2])
  /\ \A k \in 1 .. 64 : Known(Operands_c0_ff[k][1], Operands_c0_ff[k][2])
<1>. USE DEF Known, BranchOps, Official, Unofficial, Stores, Unstable, Implied, Flags, Transfers,
             Loads, Direct, Indexing
<1>1. \A k \in 1 .. 64 : Known(Operands_00_3f[k][1], Operands_00_3f[k][2])
  BY DEF Operands_00_3f
<1>2. \A k \in 1 .. 64 : Known(Operands_40_7f[k][1], Operands_40_7f[k][2])
  BY DEF Operands_40_7f
<1>3. \A k \in 1 .. 64 : Known(Operands_80_bf[k][1], Operands_80_bf[k][2])
  BY DEF Operands_80_bf
<1>4. \A k \in 1 .. 64 : Known(Operands_c0_ff[k][1], Operands_c0_ff[k][2])
  BY DEF Operands_c0_ff
<1>. QED BY <1>1, <1>2, <1>3, <1>4

LEMMA Joined ==
  ASSUME NEW S, NEW s \in Seq(S), NEW t \in Seq(S)
  PROVE  /\ s \o t \in Seq(S) /\ Len(s \o t) = Len(s) + Len(t)
         /\ \A k \in 1 .. Len(s) : (s \o t)[k] = s[k]
         /\ \A k \in 1 .. Len(t) : (s \o t)[Len(s) + k] = t[k]
<1>1. /\ s \o t \in Seq(S) /\ Len(s \o t) = Len(s) + Len(t)
      /\ \A k \in 1 .. Len(s) : (s \o t)[k] = s[k]
  OBVIOUS
<1>2. ASSUME NEW k \in 1 .. Len(t) PROVE (s \o t)[Len(s) + k] = t[k]
  OBVIOUS
<1>. QED BY <1>1, <1>2

(* The table is its four quarters.                                         *)
LEMMA Quarter ==
  ASSUME NEW k \in 1 .. 64
  PROVE  /\ Operand(k - 1) = Operands_00_3f[k] /\ Operand(k + 63) = Operands_40_7f[k]
         /\ Operand(k + 127) = Operands_80_bf[k] /\ Operand(k + 191) = Operands_c0_ff[k]
<1>. DEFINE q1 == Operands_00_3f
            q2 == Operands_40_7f
            q3 == Operands_80_bf
            q4 == Operands_c0_ff
            m == 64
<1>. DEFINE S == {q1[n] : n \in 1 .. m} \union {q2[n] : n \in 1 .. m}
                   \union {q3[n] : n \in 1 .. m} \union {q4[n] : n \in 1 .. m}
<1>1. Len(q1) = m /\ q1 = [n \in 1 .. m |-> q1[n]]
  BY DEF Operands_00_3f
<1>2. Len(q2) = m /\ q2 = [n \in 1 .. m |-> q2[n]]
  BY DEF Operands_40_7f
<1>3. Len(q3) = m /\ q3 = [n \in 1 .. m |-> q3[n]]
  BY DEF Operands_80_bf
<1>4. Len(q4) = m /\ q4 = [n \in 1 .. m |-> q4[n]]
  BY DEF Operands_c0_ff
<1>5. m \in Nat /\ k \in 1 .. m
  OBVIOUS
<1>6. /\ (k - 1) + 1 = k /\ (k + 63) + 1 = m + k /\ (k + 127) + 1 = m + m + k
      /\ (k + 191) + 1 = m + m + m + k
  OBVIOUS
<1>. HIDE DEF q1, q2, q3, q4, m
<1>7. \A n \in 1 .. m : q1[n] \in S /\ q2[n] \in S /\ q3[n] \in S /\ q4[n] \in S
  BY Zenon
<1>. HIDE DEF S
<1>8. q1 \in Seq(S) /\ q2 \in Seq(S) /\ q3 \in Seq(S) /\ q4 \in Seq(S)
  <2>1. q1 \in Seq(S)
    BY <1>1, <1>5, <1>7
  <2>2. q2 \in Seq(S)
    BY <1>2, <1>5, <1>7
  <2>3. q3 \in Seq(S)
    BY <1>3, <1>5, <1>7
  <2>4. q4 \in Seq(S)
    BY <1>4, <1>5, <1>7
  <2>. QED BY <2>1, <2>2, <2>3, <2>4
<1>9. \A n \in 1 .. m :
        /\ (q1 \o q2 \o q3 \o q4)[n] = q1[n] /\ (q1 \o q2 \o q3 \o q4)[m + n] = q2[n]
        /\ (q1 \o q2 \o q3 \o q4)[m + m + n] = q3[n]
        /\ (q1 \o q2 \o q3 \o q4)[m + m + m + n] = q4[n]
  <2>. SUFFICES ASSUME NEW n \in 1 .. m
                PROVE  /\ (q1 \o q2 \o q3 \o q4)[n] = q1[n]
                       /\ (q1 \o q2 \o q3 \o q4)[m + n] = q2[n]
                       /\ (q1 \o q2 \o q3 \o q4)[m + m + n] = q3[n]
                       /\ (q1 \o q2 \o q3 \o q4)[m + m + m + n] = q4[n]
    BY Zenon
  <2>0. Len(q1) = m /\ Len(q2) = m /\ Len(q3) = m /\ Len(q4) = m
    BY <1>1, <1>2, <1>3, <1>4
  <2>. DEFINE a == q1 \o q2
  <2>1. /\ a \in Seq(S) /\ Len(a) = Len(q1) + Len(q2)
        /\ \A l \in 1 .. Len(q1) : a[l] = q1[l]
        /\ \A l \in 1 .. Len(q2) : a[Len(q1) + l] = q2[l]
    <3>1. a \in Seq(S) /\ Len(a) = Len(q1) + Len(q2)
      BY <1>8
    <3>2. /\ \A l \in 1 .. Len(q1) : a[l] = q1[l]
          /\ \A l \in 1 .. Len(q2) : a[Len(q1) + l] = q2[l]
      BY <1>8, Joined
    <3>. QED BY <3>1, <3>2, Zenon
  <2>. HIDE DEF a
  <2>. DEFINE b == a \o q3
  <2>2. /\ b \in Seq(S) /\ Len(b) = Len(a) + Len(q3)
        /\ \A l \in 1 .. Len(a) : b[l] = a[l]
        /\ \A l \in 1 .. Len(q3) : b[Len(a) + l] = q3[l]
    <3>1. a \in Seq(S)
      BY <2>1
    <3>2. b \in Seq(S) /\ Len(b) = Len(a) + Len(q3)
      BY <1>8, <3>1, Joined
    <3>3. /\ \A l \in 1 .. Len(a) : b[l] = a[l]
          /\ \A l \in 1 .. Len(q3) : b[Len(a) + l] = q3[l]
      BY <1>8, <3>1, Joined
    <3>. QED BY <3>2, <3>3, Zenon
  <2>. HIDE DEF b
  <2>. DEFINE c == b \o q4
  <2>3. /\ \A l \in 1 .. Len(b) : c[l] = b[l]
        /\ \A l \in 1 .. Len(q4) : c[Len(b) + l] = q4[l]
    BY <1>8, <2>2, Joined
  <2>. HIDE DEF c
  <2>4. c[n] = q1[n] /\ c[m + n] = q2[n] /\ c[m + m + n] = q3[n]
    <3>1. a[n] = q1[n] /\ a[m + n] = q2[n] /\ Len(a) = m + m /\ Len(b) = m + m + m
      BY <1>5, <2>0, <2>1, <2>2
    <3>2. b[n] = q1[n] /\ b[m + n] = q2[n] /\ b[m + m + n] = q3[n]
      BY <1>5, <2>0, <2>2, <3>1
    <3>3. n \in 1 .. Len(b) /\ m + n \in 1 .. Len(b) /\ m + m + n \in 1 .. Len(b)
      BY <1>5, <3>1
    <3>. QED BY <2>3, <3>2, <3>3, Zenon
  <2>5. c[m + m + m + n] = q4[n]
    BY <1>5, <2>0, <2>1, <2>2, <2>3
  <2>. QED BY <2>4, <2>5, Zenon DEF a, b, c
<1>. DEFINE q == q1 \o q2 \o q3 \o q4
<1>10. \A o : Operand(o) = q[o + 1]
  BY Zenon DEF Operand, OPERANDS_6502, q1, q2, q3, q4
<1>. HIDE DEF q
<1>11. /\ Operand(k - 1) = q1[k] /\ Operand(k + 63) = q2[k] /\ Operand(k + 127) = q3[k]
       /\ Operand(k + 191) = q4[k]
  <2>1. q[k] = q1[k] /\ q[m + k] = q2[k] /\ q[m + m + k] = q3[k] /\ q[m + m + m + k] = q4[k]
    BY <1>5, <1>9, Zenon DEF q
  <2>. QED BY <1>6, <1>10, <2>1, Zenon
<1>. QED BY <1>11, Zenon DEF q1, q2, q3, q4

LEMMA Places256 ==
  ASSUME NEW o \in Byte
  PROVE  \E k \in 1 .. 64 : o = k - 1 \/ o = k + 63 \/ o = k + 127 \/ o = k + 191
<1>1. o \in 0 .. 255
  BY DEF Byte
<1>2. CASE o < 64
  BY <1>1, <1>2, o + 1 \in 1 .. 64
<1>3. CASE o >= 64 /\ o < 128
  BY <1>1, <1>3, o - 63 \in 1 .. 64
<1>4. CASE o >= 128 /\ o < 192
  BY <1>1, <1>4, o - 127 \in 1 .. 64
<1>5. CASE o >= 192
  BY <1>1, <1>5, o - 191 \in 1 .. 64
<1>. QED BY <1>1, <1>2, <1>3, <1>4, <1>5

LEMMA EveryOpcode ==
  ASSUME NEW o \in Byte
  PROVE  Known(Mnemonic(o), AddressingType(o))
<1>1. PICK k \in 1 .. 64 : o = k - 1 \/ o = k + 63 \/ o = k + 127 \/ o = k + 191
  BY Places256
<1>2. \/ Operand(o) = Operands_00_3f[k] \/ Operand(o) = Operands_40_7f[k]
      \/ Operand(o) = Operands_80_bf[k] \/ Operand(o) = Operands_c0_ff[k]
  BY <1>1, Quarter, Zenon
<1>. QED BY <1>2, Quarters, Zenon DEF Mnemonic, AddressingType

-----------------------------------------------------------------------------
(* The fields of the struct and their types                                 *)

Fields == Registers \union DOMAIN New

Kind(field) ==
  CASE field \in {"a", "x", "y", "s", "current_opcode", "low_byte", "current_value",
                  "base_high"} -> Byte
    [] field \in {"pc", "current_address", "pointer"} -> Word
    [] field \in {"current_cycle", "instruction_cycles"} -> Nat
    [] field = "mem" -> UNION {[places -> Byte] : places \in SUBSET Word}
    [] field = "hardware_interrupt" -> {None} \union DOMAIN VectorAddress
    [] OTHER -> BOOLEAN

Typed(c) == DOMAIN c = Fields /\ \A field \in Fields \ {"bus"} : c[field] \in Kind(field)

LEMMA KindOf ==
  /\ \A f \in {"a", "x", "y", "s", "current_opcode", "low_byte", "current_value", "base_high"} :
        f \in Fields /\ Kind(f) = Byte
  /\ \A f \in {"pc", "current_address", "pointer"} : f \in Fields /\ Kind(f) = Word
  /\ \A f \in {"current_cycle", "instruction_cycles"} : f \in Fields /\ Kind(f) = Nat
  /\ \A f \in {"n", "v", "d", "i", "z", "c", "finished", "no_increment", "page_crossed",
               "latched_nmi", "dma_on_previous_cycle"} : f \in Fields /\ Kind(f) = BOOLEAN
  /\ "mem" \in Fields /\ Kind("mem") = UNION {[places -> Byte] : places \in SUBSET Word}
  /\ "hardware_interrupt" \in Fields /\ Kind("hardware_interrupt") = {None} \union DOMAIN VectorAddress
  /\ "bus" \in Fields
BY DEF Fields, Registers, New, Kind

LEMMA Update ==
  ASSUME NEW c, Typed(c), NEW f \in Fields, NEW v, f = "bus" \/ v \in Kind(f)
  PROVE  Typed([c EXCEPT ![f] = v])
BY DEF Typed

LEMMA Types ==
  ASSUME NEW c, Typed(c)
  PROVE  /\ c.a \in Byte /\ c.x \in Byte /\ c.y \in Byte /\ c.s \in Byte /\ c.current_opcode \in Byte
         /\ c.low_byte \in Byte /\ c.current_value \in Byte /\ c.base_high \in Byte
         /\ c.pc \in Word /\ c.current_address \in Word /\ c.pointer \in Word
         /\ c.current_cycle \in Nat /\ c.instruction_cycles \in Nat 
         /\ c.n \in BOOLEAN /\ c.v \in BOOLEAN /\ c.d \in BOOLEAN /\ c.i \in BOOLEAN /\ c.z \in BOOLEAN
         /\ c.c \in BOOLEAN /\ c.finished \in BOOLEAN /\ c.no_increment \in BOOLEAN /\ c.page_crossed \in BOOLEAN
         /\ c.latched_nmi \in BOOLEAN /\ c.dma_on_previous_cycle \in BOOLEAN
BY KindOf DEF Typed

LEMMA AtByte ==
  ASSUME NEW c, Typed(c), NEW address \in Word
  PROVE  At(c, address) \in Byte
<1>1. c.mem \in Kind("mem")
  BY KindOf DEF Typed
<1>2. PICK places \in SUBSET Word : c.mem \in [places -> Byte]
  BY <1>1, KindOf
<1>. QED BY <1>2, Cpu2Assumption DEF At

LEMMA Range ==
  ASSUME NEW t \in Int
  PROVE  \A n : n \in 0 .. t <=> n \in Int /\ 0 <= n /\ n <= t
OBVIOUS

LEMMA WordIs ==
  \A n : n \in Word <=> n \in Int /\ 0 <= n /\ n <= 65535
<1>0. LastWord \in Int
  BY DEF LastWord
<1>1. LastWord = 65535
  BY DEF LastWord
<1>2. \A n : n \in Word <=> n \in Int /\ 0 <= n /\ n <= LastWord
  BY <1>0, Range, Zenon DEF Word
<1>. QED BY <1>1, <1>2

LEMMA ByteIs ==
  \A n : n \in Byte <=> n \in Int /\ 0 <= n /\ n <= 255
BY DEF Byte

LEMMA ShiftWord ==
  ASSUME NEW address \in Int, NEW by \in Int
  PROVE  Shift(address, by) \in Word
BY WordIs DEF Shift

-----------------------------------------------------------------------------
(* A step of an instruction makes one access and leaves the books alone     *)

(* What no step but the last of an instruction touches.                     *)
Books ==
  {"current_cycle", "current_opcode", "hardware_interrupt", "no_increment", "instruction_cycles",
   "finished"}

Kept(c, d) == Typed(d) /\ d.bus = c.bus /\ \A f \in Books : d[f] = c[f]

Accessed(c, d) == Typed(d) /\ c.bus = <<>> /\ Len(d.bus) = 1 /\ \A f \in Books : d[f] = c[f]

Free == Fields \ (Books \union {"bus"})

LEMMA FreeFields ==
  /\ Free \subseteq Fields
  /\ {"a", "x", "y", "s", "pc", "n", "v", "d", "i", "z", "c", "mem", "low_byte", "pointer",
      "current_address", "current_value", "page_crossed", "base_high", "latched_nmi",
      "dma_on_previous_cycle"} \subseteq Free
  /\ Books \subseteq Fields /\ "bus" \in Fields
BY DEF Free, Fields, Books, Registers, New

LEMMA KeptUpdate ==
  ASSUME NEW c, Typed(c), NEW f \in Free, NEW v \in Kind(f)
  PROVE  Kept(c, [c EXCEPT ![f] = v])
<1>1. Typed([c EXCEPT ![f] = v])
  BY Update, FreeFields
<1>2. DOMAIN c = Fields
  BY DEF Typed
<1>. QED BY <1>1, <1>2, FreeFields DEF Kept, Free

LEMMA KeptKept ==
  ASSUME NEW c, NEW d, NEW e, Kept(c, d), Kept(d, e)
  PROVE  Kept(c, e)
BY DEF Kept

LEMMA AccessedKept ==
  ASSUME NEW c, NEW d, NEW e, Accessed(c, d), Kept(d, e)
  PROVE  Accessed(c, e)
BY DEF Kept, Accessed

LEMMA KeptAccessed ==
  ASSUME NEW c, NEW d, NEW e, Kept(c, d), Accessed(d, e)
  PROVE  Accessed(c, e)
BY DEF Kept, Accessed

LEMMA ReadingAccess ==
  ASSUME NEW c, Typed(c), c.bus = <<>>, NEW address
  PROVE  Accessed(c, Reading(c, address))
<1>1. Typed(Reading(c, address))
  BY Update, KindOf DEF Reading
<1>2. DOMAIN c = Fields
  BY DEF Typed
<1>3. Reading(c, address).bus = Append(<<>>, <<"read", address>>)
  BY <1>2, FreeFields DEF Reading
<1>4. \A f \in Books : Reading(c, address)[f] = c[f]
  BY <1>2, FreeFields DEF Reading, Books
<1>. QED BY <1>1, <1>3, <1>4 DEF Accessed

LEMMA WrittenTyped ==
  ASSUME NEW c, Typed(c), NEW address \in Word, NEW value \in Byte
  PROVE  Written(c.mem, address, value) \in Kind("mem")
<1>1. c.mem \in UNION {[places -> Byte] : places \in SUBSET Word}
  BY KindOf DEF Typed
<1>2. PICK places \in SUBSET Word : c.mem \in [places -> Byte]
  BY <1>1
<1>3. Written(c.mem, address, value) \in [places \union {address} -> Byte]
  BY <1>2 DEF Written
<1>. QED BY <1>3, KindOf

LEMMA WritingAccess ==
  ASSUME NEW c, Typed(c), c.bus = <<>>, NEW address \in Word, NEW value \in Byte
  PROVE  Accessed(c, Writing(c, address, value))
<1>. DEFINE d == [c EXCEPT !.mem = Written(c.mem, address, value)]
<1>1. Kept(c, d)
  BY WrittenTyped, KeptUpdate, FreeFields
<1>2. Writing(c, address, value) = [d EXCEPT !.bus = Append(c.bus, <<"write", address>>)]
  BY DEF Writing
<1>3. Typed(d) /\ d.bus = <<>>
  BY <1>1 DEF Kept
<1>. HIDE DEF d
<1>4. Typed(Writing(c, address, value))
  BY <1>2, <1>3, Update, KindOf
<1>5. DOMAIN d = Fields
  BY <1>3 DEF Typed
<1>6. Writing(c, address, value).bus = Append(<<>>, <<"write", address>>)
  BY <1>1, <1>2, <1>3, <1>5, FreeFields DEF Kept
<1>7. \A f \in Books : Writing(c, address, value)[f] = c[f]
  BY <1>1, <1>2, <1>5, FreeFields DEF Books, Kept
<1>. QED BY <1>4, <1>6, <1>7 DEF Accessed, Typed

-----------------------------------------------------------------------------
(* Bitwise operations on bytes stay within bytes                            *)

Weights == {1, 2, 4, 8, 16, 32, 64, 128}

LEMMA BitIs ==
  ASSUME NEW n \in Int, NEW weight \in Weights
  PROVE  Bit(n, weight) \in {0, 1}
<1>1. n \div weight \in Int
  BY DEF Weights
<1>2. \A k \in Int : k % 2 \in {0, 1}
  OBVIOUS
<1>. QED BY <1>1, <1>2, Zenon DEF Bit

LEMMA BitsOf ==
  ASSUME NEW n \in Byte
  PROVE  n = Bit(n, 1) + 2 * Bit(n, 2) + 4 * Bit(n, 4) + 8 * Bit(n, 8) + 16 * Bit(n, 16)
               + 32 * Bit(n, 32) + 64 * Bit(n, 64) + 128 * Bit(n, 128)
<1>0. n \in Int /\ 0 <= n /\ n <= 255
  BY ByteIs
<1>1. n \div 1 = 2 * (n \div 2) + Bit(n, 1) /\ n \div 1 \in Int
  BY <1>0 DEF Bit
<1>2. n \div 2 = 2 * (n \div 4) + Bit(n, 2) /\ n \div 2 \in Int
  BY <1>0 DEF Bit
<1>3. n \div 4 = 2 * (n \div 8) + Bit(n, 4) /\ n \div 4 \in Int
  BY <1>0 DEF Bit
<1>4. n \div 8 = 2 * (n \div 16) + Bit(n, 8) /\ n \div 8 \in Int
  BY <1>0 DEF Bit
<1>5. n \div 16 = 2 * (n \div 32) + Bit(n, 16) /\ n \div 16 \in Int
  BY <1>0 DEF Bit
<1>6. n \div 32 = 2 * (n \div 64) + Bit(n, 32) /\ n \div 32 \in Int
  BY <1>0 DEF Bit
<1>7. n \div 64 = 2 * (n \div 128) + Bit(n, 64) /\ n \div 64 \in Int
  BY <1>0 DEF Bit
<1>8. n \div 128 = Bit(n, 128) /\ n \div 1 = n
  BY <1>0 DEF Bit
<1>9. /\ Bit(n, 1) \in Int /\ Bit(n, 2) \in Int /\ Bit(n, 4) \in Int /\ Bit(n, 8) \in Int
      /\ Bit(n, 16) \in Int /\ Bit(n, 32) \in Int /\ Bit(n, 64) \in Int /\ Bit(n, 128) \in Int
  BY <1>0, BitIs DEF Weights
<1>. QED BY <1>0, <1>1, <1>2, <1>3, <1>4, <1>5, <1>6, <1>7, <1>8, <1>9

LEMMA Both ==
  ASSUME NEW m \in {0, 1}, NEW n \in {0, 1}, NEW weight \in Nat
  PROVE  /\ m * n * weight \in Int /\ 0 <= m * n * weight
         /\ m * n * weight <= weight * m /\ m * n * weight <= weight * n
         /\ weight * m + weight * n - m * n * weight <= weight
         /\ m * n * weight = n * m * weight
         /\ n = 1 => m * n * weight = weight * m
<1>1. CASE m = 0
  BY <1>1
<1>2. CASE m = 1 /\ n = 0
  BY <1>2
<1>3. CASE m = 1 /\ n = 1
  BY <1>3
<1>. QED BY <1>1, <1>2, <1>3

LEMMA AndIs ==
  ASSUME NEW m \in Byte, NEW n \in Byte
  PROVE  /\ And(m, n) \in Byte /\ And(m, n) <= m /\ And(m, n) <= n
         /\ m + n - And(m, n) \in Byte
         /\ And(m, n) = And(n, m)
<1>. DEFINE P(w) == Bit(m, w) * Bit(n, w) * w
            Q(w) == Bit(n, w) * Bit(m, w) * w
            M(w) == Bit(m, w)
            N(w) == Bit(n, w)
<1>1. m \in Int /\ n \in Int
  BY ByteIs
<1>2. ASSUME NEW w \in Weights
      PROVE  /\ P(w) \in Int /\ 0 <= P(w) /\ P(w) <= w * M(w) /\ P(w) <= w * N(w)
             /\ w * M(w) + w * N(w) - P(w) <= w /\ P(w) = Q(w)
             /\ M(w) \in Int /\ N(w) \in Int
  <2>1. M(w) \in {0, 1} /\ N(w) \in {0, 1}
    BY <1>1, BitIs
  <2>2. w \in Nat
    BY DEF Weights
  <2>. HIDE DEF M, N
  <2>3. /\ P(w) \in Int /\ 0 <= P(w) /\ P(w) <= w * M(w) /\ P(w) <= w * N(w)
        /\ w * M(w) + w * N(w) - P(w) <= w /\ P(w) = Q(w)
    BY <2>1, <2>2, Both, Zenon DEF M, N
  <2>. QED BY <2>1, <2>3
<1>3. /\ m = M(1) + 2 * M(2) + 4 * M(4) + 8 * M(8) + 16 * M(16) + 32 * M(32) + 64 * M(64)
             + 128 * M(128)
      /\ n = N(1) + 2 * N(2) + 4 * N(4) + 8 * N(8) + 16 * N(16) + 32 * N(32) + 64 * N(64)
             + 128 * N(128)
  BY BitsOf
<1>4. /\ And(m, n) = P(1) + P(2) + P(4) + P(8) + P(16) + P(32) + P(64) + P(128)
      /\ And(n, m) = Q(1) + Q(2) + Q(4) + Q(8) + Q(16) + Q(32) + Q(64) + Q(128)
  BY DEF And
<1>. HIDE DEF P, Q, M, N
<1>5. {1, 2, 4, 8, 16, 32, 64, 128} \subseteq Weights
  BY DEF Weights
<1>. QED BY <1>2, <1>3, <1>4, <1>5, ByteIs

-----------------------------------------------------------------------------
(* What an instruction does with a value it read                            *)

LEMMA KeptSelf ==
  ASSUME NEW c, Typed(c)
  PROVE  Kept(c, c)
BY DEF Kept

LEMMA KeptTyped ==
  ASSUME NEW c, NEW d, Kept(c, d)
  PROVE  Typed(d)
BY DEF Kept

LEMMA SetNzKept ==
  ASSUME NEW c, Typed(c), NEW v \in Byte
  PROVE  Kept(c, SetNz(c, v))
<1>. DEFINE zero == v = 0
            negative == v >= 128
            d == [c EXCEPT !.z = zero]
<1>1. zero \in BOOLEAN /\ negative \in BOOLEAN
  OBVIOUS
<1>2. SetNz(c, v) = [d EXCEPT !.n = negative]
  BY DEF SetNz
<1>. HIDE DEF zero, negative
<1>3. Kept(c, d)
  BY <1>1, KeptUpdate, FreeFields, KindOf
<1>. HIDE DEF d
<1>4. Kept(d, [d EXCEPT !.n = negative])
  BY <1>1, <1>3, KeptUpdate, FreeFields, KindOf, KeptTyped
<1>. QED BY <1>2, <1>3, <1>4, KeptKept

LEMMA ByteKept ==
  ASSUME NEW c, Typed(c), NEW v \in Byte
  PROVE  /\ Kept(c, [c EXCEPT !.a = v]) /\ Kept(c, [c EXCEPT !.x = v])
         /\ Kept(c, [c EXCEPT !.y = v]) /\ Kept(c, [c EXCEPT !.s = v])
         /\ Kept(c, [c EXCEPT !.low_byte = v]) /\ Kept(c, [c EXCEPT !.current_value = v])
         /\ Kept(c, [c EXCEPT !.base_high = v])
BY KeptUpdate, FreeFields, KindOf

LEMMA WordKept ==
  ASSUME NEW c, Typed(c), NEW v \in Word
  PROVE  /\ Kept(c, [c EXCEPT !.pc = v]) /\ Kept(c, [c EXCEPT !.current_address = v])
         /\ Kept(c, [c EXCEPT !.pointer = v])
BY KeptUpdate, FreeFields, KindOf

LEMMA FlagKept ==
  ASSUME NEW c, Typed(c), NEW v \in BOOLEAN
  PROVE  /\ Kept(c, [c EXCEPT !.n = v]) /\ Kept(c, [c EXCEPT !.v = v])
         /\ Kept(c, [c EXCEPT !.d = v]) /\ Kept(c, [c EXCEPT !.i = v])
         /\ Kept(c, [c EXCEPT !.z = v]) /\ Kept(c, [c EXCEPT !.c = v])
         /\ Kept(c, [c EXCEPT !.page_crossed = v]) /\ Kept(c, [c EXCEPT !.latched_nmi = v])
BY KeptUpdate, FreeFields, KindOf

LEMMA LoadingKept ==
  ASSUME NEW c, Typed(c), NEW v \in Byte, NEW w \in Byte
  PROVE  /\ Kept(c, SetA(c, v)) /\ Kept(c, SetNz([c EXCEPT !.x = v], w))
         /\ Kept(c, SetNz([c EXCEPT !.y = v], w)) /\ Kept(c, LoadAx(c, v))
<1>1. \A d : Kept(c, d) => Kept(c, SetNz(d, w)) /\ Kept(c, SetNz([d EXCEPT !.a = v], v))
  BY SetNzKept, ByteKept, KeptKept, KeptTyped
<1>2. Kept(c, SetA(c, v))
  BY KeptSelf, <1>1 DEF SetA
<1>3. Kept(c, LoadAx(c, v))
  BY <1>1, ByteKept DEF LoadAx, SetA
<1>. QED BY <1>1, <1>2, <1>3, ByteKept

(* Several fields at once. *)
LEMMA KeptTwo ==
  ASSUME NEW c, Typed(c), NEW f \in Free, NEW u \in Kind(f), NEW g \in Free, NEW v \in Kind(g)
  PROVE  Kept(c, [c EXCEPT ![f] = u, ![g] = v])
<1>1. DOMAIN c = Fields
  BY DEF Typed
<1>2. Kept(c, [c EXCEPT ![f] = u])
  BY KeptUpdate
<1>3. Kept([c EXCEPT ![f] = u], [[c EXCEPT ![f] = u] EXCEPT ![g] = v])
  BY <1>2, KeptUpdate, KeptTyped
<1>. QED BY <1>2, <1>3, KeptKept

LEMMA AddKept ==
  ASSUME NEW c, Typed(c), NEW v \in Byte
  PROVE  Kept(c, Add(c, v))
<1>. DEFINE carry == Sum(c, v) >= 256
            overflow == (Sum(c, v) >= 256) # Carry6(c, v)
            d == SetA(c, Sum(c, v) % 256)
<1>0. c.a \in Int /\ v \in Int /\ Flag(c.c) \in Int
  BY Types, ByteIs DEF Flag
<1>1. Sum(c, v) % 256 \in Byte
  BY <1>0, ByteIs DEF Sum
<1>2. carry \in BOOLEAN /\ overflow \in BOOLEAN
  OBVIOUS
<1>3. Kept(c, d)
  BY <1>1, LoadingKept
<1>4. Add(c, v) = [d EXCEPT !.c = carry, !.v = overflow]
  BY DEF Add
<1>. HIDE DEF carry, overflow, d
<1>5. Kept(d, [d EXCEPT !.c = carry, !.v = overflow])
  BY <1>2, <1>3, KeptTwo, FreeFields, KindOf, KeptTyped
<1>. QED BY <1>3, <1>4, <1>5, KeptKept

LEMMA SbcKept ==
  ASSUME NEW c, Typed(c), NEW v \in Byte
  PROVE  Kept(c, Sbc(c, v))
<1>1. 255 - v \in Byte
  BY ByteIs
<1>. QED BY <1>1, AddKept DEF Sbc

LEMMA CompareKept ==
  ASSUME NEW c, Typed(c), NEW register \in Byte, NEW v \in Byte
  PROVE  Kept(c, Compare(c, register, v))
<1>. DEFINE carry == register >= v
<1>1. (register - v) % 256 \in Byte
  BY ByteIs
<1>2. carry \in BOOLEAN
  OBVIOUS
<1>3. Compare(c, register, v) = SetNz([c EXCEPT !.c = carry], (register - v) % 256)
  BY DEF Compare
<1>. HIDE DEF carry
<1>4. Kept(c, [c EXCEPT !.c = carry])
  BY <1>2, FlagKept
<1>5. Kept([c EXCEPT !.c = carry], SetNz([c EXCEPT !.c = carry], (register - v) % 256))
  BY <1>1, <1>4, SetNzKept, KeptTyped
<1>. QED BY <1>3, <1>4, <1>5, KeptKept, Zenon

LEMMA KeptThree ==
  ASSUME NEW c, Typed(c), NEW f \in Free, NEW u \in Kind(f), NEW g \in Free, NEW v \in Kind(g),
         NEW h \in Free, NEW w \in Kind(h)
  PROVE  Kept(c, [c EXCEPT ![f] = u, ![g] = v, ![h] = w])
<1>1. DOMAIN c = Fields
  BY DEF Typed
<1>2. Kept(c, [c EXCEPT ![f] = u, ![g] = v])
  BY KeptTwo
<1>3. Kept([c EXCEPT ![f] = u, ![g] = v], [[c EXCEPT ![f] = u, ![g] = v] EXCEPT ![h] = w])
  BY <1>2, KeptUpdate, KeptTyped
<1>. QED BY <1>2, <1>3, KeptKept

LEMMA TestBitsKept ==
  ASSUME NEW c, Typed(c), NEW v \in Byte
  PROVE  Kept(c, TestBits(c, v))
<1>. DEFINE zero == And(v, c.a) = 0
            negative == v >= 128
            overflow == Bit(v, 64) = 1
<1>1. zero \in BOOLEAN /\ negative \in BOOLEAN /\ overflow \in BOOLEAN
  OBVIOUS
<1>2. TestBits(c, v) = [c EXCEPT !.z = zero, !.n = negative, !.v = overflow]
  BY DEF TestBits
<1>. HIDE DEF zero, negative, overflow
<1>3. /\ "z" \in Free /\ "n" \in Free /\ "v" \in Free
      /\ zero \in Kind("z") /\ negative \in Kind("n") /\ overflow \in Kind("v")
  BY <1>1, FreeFields, KindOf
<1>4. Kept(c, [c EXCEPT !.z = zero, !.n = negative, !.v = overflow])
  BY <1>3, KeptThree
<1>. QED BY <1>2, <1>4

LEMMA ArrKept ==
  ASSUME NEW c, Typed(c), NEW v \in Byte
  PROVE  Kept(c, Arr(c, v))
<1>. DEFINE res == Lsr(And(c.a, v)) + 128 * Flag(c.c)
            carry == Bit(res, 64) = 1
            overflow == Bit(res, 64) # Bit(res, 32)
            d == SetA(c, res)
<1>1. carry \in BOOLEAN /\ overflow \in BOOLEAN
  OBVIOUS
<1>2. Arr(c, v) = [d EXCEPT !.c = carry, !.v = overflow]
  BY DEF Arr
<1>3. And(c.a, v) \in Byte
  BY Types, AndIs
<1>4. res \in Byte
  BY <1>3, ByteIs DEF Lsr, Flag
<1>5. Kept(c, d)
  BY <1>4, LoadingKept
<1>. HIDE DEF carry, overflow, d
<1>6. Kept(d, [d EXCEPT !.c = carry, !.v = overflow])
  BY <1>1, <1>5, KeptTwo, FreeFields, KindOf, KeptTyped
<1>. QED BY <1>2, <1>5, <1>6, KeptKept

LEMMA SbxKept ==
  ASSUME NEW c, Typed(c), NEW v \in Byte
  PROVE  Kept(c, Sbx(c, v))
<1>. DEFINE diff == (And(c.a, c.x) - v) % 65536
            low == diff % 256
            carry == diff < 256
            d == [c EXCEPT !.x = low, !.c = carry]
<1>1. And(c.a, c.x) \in Byte
  BY Types, AndIs
<1>2. diff \in Int
  BY <1>1, ByteIs
<1>3. low \in Byte
  BY <1>2, ByteIs
<1>4. carry \in BOOLEAN
  OBVIOUS
<1>5. Sbx(c, v) = SetNz(d, low)
  BY DEF Sbx
<1>. HIDE DEF diff, low, carry
<1>6. Kept(c, d)
  BY <1>3, <1>4, KeptTwo, FreeFields, KindOf
<1>. HIDE DEF d
<1>7. Kept(d, SetNz(d, low))
  BY <1>3, <1>6, SetNzKept, KeptTyped
<1>. QED BY <1>5, <1>6, <1>7, KeptKept

LEMMA AxKept ==
  ASSUME NEW c, Typed(c), NEW v \in Byte
  PROVE  Kept(c, LoadAx([c EXCEPT !.s = v], v))
<1>1. Kept(c, [c EXCEPT !.s = v])
  BY ByteKept
<1>2. Kept([c EXCEPT !.s = v], LoadAx([c EXCEPT !.s = v], v))
  BY <1>1, LoadingKept, KeptTyped
<1>. QED BY <1>1, <1>2, KeptKept

LEMMA CarryingKept ==
  ASSUME NEW c, Typed(c), NEW v \in Byte, NEW carry \in BOOLEAN
  PROVE  Kept(c, [SetA(c, v) EXCEPT !.c = carry])
<1>1. Kept(c, SetA(c, v))
  BY LoadingKept
<1>2. Kept(SetA(c, v), [SetA(c, v) EXCEPT !.c = carry])
  BY <1>1, FlagKept, KeptTyped
<1>. QED BY <1>1, <1>2, KeptKept

LEMMA LoadKept ==
  ASSUME NEW c, Typed(c), NEW v \in Byte, NEW op \in Loads
  PROVE  Kept(c, Load(op, c, v))
<1>1. c.a \in Byte /\ c.x \in Byte /\ c.y \in Byte /\ c.s \in Byte
  BY Types
<1>2. And(c.a, v) \in Byte /\ And(v, c.s) \in Byte /\ And(And(c.a, c.x), v) \in Byte
  BY <1>1, AndIs
<1>3. Or(c.a, v) \in Byte /\ Xor(c.a, v) \in Byte
  BY <1>1, AndIs, ByteIs DEF Or, Xor
<1>4. Lsr(And(c.a, v)) \in Byte
  BY <1>2, ByteIs DEF Lsr
<1>5. CASE op = "LDA"
  BY <1>5, LoadingKept DEF Load
<1>6. CASE op = "LDX"
  BY <1>6, LoadingKept DEF Load
<1>7. CASE op = "LDY"
  BY <1>7, LoadingKept DEF Load
<1>8. CASE op = "EOR"
  BY <1>3, <1>8, LoadingKept DEF Load
<1>9. CASE op = "AND"
  BY <1>2, <1>9, LoadingKept DEF Load
<1>10. CASE op = "ORA"
  BY <1>3, <1>10, LoadingKept DEF Load
<1>11. CASE op = "ADC"
  BY <1>11, AddKept DEF Load
<1>12. CASE op \in {"SBC", "USBC"}
  BY <1>12, SbcKept DEF Load
<1>13. CASE op \in {"CMP", "CPX", "CPY"}
  BY <1>1, <1>13, CompareKept DEF Load
<1>14. CASE op = "BIT"
  BY <1>14, TestBitsKept DEF Load
<1>15. CASE op \in {"LAX", "LXA"}
  BY <1>15, LoadingKept DEF Load
<1>16. CASE op = "LAS"
  BY <1>2, <1>16, AxKept DEF Load
<1>17. CASE op = "ANC"
  <2>. DEFINE carry == And(c.a, v) >= 128
  <2>1. carry \in BOOLEAN /\ Load(op, c, v) = [SetA(c, And(c.a, v)) EXCEPT !.c = carry]
    BY <1>17 DEF Load
  <2>. HIDE DEF carry
  <2>. QED BY <1>2, <2>1, CarryingKept
<1>18. CASE op = "ALR"
  <2>. DEFINE carry == And(c.a, v) % 2 = 1
  <2>1. carry \in BOOLEAN /\ Load(op, c, v) = [SetA(c, Lsr(And(c.a, v))) EXCEPT !.c = carry]
    BY <1>18 DEF Load
  <2>. HIDE DEF carry
  <2>. QED BY <1>4, <2>1, CarryingKept
<1>19. CASE op = "ARR"
  BY <1>19, ArrKept DEF Load
<1>20. CASE op = "ANE"
  BY <1>2, <1>20, LoadingKept DEF Load
<1>21. CASE op = "SBX"
  BY <1>21, SbxKept DEF Load
<1>22. CASE op = "NOP"
  BY <1>22, KeptSelf DEF Load
<1>. QED BY <1>5, <1>6, <1>7, <1>8, <1>9, <1>10, <1>11, <1>12, <1>13, <1>14, <1>15, <1>16, <1>17,
            <1>18, <1>19, <1>20, <1>21, <1>22 DEF Loads

-----------------------------------------------------------------------------
(* What the other instructions do                                           *)

LEMMA ModifiedByte ==
  ASSUME NEW c, Typed(c), NEW v \in Byte, NEW op \in Official \union Unofficial
  PROVE  Modified(op, c, v) \in Byte
<1>1. Asl(v) \in Byte /\ Lsr(v) \in Byte /\ (v + 1) % 256 \in Byte /\ (v - 1) % 256 \in Byte
  BY ByteIs DEF Asl, Lsr
<1>2. Rol(v, c.c) \in Byte /\ Ror(v, c.c) \in Byte
  BY ByteIs DEF Rol, Ror, Asl, Lsr, Flag
<1>. QED BY <1>1, <1>2, Zenon DEF Modified, Official, Unofficial

LEMMA ShiftedOutKept ==
  ASSUME NEW c, Typed(c), NEW v \in Byte, NEW op
  PROVE  Kept(c, ShiftedOut(op, c, v))
<1>. DEFINE left == v >= 128
            right == v % 2 = 1
<1>1. left \in BOOLEAN /\ right \in BOOLEAN
  OBVIOUS
<1>2. ShiftedOut(op, c, v) \in {[c EXCEPT !.c = left], [c EXCEPT !.c = right], c}
  BY DEF ShiftedOut
<1>. HIDE DEF left, right
<1>. QED BY <1>1, <1>2, FlagKept, KeptSelf

LEMMA AccumulateKept ==
  ASSUME NEW c, Typed(c), NEW v \in Byte, NEW op
  PROVE  Kept(c, Accumulate(op, c, v))
<1>1. c.a \in Byte
  BY Types
<1>2. And(c.a, v) \in Byte /\ Or(c.a, v) \in Byte /\ Xor(c.a, v) \in Byte
  BY <1>1, AndIs, ByteIs DEF Or, Xor
<1>3. Accumulate(op, c, v) \in
        {SetA(c, Or(c.a, v)), SetA(c, And(c.a, v)), SetA(c, Xor(c.a, v)), Add(c, v), Sbc(c, v),
         Compare(c, c.a, v), SetNz(c, v)}
  BY DEF Accumulate
<1>. QED BY <1>1, <1>2, <1>3, LoadingKept, AddKept, SbcKept, CompareKept, SetNzKept

LEMMA SetFlagKept ==
  ASSUME NEW c, Typed(c), NEW op \in Flags
  PROVE  Kept(c, SetFlag(op, c))
BY FlagKept DEF SetFlag, Flags

LEMMA TransferKept ==
  ASSUME NEW c, Typed(c), NEW op \in Transfers
  PROVE  Kept(c, Transfer(op, c))
<1>1. c.a \in Byte /\ c.x \in Byte /\ c.y \in Byte /\ c.s \in Byte
  BY Types
<1>2. /\ (c.x - 1) % 256 \in Byte /\ (c.y - 1) % 256 \in Byte
      /\ (c.x + 1) % 256 \in Byte /\ (c.y + 1) % 256 \in Byte
  BY <1>1, ByteIs
<1>3. \A v \in Byte : /\ Kept(c, SetNz([c EXCEPT !.x = v], v)) /\ Kept(c, SetA(c, v))
                       /\ Kept(c, SetNz([c EXCEPT !.y = v], v)) /\ Kept(c, [c EXCEPT !.s = v])
  BY LoadingKept, ByteKept
<1>4. CASE op \in {"TSX", "TXS", "TAX", "TXA", "TYA", "TAY"}
  BY <1>1, <1>3, <1>4 DEF Transfer
<1>5. CASE op \in {"DEX", "DEY", "INX", "INY"}
  BY <1>2, <1>3, <1>5 DEF Transfer
<1>. QED BY <1>4, <1>5 DEF Transfers

LEMMA ShiftAKept ==
  ASSUME NEW c, Typed(c), NEW op \in Official
  PROVE  Kept(c, ShiftA(op, c))
<1>1. c.a \in Byte
  BY Types
<1>2. Kept(c, ShiftedOut(op, c, c.a)) /\ Modified(op, c, c.a) \in Byte
  BY <1>1, ShiftedOutKept, ModifiedByte
<1>3. Kept(ShiftedOut(op, c, c.a), SetA(ShiftedOut(op, c, c.a), Modified(op, c, c.a)))
  BY <1>2, LoadingKept, KeptTyped
<1>. QED BY <1>2, <1>3, KeptKept DEF ShiftA

LEMMA StatusByteIs ==
  ASSUME NEW c, NEW b \in BOOLEAN
  PROVE  StatusByte(c, b) \in Byte
<1>1. \A flag : Flag(flag) \in {0, 1}
  BY DEF Flag
<1>. QED BY <1>1, ByteIs DEF StatusByte

LEMMA SetStatusKept ==
  ASSUME NEW c, Typed(c), NEW v
  PROVE  Kept(c, SetStatus(c, v))
<1>. DEFINE n == Bit(v, 128) = 1
            o == Bit(v, 64) = 1
            m == Bit(v, 8) = 1
            i == Bit(v, 4) = 1
            z == Bit(v, 2) = 1
            k == Bit(v, 1) = 1
            d == [c EXCEPT !.n = n, !.v = o, !.d = m]
            e == [d EXCEPT !.i = i, !.z = z, !.c = k]
<1>1. n \in BOOLEAN /\ o \in BOOLEAN /\ m \in BOOLEAN /\ i \in BOOLEAN /\ z \in BOOLEAN
      /\ k \in BOOLEAN
  OBVIOUS
<1>2. SetStatus(c, v) = e
  BY DEF SetStatus
<1>. HIDE DEF n, o, m, i, z, k
<1>3. {"n", "v", "d", "i", "z", "c"} \subseteq Free
  BY FreeFields
<1>4. \A f \in {"n", "v", "d", "i", "z", "c"} : Kind(f) = BOOLEAN
  BY KindOf
<1>5. Kept(c, d)
  BY <1>1, <1>3, <1>4, KeptThree
<1>. HIDE DEF d
<1>6. Kept(d, e)
  BY <1>1, <1>3, <1>4, <1>5, KeptThree, KeptTyped
<1>. QED BY <1>2, <1>5, <1>6, KeptKept

LEMMA StoredByte ==
  ASSUME NEW c, Typed(c), NEW op \in Stores
  PROVE  Stored(op, c) \in Byte
<1>1. c.a \in Byte /\ c.x \in Byte /\ c.y \in Byte
  BY Types
<1>2. And(c.a, c.x) \in Byte
  BY <1>1, AndIs
<1>. QED BY <1>1, <1>2, Zenon DEF Stored, Stores, Unstable

-----------------------------------------------------------------------------
(* Steps that make one access                                               *)

LEMMA AccessedTyped ==
  ASSUME NEW c, NEW d, Accessed(c, d)
  PROVE  Typed(d)
BY DEF Accessed

LEMMA Words ==
  /\ \A low, high \in Byte : Paged(low, high) \in Word
  /\ \A s \in Byte : OnStack(s) \in Word /\ s \in Word /\ (s + 1) % 256 \in Byte
                     /\ (s - 1) % 256 \in Byte
  /\ \A w \in Word : Lo(w) \in Byte /\ Hi(w) \in Byte /\ w \in Int
  /\ \A w \in Int : Lo(w) \in Byte
  /\ \A w \in Word : \A n \in Int : Shift(w, n) \in Word
<1>1. ASSUME NEW low \in Byte, NEW high \in Byte PROVE Paged(low, high) \in Word
  BY ByteIs, WordIs DEF Paged
<1>2. ASSUME NEW s \in Byte
      PROVE  OnStack(s) \in Word /\ s \in Word /\ (s + 1) % 256 \in Byte /\ (s - 1) % 256 \in Byte
  BY ByteIs, WordIs DEF OnStack, STACK_ADDRESS
<1>3. ASSUME NEW w \in Word PROVE Lo(w) \in Byte /\ Hi(w) \in Byte /\ w \in Int
  BY ByteIs, WordIs DEF Lo, Hi
<1>4. ASSUME NEW w \in Int PROVE Lo(w) \in Byte
  BY ByteIs DEF Lo
<1>5. ASSUME NEW w \in Word, NEW n \in Int PROVE Shift(w, n) \in Word
  BY <1>3, ShiftWord
<1>. QED BY <1>1, <1>2, <1>3, <1>4, <1>5

LEMMA ThenKept ==
  ASSUME NEW c, NEW d, Accessed(c, d)
  PROVE  /\ \A v \in Byte : /\ Accessed(c, [d EXCEPT !.low_byte = v])
                            /\ Accessed(c, [d EXCEPT !.current_value = v])
                            /\ Accessed(c, [d EXCEPT !.s = v])
         /\ \A v \in Word : /\ Accessed(c, [d EXCEPT !.pc = v])
                            /\ Accessed(c, [d EXCEPT !.current_address = v])
                            /\ Accessed(c, [d EXCEPT !.pointer = v])
         /\ \A v \in BOOLEAN : Accessed(c, [d EXCEPT !.i = v])
BY AccessedTyped, ByteKept, WordKept, FlagKept, AccessedKept

LEMMA Same ==
  ASSUME NEW c, NEW address, Typed(c)
  PROVE  /\ Reading(c, address).pc = c.pc /\ Reading(c, address).s = c.s
         /\ Reading(c, address).current_address = c.current_address
BY FreeFields, KindOf DEF Typed, Reading

LEMMA NextPc ==
  ASSUME NEW w \in Word
  PROVE  Shift(w, 1) \in Word
BY WordIs DEF Shift

LEMMA FetchedAccess ==
  ASSUME NEW c, Typed(c), c.bus = <<>>
  PROVE  Accessed(c, Fetched(c))
<1>1. Accessed(c, Reading(c, c.pc))
  BY ReadingAccess
<1>2. Reading(c, c.pc).pc \in Word
  BY <1>1, AccessedTyped, Types
<1>3. Shift(Reading(c, c.pc).pc, 1) \in Word
  BY <1>2, NextPc
<1>. QED BY <1>1, <1>3, ThenKept DEF Fetched, IncPc

LEMMA PushAccess ==
  ASSUME NEW c, Typed(c), c.bus = <<>>, NEW v \in Byte
  PROVE  Accessed(c, Push(c, v))
<1>1. Accessed(c, Writing(c, OnStack(c.s), v))
  BY Types, Words, WritingAccess
<1>. DEFINE d == Writing(c, OnStack(c.s), v)
            t == (d.s - 1) % 256
<1>2. Push(c, v) = [d EXCEPT !.s = t]
  BY DEF Push
<1>. HIDE DEF d
<1>3. Typed(d) /\ Accessed(c, d)
  BY <1>1, AccessedTyped DEF d
<1>4. t \in Byte
  BY <1>3, Types, Words
<1>. HIDE DEF t
<1>5. Accessed(c, [d EXCEPT !.s = t])
  BY <1>3, <1>4, ThenKept
<1>. QED BY <1>2, <1>5

LEMMA PopAccess ==
  ASSUME NEW c, Typed(c), c.bus = <<>>
  PROVE  Accessed(c, Pop(c))
<1>. DEFINE d == Reading(c, OnStack((c.s + 1) % 256))
            t == (d.s + 1) % 256
<1>1. Accessed(c, d)
  BY ReadingAccess
<1>2. Pop(c) = [d EXCEPT !.s = t]
  BY DEF Pop
<1>. HIDE DEF d
<1>3. Typed(d)
  BY <1>1, AccessedTyped
<1>4. t \in Byte
  BY <1>3, Types, Words
<1>. HIDE DEF t
<1>5. Accessed(c, [d EXCEPT !.s = t])
  BY <1>1, <1>4, ThenKept
<1>. QED BY <1>2, <1>5

LEMMA TopByteIs ==
  ASSUME NEW c, Typed(c)
  PROVE  Top(c) \in Byte
BY Types, Words, AtByte DEF Top

LEMMA PlainSteps ==
  ASSUME NEW c, Typed(c), c.bus = <<>>
  PROVE  /\ Accessed(c, Low(c)) /\ Accessed(c, AddressHigh(c)) /\ Accessed(c, ZeroPage(c))
         /\ Accessed(c, Pointer(c)) /\ Accessed(c, Index(c)) /\ Accessed(c, LowPointed(c))
         /\ Accessed(c, AddressPointed(c)) /\ Accessed(c, PointerLow(c)) /\ Accessed(c, Value(c))
         /\ Accessed(c, WriteBack(c)) /\ Accessed(c, Discard(c)) /\ Accessed(c, StackRead(c))
<1>1. /\ c.pc \in Word /\ c.current_address \in Word /\ c.pointer \in Word /\ c.low_byte \in Byte
      /\ c.x \in Byte /\ c.y \in Byte /\ c.current_value \in Byte
  BY Types
<1>2. At(c, c.pc) \in Byte /\ At(c, c.current_address) \in Byte /\ At(c, c.pointer) \in Byte
  BY <1>1, AtByte
<1>3. At(c, c.pc) \in Word /\ Paged(c.low_byte, At(c, c.pc)) \in Word
  BY <1>1, <1>2, Words
<1>4. Accessed(c, Low(c)) /\ Accessed(c, AddressHigh(c))
  BY <1>1, <1>2, <1>3, FetchedAccess, ThenKept, Same DEF Low, AddressHigh, Fetched
<1>5. Accessed(c, ZeroPage(c)) /\ Accessed(c, Pointer(c))
  BY <1>3, FetchedAccess, ThenKept DEF ZeroPage, Pointer
<1>6. Accessed(c, Index(c))
  <2>1. IndexOf(c) \in Int /\ c.current_address \in Int
    BY <1>1, ByteIs, WordIs DEF IndexOf
  <2>2. Lo(c.current_address + IndexOf(c)) \in Word
    BY <2>1, ByteIs, WordIs DEF Lo
  <2>. QED BY <2>2, ReadingAccess, ThenKept, Same DEF Index
<1>7. Accessed(c, LowPointed(c)) /\ Accessed(c, PointerLow(c)) /\ Accessed(c, Value(c))
  BY <1>2, ReadingAccess, ThenKept DEF LowPointed, PointerLow, Value
<1>8. Accessed(c, AddressPointed(c))
  <2>1. c.current_address + 1 \in Int
    BY <1>1, WordIs
  <2>2. Lo(c.current_address + 1) \in Word
    BY <2>1, Words
  <2>3. Paged(c.low_byte, At(c, Lo(c.current_address + 1))) \in Word
    BY <1>1, <2>2, AtByte, Words
  <2>. QED BY <2>3, ReadingAccess, ThenKept, Same DEF AddressPointed
<1>9. Accessed(c, WriteBack(c))
  BY <1>1, WritingAccess DEF WriteBack
<1>10. Accessed(c, Discard(c)) /\ Accessed(c, StackRead(c))
  BY ReadingAccess DEF Discard, StackRead
<1>. QED BY <1>4, <1>5, <1>6, <1>7, <1>8, <1>9, <1>10

-----------------------------------------------------------------------------
(* Indexed addresses and the stack                                          *)

LEMMA IndexByte ==
  ASSUME NEW c, Typed(c)
  PROVE  IndexOf(c) \in Byte
BY Types DEF IndexOf

LEMMA IndexedKept ==
  ASSUME NEW c, Typed(c), NEW high \in Byte, NEW index \in Byte
  PROVE  Kept(c, Indexed(c, high, index))
<1>. DEFINE old == Paged(c.low_byte, high)
            new == Shift(old, index)
            crossed == Hi(old) # Hi(new)
            to == IF crossed THEN Shift(new, -256) ELSE new
<1>1. old \in Word
  BY Types, Words
<1>2. index \in Int
  BY ByteIs
<1>3. new \in Word
  BY <1>1, <1>2, Words
<1>4. Shift(new, -256) \in Word
  BY <1>3, WordIs DEF Shift
<1>5. to \in Word /\ crossed \in BOOLEAN
  BY <1>3, <1>4
<1>6. Indexed(c, high, index)
        = [c EXCEPT !.page_crossed = crossed, !.current_address = to, !.base_high = high]
  BY DEF Indexed
<1>. HIDE DEF old, new, crossed, to
<1>7. /\ "page_crossed" \in Free /\ "current_address" \in Free /\ "base_high" \in Free
      /\ crossed \in Kind("page_crossed") /\ to \in Kind("current_address")
      /\ high \in Kind("base_high")
  BY <1>5, FreeFields, KindOf
<1>8. Kept(c, [c EXCEPT !.page_crossed = crossed, !.current_address = to, !.base_high = high])
  BY <1>7, KeptThree
<1>. QED BY <1>6, <1>8

LEMMA FixedKept ==
  ASSUME NEW c, Typed(c)
  PROVE  Kept(c, Fixed(c))
<1>. DEFINE to == IF c.page_crossed THEN Shift(c.current_address, 256) ELSE c.current_address
<1>1. c.current_address \in Word
  BY Types
<1>2. Shift(c.current_address, 256) \in Word
  BY <1>1, WordIs DEF Shift
<1>3. to \in Word /\ Fixed(c) = [c EXCEPT !.current_address = to]
  BY <1>1, <1>2 DEF Fixed
<1>. HIDE DEF to
<1>4. Kept(c, [c EXCEPT !.current_address = to])
  BY <1>3, WordKept
<1>. QED BY <1>3, <1>4

LEMMA ValueAccess ==
  ASSUME NEW c, NEW d, Kept(c, d), c.bus = <<>>
  PROVE  Accessed(c, Value(d))
<1>1. Typed(d) /\ d.bus = <<>>
  BY DEF Kept
<1>. QED BY <1>1, PlainSteps, KeptAccessed

LEMMA IndexedSteps ==
  ASSUME NEW c, Typed(c), c.bus = <<>>
  PROVE  /\ Accessed(c, IndexedAddress(c)) /\ Accessed(c, IndexedPointer(c))
         /\ Accessed(c, ValueThenFix(c)) /\ Accessed(c, FixThenValue(c))
         /\ Accessed(c, CarryThenValue(c))
<1>1. At(c, c.pc) \in Byte /\ IndexOf(c) \in Byte /\ c.y \in Byte
  BY Types, AtByte, IndexByte
<1>2. Accessed(c, IndexedAddress(c))
  <2>1. Typed(Fetched(c)) /\ Accessed(c, Fetched(c))
    BY FetchedAccess, AccessedTyped
  <2>2. Kept(Fetched(c), IndexedAddress(c))
    BY <1>1, <2>1, IndexedKept DEF IndexedAddress
  <2>. QED BY <2>1, <2>2, AccessedKept
<1>3. Accessed(c, IndexedPointer(c))
  <2>. DEFINE next == Lo(c.pointer + 1)
  <2>1. c.pointer + 1 \in Int
    BY Types, WordIs
  <2>2. next \in Word
    BY <2>1, Words
  <2>3. At(c, next) \in Byte
    BY <2>2, AtByte
  <2>4. IndexedPointer(c) = Indexed(Reading(c, next), At(c, next), c.y)
    BY DEF IndexedPointer
  <2>. HIDE DEF next
  <2>5. Accessed(c, Reading(c, next)) /\ Typed(Reading(c, next))
    BY ReadingAccess, AccessedTyped
  <2>6. Kept(Reading(c, next), IndexedPointer(c))
    BY <1>1, <2>3, <2>4, <2>5, IndexedKept
  <2>. QED BY <2>5, <2>6, AccessedKept
<1>4. Accessed(c, Value(c)) /\ Typed(Value(c))
  BY PlainSteps, AccessedTyped
<1>5. Accessed(c, ValueThenFix(c))
  BY <1>4, FixedKept, AccessedKept DEF ValueThenFix
<1>6. Accessed(c, FixThenValue(c))
  BY FixedKept, ValueAccess DEF FixThenValue
<1>7. Accessed(c, CarryThenValue(c))
  <2>. DEFINE to == IF c.pointer >= 256 THEN Shift(c.current_address, 256)
                    ELSE c.current_address
  <2>1. c.current_address \in Word
    BY Types
  <2>2. Shift(c.current_address, 256) \in Word
    BY <2>1, WordIs DEF Shift
  <2>3. to \in Word /\ CarryThenValue(c) = Value([c EXCEPT !.current_address = to])
    BY <2>1, <2>2 DEF CarryThenValue
  <2>. HIDE DEF to
  <2>4. Kept(c, [c EXCEPT !.current_address = to])
    BY <2>3, WordKept
  <2>. QED BY <2>3, <2>4, ValueAccess
<1>. QED BY <1>2, <1>3, <1>5, <1>6, <1>7

LEMMA UnfixedStep ==
  ASSUME NEW c, Typed(c), c.bus = <<>>, c.pointer \in Byte
  PROVE  Accessed(c, Unfixed(c))
<1>. DEFINE added == c.low_byte + IndexOf(c)
            to == Paged(Lo(added), c.pointer)
<1>1. c.low_byte \in Int /\ 0 <= c.low_byte /\ c.low_byte <= 255
      /\ IndexOf(c) \in Int /\ 0 <= IndexOf(c) /\ IndexOf(c) <= 255
  BY Types, IndexByte, ByteIs
<1>2. added \in Int /\ added \in Word
  BY <1>1, WordIs
<1>3. to \in Word
  BY <1>2, Words
<1>4. Unfixed(c) = Value([c EXCEPT !.current_address = to, !.pointer = added])
  BY DEF Unfixed
<1>. HIDE DEF added, to
<1>5. /\ "current_address" \in Free /\ "pointer" \in Free
      /\ to \in Kind("current_address") /\ added \in Kind("pointer")
  BY <1>2, <1>3, FreeFields, KindOf
<1>6. Kept(c, [c EXCEPT !.current_address = to, !.pointer = added])
  BY <1>5, KeptTwo
<1>. QED BY <1>4, <1>6, ValueAccess

LEMMA StackSteps ==
  ASSUME NEW c, Typed(c), c.bus = <<>>
  PROVE  /\ Accessed(c, PullStatus(c)) /\ Accessed(c, PullPcl(c)) /\ Accessed(c, PullPch(c))
         /\ Accessed(c, PushPch(c)) /\ Accessed(c, PushPcl(c)) /\ Accessed(c, Padding(c))
         /\ Accessed(c, PushStatus(c))
<1>1. Accessed(c, Pop(c)) /\ Typed(Pop(c)) /\ Top(c) \in Byte
  BY PopAccess, AccessedTyped, TopByteIs
<1>2. Pop(c).pc \in Word /\ c.pc \in Word
  BY <1>1, Types
<1>3. Accessed(c, PullStatus(c))
  BY <1>1, SetStatusKept, AccessedKept DEF PullStatus
<1>4. Accessed(c, PullPcl(c))
  <2>1. Paged(Top(c), Hi(Pop(c).pc)) \in Word
    BY <1>1, <1>2, Words
  <2>. QED BY <1>1, <2>1, ThenKept DEF PullPcl
<1>5. Accessed(c, PullPch(c))
  <2>1. Paged(Lo(Pop(c).pc), Top(c)) \in Word
    BY <1>1, <1>2, Words
  <2>. QED BY <1>1, <2>1, ThenKept DEF PullPch
<1>6. Accessed(c, PushPch(c)) /\ Accessed(c, PushPcl(c))
  BY <1>2, Words, PushAccess DEF PushPch, PushPcl
<1>7. Accessed(c, Padding(c))
  BY FetchedAccess, PlainSteps DEF Padding
<1>8. Accessed(c, PushStatus(c))
  <2>1. ByBrk(c) \in BOOLEAN
    BY DEF ByBrk
  <2>2. Accessed(c, Push(c, StatusByte(c, ByBrk(c))))
    BY <2>1, StatusByteIs, PushAccess
  <2>. QED BY <2>2, ThenKept DEF PushStatus
<1>. QED BY <1>3, <1>4, <1>5, <1>6, <1>7, <1>8

-----------------------------------------------------------------------------
(* The step an instruction ends with                                        *)

(* What the last step of an instruction makes of c.                         *)
Over(c, d) ==
  /\ Typed(d) /\ d.finished
  /\ \A f \in {"current_cycle", "instruction_cycles", "current_opcode"} : d[f] = c[f]
  /\ Len(d.bus) = IF d.no_increment THEN 0 ELSE 1
  /\ c.hardware_interrupt = None => d.hardware_interrupt = None

LEMMA DoneIs ==
  ASSUME NEW e, Typed(e)
  PROVE  /\ Typed(Done(e)) /\ Done(e).finished
         /\ \A f \in Fields \ {"finished"} : Done(e)[f] = e[f]
<1>1. Typed(Done(e))
  BY Update, KindOf DEF Done
<1>2. DOMAIN e = Fields /\ "finished" \in Fields
  BY KindOf DEF Typed
<1>3. Done(e).finished
  BY <1>2 DEF Done
<1>4. \A f \in Fields \ {"finished"} : Done(e)[f] = e[f]
  BY <1>2 DEF Done
<1>. QED BY <1>1, <1>3, <1>4

LEMMA BookFields ==
  /\ {"current_cycle", "instruction_cycles", "current_opcode", "hardware_interrupt",
      "no_increment", "bus"} \subseteq Fields \ {"finished"}
  /\ {"current_cycle", "instruction_cycles", "current_opcode", "hardware_interrupt",
      "no_increment"} \subseteq Books
BY FreeFields DEF Fields, Books, New

LEMMA DoneOver ==
  ASSUME NEW c, NEW e, Accessed(c, e), ~c.no_increment
  PROVE  Over(c, Done(e))
<1>1. Typed(e) /\ Len(e.bus) = 1 /\ \A f \in Books : e[f] = c[f]
  BY DEF Accessed
<1>2. /\ Done(e).bus = e.bus /\ Done(e).no_increment = e.no_increment
      /\ Done(e).hardware_interrupt = e.hardware_interrupt
      /\ \A f \in {"current_cycle", "instruction_cycles", "current_opcode"} : Done(e)[f] = e[f]
  BY <1>1, DoneIs, BookFields
<1>3. /\ e.no_increment = c.no_increment /\ e.hardware_interrupt = c.hardware_interrupt
      /\ \A f \in {"current_cycle", "instruction_cycles", "current_opcode"} : e[f] = c[f]
  BY <1>1, BookFields
<1>4. Len(Done(e).bus) = IF Done(e).no_increment THEN 0 ELSE 1
  BY <1>1, <1>2, <1>3
<1>5. Typed(Done(e)) /\ Done(e).finished
  BY <1>1, DoneIs
<1>. QED BY <1>2, <1>3, <1>4, <1>5, Zenon DEF Over

Uncounted(c) == [c EXCEPT !.no_increment = TRUE]

LEMMA SilentIs ==
  ASSUME NEW c, Typed(c), c.bus = <<>>
  PROVE  /\ Typed(Uncounted(c)) /\ Uncounted(c).bus = <<>> /\ Uncounted(c).no_increment = TRUE
         /\ \A f \in Fields \ {"no_increment"} : Uncounted(c)[f] = c[f]
<1>1. Typed(Uncounted(c))
  BY Update, KindOf DEF Uncounted
<1>2. DOMAIN c = Fields /\ "no_increment" \in Fields /\ "bus" \in Fields
  BY KindOf DEF Typed
<1>3. Uncounted(c).bus = <<>>
  BY <1>2 DEF Uncounted
<1>4. Uncounted(c).no_increment = TRUE /\ \A f \in Fields \ {"no_increment"} : Uncounted(c)[f] = c[f]
  BY <1>2 DEF Uncounted
<1>. QED BY <1>1, <1>3, <1>4

LEMMA DoneSilent ==
  ASSUME NEW c, Typed(c), c.bus = <<>>, NEW e, Kept(Uncounted(c), e)
  PROVE  Over(c, Done(e))
<1>1. Typed(e) /\ e.bus = Uncounted(c).bus /\ \A f \in Books : e[f] = Uncounted(c)[f]
  BY DEF Kept
<1>2. /\ Done(e).bus = e.bus /\ Done(e).no_increment = e.no_increment
      /\ Done(e).hardware_interrupt = e.hardware_interrupt
      /\ \A f \in {"current_cycle", "instruction_cycles", "current_opcode"} : Done(e)[f] = e[f]
  BY <1>1, DoneIs, BookFields
<1>3. \A f \in {"current_cycle", "instruction_cycles", "current_opcode", "hardware_interrupt"} :
        f \in Fields \ {"no_increment"}
  BY DEF Fields, New
<1>4. /\ e.no_increment = TRUE /\ e.hardware_interrupt = c.hardware_interrupt /\ e.bus = <<>>
      /\ \A f \in {"current_cycle", "instruction_cycles", "current_opcode"} : e[f] = c[f]
  BY <1>1, <1>3, SilentIs, BookFields
<1>5. Len(Done(e).bus) = IF Done(e).no_increment THEN 0 ELSE 1
  BY <1>1, <1>2, <1>4
<1>6. Typed(Done(e)) /\ Done(e).finished
  BY <1>1, DoneIs
<1>. QED BY <1>2, <1>4, <1>5, <1>6, Zenon DEF Over

LEMMA SameOp ==
  ASSUME NEW c, NEW d, Accessed(c, d) \/ Kept(c, d)
  PROVE  Op(d) = Op(c) /\ Mode(d) = Mode(c)
<1>1. d.current_opcode = c.current_opcode
  BY BookFields DEF Accessed, Kept
<1>. QED BY <1>1 DEF Op, Mode

LEMMA UseOver ==
  ASSUME NEW c, NEW d, Accessed(c, d), ~c.no_increment, Op(c) \in Loads
  PROVE  Over(c, Use(d))
<1>1. Typed(d) /\ Op(d) = Op(c)
  BY AccessedTyped, SameOp
<1>2. Kept(d, Load(Op(d), d, d.current_value))
  BY <1>1, LoadKept, Types
<1>3. Accessed(c, Load(Op(d), d, d.current_value))
  BY <1>2, AccessedKept
<1>. QED BY <1>3, DoneOver DEF Use

LEMMA UseSilent ==
  ASSUME NEW c, Typed(c), c.bus = <<>>, Op(c) \in Loads
  PROVE  Over(c, Use(Uncounted(c)))
<1>. DEFINE d == Uncounted(c)
<1>1. Typed(d)
  BY SilentIs
<1>2. d.current_opcode = c.current_opcode
  BY SilentIs, BookFields DEF Fields, New
<1>3. Op(d) = Op(c)
  BY <1>2 DEF Op
<1>4. Kept(d, Load(Op(d), d, d.current_value))
  BY <1>1, <1>3, LoadKept, Types
<1>. QED BY <1>4, DoneSilent DEF Use

LEMMA LoadSteps ==
  ASSUME NEW c, Typed(c), c.bus = <<>>, ~c.no_increment, Op(c) \in Loads
  PROVE  Over(c, ReadValue(c)) /\ Over(c, Immediate(c)) /\ Over(c, FixThenUse(c))
<1>1. Over(c, ReadValue(c))
  BY PlainSteps, UseOver DEF ReadValue
<1>2. Over(c, Immediate(c))
  <2>1. At(c, c.pc) \in Byte
    BY Types, AtByte
  <2>. QED BY <2>1, FetchedAccess, ThenKept, UseOver DEF Immediate
<1>3. Over(c, FixThenUse(c))
  <2>1. Accessed(c, Value(Fixed(c)))
    BY FixedKept, ValueAccess
  <2>2. FixThenUse(c) \in {Use(Value(Fixed(c))), Use(Uncounted(c))}
    BY DEF FixThenUse, ReadValue, Uncounted
  <2>. QED BY <2>1, <2>2, UseOver, UseSilent
<1>. QED BY <1>1, <1>2, <1>3

-----------------------------------------------------------------------------
(* Modifying, storing, and the interrupt's vector                           *)

LEMMA ModifyStep ==
  ASSUME NEW c, Typed(c), c.bus = <<>>, ~c.no_increment, Op(c) \in Official \union Unofficial
  PROVE  Over(c, Modify(c))
<1>. DEFINE stored == Modified(Op(c), c, c.current_value)
            d == Writing(c, c.current_address, stored)
            e == ShiftedOut(Op(c), d, c.current_value)
            f == Accumulate(Op(c), e, stored)
<1>1. c.current_value \in Byte /\ c.current_address \in Word
  BY Types
<1>2. stored \in Byte
  BY <1>1, ModifiedByte
<1>3. Modify(c) = Done(f)
  BY DEF Modify
<1>. HIDE DEF stored
<1>4. Accessed(c, d) /\ Typed(d)
  BY <1>1, <1>2, WritingAccess, AccessedTyped
<1>. HIDE DEF d
<1>5. Kept(d, e) /\ Typed(e)
  BY <1>1, <1>4, ShiftedOutKept, KeptTyped
<1>. HIDE DEF e
<1>6. Kept(e, f)
  BY <1>2, <1>5, AccumulateKept
<1>. HIDE DEF f
<1>7. Accessed(c, f)
  BY <1>4, <1>5, <1>6, AccessedKept
<1>. QED BY <1>3, <1>7, DoneOver

LEMMA UnstableAccess ==
  ASSUME NEW c, Typed(c), c.bus = <<>>, Op(c) \in Stores
  PROVE  Accessed(c, UnstableStore(c))
<1>. DEFINE h == (c.base_high + 1) % 256
            value == IF c.dma_on_previous_cycle THEN Stored(Op(c), c)
                     ELSE And(Stored(Op(c), c), h)
            to == IF c.page_crossed THEN Paged(Lo(c.current_address), value)
                  ELSE c.current_address
            d == IF Op(c) = "TAS" THEN [c EXCEPT !.s = And(c.a, c.x)] ELSE c
<1>1. h \in Byte
  BY Types, ByteIs
<1>. HIDE DEF h
<1>2. Stored(Op(c), c) \in Byte
  BY StoredByte
<1>3. And(Stored(Op(c), c), h) \in Byte
  BY <1>1, <1>2, AndIs
<1>4. value \in Byte
  BY <1>2, <1>3
<1>. HIDE DEF value
<1>5. c.current_address \in Word /\ And(c.a, c.x) \in Byte
  BY Types, AndIs
<1>6. to \in Word
  BY <1>4, <1>5, Words
<1>7. UnstableStore(c) = Writing(d, to, value)
  BY DEF UnstableStore, h, value
<1>. HIDE DEF to
<1>8. Kept(c, d)
  BY <1>5, ByteKept, KeptSelf
<1>. HIDE DEF d
<1>9. Typed(d) /\ d.bus = <<>>
  BY <1>8 DEF Kept
<1>10. Accessed(d, Writing(d, to, value))
  BY <1>4, <1>6, <1>9, WritingAccess
<1>. QED BY <1>7, <1>8, <1>10, KeptAccessed

LEMMA WriteAccess ==
  ASSUME NEW c, NEW d, Kept(c, d), c.bus = <<>>, ~c.no_increment, Op(c) \in Stores
  PROVE  Over(c, Write(d))
<1>1. Typed(d) /\ d.bus = <<>>
  BY DEF Kept
<1>2. Op(d) = Op(c)
  BY SameOp
<1>3. Accessed(d, Writing(d, d.current_address, Stored(Op(d), d)))
  BY <1>1, <1>2, Types, StoredByte, WritingAccess
<1>4. Accessed(d, UnstableStore(d))
  BY <1>1, <1>2, UnstableAccess
<1>5. \E e : Accessed(d, e) /\ Write(d) = Done(e)
  BY <1>3, <1>4 DEF Write
<1>. QED BY <1>5, KeptAccessed, DoneOver

LEMMA WritingSteps ==
  ASSUME NEW c, Typed(c), c.bus = <<>>, ~c.no_increment, Op(c) \in Stores
  PROVE  Over(c, Write(c)) /\ Over(c, FixThenWrite(c))
<1>1. Over(c, Write(c)) /\ Over(c, Write(Fixed(c)))
  BY KeptSelf, FixedKept, WriteAccess
<1>. QED BY <1>1 DEF FixThenWrite

LEMMA ImpliedOver ==
  ASSUME NEW c, Typed(c), c.bus = <<>>, ~c.no_increment
  PROVE  /\ Op(c) \in Flags => Over(c, FlagStep(c))
         /\ Op(c) \in Transfers => Over(c, TransferStep(c))
         /\ Op(c) \in Official => Over(c, ShiftStep(c))
         /\ Over(c, Nothing(c)) /\ Over(c, PushRegister(c)) /\ Over(c, PullRegister(c))
         /\ Over(c, Return(c)) /\ Over(c, IncrementPc(c)) /\ Over(c, JumpHigh(c))
         /\ Over(c, JumpPointed(c))
<1>1. Accessed(c, Discard(c)) /\ Typed(Discard(c))
  BY PlainSteps, AccessedTyped
<1>2. Op(c) \in Flags => Over(c, FlagStep(c))
  BY <1>1, SetFlagKept, AccessedKept, DoneOver DEF FlagStep
<1>3. Op(c) \in Transfers => Over(c, TransferStep(c))
  BY <1>1, TransferKept, AccessedKept, DoneOver DEF TransferStep
<1>4. Op(c) \in Official => Over(c, ShiftStep(c))
  BY <1>1, ShiftAKept, AccessedKept, DoneOver DEF ShiftStep
<1>5. Over(c, Nothing(c))
  BY <1>1, DoneOver DEF Nothing
<1>6. Over(c, PushRegister(c))
  <2>1. c.a \in Byte /\ StatusByte(c, TRUE) \in Byte
    BY Types, StatusByteIs
  <2>. QED BY <2>1, PushAccess, DoneOver DEF PushRegister
<1>7. Over(c, PullRegister(c))
  <2>1. Accessed(c, Pop(c)) /\ Typed(Pop(c)) /\ Top(c) \in Byte
    BY PopAccess, AccessedTyped, TopByteIs
  <2>2. Accessed(c, SetA(Pop(c), Top(c))) /\ Accessed(c, SetStatus(Pop(c), Top(c)))
    BY <2>1, LoadingKept, SetStatusKept, AccessedKept
  <2>. QED BY <2>2, DoneOver DEF PullRegister
<1>8. Over(c, Return(c))
  BY StackSteps, DoneOver DEF Return
<1>9. Over(c, IncrementPc(c))
  BY FetchedAccess, DoneOver DEF IncrementPc
<1>10. Over(c, JumpHigh(c))
  <2>1. Paged(c.low_byte, At(c, c.pc)) \in Word
    BY Types, AtByte, Words
  <2>. QED BY <2>1, ReadingAccess, ThenKept, DoneOver DEF JumpHigh
<1>11. Over(c, JumpPointed(c))
  <2>. DEFINE next == Paged(Lo(c.current_address + 1), Hi(c.current_address))
  <2>1. c.current_address \in Word /\ c.current_address + 1 \in Int
    BY Types, WordIs
  <2>2. Lo(c.current_address + 1) \in Byte /\ Hi(c.current_address) \in Byte
    BY <2>1, Words
  <2>3. next \in Word
    BY <2>2, Words
  <2>4. JumpPointed(c) = Done([Reading(c, next) EXCEPT !.pc = Paged(c.low_byte, At(c, next))])
    BY DEF JumpPointed
  <2>. HIDE DEF next
  <2>5. Paged(c.low_byte, At(c, next)) \in Word
    BY <2>3, Types, AtByte, Words
  <2>. QED BY <2>4, <2>5, ReadingAccess, ThenKept, DoneOver
<1>. QED BY <1>2, <1>3, <1>4, <1>5, <1>6, <1>7, <1>8, <1>9, <1>10, <1>11

LEMMA VectorWord ==
  ASSUME NEW c, Typed(c)
  PROVE  Vector(c) \in {65530, 65534}
<1>1. c.hardware_interrupt \in {None} \union DOMAIN VectorAddress
  BY KindOf DEF Typed
<1>2. VectorAddress.nmi = 65530 /\ VectorAddress.irq = 65534 /\ DOMAIN VectorAddress = {"nmi", "irq"}
  BY DEF VectorAddress
<1>. QED BY <1>1, <1>2 DEF Vector, ByBrk

LEMMA VectorSteps ==
  ASSUME NEW c, Typed(c), c.bus = <<>>, ~c.no_increment
  PROVE  /\ Accessed(c, VectorLow(c))
         /\ Over(c, VectorHigh(c)) /\ VectorHigh(c).hardware_interrupt = None
<1>1. Vector(c) \in Word /\ Vector(c) + 1 \in Word
  BY VectorWord, WordIs
<1>2. At(c, Vector(c)) \in Byte /\ At(c, Vector(c) + 1) \in Byte
  BY <1>1, AtByte
<1>3. Accessed(c, VectorLow(c))
  BY <1>2, ReadingAccess, ThenKept DEF VectorLow
<1>. DEFINE to == Paged(c.low_byte, At(c, Vector(c) + 1))
            d == Reading(c, Vector(c) + 1)
            e == [d EXCEPT !.pc = to]
            f == [e EXCEPT !.latched_nmi = FALSE]
            g == [f EXCEPT !.hardware_interrupt = None]
<1>4. to \in Word
  BY <1>2, Types, Words
<1>5. VectorHigh(c) = Done(g)
  BY DEF VectorHigh
<1>. HIDE DEF to
<1>6. Accessed(c, d)
  BY ReadingAccess
<1>. HIDE DEF d
<1>7. Accessed(c, e)
  BY <1>4, <1>6, ThenKept
<1>. HIDE DEF e
<1>8. Typed(e) /\ FALSE \in BOOLEAN
  BY <1>7, AccessedTyped
<1>9. Accessed(c, f)
  BY <1>7, <1>8, FlagKept, AccessedKept
<1>. HIDE DEF f
<1>10. Typed(f)
  BY <1>9, AccessedTyped
<1>11. None \in Kind("hardware_interrupt") /\ "hardware_interrupt" \in Fields
  BY KindOf
<1>12. Typed(g)
  BY <1>10, <1>11, Update
<1>13. /\ g.hardware_interrupt = None
       /\ \A h \in Fields \ {"hardware_interrupt"} : g[h] = f[h]
  BY <1>10, <1>11 DEF Typed
<1>. HIDE DEF g
<1>14. /\ Done(g).hardware_interrupt = None /\ Done(g).finished /\ Typed(Done(g))
       /\ Done(g).bus = g.bus /\ Done(g).no_increment = g.no_increment
       /\ \A h \in {"current_cycle", "instruction_cycles", "current_opcode"} : Done(g)[h] = g[h]
  BY <1>12, <1>13, DoneIs, BookFields
<1>15. /\ {"current_cycle", "instruction_cycles", "current_opcode", "no_increment", "bus"}
            \subseteq Fields \ {"hardware_interrupt"}
       /\ {"current_cycle", "instruction_cycles", "current_opcode", "no_increment"}
            \subseteq Books
  BY DEF Fields, New, Books
<1>16. /\ g.bus = f.bus /\ g.no_increment = f.no_increment
       /\ \A h \in {"current_cycle", "instruction_cycles", "current_opcode"} : g[h] = f[h]
  BY <1>13, <1>15
<1>17. /\ Len(f.bus) = 1 /\ f.no_increment = c.no_increment
       /\ \A h \in {"current_cycle", "instruction_cycles", "current_opcode"} : f[h] = c[h]
  BY <1>9, <1>15 DEF Accessed
<1>18. Len(Done(g).bus) = IF Done(g).no_increment THEN 0 ELSE 1
  BY <1>14, <1>16, <1>17
<1>19. Over(c, Done(g))
  BY <1>14, <1>16, <1>17, <1>18, Zenon DEF Over
<1>. QED BY <1>3, <1>5, <1>14, <1>19

-----------------------------------------------------------------------------
(* The steps of an instruction, by its kind                                 *)

LoadSequences ==
  {CompareImmSteps, ImmediateSteps, ReadAbs, ReadZp, ReadZpX, ReadIndX, ReadIndY, ReadAbsX}
StoreSequences == {WriteAbs, WriteZp, WriteZpX, WriteIndX, WriteIndY, WriteAbsX}
ModifySequences ==
  {ModifyAbs, ModifyZp, ModifyZpX, ModifyIndX, ModifyIndY, ModifyAbsX, UnofficialModifyAbsX}
OtherSequences ==
  {NopSteps, InterruptSteps, RtiSteps, RtsSteps, PushSteps, PullSteps, JmpIndSteps, JmpSteps,
   JsrSteps}

(* What an instruction's steps are, by its kind.                            *)
Sequenced(c, s) ==
  \/ Op(c) \in Loads /\ s \in LoadSequences
  \/ Op(c) \in Stores /\ s \in StoreSequences
  \/ Op(c) \in Official \union Unofficial /\ s \in ModifySequences
  \/ Op(c) \in Official /\ s = ShiftASteps
  \/ s = BranchSteps
  \/ Op(c) \in Flags /\ s = FlagSteps
  \/ Op(c) \in Transfers /\ s = TransferSteps
  \/ s \in OtherSequences

LEMMA StepsOf ==
  ASSUME NEW c, Typed(c)
  PROVE  Steps(c) = <<>> \/ Sequenced(c, Steps(c))
<1>. DEFINE op == Op(c)
            mode == Mode(c)
<1>1. Known(op, mode)
  BY Types, EveryOpcode DEF Op, Mode
<1>2. CASE c.hardware_interrupt # None
  BY <1>2, Zenon DEF Steps, Sequenced, OtherSequences
<1>. HIDE DEF op, mode
<1>3. ASSUME c.hardware_interrupt = None PROVE Steps(c) = <<>> \/ Sequenced(c, Steps(c))
  <2>0. Steps(c) =
          IF op = "JAM" THEN <<>>
          ELSE CASE op \in BranchOps -> BranchSteps
            [] op = "JSR" -> JsrSteps
            [] op = "JMP" -> IF mode = "ind" THEN JmpIndSteps ELSE JmpSteps
            [] op \in Official \union Unofficial -> ModifySteps(op, mode)
            [] op \in Stores -> WriteSteps(mode)
            [] mode = "impl" -> ImpliedSteps(op)
            [] OTHER -> ReadSteps(op, mode)
    BY <1>3, Zenon DEF Steps, op, mode
  <2>. USE DEF BranchOps, Official, Unofficial, Stores, Unstable, Flags, Transfers, Loads, Implied, Direct, Indexing
  <2>1. CASE op = "JAM"
    BY <2>0, <2>1
  <2>2. CASE op \in BranchOps
    <3>1. mode = "rel"
      BY <1>1, <2>2 DEF Known
    <3>2. Steps(c) = BranchSteps
      BY <2>0, <2>2, <3>1
    <3>. QED BY <3>2 DEF Sequenced
  <2>3. CASE op \in {"JSR", "JMP"}
    <3>1. mode \in {"abs", "ind"}
      BY <1>1, <2>3 DEF Known
    <3>2. Steps(c) \in {JsrSteps, JmpSteps, JmpIndSteps}
      BY <2>0, <2>3, <3>1
    <3>. QED BY <3>2 DEF Sequenced, OtherSequences
  <2>4. CASE op \in Official
    <3>1. mode \in {"acc", "abs", "zp", "zpx", "absx"}
      BY <1>1, <2>4 DEF Known
    <3>2. Steps(c) = ModifySteps(op, mode)
      BY <2>0, <2>4, <3>1
    <3>. QED BY <2>4, <3>1, <3>2 DEF Sequenced, op, ModifySequences, ModifySteps
  <2>5. CASE op \in Unofficial
    <3>1. mode \in {"abs", "zp", "zpx", "indx", "absx", "absy", "indy"}
      BY <1>1, <2>5 DEF Known
    <3>2. Steps(c) = ModifySteps(op, mode)
      BY <2>0, <2>5, <3>1
    <3>. QED BY <2>5, <3>1, <3>2 DEF Sequenced, op, ModifySequences, ModifySteps
  <2>6. CASE op \in Stores
    <3>1. mode \in {"abs", "zp", "zpx", "zpy", "indx", "absx", "absy", "indy"}
      BY <1>1, <2>6 DEF Known
    <3>2. Steps(c) = WriteSteps(mode)
      BY <2>0, <2>6, <3>1
    <3>. QED BY <2>6, <3>1, <3>2 DEF Sequenced, op, StoreSequences, WriteSteps
  <2>7. CASE op \in Implied /\ mode = "impl"
    <3>1. Steps(c) = ImpliedSteps(op)
      BY <2>0, <2>7
    <3>. QED BY <2>7, <3>1 DEF Sequenced, op, OtherSequences, ImpliedSteps
  <2>8. CASE op \in Loads /\ mode # "impl"
    <3>1. mode \in {"imm", "abs", "zp", "zpx", "zpy", "indx", "absx", "absy", "indy"}
      BY <1>1, <2>8 DEF Known
    <3>2. Steps(c) = ReadSteps(op, mode)
      BY <2>0, <2>8
    <3>. QED BY <2>8, <3>1, <3>2 DEF Sequenced, op, LoadSequences, ReadSteps
  <2>. QED BY <1>1, <2>1, <2>2, <2>3, <2>4, <2>5, <2>6, <2>7, <2>8 DEF Known
<1>. QED BY <1>2, <1>3

-----------------------------------------------------------------------------
PlainNames ==
  {"low", "address", "zero page", "index", "low pointed", "address pointed", "pointer",
   "pointer low", "indexed", "indexed pointer", "value", "value, fix", "fix, value",
   "carry, value", "write back", "discard", "stack", "pull p", "pull pcl", "pull pch",
   "push pch", "push pcl", "padding", "push p", "vector low"}

(* The steps before the last, what precedes the ones that depend on the step before, and the last *)
Chained(s, length) ==
  /\ Len(s) = length /\ s[1] # "unfixed"
  /\ \A k \in 1 .. length :
       k # length => \/ s[k] \in PlainNames \union {"unfixed"} /\ s[k + 1] # "unfixed"
                     \/ s[k] = "pointer" /\ s[k + 1] = "unfixed"
                     \/ s[k] = "branch" /\ s[k + 1] = "fix pc"

EndsIn(s, length, last) == Chained(s, length) /\ s[length] = last

LEMMA SequencesAre ==
  /\ EndsIn(ReadAbs, 3, "read")
  /\ EndsIn(ReadZp, 2, "read")
  /\ EndsIn(ReadZpX, 3, "read")
  /\ EndsIn(ReadIndX, 5, "read")
  /\ EndsIn(ReadIndY, 5, "fix, use")
  /\ EndsIn(ReadAbsX, 4, "fix, use")
  /\ EndsIn(CompareImmSteps, 1, "immediate")
  /\ EndsIn(ImmediateSteps, 1, "immediate")
  /\ EndsIn(WriteAbs, 3, "write")
  /\ EndsIn(WriteZp, 2, "write")
  /\ EndsIn(WriteZpX, 3, "write")
  /\ EndsIn(WriteIndX, 5, "write")
  /\ EndsIn(WriteIndY, 5, "fix, write")
  /\ EndsIn(WriteAbsX, 4, "write")
  /\ EndsIn(ModifyAbs, 5, "modify")
  /\ EndsIn(ModifyZp, 4, "modify")
  /\ EndsIn(ModifyZpX, 5, "modify")
  /\ EndsIn(ModifyIndX, 7, "modify")
  /\ EndsIn(ModifyIndY, 7, "modify")
  /\ EndsIn(ModifyAbsX, 6, "modify")
  /\ EndsIn(UnofficialModifyAbsX, 6, "modify")
  /\ EndsIn(NopSteps, 1, "nothing")
  /\ EndsIn(RtiSteps, 5, "return")
  /\ EndsIn(RtsSteps, 5, "increment pc")
  /\ EndsIn(PushSteps, 2, "push")
  /\ EndsIn(PullSteps, 3, "pull")
  /\ EndsIn(JmpIndSteps, 4, "jump pointed")
  /\ EndsIn(JmpSteps, 2, "jump")
  /\ EndsIn(JsrSteps, 5, "jump")
  /\ EndsIn(InterruptSteps, 6, "vector high")
  /\ EndsIn(ShiftASteps, 1, "shift")
  /\ EndsIn(FlagSteps, 1, "flag")
  /\ EndsIn(TransferSteps, 1, "transfer")
  /\ EndsIn(BranchSteps, 3, "fix pc")
<1>. USE DEF EndsIn, Chained, PlainNames
<1>1. /\ EndsIn(ReadAbs, 3, "read")
      /\ EndsIn(ReadZp, 2, "read")
      /\ EndsIn(ReadZpX, 3, "read")
      /\ EndsIn(ReadIndX, 5, "read")
      /\ EndsIn(ReadIndY, 5, "fix, use")
      /\ EndsIn(ReadAbsX, 4, "fix, use")
      /\ EndsIn(CompareImmSteps, 1, "immediate")
      /\ EndsIn(ImmediateSteps, 1, "immediate")
  BY DEF ReadAbs, ReadZp, ReadZpX, ReadIndX, ReadIndY, ReadAbsX, CompareImmSteps, ImmediateSteps
<1>2. /\ EndsIn(WriteAbs, 3, "write")
      /\ EndsIn(WriteZp, 2, "write")
      /\ EndsIn(WriteZpX, 3, "write")
      /\ EndsIn(WriteIndX, 5, "write")
      /\ EndsIn(WriteIndY, 5, "fix, write")
      /\ EndsIn(WriteAbsX, 4, "write")
  BY DEF WriteAbs, WriteZp, WriteZpX, WriteIndX, WriteIndY, WriteAbsX
<1>3. /\ EndsIn(ModifyAbs, 5, "modify")
      /\ EndsIn(ModifyZp, 4, "modify")
      /\ EndsIn(ModifyZpX, 5, "modify")
      /\ EndsIn(ModifyIndX, 7, "modify")
      /\ EndsIn(ModifyIndY, 7, "modify")
      /\ EndsIn(ModifyAbsX, 6, "modify")
      /\ EndsIn(UnofficialModifyAbsX, 6, "modify")
  BY DEF ModifyAbs, ModifyZp, ModifyZpX, ModifyIndX, ModifyIndY, ModifyAbsX, UnofficialModifyAbsX
<1>4. /\ EndsIn(NopSteps, 1, "nothing")
      /\ EndsIn(RtiSteps, 5, "return")
      /\ EndsIn(RtsSteps, 5, "increment pc")
      /\ EndsIn(PushSteps, 2, "push")
      /\ EndsIn(PullSteps, 3, "pull")
      /\ EndsIn(JmpIndSteps, 4, "jump pointed")
      /\ EndsIn(JmpSteps, 2, "jump")
      /\ EndsIn(JsrSteps, 5, "jump")
      /\ EndsIn(InterruptSteps, 6, "vector high")
  BY DEF NopSteps, RtiSteps, RtsSteps, PushSteps, PullSteps, JmpIndSteps, JmpSteps, JsrSteps, InterruptSteps
<1>5. /\ EndsIn(ShiftASteps, 1, "shift")
      /\ EndsIn(FlagSteps, 1, "flag")
      /\ EndsIn(TransferSteps, 1, "transfer")
      /\ EndsIn(BranchSteps, 3, "fix pc")
  BY DEF ShiftASteps, FlagSteps, TransferSteps, BranchSteps
<1>. HIDE DEF EndsIn, Chained, PlainNames
<1>. QED BY <1>1, <1>2, <1>3, <1>4, <1>5, Zenon

(* The last steps an instruction may have.                                  *)
LastFor(c, last) ==
  \/ last \in {"read", "fix, use", "immediate"} /\ Op(c) \in Loads
  \/ last \in {"write", "fix, write"} /\ Op(c) \in Stores
  \/ last = "modify" /\ Op(c) \in Official \union Unofficial
  \/ last = "shift" /\ Op(c) \in Official
  \/ last = "flag" /\ Op(c) \in Flags
  \/ last = "transfer" /\ Op(c) \in Transfers
  \/ last \in {"nothing", "return", "increment pc", "push", "pull", "jump pointed", "jump",
               "vector high", "fix pc"}

LEMMA LastOf ==
  ASSUME NEW c, NEW s, Sequenced(c, s)
  PROVE  \E length \in 1 .. 7 : Chained(s, length) /\ LastFor(c, s[length])
<1>0. \A length \in {1, 2, 3, 4, 5, 6, 7} : \A last :
        EndsIn(s, length, last) => length \in 1 .. 7 /\ Chained(s, length) /\ s[length] = last
  BY DEF EndsIn
<1>. SUFFICES \E length \in {1, 2, 3, 4, 5, 6, 7} : \E last :
                EndsIn(s, length, last) /\ LastFor(c, last)
  <2>1. PICK length \in {1, 2, 3, 4, 5, 6, 7} : \E last : EndsIn(s, length, last) /\ LastFor(c, last)
    OBVIOUS
  <2>2. length \in 1 .. 7 /\ Chained(s, length) /\ LastFor(c, s[length])
    BY <1>0, <2>1
  <2>. QED BY <2>2
<1>1. CASE Op(c) \in Loads /\ s \in LoadSequences
  <2>1. \E length \in {1, 2, 3, 4, 5, 6, 7} : \E last \in {"read", "fix, use", "immediate"} : EndsIn(s, length, last)
    BY <1>1, SequencesAre, Zenon DEF LoadSequences
  <2>2. \A last \in {"read", "fix, use", "immediate"} : LastFor(c, last)
    BY <1>1 DEF LastFor
  <2>. QED BY <2>1, <2>2, Zenon
<1>2. CASE Op(c) \in Stores /\ s \in StoreSequences
  <2>1. \E length \in {1, 2, 3, 4, 5, 6, 7} : \E last \in {"write", "fix, write"} : EndsIn(s, length, last)
    BY <1>2, SequencesAre, Zenon DEF StoreSequences
  <2>2. \A last \in {"write", "fix, write"} : LastFor(c, last)
    BY <1>2 DEF LastFor
  <2>. QED BY <2>1, <2>2, Zenon
<1>3. CASE Op(c) \in Official \union Unofficial /\ s \in ModifySequences
  <2>1. \E length \in {1, 2, 3, 4, 5, 6, 7} : \E last \in {"modify"} : EndsIn(s, length, last)
    BY <1>3, SequencesAre, Zenon DEF ModifySequences
  <2>2. \A last \in {"modify"} : LastFor(c, last)
    BY <1>3 DEF LastFor
  <2>. QED BY <2>1, <2>2, Zenon
<1>4. CASE Op(c) \in Official /\ s = ShiftASteps
  <2>1. \E length \in {1, 2, 3, 4, 5, 6, 7} : \E last \in {"shift"} : EndsIn(s, length, last)
    BY <1>4, SequencesAre, Zenon
  <2>2. \A last \in {"shift"} : LastFor(c, last)
    BY <1>4 DEF LastFor
  <2>. QED BY <2>1, <2>2, Zenon
<1>5. CASE Op(c) \in Flags /\ s = FlagSteps
  <2>1. \E length \in {1, 2, 3, 4, 5, 6, 7} : \E last \in {"flag"} : EndsIn(s, length, last)
    BY <1>5, SequencesAre, Zenon
  <2>2. \A last \in {"flag"} : LastFor(c, last)
    BY <1>5 DEF LastFor
  <2>. QED BY <2>1, <2>2, Zenon
<1>6. CASE Op(c) \in Transfers /\ s = TransferSteps
  <2>1. \E length \in {1, 2, 3, 4, 5, 6, 7} : \E last \in {"transfer"} : EndsIn(s, length, last)
    BY <1>6, SequencesAre, Zenon
  <2>2. \A last \in {"transfer"} : LastFor(c, last)
    BY <1>6 DEF LastFor
  <2>. QED BY <2>1, <2>2, Zenon
<1>7. CASE s = BranchSteps
  <2>1. \E length \in {1, 2, 3, 4, 5, 6, 7} : \E last \in {"fix pc"} : EndsIn(s, length, last)
    BY <1>7, SequencesAre, Zenon
  <2>2. \A last \in {"fix pc"} : LastFor(c, last)
    BY <1>7 DEF LastFor
  <2>. QED BY <2>1, <2>2, Zenon
<1>8. CASE s \in OtherSequences
  <2>1. \E length \in {1, 2, 3, 4, 5, 6, 7} : \E last \in {"nothing", "return", "increment pc", "push", "pull", "jump pointed", "jump",
                 "vector high"} : EndsIn(s, length, last)
    BY <1>8, SequencesAre, Zenon DEF OtherSequences
  <2>2. \A last \in {"nothing", "return", "increment pc", "push", "pull", "jump pointed", "jump",
                 "vector high"} : LastFor(c, last)
    BY <1>8 DEF LastFor
  <2>. QED BY <2>1, <2>2, Zenon
<1>. QED BY <1>1, <1>2, <1>3, <1>4, <1>5, <1>6, <1>7, <1>8, Zenon DEF Sequenced

-----------------------------------------------------------------------------
(* A step before the last                                                   *)

LEMMA Performs ==
  ASSUME NEW c
  PROVE  /\ Perform("low", c) = Low(c)
         /\ Perform("address", c) = AddressHigh(c)
         /\ Perform("zero page", c) = ZeroPage(c)
         /\ Perform("index", c) = Index(c)
         /\ Perform("low pointed", c) = LowPointed(c)
         /\ Perform("address pointed", c) = AddressPointed(c)
         /\ Perform("pointer", c) = Pointer(c)
         /\ Perform("pointer low", c) = PointerLow(c)
         /\ Perform("indexed", c) = IndexedAddress(c)
         /\ Perform("indexed pointer", c) = IndexedPointer(c)
         /\ Perform("value", c) = Value(c)
         /\ Perform("value, fix", c) = ValueThenFix(c)
         /\ Perform("fix, value", c) = FixThenValue(c)
         /\ Perform("unfixed", c) = Unfixed(c)
         /\ Perform("carry, value", c) = CarryThenValue(c)
         /\ Perform("read", c) = ReadValue(c)
         /\ Perform("fix, use", c) = FixThenUse(c)
         /\ Perform("immediate", c) = Immediate(c)
         /\ Perform("write back", c) = WriteBack(c)
         /\ Perform("modify", c) = Modify(c)
         /\ Perform("write", c) = Write(c)
         /\ Perform("fix, write", c) = FixThenWrite(c)
         /\ Perform("flag", c) = FlagStep(c)
         /\ Perform("transfer", c) = TransferStep(c)
         /\ Perform("shift", c) = ShiftStep(c)
         /\ Perform("nothing", c) = Nothing(c)
         /\ Perform("discard", c) = Discard(c)
         /\ Perform("stack", c) = StackRead(c)
         /\ Perform("push", c) = PushRegister(c)
         /\ Perform("pull", c) = PullRegister(c)
         /\ Perform("pull p", c) = PullStatus(c)
         /\ Perform("pull pcl", c) = PullPcl(c)
         /\ Perform("pull pch", c) = PullPch(c)
         /\ Perform("return", c) = Return(c)
         /\ Perform("increment pc", c) = IncrementPc(c)
         /\ Perform("push pch", c) = PushPch(c)
         /\ Perform("push pcl", c) = PushPcl(c)
         /\ Perform("jump", c) = JumpHigh(c)
         /\ Perform("jump pointed", c) = JumpPointed(c)
         /\ Perform("branch", c) = BranchStep(c)
         /\ Perform("fix pc", c) = FixPc(c)
         /\ Perform("padding", c) = Padding(c)
         /\ Perform("push p", c) = PushStatus(c)
         /\ Perform("vector low", c) = VectorLow(c)
         /\ Perform("vector high", c) = VectorHigh(c)
BY DEF Perform

LEMMA PlainStep ==
  ASSUME NEW c, Typed(c), c.bus = <<>>, NEW step \in PlainNames, ~c.no_increment
  PROVE  Accessed(c, Perform(step, c))
<1>1. CASE step \in {"low", "address", "zero page", "index", "low pointed", "address pointed",
                     "pointer", "pointer low", "value", "write back", "discard", "stack"}
  <2>1. /\ Accessed(c, Perform("low", c))
        /\ Accessed(c, Perform("address", c))
        /\ Accessed(c, Perform("zero page", c))
        /\ Accessed(c, Perform("index", c))
        /\ Accessed(c, Perform("low pointed", c))
        /\ Accessed(c, Perform("address pointed", c))
        /\ Accessed(c, Perform("pointer", c))
        /\ Accessed(c, Perform("pointer low", c))
        /\ Accessed(c, Perform("value", c))
        /\ Accessed(c, Perform("write back", c))
        /\ Accessed(c, Perform("discard", c))
        /\ Accessed(c, Perform("stack", c))
    BY Performs, PlainSteps, Zenon
  <2>. QED BY <1>1, <2>1
<1>2. CASE step \in {"indexed", "indexed pointer", "value, fix", "fix, value", "carry, value"}
  <2>1. /\ Accessed(c, Perform("indexed", c))
        /\ Accessed(c, Perform("indexed pointer", c))
        /\ Accessed(c, Perform("value, fix", c))
        /\ Accessed(c, Perform("fix, value", c))
        /\ Accessed(c, Perform("carry, value", c))
    BY Performs, IndexedSteps, Zenon
  <2>. QED BY <1>2, <2>1
<1>3. CASE step \in {"pull p", "pull pcl", "pull pch", "push pch", "push pcl", "padding",
                     "push p"}
  <2>1. /\ Accessed(c, Perform("pull p", c))
        /\ Accessed(c, Perform("pull pcl", c))
        /\ Accessed(c, Perform("pull pch", c))
        /\ Accessed(c, Perform("push pch", c))
        /\ Accessed(c, Perform("push pcl", c))
        /\ Accessed(c, Perform("padding", c))
        /\ Accessed(c, Perform("push p", c))
    BY Performs, StackSteps, Zenon
  <2>. QED BY <1>3, <2>1
<1>4. CASE step = "vector low"
  BY <1>4, Performs, VectorSteps
<1>. QED BY <1>1, <1>2, <1>3, <1>4 DEF PlainNames

(* What the middle step of a branch makes of c.                             *)
Branched(c, d) ==
  /\ Typed(d) /\ Len(d.bus) = IF d.no_increment THEN 0 ELSE 1
  /\ \A f \in Books \ {"no_increment"} : d[f] = c[f]
  /\ d.no_increment => ~d.page_crossed

LEMMA BranchStepIs ==
  ASSUME NEW c, Typed(c), c.bus = <<>>, ~c.no_increment
  PROVE  Branched(c, BranchStep(c))
<1>1. CASE Taken(Op(c), c)
  <2>. DEFINE offset == IF c.low_byte < 128 THEN c.low_byte ELSE c.low_byte - 256
              new == Shift(c.pc, offset)
              crossed == Hi(c.pc) # Hi(new)
              d == Reading(c, c.pc)
              to == Paged(Lo(d.pc + c.low_byte), Hi(d.pc))
  <2>0. c.pc \in Word /\ c.low_byte \in Int
    BY Types, ByteIs
  <2>1. offset \in Int
    BY <2>0
  <2>. HIDE DEF offset
  <2>2. new \in Word /\ crossed \in BOOLEAN
    BY <2>0, <2>1, Words
  <2>3. Accessed(c, d) /\ Typed(d) /\ d.pc = c.pc
    BY ReadingAccess, AccessedTyped, Same
  <2>4. d.pc + c.low_byte \in Int /\ Hi(d.pc) \in Byte
    <3>1. d.pc \in Word
      BY <2>0, <2>3
    <3>2. d.pc \in Int
      BY <3>1, WordIs
    <3>3. Hi(d.pc) \in Byte
      BY <3>1, Words
    <3>. HIDE DEF d
    <3>. QED BY <2>0, <3>2, <3>3
  <2>5. Lo(d.pc + c.low_byte) \in Byte
    BY <2>4, Words
  <2>6. to \in Word
    BY <2>4, <2>5, Words
  <2>7. BranchStep(c) = [d EXCEPT !.page_crossed = crossed, !.current_address = new, !.pc = to]
    BY <1>1, Zenon DEF BranchStep, offset
  <2>. HIDE DEF crossed, new, to
  <2>8. /\ "page_crossed" \in Free /\ "current_address" \in Free /\ "pc" \in Free
        /\ crossed \in Kind("page_crossed") /\ new \in Kind("current_address")
        /\ to \in Kind("pc")
    BY <2>2, <2>6, FreeFields, KindOf
  <2>. HIDE DEF d
  <2>9. Kept(d, [d EXCEPT !.page_crossed = crossed, !.current_address = new, !.pc = to])
    BY <2>3, <2>8, KeptThree
  <2>10. Accessed(c, BranchStep(c))
    BY <2>3, <2>7, <2>9, AccessedKept
  <2>. QED BY <2>10, BookFields DEF Accessed, Branched
<1>2. CASE ~Taken(Op(c), c)
  <2>. DEFINE d == [c EXCEPT !.page_crossed = FALSE]
  <2>1. FALSE \in BOOLEAN
    OBVIOUS
  <2>2. Kept(c, d)
    BY <2>1, FlagKept
  <2>3. BranchStep(c) = Uncounted(d)
    BY <1>2, Zenon DEF BranchStep, Uncounted
  <2>4. DOMAIN c = Fields /\ "page_crossed" \in Fields /\ "page_crossed" \in Fields \ {"no_increment"}
    BY FreeFields, KindOf DEF Typed
  <2>5. d.page_crossed = FALSE
    BY <2>4
  <2>. HIDE DEF d
  <2>6. Typed(d) /\ d.bus = <<>> /\ \A f \in Books : d[f] = c[f]
    BY <2>2 DEF Kept
  <2>7. /\ Typed(Uncounted(d)) /\ Uncounted(d).bus = <<>> /\ Uncounted(d).no_increment = TRUE
        /\ Uncounted(d).page_crossed = FALSE
        /\ \A f \in Books \ {"no_increment"} : Uncounted(d)[f] = d[f]
    BY <2>4, <2>5, <2>6, SilentIs, FreeFields
  <2>. QED BY <2>3, <2>6, <2>7 DEF Branched
<1>. QED BY <1>1, <1>2

LEMMA FixPcIs ==
  ASSUME NEW c, Typed(c), c.bus = <<>>, c.no_increment => ~c.page_crossed
  PROVE  Over(c, FixPc(c))
<1>1. CASE c.page_crossed
  <2>1. Accessed(c, Reading(c, c.pc)) /\ c.current_address \in Word
    BY ReadingAccess, Types
  <2>2. Accessed(c, [Reading(c, c.pc) EXCEPT !.pc = c.current_address])
    BY <2>1, ThenKept
  <2>. QED BY <1>1, <2>2, DoneOver DEF FixPc
<1>2. CASE ~c.page_crossed
  <2>1. Kept(Uncounted(c), Uncounted(c))
    BY SilentIs, KeptSelf
  <2>. QED BY <1>2, <2>1, DoneSilent DEF FixPc, Uncounted
<1>. QED BY <1>1, <1>2

-----------------------------------------------------------------------------
(* The last step, and what holds between two steps                          *)

LEMMA LastStep ==
  ASSUME NEW c, Typed(c), c.bus = <<>>, NEW last, LastFor(c, last),
         c.no_increment => last = "fix pc" /\ ~c.page_crossed
  PROVE  Over(c, Perform(last, c))
<1>1. CASE last = "fix pc"
  BY <1>1, FixPcIs, Performs
<1>2. CASE last # "fix pc"
  <2>0. ~c.no_increment
    BY <1>2
  <2>1. CASE last \in {"read", "fix, use", "immediate"} /\ Op(c) \in Loads
    <3>1. /\ Over(c, Perform("read", c)) /\ Over(c, Perform("fix, use", c))
          /\ Over(c, Perform("immediate", c))
      BY <2>0, <2>1, LoadSteps, Performs
    <3>. QED BY <2>1, <3>1
  <2>2. CASE last \in {"write", "fix, write"} /\ Op(c) \in Stores
    <3>1. Over(c, Perform("write", c)) /\ Over(c, Perform("fix, write", c))
      BY <2>0, <2>2, WritingSteps, Performs
    <3>. QED BY <2>2, <3>1
  <2>3. CASE last = "modify" /\ Op(c) \in Official \union Unofficial
    BY <2>0, <2>3, ModifyStep, Performs
  <2>4. CASE last = "shift" /\ Op(c) \in Official
    BY <2>0, <2>4, ImpliedOver, Performs
  <2>5. CASE last = "flag" /\ Op(c) \in Flags
    BY <2>0, <2>5, ImpliedOver, Performs
  <2>6. CASE last = "transfer" /\ Op(c) \in Transfers
    BY <2>0, <2>6, ImpliedOver, Performs
  <2>7. CASE last \in {"nothing", "return", "increment pc", "push", "pull", "jump pointed", "jump"}
    <3>1. /\ Over(c, Perform("nothing", c)) /\ Over(c, Perform("return", c))
          /\ Over(c, Perform("increment pc", c)) /\ Over(c, Perform("push", c))
          /\ Over(c, Perform("pull", c)) /\ Over(c, Perform("jump pointed", c))
          /\ Over(c, Perform("jump", c))
      BY <2>0, ImpliedOver, Performs
    <3>. QED BY <2>7, <3>1
  <2>8. CASE last = "vector high"
    BY <2>0, <2>8, VectorSteps, Performs
  <2>. QED BY <1>2, <2>1, <2>2, <2>3, <2>4, <2>5, <2>6, <2>7, <2>8 DEF LastFor
<1>. QED BY <1>1, <1>2

(* In the middle of an instruction there is a step to take. A tick that is  *)
(* not counted is followed only by the end of a branch not taken, and the   *)
(* address of an unofficial instruction is put together from two bytes.     *)
Midway(c) ==
  LET s == Steps(c)
      k == c.current_cycle - 1
  IN /\ k \in 1 .. Len(s)
     /\ c.no_increment => s[k] = "fix pc" /\ ~c.page_crossed
     /\ s[k] = "unfixed" => c.pointer \in Byte

Sound(c) ==
  /\ Typed(c)
  /\ c.finished => c.hardware_interrupt = None
  /\ ~c.finished => Midway(c)

LEMMA SameSteps ==
  ASSUME NEW c, NEW d, d.current_opcode = c.current_opcode,
         d.hardware_interrupt = c.hardware_interrupt
  PROVE  Steps(d) = Steps(c)
BY DEF Steps, Op, Mode

LEMMA EndTickIs ==
  ASSUME NEW c, Typed(c)
  PROVE  /\ Typed(EndTick(c)) /\ EndTick(c).current_cycle = c.current_cycle + 1
         /\ \A f \in Fields \ {"current_cycle", "instruction_cycles"} : EndTick(c)[f] = c[f]
<1>. DEFINE count == IF c.no_increment THEN c.instruction_cycles ELSE c.instruction_cycles + 1
            next == c.current_cycle + 1
            d == [c EXCEPT !.current_cycle = next]
<1>1. c.current_cycle \in Nat /\ c.instruction_cycles \in Nat
  BY Types
<1>2. count \in Nat /\ next \in Nat
  BY <1>1
<1>3. EndTick(c) = [d EXCEPT !.instruction_cycles = count]
  BY DEF EndTick
<1>. HIDE DEF count, next
<1>4. DOMAIN c = Fields /\ "current_cycle" \in Fields /\ "instruction_cycles" \in Fields
  BY KindOf DEF Typed
<1>5. Typed(d)
  BY <1>2, Update, KindOf
<1>6. d.current_cycle = next /\ \A f \in Fields \ {"current_cycle"} : d[f] = c[f]
  BY <1>4
<1>7. DOMAIN d = Fields
  BY <1>4
<1>. HIDE DEF d
<1>8. Typed(EndTick(c))
  BY <1>2, <1>3, <1>5, Update, KindOf
<1>9. EndTick(c).current_cycle = next
      /\ \A f \in Fields \ {"current_cycle", "instruction_cycles"} : EndTick(c)[f] = c[f]
  BY <1>3, <1>4, <1>6, <1>7
<1>. QED BY <1>8, <1>9 DEF next

-----------------------------------------------------------------------------
(* A step in the middle                                                     *)

Counts(d) == Len(d.bus) = IF d.no_increment THEN 0 ELSE 1

LEMMA AccessedBranched ==
  ASSUME NEW c, NEW d, Accessed(c, d), ~c.no_increment
  PROVE  Branched(c, d) /\ ~d.no_increment
BY BookFields DEF Accessed, Branched

LEMMA PointerIs ==
  ASSUME NEW c, Typed(c)
  PROVE  Pointer(c).pointer \in Byte
<1>. DEFINE d == Fetched(c)
            v == At(c, c.pc)
<1>1. v \in Byte
  BY Types, AtByte
<1>2. DOMAIN d = Fields
  BY DEF Fetched, IncPc, Reading, Typed
<1>3. Pointer(c) = [d EXCEPT !.pointer = v]
  BY DEF Pointer
<1>4. "pointer" \in Fields
  BY KindOf
<1>. HIDE DEF d, v
<1>. QED BY <1>1, <1>2, <1>3, <1>4

LEMMA MiddleStep ==
  ASSUME NEW c, Typed(c), c.bus = <<>>, NEW s, NEW length \in 1 .. 7, Chained(s, length),
         NEW k \in 1 .. length, k # length, c.no_increment => s[k] = "fix pc",
         s[k] = "unfixed" => c.pointer \in Byte
  PROVE  /\ Branched(c, Perform(s[k], c))
         /\ Perform(s[k], c).no_increment => s[k + 1] = "fix pc"
         /\ s[k + 1] = "unfixed" => Perform(s[k], c).pointer \in Byte
<1>. DEFINE step == s[k]
            next == s[k + 1]
            d == Perform(step, c)
<1>1. \/ step \in PlainNames \union {"unfixed"} /\ next # "unfixed"
      \/ step = "pointer" /\ next = "unfixed"
      \/ step = "branch" /\ next = "fix pc"
  BY DEF Chained
<1>. HIDE DEF step, next, d
<1>2. ~c.no_increment
  BY <1>1 DEF step, PlainNames
<1>3. CASE step \in PlainNames /\ next # "unfixed"
  <2>1. Accessed(c, d)
    BY <1>2, <1>3, PlainStep DEF d
  <2>. QED BY <1>2, <1>3, <2>1, AccessedBranched DEF d, step, next
<1>4. CASE step = "unfixed" /\ next # "unfixed"
  <2>1. Accessed(c, d)
    BY <1>4, UnfixedStep, Performs DEF d, step
  <2>. QED BY <1>2, <1>4, <2>1, AccessedBranched DEF d, step, next
<1>5. CASE step = "pointer" /\ next = "unfixed"
  <2>1. d = Pointer(c) /\ Accessed(c, d)
    BY <1>5, PlainSteps, Performs DEF d
  <2>. QED BY <1>2, <2>1, AccessedBranched, PointerIs DEF d, step
<1>6. CASE step = "branch" /\ next = "fix pc"
  <2>1. Branched(c, d)
    BY <1>2, <1>6, BranchStepIs, Performs DEF d
  <2>. QED BY <1>6, <2>1 DEF d, step, next
<1>. QED BY <1>1, <1>3, <1>4, <1>5, <1>6

LEMMA Readied ==
  ASSUME NEW c, Typed(c), NEW arrives \in BOOLEAN
  PROVE  LET d == [c EXCEPT !.bus = <<>>, !.latched_nmi = @ \/ arrives]
         IN /\ Typed(d) /\ d.bus = <<>>
            /\ \A f \in Fields \ {"bus", "latched_nmi"} : d[f] = c[f]
<1>. DEFINE e == [c EXCEPT !.bus = <<>>]
            v == c.latched_nmi \/ arrives
            d == [e EXCEPT !.latched_nmi = v]
<1>1. Typed(e) /\ e.bus = <<>> /\ DOMAIN e = Fields /\ \A f \in Fields \ {"bus"} : e[f] = c[f]
  BY Update, KindOf DEF Typed
<1>2. v \in BOOLEAN
  BY Types
<1>3. [c EXCEPT !.bus = <<>>, !.latched_nmi = @ \/ arrives] = d
  BY DEF Typed
<1>. HIDE DEF e, v
<1>4. Typed(d)
  BY <1>1, <1>2, Update, KindOf
<1>5. d.bus = <<>> /\ \A f \in Fields \ {"bus", "latched_nmi"} : d[f] = e[f]
  BY <1>1
<1>. QED BY <1>1, <1>3, <1>4, <1>5

-----------------------------------------------------------------------------
(* Every tick                                                               *)

LEMMA Apart ==
  /\ Books \subseteq Fields \ {"bus", "latched_nmi"}
  /\ {"page_crossed", "pointer", "hardware_interrupt", "no_increment", "current_opcode",
      "current_cycle", "finished"} \subseteq Fields \ {"bus", "latched_nmi"}
  /\ {"bus", "finished", "no_increment", "hardware_interrupt", "current_opcode", "page_crossed",
      "pointer"} \subseteq Fields \ {"current_cycle", "instruction_cycles"}
  /\ {"current_cycle", "current_opcode", "hardware_interrupt", "finished"}
        \subseteq Books \ {"no_increment"}
BY DEF Books, Fields, Registers, New

(* A step of an instruction, the tail of the tick included.                 *)
LEMMA NextStep ==
  ASSUME NEW c, Typed(c), ~c.finished, Midway(c), NEW arrives \in BOOLEAN
  PROVE  LET d == EndTick(Perform(Steps(c)[c.current_cycle - 1],
                                  [c EXCEPT !.bus = <<>>, !.latched_nmi = @ \/ arrives]))
         IN Sound(d) /\ Counts(d)
<1>. DEFINE r == [c EXCEPT !.bus = <<>>, !.latched_nmi = @ \/ arrives]
            s == Steps(c)
            k == c.current_cycle - 1
            p == Perform(s[k], r)
            d == EndTick(p)
<1>1. /\ Typed(r) /\ r.bus = <<>>
      /\ \A f \in Fields \ {"bus", "latched_nmi"} : r[f] = c[f]
  BY Readied
<1>2. k \in 1 .. Len(s) /\ (c.no_increment => s[k] = "fix pc" /\ ~c.page_crossed)
      /\ (s[k] = "unfixed" => c.pointer \in Byte)
  BY DEF Midway
<1>3. /\ r.current_opcode = c.current_opcode /\ r.hardware_interrupt = c.hardware_interrupt
      /\ r.no_increment = c.no_increment /\ r.page_crossed = c.page_crossed
      /\ r.pointer = c.pointer /\ r.finished = c.finished /\ r.current_cycle = c.current_cycle
  BY <1>1, Apart
<1>4. Steps(r) = s
  BY <1>3, SameSteps
<1>5. c.current_cycle \in Nat /\ k \in Int
  BY Types
<1>. HIDE DEF r, s
<1>6. s # <<>>
  <2>1. SUFFICES ASSUME s = <<>> PROVE FALSE
    OBVIOUS
  <2>2. Len(s) = 0
    BY <2>1
  <2>. HIDE DEF k
  <2>3. k \in 1 .. Len(s)
    BY <1>2
  <2>4. k \in 1 .. 0
    BY <2>2, <2>3, Zenon
  <2>. QED BY <2>4
<1>7. Sequenced(r, s)
  BY <1>1, <1>4, <1>6, StepsOf
<1>8. PICK length \in 1 .. 7 : Chained(s, length) /\ LastFor(r, s[length])
  BY <1>7, LastOf
<1>9. Len(s) = length
  BY <1>8 DEF Chained
<1>10. k \in 1 .. length
  BY <1>2, <1>9
<1>. HIDE DEF k
<1>11. CASE k = length
  <2>1. Over(r, p)
    BY <1>1, <1>2, <1>3, <1>8, <1>11, LastStep
  <2>2. Typed(p) /\ p.finished /\ Counts(p)
        /\ (r.hardware_interrupt = None => p.hardware_interrupt = None)
    BY <2>1 DEF Over, Counts
  <2>3. p.hardware_interrupt = None
    <3>1. CASE c.hardware_interrupt = None
      BY <1>3, <2>2, <3>1
    <3>2. CASE c.hardware_interrupt # None
      <4>1. s = InterruptSteps
        BY <3>2, Zenon DEF s, Steps
      <4>2. EndsIn(s, 6, "vector high")
        BY <4>1, SequencesAre
      <4>3. s[k] = "vector high"
        BY <1>9, <1>11, <4>2 DEF EndsIn, Chained
      <4>4. p = VectorHigh(r)
        BY <4>3, Performs
      <4>5. ~r.no_increment
        BY <1>2, <1>3, <4>3
      <4>. QED BY <1>1, <4>4, <4>5, VectorSteps
    <3>. QED BY <3>1, <3>2
  <2>. HIDE DEF p
  <2>4. Typed(d) /\ d.bus = p.bus /\ d.finished = p.finished
        /\ d.no_increment = p.no_increment /\ d.hardware_interrupt = p.hardware_interrupt
    BY <2>2, EndTickIs, Apart
  <2>. HIDE DEF d
  <2>5. Sound(d) /\ Counts(d)
    BY <2>2, <2>3, <2>4 DEF Sound, Counts
  <2>. QED BY <2>5 DEF d, p, k, s, r
<1>12. CASE k # length
  <2>1. /\ Branched(r, p) /\ (p.no_increment => s[k + 1] = "fix pc")
        /\ (s[k + 1] = "unfixed" => p.pointer \in Byte)
    BY <1>1, <1>2, <1>3, <1>8, <1>10, <1>12, MiddleStep
  <2>. HIDE DEF p
  <2>2. /\ Typed(p) /\ Counts(p) /\ (p.no_increment => ~p.page_crossed)
        /\ p.current_cycle = c.current_cycle /\ p.current_opcode = c.current_opcode
        /\ p.hardware_interrupt = c.hardware_interrupt /\ p.finished = c.finished
    BY <1>3, <2>1, Apart DEF Branched, Counts
  <2>3. Typed(d) /\ d.bus = p.bus /\ d.finished = p.finished
        /\ d.no_increment = p.no_increment /\ d.hardware_interrupt = p.hardware_interrupt
        /\ d.current_opcode = p.current_opcode /\ d.page_crossed = p.page_crossed
        /\ d.pointer = p.pointer /\ d.current_cycle = p.current_cycle + 1
    BY <2>2, EndTickIs, Apart
  <2>. HIDE DEF d
  <2>4. Steps(d) = s
    BY <2>2, <2>3, SameSteps DEF s
  <2>5. d.current_cycle - 1 = k + 1 /\ k + 1 \in 1 .. Len(s)
    BY <1>5, <1>9, <1>10, <1>12, <2>2, <2>3 DEF k
  <2>6. Midway(d)
    BY <2>1, <2>2, <2>3, <2>4, <2>5 DEF Midway
  <2>7. Sound(d) /\ Counts(d)
    BY <2>2, <2>3, <2>6 DEF Sound, Counts
  <2>. QED BY <2>7 DEF d, p, k, s, r
<1>. QED BY <1>11, <1>12

LEMMA SizeNat ==
  ASSUME NEW opcode
  PROVE  Size(opcode) \in Nat
BY DEF Size

LEMMA BeginIs ==
  ASSUME NEW c, Typed(c)
  PROVE  /\ Typed(Begin(c)) /\ Begin(c).bus = <<>> /\ Begin(c).current_cycle = 1
         /\ Begin(c).no_increment = FALSE /\ Begin(c).finished = FALSE
         /\ Begin(c).hardware_interrupt = c.hardware_interrupt
<1>1. DOMAIN c = Fields
  BY DEF Typed
<1>2. DOMAIN Begin(c) = Fields
  BY <1>1 DEF Begin
<1>3. /\ Begin(c).bus = <<>> /\ Begin(c).current_cycle = 1 /\ Begin(c).instruction_cycles = 0
      /\ Begin(c).no_increment = FALSE /\ Begin(c).finished = FALSE
  BY <1>1, KindOf DEF Begin
<1>4. \A f \in Fields \ {"bus", "current_cycle", "instruction_cycles", "no_increment", "finished"} :
        Begin(c)[f] = c[f]
  BY <1>1 DEF Begin
<1>5. \A f \in {"current_cycle", "instruction_cycles", "no_increment", "finished"} :
        Begin(c)[f] \in Kind(f)
  <2>1. /\ Kind("current_cycle") = Nat /\ Kind("instruction_cycles") = Nat
        /\ Kind("no_increment") = BOOLEAN /\ Kind("finished") = BOOLEAN
    BY KindOf
  <2>2. 0 \in Nat /\ 1 \in Nat
    OBVIOUS
  <2>3. TRUE \in BOOLEAN /\ FALSE \in BOOLEAN
    OBVIOUS
  <2>. QED BY <1>3, <2>1, <2>2, <2>3, Zenon
<1>6. \A f \in Fields \ {"bus"} : Begin(c)[f] \in Kind(f)
  BY <1>4, <1>5 DEF Typed
<1>7. "hardware_interrupt" \in Fields
          \ {"bus", "current_cycle", "instruction_cycles", "no_increment", "finished"}
  BY KindOf
<1>. QED BY <1>2, <1>3, <1>4, <1>6, <1>7 DEF Typed

(* A tick that begins an instruction.                                       *)
LEMMA FirstStep ==
  ASSUME NEW c, Typed(c), ~c.finished, ~c.no_increment, c.current_cycle = 1, Len(c.bus) = 1,
         Steps(c) # <<>>
  PROVE  Sound(EndTick(c)) /\ Counts(EndTick(c))
<1>. DEFINE d == EndTick(c)
            s == Steps(c)
<1>1. PICK length \in 1 .. 7 : Chained(s, length)
  BY StepsOf, LastOf
<1>2. Len(s) = length /\ s[1] # "unfixed"
  BY <1>1 DEF Chained
<1>3. /\ Typed(d) /\ d.bus = c.bus /\ d.finished = c.finished /\ d.no_increment = c.no_increment
      /\ d.hardware_interrupt = c.hardware_interrupt /\ d.current_opcode = c.current_opcode
      /\ d.current_cycle = c.current_cycle + 1
  BY EndTickIs, Apart
<1>. HIDE DEF d
<1>4. Steps(d) = s
  BY <1>3, SameSteps
<1>. HIDE DEF s
<1>5. d.current_cycle - 1 = 1 /\ 1 \in 1 .. Len(s)
  BY <1>2, <1>3
<1>6. Midway(d)
  BY <1>2, <1>3, <1>4, <1>5 DEF Midway
<1>7. Sound(d) /\ Counts(d)
  BY <1>3, <1>6 DEF Sound, Counts
<1>. QED BY <1>7 DEF d

LEMMA FetchStep ==
  ASSUME NEW c, Typed(c), c.hardware_interrupt = None
  PROVE  LET d == EndTick(FetchOpcode(Begin(c))) IN Sound(d) /\ Counts(d)
<1>. DEFINE b == Begin(c)
            v == At(b, b.pc)
            g == Fetched(b)
            h == [g EXCEPT !.current_opcode = v]
            e == [h EXCEPT !.dma_on_previous_cycle = FALSE]
<1>1. /\ Typed(b) /\ b.bus = <<>> /\ b.current_cycle = 1 /\ ~b.no_increment /\ ~b.finished
      /\ b.hardware_interrupt = None
  BY BeginIs
<1>. HIDE DEF b
<1>2. v \in Byte
  BY <1>1, Types, AtByte
<1>3. Typed(g) /\ Len(g.bus) = 1 /\ \A f \in Books : g[f] = b[f]
  BY <1>1, FetchedAccess DEF Accessed
<1>. HIDE DEF g, v
<1>4. /\ DOMAIN g = Fields
      /\ {"current_cycle", "no_increment", "finished", "hardware_interrupt"} \subseteq Books
      /\ {"current_cycle", "no_increment", "finished", "hardware_interrupt", "bus"}
            \subseteq Fields \ {"current_opcode", "dma_on_previous_cycle"}
  BY <1>3 DEF Typed, Books, Fields, New
<1>5. Typed(h)
  BY <1>2, <1>3, Update, KindOf
<1>6. Typed(e)
  <2>. HIDE DEF h
  <2>. QED BY <1>5, Update, KindOf
<1>7. \A f \in Fields \ {"current_opcode", "dma_on_previous_cycle"} : e[f] = g[f]
  BY <1>4
<1>8. FetchOpcode(b) = IF Steps(e) = <<>>
                       THEN Done([e EXCEPT !.current_cycle = Size(e.current_opcode)]) ELSE e
  BY DEF FetchOpcode, g, v
<1>. HIDE DEF e
<1>9. /\ e.current_cycle = 1 /\ ~e.no_increment /\ ~e.finished /\ e.hardware_interrupt = None
      /\ Len(e.bus) = 1
  BY <1>1, <1>3, <1>4, <1>7
<1>10. CASE Steps(e) # <<>>
  BY <1>6, <1>8, <1>9, <1>10, FirstStep DEF b
<1>11. CASE Steps(e) = <<>>
  <2>. DEFINE size == Size(e.current_opcode)
              p == [e EXCEPT !.current_cycle = size]
              d == EndTick(Done(p))
  <2>1. size \in Nat
    BY SizeNat
  <2>. HIDE DEF size
  <2>2. Typed(p)
    BY <1>6, <2>1, Update, KindOf
  <2>3. DOMAIN e = Fields /\ {"no_increment", "hardware_interrupt", "bus"} \subseteq Fields \ {"current_cycle"}
    BY <1>6 DEF Typed, Fields, New
  <2>4. p.no_increment = e.no_increment /\ p.hardware_interrupt = None /\ p.bus = e.bus
    BY <1>9, <2>3
  <2>. HIDE DEF p
  <2>5. /\ Typed(Done(p)) /\ Done(p).finished /\ Done(p).no_increment = p.no_increment
        /\ Done(p).hardware_interrupt = p.hardware_interrupt /\ Done(p).bus = p.bus
    BY <2>2, DoneIs, BookFields
  <2>6. /\ Typed(d) /\ d.finished = Done(p).finished /\ d.no_increment = Done(p).no_increment
        /\ d.hardware_interrupt = Done(p).hardware_interrupt /\ d.bus = Done(p).bus
    BY <2>5, EndTickIs, Apart
  <2>7. EndTick(FetchOpcode(b)) = d
    BY <1>8, <1>11 DEF p, size
  <2>. HIDE DEF d
  <2>8. Sound(d) /\ Counts(d)
    BY <1>9, <2>4, <2>5, <2>6 DEF Sound, Counts
  <2>. QED BY <2>7, <2>8 DEF b
<1>. QED BY <1>10, <1>11

LEMMA InterruptStep ==
  ASSUME NEW c, Typed(c), NEW line \in DOMAIN VectorAddress
  PROVE  LET d == EndTick([Discard(Begin(c)) EXCEPT !.hardware_interrupt = line,
                                                    !.current_opcode = 0,
                                                    !.dma_on_previous_cycle = FALSE])
         IN Sound(d) /\ Counts(d)
<1>. DEFINE b == Begin(c)
            g == Discard(b)
            h == [g EXCEPT !.hardware_interrupt = line]
            i == [h EXCEPT !.current_opcode = 0]
            e == [i EXCEPT !.dma_on_previous_cycle = FALSE]
<1>1. Typed(b) /\ b.bus = <<>> /\ b.current_cycle = 1 /\ ~b.no_increment /\ ~b.finished
  BY BeginIs
<1>. HIDE DEF b
<1>2. Typed(g) /\ Len(g.bus) = 1 /\ \A f \in Books : g[f] = b[f]
  BY <1>1, PlainSteps DEF Accessed
<1>. HIDE DEF g
<1>3. Typed(h)
  BY <1>2, Update, KindOf
<1>4. 0 \in Byte
  BY ByteIs
<1>5. Typed(i)
  <2>. HIDE DEF h
  <2>. QED BY <1>3, <1>4, Update, KindOf
<1>6. Typed(e)
  <2>. HIDE DEF i
  <2>. QED BY <1>5, Update, KindOf
<1>7. /\ DOMAIN g = Fields /\ "hardware_interrupt" \in Fields
      /\ {"current_cycle", "no_increment", "finished"} \subseteq Books
      /\ {"current_cycle", "no_increment", "finished", "bus"}
            \subseteq Fields \ {"current_opcode", "dma_on_previous_cycle", "hardware_interrupt"}
  BY <1>2 DEF Typed, Books, Fields, New
<1>8. /\ e.hardware_interrupt = line
      /\ \A f \in Fields \ {"current_opcode", "dma_on_previous_cycle", "hardware_interrupt"} :
           e[f] = g[f]
  BY <1>7
<1>9. [g EXCEPT !.hardware_interrupt = line, !.current_opcode = 0,
                !.dma_on_previous_cycle = FALSE] = e
  BY <1>7
<1>. HIDE DEF e
<1>10. e.current_cycle = 1 /\ ~e.no_increment /\ ~e.finished /\ Len(e.bus) = 1
  BY <1>1, <1>2, <1>7, <1>8
<1>11. Steps(e) = InterruptSteps
  <2>1. line # None
    BY DEF VectorAddress, None
  <2>. QED BY <1>8, <2>1, Zenon DEF Steps
<1>12. Steps(e) # <<>>
  <2>1. Len(InterruptSteps) = 6 /\ Len(<<>>) = 0
    BY DEF InterruptSteps
  <2>. QED BY <1>11, <2>1
<1>13. Sound(EndTick(e)) /\ Counts(EndTick(e))
  BY <1>6, <1>10, <1>12, FirstStep
<1>. QED BY <1>9, <1>13 DEF g, b

(* A DMA's cycle, and a state restored, leave the instruction where it was. *)
LEMMA SoundKept ==
  ASSUME NEW c, Sound(c), NEW d, Typed(d),
         \A f \in {"current_cycle", "current_opcode", "finished", "page_crossed", "pointer",
                   "hardware_interrupt", "no_increment"} : d[f] = c[f]
  PROVE  Sound(d)
<1>1. Steps(d) = Steps(c)
  BY SameSteps
<1>2. Midway(c) => Midway(d)
  BY <1>1 DEF Midway
<1>. QED BY <1>2 DEF Sound

LEMMA DmaStep ==
  ASSUME NEW c, Sound(c)
  PROVE  LET d == [c EXCEPT !.dma_on_previous_cycle = TRUE, !.bus = <<>>]
         IN Sound(d) /\ d.current_cycle = c.current_cycle
<1>. DEFINE e == [c EXCEPT !.dma_on_previous_cycle = TRUE]
            d == [e EXCEPT !.bus = <<>>]
<1>1. Typed(c) /\ DOMAIN c = Fields
  BY DEF Sound, Typed
<1>2. Typed(e)
  BY <1>1, Update, KindOf
<1>3. Typed(d)
  <2>. HIDE DEF e
  <2>. QED BY <1>2, Update, KindOf
<1>4. \A f \in Fields \ {"dma_on_previous_cycle", "bus"} : d[f] = c[f]
  BY <1>1
<1>5. [c EXCEPT !.dma_on_previous_cycle = TRUE, !.bus = <<>>] = d
  BY <1>1
<1>. HIDE DEF d
<1>6. {"current_cycle", "current_opcode", "finished", "page_crossed", "pointer",
       "hardware_interrupt", "no_increment"} \subseteq Fields \ {"dma_on_previous_cycle", "bus"}
  BY DEF Fields, New
<1>7. Sound(d) /\ d.current_cycle = c.current_cycle
  BY <1>3, <1>4, <1>6, SoundKept
<1>. QED BY <1>5, <1>7

LEMMA RestoreStep ==
  ASSUME NEW c, Sound(c), c.finished,
         NEW d, d = [field \in DOMAIN c |->
                       IF field \in {"bus", "low_byte", "pointer", "base_high",
                                     "hardware_interrupt", "latched_nmi",
                                     "dma_on_previous_cycle", "no_increment"}
                       THEN New[field] ELSE c[field]]
  PROVE  Sound(d) /\ d.current_cycle = c.current_cycle
<1>. DEFINE cleared == {"bus", "low_byte", "pointer", "base_high", "hardware_interrupt",
                        "latched_nmi", "dma_on_previous_cycle", "no_increment"}
<1>1. Typed(c) /\ DOMAIN c = Fields /\ DOMAIN d = Fields
  BY DEF Sound, Typed
<1>2. \A f \in Fields : d[f] = IF f \in cleared THEN New[f] ELSE c[f]
  BY <1>1, Zenon
<1>3. \A f \in cleared \ {"bus"} : New[f] \in Kind(f)
  <2>1. /\ Kind("low_byte") = Byte /\ Kind("pointer") = Word /\ Kind("base_high") = Byte
        /\ Kind("hardware_interrupt") = {None} \union DOMAIN VectorAddress
        /\ Kind("latched_nmi") = BOOLEAN /\ Kind("dma_on_previous_cycle") = BOOLEAN
        /\ Kind("no_increment") = BOOLEAN
    BY KindOf
  <2>2. /\ New["low_byte"] = 0 /\ New["pointer"] = 0 /\ New["base_high"] = 0
        /\ New["hardware_interrupt"] = None /\ New["latched_nmi"] = FALSE
        /\ New["dma_on_previous_cycle"] = FALSE /\ New["no_increment"] = FALSE
    BY DEF New
  <2>3. 0 \in Byte /\ 0 \in Word
    BY ByteIs, WordIs
  <2>. QED BY <2>1, <2>2, <2>3
<1>. HIDE DEF cleared
<1>4. Typed(d)
  BY <1>1, <1>2, <1>3 DEF Typed
<1>5. d.hardware_interrupt = None
  BY <1>2, KindOf DEF New, cleared
<1>6. d.finished = c.finished /\ d.current_cycle = c.current_cycle
  BY <1>2, KindOf DEF cleared
<1>. QED BY <1>4, <1>5, <1>6 DEF Sound

-----------------------------------------------------------------------------
(* The initial states                                                       *)

LEMMA StartSound ==
  ASSUME Cpu2Init
  PROVE  Sound(cpu2)
<1>1. PICK start \in Start :
        /\ cpu2 = [field \in Registers \union DOMAIN New |->
                     IF field \in Registers THEN start.state[field] ELSE New[field]]
        /\ interrupts = start.interrupts
  BY DEF Cpu2Init
<1>. DEFINE r == start.state
<1>2. RegistersType(r)
  BY Cpu2Assumption
<1>3. DOMAIN cpu2 = Fields /\ \A f \in Fields : cpu2[f] = IF f \in Registers THEN r[f] ELSE New[f]
  BY <1>1, Zenon DEF Fields
<1>. HIDE DEF r
<1>4. \A f \in Registers : r[f] \in Kind(f)
  <2>1. /\ r.a \in Byte /\ r.x \in Byte /\ r.y \in Byte /\ r.s \in Byte /\ r.pc \in Word
        /\ r.n \in BOOLEAN /\ r.v \in BOOLEAN /\ r.d \in BOOLEAN /\ r.i \in BOOLEAN
        /\ r.z \in BOOLEAN /\ r.c \in BOOLEAN
    BY <1>2, Zenon DEF RegistersType
  <2>2. r.mem \in Kind("mem")
    BY <1>2, KindOf DEF RegistersType
  <2>3. /\ Kind("a") = Byte /\ Kind("x") = Byte /\ Kind("y") = Byte /\ Kind("s") = Byte
        /\ Kind("pc") = Word /\ Kind("n") = BOOLEAN /\ Kind("v") = BOOLEAN
        /\ Kind("d") = BOOLEAN /\ Kind("i") = BOOLEAN /\ Kind("z") = BOOLEAN
        /\ Kind("c") = BOOLEAN
    BY KindOf
  <2>. QED BY <2>1, <2>2, <2>3, Zenon DEF Registers
<1>5. \A f \in (DOMAIN New) \ {"bus"} : New[f] \in Kind(f)
  <2>1. 0 \in Byte /\ 0 \in Word
    BY ByteIs, WordIs
  <2>2. /\ Kind("current_opcode") = Byte /\ Kind("low_byte") = Byte /\ Kind("pointer") = Word
        /\ Kind("current_address") = Word /\ Kind("current_value") = Byte
        /\ Kind("base_high") = Byte /\ Kind("current_cycle") = Nat
        /\ Kind("instruction_cycles") = Nat /\ Kind("finished") = BOOLEAN
        /\ Kind("no_increment") = BOOLEAN /\ Kind("page_crossed") = BOOLEAN
        /\ Kind("latched_nmi") = BOOLEAN /\ Kind("dma_on_previous_cycle") = BOOLEAN
        /\ Kind("hardware_interrupt") = {None} \union DOMAIN VectorAddress
    BY KindOf
  <2>3. /\ DOMAIN New = {"bus", "current_opcode", "current_cycle", "finished", "no_increment",
                        "instruction_cycles", "low_byte", "pointer", "current_address",
                        "current_value", "page_crossed", "base_high", "hardware_interrupt",
                        "latched_nmi", "dma_on_previous_cycle"}
        /\ New["current_opcode"] = 0 /\ New["low_byte"] = 0 /\ New["pointer"] = 0
        /\ New["current_address"] = 0 /\ New["current_value"] = 0 /\ New["base_high"] = 0
        /\ New["current_cycle"] = 1 /\ New["instruction_cycles"] = 0
        /\ New["finished"] = TRUE /\ New["no_increment"] = FALSE
        /\ New["page_crossed"] = FALSE /\ New["latched_nmi"] = FALSE
        /\ New["dma_on_previous_cycle"] = FALSE /\ New["hardware_interrupt"] = None
    BY DEF New
  <2>4. /\ 0 \in Nat /\ 1 \in Nat /\ None \in {None} \union DOMAIN VectorAddress
        /\ TRUE \in BOOLEAN /\ FALSE \in BOOLEAN
    OBVIOUS
  <2>. QED BY <2>1, <2>2, <2>3, <2>4, Zenon
<1>6. Typed(cpu2)
  BY <1>3, <1>4, <1>5 DEF Typed, Fields
<1>7. /\ "finished" \in Fields \ Registers /\ "hardware_interrupt" \in Fields \ Registers
      /\ New.finished = TRUE /\ New.hardware_interrupt = None
  BY DEF Fields, Registers, New
<1>8. cpu2.finished = TRUE /\ cpu2.hardware_interrupt = None
  BY <1>3, <1>7
<1>. QED BY <1>6, <1>8 DEF Sound

-----------------------------------------------------------------------------
(* The theorems                                                             *)

(* A step of Cpu2 keeps the invariant; one that moves on to another cycle   *)
(* counts it as it accessed memory.                                         *)
LEMMA EveryStep ==
  ASSUME Sound(cpu2), Cpu2Next
  PROVE  Sound(cpu2') /\ (cpu2'.current_cycle # cpu2.current_cycle => Counts(cpu2'))
<1>0. Typed(cpu2)
  BY DEF Sound
<1>1. CASE Fetch
  <2>1. cpu2.hardware_interrupt = None
    BY <1>1 DEF Sound, Fetch
  <2>. QED BY <1>0, <1>1, <2>1, FetchStep DEF Fetch
<1>2. ASSUME NEW line \in DOMAIN VectorAddress, TakeInterrupt(line)
      PROVE  Sound(cpu2') /\ Counts(cpu2')
  BY <1>0, <1>2, InterruptStep DEF TakeInterrupt
<1>3. ASSUME NEW arrives \in BOOLEAN, Continue(arrives)
      PROVE  Sound(cpu2') /\ Counts(cpu2')
  <2>1. ~cpu2.finished /\ Midway(cpu2)
    BY <1>3 DEF Continue, Sound
  <2>. QED BY <1>0, <1>3, <2>1, NextStep DEF Continue
<1>4. CASE DmaCycle
  BY <1>4, DmaStep DEF DmaCycle
<1>5. CASE SaveRestore
  BY <1>5, RestoreStep DEF SaveRestore
<1>. QED BY <1>1, <1>2, <1>3, <1>4, <1>5 DEF Cpu2Next

Cpu2Sound == Sound(cpu2)

(* The fields of the processor keep their types, and between two ticks of   *)
(* an instruction there is a step to take, whatever the memory holds.       *)
THEOREM Cpu2IsSound == Cpu2Spec => []Cpu2Sound
<1>1. Cpu2Init => Cpu2Sound
  BY StartSound DEF Cpu2Sound
<1>2. Cpu2Sound /\ [Cpu2Next]_Cpu2vars => Cpu2Sound'
  BY EveryStep DEF Cpu2Sound, Cpu2vars
<1>. QED BY <1>1, <1>2, PTL DEF Cpu2Spec

(* Each cycle of one_cycle that counts is one access to memory, for every    *)
(* opcode and operand; a tick that does not count makes none.               *)
THEOREM CyclesAreAccesses == Cpu2Spec => OneAccessPerCycle
<1>1. Cpu2Sound /\ [Cpu2Next]_Cpu2vars
        => [cpu2'.current_cycle # cpu2.current_cycle
              => Len(cpu2'.bus) = IF cpu2'.no_increment THEN 0 ELSE 1]_cpu2
  BY EveryStep DEF Cpu2Sound, Cpu2vars, Counts
<1>. QED BY <1>1, Cpu2IsSound, PTL DEF Cpu2Spec, OneAccessPerCycle

=============================================================================
