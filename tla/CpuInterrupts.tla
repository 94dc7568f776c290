--------------------------- MODULE CpuInterrupts ---------------------------
(***************************************************************************)
(* How cpu/src/cpu2.rs detects, polls and services interrupts, driven by   *)
(* Emulator::tick_one.  One CPU cycle is "lines" (the PPU, the mapper and  *)
(* the Apu run and set or drop the interrupt requests) and then "cpu", one *)
(* call of Cpu2::one_cycle.  That call repeats Cpu2::tick until one of its *)
(* ticks counts as a cycle, so that a tick may pass without the lines      *)
(* being looked at again; such a tick is called silent below.              *)
(*                                                                         *)
(* An instruction is its kind: how many ticks it takes, which of them are  *)
(* silent and when it changes the I flag or accesses a register.           *)
(***************************************************************************)
EXTENDS NmiSource

CONSTANT VblGap  \* least CPU cycles, stalled ones apart, between two changes of
                 \* VBL by the PPU (2273 with the stalled ones)

(* VBL never lasts for a single cycle.                                      *)
ASSUME CpuInterruptsAssumption == VblGap \in Nat /\ VblGap >= 2

(* "flag": CLI, SEI; "status": a read of $2002; "control": a write of      *)
(* $2000; "acknowledge": a read of $4015; "transfer": a write of $4014;    *)
(* "read": an indexed read that crosses no page; the branches by their     *)
(* outcome.                                                                *)
Ticks ==
  [implied |-> 2, flag |-> 2, plp |-> 4, rti |-> 6, brk |-> 7,
   status |-> 4, control |-> 4, acknowledge |-> 4, transfer |-> 4,
   read |-> 5, not_taken |-> 4, taken |-> 4, crossing |-> 4]

Kinds == DOMAIN Ticks
Branches == {"not_taken", "taken", "crossing"}

(* The ticks that run with no_increment set. *)
Silent(op, cyc) ==
  \/ op = "read" /\ cyc = 5
  \/ op = "taken" /\ cyc = 4
  \/ op = "not_taken" /\ cyc \in {3, 4}

Vectors == {"none", "irq", "nmi"}  \* None, (fffe, ffff), (fffa, fffb)

CpuState ==
  [pending_interrupt : Vectors, irq_poll : BOOLEAN, latched_vector : Vectors,
   poll_snapshot : BOOLEAN, poll_snapshot_vector : Vectors,
   hardware_interrupt : Vectors, op : Kinds, current_cycle : 1..8,
   finished : BOOLEAN, i : BOOLEAN, low_byte : Vectors]

VARIABLES
  cpu,
  apu_line,  \* the level Apu::step returns
  irq_line,  \* whether anything asserted the interrupt on this cycle
  gap,       \* cycles, stalled ones apart, until the PPU may change VBL again
  phase

vars == <<cpu, nmi, apu_line, irq_line, gap, phase>>

TypeOK ==
  /\ cpu \in CpuState
  /\ NmiTypeOK
  /\ apu_line \in BOOLEAN
  /\ irq_line \in BOOLEAN
  /\ gap \in 0..VblGap
  /\ phase \in {"lines", "cpu"}

Init ==
  /\ \E flag \in BOOLEAN :
       cpu = [pending_interrupt |-> "none", irq_poll |-> FALSE,
              latched_vector |-> "none", poll_snapshot |-> FALSE,
              poll_snapshot_vector |-> "none", hardware_interrupt |-> "none",
              op |-> "brk", current_cycle |-> 1, finished |-> TRUE,
              i |-> flag, low_byte |-> "none"]
  /\ NmiInit
  /\ apu_line = FALSE
  /\ irq_line = FALSE
  /\ gap = 0
  /\ phase = "lines"

-----------------------------------------------------------------------------
(* The interrupt requests of the CPU.                                      *)

(* Mutation: an IRQ replaces a pending NMI. *)
IrqOverNmi(c) == [c EXCEPT !.pending_interrupt = "irq"]

Irq(c) ==
  [c EXCEPT !.pending_interrupt = IF @ = "nmi" THEN @ ELSE "irq"]

ClearIrq(c) ==
  [c EXCEPT !.pending_interrupt = IF @ = "irq" THEN "none" ELSE @]

(* Mutation: the cancelled request is forgotten but not its poll. *)
CancelPendingOnly(c) ==
  [c EXCEPT !.pending_interrupt = IF @ = "nmi" THEN "none" ELSE @]

CancelNmi(c) ==
  LET polled == c.poll_snapshot_vector = "nmi"
  IN [c EXCEPT !.pending_interrupt = IF @ = "nmi" THEN "none" ELSE @,
               !.latched_vector = IF @ = "nmi" THEN "none" ELSE @,
               !.poll_snapshot_vector = IF polled THEN "none" ELSE @,
               !.poll_snapshot = @ /\ ~polled]

-----------------------------------------------------------------------------
(* Cpu2::tick.                                                             *)

(* Mutation: an interrupt sequence polls on its last cycle too. *)
PollsOnlyBranches(c) == c.op \in {"not_taken", "taken"}

(* Instructions that do not test the poll before their last cycle. *)
NoFinalPoll(c) == c.op \in {"brk", "not_taken", "taken"}

(* Mutation: only what a branch or a hijack latched is serviced. *)
LatchedVectorOnly(c) ==
  IF ~c.irq_poll THEN "none"
  ELSE IF c.pending_interrupt = "nmi" THEN "nmi" ELSE c.latched_vector

(* The vector the boundary between two instructions finds detected. *)
DetectedVector(c) ==
  CASE c.irq_poll /\ c.pending_interrupt = "nmi" -> "nmi"
    [] c.irq_poll /\ c.pending_interrupt # "nmi" ->
         IF c.latched_vector # "none" THEN c.latched_vector ELSE c.pending_interrupt
    [] ~c.irq_poll /\ ~NoFinalPoll(c) /\ c.poll_snapshot ->
         IF c.pending_interrupt # "none" THEN c.pending_interrupt
         ELSE c.poll_snapshot_vector
    [] OTHER -> "none"

(* A finished instruction is followed by the sequence of the interrupt, or *)
(* by an instruction of kind k.                                            *)
Boundary(c, k) ==
  LET v == DetectedVector(c)
  IN IF ~c.finished THEN c
     ELSE [c EXCEPT !.irq_poll = FALSE, !.latched_vector = "none",
                    !.poll_snapshot = FALSE, !.poll_snapshot_vector = "none",
                    !.hardware_interrupt = IF v # "none" THEN v ELSE @,
                    !.op = IF v # "none" THEN "brk" ELSE k,
                    !.current_cycle = 1,
                    !.finished = FALSE]

(* The requests the memory has for the CPU. *)
TakeNmi(c, n) ==
  LET d == IF n.cancel_requested THEN CancelNmi(c) ELSE c
  IN IF NmiTaken(n) THEN [d EXCEPT !.pending_interrupt = "nmi"] ELSE d

(* Mutation: the I flag is not looked at. *)
AnyPending(c) == c.pending_interrupt # "none"

(* What a poll detects: an NMI, or an IRQ that is not masked. *)
Detected(c) ==
  \/ c.pending_interrupt = "nmi"
  \/ c.pending_interrupt # "none" /\ ~c.i

(* Mutation: an interrupt sequence is hijacked by its last fetch too.   *)
PollHijackLate(c) ==
  LET extra == \/ c.op \in Branches /\ c.current_cycle = 2 /\ Detected(c)
               \/ c.op = "brk" /\ c.current_cycle \in 2..7 /\ c.pending_interrupt = "nmi"
  IN [c EXCEPT !.poll_snapshot = Detected(c),
               !.poll_snapshot_vector = IF Detected(c) THEN c.pending_interrupt
                                        ELSE "none",
               !.irq_poll = @ \/ extra,
               !.latched_vector = IF extra THEN c.pending_interrupt ELSE @]

(* The poll of every tick, and the extra ones of branches (their second    *)
(* cycle) and of interrupt sequences (a hijack by an NMI).                 *)
Poll(c) ==
  LET extra == \/ c.op \in Branches /\ c.current_cycle = 2 /\ Detected(c)
               \/ c.op = "brk" /\ c.current_cycle \in 2..5 /\ c.pending_interrupt = "nmi"
      latch == extra /\ (c.latched_vector = "none" \/ c.pending_interrupt = "nmi")
  IN [c EXCEPT !.poll_snapshot = Detected(c),
               !.poll_snapshot_vector = IF Detected(c) THEN c.pending_interrupt
                                        ELSE "none",
               !.irq_poll = @ \/ extra,
               !.latched_vector = IF latch THEN c.pending_interrupt ELSE @]

(* The vector an interrupt sequence is fetching. *)
SequenceVector(c) ==
  CASE c.latched_vector = "nmi" -> "nmi"
    [] c.latched_vector # "nmi" /\ c.hardware_interrupt = "none" -> "irq"
    [] OTHER -> c.hardware_interrupt

(* Mutation: the request that was serviced stays. *)
EndSequenceKeepingNmi(c) ==
  [c EXCEPT !.irq_poll = FALSE,
            !.latched_vector = "none",
            !.hardware_interrupt = "none",
            !.finished = TRUE]

(* The last cycle of handle_interrupt: the request that was serviced is    *)
(* consumed, an NMI by the sequence that fetched its vector.               *)
EndSequence(c) ==
  [c EXCEPT !.pending_interrupt = IF SequenceVector(c) = "nmi" THEN "none" ELSE @,
            !.irq_poll = FALSE,
            !.latched_vector = "none",
            !.hardware_interrupt = "none",
            !.finished = TRUE]

(* Mutation: the sequence goes on after its last cycle. *)
HandleInterruptUnended(c) ==
  CASE c.current_cycle = 5 -> [c EXCEPT !.i = TRUE]
    [] c.current_cycle = 6 -> [c EXCEPT !.low_byte = SequenceVector(c)]
    [] OTHER -> c

(* handle_interrupt: push, set I, fetch the vector. *)
HandleInterrupt(c) ==
  CASE c.current_cycle = 5 -> [c EXCEPT !.i = TRUE]
    [] c.current_cycle = 6 -> [c EXCEPT !.low_byte = SequenceVector(c)]
    [] c.current_cycle = 7 -> EndSequence(c)
    [] OTHER -> c

(* The other instructions, as far as interrupts go: flag is what an        *)
(* instruction that loads the I flag loads.                                *)
SetsFlag(c) == \/ c.op = "flag" /\ c.current_cycle = 2
               \/ c.op \in {"plp", "rti"} /\ c.current_cycle = 4

Execute(c, flag) ==
  IF c.op = "brk" THEN HandleInterrupt(c)
  ELSE [c EXCEPT !.i = IF SetsFlag(c) THEN flag ELSE @,
                 !.finished = c.current_cycle = Ticks[c.op]]

(* The CPU as a tick finds it once it has started an instruction and taken *)
(* the memory's requests.                                                  *)
Started(k) == TakeNmi(Boundary(cpu, k), nmi)

AfterTick(k, flag) ==
  [Execute(Poll(Started(k)), flag) EXCEPT !.current_cycle = @ + 1]

-----------------------------------------------------------------------------
(* The cycle of the emulator.                                              *)

(* The PPU sets VBL, or clears the one that is set, at most once per       *)
(* VblGap cycles.  A suppressed set is the first dot of its cycle and      *)
(* leaves nothing behind for the CPU's turn.                               *)
Ppu ==
  \/ /\ nmi' = SourceCycle(nmi, "none", 1)
     /\ UNCHANGED gap
  \/ /\ gap = 0
     /\ gap' = VblGap
     /\ \E event \in {"set", "clear"}, d \in 1..3 :
          /\ event = "clear" => nmi.vbl
          /\ nmi' = SourceCycle(nmi, event, d)

(* The mapper's pulse and the Apu's level become the CPU's request. *)
Request(pulse, level) ==
  cpu' = IF pulse \/ level THEN Irq(cpu) ELSE ClearIrq(cpu)

Lines ==
  /\ phase = "lines"
  /\ Ppu
  /\ \E pulse, level \in BOOLEAN :
       /\ apu_line => level
       /\ apu_line' = level
       /\ irq_line' = (pulse \/ level)
       /\ Request(pulse, level)
  /\ phase' = "cpu"

(* The CPU is about to access a register. *)
Accessing == /\ ~cpu.finished
             /\ cpu.op \in {"status", "control", "acknowledge"}
             /\ cpu.current_cycle = 4

(* A sprite transfer may be under way. *)
Copying == cpu.finished /\ cpu.op = "transfer"

(* The CPU has run a cycle. *)
Counted == gap' = IF gap > 0 THEN gap - 1 ELSE 0

(* A tick that accesses no register. *)
Tick ==
  /\ phase = "cpu" /\ ~Accessing
  /\ \E k \in IF cpu.finished THEN Kinds ELSE {cpu.op}, flag \in BOOLEAN :
       cpu' = AfterTick(k, flag)
  /\ nmi' = AfterChecks(nmi)
  /\ IF ~cpu.finished /\ Silent(cpu.op, cpu.current_cycle)
     THEN UNCHANGED <<phase, gap>>
     ELSE phase' = "lines" /\ Counted
  /\ UNCHANGED <<apu_line, irq_line>>

(* A tick that ends with a register access. *)
Access ==
  /\ phase = "cpu" /\ Accessing
  /\ cpu' = AfterTick(cpu.op, FALSE)
  /\ CASE cpu.op = "status" -> nmi' = ReadStatus(AfterChecks(nmi))
       [] cpu.op = "control" -> \E e \in BOOLEAN : nmi' = ControlWrite(AfterChecks(nmi), e)
       [] OTHER -> nmi' = AfterChecks(nmi)
  /\ apu_line' = (apu_line /\ cpu.op # "acknowledge")
  /\ phase' = "lines"
  /\ Counted
  /\ UNCHANGED irq_line

(* A DMA transfer keeps the CPU off the bus for this cycle.  It may read a *)
(* register: the channel's repeats the read the CPU is waiting for, and a  *)
(* sprite transfer, which follows the write that asked for it, copies      *)
(* pages of registers.                                                     *)
Stall ==
  /\ phase = "cpu"
  /\ \E read \in IF Accessing THEN {cpu.op}
               ELSE IF Copying THEN {"none", "status", "acknowledge"}
               ELSE {"none"} :
       /\ nmi' = IF read = "status" THEN ReadStatus(nmi) ELSE nmi
       /\ apu_line' = (apu_line /\ read # "acknowledge")
  /\ phase' = "lines"
  /\ UNCHANGED <<cpu, irq_line, gap>>

Next == Lines \/ Tick \/ Access \/ Stall

Spec == Init /\ [][Next]_vars

(* The emulator's loop keeps running cycles, and every transfer ends. *)
Fairness == WF_vars(Lines) /\ SF_vars(Tick \/ Access)

-----------------------------------------------------------------------------
(* Between two instructions an interrupt sequence begins. *)
Begins(v) ==
  cpu.finished /\ cpu'.hardware_interrupt = v /\ ~cpu'.finished

(* An NMI sequence begins only for a request that has not been serviced:   *)
(* neither the polls of its own sequence nor a hijack start it again.      *)
NmiServicedOnce == [][Begins("nmi") => cpu.pending_interrupt = "nmi"]_vars

(* A pending NMI leaves only by being cancelled or by a sequence that      *)
(* fetched its vector; an IRQ or a BRK under way does not swallow it.      *)
NmiNotLost ==
  [][cpu.pending_interrupt = "nmi" /\ cpu'.pending_interrupt # "nmi" =>
       nmi.cancel_requested \/ (cpu'.finished /\ cpu'.low_byte = "nmi")]_vars

(* The two bytes of a vector are of the same vector, though an NMI may     *)
(* arrive or be cancelled between the two fetches.                         *)
VectorWhole ==
  [][phase = "cpu" /\ ~cpu.finished /\ cpu.op = "brk" /\ cpu.current_cycle = 7
       /\ cpu'.finished
       => SequenceVector(Poll(Started("implied"))) = cpu.low_byte]_vars

(* A level that stays up is serviced as soon as the program lets it: it    *)
(* does not meet a clear I flag for ever.                                  *)
LevelServiced == []<>(~apu_line \/ cpu.i)

(* Every NMI is serviced or cancelled. *)
NmiServiced == cpu.pending_interrupt = "nmi" ~> cpu.pending_interrupt # "nmi"
=============================================================================
