------------------------------- MODULE MCCpu2 -------------------------------
(* Every opcode on a few registers, operands and places in memory, then     *)
(* what memory holds behind it: jumps to the jump at $4C4C.                 *)
EXTENDS Cpu2, TLC

VARIABLE before       \* history: the registers and memory the instruction started from

MCCpu2vars == <<Cpu2vars, before>>

Visible(c) == [field \in Registers |-> c[field]]

MCCpu2Init == Cpu2Init /\ before = Visible(cpu2)
MCCpu2Next == Cpu2Next /\ before' = IF cpu2.finished THEN Visible(cpu2) ELSE before
MCCpu2Spec == MCCpu2Init /\ [][MCCpu2Next]_MCCpu2vars

-----------------------------------------------------------------------------
(* The instance                                                             *)

(* Pointers in the zero page, operands at the boundaries of signed and      *)
(* unsigned bytes in page 3, JMP $4C4C wherever else.                       *)
MCImage ==
  [address \in Word |->
     CASE address < 256 /\ address % 2 = 1 -> 3
       [] address < 256 /\ address % 4 = 0 -> 16
       [] address < 256 /\ address % 4 = 2 -> 255
       [] address \div 256 = 3 -> <<0, 127, 128, 255>>[(address % 4) + 1]
       [] OTHER -> 76]

(* The second place has the operand of the instruction across a page.       *)
Places == {1152, 1278}

(* Where a JSR pushes over its operand, partly or not so that they differ.  *)
StackPlaces == 507 .. 510
LowBytes == {16, 128, 255}

StartingAt(opcode, pc, low, a, index, carry) ==
  [a |-> a, x |-> index, y |-> 255 - index, s |-> IF index = 1 THEN 0 ELSE 255, pc |-> pc,
   n |-> carry, v |-> carry, d |-> FALSE, i |-> ~carry, z |-> ~carry, c |-> carry,
   mem |-> (pc :> opcode) @@ (pc + 1 :> low) @@ (pc + 2 :> 3)]

Interruptible == {0, 234}

MCStart ==
  { [state |-> StartingAt(opcode, pc, low, a, index, carry),
     interrupts |-> IF opcode \in Interruptible THEN 1 ELSE 0] :
      opcode \in Byte, pc \in Places, low \in LowBytes, a \in {0, 127, 200},
      index \in {1, 255}, carry \in BOOLEAN } \union
  { [state |-> StartingAt(32, pc, low, 0, 255, FALSE), interrupts |-> 0] :
      pc \in StackPlaces, low \in LowBytes }

-----------------------------------------------------------------------------
(* Properties                                                               *)

Whole == INSTANCE Cpu WITH regs <- IF cpu2.finished THEN Visible(cpu2) ELSE before

(* What the two processors do not agree on: the instructions the older one  *)
(* marks buggy or leaves out, the stores a DMA disturbs, BRK's return       *)
(* address, and decimal arithmetic.                                         *)
Disputed == {"ANE", "ARR", "LXA", "SBX", "USBC", "JAM", "BRK"} \union Unstable
Decimal == {"ADC", "SBC", "RRA", "ISC"}

(* A JSR on the stack that pushes over its own operand. The older processor *)
(* reads the operand between the two halves of the push, this one the low   *)
(* byte before and the high byte after.                                     *)
OverItself ==
  \/ Shift(before.pc, 1) = OnStack(before.s)
  \/ Shift(before.pc, 2) = OnStack((before.s - 1) % 256)

(* The instruction that ends with this step is one they agree on.           *)
Agreed ==
  \/ cpu2.hardware_interrupt # None
  \/ /\ Op(cpu2') \notin Disputed
     /\ Op(cpu2') \in Decimal => ~cpu2.d
     /\ Op(cpu2') = "JSR" => ~OverItself

(* Cycle by cycle or at once, an instruction comes to the same registers,   *)
(* flags, stack and memory; so does an interrupt, with the vector in force  *)
(* when it is read.                                                         *)
ImplementsCpu ==
  [][Agreed => IF cpu2.hardware_interrupt # None THEN Whole!Interrupt(Vector(cpu2))
               ELSE Whole!Instruction]_(IF cpu2.finished THEN Visible(cpu2) ELSE before)

Finishes == ~cpu2.finished /\ cpu2'.finished

(* The cycles of a documented instruction are the table's with the page     *)
(* crossings and taken branches of the older processor.                     *)
CyclesAgree ==
  [][Finishes /\ cpu2.hardware_interrupt = None /\ Documented(cpu2.current_opcode)
       => cpu2'.instruction_cycles = Whole!cycles(before)]_cpu2

(* Every cycle that counts is one access to memory, and a tick that does    *)
(* not count makes none.                                                    *)
OneAccessPerCycle ==
  [][cpu2'.current_cycle # cpu2.current_cycle
       => Len(cpu2'.bus) = IF cpu2'.no_increment THEN 0 ELSE 1]_cpu2
=============================================================================
