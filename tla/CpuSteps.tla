------------------------------- MODULE CpuSteps -------------------------------
(* The steps instructions are made of: what a tick of Cpu2 does to the      *)
(* processor c, a record of the struct's fields, its memory as far as it    *)
(* was written, and the accesses of the tick.                               *)
EXTENDS Alu, Operands

CONSTANT Image        \* the memory before anything is written: [Word -> Byte]

None == "none"
STACK_ADDRESS == 256
VectorAddress == [nmi |-> 65530, irq |-> 65534]

-----------------------------------------------------------------------------
(* Memory, addresses and the stack                                          *)

Paged(low, high) == low + 256 * high
Lo(address) == address % 256
Hi(address) == address \div 256
Shift(address, by) == (address + by) % 65536

At(c, address) == IF address \in DOMAIN c.mem THEN c.mem[address] ELSE Image[address]

Reading(c, address) == [c EXCEPT !.bus = Append(@, <<"read", address>>)]

Written(memory, address, value) ==
  [place \in DOMAIN memory \union {address} |-> IF place = address THEN value ELSE memory[place]]

Writing(c, address, value) ==
  [c EXCEPT !.mem = Written(@, address, value), !.bus = Append(@, <<"write", address>>)]

IncPc(c) == [c EXCEPT !.pc = Shift(@, 1)]

Done(c) == [c EXCEPT !.finished = TRUE]

OnStack(s) == STACK_ADDRESS + s

Push(c, value) == [Writing(c, OnStack(c.s), value) EXCEPT !.s = (@ - 1) % 256]

Top(c) == At(c, OnStack((c.s + 1) % 256))

Pop(c) == [Reading(c, OnStack((c.s + 1) % 256)) EXCEPT !.s = (@ + 1) % 256]

Op(c) == Mnemonic(c.current_opcode)
Mode(c) == AddressingType(c.current_opcode)

IndexOf(c) == IF Mode(c) \in {"zpy", "absy", "indy"} THEN c.y ELSE c.x

-----------------------------------------------------------------------------
(* The steps an instruction is made of, each one cycle                      *)

Discard(c) == Reading(c, c.pc)
Fetched(c) == IncPc(Reading(c, c.pc))

Low(c)         == [Fetched(c) EXCEPT !.low_byte = At(c, c.pc)]
AddressHigh(c) == [Fetched(c) EXCEPT !.current_address = Paged(c.low_byte, At(c, c.pc))]
ZeroPage(c)    == [Fetched(c) EXCEPT !.current_address = At(c, c.pc)]
Pointer(c)     == [Fetched(c) EXCEPT !.pointer = At(c, c.pc)]

Index(c) == [Reading(c, c.current_address) EXCEPT !.current_address = Lo(@ + IndexOf(c))]

(* The sum keeps the page of the base: the carry is applied a cycle later.  *)
Indexed(c, high, index) ==
  LET old == Paged(c.low_byte, high)
      new == Shift(old, index)
  IN [c EXCEPT !.page_crossed = (Hi(old) # Hi(new)),
               !.current_address = IF Hi(old) # Hi(new) THEN Shift(new, -256) ELSE new,
               !.base_high = high]

IndexedAddress(c) == Indexed(Fetched(c), At(c, c.pc), IndexOf(c))

LowPointed(c)      == [Reading(c, c.current_address) EXCEPT !.low_byte = At(c, c.current_address)]
AddressPointed(c)  ==
  LET next == Lo(c.current_address + 1)
  IN [Reading(c, next) EXCEPT !.current_address = Paged(c.low_byte, At(c, next))]

PointerLow(c)      == [Reading(c, c.pointer) EXCEPT !.low_byte = At(c, c.pointer)]
IndexedPointer(c)  ==
  LET next == Lo(c.pointer + 1)
  IN Indexed(Reading(c, next), At(c, next), c.y)

Value(c) == [Reading(c, c.current_address) EXCEPT !.current_value = At(c, c.current_address)]

Fixed(c) == [c EXCEPT !.current_address = IF c.page_crossed THEN Shift(@, 256) ELSE @]

ValueThenFix(c) == Fixed(Value(c))
FixThenValue(c) == Value(Fixed(c))

(* The unofficial read-modify-writes carry out of the low byte themselves.  *)
Unfixed(c) ==
  LET added == c.low_byte + IndexOf(c)
  IN Value([c EXCEPT !.current_address = Paged(Lo(added), c.pointer), !.pointer = added])
CarryThenValue(c) ==
  Value([c EXCEPT !.current_address = IF c.pointer >= 256 THEN Shift(@, 256) ELSE @])

Use(c) == Done(Load(Op(c), c, c.current_value))
ReadValue(c) == Use(Value(c))
Immediate(c) == Use([Fetched(c) EXCEPT !.current_value = At(c, c.pc)])

FixWithoutReading(c) ==
  IF c.page_crossed THEN Use(Fixed(c)) ELSE Use([c EXCEPT !.no_increment = TRUE])
AlwaysReadAgain(c) == ReadValue(Fixed(c))

(* Without a carry this tick reads nothing and is not counted.              *)
FixThenUse(c) ==
  IF c.page_crossed THEN ReadValue(Fixed(c)) ELSE Use([c EXCEPT !.no_increment = TRUE])

WriteBack(c) == Writing(c, c.current_address, c.current_value)

Modify(c) ==
  LET stored == Modified(Op(c), c, c.current_value)
  IN Done(Accumulate(Op(c), ShiftedOut(Op(c), Writing(c, c.current_address, stored),
                                       c.current_value), stored))

(* The stores whose value is and-ed with the address go where the value     *)
(* says when the index carries.                                             *)
UnstableStore(c) ==
  LET h == (c.base_high + 1) % 256
      value == IF c.dma_on_previous_cycle THEN Stored(Op(c), c) ELSE And(Stored(Op(c), c), h)
      to == IF c.page_crossed THEN Paged(Lo(c.current_address), value) ELSE c.current_address
  IN Writing(IF Op(c) = "TAS" THEN [c EXCEPT !.s = And(c.a, c.x)] ELSE c, to, value)

Write(c) ==
  Done(IF Op(c) \in Unstable THEN UnstableStore(c)
                             ELSE Writing(c, c.current_address, Stored(Op(c), c)))

FixThenWrite(c) == Write(IF Op(c) = "STA" THEN Fixed(c) ELSE c)

FlagStep(c)     == Done(SetFlag(Op(c), Discard(c)))
TransferStep(c) == Done(Transfer(Op(c), Discard(c)))
ShiftStep(c)    == Done(ShiftA(Op(c), Discard(c)))
Nothing(c)      == Done(Discard(c))

StackRead(c)    == Reading(c, OnStack(c.s))
PushRegister(c) == Done(Push(c, IF Op(c) = "PHA" THEN c.a ELSE StatusByte(c, TRUE)))
PullRegister(c) ==
  Done(IF Op(c) = "PLA" THEN SetA(Pop(c), Top(c)) ELSE SetStatus(Pop(c), Top(c)))
PullStatus(c)   == SetStatus(Pop(c), Top(c))
PullPcl(c)      == [Pop(c) EXCEPT !.pc = Paged(Top(c), Hi(@))]
PullPch(c)      == [Pop(c) EXCEPT !.pc = Paged(Lo(@), Top(c))]
Return(c)       == Done(PullPch(c))
IncrementPcOnly(c) == Done(IncPc(c))
IncrementPc(c)  == Done(Fetched(c))
PushPch(c)      == Push(c, Hi(c.pc))
PushPcl(c)      == Push(c, Lo(c.pc))

JumpHigh(c)     == Done([Reading(c, c.pc) EXCEPT !.pc = Paged(c.low_byte, At(c, c.pc))])

(* The high byte of an indirect jump comes from the same page as the low.   *)
JumpPointed(c)  ==
  LET next == Paged(Lo(c.current_address + 1), Hi(c.current_address))
  IN Done([Reading(c, next) EXCEPT !.pc = Paged(c.low_byte, At(c, next))])

(* A branch not taken leaves two ticks that are not counted.                *)
BranchStep(c) ==
  LET offset == IF c.low_byte < 128 THEN c.low_byte ELSE c.low_byte - 256
      new == Shift(c.pc, offset)
  IN IF Taken(Op(c), c)
     THEN [Reading(c, c.pc) EXCEPT !.page_crossed = (Hi(c.pc) # Hi(new)),
                                   !.current_address = new,
                                   !.pc = Paged(Lo(@ + c.low_byte), Hi(@))]
     ELSE [c EXCEPT !.page_crossed = FALSE, !.no_increment = TRUE]
FixPc(c) ==
  Done(IF c.page_crossed THEN [Reading(c, c.pc) EXCEPT !.pc = c.current_address]
                         ELSE [c EXCEPT !.no_increment = TRUE])

(* BRK skips its padding byte, an interrupt does not; an NMI that arrives   *)
(* before the vector is read takes the sequence over.                       *)
ByBrk(c) == c.hardware_interrupt = None
Padding(c) == IF ByBrk(c) THEN Fetched(c) ELSE Discard(c)
PushStatus(c) == [Push(c, StatusByte(c, ByBrk(c))) EXCEPT !.i = TRUE]
Vector(c) ==
  IF c.latched_nmi THEN VectorAddress.nmi
  ELSE IF ByBrk(c) THEN VectorAddress.irq ELSE VectorAddress[c.hardware_interrupt]
VectorLow(c) == [Reading(c, Vector(c)) EXCEPT !.low_byte = At(c, Vector(c))]
VectorHigh(c) ==
  Done([Reading(c, Vector(c) + 1) EXCEPT !.pc = Paged(c.low_byte, At(c, Vector(c) + 1)),
                                         !.latched_nmi = FALSE,
                                         !.hardware_interrupt = None])
=============================================================================
