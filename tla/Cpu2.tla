-------------------------------- MODULE Cpu2 --------------------------------
(* The processor as it runs: one tick is one clock cycle, an instruction is *)
(* a sequence of steps, and the registers are seen half way through one.    *)
(* When an interrupt is detected is CpuInterrupts' subject: here one may be *)
(* taken at any instruction boundary as long as interrupts allows it.       *)
EXTENDS CpuSteps

CONSTANTS Start,      \* what a run starts from: registers, memory, interrupts to come
          Stalled     \* the instructions during which a DMA takes cycles

(* The registers and flags, and the memory as far as it was written.        *)
Registers == {"a", "x", "y", "s", "pc", "n", "v", "d", "i", "z", "c", "mem"}

RegistersType(r) ==
  /\ {r.a, r.x, r.y, r.s} \subseteq Byte /\ r.pc \in Word
  /\ {r.n, r.v, r.d, r.i, r.z, r.c} \subseteq BOOLEAN
  /\ DOMAIN r.mem \subseteq Word /\ r.mem \in [DOMAIN r.mem -> Byte]

ASSUME Cpu2Assumption ==
  /\ Image \in [Word -> Byte]
  /\ \A start \in Start : /\ DOMAIN start.state = Registers /\ RegistersType(start.state)
                          /\ start.interrupts \in Nat

VARIABLES
  cpu2,               \* struct Cpu2, its memory and the accesses of the last tick
  interrupts          \* how many more interrupts are taken

Cpu2vars == <<cpu2, interrupts>>

(* The fields as new() leaves them, beside the registers and the memory.    *)
New ==
  [bus |-> <<>>, current_opcode |-> 0, current_cycle |-> 1, finished |-> TRUE,
   no_increment |-> FALSE, instruction_cycles |-> 0, low_byte |-> 0, pointer |-> 0,
   current_address |-> 0, current_value |-> 0, page_crossed |-> FALSE, base_high |-> 0,
   hardware_interrupt |-> None, latched_nmi |-> FALSE, dma_on_previous_cycle |-> FALSE]

Cpu2Init ==
  \E start \in Start :
    /\ cpu2 = [field \in Registers \union DOMAIN New |->
                IF field \in Registers THEN start.state[field] ELSE New[field]]
    /\ interrupts = start.interrupts

-----------------------------------------------------------------------------
(* The steps of every instruction after its opcode is fetched               *)

Official   == {"ASL", "LSR", "ROL", "ROR", "INC", "DEC"}
Unofficial == {"SLO", "RLA", "SRE", "RRA", "ISC", "DCP"}
BranchOps  == {"BCC", "BCS", "BNE", "BEQ", "BPL", "BMI", "BVC", "BVS"}
Flags      == {"CLC", "SEC", "CLD", "SED", "CLI", "SEI", "CLV"}
Transfers  == {"TSX", "TXS", "TAX", "TXA", "TYA", "TAY", "DEX", "DEY", "INX", "INY"}
Stores     == {"STA", "STX", "STY", "SAX"} \union Unstable

FlagSteps      == <<"flag">>
NopSteps       == <<"nothing">>
InterruptSteps == <<"padding", "push pch", "push pcl", "push p", "vector low", "vector high">>
RtiSteps       == <<"discard", "stack", "pull p", "pull pcl", "return">>
RtsSteps       == <<"discard", "stack", "pull pcl", "pull pch", "increment pc">>
PushSteps      == <<"discard", "push">>
PullSteps      == <<"discard", "stack", "pull">>
JmpIndSteps    == <<"low", "address", "low pointed", "jump pointed">>
JmpSteps       == <<"low", "jump">>
JsrSteps       == <<"low", "stack", "push pch", "push pcl", "jump">>
TransferSteps  == <<"transfer">>
ShiftASteps    == <<"shift">>
CompareImmSteps == <<"immediate">>
ImmediateSteps  == <<"immediate">>

ReadAbs    == <<"low", "address", "read">>
ModifyAbs  == <<"low", "address", "value", "write back", "modify">>
WriteAbs   == <<"low", "address", "write">>
ReadZp     == <<"zero page", "read">>
ModifyZp   == <<"zero page", "value", "write back", "modify">>
WriteZp    == <<"zero page", "write">>
ReadZpX    == <<"zero page", "index", "read">>
ModifyZpX  == <<"zero page", "index", "value", "write back", "modify">>
WriteZpX   == <<"zero page", "index", "write">>
ModifyIndX == <<"zero page", "index", "low pointed", "address pointed", "value", "write back",
                "modify">>
ReadIndX   == <<"zero page", "index", "low pointed", "address pointed", "read">>
WriteIndX  == <<"zero page", "index", "low pointed", "address pointed", "write">>
ReadAbsX   == <<"low", "indexed", "value", "fix, use">>
ModifyAbsX == <<"low", "indexed", "value, fix", "value", "write back", "modify">>
UnofficialModifyAbsX == <<"low", "pointer", "unfixed", "carry, value", "write back", "modify">>
WriteAbsX  == <<"low", "indexed", "value, fix", "write">>
ReadIndY   == <<"pointer", "pointer low", "indexed pointer", "value", "fix, use">>
ModifyIndY == <<"pointer", "pointer low", "indexed pointer", "value", "fix, value", "write back",
                "modify">>
WriteIndY  == <<"pointer", "pointer low", "indexed pointer", "value", "fix, write">>
BranchSteps == <<"low", "branch", "fix pc">>

ImpliedSteps(op) ==
  CASE op \in Flags -> FlagSteps
    [] op \in Transfers -> TransferSteps
    [] op = "NOP" -> NopSteps
    [] op = "BRK" -> InterruptSteps
    [] op = "RTI" -> RtiSteps
    [] op = "RTS" -> RtsSteps
    [] op \in {"PHA", "PHP"} -> PushSteps
    [] op \in {"PLA", "PLP"} -> PullSteps

ModifySteps(op, mode) ==
  CASE mode = "acc" -> ShiftASteps
    [] mode = "abs" -> ModifyAbs
    [] mode = "zp"  -> ModifyZp
    [] mode = "zpx" -> ModifyZpX
    [] mode = "indx" -> ModifyIndX
    [] mode = "indy" -> ModifyIndY
    [] mode \in {"absx", "absy"} -> IF op \in Official THEN ModifyAbsX ELSE UnofficialModifyAbsX

WriteSteps(mode) ==
  CASE mode = "abs" -> WriteAbs
    [] mode = "zp"  -> WriteZp
    [] mode \in {"zpx", "zpy"} -> WriteZpX
    [] mode = "indx" -> WriteIndX
    [] mode = "indy" -> WriteIndY
    [] mode \in {"absx", "absy"} -> WriteAbsX

ReadSteps(op, mode) ==
  CASE mode = "imm" -> IF op \in {"CPX", "CPY"} THEN CompareImmSteps ELSE ImmediateSteps
    [] mode = "abs" -> ReadAbs
    [] mode = "zp"  -> ReadZp
    [] mode \in {"zpx", "zpy"} -> ReadZpX
    [] mode = "indx" -> ReadIndX
    [] mode = "indy" -> ReadIndY
    [] mode \in {"absx", "absy"} -> ReadAbsX

Steps(c) ==
  LET op == Op(c)
      mode == Mode(c)
  IN IF c.hardware_interrupt # None THEN InterruptSteps
     ELSE IF op = "JAM" THEN <<>>
     ELSE CASE op \in BranchOps -> BranchSteps
            [] op = "JSR" -> JsrSteps
            [] op = "JMP" -> IF mode = "ind" THEN JmpIndSteps ELSE JmpSteps
            [] op \in Official \union Unofficial -> ModifySteps(op, mode)
            [] op \in Stores -> WriteSteps(mode)
            [] mode = "impl" -> ImpliedSteps(op)
            [] OTHER -> ReadSteps(op, mode)

Perform(step, c) ==
  CASE step = "low" -> Low(c)                  [] step = "address" -> AddressHigh(c)
    [] step = "zero page" -> ZeroPage(c)       [] step = "index" -> Index(c)
    [] step = "low pointed" -> LowPointed(c)   [] step = "address pointed" -> AddressPointed(c)
    [] step = "pointer" -> Pointer(c)          [] step = "pointer low" -> PointerLow(c)
    [] step = "indexed" -> IndexedAddress(c)   [] step = "indexed pointer" -> IndexedPointer(c)
    [] step = "value" -> Value(c)              [] step = "value, fix" -> ValueThenFix(c)
    [] step = "fix, value" -> FixThenValue(c)  [] step = "unfixed" -> Unfixed(c)
    [] step = "carry, value" -> CarryThenValue(c)
    [] step = "read" -> ReadValue(c)           [] step = "fix, use" -> FixThenUse(c)
    [] step = "immediate" -> Immediate(c)      [] step = "write back" -> WriteBack(c)
    [] step = "modify" -> Modify(c)            [] step = "write" -> Write(c)
    [] step = "fix, write" -> FixThenWrite(c)  [] step = "flag" -> FlagStep(c)
    [] step = "transfer" -> TransferStep(c)    [] step = "shift" -> ShiftStep(c)
    [] step = "nothing" -> Nothing(c)          [] step = "discard" -> Discard(c)
    [] step = "stack" -> StackRead(c)          [] step = "push" -> PushRegister(c)
    [] step = "pull" -> PullRegister(c)        [] step = "pull p" -> PullStatus(c)
    [] step = "pull pcl" -> PullPcl(c)         [] step = "pull pch" -> PullPch(c)
    [] step = "return" -> Return(c)            [] step = "increment pc" -> IncrementPc(c)
    [] step = "push pch" -> PushPch(c)         [] step = "push pcl" -> PushPcl(c)
    [] step = "jump" -> JumpHigh(c)            [] step = "jump pointed" -> JumpPointed(c)
    [] step = "branch" -> BranchStep(c)        [] step = "fix pc" -> FixPc(c)
    [] step = "padding" -> Padding(c)          [] step = "push p" -> PushStatus(c)
    [] step = "vector low" -> VectorLow(c)     [] step = "vector high" -> VectorHigh(c)

-----------------------------------------------------------------------------
(* One tick                                                                 *)

(* The tail of tick: what is counted, and on to the next cycle.             *)
EndTick(c) ==
  [c EXCEPT !.current_cycle = @ + 1,
            !.instruction_cycles = IF c.no_increment THEN @ ELSE @ + 1]

Begin(c) ==
  [c EXCEPT !.bus = <<>>, !.instruction_cycles = 0, !.current_cycle = 1,
            !.no_increment = FALSE, !.finished = FALSE]

(* An opcode without an arm is over with its fetch.                         *)
FetchOpcode(c) ==
  LET fetched == [Fetched(c) EXCEPT !.current_opcode = At(c, c.pc),
                                    !.dma_on_previous_cycle = FALSE]
  IN IF Steps(fetched) = <<>>
     THEN Done([fetched EXCEPT !.current_cycle = Size(fetched.current_opcode)])
     ELSE fetched

Fetch ==
  /\ cpu2.finished
  /\ cpu2' = EndTick(FetchOpcode(Begin(cpu2)))
  /\ UNCHANGED interrupts

(* A detected interrupt takes the place of the fetch.                       *)
TakeInterrupt(line) ==
  /\ cpu2.finished /\ interrupts > 0
  /\ interrupts' = interrupts - 1
  /\ cpu2' = EndTick([Discard(Begin(cpu2)) EXCEPT !.hardware_interrupt = line,
                                                !.current_opcode = 0,
                                                !.dma_on_previous_cycle = FALSE])

(* An NMI is noticed in cycles 2 to 5 of BRK and of an interrupt.           *)
MayBeHijacked(c) ==
  (c.hardware_interrupt # None \/ Op(c) = "BRK") /\ c.current_cycle \in 2 .. 5

Continue(nmi) ==
  /\ ~cpu2.finished
  /\ nmi => MayBeHijacked(cpu2) /\ interrupts > 0
  /\ cpu2' = EndTick(Perform(Steps(cpu2)[cpu2.current_cycle - 1],
                            [cpu2 EXCEPT !.bus = <<>>, !.latched_nmi = @ \/ nmi]))
  /\ interrupts' = interrupts - Flag(nmi)

(* The table the DMA controllers ask whether the next tick writes.          *)
PendingIsWrite(c) ==
  LET op == Op(c)
      mode == Mode(c)
      cycle == c.current_cycle
  IN /\ ~c.finished
     /\ IF c.hardware_interrupt # None THEN cycle \in 3 .. 5
        ELSE \/ /\ op \in {"STA", "STX", "STY", "SAX"}
                /\ cycle \in 4 .. 6
             \/ op \in Unstable /\ cycle = (IF mode = "indy" THEN 6 ELSE 5)
             \/ op \in Official /\ mode # "acc" /\ cycle \in 5 .. 7
             \/ op = "JSR" /\ cycle \in 4 .. 5
             \/ op \in {"PHA", "PHP"} /\ cycle = 3
             \/ op = "BRK" /\ cycle \in 3 .. 5

(* A DMA has the bus for a cycle. one_cycle does not stop between a tick    *)
(* that is not counted and the next.                                        *)
DmaCycle ==
  /\ ~cpu2.no_increment /\ ~PendingIsWrite(cpu2)
  /\ Op(cpu2) \in Stalled
  /\ cpu2' = [cpu2 EXCEPT !.dma_on_previous_cycle = TRUE, !.bus = <<>>]
  /\ UNCHANGED interrupts

(* save_state and restore_state between two instructions: what CpuState     *)
(* has no field for is as new.                                              *)
(* It saves the memory below $8000; what is above is taken as the same      *)
(* cartridge.                                                               *)
SaveRestore ==
  /\ ~cpu2.no_increment /\ cpu2.finished
  /\ cpu2' = [field \in DOMAIN cpu2 |->
               IF field \in {"bus", "low_byte", "pointer", "base_high", "hardware_interrupt",
                             "latched_nmi", "dma_on_previous_cycle", "no_increment"}
               THEN New[field] ELSE cpu2[field]]
  /\ UNCHANGED interrupts

Cpu2Next ==
  \/ Fetch
  \/ \E line \in DOMAIN VectorAddress : TakeInterrupt(line)
  \/ \E nmi \in BOOLEAN : Continue(nmi)
  \/ DmaCycle
  \/ SaveRestore

Cpu2Spec == Cpu2Init /\ [][Cpu2Next]_Cpu2vars
=============================================================================
