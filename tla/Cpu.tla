--------------------------------- MODULE Cpu ---------------------------------
(* The older processor, which runs a whole instruction at a time: the       *)
(* specification of what an instruction of Cpu2 comes to. regs holds the    *)
(* registers, the flags and the memory written so far. is_65c02 is off.     *)
EXTENDS Bits, Operands

CONSTANT Image        \* the memory before anything is written: [0 .. 65535 -> 0 .. 255]

VARIABLE regs

Num(bool) == IF bool THEN 1 ELSE 0
Wrap(n) == n % 256
Wrap16(n) == n % 65536
Exclusive(a, b) == Or(a, b) - And(a, b)

Get(r, address) == IF address \in DOMAIN r.mem THEN r.mem[address] ELSE Image[address]
Set(r, address, value) ==
  [r EXCEPT !.mem = [place \in DOMAIN @ \union {address} |->
                       IF place = address THEN value ELSE @[place]]]

WordOf(r, low, high) == Get(r, low) + 256 * Get(r, high)
word(r, address) == WordOf(r, address, Wrap16(address + 1))

set_nz_flags(r, value) == [r EXCEPT !.z = (value = 0), !.n = (value \div 128 = 1)]

push_byte(r, value) == [Set(r, 256 + r.s, value) EXCEPT !.s = Wrap(@ - 1)]
push_word(r, w) == push_byte(push_byte(r, w \div 256), w % 256)
inc(r) == [r EXCEPT !.s = Wrap(@ + 1)]
TopByte(r) == Get(r, 256 + Wrap(r.s + 1))
TopWord(r) == TopByte(r) + 256 * TopByte(inc(r))

-----------------------------------------------------------------------------
(* Addressing                                                               *)

(* A pointer in the zero page wraps within it.                              *)
word_ind_y(r, zp) == WordOf(r, zp, Wrap(zp + 1))

address(r, pc, mode) ==
  LET byte == Get(r, Wrap16(pc + 1))
      base == word(r, Wrap16(pc + 1))
  IN CASE mode = "zp"   -> byte
       [] mode = "zpx"  -> Wrap(byte + r.x)
       [] mode = "zpy"  -> Wrap(byte + r.y)
       [] mode = "abs"  -> base
       [] mode = "absx" -> Wrap16(base + r.x)
       [] mode = "absy" -> Wrap16(base + r.y)
       [] mode = "ind"  -> WordOf(r, base, IF base % 256 = 255 THEN base - 255 ELSE base + 1)
       [] mode = "indx" -> WordOf(r, Wrap(byte + r.x), Wrap(byte + Wrap(r.x + 1)))
       [] mode = "indy" -> Wrap16(word_ind_y(r, byte) + r.y)
       [] mode = "imm"  -> Wrap16(pc + 1)

page_crossed(old, new) == Num(old \div 256 # new \div 256)

(* The extra cycle of a read whose index carries.                           *)
run_indirect(r, pc, mode, to) ==
  CASE mode = "indy" -> page_crossed(word_ind_y(r, Get(r, Wrap16(pc + 1))), to)
    [] mode \in {"absx", "absy"} -> page_crossed(word(r, Wrap16(pc + 1)), to)
    [] OTHER -> 0

-----------------------------------------------------------------------------
(* Arithmetic                                                               *)

add(r, v) ==
  LET result == r.a + v + Num(r.c)
      carry6 == ((r.a % 128) + (v % 128) + Num(r.c)) \div 128
  IN set_nz_flags([r EXCEPT !.c = (result > 255), !.v = (Num(result > 255) # carry6),
                            !.a = Wrap(result)], Wrap(result))

AdcDecimal(r, v) ==
  LET low == (r.a % 16) + (v % 16) + Num(r.c)
      al == IF low >= 10 THEN (Wrap(low + 6) % 16) + 16 ELSE low
      ah == r.a \div 16 + v \div 16 + Num(al > 15)
      adjusted == IF ah >= 10 THEN ah + 6 ELSE ah
  IN [r EXCEPT !.n = (Bit(ah, 8) = 1),
               !.v = (r.a \div 128 = v \div 128 /\ r.a \div 128 # Wrap(ah * 16) \div 128),
               !.c = (adjusted > 15),
               !.z = (Wrap(r.a + v + Num(r.c)) = 0),
               !.a = Wrap(adjusted * 16) + (al % 16)]

adc(r, v) == IF r.d THEN AdcDecimal(r, v) ELSE add(r, v)

SbcDecimal(r, v) ==
  LET borrow == 1 - Num(r.c)
      diff == Wrap16(r.a - v - borrow)
      low == Wrap((r.a % 16) - (v % 16) - borrow)
      al == IF low >= 128 THEN Wrap(low - 6) ELSE low
      high == Wrap(r.a \div 16 - v \div 16 - Num(al >= 128))
      ah == IF high >= 128 THEN Wrap(high - 6) ELSE high
  IN [r EXCEPT !.z = (Wrap(diff) = 0),
               !.n = (Bit(diff, 128) = 1),
               !.v = (r.a \div 128 # v \div 128 /\ r.a \div 128 # Bit(diff, 128)),
               !.c = (diff \div 256 = 0),
               !.a = Wrap(ah * 16) + (al % 16)]

sbc(r, v) == IF r.d THEN SbcDecimal(r, v) ELSE add(r, Exclusive(v, 255))

(* tmp is the low byte of the difference, seen as signed.                   *)
cmp(r, register, v) ==
  LET tmp == Wrap(register - v)
  IN [r EXCEPT !.c = (register >= v), !.z = (tmp = 0), !.n = (tmp >= 128)]

asl(r, v) == set_nz_flags([r EXCEPT !.c = (v >= 128)], Wrap(v * 2))
lsr(r, v) == set_nz_flags([r EXCEPT !.c = (v % 2 = 1)], v \div 2)
rol(r, v) == set_nz_flags([r EXCEPT !.c = (v >= 128)], Wrap(v * 2) + Num(r.c))
ror(r, v) == set_nz_flags([r EXCEPT !.c = (v % 2 = 1)], v \div 2 + 128 * Num(r.c))

Shift8(op, r, v) ==
  CASE op = "ASL" -> [r |-> asl(r, v), value |-> Wrap(v * 2)]
    [] op = "LSR" -> [r |-> lsr(r, v), value |-> v \div 2]
    [] op = "ROL" -> [r |-> rol(r, v), value |-> Wrap(v * 2) + Num(r.c)]
    [] op = "ROR" -> [r |-> ror(r, v), value |-> v \div 2 + 128 * Num(r.c)]
    [] op = "INC" -> [r |-> set_nz_flags(r, Wrap(v + 1)), value |-> Wrap(v + 1)]
    [] op = "DEC" -> [r |-> set_nz_flags(r, Wrap(v - 1)), value |-> Wrap(v - 1)]

-----------------------------------------------------------------------------
(* What next_instruction does for each instruction, pc being the opcode's   *)
(* address and regs.pc already the next instruction's                       *)

WithA(r, value) == set_nz_flags([r EXCEPT !.a = value], value)
WithX(r, value) == set_nz_flags([r EXCEPT !.x = value], value)
WithY(r, value) == set_nz_flags([r EXCEPT !.y = value], value)

Arithmetic(op, r, value) ==
  CASE op = "ADC" -> adc(r, value)
    [] op = "AND" -> WithA(r, And(r.a, value))
    [] op = "BIT" -> [r EXCEPT !.z = (And(value, r.a) = 0), !.n = (Bit(value, 128) = 1),
                               !.v = (Bit(value, 64) = 1)]
    [] op = "CMP" -> cmp(r, r.a, value)
    [] op = "CPX" -> cmp(r, r.x, value)
    [] op = "CPY" -> cmp(r, r.y, value)
    [] op = "EOR" -> WithA(r, Exclusive(r.a, value))

LoadsAndLogic(op, r, value) ==
  CASE op = "LDA" -> WithA(r, value)
    [] op = "LDX" -> WithX(r, value)
    [] op = "LDY" -> WithY(r, value)
    [] op = "ORA" -> WithA(r, Or(r.a, value))
    [] op = "SBC" -> sbc(r, value)

branch(op, r, pc) ==
  LET byte == Get(r, Wrap16(pc + 1))
      condition ==
        CASE op = "BPL" -> ~r.n [] op = "BMI" -> r.n [] op = "BNE" -> ~r.z [] op = "BEQ" -> r.z
          [] op = "BCC" -> ~r.c [] op = "BCS" -> r.c [] op = "BVC" -> ~r.v [] op = "BVS" -> r.v
      target == Wrap16(Wrap16(r.pc + byte) - (IF byte >= 128 THEN 256 ELSE 0))
  IN IF condition
     THEN [r |-> [r EXCEPT !.pc = target], extra |-> 1 + page_crossed(r.pc, target)]
     ELSE [r |-> r, extra |-> 0]

SetsFlag(op, r) ==
  CASE op = "CLC" -> [r EXCEPT !.c = FALSE] [] op = "SEC" -> [r EXCEPT !.c = TRUE]
    [] op = "CLI" -> [r EXCEPT !.i = FALSE] [] op = "SEI" -> [r EXCEPT !.i = TRUE]
    [] op = "CLD" -> [r EXCEPT !.d = FALSE] [] op = "SED" -> [r EXCEPT !.d = TRUE]
    [] op = "CLV" -> [r EXCEPT !.v = FALSE]

Moves(op, r) ==
  CASE op = "TAX" -> WithX(r, r.a) [] op = "TXA" -> WithA(r, r.x)
    [] op = "TAY" -> WithY(r, r.a) [] op = "TYA" -> WithA(r, r.y)
    [] op = "TXS" -> [r EXCEPT !.s = r.x] [] op = "TSX" -> WithX(r, r.s)
    [] op = "DEX" -> WithX(r, Wrap(r.x - 1)) [] op = "INX" -> WithX(r, Wrap(r.x + 1))
    [] op = "DEY" -> WithY(r, Wrap(r.y - 1)) [] op = "INY" -> WithY(r, Wrap(r.y + 1))

value(r, b) ==
  128 * Num(r.n) + 64 * Num(r.v) + 32 + 16 * Num(b) + 8 * Num(r.d) + 4 * Num(r.i)
    + 2 * Num(r.z) + Num(r.c)

set_value(r, byte) ==
  [r EXCEPT !.n = (Bit(byte, 128) = 1), !.v = (Bit(byte, 64) = 1), !.d = (Bit(byte, 8) = 1),
            !.i = (Bit(byte, 4) = 1), !.z = (Bit(byte, 2) = 1), !.c = (Bit(byte, 1) = 1)]

(* BRK and the interrupts push the program counter as it stands.            *)
handle_interrupt(r, brk, vector) ==
  LET pushed == push_byte(push_word(r, r.pc), value(r, brk))
  IN [pushed EXCEPT !.i = TRUE, !.pc = word(pushed, vector)]

(* The operand of a JSR is read between the two halves of the push.         *)
jsr(r, pc) ==
  LET return_address == Wrap16(pc + 2)
      half == push_byte(r, return_address \div 256)
  IN push_byte([half EXCEPT !.pc = word(half, Wrap16(pc + 1))], return_address % 256)

rti(r) ==
  LET pulled == inc(set_value(r, TopByte(r)))
  IN [inc(inc(pulled)) EXCEPT !.pc = TopWord(pulled)]

rts(r) == [inc(inc(r)) EXCEPT !.pc = Wrap16(TopWord(r) + 1)]

Stacked(op, r) ==
  CASE op = "PHA" -> push_byte(r, r.a)
    [] op = "PHP" -> push_byte(r, value(r, TRUE))
    [] op = "PLA" -> WithA(inc(r), TopByte(r))
    [] op = "PLP" -> set_value(inc(r), TopByte(r))

StoresReg(op, r, to) ==
  Set(r, to, CASE op = "STA" -> r.a [] op = "STX" -> r.x [] op = "STY" -> r.y)

-----------------------------------------------------------------------------
(* undocumented_6502_opcodes                                                *)

UndocumentedModify(op, r, to) ==
  LET v == Get(r, to)
      Base(shift) == Shift8(shift, r, v)
      Kept(shift) == Set(Base(shift).r, to, Base(shift).value)
  IN CASE op = "SLO" -> WithA(Kept("ASL"), Or(r.a, Base("ASL").value))
       [] op = "RLA" -> WithA(Kept("ROL"), And(r.a, Base("ROL").value))
       [] op = "SRE" -> WithA(Kept("LSR"), Exclusive(r.a, Base("LSR").value))
       [] op = "RRA" -> adc(Kept("ROR"), Base("ROR").value)
       [] op = "ISC" -> sbc(Set(r, to, Wrap(v + 1)), Wrap(v + 1))
       [] op = "DCP" -> cmp(Set(r, to, Wrap(v - 1)), r.a, Wrap(v - 1))

(* ANE, ARR, LXA, SHA and TAS are marked buggy in the source.               *)
UndocumentedRead(op, r, v) ==
  CASE op = "LAX" -> WithX(WithA(r, v), v)
    [] op = "LAS" -> WithX(WithA([r EXCEPT !.s = And(r.s, v)], And(r.s, v)), And(r.s, v))
    [] op = "ALR" -> WithA(lsr(r, And(r.a, v)), And(r.a, v) \div 2)
    [] op = "ANC" -> [WithA(r, And(r.a, v)) EXCEPT !.c = (And(r.a, v) >= 128)]
    [] op = "ANE" -> WithA(r, And(r.x, v))
    [] op = "ARR" -> [r EXCEPT !.a = And(r.a, v)]
    [] op = "LXA" -> WithX([r EXCEPT !.a = Or(And(r.a, v), 234)], Or(And(r.a, v), 234))
    [] op = "SBX" ->
         LET subtracted == sbc([r EXCEPT !.a = And(r.x, r.a), !.c = TRUE], v)
         IN [subtracted EXCEPT !.x = subtracted.a, !.a = r.a]
    [] op \in {"NOP", "USBC", "JAM"} -> r

UndocumentedStore(op, r, to) ==
  LET plus == Wrap(Get(r, Wrap16(r.pc - 1)) + 1)
      ax == And(r.a, r.x)
  IN CASE op \in {"SAX", "SHA"} -> Set(r, to, ax)
       [] op = "TAS" -> Set([r EXCEPT !.s = ax], to, And(ax, plus))
       [] op = "SHY" -> Set(r, to, And(r.y, plus))
       [] op = "SHX" -> Set(r, to, And(r.x, plus))

-----------------------------------------------------------------------------
(* An instruction: the registers after it                                   *)

Modifies == {"ASL", "LSR", "ROL", "ROR", "INC", "DEC"}
UndocumentedModifies == {"SLO", "RLA", "SRE", "RRA", "ISC", "DCP"}

next_instruction(before) ==
  LET pc == before.pc
      opcode == Get(before, pc)
      op == Mnemonic(opcode)
      mode == AddressingType(opcode)
      r == [before EXCEPT !.pc = Wrap16(pc + Size(opcode))]
      to == address(r, pc, mode)
      v == Get(r, to)
  IN CASE op \in {"ADC", "AND", "BIT", "CMP", "CPX", "CPY", "EOR"} -> Arithmetic(op, r, v)
       [] op \in {"LDA", "LDX", "LDY", "ORA", "SBC"} -> LoadsAndLogic(op, r, v)
       [] op \in Modifies ->
            IF mode = "acc"
            THEN [Shift8(op, r, r.a).r EXCEPT !.a = Shift8(op, r, r.a).value]
            ELSE Set(Shift8(op, r, v).r, to, Shift8(op, r, v).value)
       [] op \in {"STA", "STX", "STY"} -> StoresReg(op, r, to)
       [] mode = "rel" -> branch(op, r, pc).r
       [] op \in {"CLC", "SEC", "CLI", "SEI", "CLD", "SED", "CLV"} -> SetsFlag(op, r)
       [] op \in {"TAX", "TXA", "TAY", "TYA", "TXS", "TSX", "DEX", "INX", "DEY", "INY"} ->
            Moves(op, r)
       [] op = "JMP" -> [r EXCEPT !.pc = to]
       [] op = "JSR" -> jsr(r, pc)
       [] op = "RTI" -> rti(r)
       [] op = "RTS" -> rts(r)
       [] op = "BRK" -> handle_interrupt(r, TRUE, 65534)
       [] op \in {"PHA", "PHP", "PLA", "PLP"} -> Stacked(op, r)
       [] op \in UndocumentedModifies -> UndocumentedModify(op, r, to)
       [] op \in {"SAX", "SHA", "TAS", "SHX", "SHY"} -> UndocumentedStore(op, r, to)
       [] op \in {"LAX", "LAS", "ALR", "ANC", "ANE", "ARR", "LXA", "SBX"} ->
            UndocumentedRead(op, r, v)
       [] OTHER -> r

(* undocumented_6502_opcodes starts from the table's cycles, which its      *)
(* caller has counted already; LAX compares with its operand in any mode.   *)
UndocumentedCycles(opcode, r, pc) ==
  LET to == address(r, pc, AddressingType(opcode))
      crosses == page_crossed(word(r, Wrap16(pc + 1)), to)
  IN CASE opcode = 234 -> 0
       [] Mnemonic(opcode) = "LAX" \/ opcode \in {92, 124, 220, 252} -> Cycles(opcode) + crosses
       [] OTHER -> Cycles(opcode)

(* Its cycles: the table's, and one more where a read's index carries or a  *)
(* branch is taken, two when it leaves the page.                            *)
cycles(before) ==
  LET pc == before.pc
      opcode == Get(before, pc)
      op == Mnemonic(opcode)
      mode == AddressingType(opcode)
      r == [before EXCEPT !.pc = Wrap16(pc + Size(opcode))]
  IN Cycles(opcode)
       + (CASE mode = "rel" -> branch(op, r, pc).extra
            [] op \in {"ADC", "AND", "CMP", "EOR", "LDA", "LDX", "LDY", "ORA", "SBC"} ->
                 run_indirect(r, pc, mode, address(r, pc, mode))
            [] ~Documented(opcode) \/ op = "NOP" -> UndocumentedCycles(opcode, r, pc)
            [] OTHER -> 0)

Instruction == regs' = next_instruction(regs)

Interrupt(vector) == regs' = handle_interrupt(regs, FALSE, vector)

Next == Instruction \/ \E vector \in {65530, 65534} : Interrupt(vector)
=============================================================================
