--------------------------------- MODULE Alu ---------------------------------
(* The arithmetic of Cpu2: what each instruction does to the registers once *)
(* its operand is known. r is a record with the registers a, x, y, s and pc *)
(* and the flags n, v, d, i, z and c; other fields pass through.            *)
EXTENDS Bits

Byte == 0 .. 255
LastWord == 65535
Word == 0 .. LastWord

Flag(bool) == IF bool THEN 1 ELSE 0

Xor(a, b) == a + b - 2 * And(a, b)

SetNz(r, value) == [r EXCEPT !.z = (value = 0), !.n = (value >= 128)]

SetA(r, value) == SetNz([r EXCEPT !.a = value], value)

Sum(r, v) == r.a + v + Flag(r.c)

(* The carry out of bit 6 against the carry out of bit 7 is the overflow.   *)
Carry6(r, v) == (r.a % 128) + (v % 128) + Flag(r.c) >= 128

Add(r, v) ==
  [SetA(r, Sum(r, v) % 256) EXCEPT !.c = (Sum(r, v) >= 256),
                                   !.v = ((Sum(r, v) >= 256) # Carry6(r, v))]

(* On the NES decimal mode is not wired: the complement is added.           *)
Sbc(r, v) == Add(r, 255 - v)

Compare(r, register, v) == SetNz([r EXCEPT !.c = (register >= v)], (register - v) % 256)

TestBits(r, value) ==
  [r EXCEPT !.z = (And(value, r.a) = 0), !.n = (value >= 128), !.v = (Bit(value, 64) = 1)]

-----------------------------------------------------------------------------
(* Read-modify-write: what is stored, and what is done to the registers.    *)

Asl(v) == (2 * v) % 256
Lsr(v) == v \div 2
Rol(v, carry) == Asl(v) + Flag(carry)
Ror(v, carry) == Lsr(v) + 128 * Flag(carry)

Leftward  == {"ASL", "ROL", "SLO", "RLA"}
Rightward == {"LSR", "ROR", "SRE", "RRA"}

Modified(op, r, v) ==
  CASE op \in {"ASL", "SLO"} -> Asl(v)
    [] op \in {"LSR", "SRE"} -> Lsr(v)
    [] op \in {"ROL", "RLA"} -> Rol(v, r.c)
    [] op \in {"ROR", "RRA"} -> Ror(v, r.c)
    [] op \in {"INC", "ISC"} -> (v + 1) % 256
    [] op \in {"DEC", "DCP"} -> (v - 1) % 256

ShiftedOut(op, r, v) ==
  CASE op \in Leftward  -> [r EXCEPT !.c = (v >= 128)]
    [] op \in Rightward -> [r EXCEPT !.c = (v % 2 = 1)]
    [] OTHER            -> r

(* The unofficial instructions go on to work on A with what they stored.    *)
Accumulate(op, r, value) ==
  CASE op = "SLO" -> SetA(r, Or(r.a, value))
    [] op = "RLA" -> SetA(r, And(r.a, value))
    [] op = "SRE" -> SetA(r, Xor(r.a, value))
    [] op = "RRA" -> Add(r, value)
    [] op = "ISC" -> Sbc(r, value)
    [] op = "DCP" -> Compare(r, r.a, value)
    [] OTHER      -> SetNz(r, value)

-----------------------------------------------------------------------------
(* Instructions with an operand                                             *)

Arr(r, value) ==
  LET res == Lsr(And(r.a, value)) + 128 * Flag(r.c)
  IN [SetA(r, res) EXCEPT !.c = (Bit(res, 64) = 1), !.v = (Bit(res, 64) # Bit(res, 32))]

(* The difference is taken in 16 bits and wraps in a release build.         *)
Sbx(r, value) ==
  LET diff == (And(r.a, r.x) - value) % 65536
  IN SetNz([r EXCEPT !.x = diff % 256, !.c = (diff < 256)], diff % 256)

LoadAx(r, value) == SetA([r EXCEPT !.x = value], value)

Load(op, r, value) ==
  CASE op = "LDA" -> SetA(r, value)
    [] op = "LDX" -> SetNz([r EXCEPT !.x = value], value)
    [] op = "LDY" -> SetNz([r EXCEPT !.y = value], value)
    [] op = "EOR" -> SetA(r, Xor(r.a, value))
    [] op = "AND" -> SetA(r, And(r.a, value))
    [] op = "ORA" -> SetA(r, Or(r.a, value))
    [] op = "ADC" -> Add(r, value)
    [] op \in {"SBC", "USBC"} -> Sbc(r, value)
    [] op = "CMP" -> Compare(r, r.a, value)
    [] op = "CPX" -> Compare(r, r.x, value)
    [] op = "CPY" -> Compare(r, r.y, value)
    [] op = "BIT" -> TestBits(r, value)
    [] op \in {"LAX", "LXA"} -> LoadAx(r, value)
    [] op = "LAS" -> LoadAx([r EXCEPT !.s = And(value, r.s)], And(value, r.s))
    [] op = "ANC" -> [SetA(r, And(r.a, value)) EXCEPT !.c = (And(r.a, value) >= 128)]
    [] op = "ALR" -> [SetA(r, Lsr(And(r.a, value))) EXCEPT !.c = (And(r.a, value) % 2 = 1)]
    [] op = "ARR" -> Arr(r, value)
    [] op = "ANE" -> SetA(r, And(And(r.a, r.x), value))
    [] op = "SBX" -> Sbx(r, value)
    [] op = "NOP" -> r

-----------------------------------------------------------------------------
(* Instructions without one                                                 *)

SetFlag(op, r) ==
  CASE op = "CLC" -> [r EXCEPT !.c = FALSE] [] op = "SEC" -> [r EXCEPT !.c = TRUE]
    [] op = "CLD" -> [r EXCEPT !.d = FALSE] [] op = "SED" -> [r EXCEPT !.d = TRUE]
    [] op = "CLI" -> [r EXCEPT !.i = FALSE] [] op = "SEI" -> [r EXCEPT !.i = TRUE]
    [] op = "CLV" -> [r EXCEPT !.v = FALSE]

Transfer(op, r) ==
  CASE op = "TSX" -> SetNz([r EXCEPT !.x = r.s], r.s)
    [] op = "TXS" -> [r EXCEPT !.s = r.x]
    [] op = "TAX" -> SetNz([r EXCEPT !.x = r.a], r.a)
    [] op = "TXA" -> SetA(r, r.x)
    [] op = "TYA" -> SetA(r, r.y)
    [] op = "TAY" -> SetNz([r EXCEPT !.y = r.a], r.a)
    [] op = "DEX" -> SetNz([r EXCEPT !.x = (r.x - 1) % 256], (r.x - 1) % 256)
    [] op = "DEY" -> SetNz([r EXCEPT !.y = (r.y - 1) % 256], (r.y - 1) % 256)
    [] op = "INX" -> SetNz([r EXCEPT !.x = (r.x + 1) % 256], (r.x + 1) % 256)
    [] op = "INY" -> SetNz([r EXCEPT !.y = (r.y + 1) % 256], (r.y + 1) % 256)

ShiftA(op, r) == SetA(ShiftedOut(op, r, r.a), Modified(op, r, r.a))

Taken(op, r) ==
  CASE op = "BCC" -> ~r.c [] op = "BCS" -> r.c
    [] op = "BNE" -> ~r.z [] op = "BEQ" -> r.z
    [] op = "BPL" -> ~r.n [] op = "BMI" -> r.n
    [] op = "BVC" -> ~r.v [] op = "BVS" -> r.v

(* P as it is pushed: B is set by PHP and BRK, clear in an interrupt.       *)
StatusByte(r, b) ==
  128 * Flag(r.n) + 64 * Flag(r.v) + 32 + 16 * Flag(b)
    + 8 * Flag(r.d) + 4 * Flag(r.i) + 2 * Flag(r.z) + Flag(r.c)

SetStatus(r, value) ==
  [r EXCEPT !.n = (Bit(value, 128) = 1), !.v = (Bit(value, 64) = 1), !.d = (Bit(value, 8) = 1),
            !.i = (Bit(value, 4) = 1), !.z = (Bit(value, 2) = 1), !.c = (Bit(value, 1) = 1)]

(* What the unstable stores put on the bus: the high byte of the base       *)
(* address plus one is and-ed in, unless a DMA came in between.             *)
Stored(op, r) ==
  CASE op = "STA" -> r.a
    [] op = "STX" -> r.x
    [] op = "STY" -> r.y
    [] op = "SAX" -> And(r.a, r.x)
    [] op \in {"SHA", "TAS"} -> And(r.a, r.x)
    [] op = "SHX" -> r.x
    [] op = "SHY" -> r.y

Unstable == {"SHA", "TAS", "SHX", "SHY"}
=============================================================================
