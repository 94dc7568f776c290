------------------------- MODULE CpuRefinementProofs -------------------------
(***************************************************************************)
(* The processor that takes a tick for each access implements the older    *)
(* one, which takes an instruction at once: proved for every opcode,       *)
(* operand and memory the two are meant to agree on. The stages of an      *)
(* instruction, what each step makes of them, and what the last one leaves.*)
(***************************************************************************)
EXTENDS CpuProofs

-----------------------------------------------------------------------------
(* The older processor's table and helpers are this one's                   *)

LEMMA WholeTable ==
  ASSUME NEW opcode
  PROVE  /\ Whole!Mnemonic(opcode) = Mnemonic(opcode)
         /\ Whole!AddressingType(opcode) = AddressingType(opcode)
         /\ Whole!Cycles(opcode) = Cycles(opcode)
         /\ Whole!Size(opcode) = Size(opcode)
         /\ Whole!Documented(opcode) = Documented(opcode)
<1>1. /\ Whole!Operands_00_3f = Operands_00_3f
      /\ Whole!Operands_40_7f = Operands_40_7f
      /\ Whole!Operands_80_bf = Operands_80_bf
      /\ Whole!Operands_c0_ff = Operands_c0_ff
  BY Zenon DEF Whole!Operands_00_3f, Operands_00_3f, Whole!Operands_40_7f, Operands_40_7f,
     Whole!Operands_80_bf, Operands_80_bf, Whole!Operands_c0_ff, Operands_c0_ff
<1>2. Whole!OPERANDS_6502 = OPERANDS_6502
  BY <1>1, Zenon DEF Whole!OPERANDS_6502, OPERANDS_6502
<1>3. Whole!Operand(opcode) = Operand(opcode)
  BY <1>2, Zenon DEF Whole!Operand, Operand
<1>4. /\ Whole!Mnemonic(opcode) = Mnemonic(opcode)
      /\ Whole!AddressingType(opcode) = AddressingType(opcode)
      /\ Whole!Cycles(opcode) = Cycles(opcode)
  BY <1>3, Zenon DEF Whole!Mnemonic, Mnemonic, Whole!AddressingType, AddressingType, Whole!Cycles, Cycles
<1>5. Whole!Size(opcode) = Size(opcode)
  BY <1>4, Zenon DEF Whole!Size, Size
<1>6. Whole!Documented(opcode) = Documented(opcode)
  BY <1>4, Zenon DEF Whole!Documented, Documented
<1>. QED BY <1>4, <1>5, <1>6

LEMMA WholeAnd ==
  ASSUME NEW x, NEW y
  PROVE  Whole!And(x, y) = And(x, y) /\ Whole!Or(x, y) = Or(x, y) /\ Whole!Bit(x, y) = Bit(x, y)
BY Zenon DEF Whole!And, And, Whole!Or, Or, Whole!Bit, Bit

LEMMA WholeStep ==
  Whole!Instruction <=> (IF cpu2'.finished THEN Visible(cpu2') ELSE before')
                          = Whole!next_instruction(IF cpu2.finished THEN Visible(cpu2) ELSE before)
BY Zenon DEF Whole!Instruction

-----------------------------------------------------------------------------
(* What loads, flags and sums leave, in both processors                     *)

(* What is seen of the processor when a field changes.                      *)
LEMMA SeenOne ==
  ASSUME NEW c, DOMAIN c = Fields, NEW f \in Fields, NEW v
  PROVE  Visible([c EXCEPT ![f] = v])
           = IF f \in Registers THEN [Visible(c) EXCEPT ![f] = v] ELSE Visible(c)
BY DEF Visible, Fields

LEMMA SeenFields ==
  ASSUME NEW c
  PROVE  /\ DOMAIN Visible(c) = Registers
         /\ \A f \in Registers : Visible(c)[f] = c[f]
         /\ Visible(c).a = c.a /\ Visible(c).x = c.x /\ Visible(c).y = c.y /\ Visible(c).s = c.s
         /\ Visible(c).pc = c.pc /\ Visible(c).n = c.n /\ Visible(c).v = c.v /\ Visible(c).d = c.d
         /\ Visible(c).i = c.i /\ Visible(c).z = c.z /\ Visible(c).c = c.c /\ Visible(c).mem = c.mem
BY DEF Visible, Registers

LEMMA Negative ==
  ASSUME NEW v \in Byte
  PROVE  /\ (v >= 128) = (v \div 128 = 1) /\ Bit(v, 128) = v \div 128
         /\ v % 256 = v
BY ByteIs DEF Bit

LEMMA SeenSetNz ==
  ASSUME NEW c, DOMAIN c = Fields, NEW v \in Byte
  PROVE  Visible(SetNz(c, v)) = Whole!set_nz_flags(Visible(c), v)
<1>. DEFINE zero == (v = 0)
            minus == (v >= 128)
<1>1. minus = (v \div 128 = 1)
  BY Negative
<1>2. /\ SetNz(c, v) = [c EXCEPT !.z = zero, !.n = minus]
      /\ Whole!set_nz_flags(Visible(c), v) = [Visible(c) EXCEPT !.z = zero, !.n = (v \div 128 = 1)]
  BY DEF SetNz, Whole!set_nz_flags
<1>. HIDE DEF zero, minus
<1>3. Visible([c EXCEPT !.z = zero, !.n = minus]) = [Visible(c) EXCEPT !.z = zero, !.n = minus]
  BY DEF Visible, Fields, Registers
<1>. QED BY <1>1, <1>2, <1>3, Zenon

LEMMA SeenLoading ==
  ASSUME NEW c, DOMAIN c = Fields, NEW v \in Byte
  PROVE  /\ Visible(SetA(c, v)) = Whole!WithA(Visible(c), v)
         /\ Visible(SetNz([c EXCEPT !.x = v], v)) = Whole!WithX(Visible(c), v)
         /\ Visible(SetNz([c EXCEPT !.y = v], v)) = Whole!WithY(Visible(c), v)
<1>1. /\ DOMAIN [c EXCEPT !.a = v] = Fields /\ DOMAIN [c EXCEPT !.x = v] = Fields
      /\ DOMAIN [c EXCEPT !.y = v] = Fields
  OBVIOUS
<1>2. /\ Visible([c EXCEPT !.a = v]) = [Visible(c) EXCEPT !.a = v]
      /\ Visible([c EXCEPT !.x = v]) = [Visible(c) EXCEPT !.x = v]
      /\ Visible([c EXCEPT !.y = v]) = [Visible(c) EXCEPT !.y = v]
  BY DEF Visible, Fields, Registers
<1>3. /\ Visible(SetNz([c EXCEPT !.a = v], v)) = Whole!set_nz_flags(Visible([c EXCEPT !.a = v]), v)
      /\ Visible(SetNz([c EXCEPT !.x = v], v)) = Whole!set_nz_flags(Visible([c EXCEPT !.x = v]), v)
      /\ Visible(SetNz([c EXCEPT !.y = v], v)) = Whole!set_nz_flags(Visible([c EXCEPT !.y = v]), v)
  BY <1>1, SeenSetNz
<1>. QED BY <1>2, <1>3, Zenon DEF SetA, Whole!WithA, Whole!WithX, Whole!WithY

LEMMA SeenFlag ==
  ASSUME NEW c, DOMAIN c = Fields, NEW v
  PROVE  /\ Visible([c EXCEPT !.c = v]) = [Visible(c) EXCEPT !.c = v]
         /\ Visible([c EXCEPT !.v = v]) = [Visible(c) EXCEPT !.v = v]
         /\ Visible([c EXCEPT !.d = v]) = [Visible(c) EXCEPT !.d = v]
         /\ Visible([c EXCEPT !.i = v]) = [Visible(c) EXCEPT !.i = v]
         /\ Visible([c EXCEPT !.s = v]) = [Visible(c) EXCEPT !.s = v]
         /\ Visible([c EXCEPT !.x = v]) = [Visible(c) EXCEPT !.x = v]
         /\ Visible([c EXCEPT !.a = v]) = [Visible(c) EXCEPT !.a = v]
         /\ Visible([c EXCEPT !.y = v]) = [Visible(c) EXCEPT !.y = v]
         /\ Visible([c EXCEPT !.pc = v]) = [Visible(c) EXCEPT !.pc = v]
         /\ Visible([c EXCEPT !.mem = v]) = [Visible(c) EXCEPT !.mem = v]
BY DEF Visible, Fields, Registers

LEMMA SeenNone ==
  ASSUME NEW c, DOMAIN c = Fields, NEW v
  PROVE  /\ Visible([c EXCEPT !.bus = v]) = Visible(c)
         /\ Visible([c EXCEPT !.low_byte = v]) = Visible(c)
         /\ Visible([c EXCEPT !.pointer = v]) = Visible(c)
         /\ Visible([c EXCEPT !.current_address = v]) = Visible(c)
         /\ Visible([c EXCEPT !.current_value = v]) = Visible(c)
         /\ Visible([c EXCEPT !.finished = v]) = Visible(c)
         /\ Visible([c EXCEPT !.no_increment = v]) = Visible(c)
         /\ Visible([c EXCEPT !.page_crossed = v]) = Visible(c)
         /\ Visible([c EXCEPT !.latched_nmi = v]) = Visible(c)
         /\ Visible([c EXCEPT !.base_high = v]) = Visible(c)
         /\ Visible([c EXCEPT !.hardware_interrupt = v]) = Visible(c)
         /\ Visible([c EXCEPT !.current_opcode = v]) = Visible(c)
         /\ Visible([c EXCEPT !.current_cycle = v]) = Visible(c)
         /\ Visible([c EXCEPT !.instruction_cycles = v]) = Visible(c)
         /\ Visible([c EXCEPT !.dma_on_previous_cycle = v]) = Visible(c)
BY DEF Visible, Fields, Registers, New

LEMMA Overflows ==
  ASSUME NEW a \in Byte, NEW v \in Byte, NEW q \in {0, 1}
  PROVE  /\ a + v + q \in 0 .. 511 /\ (a + v + q) % 256 \in Byte
         /\ ((a % 128) + (v % 128) + q) \div 128 \in {0, 1}
         /\ ((a % 128) + (v % 128) + q >= 128) = (((a % 128) + (v % 128) + q) \div 128 = 1)
<1>1. a \in 0 .. 255 /\ v \in 0 .. 255
  BY ByteIs
<1>2. a + v + q \in 0 .. 511
  BY <1>1
<1>3. (a + v + q) % 256 \in Byte
  BY <1>2, ByteIs
<1>. DEFINE low == (a % 128) + (v % 128) + q
<1>4. low \in 0 .. 255
  <2>1. a % 128 \in 0 .. 127 /\ v % 128 \in 0 .. 127
    BY <1>1
  <2>. DEFINE m == a % 128
              n == v % 128
  <2>. HIDE DEF m, n
  <2>2. m \in 0 .. 127 /\ n \in 0 .. 127
    BY <2>1 DEF m, n
  <2>3. m + n + q \in 0 .. 255
    BY <2>2
  <2>. QED BY <2>3 DEF m, n
<1>. HIDE DEF low
<1>5. low \div 128 \in {0, 1} /\ (low >= 128) = (low \div 128 = 1)
  BY <1>4
<1>. QED BY <1>2, <1>3, <1>5 DEF low

LEMMA Differ ==
  ASSUME NEW p \in BOOLEAN, NEW q \in BOOLEAN, NEW n \in {0, 1}, q = (n = 1)
  PROVE  (p # q) = (Whole!Num(p) # n)
BY DEF Whole!Num

LEMMA SeenAdd ==
  ASSUME NEW c, DOMAIN c = Fields, c.a \in Byte, c.c \in BOOLEAN, NEW v \in Byte
  PROVE  Visible(Add(c, v)) = Whole!add(Visible(c), v)
<1>. DEFINE sum == c.a + v + Flag(c.c)
            carry == (sum >= 256)
            six == Carry6(c, v)
            over == (carry # six)
            byte == sum % 256
            six0 == ((c.a % 128) + (v % 128) + Whole!Num(c.c)) \div 128
<1>0. Flag(c.c) \in {0, 1} /\ Whole!Num(c.c) = Flag(c.c)
  BY DEF Flag, Whole!Num
<1>1. sum \in 0 .. 511 /\ byte \in Byte
  BY <1>0, Overflows
<1>2. carry = (sum > 255) /\ carry \in BOOLEAN
  <2>. HIDE DEF sum
  <2>. QED BY <1>1
<1>3. six0 \in {0, 1} /\ six = (six0 = 1) /\ six \in BOOLEAN
  <2>1. ((c.a % 128) + (v % 128) + Flag(c.c)) \div 128 \in {0, 1}
        /\ ((c.a % 128) + (v % 128) + Flag(c.c) >= 128)
             = (((c.a % 128) + (v % 128) + Flag(c.c)) \div 128 = 1)
    <3>. DEFINE a == c.a
                q == Flag(c.c)
    <3>1. a \in Byte /\ q \in {0, 1}
      BY <1>0
    <3>. HIDE DEF a, q
    <3>2. ((a % 128) + (v % 128) + q) \div 128 \in {0, 1}
        /\ ((a % 128) + (v % 128) + q >= 128) = (((a % 128) + (v % 128) + q) \div 128 = 1)
      BY <3>1, Overflows
    <3>. QED BY <3>2 DEF a, q
  <2>2. ((c.a % 128) + (v % 128) + Flag(c.c) >= 128) \in BOOLEAN
    OBVIOUS
  <2>. QED BY <1>0, <2>1, <2>2, Zenon DEF Carry6
<1>4. over = (Whole!Num(carry) # six0)
  <2>. HIDE DEF carry, six0, six
  <2>. QED BY <1>2, <1>3, Differ
<1>5. Whole!add(Visible(c), v) =
        Whole!set_nz_flags([Visible(c) EXCEPT !.c = carry, !.v = over, !.a = byte], byte)
  <2>1. Visible(c).a = c.a /\ Visible(c).c = c.c
    BY SeenFields
  <2>2. Visible(c).a + v + Whole!Num(Visible(c).c) = sum
    BY <1>0, <2>1
  <2>3. Whole!Wrap(sum) = byte
    BY DEF Whole!Wrap
  <2>4. Whole!add(Visible(c), v) =
          Whole!set_nz_flags([Visible(c) EXCEPT !.c = (sum > 255), !.v = (Whole!Num(sum > 255) # six0),
                                               !.a = Whole!Wrap(sum)], Whole!Wrap(sum))
    BY <2>1, <2>2, ZenonT(60) DEF Whole!add
  <2>. HIDE DEF sum, carry, over, six0, byte
  <2>. QED BY <1>2, <1>4, <2>3, <2>4, Zenon
<1>6. Add(c, v) = [SetA(c, byte) EXCEPT !.c = carry, !.v = over]
  BY DEF Add, Sum
<1>. HIDE DEF sum, carry, over, six0, byte
<1>7. Whole!set_nz_flags([Visible(c) EXCEPT !.c = carry, !.v = over, !.a = byte], byte)
        = [Whole!WithA(Visible(c), byte) EXCEPT !.c = carry, !.v = over]
  BY DEF Visible, Registers, Whole!set_nz_flags, Whole!WithA
<1>8. DOMAIN SetA(c, byte) = Fields
  BY DEF SetA, SetNz
<1>9. Visible([SetA(c, byte) EXCEPT !.c = carry, !.v = over])
        = [Visible(SetA(c, byte)) EXCEPT !.c = carry, !.v = over]
  <2>. DEFINE d == SetA(c, byte)
  <2>. HIDE DEF d
  <2>1. DOMAIN d = Fields => Visible([d EXCEPT !.c = carry, !.v = over]) = [Visible(d) EXCEPT !.c = carry, !.v = over]
    BY DEF Visible, Fields, Registers
  <2>. QED BY <1>8, <2>1 DEF d
<1>10. Visible(SetA(c, byte)) = Whole!WithA(Visible(c), byte)
  BY <1>1, SeenLoading
<1>. QED BY <1>5, <1>6, <1>7, <1>9, <1>10

LEMMA WholeBits ==
  ASSUME NEW x, NEW y
  PROVE  /\ Whole!And(x, y) = And(x, y) /\ Whole!Or(x, y) = Or(x, y) /\ Whole!Bit(x, y) = Bit(x, y)
         /\ Whole!Wrap(x) = x % 256 /\ Whole!Wrap16(x) = x % 65536 /\ Whole!Num(x) = Flag(x)
<1>1. Whole!And(x, y) = And(x, y) /\ Whole!Or(x, y) = Or(x, y) /\ Whole!Bit(x, y) = Bit(x, y)
  BY WholeAnd, Zenon
<1>2. Whole!Wrap(x) = x % 256 /\ Whole!Wrap16(x) = x % 65536
  BY DEF Whole!Wrap, Whole!Wrap16
<1>3. Whole!Num(x) = Flag(x)
  BY Zenon DEF Whole!Num, Flag
<1>. QED BY <1>1, <1>2, <1>3

LEMMA SeenXor ==
  ASSUME NEW x \in Byte, NEW y \in Byte
  PROVE  Whole!Exclusive(x, y) = Xor(x, y) /\ Xor(x, y) \in Byte
<1>1. Whole!Exclusive(x, y) = Or(x, y) - And(x, y)
  BY WholeAnd, Zenon DEF Whole!Exclusive
<1>. DEFINE n == And(x, y)
<1>2. n \in Byte /\ n <= x /\ n <= y /\ x + y - n \in Byte
  BY AndIs
<1>3. Or(x, y) = x + y - n /\ Xor(x, y) = x + y - 2 * n
  BY DEF Or, Xor
<1>. HIDE DEF n
<1>4. n \in Int /\ x \in Int /\ y \in Int /\ n <= x /\ n <= y /\ x + y - n <= 255 /\ 0 <= n
  BY <1>2, ByteIs
<1>5. 2 * n = n + n
  BY <1>4
<1>. DEFINE m == x + y - 2 * n
<1>6. (x + y - n) - n = m /\ m \in Int /\ 0 <= m /\ m <= 255
  BY <1>4, <1>5
<1>7. m \in Byte
  <2>. HIDE DEF m
  <2>. QED BY <1>6, ByteIs
<1>8. Or(x, y) - And(x, y) = (x + y - n) - n
  BY <1>3 DEF n
<1>. QED BY <1>1, <1>3, <1>6, <1>7, <1>8

LEMMA Complement ==
  ASSUME NEW v \in Byte
  PROVE  Whole!Exclusive(v, 255) = 255 - v /\ 255 - v \in Byte
<1>1. And(v, 255) = v
  <2>1. /\ Bit(255, 1) = 1 /\ Bit(255, 2) = 1 /\ Bit(255, 4) = 1 /\ Bit(255, 8) = 1
        /\ Bit(255, 16) = 1 /\ Bit(255, 32) = 1 /\ Bit(255, 64) = 1 /\ Bit(255, 128) = 1
    BY DEF Bit
  <2>2. /\ Bit(v, 1) \in {0, 1} /\ Bit(v, 2) \in {0, 1} /\ Bit(v, 4) \in {0, 1}
        /\ Bit(v, 8) \in {0, 1} /\ Bit(v, 16) \in {0, 1} /\ Bit(v, 32) \in {0, 1}
        /\ Bit(v, 64) \in {0, 1} /\ Bit(v, 128) \in {0, 1}
    BY BitIs, ByteIs DEF Weights
  <2>3. v = Bit(v, 1) + 2 * Bit(v, 2) + 4 * Bit(v, 4) + 8 * Bit(v, 8) + 16 * Bit(v, 16)
               + 32 * Bit(v, 32) + 64 * Bit(v, 64) + 128 * Bit(v, 128)
    BY BitsOf
  <2>. QED BY <2>1, <2>2, <2>3 DEF And
<1>2. 255 \in Byte /\ v \in Int /\ 0 <= v /\ v <= 255
  BY ByteIs
<1>3. Xor(v, 255) = v + 255 - 2 * v
  BY <1>1 DEF Xor
<1>. QED BY <1>2, <1>3, SeenXor, ByteIs

(* Loads, and arithmetic outside decimal mode. *)
LEMMA SeenCompare ==
  ASSUME NEW c, DOMAIN c = Fields, NEW register \in Byte, NEW v \in Byte
  PROVE  Visible(Compare(c, register, v)) = Whole!cmp(Visible(c), register, v)
<1>. DEFINE more == (register >= v)
            tmp == (register - v) % 256
            zero == (tmp = 0)
            minus == (tmp >= 128)
<1>1. Compare(c, register, v) = [[c EXCEPT !.c = more] EXCEPT !.z = zero, !.n = minus]
  BY DEF Compare, SetNz
<1>2. Whole!cmp(Visible(c), register, v) = [Visible(c) EXCEPT !.c = more, !.z = zero, !.n = minus]
  BY DEF Whole!cmp, Whole!Wrap
<1>. HIDE DEF more, zero, minus
<1>3. Visible([[c EXCEPT !.c = more] EXCEPT !.z = zero, !.n = minus])
        = [Visible(c) EXCEPT !.c = more, !.z = zero, !.n = minus]
  BY DEF Visible, Fields, Registers
<1>. QED BY <1>1, <1>2, <1>3, Zenon

LEMMA SeenTest ==
  ASSUME NEW c, DOMAIN c = Fields, NEW v \in Byte
  PROVE  Visible(TestBits(c, v)) = Whole!Arithmetic("BIT", Visible(c), v)
<1>. DEFINE zero == (And(v, c.a) = 0)
            minus == (v >= 128)
            over == (Bit(v, 64) = 1)
            minus0 == (Bit(v, 128) = 1)
<1>1. TestBits(c, v) = [c EXCEPT !.z = zero, !.n = minus, !.v = over]
  BY DEF TestBits
<1>2. Whole!And(v, Visible(c).a) = And(v, c.a) /\ Whole!Bit(v, 64) = Bit(v, 64)
      /\ Whole!Bit(v, 128) = Bit(v, 128)
  BY SeenFields, WholeBits
<1>3. Whole!Arithmetic("BIT", Visible(c), v)
        = [Visible(c) EXCEPT !.z = (Whole!And(v, Visible(c).a) = 0),
                             !.n = (Whole!Bit(v, 128) = 1), !.v = (Whole!Bit(v, 64) = 1)]
  BY DEF Whole!Arithmetic
<1>4. Whole!Arithmetic("BIT", Visible(c), v)
        = [Visible(c) EXCEPT !.z = zero, !.n = minus0, !.v = over]
  BY <1>2, <1>3, Zenon
<1>5. minus = minus0
  BY Negative
<1>. HIDE DEF zero, minus, minus0, over
<1>6. Visible([c EXCEPT !.z = zero, !.n = minus, !.v = over])
        = [Visible(c) EXCEPT !.z = zero, !.n = minus, !.v = over]
  BY DEF Visible, Fields, Registers
<1>. QED BY <1>1, <1>4, <1>5, <1>6, Zenon

LEMMA SeenSbc ==
  ASSUME NEW c, DOMAIN c = Fields, c.a \in Byte, c.c \in BOOLEAN, ~c.d, NEW v \in Byte
  PROVE  /\ Visible(Sbc(c, v)) = Whole!sbc(Visible(c), v)
         /\ Visible(Add(c, v)) = Whole!adc(Visible(c), v)
<1>. DEFINE w == 255 - v
<1>1. Visible(c).d = c.d
  BY SeenFields
<1>2. w \in Byte /\ Whole!Exclusive(v, 255) = w
  BY Complement
<1>3. Sbc(c, v) = Add(c, w)
  BY DEF Sbc
<1>. HIDE DEF w
<1>4. Visible(Add(c, w)) = Whole!add(Visible(c), w) /\ Visible(Add(c, v)) = Whole!add(Visible(c), v)
  BY <1>2, SeenAdd
<1>5. Whole!sbc(Visible(c), v) = Whole!add(Visible(c), w)
  BY <1>1, <1>2, Zenon DEF Whole!sbc
<1>6. Whole!adc(Visible(c), v) = Whole!add(Visible(c), v)
  BY <1>1, Zenon DEF Whole!adc
<1>. QED BY <1>3, <1>4, <1>5, <1>6

LEMMA SeenLax ==
  ASSUME NEW c, DOMAIN c = Fields, NEW v \in Byte
  PROVE  Visible(LoadAx(c, v)) = Whole!WithX(Whole!WithA(Visible(c), v), v)
<1>. DEFINE zero == (v = 0)
            minus == (v >= 128)
<1>1. minus = (v \div 128 = 1)
  BY Negative
<1>2. /\ LoadAx(c, v) = [[[c EXCEPT !.x = v] EXCEPT !.a = v] EXCEPT !.z = zero, !.n = minus]
      /\ Whole!WithX(Whole!WithA(Visible(c), v), v)
           = [[[[Visible(c) EXCEPT !.a = v] EXCEPT !.z = zero, !.n = (v \div 128 = 1)]
               EXCEPT !.x = v] EXCEPT !.z = zero, !.n = (v \div 128 = 1)]
  BY DEF LoadAx, SetA, SetNz, Whole!WithA, Whole!WithX, Whole!set_nz_flags
<1>. HIDE DEF zero, minus
<1>3. Whole!WithX(Whole!WithA(Visible(c), v), v)
           = [[[[Visible(c) EXCEPT !.a = v] EXCEPT !.z = zero, !.n = minus]
               EXCEPT !.x = v] EXCEPT !.z = zero, !.n = minus]
  BY <1>1, <1>2, Zenon
<1>4. Visible([[[c EXCEPT !.x = v] EXCEPT !.a = v] EXCEPT !.z = zero, !.n = minus])
        = [[[[Visible(c) EXCEPT !.a = v] EXCEPT !.z = zero, !.n = minus]
               EXCEPT !.x = v] EXCEPT !.z = zero, !.n = minus]
  BY DEF Visible, Fields, Registers
<1>. QED BY <1>2, <1>3, <1>4, Zenon

LEMMA SeenLas ==
  ASSUME NEW c, DOMAIN c = Fields, c.s \in Byte, NEW v \in Byte
  PROVE  Visible(Load("LAS", c, v)) = Whole!UndocumentedRead("LAS", Visible(c), v)
<1>. DEFINE m == And(v, c.s)
            d == [c EXCEPT !.s = m]
<1>1. m \in Byte /\ And(c.s, v) = m
  BY AndIs
<1>2. Whole!And(Visible(c).s, v) = m
  BY <1>1, SeenFields, WholeBits
<1>3. Load("LAS", c, v) = LoadAx(d, m)
  BY DEF Load
<1>4. Whole!UndocumentedRead("LAS", Visible(c), v)
        = Whole!WithX(Whole!WithA([Visible(c) EXCEPT !.s = Whole!And(Visible(c).s, v)],
                                  Whole!And(Visible(c).s, v)), Whole!And(Visible(c).s, v))
  BY DEF Whole!UndocumentedRead
<1>5. Whole!UndocumentedRead("LAS", Visible(c), v)
        = Whole!WithX(Whole!WithA([Visible(c) EXCEPT !.s = m], m), m)
  BY <1>2, <1>4, Zenon
<1>. HIDE DEF m
<1>6. DOMAIN d = Fields /\ Visible(d) = [Visible(c) EXCEPT !.s = m]
  BY SeenFlag
<1>. HIDE DEF d
<1>7. Visible(LoadAx(d, m)) = Whole!WithX(Whole!WithA(Visible(d), m), m)
  BY <1>1, <1>6, SeenLax
<1>. QED BY <1>3, <1>5, <1>6, <1>7

LEMMA SeenAnc ==
  ASSUME NEW c, DOMAIN c = Fields, c.a \in Byte, NEW v \in Byte
  PROVE  Visible(Load("ANC", c, v)) = Whole!UndocumentedRead("ANC", Visible(c), v)
<1>. DEFINE m == And(c.a, v)
            carry == (m >= 128)
            d == SetA(c, m)
<1>1. m \in Byte
  BY AndIs
<1>2. Whole!And(Visible(c).a, v) = m
  BY SeenFields, WholeBits
<1>3. Load("ANC", c, v) = [d EXCEPT !.c = carry]
  BY DEF Load
<1>4. Whole!UndocumentedRead("ANC", Visible(c), v)
        = [Whole!WithA(Visible(c), Whole!And(Visible(c).a, v))
             EXCEPT !.c = (Whole!And(Visible(c).a, v) >= 128)]
  BY DEF Whole!UndocumentedRead
<1>5. Whole!UndocumentedRead("ANC", Visible(c), v) = [Whole!WithA(Visible(c), m) EXCEPT !.c = carry]
  BY <1>2, <1>4, Zenon
<1>. HIDE DEF m, carry
<1>6. Visible(d) = Whole!WithA(Visible(c), m) /\ DOMAIN d = Fields
  <2>1. DOMAIN d = Fields
    BY DEF SetA, SetNz
  <2>. QED BY <1>1, <2>1, SeenLoading
<1>. HIDE DEF d
<1>7. Visible([d EXCEPT !.c = carry]) = [Visible(d) EXCEPT !.c = carry]
  BY <1>6, SeenFlag
<1>. QED BY <1>3, <1>5, <1>6, <1>7, Zenon

LEMMA SeenAlr ==
  ASSUME NEW c, DOMAIN c = Fields, c.a \in Byte, NEW v \in Byte
  PROVE  Visible(Load("ALR", c, v)) = Whole!UndocumentedRead("ALR", Visible(c), v)
<1>. DEFINE m == And(c.a, v)
            carry == (m % 2 = 1)
            half == m \div 2
            zero == (half = 0)
            minus == (half >= 128)
            minus0 == (half \div 128 = 1)
<1>1. m \in Byte
  BY AndIs
<1>2. Whole!And(Visible(c).a, v) = m
  BY SeenFields, WholeBits
<1>3. Load("ALR", c, v) = [[[c EXCEPT !.a = half] EXCEPT !.z = zero, !.n = minus] EXCEPT !.c = carry]
  BY DEF Load, SetA, SetNz, Lsr
<1>4. Whole!UndocumentedRead("ALR", Visible(c), v)
        = Whole!WithA(Whole!lsr(Visible(c), Whole!And(Visible(c).a, v)), Whole!And(Visible(c).a, v) \div 2)
  BY DEF Whole!UndocumentedRead
<1>5. Whole!UndocumentedRead("ALR", Visible(c), v) = Whole!WithA(Whole!lsr(Visible(c), m), half)
  BY <1>2, <1>4, Zenon
<1>6. Whole!WithA(Whole!lsr(Visible(c), m), half)
        = [[[[Visible(c) EXCEPT !.c = carry] EXCEPT !.z = zero, !.n = minus0] EXCEPT !.a = half]
             EXCEPT !.z = zero, !.n = minus0]
  BY DEF Whole!WithA, Whole!lsr, Whole!set_nz_flags
<1>7. half \in Byte
  <2>. HIDE DEF m
  <2>. QED BY <1>1, ByteIs
<1>8. minus = minus0
  <2>. HIDE DEF half
  <2>. QED BY <1>7, Negative
<1>. HIDE DEF carry, half, zero, minus, minus0
<1>9. Visible([[[c EXCEPT !.a = half] EXCEPT !.z = zero, !.n = minus] EXCEPT !.c = carry])
        = [[[[Visible(c) EXCEPT !.c = carry] EXCEPT !.z = zero, !.n = minus] EXCEPT !.a = half]
             EXCEPT !.z = zero, !.n = minus]
  BY DEF Visible, Fields, Registers
<1>. QED BY <1>3, <1>5, <1>6, <1>8, <1>9, Zenon

-----------------------------------------------------------------------------
(* What a value read comes to, in both                                      *)

WholeLoad(op, r, v) ==
  CASE op \in {"ADC", "AND", "BIT", "CMP", "CPX", "CPY", "EOR"} -> Whole!Arithmetic(op, r, v)
    [] op \in {"LDA", "LDX", "LDY", "ORA", "SBC"} -> Whole!LoadsAndLogic(op, r, v)
    [] op \in {"LAX", "LAS", "ALR", "ANC"} -> Whole!UndocumentedRead(op, r, v)
    [] op = "NOP" -> r

LEMMA SeenArithmetic ==
  ASSUME NEW c, Typed(c), NEW v \in Byte,
         NEW op \in {"ADC", "AND", "BIT", "CMP", "CPX", "CPY", "EOR"}, op = "ADC" => ~c.d
  PROVE  Visible(Load(op, c, v)) = Whole!Arithmetic(op, Visible(c), v)
<1>1. DOMAIN c = Fields /\ c.a \in Byte /\ c.x \in Byte /\ c.y \in Byte /\ c.c \in BOOLEAN
  BY Types DEF Typed
<1>2. /\ Visible(c).a = c.a /\ Visible(c).x = c.x /\ Visible(c).y = c.y
  BY SeenFields
<1>3. CASE op = "ADC"
  <2>1. Visible(Add(c, v)) = Whole!adc(Visible(c), v)
    BY <1>1, <1>3, SeenSbc
  <2>. QED BY <1>3, <2>1, Zenon DEF Load, Whole!Arithmetic
<1>4. CASE op = "AND"
  <2>. DEFINE m == And(c.a, v)
  <2>1. m \in Byte /\ Whole!And(Visible(c).a, v) = m
    BY <1>1, <1>2, AndIs, WholeBits
  <2>2. Load(op, c, v) = SetA(c, m)
    BY <1>4, Zenon DEF Load
  <2>3. Whole!Arithmetic(op, Visible(c), v) = Whole!WithA(Visible(c), m)
    BY <1>4, <2>1, Zenon DEF Whole!Arithmetic
  <2>. HIDE DEF m
  <2>. QED BY <1>1, <2>1, <2>2, <2>3, SeenLoading
<1>5. CASE op = "BIT"
  BY <1>1, <1>5, SeenTest DEF Load
<1>6. CASE op = "CMP"
  <2>1. Visible(Compare(c, c.a, v)) = Whole!cmp(Visible(c), c.a, v)
    BY <1>1, SeenCompare
  <2>. QED BY <1>2, <1>6, <2>1, Zenon DEF Load, Whole!Arithmetic
<1>7. CASE op = "CPX"
  <2>1. Visible(Compare(c, c.x, v)) = Whole!cmp(Visible(c), c.x, v)
    BY <1>1, SeenCompare
  <2>. QED BY <1>2, <1>7, <2>1, Zenon DEF Load, Whole!Arithmetic
<1>8. CASE op = "CPY"
  <2>1. Visible(Compare(c, c.y, v)) = Whole!cmp(Visible(c), c.y, v)
    BY <1>1, SeenCompare
  <2>. QED BY <1>2, <1>8, <2>1, Zenon DEF Load, Whole!Arithmetic
<1>9. CASE op = "EOR"
  <2>. DEFINE m == Xor(c.a, v)
  <2>1. m \in Byte /\ Whole!Exclusive(Visible(c).a, v) = m
    BY <1>1, <1>2, SeenXor
  <2>2. Load(op, c, v) = SetA(c, m)
    BY <1>9, Zenon DEF Load
  <2>3. Whole!Arithmetic(op, Visible(c), v) = Whole!WithA(Visible(c), m)
    BY <1>9, <2>1, Zenon DEF Whole!Arithmetic
  <2>. HIDE DEF m
  <2>. QED BY <1>1, <2>1, <2>2, <2>3, SeenLoading
<1>. QED BY <1>3, <1>4, <1>5, <1>6, <1>7, <1>8, <1>9, Zenon

LEMMA SeenLogic ==
  ASSUME NEW c, Typed(c), NEW v \in Byte, NEW op \in {"LDA", "LDX", "LDY", "ORA", "SBC"},
         op = "SBC" => ~c.d
  PROVE  Visible(Load(op, c, v)) = Whole!LoadsAndLogic(op, Visible(c), v)
<1>1. DOMAIN c = Fields /\ c.a \in Byte /\ c.c \in BOOLEAN
  BY Types DEF Typed
<1>2. /\ Visible(SetA(c, v)) = Whole!WithA(Visible(c), v)
      /\ Visible(SetNz([c EXCEPT !.x = v], v)) = Whole!WithX(Visible(c), v)
      /\ Visible(SetNz([c EXCEPT !.y = v], v)) = Whole!WithY(Visible(c), v)
  BY <1>1, SeenLoading
<1>3. CASE op = "LDA"
  BY <1>2, <1>3, Zenon DEF Load, Whole!LoadsAndLogic
<1>4. CASE op = "LDX"
  BY <1>2, <1>4, Zenon DEF Load, Whole!LoadsAndLogic
<1>5. CASE op = "LDY"
  BY <1>2, <1>5, Zenon DEF Load, Whole!LoadsAndLogic
<1>6. CASE op = "ORA"
  <2>. DEFINE m == Or(c.a, v)
  <2>1. m \in Byte
    BY <1>1, AndIs DEF Or
  <2>2. Whole!Or(Visible(c).a, v) = m
    BY WholeBits, SeenFields
  <2>3. Load(op, c, v) = SetA(c, m)
    BY <1>6, Zenon DEF Load
  <2>4. Whole!LoadsAndLogic(op, Visible(c), v) = Whole!WithA(Visible(c), m)
    BY <1>6, <2>2, Zenon DEF Whole!LoadsAndLogic
  <2>. HIDE DEF m
  <2>. QED BY <1>1, <2>1, <2>3, <2>4, SeenLoading
<1>7. CASE op = "SBC"
  <2>1. Visible(Sbc(c, v)) = Whole!sbc(Visible(c), v)
    BY <1>1, <1>7, SeenSbc
  <2>. QED BY <1>7, <2>1, Zenon DEF Load, Whole!LoadsAndLogic
<1>. QED BY <1>3, <1>4, <1>5, <1>6, <1>7, Zenon

LEMMA SeenLoad ==
  ASSUME NEW c, Typed(c), NEW v \in Byte, NEW op \in Loads \ Disputed, op \in Decimal => ~c.d
  PROVE  Visible(Load(op, c, v)) = WholeLoad(op, Visible(c), v)
<1>1. DOMAIN c = Fields /\ c.a \in Byte /\ c.s \in Byte
  BY Types DEF Typed
<1>2. op \in {"ADC", "AND", "BIT", "CMP", "CPX", "CPY", "EOR", "LDA", "LDX", "LDY", "ORA", "SBC",
              "LAX", "LAS", "ALR", "ANC", "NOP"}
  BY Zenon DEF Loads, Disputed
<1>3. CASE op \in {"ADC", "AND", "BIT", "CMP", "CPX", "CPY", "EOR"}
  <2>1. WholeLoad(op, Visible(c), v) = Whole!Arithmetic(op, Visible(c), v)
    BY <1>3, Zenon DEF WholeLoad
  <2>2. op = "ADC" => ~c.d
    BY Zenon DEF Decimal
  <2>. QED BY <1>3, <2>1, <2>2, SeenArithmetic
<1>4. CASE op \in {"LDA", "LDX", "LDY", "ORA", "SBC"}
  <2>1. WholeLoad(op, Visible(c), v) = Whole!LoadsAndLogic(op, Visible(c), v)
    BY <1>4, Zenon DEF WholeLoad
  <2>2. op = "SBC" => ~c.d
    BY Zenon DEF Decimal
  <2>. QED BY <1>4, <2>1, <2>2, SeenLogic
<1>5. CASE op \in {"LAX", "LAS", "ALR", "ANC"}
  <2>1. WholeLoad(op, Visible(c), v) = Whole!UndocumentedRead(op, Visible(c), v)
    BY <1>5, Zenon DEF WholeLoad
  <2>2. Visible(LoadAx(c, v)) = Whole!WithX(Whole!WithA(Visible(c), v), v)
    BY <1>1, SeenLax
  <2>3. /\ Visible(Load("LAS", c, v)) = Whole!UndocumentedRead("LAS", Visible(c), v)
        /\ Visible(Load("ANC", c, v)) = Whole!UndocumentedRead("ANC", Visible(c), v)
        /\ Visible(Load("ALR", c, v)) = Whole!UndocumentedRead("ALR", Visible(c), v)
    BY <1>1, SeenLas, SeenAnc, SeenAlr
  <2>4. Visible(Load("LAX", c, v)) = Whole!UndocumentedRead("LAX", Visible(c), v)
    BY <2>2, Zenon DEF Load, Whole!UndocumentedRead
  <2>. QED BY <1>5, <2>1, <2>3, <2>4, Zenon
<1>6. CASE op = "NOP"
  BY <1>6, Zenon DEF WholeLoad, Load
<1>. QED BY <1>2, <1>3, <1>4, <1>5, <1>6, Zenon

-----------------------------------------------------------------------------
(* Shifts, stores and modified values, in both                              *)

(* Modifying, with the memory written in between. *)
LEMMA WholeMemory ==
  ASSUME NEW r, NEW address, NEW v
  PROVE  /\ Whole!Set(r, address, v) = [r EXCEPT !.mem = Written(r.mem, address, v)]
         /\ Whole!Get(r, address) = At(r, address)
<1>1. Whole!Set(r, address, v) = [r EXCEPT !.mem = Written(r.mem, address, v)]
  BY DEF Whole!Set, Written
<1>2. Whole!Get(r, address) = At(r, address)
  BY Zenon DEF Whole!Get, At
<1>. QED BY <1>1, <1>2

LEMMA WrittenTwice ==
  ASSUME NEW memory, NEW address, NEW v, NEW w
  PROVE  Written(Written(memory, address, v), address, w) = Written(memory, address, w)
<1>. DEFINE once == Written(memory, address, v)
<1>1. DOMAIN once = DOMAIN memory \union {address}
  BY DEF Written
<1>2. \A place \in DOMAIN memory \union {address} :
        place # address => once[place] = memory[place]
  BY DEF Written
<1>3. DOMAIN once \union {address} = DOMAIN memory \union {address}
  BY <1>1
<1>. HIDE DEF once
<1>4. Written(once, address, w) = Written(memory, address, w)
  BY <1>2, <1>3 DEF Written
<1>. QED BY <1>4 DEF once

LEMMA SeenShifted ==
  ASSUME NEW c, DOMAIN c = Fields, NEW v, NEW op, NEW r, DOMAIN r = Registers, NEW m,
         Visible(c) = [r EXCEPT !.mem = m]
  PROVE  LET d == ShiftedOut(op, c, v)
             q == ShiftedOut(op, r, v)
         IN /\ DOMAIN d = Fields /\ DOMAIN q = Registers /\ q.mem = r.mem
            /\ Visible(d) = [q EXCEPT !.mem = m]
            /\ d.a = r.a /\ d.d = r.d
<1>. DEFINE d == ShiftedOut(op, c, v)
            q == ShiftedOut(op, r, v)
            left == (v >= 128)
            right == (v % 2 = 1)
<1>0. c.a = r.a /\ c.d = r.d /\ {"a", "d", "c", "mem"} \subseteq Registers
      /\ {"a", "d", "c"} \subseteq Fields
  <2>1. Visible(c).a = c.a /\ Visible(c).d = c.d
    BY SeenFields
  <2>2. [r EXCEPT !.mem = m].a = r.a /\ [r EXCEPT !.mem = m].d = r.d
    BY DEF Registers
  <2>3. {"a", "d", "c", "mem"} \subseteq Registers /\ {"a", "d", "c"} \subseteq Fields
    BY DEF Registers, Fields
  <2>. QED BY <2>1, <2>2, <2>3
<1>1. Leftward \cap Rightward = {}
  BY DEF Leftward, Rightward
<1>2. \A carry : /\ Visible([c EXCEPT !.c = carry]) = [[r EXCEPT !.c = carry] EXCEPT !.mem = m]
                 /\ [c EXCEPT !.c = carry].a = r.a /\ [c EXCEPT !.c = carry].d = r.d
                 /\ [r EXCEPT !.c = carry].mem = r.mem
                 /\ DOMAIN [c EXCEPT !.c = carry] = Fields
                 /\ DOMAIN [r EXCEPT !.c = carry] = Registers
  <2>. TAKE carry
  <2>1. Visible([c EXCEPT !.c = carry]) = [Visible(c) EXCEPT !.c = carry]
    BY SeenFlag
  <2>2. [[r EXCEPT !.mem = m] EXCEPT !.c = carry] = [[r EXCEPT !.c = carry] EXCEPT !.mem = m]
    BY <1>0
  <2>3. [r EXCEPT !.c = carry].mem = r.mem
    BY <1>0
  <2>4. [c EXCEPT !.c = carry].a = r.a /\ [c EXCEPT !.c = carry].d = r.d
    BY <1>0
  <2>. QED BY <2>1, <2>2, <2>3, <2>4
<1>3. CASE op \in Leftward
  <2>1. d = [c EXCEPT !.c = left] /\ q = [r EXCEPT !.c = left]
    BY <1>1, <1>3, Zenon DEF ShiftedOut
  <2>. HIDE DEF left, d, q
  <2>2. /\ DOMAIN d = Fields /\ DOMAIN q = Registers /\ q.mem = r.mem
        /\ Visible(d) = [q EXCEPT !.mem = m] /\ d.a = r.a /\ d.d = r.d
    BY <1>2, <2>1, Zenon
  <2>. QED BY <2>2 DEF d, q
<1>4. CASE op \in Rightward
  <2>1. d = [c EXCEPT !.c = right] /\ q = [r EXCEPT !.c = right]
    BY <1>1, <1>4, Zenon DEF ShiftedOut
  <2>. HIDE DEF right, d, q
  <2>2. /\ DOMAIN d = Fields /\ DOMAIN q = Registers /\ q.mem = r.mem
        /\ Visible(d) = [q EXCEPT !.mem = m] /\ d.a = r.a /\ d.d = r.d
    BY <1>2, <2>1, Zenon
  <2>. QED BY <2>2 DEF d, q
<1>5. CASE op \notin Leftward \union Rightward
  <2>1. d = c /\ q = r
    BY <1>5, Zenon DEF ShiftedOut
  <2>. QED BY <1>0, <2>1, Zenon
<1>. QED BY <1>3, <1>4, <1>5, Zenon

LEMMA ShiftsAre ==
  ASSUME NEW op \in Official, NEW r, NEW v \in Byte
  PROVE  /\ Whole!Shift8(op, r, v).value = Modified(op, r, v)
         /\ Whole!Shift8(op, r, v).r = Whole!set_nz_flags(ShiftedOut(op, r, v), Modified(op, r, v))
<1>0. Whole!Wrap(v * 2) = Asl(v) /\ Whole!Num(r.c) = Flag(r.c)
      /\ Whole!Wrap(v + 1) = (v + 1) % 256 /\ Whole!Wrap(v - 1) = (v - 1) % 256
  <2>1. v * 2 = 2 * v
    BY ByteIs
  <2>2. Whole!Wrap(v * 2) = Asl(v)
    BY <2>1, Zenon DEF Asl, Whole!Wrap
  <2>3. Whole!Num(r.c) = Flag(r.c)
    BY WholeBits
  <2>4. Whole!Wrap(v + 1) = (v + 1) % 256 /\ Whole!Wrap(v - 1) = (v - 1) % 256
    BY Zenon DEF Whole!Wrap
  <2>. QED BY <2>2, <2>3, <2>4
<1>1. CASE op = "ASL"
  <2>1. Modified(op, r, v) = Asl(v)
    BY <1>1, Zenon DEF Modified
  <2>2. Whole!Shift8(op, r, v) = [r |-> Whole!asl(r, v), value |-> Asl(v)]
    BY <1>0, <1>1, Zenon DEF Whole!Shift8
  <2>4. Whole!Shift8(op, r, v).r = Whole!asl(r, v) /\ Whole!Shift8(op, r, v).value = Asl(v)
    BY <2>2
  <2>3. ShiftedOut(op, r, v) = [r EXCEPT !.c = (v >= 128)]
    BY <1>1, Zenon DEF ShiftedOut, Leftward, Rightward
  <2>. QED BY <1>0, <2>1, <2>3, <2>4, Zenon DEF Whole!asl
<1>2. CASE op = "LSR"
  <2>1. Modified(op, r, v) = v \div 2
    BY <1>2, Zenon DEF Modified, Lsr
  <2>2. Whole!Shift8(op, r, v) = [r |-> Whole!lsr(r, v), value |-> v \div 2]
    BY <1>2, Zenon DEF Whole!Shift8
  <2>4. Whole!Shift8(op, r, v).r = Whole!lsr(r, v) /\ Whole!Shift8(op, r, v).value = v \div 2
    BY <2>2
  <2>3. ShiftedOut(op, r, v) = [r EXCEPT !.c = (v % 2 = 1)]
    BY <1>2, Zenon DEF ShiftedOut, Leftward, Rightward
  <2>. QED BY <2>1, <2>3, <2>4, Zenon DEF Whole!lsr
<1>3. CASE op = "ROL"
  <2>1. Modified(op, r, v) = Asl(v) + Flag(r.c)
    BY <1>3, Zenon DEF Modified, Rol
  <2>2. Whole!Shift8(op, r, v) = [r |-> Whole!rol(r, v), value |-> Asl(v) + Flag(r.c)]
    BY <1>0, <1>3, Zenon DEF Whole!Shift8
  <2>4. Whole!Shift8(op, r, v).r = Whole!rol(r, v) /\ Whole!Shift8(op, r, v).value = Asl(v) + Flag(r.c)
    BY <2>2
  <2>3. ShiftedOut(op, r, v) = [r EXCEPT !.c = (v >= 128)]
    BY <1>3, Zenon DEF ShiftedOut, Leftward, Rightward
  <2>. QED BY <1>0, <2>1, <2>3, <2>4, Zenon DEF Whole!rol
<1>4. CASE op = "ROR"
  <2>1. Modified(op, r, v) = v \div 2 + 128 * Flag(r.c)
    BY <1>4, Zenon DEF Modified, Ror, Lsr
  <2>2. Whole!Shift8(op, r, v) = [r |-> Whole!ror(r, v), value |-> v \div 2 + 128 * Flag(r.c)]
    BY <1>0, <1>4, Zenon DEF Whole!Shift8
  <2>4. Whole!Shift8(op, r, v).r = Whole!ror(r, v) /\ Whole!Shift8(op, r, v).value = v \div 2 + 128 * Flag(r.c)
    BY <2>2
  <2>3. ShiftedOut(op, r, v) = [r EXCEPT !.c = (v % 2 = 1)]
    BY <1>4, Zenon DEF ShiftedOut, Leftward, Rightward
  <2>. QED BY <1>0, <2>1, <2>3, <2>4, Zenon DEF Whole!ror
<1>5. CASE op = "INC"
  <2>1. Modified(op, r, v) = (v + 1) % 256
    BY <1>5, Zenon DEF Modified
  <2>2. Whole!Shift8(op, r, v) = [r |-> Whole!set_nz_flags(r, (v + 1) % 256), value |-> (v + 1) % 256]
    BY <1>0, <1>5, Zenon DEF Whole!Shift8
  <2>4. Whole!Shift8(op, r, v).r = Whole!set_nz_flags(r, (v + 1) % 256) /\ Whole!Shift8(op, r, v).value = (v + 1) % 256
    BY <2>2
  <2>3. ShiftedOut(op, r, v) = r
    BY <1>5, Zenon DEF ShiftedOut, Leftward, Rightward
  <2>. QED BY <2>1, <2>3, <2>4, Zenon
<1>6. CASE op = "DEC"
  <2>1. Modified(op, r, v) = (v - 1) % 256
    BY <1>6, Zenon DEF Modified
  <2>2. Whole!Shift8(op, r, v) = [r |-> Whole!set_nz_flags(r, (v - 1) % 256), value |-> (v - 1) % 256]
    BY <1>0, <1>6, Zenon DEF Whole!Shift8
  <2>4. Whole!Shift8(op, r, v).r = Whole!set_nz_flags(r, (v - 1) % 256) /\ Whole!Shift8(op, r, v).value = (v - 1) % 256
    BY <2>2
  <2>3. ShiftedOut(op, r, v) = r
    BY <1>6, Zenon DEF ShiftedOut, Leftward, Rightward
  <2>. QED BY <2>1, <2>3, <2>4, Zenon
<1>. QED BY <1>1, <1>2, <1>3, <1>4, <1>5, <1>6, Zenon DEF Official

LEMMA FlagsThenMemory ==
  ASSUME NEW q, DOMAIN q = Registers, NEW to, NEW stored
  PROVE  Whole!Set(Whole!set_nz_flags(q, stored), to, stored)
           = Whole!set_nz_flags([q EXCEPT !.mem = Written(q.mem, to, stored)], stored)
<1>. DEFINE f == Whole!set_nz_flags(q, stored)
            zero == (stored = 0)
            minus == (stored \div 128 = 1)
            m == Written(q.mem, to, stored)
<1>1. f = [q EXCEPT !.z = zero, !.n = minus]
  BY DEF Whole!set_nz_flags
<1>2. f.mem = q.mem
  <2>. HIDE DEF f, zero, minus
  <2>. QED BY <1>1 DEF Registers
<1>3. Whole!Set(f, to, stored) = [f EXCEPT !.mem = Written(f.mem, to, stored)]
  BY WholeMemory
<1>4. Whole!Set(f, to, stored) = [[q EXCEPT !.z = zero, !.n = minus] EXCEPT !.mem = m]
  <2>. HIDE DEF f
  <2>. QED BY <1>1, <1>2, <1>3, Zenon
<1>5. Whole!set_nz_flags([q EXCEPT !.mem = m], stored)
        = [[q EXCEPT !.mem = m] EXCEPT !.z = zero, !.n = minus]
  BY DEF Whole!set_nz_flags
<1>. HIDE DEF f, zero, minus, m
<1>6. [[q EXCEPT !.z = zero, !.n = minus] EXCEPT !.mem = m]
        = [[q EXCEPT !.mem = m] EXCEPT !.z = zero, !.n = minus]
  BY DEF Registers
<1>7. Whole!Set(f, to, stored) = Whole!set_nz_flags([q EXCEPT !.mem = m], stored)
  BY <1>4, <1>5, <1>6, Zenon
<1>. QED BY <1>7 DEF f, m

LEMMA FlagsTwice ==
  ASSUME NEW p, DOMAIN p = Registers, NEW s, NEW v
  PROVE  /\ Whole!WithA(Whole!set_nz_flags(p, s), v) = Whole!WithA(p, v)
         /\ Whole!add(Whole!set_nz_flags(p, s), v) = Whole!add(p, v)
         /\ Whole!set_nz_flags(p, s).d = p.d
<1>. DEFINE f == Whole!set_nz_flags(p, s)
            zero == (s = 0)
            minus == (s \div 128 = 1)
            zero1 == (v = 0)
            minus1 == (v \div 128 = 1)
<1>1. f = [p EXCEPT !.z = zero, !.n = minus]
  BY DEF Whole!set_nz_flags
<1>2. f.a = p.a /\ f.c = p.c /\ f.d = p.d
  <2>. HIDE DEF f, zero, minus
  <2>. QED BY <1>1 DEF Registers
<1>3. /\ Whole!WithA(f, v) = [[f EXCEPT !.a = v] EXCEPT !.z = zero1, !.n = minus1]
      /\ Whole!WithA(p, v) = [[p EXCEPT !.a = v] EXCEPT !.z = zero1, !.n = minus1]
  BY DEF Whole!WithA, Whole!set_nz_flags
<1>4. Whole!WithA(f, v) = Whole!WithA(p, v)
  <2>. HIDE DEF f, zero, minus, zero1, minus1
  <2>. QED BY <1>1, <1>3 DEF Registers
<1>. DEFINE result == p.a + v + Whole!Num(p.c)
            carry == (result > 255)
            over == (Whole!Num(result > 255)
                       # ((p.a % 128) + (v % 128) + Whole!Num(p.c)) \div 128)
            sum == Whole!Wrap(result)
            zero2 == (sum = 0)
            minus2 == (sum \div 128 = 1)
<1>5. Whole!add(p, v) = [[p EXCEPT !.c = carry, !.v = over, !.a = sum] EXCEPT !.z = zero2, !.n = minus2]
  BY DEF Whole!add, Whole!set_nz_flags
<1>6. Whole!add(f, v) = [[f EXCEPT !.c = carry, !.v = over, !.a = sum] EXCEPT !.z = zero2, !.n = minus2]
  <2>. DEFINE resultf == f.a + v + Whole!Num(f.c)
              carryf == (resultf > 255)
              overf == (Whole!Num(resultf > 255)
                          # ((f.a % 128) + (v % 128) + Whole!Num(f.c)) \div 128)
              sumf == Whole!Wrap(resultf)
  <2>1. Whole!add(f, v) = [[f EXCEPT !.c = carryf, !.v = overf, !.a = sumf]
                             EXCEPT !.z = (sumf = 0), !.n = (sumf \div 128 = 1)]
    BY DEF Whole!add, Whole!set_nz_flags
  <2>. HIDE DEF f
  <2>2. resultf = result
    BY <1>2, Zenon
  <2>3. carryf = carry /\ sumf = sum
    BY <2>2, Zenon
  <2>4. overf = over
    BY <1>2, <2>2, Zenon
  <2>. HIDE DEF resultf, result, carryf, carry, overf, over, sumf, sum
  <2>. QED BY <2>1, <2>3, <2>4, Zenon
<1>7. Whole!add(f, v) = Whole!add(p, v)
  <2>. HIDE DEF f, zero, minus, carry, over, sum, zero2, minus2
  <2>. QED BY <1>1, <1>5, <1>6 DEF Registers
<1>. QED BY <1>2, <1>4, <1>7

(* What a modifying instruction has done to memory and flags: w is the      *)
(* processor once what it stores is written.                                *)
LEMMA SeenStoring ==
  ASSUME NEW w, DOMAIN w = Fields, NEW r, DOMAIN r = Registers, NEW v \in Byte, NEW to,
         NEW op \in Official, NEW name,
         ShiftedOut(name, r, v) = ShiftedOut(op, r, v), Modified(name, r, v) = Modified(op, r, v),
         Visible(w) = [r EXCEPT !.mem = Written(r.mem, to, Modified(op, r, v))]
  PROVE  Whole!Set(Whole!Shift8(op, r, v).r, to, Whole!Shift8(op, r, v).value)
           = Whole!set_nz_flags(Visible(ShiftedOut(name, w, v)), Modified(name, r, v))
<1>. DEFINE s == Modified(op, r, v)
            m == Written(r.mem, to, s)
            q == ShiftedOut(name, r, v)
            d == ShiftedOut(name, w, v)
<1>1. Visible(w) = [r EXCEPT !.mem = m]
  OBVIOUS
<1>. HIDE DEF m
<1>2. DOMAIN q = Registers /\ q.mem = r.mem /\ Visible(d) = [q EXCEPT !.mem = m]
  BY <1>1, SeenShifted
<1>. HIDE DEF d
<1>3. Whole!Shift8(op, r, v).value = s /\ Whole!Shift8(op, r, v).r = Whole!set_nz_flags(q, s)
  BY ShiftsAre
<1>. HIDE DEF q, s
<1>4. Whole!Set(Whole!set_nz_flags(q, s), to, s)
        = Whole!set_nz_flags([q EXCEPT !.mem = Written(q.mem, to, s)], s)
  BY <1>2, FlagsThenMemory
<1>5. Whole!Set(Whole!Shift8(op, r, v).r, to, Whole!Shift8(op, r, v).value)
        = Whole!set_nz_flags(Visible(d), s)
  BY <1>2, <1>3, <1>4, Zenon DEF m
<1>. QED BY <1>5 DEF d, s

(* The official instruction an unofficial one begins with.                  *)
BeginsWith(name, op) ==
  \/ name \in Official /\ op = name
  \/ name = "SLO" /\ op = "ASL"
  \/ name = "RLA" /\ op = "ROL"
  \/ name = "SRE" /\ op = "LSR"
  \/ name = "RRA" /\ op = "ROR"

LEMMA BeginsSame ==
  ASSUME NEW name, NEW op, BeginsWith(name, op), NEW r, NEW v
  PROVE  ShiftedOut(name, r, v) = ShiftedOut(op, r, v) /\ Modified(name, r, v) = Modified(op, r, v)
<1>1. CASE name = op
  BY <1>1
<1>2. CASE name = "SLO" /\ op = "ASL"
  <2>1. ShiftedOut(name, r, v) = ShiftedOut(op, r, v)
    BY <1>2, Zenon DEF ShiftedOut, Leftward, Rightward
  <2>2. Modified(name, r, v) = Modified(op, r, v)
    BY <1>2, Zenon DEF Modified
  <2>. QED BY <2>1, <2>2
<1>3. CASE name = "RLA" /\ op = "ROL"
  <2>1. ShiftedOut(name, r, v) = ShiftedOut(op, r, v)
    BY <1>3, Zenon DEF ShiftedOut, Leftward, Rightward
  <2>2. Modified(name, r, v) = Modified(op, r, v)
    BY <1>3, Zenon DEF Modified
  <2>. QED BY <2>1, <2>2
<1>4. CASE name = "SRE" /\ op = "LSR"
  <2>1. ShiftedOut(name, r, v) = ShiftedOut(op, r, v)
    BY <1>4, Zenon DEF ShiftedOut, Leftward, Rightward
  <2>2. Modified(name, r, v) = Modified(op, r, v)
    BY <1>4, Zenon DEF Modified
  <2>. QED BY <2>1, <2>2
<1>5. CASE name = "RRA" /\ op = "ROR"
  <2>1. ShiftedOut(name, r, v) = ShiftedOut(op, r, v)
    BY <1>5, Zenon DEF ShiftedOut, Leftward, Rightward
  <2>2. Modified(name, r, v) = Modified(op, r, v)
    BY <1>5, Zenon DEF Modified
  <2>. QED BY <2>1, <2>2
<1>. QED BY <1>1, <1>2, <1>3, <1>4, <1>5, Zenon DEF BeginsWith

LEMMA SeenModify ==
  ASSUME NEW w, Typed(w), NEW r, DOMAIN r = Registers, NEW v \in Byte, NEW to,
         NEW name \in Official \union Unofficial, name \in Decimal => ~r.d,
         At(r, to) = v,
         Visible(w) = [r EXCEPT !.mem = Written(r.mem, to, Modified(name, r, v))]
  PROVE  Visible(Accumulate(name, ShiftedOut(name, w, v), Modified(name, r, v)))
           = IF name \in Official
             THEN Whole!Set(Whole!Shift8(name, r, v).r, to, Whole!Shift8(name, r, v).value)
             ELSE Whole!UndocumentedModify(name, r, to)
<1>. DEFINE s == Modified(name, r, v)
            m == Written(r.mem, to, s)
            d == ShiftedOut(name, w, v)
            p == Visible(d)
            Kept0(op) == Whole!Set(Whole!Shift8(op, r, v).r, to, Whole!Shift8(op, r, v).value)
            Base(op) == Whole!Shift8(op, r, v).value
<1>1. DOMAIN w = Fields
  BY DEF Typed
<1>2. \A op \in Official : BeginsWith(name, op) =>
        Kept0(op) = Whole!set_nz_flags(p, s) /\ Base(op) = s
  <2>. SUFFICES ASSUME NEW op \in Official, BeginsWith(name, op)
                PROVE  Kept0(op) = Whole!set_nz_flags(p, s) /\ Base(op) = s
    OBVIOUS
  <2>1. ShiftedOut(name, r, v) = ShiftedOut(op, r, v) /\ Modified(name, r, v) = Modified(op, r, v)
    BY BeginsSame
  <2>2. Kept0(op) = Whole!set_nz_flags(Visible(ShiftedOut(name, w, v)), Modified(name, r, v))
    BY <1>1, <2>1, SeenStoring
  <2>3. Base(op) = s
    BY <2>1, ShiftsAre
  <2>. QED BY <2>2, <2>3
<1>3. Visible(w) = [r EXCEPT !.mem = m]
  OBVIOUS
<1>4. w.c = r.c
  <2>1. Visible(w).c = w.c
    BY SeenFields
  <2>. HIDE DEF m
  <2>2. [r EXCEPT !.mem = m].c = r.c
    BY DEF Registers
  <2>. QED BY <1>3, <2>1, <2>2
<1>5. s \in Byte
  <2>1. Modified(name, w, v) \in Byte
    BY ModifiedByte
  <2>2. Modified(name, w, v) = s
    BY <1>4, Zenon DEF Modified
  <2>. QED BY <2>1, <2>2
<1>6. Typed(d)
  BY ShiftedOutKept, KeptTyped
<1>. HIDE DEF m
<1>7. /\ DOMAIN d = Fields /\ DOMAIN ShiftedOut(name, r, v) = Registers
      /\ ShiftedOut(name, r, v).mem = r.mem /\ p = [ShiftedOut(name, r, v) EXCEPT !.mem = m]
      /\ d.a = r.a /\ d.d = r.d
  BY <1>1, <1>3, SeenShifted
<1>8. d.a \in Byte /\ d.c \in BOOLEAN
  BY <1>6, Types
<1>9. DOMAIN p = Registers /\ p.d = d.d
  BY SeenFields
<1>10. p = [r EXCEPT !.mem = m] \/ name \notin {"ISC", "DCP"}
  <2>1. name \in {"ISC", "DCP"} => d = w
    BY Zenon DEF ShiftedOut, Leftward, Rightward
  <2>. QED BY <1>3, <2>1
<1>11. Whole!Get(r, to) = v /\ Whole!Set(r, to, s) = [r EXCEPT !.mem = m]
  BY WholeMemory DEF m
<1>. HIDE DEF d, p, s
<1>12. CASE name \in Official
  <2>1. BeginsWith(name, name)
    BY <1>12 DEF BeginsWith
  <2>2. Kept0(name) = Whole!set_nz_flags(p, s)
    BY <1>2, <1>12, <2>1
  <2>3. Accumulate(name, d, s) = SetNz(d, s)
    BY <1>12, Zenon DEF Accumulate, Official
  <2>4. Visible(SetNz(d, s)) = Whole!set_nz_flags(p, s)
    BY <1>5, <1>7, SeenSetNz DEF p
  <2>. QED BY <1>12, <2>2, <2>3, <2>4, Zenon DEF d, s
<1>13. \A x \in Byte : Visible(SetA(d, x)) = Whole!WithA(Whole!set_nz_flags(p, s), x)
  <2>. TAKE x \in Byte
  <2>1. Visible(SetA(d, x)) = Whole!WithA(p, x)
    BY <1>7, SeenLoading DEF p
  <2>2. Whole!WithA(Whole!set_nz_flags(p, s), x) = Whole!WithA(p, x)
    BY <1>9, FlagsTwice
  <2>. QED BY <2>1, <2>2
<1>14. CASE name = "SLO"
  <2>1. Kept0("ASL") = Whole!set_nz_flags(p, s) /\ Base("ASL") = s
    BY <1>2, <1>14 DEF BeginsWith, Official
  <2>. DEFINE x == Or(d.a, s)
  <2>2. x \in Byte
    BY <1>5, <1>8, AndIs DEF Or
  <2>3. Accumulate(name, d, s) = SetA(d, x)
    BY <1>14, Zenon DEF Accumulate
  <2>4. Whole!UndocumentedModify(name, r, to) = Whole!WithA(Kept0("ASL"), Whole!Or(r.a, Base("ASL")))
    BY <1>11, <1>14, Zenon DEF Whole!UndocumentedModify
  <2>9. Whole!Or(d.a, s) = Or(d.a, s)
    BY WholeAnd
  <2>5. Whole!Or(r.a, s) = x
    BY <1>7, <2>9
  <2>6. Whole!UndocumentedModify(name, r, to) = Whole!WithA(Whole!set_nz_flags(p, s), x)
    BY <2>1, <2>4, <2>5, Zenon
  <2>7. name \notin Official
    BY <1>14 DEF Official
  <2>. HIDE DEF x
  <2>8. Visible(SetA(d, x)) = Whole!WithA(Whole!set_nz_flags(p, s), x)
    BY <1>13, <2>2
  <2>. QED BY <2>3, <2>6, <2>7, <2>8, Zenon DEF d, s
<1>15. CASE name = "RLA"
  <2>1. Kept0("ROL") = Whole!set_nz_flags(p, s) /\ Base("ROL") = s
    BY <1>2, <1>15 DEF BeginsWith, Official
  <2>. DEFINE x == And(d.a, s)
  <2>2. x \in Byte
    BY <1>5, <1>8, AndIs
  <2>3. Accumulate(name, d, s) = SetA(d, x)
    BY <1>15, Zenon DEF Accumulate
  <2>4. Whole!UndocumentedModify(name, r, to) = Whole!WithA(Kept0("ROL"), Whole!And(r.a, Base("ROL")))
    BY <1>11, <1>15, Zenon DEF Whole!UndocumentedModify
  <2>9. Whole!And(d.a, s) = And(d.a, s)
    BY WholeAnd
  <2>5. Whole!And(r.a, s) = x
    BY <1>7, <2>9
  <2>6. Whole!UndocumentedModify(name, r, to) = Whole!WithA(Whole!set_nz_flags(p, s), x)
    BY <2>1, <2>4, <2>5, Zenon
  <2>7. name \notin Official
    BY <1>15 DEF Official
  <2>. HIDE DEF x
  <2>8. Visible(SetA(d, x)) = Whole!WithA(Whole!set_nz_flags(p, s), x)
    BY <1>13, <2>2
  <2>. QED BY <2>3, <2>6, <2>7, <2>8, Zenon DEF d, s
<1>16. CASE name = "SRE"
  <2>1. Kept0("LSR") = Whole!set_nz_flags(p, s) /\ Base("LSR") = s
    BY <1>2, <1>16 DEF BeginsWith, Official
  <2>. DEFINE x == Xor(d.a, s)
  <2>2. x \in Byte /\ Whole!Exclusive(d.a, s) = x
    BY <1>5, <1>8, SeenXor
  <2>3. Accumulate(name, d, s) = SetA(d, x)
    BY <1>16, Zenon DEF Accumulate
  <2>4. Whole!UndocumentedModify(name, r, to)
          = Whole!WithA(Kept0("LSR"), Whole!Exclusive(r.a, Base("LSR")))
    BY <1>11, <1>16, Zenon DEF Whole!UndocumentedModify
  <2>6. Whole!UndocumentedModify(name, r, to) = Whole!WithA(Whole!set_nz_flags(p, s), x)
    BY <1>7, <2>1, <2>2, <2>4, Zenon
  <2>7. name \notin Official
    BY <1>16 DEF Official
  <2>. HIDE DEF x
  <2>8. Visible(SetA(d, x)) = Whole!WithA(Whole!set_nz_flags(p, s), x)
    BY <1>13, <2>2
  <2>. QED BY <2>3, <2>6, <2>7, <2>8, Zenon DEF d, s
<1>17. name \in {"RRA", "ISC"} => ~d.d
  BY <1>7 DEF Decimal
<1>18. CASE name = "RRA"
  <2>1. Kept0("ROR") = Whole!set_nz_flags(p, s) /\ Base("ROR") = s
    BY <1>2, <1>18 DEF BeginsWith, Official
  <2>3. Accumulate(name, d, s) = Add(d, s)
    BY <1>18, Zenon DEF Accumulate
  <2>4. Whole!UndocumentedModify(name, r, to) = Whole!adc(Whole!set_nz_flags(p, s), s)
    BY <1>11, <1>18, <2>1, Zenon DEF Whole!UndocumentedModify
  <2>5. /\ Whole!set_nz_flags(p, s).d = p.d
        /\ Whole!add(Whole!set_nz_flags(p, s), s) = Whole!add(p, s)
    BY <1>9, FlagsTwice
  <2>6. Whole!adc(Whole!set_nz_flags(p, s), s) = Whole!add(Whole!set_nz_flags(p, s), s)
    BY <1>9, <1>17, <1>18, <2>5, Zenon DEF Whole!adc
  <2>7. name \notin Official
    BY <1>18 DEF Official
  <2>8. Visible(Add(d, s)) = Whole!add(p, s)
    BY <1>5, <1>7, <1>8, SeenAdd DEF p
  <2>. QED BY <2>3, <2>4, <2>5, <2>6, <2>7, <2>8, Zenon DEF d, s
<1>19. CASE name = "ISC"
  <2>1. s = Whole!Wrap(v + 1)
    BY <1>19, Zenon DEF s, Modified, Whole!Wrap
  <2>2. Whole!UndocumentedModify(name, r, to) = Whole!sbc(Whole!Set(r, to, s), s)
    BY <1>11, <1>19, <2>1, Zenon DEF Whole!UndocumentedModify
  <2>3. Accumulate(name, d, s) = Sbc(d, s)
    BY <1>19, Zenon DEF Accumulate
  <2>4. Visible(Sbc(d, s)) = Whole!sbc(p, s)
    BY <1>5, <1>7, <1>8, <1>17, <1>19, SeenSbc DEF p
  <2>5. name \notin Official
    BY <1>19 DEF Official
  <2>. QED BY <1>10, <1>11, <1>19, <2>2, <2>3, <2>4, <2>5, Zenon DEF d, s
<1>20. CASE name = "DCP"
  <2>1. s = Whole!Wrap(v - 1)
    BY <1>20, Zenon DEF s, Modified, Whole!Wrap
  <2>2. Whole!UndocumentedModify(name, r, to) = Whole!cmp(Whole!Set(r, to, s), r.a, s)
    BY <1>11, <1>20, <2>1, Zenon DEF Whole!UndocumentedModify
  <2>3. Accumulate(name, d, s) = Compare(d, d.a, s)
    BY <1>20, Zenon DEF Accumulate
  <2>4. Visible(Compare(d, d.a, s)) = Whole!cmp(p, d.a, s)
    BY <1>5, <1>7, <1>8, SeenCompare DEF p
  <2>5. name \notin Official
    BY <1>20 DEF Official
  <2>. QED BY <1>7, <1>10, <1>11, <1>20, <2>2, <2>3, <2>4, <2>5, Zenon DEF d, s
<1>. QED BY <1>12, <1>14, <1>15, <1>16, <1>18, <1>19, <1>20, Zenon DEF Unofficial

-----------------------------------------------------------------------------
(* Transfers, the status and the stack, in both                             *)

LEMMA SeenSetFlag ==
  ASSUME NEW c, DOMAIN c = Fields, NEW op \in Flags
  PROVE  Visible(SetFlag(op, c)) = Whole!SetsFlag(op, Visible(c))
<1>1. \A v : /\ Visible([c EXCEPT !.c = v]) = [Visible(c) EXCEPT !.c = v]
             /\ Visible([c EXCEPT !.v = v]) = [Visible(c) EXCEPT !.v = v]
             /\ Visible([c EXCEPT !.d = v]) = [Visible(c) EXCEPT !.d = v]
             /\ Visible([c EXCEPT !.i = v]) = [Visible(c) EXCEPT !.i = v]
  BY SeenFlag
<1>2. CASE op = "CLC"
  BY <1>1, <1>2, Zenon DEF SetFlag, Whole!SetsFlag
<1>3. CASE op = "SEC"
  BY <1>1, <1>3, Zenon DEF SetFlag, Whole!SetsFlag
<1>4. CASE op = "CLD"
  BY <1>1, <1>4, Zenon DEF SetFlag, Whole!SetsFlag
<1>5. CASE op = "SED"
  BY <1>1, <1>5, Zenon DEF SetFlag, Whole!SetsFlag
<1>6. CASE op = "CLI"
  BY <1>1, <1>6, Zenon DEF SetFlag, Whole!SetsFlag
<1>7. CASE op = "SEI"
  BY <1>1, <1>7, Zenon DEF SetFlag, Whole!SetsFlag
<1>8. CASE op = "CLV"
  BY <1>1, <1>8, Zenon DEF SetFlag, Whole!SetsFlag
<1>. QED BY <1>2, <1>3, <1>4, <1>5, <1>6, <1>7, <1>8, Zenon DEF Flags

LEMMA SeenTransfer ==
  ASSUME NEW c, Typed(c), NEW op \in Transfers
  PROVE  Visible(Transfer(op, c)) = Whole!Moves(op, Visible(c))
<1>1. DOMAIN c = Fields /\ c.a \in Byte /\ c.x \in Byte /\ c.y \in Byte /\ c.s \in Byte
  BY Types DEF Typed
<1>2. /\ Visible(c).a = c.a /\ Visible(c).x = c.x /\ Visible(c).y = c.y /\ Visible(c).s = c.s
  BY SeenFields
<1>3. \A v \in Byte : /\ Visible(SetA(c, v)) = Whole!WithA(Visible(c), v)
                      /\ Visible(SetNz([c EXCEPT !.x = v], v)) = Whole!WithX(Visible(c), v)
                      /\ Visible(SetNz([c EXCEPT !.y = v], v)) = Whole!WithY(Visible(c), v)
  BY <1>1, SeenLoading
<1>4. \A v : Visible([c EXCEPT !.s = v]) = [Visible(c) EXCEPT !.s = v]
  BY <1>1, SeenFlag
<1>5. \A v \in Byte : /\ (v - 1) % 256 \in Byte /\ (v + 1) % 256 \in Byte
                      /\ Whole!Wrap(v - 1) = (v - 1) % 256 /\ Whole!Wrap(v + 1) = (v + 1) % 256
  <2>1. \A v \in Byte : (v - 1) % 256 \in Byte /\ (v + 1) % 256 \in Byte
    BY ByteIs
  <2>2. \A v \in Byte : Whole!Wrap(v - 1) = (v - 1) % 256 /\ Whole!Wrap(v + 1) = (v + 1) % 256
    BY Zenon DEF Whole!Wrap
  <2>. QED BY <2>1, <2>2
<1>6. CASE op = "TSX"
  <2>1. Transfer(op, c) = SetNz([c EXCEPT !.x = c.s], c.s) /\ Whole!Moves(op, Visible(c)) = Whole!WithX(Visible(c), c.s)
    BY <1>2, <1>6, Zenon DEF Transfer, Whole!Moves
  <2>. QED BY <1>1, <1>3, <2>1
<1>7. CASE op = "TXS"
  <2>1. Transfer(op, c) = [c EXCEPT !.s = c.x] /\ Whole!Moves(op, Visible(c)) = [Visible(c) EXCEPT !.s = c.x]
    BY <1>2, <1>7, Zenon DEF Transfer, Whole!Moves
  <2>. QED BY <1>4, <2>1
<1>8. CASE op = "TAX"
  <2>1. Transfer(op, c) = SetNz([c EXCEPT !.x = c.a], c.a) /\ Whole!Moves(op, Visible(c)) = Whole!WithX(Visible(c), c.a)
    BY <1>2, <1>8, Zenon DEF Transfer, Whole!Moves
  <2>. QED BY <1>1, <1>3, <2>1
<1>9. CASE op = "TXA"
  <2>1. Transfer(op, c) = SetA(c, c.x) /\ Whole!Moves(op, Visible(c)) = Whole!WithA(Visible(c), c.x)
    BY <1>2, <1>9, Zenon DEF Transfer, Whole!Moves
  <2>. QED BY <1>1, <1>3, <2>1
<1>10. CASE op = "TYA"
  <2>1. Transfer(op, c) = SetA(c, c.y) /\ Whole!Moves(op, Visible(c)) = Whole!WithA(Visible(c), c.y)
    BY <1>2, <1>10, Zenon DEF Transfer, Whole!Moves
  <2>. QED BY <1>1, <1>3, <2>1
<1>11. CASE op = "TAY"
  <2>1. Transfer(op, c) = SetNz([c EXCEPT !.y = c.a], c.a) /\ Whole!Moves(op, Visible(c)) = Whole!WithY(Visible(c), c.a)
    BY <1>2, <1>11, Zenon DEF Transfer, Whole!Moves
  <2>. QED BY <1>1, <1>3, <2>1
<1>12. CASE op = "DEX"
  <2>. DEFINE v == (c.x - 1) % 256
  <2>1. v \in Byte /\ Whole!Wrap(c.x - 1) = v
    BY <1>1, <1>5
  <2>2. Transfer(op, c) = SetNz([c EXCEPT !.x = v], v) /\ Whole!Moves(op, Visible(c)) = Whole!WithX(Visible(c), v)
    BY <1>2, <1>12, <2>1, Zenon DEF Transfer, Whole!Moves
  <2>. HIDE DEF v
  <2>. QED BY <1>3, <2>1, <2>2
<1>13. CASE op = "DEY"
  <2>. DEFINE v == (c.y - 1) % 256
  <2>1. v \in Byte /\ Whole!Wrap(c.y - 1) = v
    BY <1>1, <1>5
  <2>2. Transfer(op, c) = SetNz([c EXCEPT !.y = v], v) /\ Whole!Moves(op, Visible(c)) = Whole!WithY(Visible(c), v)
    BY <1>2, <1>13, <2>1, Zenon DEF Transfer, Whole!Moves
  <2>. HIDE DEF v
  <2>. QED BY <1>3, <2>1, <2>2
<1>14. CASE op = "INX"
  <2>. DEFINE v == (c.x + 1) % 256
  <2>1. v \in Byte /\ Whole!Wrap(c.x + 1) = v
    BY <1>1, <1>5
  <2>2. Transfer(op, c) = SetNz([c EXCEPT !.x = v], v) /\ Whole!Moves(op, Visible(c)) = Whole!WithX(Visible(c), v)
    BY <1>2, <1>14, <2>1, Zenon DEF Transfer, Whole!Moves
  <2>. HIDE DEF v
  <2>. QED BY <1>3, <2>1, <2>2
<1>15. CASE op = "INY"
  <2>. DEFINE v == (c.y + 1) % 256
  <2>1. v \in Byte /\ Whole!Wrap(c.y + 1) = v
    BY <1>1, <1>5
  <2>2. Transfer(op, c) = SetNz([c EXCEPT !.y = v], v) /\ Whole!Moves(op, Visible(c)) = Whole!WithY(Visible(c), v)
    BY <1>2, <1>15, <2>1, Zenon DEF Transfer, Whole!Moves
  <2>. HIDE DEF v
  <2>. QED BY <1>3, <2>1, <2>2
<1>. QED BY <1>6, <1>7, <1>8, <1>9, <1>10, <1>11, <1>12, <1>13, <1>14, <1>15, Zenon DEF Transfers

LEMMA SeenShiftA ==
  ASSUME NEW c, Typed(c), NEW op \in {"ASL", "LSR", "ROL", "ROR"}
  PROVE  Visible(ShiftA(op, c))
           = [Whole!Shift8(op, Visible(c), Visible(c).a).r
                EXCEPT !.a = Whole!Shift8(op, Visible(c), Visible(c).a).value]
<1>. DEFINE r == Visible(c)
            s == Modified(op, c, c.a)
            d == ShiftedOut(op, c, c.a)
            q == ShiftedOut(op, r, c.a)
            zero == (s = 0)
            minus == (s \div 128 = 1)
<1>1. /\ DOMAIN c = Fields /\ c.a \in Byte /\ op \in Official /\ op \in Official \union Unofficial
  BY Types, Zenon DEF Typed, Official
<1>2. r.a = c.a /\ r.c = c.c /\ r.mem = c.mem /\ DOMAIN r = Registers
  BY SeenFields
<1>3. s \in Byte
  BY <1>1, ModifiedByte
<1>4. Modified(op, r, c.a) = s
  BY <1>2, Zenon DEF Modified
<1>5. Whole!Shift8(op, r, r.a).value = s /\ Whole!Shift8(op, r, r.a).r = Whole!set_nz_flags(q, s)
  <2>1. /\ Whole!Shift8(op, r, c.a).value = Modified(op, r, c.a)
        /\ Whole!Shift8(op, r, c.a).r = Whole!set_nz_flags(q, Modified(op, r, c.a))
    BY <1>1, ShiftsAre
  <2>. QED BY <1>2, <1>4, <2>1, Zenon
<1>6. Visible(d) = q /\ DOMAIN d = Fields /\ DOMAIN q = Registers
  <2>. DEFINE left == (c.a >= 128)
              right == (c.a % 2 = 1)
  <2>1. op \in {"ASL", "ROL"} => d = [c EXCEPT !.c = left] /\ q = [r EXCEPT !.c = left]
    BY Zenon DEF ShiftedOut, Leftward, Rightward
  <2>2. op \in {"LSR", "ROR"} => d = [c EXCEPT !.c = right] /\ q = [r EXCEPT !.c = right]
    BY Zenon DEF ShiftedOut, Leftward, Rightward
  <2>. HIDE DEF left, right, d, q
  <2>3. \A v : /\ Visible([c EXCEPT !.c = v]) = [r EXCEPT !.c = v] /\ DOMAIN [c EXCEPT !.c = v] = Fields
               /\ DOMAIN [r EXCEPT !.c = v] = Registers
    BY <1>1, <1>2, SeenFlag
  <2>4. op \in {"ASL", "ROL"} \/ op \in {"LSR", "ROR"}
    OBVIOUS
  <2>. HIDE DEF r
  <2>. QED BY <2>1, <2>2, <2>3, <2>4, Zenon
<1>7. ShiftA(op, c) = SetA(d, s)
  BY DEF ShiftA
<1>. HIDE DEF d, q, s
<1>8. Visible(SetA(d, s)) = Whole!WithA(q, s)
  BY <1>3, <1>6, SeenLoading
<1>9. /\ Whole!WithA(q, s) = [[q EXCEPT !.a = s] EXCEPT !.z = zero, !.n = minus]
      /\ Whole!set_nz_flags(q, s) = [q EXCEPT !.z = zero, !.n = minus]
  BY DEF Whole!WithA, Whole!set_nz_flags
<1>. HIDE DEF zero, minus
<1>10. Whole!WithA(q, s) = [Whole!set_nz_flags(q, s) EXCEPT !.a = s]
  BY <1>6, <1>9
<1>. HIDE DEF r
<1>11. Visible(ShiftA(op, c)) = [Whole!Shift8(op, r, r.a).r EXCEPT !.a = Whole!Shift8(op, r, r.a).value]
  BY <1>5, <1>7, <1>8, <1>10, Zenon
<1>. QED BY <1>11 DEF r

LEMMA SeenStatus ==
  ASSUME NEW c, DOMAIN c = Fields, NEW v, NEW b
  PROVE  /\ Visible(SetStatus(c, v)) = Whole!set_value(Visible(c), v)
         /\ StatusByte(c, b) = Whole!value(Visible(c), b)
<1>. DEFINE n == (Bit(v, 128) = 1)
            o == (Bit(v, 64) = 1)
            d == (Bit(v, 8) = 1)
            i == (Bit(v, 4) = 1)
            z == (Bit(v, 2) = 1)
            y == (Bit(v, 1) = 1)
<1>1. SetStatus(c, v) = [c EXCEPT !.n = n, !.v = o, !.d = d, !.i = i, !.z = z, !.c = y]
  BY DEF SetStatus
<1>2. /\ Whole!Bit(v, 128) = Bit(v, 128) /\ Whole!Bit(v, 64) = Bit(v, 64) /\ Whole!Bit(v, 8) = Bit(v, 8)
      /\ Whole!Bit(v, 4) = Bit(v, 4) /\ Whole!Bit(v, 2) = Bit(v, 2) /\ Whole!Bit(v, 1) = Bit(v, 1)
  BY WholeAnd
<1>3. Whole!set_value(Visible(c), v)
        = [Visible(c) EXCEPT !.n = n, !.v = o, !.d = d, !.i = i, !.z = z, !.c = y]
  BY <1>2, Zenon DEF Whole!set_value
<1>. HIDE DEF n, o, d, i, z, y
<1>4. Visible([c EXCEPT !.n = n, !.v = o, !.d = d, !.i = i, !.z = z, !.c = y])
        = [Visible(c) EXCEPT !.n = n, !.v = o, !.d = d, !.i = i, !.z = z, !.c = y]
  BY DEF Visible, Fields, Registers
<1>5. /\ Visible(c).n = c.n /\ Visible(c).v = c.v /\ Visible(c).d = c.d /\ Visible(c).i = c.i
      /\ Visible(c).z = c.z /\ Visible(c).c = c.c
  BY SeenFields
<1>6. \A p : Whole!Num(p) = Flag(p)
  BY WholeBits
<1>7. StatusByte(c, b) = Whole!value(Visible(c), b)
  BY <1>5, <1>6, Zenon DEF StatusByte, Whole!value
<1>. QED BY <1>1, <1>3, <1>4, <1>7, Zenon

LEMMA SeenPush ==
  ASSUME NEW c, DOMAIN c = Fields, NEW v
  PROVE  Visible(Push(c, v)) = Whole!push_byte(Visible(c), v)
<1>. DEFINE to == 256 + c.s
            m == Written(c.mem, to, v)
            s == (c.s - 1) % 256
            log == Append(c.bus, <<"write", to>>)
<1>1. Visible(c).s = c.s /\ Visible(c).mem = c.mem
  BY SeenFields
<1>2. OnStack(c.s) = to
  BY DEF OnStack, STACK_ADDRESS
<1>3. Writing(c, to, v) = [c EXCEPT !.mem = m, !.bus = log]
  BY DEF Writing
<1>4. Whole!Set(Visible(c), to, v) = [Visible(c) EXCEPT !.mem = m]
  <2>1. Whole!Set(Visible(c), to, v) = [Visible(c) EXCEPT !.mem = Written(Visible(c).mem, to, v)]
    BY WholeMemory
  <2>. QED BY <1>1, <2>1, Zenon
<1>. HIDE DEF m, log
<1>5. Push(c, v) = [[c EXCEPT !.mem = m, !.bus = log] EXCEPT !.s = s]
  <2>1. "s" \in Fields
    BY DEF Fields, Registers
  <2>. HIDE DEF s, to
  <2>2. [c EXCEPT !.mem = m, !.bus = log].s = c.s
    OBVIOUS
  <2>3. Push(c, v) = [[c EXCEPT !.mem = m, !.bus = log] EXCEPT !.s = ([c EXCEPT !.mem = m, !.bus = log].s - 1) % 256]
    BY <1>2, <1>3, Zenon DEF Push
  <2>. QED BY <2>2, <2>3, Zenon DEF s
<1>6. Whole!push_byte(Visible(c), v) = [[Visible(c) EXCEPT !.mem = m] EXCEPT !.s = s]
  <2>1. "s" \in Registers
    BY DEF Registers
  <2>. DEFINE r == [Visible(c) EXCEPT !.mem = m]
  <2>2. r.s = c.s
    BY <1>1
  <2>. HIDE DEF r
  <2>3. Whole!push_byte(Visible(c), v) = [r EXCEPT !.s = Whole!Wrap(r.s - 1)]
    BY <1>1, <1>4, Zenon DEF Whole!push_byte, r
  <2>4. Whole!Wrap(c.s - 1) = s
    BY Zenon DEF Whole!Wrap
  <2>. QED BY <2>2, <2>3, <2>4, Zenon DEF r
<1>. HIDE DEF s
<1>7. Visible([[c EXCEPT !.mem = m, !.bus = log] EXCEPT !.s = s])
        = [[Visible(c) EXCEPT !.mem = m] EXCEPT !.s = s]
  BY DEF Visible, Fields, Registers, New
<1>. QED BY <1>5, <1>6, <1>7, Zenon

LEMMA SeenPop ==
  ASSUME NEW c, DOMAIN c = Fields
  PROVE  /\ Visible(Pop(c)) = Whole!inc(Visible(c)) /\ Top(c) = Whole!TopByte(Visible(c))
<1>. DEFINE s == (c.s + 1) % 256
            log == Append(c.bus, <<"read", OnStack(s)>>)
<1>1. Visible(c).s = c.s /\ Visible(c).mem = c.mem
  BY SeenFields
<1>2. Whole!inc(Visible(c)) = [Visible(c) EXCEPT !.s = s]
  BY <1>1, Zenon DEF Whole!inc, Whole!Wrap
<1>3. Pop(c) = [[c EXCEPT !.bus = log] EXCEPT !.s = s]
  <2>1. "s" \in Fields
    BY DEF Fields, Registers
  <2>. DEFINE d == Reading(c, OnStack(s))
  <2>2. d = [c EXCEPT !.bus = log]
    BY DEF Reading
  <2>. HIDE DEF log
  <2>3. d.s = c.s
    <3>. HIDE DEF d
    <3>. QED BY <2>2
  <2>. HIDE DEF d
  <2>4. Pop(c) = [d EXCEPT !.s = (d.s + 1) % 256]
    BY Zenon DEF Pop, d, s
  <2>. QED BY <2>2, <2>3, <2>4, Zenon DEF s
<1>4. Top(c) = Whole!TopByte(Visible(c))
  <2>1. OnStack(s) = 256 + s
    BY DEF OnStack, STACK_ADDRESS
  <2>2. Top(c) = At(c, 256 + s)
    BY <2>1, Zenon DEF Top
  <2>3. Whole!TopByte(Visible(c)) = Whole!Get(Visible(c), 256 + s)
    BY <1>1, Zenon DEF Whole!TopByte, Whole!Wrap
  <2>4. Whole!Get(Visible(c), 256 + s) = At(Visible(c), 256 + s)
    BY WholeMemory
  <2>5. At(Visible(c), 256 + s) = At(c, 256 + s)
    BY <1>1, Zenon DEF At
  <2>. QED BY <2>2, <2>3, <2>4, <2>5
<1>. HIDE DEF s, log
<1>5. Visible([[c EXCEPT !.bus = log] EXCEPT !.s = s]) = [Visible(c) EXCEPT !.s = s]
  BY DEF Visible, Fields, Registers, New
<1>. QED BY <1>2, <1>3, <1>4, <1>5, Zenon

-----------------------------------------------------------------------------
(* Where the operand of an instruction is                                   *)

(* The registers an instruction starts from, and what it reads with them.   *)
SeenTyped(b) == DOMAIN b = Registers /\ RegistersType(b)

Past(c, b, n) == Visible(c) = [b EXCEPT !.pc = Shift(b.pc, n)]

FirstByte(b) == At(b, Shift(b.pc, 1))
SecondByte(b) == At(b, Shift(b.pc, 2))
Absolute(b) == Paged(FirstByte(b), SecondByte(b))
Pointed(b, zp) == Paged(At(b, zp), At(b, Lo(zp + 1)))

IndexIn(b, mode) == IF mode \in {"zpy", "absy", "indy"} THEN b.y ELSE b.x
Unindexed(b, mode) == IF mode = "indy" THEN Pointed(b, FirstByte(b)) ELSE Absolute(b)

Bytes(mode) == IF mode \in {"abs", "absx", "absy", "ind"} THEN 3 ELSE 2

Target(b, mode) ==
  CASE mode = "zp" -> FirstByte(b)
    [] mode \in {"zpx", "zpy"} -> Lo(FirstByte(b) + IndexIn(b, mode))
    [] mode = "abs" -> Absolute(b)
    [] mode \in Indexing -> Shift(Unindexed(b, mode), IndexIn(b, mode))
    [] mode = "indx" -> Pointed(b, Lo(FirstByte(b) + b.x))
    [] mode = "imm" -> Shift(b.pc, 1)

LEMMA SeenTypes ==
  ASSUME NEW c, Typed(c)
  PROVE  SeenTyped(Visible(c))
<1>. DEFINE b == Visible(c)
<1>1. /\ DOMAIN b = Registers
      /\ b.a = c.a /\ b.x = c.x /\ b.y = c.y /\ b.s = c.s
      /\ b.pc = c.pc /\ b.n = c.n /\ b.v = c.v /\ b.d = c.d
      /\ b.i = c.i /\ b.z = c.z /\ b.c = c.c /\ b.mem = c.mem
  BY SeenFields
<1>2. /\ c.a \in Byte /\ c.x \in Byte /\ c.y \in Byte /\ c.s \in Byte /\ c.pc \in Word
      /\ c.n \in BOOLEAN /\ c.v \in BOOLEAN /\ c.d \in BOOLEAN /\ c.i \in BOOLEAN /\ c.z \in BOOLEAN
      /\ c.c \in BOOLEAN
  BY Types
<1>3. DOMAIN c.mem \subseteq Word /\ c.mem \in [DOMAIN c.mem -> Byte]
  <2>1. c.mem \in UNION {[places -> Byte] : places \in SUBSET Word}
    BY KindOf DEF Typed
  <2>. QED BY <2>1
<1>. HIDE DEF b
<1>4. {b.a, b.x, b.y, b.s} \subseteq Byte /\ b.pc \in Word
  BY <1>1, <1>2
<1>5. {b.n, b.v, b.d, b.i, b.z, b.c} \subseteq BOOLEAN
  BY <1>1, <1>2
<1>6. SeenTyped(b)
  BY <1>1, <1>3, <1>4, <1>5, Zenon DEF SeenTyped, RegistersType
<1>. QED BY <1>6 DEF b

LEMMA SeenKinds ==
  ASSUME NEW b, SeenTyped(b)
  PROVE  /\ DOMAIN b = Registers
         /\ b.a \in Byte /\ b.x \in Byte /\ b.y \in Byte /\ b.s \in Byte /\ b.pc \in Word
         /\ b.c \in BOOLEAN /\ b.d \in BOOLEAN
         /\ \A w \in Word : At(b, w) \in Byte
<1>1. DOMAIN b.mem \subseteq Word /\ b.mem \in [DOMAIN b.mem -> Byte]
  BY DEF SeenTyped, RegistersType
<1>2. \A w \in Word : At(b, w) \in Byte
  <2>1. Image \in [Word -> Byte]
    BY Cpu2Assumption
  <2>. QED BY <1>1, <2>1 DEF At
<1>. QED BY <1>2 DEF SeenTyped, RegistersType

LEMMA OperandKinds ==
  ASSUME NEW b, SeenTyped(b)
  PROVE  /\ FirstByte(b) \in Byte /\ SecondByte(b) \in Byte /\ Absolute(b) \in Word
         /\ \A zp \in Byte : Pointed(b, zp) \in Word
         /\ \A mode : IndexIn(b, mode) \in Byte /\ Unindexed(b, mode) \in Word
<1>1. /\ b.x \in Byte /\ b.y \in Byte /\ b.pc \in Word
      /\ \A w \in Word : At(b, w) \in Byte
  BY SeenKinds
<1>2. Shift(b.pc, 1) \in Word /\ Shift(b.pc, 2) \in Word
  <2>1. b.pc \in Int
    BY <1>1, WordIs
  <2>. QED BY <2>1, ShiftWord
<1>3. FirstByte(b) \in Byte /\ SecondByte(b) \in Byte
  BY <1>1, <1>2 DEF FirstByte, SecondByte
<1>4. Absolute(b) \in Word
  BY <1>3, Words DEF Absolute
<1>5. \A zp \in Byte : Pointed(b, zp) \in Word
  <2>. TAKE zp \in Byte
  <2>1. zp \in Word /\ zp + 1 \in Int
    BY ByteIs, WordIs
  <2>2. Lo(zp + 1) \in Byte
    BY <2>1, Words
  <2>3. Lo(zp + 1) \in Word
    BY <2>2, ByteIs, WordIs
  <2>4. At(b, zp) \in Byte /\ At(b, Lo(zp + 1)) \in Byte
    BY <1>1, <2>1, <2>3
  <2>. QED BY <2>4, Words DEF Pointed
<1>6. \A mode : IndexIn(b, mode) \in Byte /\ Unindexed(b, mode) \in Word
  BY <1>1, <1>3, <1>4, <1>5 DEF IndexIn, Unindexed
<1>. QED BY <1>3, <1>4, <1>5, <1>6

LEMMA PastIs ==
  ASSUME NEW c, NEW b, SeenTyped(b), NEW n, Past(c, b, n)
  PROVE  /\ c.pc = Shift(b.pc, n) /\ c.a = b.a /\ c.x = b.x /\ c.y = b.y /\ c.s = b.s
         /\ c.mem = b.mem /\ c.c = b.c /\ c.d = b.d /\ c.n = b.n /\ c.v = b.v /\ c.z = b.z
         /\ \A w : At(c, w) = At(b, w)
<1>1. DOMAIN b = Registers /\ {"a", "x", "y", "s", "pc", "mem", "c", "d", "n", "v", "z"} \subseteq Registers
  BY SeenKinds DEF Registers
<1>. DEFINE w == Shift(b.pc, n)
<1>2. Visible(c) = [b EXCEPT !.pc = w]
  BY DEF Past
<1>. HIDE DEF w
<1>3. /\ Visible(c).pc = w /\ Visible(c).a = b.a /\ Visible(c).x = b.x /\ Visible(c).y = b.y
      /\ Visible(c).s = b.s /\ Visible(c).mem = b.mem /\ Visible(c).c = b.c /\ Visible(c).d = b.d
      /\ Visible(c).n = b.n /\ Visible(c).v = b.v /\ Visible(c).z = b.z
  BY <1>1, <1>2
<1>4. /\ c.pc = w /\ c.a = b.a /\ c.x = b.x /\ c.y = b.y /\ c.s = b.s
      /\ c.mem = b.mem /\ c.c = b.c /\ c.d = b.d /\ c.n = b.n /\ c.v = b.v /\ c.z = b.z
  BY <1>3, SeenFields
<1>5. \A to : At(c, to) = At(b, to)
  BY <1>4, Zenon DEF At
<1>. QED BY <1>4, <1>5 DEF w

LEMMA PastNext ==
  ASSUME NEW c, NEW b, SeenTyped(b), NEW n \in 0 .. 3, Past(c, b, n), NEW d,
         Visible(d) = [Visible(c) EXCEPT !.pc = Shift(c.pc, 1)]
  PROVE  Past(d, b, n + 1)
<1>1. c.pc = Shift(b.pc, n)
  BY PastIs
<1>2. Shift(Shift(b.pc, n), 1) = Shift(b.pc, n + 1)
  <2>1. b.pc \in Int
    BY SeenKinds, WordIs
  <2>. QED BY <2>1 DEF Shift
<1>. DEFINE u == Shift(b.pc, n)
            w == Shift(b.pc, n + 1)
<1>3. Visible(c) = [b EXCEPT !.pc = u] /\ Visible(d) = [Visible(c) EXCEPT !.pc = w]
  BY <1>1, <1>2 DEF Past
<1>. HIDE DEF u, w
<1>4. Visible(d) = [b EXCEPT !.pc = w]
  BY <1>3
<1>. QED BY <1>4 DEF Past, w

Vectored(b) ==
  Paged(At(b, Absolute(b)), At(b, Paged(Lo(Absolute(b) + 1), Hi(Absolute(b)))))

LEMMA WholeOperand ==
  ASSUME NEW b, SeenTyped(b), NEW r, r.mem = b.mem
  PROVE  /\ \A w : Whole!Get(r, w) = At(b, w)
         /\ Whole!Get(r, Whole!Wrap16(b.pc + 1)) = FirstByte(b)
         /\ Whole!word(r, Whole!Wrap16(b.pc + 1)) = Absolute(b)
         /\ \A zp : Whole!word_ind_y(r, zp) = Pointed(b, zp)
         /\ \A low, high : Whole!WordOf(r, low, high) = Paged(At(b, low), At(b, high))
<1>1. \A w : Whole!Get(r, w) = At(b, w)
  <2>. TAKE w
  <2>1. Whole!Get(r, w) = At(r, w)
    BY WholeMemory
  <2>2. At(r, w) = At(b, w)
    BY Zenon DEF At
  <2>. QED BY <2>1, <2>2
<1>2. \A low, high : Whole!WordOf(r, low, high) = Paged(At(b, low), At(b, high))
  <2>. TAKE low, high
  <2>1. Whole!Get(r, low) = At(b, low) /\ Whole!Get(r, high) = At(b, high)
    BY <1>1
  <2>. QED BY <2>1 DEF Whole!WordOf, Paged
<1>3. Whole!Wrap16(b.pc + 1) = Shift(b.pc, 1)
  BY DEF Whole!Wrap16, Shift
<1>4. Whole!Wrap16(Shift(b.pc, 1) + 1) = Shift(b.pc, 2)
  <2>1. b.pc \in Int
    BY SeenKinds, WordIs
  <2>. QED BY <2>1 DEF Whole!Wrap16, Shift
<1>5. Whole!word(r, Shift(b.pc, 1)) = Absolute(b)
  <2>1. Whole!word(r, Shift(b.pc, 1))
          = Whole!WordOf(r, Shift(b.pc, 1), Whole!Wrap16(Shift(b.pc, 1) + 1))
    BY Zenon DEF Whole!word
  <2>. QED BY <1>2, <1>4, <2>1, Zenon DEF Absolute, FirstByte, SecondByte
<1>6. \A zp : Whole!word_ind_y(r, zp) = Pointed(b, zp)
  <2>. TAKE zp
  <2>1. Whole!Wrap(zp + 1) = Lo(zp + 1)
    BY Zenon DEF Whole!Wrap, Lo
  <2>. QED BY <1>2, <2>1, Zenon DEF Whole!word_ind_y, Pointed
<1>. QED BY <1>1, <1>2, <1>3, <1>5, <1>6, Zenon DEF FirstByte

LEMMA TargetIs ==
  ASSUME NEW b, SeenTyped(b), NEW r, r.mem = b.mem, r.x = b.x, r.y = b.y,
         NEW mode \in {"imm"} \union Direct \union Indexing
  PROVE  Whole!address(r, b.pc, mode) = Target(b, mode)
<1>. DEFINE byte == Whole!Get(r, Whole!Wrap16(b.pc + 1))
            base == Whole!word(r, Whole!Wrap16(b.pc + 1))
            first == FirstByte(b)
            absolute == Absolute(b)
<1>1. byte = first /\ base = absolute
  BY WholeOperand
<1>2. \A n : Whole!Wrap(n) = Lo(n)
  BY Zenon DEF Whole!Wrap, Lo
<1>3. \A m, n : Whole!Wrap16(m + n) = Shift(m, n)
  BY DEF Whole!Wrap16, Shift
<1>4. \A low, high : Whole!WordOf(r, low, high) = Paged(At(b, low), At(b, high))
  BY WholeOperand
<1>5. CASE mode = "zp"
  BY <1>1, <1>5, Zenon DEF Whole!address, Target, Direct, Indexing
<1>6. CASE mode = "zpx"
  <2>1. Whole!address(r, b.pc, mode) = Lo(first + b.x)
    BY <1>1, <1>2, <1>6, Zenon DEF Whole!address
  <2>2. Target(b, mode) = Lo(first + b.x)
    BY <1>6, Zenon DEF Target, Indexing, IndexIn
  <2>. QED BY <2>1, <2>2
<1>7. CASE mode = "zpy"
  <2>1. Whole!address(r, b.pc, mode) = Lo(first + b.y)
    BY <1>1, <1>2, <1>7, Zenon DEF Whole!address
  <2>2. Target(b, mode) = Lo(first + b.y)
    BY <1>7, Zenon DEF Target, Indexing, IndexIn
  <2>. QED BY <2>1, <2>2
<1>8. CASE mode = "abs"
  BY <1>1, <1>8, Zenon DEF Whole!address, Target, Direct, Indexing
<1>9. CASE mode = "absx"
  <2>1. Whole!address(r, b.pc, mode) = Shift(absolute, b.x)
    BY <1>1, <1>3, <1>9, Zenon DEF Whole!address
  <2>2. Target(b, mode) = Shift(absolute, b.x)
    BY <1>9, Zenon DEF Target, Indexing, IndexIn, Unindexed
  <2>. QED BY <2>1, <2>2
<1>10. CASE mode = "absy"
  <2>1. Whole!address(r, b.pc, mode) = Shift(absolute, b.y)
    BY <1>1, <1>3, <1>10, Zenon DEF Whole!address
  <2>2. Target(b, mode) = Shift(absolute, b.y)
    BY <1>10, Zenon DEF Target, Indexing, IndexIn, Unindexed
  <2>. QED BY <2>1, <2>2
<1>11. CASE mode = "indy"
  <2>1. Whole!word_ind_y(r, first) = Pointed(b, first)
    BY WholeOperand
  <2>2. Whole!address(r, b.pc, mode) = Whole!Wrap16(Whole!word_ind_y(r, byte) + r.y)
    BY <1>11, Zenon DEF Whole!address
  <2>3. Target(b, mode) = Shift(Pointed(b, first), b.y)
    BY <1>11, Zenon DEF Target, Indexing, IndexIn, Unindexed
  <2>. HIDE DEF byte, base, first, absolute
  <2>. QED BY <1>1, <1>3, <2>1, <2>2, <2>3, Zenon
<1>12. CASE mode = "indx"
  <2>1. Whole!address(r, b.pc, mode)
          = Whole!WordOf(r, Whole!Wrap(byte + r.x), Whole!Wrap(byte + Whole!Wrap(r.x + 1)))
    BY <1>12, Zenon DEF Whole!address
  <2>2. Target(b, mode) = Pointed(b, Lo(first + b.x))
    BY <1>12, Zenon DEF Target, Indexing
  <2>3. Lo(first + Lo(b.x + 1)) = Lo(Lo(first + b.x) + 1)
    <3>1. first \in Int /\ b.x \in Int
      BY SeenKinds, OperandKinds, ByteIs
    <3>. HIDE DEF first
    <3>. QED BY <3>1 DEF Lo
  <2>. HIDE DEF byte, base, first, absolute
  <2>4. Whole!Wrap(byte + r.x) = Lo(first + b.x)
    BY <1>1, <1>2, Zenon
  <2>5. Whole!Wrap(byte + Whole!Wrap(r.x + 1)) = Lo(Lo(first + b.x) + 1)
    BY <1>1, <1>2, <2>3, Zenon
  <2>. QED BY <1>4, <2>1, <2>2, <2>4, <2>5, Zenon DEF Pointed
<1>13. CASE mode = "imm"
  <2>1. Whole!address(r, b.pc, mode) = Whole!Wrap16(b.pc + 1)
    BY <1>13, Zenon DEF Whole!address
  <2>2. Target(b, mode) = Shift(b.pc, 1)
    BY <1>13, Zenon DEF Target, Indexing
  <2>. QED BY <1>3, <2>1, <2>2, Zenon
<1>. QED BY <1>5, <1>6, <1>7, <1>8, <1>9, <1>10, <1>11, <1>12, <1>13, Zenon DEF Direct, Indexing

LEMMA VectoredIs ==
  ASSUME NEW b, SeenTyped(b), NEW r, r.mem = b.mem
  PROVE  /\ Whole!address(r, b.pc, "ind") = Vectored(b)
         /\ Whole!address(r, b.pc, "abs") = Absolute(b)
<1>. DEFINE base == Whole!word(r, Whole!Wrap16(b.pc + 1))
            absolute == Absolute(b)
            next == IF absolute % 256 = 255 THEN absolute - 255 ELSE absolute + 1
<1>1. base = absolute /\ \A w : Whole!Get(r, w) = At(b, w)
  BY WholeOperand
<1>2. Whole!address(r, b.pc, "abs") = base
  BY Zenon DEF Whole!address
<1>3. Whole!address(r, b.pc, "ind") =
        Whole!WordOf(r, base, IF base % 256 = 255 THEN base - 255 ELSE base + 1)
  BY Zenon DEF Whole!address
<1>4. next = Paged(Lo(absolute + 1), Hi(absolute))
  <2>1. absolute \in Int /\ 0 <= absolute
    BY OperandKinds, WordIs
  <2>. HIDE DEF absolute
  <2>. QED BY <2>1 DEF Paged, Lo, Hi
<1>. HIDE DEF base
<1>5. Whole!address(r, b.pc, "ind") = Whole!WordOf(r, absolute, next)
  BY <1>1, <1>3, Zenon
<1>6. Whole!WordOf(r, absolute, next) = Paged(At(b, absolute), At(b, next))
  BY WholeOperand
<1>7. Vectored(b) = Paged(At(b, absolute), At(b, next))
  BY <1>4, Zenon DEF Vectored
<1>. QED BY <1>1, <1>2, <1>5, <1>6, <1>7

-----------------------------------------------------------------------------
(* Steps that read the operand                                              *)

(* The fields that are not seen, between the steps of an instruction.       *)
SameScratch(c, d) ==
  /\ d.low_byte = c.low_byte /\ d.current_address = c.current_address /\ d.pointer = c.pointer
  /\ d.page_crossed = c.page_crossed /\ d.current_value = c.current_value

LEMMA FieldNames ==
  ASSUME NEW c, Typed(c)
  PROVE  /\ DOMAIN c = Fields
         /\ "low_byte" \in Fields /\ "current_address" \in Fields /\ "pointer" \in Fields
         /\ "page_crossed" \in Fields /\ "current_value" \in Fields /\ "bus" \in Fields
         /\ "pc" \in Fields /\ "mem" \in Fields /\ "base_high" \in Fields
BY DEF Typed, Fields, Registers, New

LEMMA FetchedIs ==
  ASSUME NEW c, Typed(c), NEW b, SeenTyped(b), NEW n \in 0 .. 3, Past(c, b, n)
  PROVE  /\ DOMAIN Fetched(c) = Fields /\ Past(Fetched(c), b, n + 1) /\ SameScratch(c, Fetched(c))
         /\ At(c, c.pc) = At(b, Shift(b.pc, n))
<1>. DEFINE w == Shift(c.pc, 1)
            log == Append(c.bus, <<"read", c.pc>>)
            d == [[c EXCEPT !.bus = log] EXCEPT !.pc = w]
<1>1. DOMAIN c = Fields
  BY FieldNames
<1>2. Fetched(c) = d
  <2>1. Fetched(c) = [[c EXCEPT !.bus = log] EXCEPT !.pc = Shift([c EXCEPT !.bus = log].pc, 1)]
    BY DEF Fetched, IncPc, Reading
  <2>2. [c EXCEPT !.bus = log].pc = c.pc
    BY FieldNames
  <2>. QED BY <2>1, <2>2
<1>. HIDE DEF w, log
<1>3. Visible(d) = [Visible(c) EXCEPT !.pc = w]
  BY <1>1 DEF Visible, Fields, Registers, New
<1>4. DOMAIN d = Fields /\ SameScratch(c, d)
  BY FieldNames DEF SameScratch
<1>. HIDE DEF d
<1>5. Past(d, b, n + 1)
  BY <1>3, PastNext DEF w
<1>6. At(c, c.pc) = At(b, Shift(b.pc, n))
  BY PastIs
<1>. QED BY <1>2, <1>4, <1>5, <1>6

LEMMA Names ==
  /\ "low_byte" \in Fields /\ "current_address" \in Fields /\ "pointer" \in Fields
  /\ "page_crossed" \in Fields /\ "current_value" \in Fields /\ "pc" \in Fields
BY DEF Fields, Registers, New

LEMMA ReadingIs ==
  ASSUME NEW c, DOMAIN c = Fields, NEW address
  PROVE  /\ DOMAIN Reading(c, address) = Fields /\ Visible(Reading(c, address)) = Visible(c)
         /\ SameScratch(c, Reading(c, address))
<1>. DEFINE log == Append(c.bus, <<"read", address>>)
            d == [c EXCEPT !.bus = log]
<1>1. Reading(c, address) = d
  BY DEF Reading
<1>. HIDE DEF log
<1>3. Visible(d) = Visible(c)
  BY DEF Visible, Fields, Registers, New
<1>4. DOMAIN d = Fields /\ SameScratch(c, d)
  BY Names DEF SameScratch
<1>. QED BY <1>1, <1>3, <1>4, Zenon

(* From one stage of an instruction to the next: absolute and zero page.    *)
LEMMA LowStep ==
  ASSUME NEW c, Typed(c), NEW b, SeenTyped(b), Past(c, b, 1)
  PROVE  Past(Low(c), b, 2) /\ Low(c).low_byte = FirstByte(b)
<1>. DEFINE d == Fetched(c)
            v == At(c, c.pc)
<1>1. DOMAIN d = Fields /\ Past(d, b, 1 + 1) /\ v = At(b, Shift(b.pc, 1))
  BY FetchedIs
<1>2. Low(c) = [d EXCEPT !.low_byte = v]
  BY DEF Low
<1>. HIDE DEF d, v
<1>3. Visible([d EXCEPT !.low_byte = v]) = Visible(d) /\ [d EXCEPT !.low_byte = v].low_byte = v
  BY <1>1, SeenNone, Names
<1>. QED BY <1>1, <1>2, <1>3 DEF Past, FirstByte

LEMMA AddressStep ==
  ASSUME NEW c, Typed(c), NEW b, SeenTyped(b), Past(c, b, 2), c.low_byte = FirstByte(b)
  PROVE  Past(AddressHigh(c), b, 3) /\ AddressHigh(c).current_address = Absolute(b)
<1>. DEFINE d == Fetched(c)
            v == Paged(c.low_byte, At(c, c.pc))
<1>1. DOMAIN d = Fields /\ Past(d, b, 2 + 1) /\ v = Absolute(b)
  BY FetchedIs DEF Absolute, SecondByte
<1>2. AddressHigh(c) = [d EXCEPT !.current_address = v]
  BY DEF AddressHigh
<1>. HIDE DEF d, v
<1>3. Visible([d EXCEPT !.current_address = v]) = Visible(d)
      /\ [d EXCEPT !.current_address = v].current_address = v
  BY <1>1, SeenNone, Names
<1>. QED BY <1>1, <1>2, <1>3 DEF Past

LEMMA ZeroPageStep ==
  ASSUME NEW c, Typed(c), NEW b, SeenTyped(b), Past(c, b, 1)
  PROVE  Past(ZeroPage(c), b, 2) /\ ZeroPage(c).current_address = FirstByte(b)
<1>. DEFINE d == Fetched(c)
            v == At(c, c.pc)
<1>1. DOMAIN d = Fields /\ Past(d, b, 1 + 1) /\ v = At(b, Shift(b.pc, 1))
  BY FetchedIs
<1>2. ZeroPage(c) = [d EXCEPT !.current_address = v]
  BY DEF ZeroPage
<1>. HIDE DEF d, v
<1>3. Visible([d EXCEPT !.current_address = v]) = Visible(d)
      /\ [d EXCEPT !.current_address = v].current_address = v
  BY <1>1, SeenNone, Names
<1>. QED BY <1>1, <1>2, <1>3 DEF Past, FirstByte

LEMMA PointerStep ==
  ASSUME NEW c, Typed(c), NEW b, SeenTyped(b), NEW n \in 1 .. 2, Past(c, b, n)
  PROVE  /\ Past(Pointer(c), b, n + 1) /\ Pointer(c).pointer = At(b, Shift(b.pc, n))
         /\ Pointer(c).low_byte = c.low_byte
<1>. DEFINE d == Fetched(c)
            v == At(c, c.pc)
<1>1. DOMAIN d = Fields /\ Past(d, b, n + 1) /\ v = At(b, Shift(b.pc, n)) /\ SameScratch(c, d)
  BY FetchedIs
<1>2. Pointer(c) = [d EXCEPT !.pointer = v]
  BY DEF Pointer
<1>. HIDE DEF d, v
<1>3. Visible([d EXCEPT !.pointer = v]) = Visible(d) /\ [d EXCEPT !.pointer = v].pointer = v
      /\ [d EXCEPT !.pointer = v].low_byte = d.low_byte
  BY <1>1, SeenNone, Names
<1>. QED BY <1>1, <1>2, <1>3 DEF Past, SameScratch

LEMMA IndexedIn ==
  ASSUME NEW c, NEW b, SeenTyped(b), NEW n, Past(c, b, n)
  PROVE  IndexOf(c) = IndexIn(b, Mode(c))
<1>1. c.x = b.x /\ c.y = b.y
  BY PastIs
<1>. QED BY <1>1, Zenon DEF IndexOf, IndexIn

LEMMA IndexStep ==
  ASSUME NEW c, Typed(c), NEW b, SeenTyped(b), Past(c, b, 2), c.current_address = FirstByte(b)
  PROVE  /\ Past(Index(c), b, 2)
         /\ Index(c).current_address = Lo(FirstByte(b) + IndexIn(b, Mode(c)))
<1>. DEFINE d == Reading(c, c.current_address)
            v == Lo(c.current_address + IndexOf(c))
<1>1. DOMAIN d = Fields /\ Visible(d) = Visible(c) /\ d.current_address = c.current_address
  BY FieldNames, ReadingIs DEF SameScratch
<1>2. v = Lo(FirstByte(b) + IndexIn(b, Mode(c)))
  BY IndexedIn
<1>3. Index(c) = [d EXCEPT !.current_address = v]
  <2>1. Index(c) = [d EXCEPT !.current_address = Lo(d.current_address + IndexOf(c))]
    BY DEF Index
  <2>. QED BY <1>1, <2>1
<1>. HIDE DEF d, v
<1>4. Visible([d EXCEPT !.current_address = v]) = Visible(d)
      /\ [d EXCEPT !.current_address = v].current_address = v
  BY <1>1, SeenNone, Names
<1>. QED BY <1>1, <1>2, <1>3, <1>4 DEF Past

LEMMA LowPointedStep ==
  ASSUME NEW c, Typed(c), NEW b, SeenTyped(b), NEW n, Past(c, b, n)
  PROVE  /\ Past(LowPointed(c), b, n) /\ LowPointed(c).current_address = c.current_address
         /\ LowPointed(c).low_byte = At(b, c.current_address)
<1>. DEFINE d == Reading(c, c.current_address)
            v == At(c, c.current_address)
<1>1. DOMAIN d = Fields /\ Visible(d) = Visible(c) /\ d.current_address = c.current_address
  BY FieldNames, ReadingIs DEF SameScratch
<1>2. v = At(b, c.current_address)
  BY PastIs
<1>3. LowPointed(c) = [d EXCEPT !.low_byte = v]
  BY DEF LowPointed
<1>. HIDE DEF d, v
<1>4. Visible([d EXCEPT !.low_byte = v]) = Visible(d) /\ [d EXCEPT !.low_byte = v].low_byte = v
      /\ [d EXCEPT !.low_byte = v].current_address = d.current_address
  BY <1>1, SeenNone, Names
<1>. QED BY <1>1, <1>2, <1>3, <1>4 DEF Past

LEMMA AddressPointedStep ==
  ASSUME NEW c, Typed(c), NEW b, SeenTyped(b), NEW n, Past(c, b, n),
         c.low_byte = At(b, c.current_address)
  PROVE  /\ Past(AddressPointed(c), b, n)
         /\ AddressPointed(c).current_address = Pointed(b, c.current_address)
<1>. DEFINE next == Lo(c.current_address + 1)
            d == Reading(c, next)
            v == Paged(c.low_byte, At(c, next))
<1>1. DOMAIN d = Fields /\ Visible(d) = Visible(c)
  BY FieldNames, ReadingIs
<1>2. v = Pointed(b, c.current_address)
  BY PastIs DEF Pointed
<1>3. AddressPointed(c) = [d EXCEPT !.current_address = v]
  BY DEF AddressPointed
<1>. HIDE DEF d, v
<1>4. Visible([d EXCEPT !.current_address = v]) = Visible(d)
      /\ [d EXCEPT !.current_address = v].current_address = v
  BY <1>1, SeenNone, Names
<1>. QED BY <1>1, <1>2, <1>3, <1>4 DEF Past

LEMMA PointerLowStep ==
  ASSUME NEW c, Typed(c), NEW b, SeenTyped(b), NEW n, Past(c, b, n)
  PROVE  /\ Past(PointerLow(c), b, n) /\ PointerLow(c).pointer = c.pointer
         /\ PointerLow(c).low_byte = At(b, c.pointer)
<1>. DEFINE d == Reading(c, c.pointer)
            v == At(c, c.pointer)
<1>1. DOMAIN d = Fields /\ Visible(d) = Visible(c) /\ d.pointer = c.pointer
  BY FieldNames, ReadingIs DEF SameScratch
<1>2. v = At(b, c.pointer)
  BY PastIs
<1>3. PointerLow(c) = [d EXCEPT !.low_byte = v]
  BY DEF PointerLow
<1>. HIDE DEF d, v
<1>4. Visible([d EXCEPT !.low_byte = v]) = Visible(d) /\ [d EXCEPT !.low_byte = v].low_byte = v
      /\ [d EXCEPT !.low_byte = v].pointer = d.pointer
  BY <1>1, SeenNone, Names
<1>. QED BY <1>1, <1>2, <1>3, <1>4 DEF Past

-----------------------------------------------------------------------------
(* Indexed addresses, in both                                               *)

(* The address is the target's, but for its page when the index carries.    *)
Near(mode, c, b) ==
  /\ c.page_crossed = (Hi(Unindexed(b, mode)) # Hi(Target(b, mode)))
  /\ c.current_address = IF c.page_crossed THEN Shift(Target(b, mode), -256) ELSE Target(b, mode)

LEMMA IndexedTarget ==
  ASSUME NEW b, NEW mode \in Indexing
  PROVE  Target(b, mode) = Shift(Unindexed(b, mode), IndexIn(b, mode))
BY Zenon DEF Target, Indexing

LEMMA IndexedIs ==
  ASSUME NEW d, DOMAIN d = Fields, NEW high, NEW index, NEW b, NEW mode,
         Paged(d.low_byte, high) = Unindexed(b, mode), Shift(Unindexed(b, mode), index) = Target(b, mode)
  PROVE  Visible(Indexed(d, high, index)) = Visible(d) /\ Near(mode, Indexed(d, high, index), b)
<1>. DEFINE old == Unindexed(b, mode)
            new == Target(b, mode)
            crossed == (Hi(old) # Hi(new))
            to == IF crossed THEN Shift(new, -256) ELSE new
            e == [d EXCEPT !.page_crossed = crossed, !.current_address = to, !.base_high = high]
<1>1. Indexed(d, high, index) = e
  <2>. HIDE DEF old, new
  <2>. QED BY Zenon DEF Indexed, old, new
<1>. HIDE DEF crossed, to
<1>2. Visible(e) = Visible(d)
  BY DEF Visible, Fields, Registers, New
<1>3. e.page_crossed = crossed /\ e.current_address = to
  BY Names
<1>. HIDE DEF e
<1>. QED BY <1>1, <1>2, <1>3, Zenon DEF Near, crossed, to

LEMMA IndexedAddressStep ==
  ASSUME NEW c, Typed(c), NEW b, SeenTyped(b), Past(c, b, 2), c.low_byte = FirstByte(b),
         Mode(c) \in {"absx", "absy"}
  PROVE  Past(IndexedAddress(c), b, 3) /\ Near(Mode(c), IndexedAddress(c), b)
<1>. DEFINE d == Fetched(c)
            high == At(c, c.pc)
            index == IndexOf(c)
<1>1. DOMAIN d = Fields /\ Past(d, b, 2 + 1) /\ high = SecondByte(b) /\ d.low_byte = c.low_byte
  BY FetchedIs DEF SecondByte, SameScratch
<1>2. index = IndexIn(b, Mode(c))
  BY IndexedIn
<1>3. Unindexed(b, Mode(c)) = Paged(d.low_byte, high)
  BY <1>1, Zenon DEF Unindexed, Absolute
<1>4. Target(b, Mode(c)) = Shift(Unindexed(b, Mode(c)), index)
  BY <1>2, IndexedTarget DEF Indexing
<1>5. IndexedAddress(c) = Indexed(d, high, index)
  BY DEF IndexedAddress
<1>. HIDE DEF d, high, index
<1>6. Visible(Indexed(d, high, index)) = Visible(d) /\ Near(Mode(c), Indexed(d, high, index), b)
  BY <1>1, <1>3, <1>4, IndexedIs
<1>. QED BY <1>1, <1>5, <1>6 DEF Past

LEMMA IndexedPointerStep ==
  ASSUME NEW c, Typed(c), NEW b, SeenTyped(b), Past(c, b, 2), c.pointer = FirstByte(b),
         c.low_byte = At(b, FirstByte(b)), Mode(c) = "indy"
  PROVE  Past(IndexedPointer(c), b, 2) /\ Near(Mode(c), IndexedPointer(c), b)
<1>. DEFINE next == Lo(c.pointer + 1)
            d == Reading(c, next)
            high == At(c, next)
            index == c.y
<1>1. DOMAIN d = Fields /\ Visible(d) = Visible(c) /\ d.low_byte = c.low_byte
  BY FieldNames, ReadingIs DEF SameScratch
<1>2. index = b.y /\ high = At(b, next)
  BY PastIs
<1>3. Unindexed(b, Mode(c)) = Paged(d.low_byte, high)
  BY <1>1, <1>2, Zenon DEF Unindexed, Pointed
<1>4. Target(b, Mode(c)) = Shift(Unindexed(b, Mode(c)), IndexIn(b, Mode(c)))
  BY IndexedTarget DEF Indexing
<1>5. IndexIn(b, Mode(c)) = index
  BY <1>2, Zenon DEF IndexIn
<1>6. IndexedPointer(c) = Indexed(d, high, index)
  BY DEF IndexedPointer
<1>. HIDE DEF next, d, high, index
<1>7. Visible(Indexed(d, high, index)) = Visible(d) /\ Near(Mode(c), Indexed(d, high, index), b)
  BY <1>1, <1>3, <1>4, <1>5, IndexedIs
<1>. QED BY <1>1, <1>6, <1>7 DEF Past

(* The value, before or after the address is fixed.                         *)
LEMMA ValueIs ==
  ASSUME NEW c, DOMAIN c = Fields
  PROVE  /\ Visible(Value(c)) = Visible(c) /\ DOMAIN Value(c) = Fields
         /\ Value(c).current_address = c.current_address /\ Value(c).pointer = c.pointer
         /\ Value(c).page_crossed = c.page_crossed
         /\ Value(c).current_value = At(c, c.current_address)
<1>. DEFINE d == Reading(c, c.current_address)
            v == At(c, c.current_address)
<1>1. DOMAIN d = Fields /\ Visible(d) = Visible(c) /\ SameScratch(c, d)
  BY ReadingIs
<1>2. Value(c) = [d EXCEPT !.current_value = v]
  BY DEF Value
<1>. HIDE DEF d, v
<1>3. Visible([d EXCEPT !.current_value = v]) = Visible(d)
  BY <1>1, SeenNone
<1>4. /\ [d EXCEPT !.current_value = v].current_value = v
      /\ [d EXCEPT !.current_value = v].current_address = d.current_address
      /\ [d EXCEPT !.current_value = v].pointer = d.pointer
      /\ [d EXCEPT !.current_value = v].page_crossed = d.page_crossed
      /\ DOMAIN [d EXCEPT !.current_value = v] = Fields
  BY <1>1, Names
<1>. QED BY <1>1, <1>2, <1>3, <1>4, Zenon DEF SameScratch, v

LEMMA FixedIs ==
  ASSUME NEW c, DOMAIN c = Fields
  PROVE  /\ Visible(Fixed(c)) = Visible(c) /\ DOMAIN Fixed(c) = Fields
         /\ Fixed(c).current_address =
              IF c.page_crossed THEN Shift(c.current_address, 256) ELSE c.current_address
         /\ Fixed(c).current_value = c.current_value
<1>. DEFINE to == IF c.page_crossed THEN Shift(c.current_address, 256) ELSE c.current_address
<1>1. Fixed(c) = [c EXCEPT !.current_address = to]
  BY DEF Fixed
<1>4. to = IF c.page_crossed THEN Shift(c.current_address, 256) ELSE c.current_address
  OBVIOUS
<1>. HIDE DEF to
<1>2. Visible([c EXCEPT !.current_address = to]) = Visible(c)
  BY SeenNone
<1>3. /\ [c EXCEPT !.current_address = to].current_address = to
      /\ DOMAIN [c EXCEPT !.current_address = to] = Fields
      /\ [c EXCEPT !.current_address = to].current_value = c.current_value
  BY Names
<1>. QED BY <1>1, <1>2, <1>3, <1>4

LEMMA TargetWord ==
  ASSUME NEW b, SeenTyped(b), NEW mode \in {"imm"} \union Direct \union Indexing
  PROVE  Target(b, mode) \in Word
<1>1. /\ FirstByte(b) \in Byte /\ SecondByte(b) \in Byte /\ Absolute(b) \in Word
      /\ IndexIn(b, mode) \in Byte /\ Unindexed(b, mode) \in Word
      /\ \A zp \in Byte : Pointed(b, zp) \in Word
  BY OperandKinds
<1>2. b.x \in Byte /\ b.pc \in Word
  BY SeenKinds
<1>3. /\ FirstByte(b) \in Word /\ Lo(FirstByte(b) + b.x) \in Byte
      /\ Lo(FirstByte(b) + IndexIn(b, mode)) \in Word
  BY <1>1, <1>2, ByteIs, WordIs DEF Lo
<1>4. Shift(Unindexed(b, mode), IndexIn(b, mode)) \in Word /\ Shift(b.pc, 1) \in Word
  <2>1. Unindexed(b, mode) \in Int /\ IndexIn(b, mode) \in Int /\ b.pc \in Int /\ 1 \in Int
    BY <1>1, <1>2, ByteIs, WordIs
  <2>. QED BY <2>1, ShiftWord
<1>5. CASE mode \in Indexing
  BY <1>4, <1>5, IndexedTarget
<1>6. CASE mode = "zp"
  BY <1>3, <1>6, Zenon DEF Target, Indexing
<1>7. CASE mode \in {"zpx", "zpy"}
  <2>1. Target(b, mode) = Lo(FirstByte(b) + IndexIn(b, mode))
    BY <1>7, Zenon DEF Target, Indexing
  <2>. QED BY <1>3, <2>1
<1>8. CASE mode = "abs"
  BY <1>1, <1>8, Zenon DEF Target, Indexing
<1>9. CASE mode = "indx"
  <2>1. Target(b, mode) = Pointed(b, Lo(FirstByte(b) + b.x))
    BY <1>9, Zenon DEF Target, Indexing
  <2>. QED BY <1>1, <1>3, <2>1
<1>10. CASE mode = "imm"
  BY <1>4, <1>10, Zenon DEF Target, Indexing
<1>. QED BY <1>5, <1>6, <1>7, <1>8, <1>9, <1>10, Zenon DEF Direct

LEMMA NearFixed ==
  ASSUME NEW c, NEW b, SeenTyped(b), NEW mode \in Indexing, Near(mode, c, b)
  PROVE  (IF c.page_crossed THEN Shift(c.current_address, 256) ELSE c.current_address)
           = Target(b, mode)
<1>. DEFINE t == Target(b, mode)
<1>1. t \in Word
  BY TargetWord
<1>2. c.current_address = IF c.page_crossed THEN Shift(t, -256) ELSE t
  BY DEF Near
<1>. HIDE DEF t
<1>3. t \in Int /\ 0 <= t /\ t <= 65535
  BY <1>1, WordIs
<1>4. Shift(Shift(t, -256), 256) = t
  BY <1>3 DEF Shift
<1>5. (IF c.page_crossed THEN Shift(c.current_address, 256) ELSE c.current_address) = t
  BY <1>2, <1>4, Zenon
<1>. QED BY <1>5 DEF t

LEMMA NearValue ==
  ASSUME NEW c, Typed(c), NEW b, SeenTyped(b), NEW mode \in Indexing, NEW n, Past(c, b, n),
         Near(mode, c, b)
  PROVE  /\ Past(Value(c), b, n) /\ Near(mode, Value(c), b)
         /\ Value(c).current_value = At(b, Value(c).current_address)
<1>1. /\ Visible(Value(c)) = Visible(c) /\ Value(c).current_address = c.current_address
      /\ Value(c).page_crossed = c.page_crossed
      /\ Value(c).current_value = At(c, c.current_address)
  BY FieldNames, ValueIs
<1>2. At(c, c.current_address) = At(b, c.current_address)
  BY PastIs
<1>. QED BY <1>1, <1>2, Zenon DEF Past, Near

LEMMA NearFix ==
  ASSUME NEW c, Typed(c), NEW b, SeenTyped(b), NEW mode \in Indexing, NEW n, Past(c, b, n),
         Near(mode, c, b)
  PROVE  /\ Past(ValueThenFix(c), b, n) /\ ValueThenFix(c).current_address = Target(b, mode)
<1>. DEFINE d == Value(c)
<1>1. /\ Visible(d) = Visible(c) /\ Near(mode, d, b) /\ DOMAIN d = Fields
  BY FieldNames, ValueIs, NearValue
<1>2. ValueThenFix(c) = Fixed(d)
  BY DEF ValueThenFix
<1>. HIDE DEF d
<1>3. /\ Visible(Fixed(d)) = Visible(d)
      /\ Fixed(d).current_address =
           IF d.page_crossed THEN Shift(d.current_address, 256) ELSE d.current_address
  BY <1>1, FixedIs
<1>4. (IF d.page_crossed THEN Shift(d.current_address, 256) ELSE d.current_address) = Target(b, mode)
  BY <1>1, NearFixed
<1>5. Fixed(d).current_address = Target(b, mode)
  BY <1>3, <1>4
<1>. QED BY <1>1, <1>2, <1>3, <1>5, Zenon DEF Past

LEMMA FixValue ==
  ASSUME NEW c, Typed(c), NEW b, SeenTyped(b), NEW mode \in Indexing, NEW n, Past(c, b, n),
         Near(mode, c, b)
  PROVE  /\ Past(FixThenValue(c), b, n) /\ FixThenValue(c).current_address = Target(b, mode)
         /\ FixThenValue(c).current_value = At(b, Target(b, mode))
<1>. DEFINE d == Fixed(c)
<1>0. DOMAIN c = Fields
  BY FieldNames
<1>1. /\ Visible(d) = Visible(c) /\ DOMAIN d = Fields
      /\ d.current_address =
           IF c.page_crossed THEN Shift(c.current_address, 256) ELSE c.current_address
  BY <1>0, FixedIs
<1>2. d.current_address = Target(b, mode)
  BY <1>1, NearFixed
<1>3. FixThenValue(c) = Value(d)
  BY DEF FixThenValue
<1>. HIDE DEF d
<1>4. /\ Visible(Value(d)) = Visible(d) /\ Value(d).current_address = d.current_address
      /\ Value(d).current_value = At(d, d.current_address)
  BY <1>1, ValueIs
<1>5. Past(d, b, n)
  BY <1>1 DEF Past
<1>6. At(d, d.current_address) = At(b, d.current_address)
  BY <1>5, PastIs
<1>. QED BY <1>2, <1>3, <1>4, <1>5, <1>6, Zenon DEF Past

LEMMA AimedValue ==
  ASSUME NEW c, DOMAIN c = Fields, NEW b, SeenTyped(b), NEW n, Past(c, b, n)
  PROVE  /\ Past(Value(c), b, n) /\ Value(c).current_address = c.current_address
         /\ Value(c).current_value = At(b, c.current_address)
<1>1. /\ Visible(Value(c)) = Visible(c) /\ Value(c).current_address = c.current_address
      /\ Value(c).current_value = At(c, c.current_address)
  BY ValueIs
<1>2. At(c, c.current_address) = At(b, c.current_address)
  BY PastIs
<1>. QED BY <1>1, <1>2, Zenon DEF Past

LEMMA UnfixedIs ==
  ASSUME NEW c, Typed(c), NEW b, SeenTyped(b), Past(c, b, 3)
  PROVE  LET added == c.low_byte + IndexIn(b, Mode(c))
         IN /\ Past(Unfixed(c), b, 3) /\ Unfixed(c).pointer = added
            /\ Unfixed(c).current_address = Paged(Lo(added), c.pointer)
<1>. DEFINE added == c.low_byte + IndexIn(b, Mode(c))
            to == Paged(Lo(added), c.pointer)
            d == [c EXCEPT !.current_address = to, !.pointer = added]
<1>1. IndexOf(c) = IndexIn(b, Mode(c))
  BY IndexedIn
<1>2. Unfixed(c) = Value(d)
  BY <1>1, Zenon DEF Unfixed
<1>. HIDE DEF to, added
<1>3. DOMAIN c = Fields
  BY FieldNames
<1>4. Visible(d) = Visible(c)
  BY <1>3 DEF Visible, Fields, Registers, New
<1>5. DOMAIN d = Fields /\ d.current_address = to /\ d.pointer = added
  BY <1>3, Names
<1>. HIDE DEF d
<1>6. /\ Visible(Value(d)) = Visible(d) /\ Value(d).current_address = d.current_address
      /\ Value(d).pointer = d.pointer
  BY <1>5, ValueIs
<1>. QED BY <1>2, <1>4, <1>5, <1>6, Zenon DEF Past, to, added

LEMMA Carried ==
  ASSUME NEW low \in Byte, NEW high \in Byte, NEW index \in Byte
  PROVE  (IF low + index >= 256 THEN Shift(Paged(Lo(low + index), high), 256)
                                ELSE Paged(Lo(low + index), high))
           = Shift(Paged(low, high), index)
<1>. DEFINE added == low + index
<1>1. /\ low \in Int /\ 0 <= low /\ low <= 255 /\ index \in Int /\ 0 <= index /\ index <= 255
      /\ high \in Int /\ 0 <= high /\ high <= 255
  BY ByteIs
<1>2. CASE added >= 256
  <2>1. Lo(added) = added - 256
    BY <1>1, <1>2 DEF Lo
  <2>2. Paged(added - 256, high) + 256 = Paged(low, high) + index
    BY <1>1 DEF Paged
  <2>. QED BY <1>2, <2>1, <2>2 DEF Shift
<1>3. CASE ~(added >= 256)
  <2>1. Lo(added) = added
    BY <1>1, <1>3 DEF Lo
  <2>2. Paged(added, high) = Paged(low, high) + index
    BY <1>1 DEF Paged
  <2>3. Paged(added, high) % 65536 = Paged(added, high)
    BY <1>1, <1>3 DEF Paged
  <2>. QED BY <1>3, <2>1, <2>2, <2>3 DEF Shift
<1>. QED BY <1>2, <1>3

LEMMA CarryStep ==
  ASSUME NEW c, Typed(c), NEW b, SeenTyped(b), NEW mode \in {"absx", "absy"}, Past(c, b, 3),
         c.pointer = FirstByte(b) + IndexIn(b, mode),
         c.current_address = Paged(Lo(c.pointer), SecondByte(b))
  PROVE  /\ Past(CarryThenValue(c), b, 3) /\ CarryThenValue(c).current_address = Target(b, mode)
         /\ CarryThenValue(c).current_value = At(b, Target(b, mode))
<1>. DEFINE to == IF c.pointer >= 256 THEN Shift(c.current_address, 256) ELSE c.current_address
            d == [c EXCEPT !.current_address = to]
<1>1. CarryThenValue(c) = Value(d)
  BY DEF CarryThenValue
<1>2. FirstByte(b) \in Byte /\ SecondByte(b) \in Byte /\ IndexIn(b, mode) \in Byte
  BY OperandKinds
<1>3. to = Shift(Paged(FirstByte(b), SecondByte(b)), IndexIn(b, mode))
  <2>1. (IF FirstByte(b) + IndexIn(b, mode) >= 256
         THEN Shift(Paged(Lo(FirstByte(b) + IndexIn(b, mode)), SecondByte(b)), 256)
         ELSE Paged(Lo(FirstByte(b) + IndexIn(b, mode)), SecondByte(b)))
           = Shift(Paged(FirstByte(b), SecondByte(b)), IndexIn(b, mode))
    BY <1>2, Carried
  <2>. QED BY <2>1, Zenon
<1>4. Target(b, mode) = to
  <2>1. Target(b, mode) = Shift(Unindexed(b, mode), IndexIn(b, mode))
    BY IndexedTarget DEF Indexing
  <2>2. Unindexed(b, mode) = Absolute(b)
    BY Zenon DEF Unindexed
  <2>. QED BY <1>3, <2>1, <2>2, Zenon DEF Absolute
<1>. HIDE DEF to
<1>5. DOMAIN c = Fields
  BY FieldNames
<1>6. Visible(d) = Visible(c)
  BY <1>5, SeenNone
<1>7. DOMAIN d = Fields /\ d.current_address = to
  BY <1>5, Names
<1>. HIDE DEF d
<1>8. Past(d, b, 3)
  BY <1>6 DEF Past
<1>9. /\ Past(Value(d), b, 3) /\ Value(d).current_address = d.current_address
      /\ Value(d).current_value = At(b, d.current_address)
  BY <1>7, <1>8, AimedValue
<1>. QED BY <1>1, <1>4, <1>7, <1>9, Zenon

LEMMA WritingIs ==
  ASSUME NEW c, DOMAIN c = Fields, NEW to, NEW v
  PROVE  /\ Visible(Writing(c, to, v)) = [Visible(c) EXCEPT !.mem = Written(c.mem, to, v)]
         /\ DOMAIN Writing(c, to, v) = Fields /\ SameScratch(c, Writing(c, to, v))
<1>. DEFINE m == Written(c.mem, to, v)
            log == Append(c.bus, <<"write", to>>)
            d == [c EXCEPT !.mem = m, !.bus = log]
<1>1. Writing(c, to, v) = d
  BY DEF Writing
<1>. HIDE DEF m, log
<1>2. Visible(d) = [Visible(c) EXCEPT !.mem = m]
  BY DEF Visible, Fields, Registers, New
<1>3. DOMAIN d = Fields /\ SameScratch(c, d)
  BY Names DEF SameScratch
<1>. HIDE DEF d
<1>. QED BY <1>1, <1>2, <1>3, Zenon DEF m

-----------------------------------------------------------------------------
(* How far an instruction has come                                          *)

(* How far an instruction has come, and what the processor holds then, for  *)
(* the registers and memory b it started from.                              *)
After(b, n) == [b EXCEPT !.pc = Shift(b.pc, n)]

Popping(r) == [Whole!inc(r) EXCEPT !.pc = Paged(Whole!TopByte(r), Hi(r.pc))]
Popped(r) == [Whole!inc(Whole!inc(r)) EXCEPT !.pc = Whole!TopWord(r)]
PushedHigh(r) == Whole!push_byte(r, Hi(r.pc))
Pushed(r) == Whole!push_byte(PushedHigh(r), Lo(r.pc))
Branching(op, b) == Whole!branch(op, After(b, 2), b.pc)
StatusPulled(r) == Whole!set_value(Whole!inc(r), Whole!TopByte(r))

WrittenBack(b, mode) ==
  [After(b, Bytes(mode)) EXCEPT
     !.mem = Written(b.mem, Target(b, mode), At(b, Target(b, mode)))]
Settled(c) == [Visible(c) EXCEPT !.pc = IF c.page_crossed THEN c.current_address ELSE @]

Reached(stage, op, mode, c, b) ==
  CASE stage = "start" -> Past(c, b, 1)
    [] stage = "low" -> Past(c, b, 2) /\ c.low_byte = FirstByte(b)
    [] stage = "address" -> Past(c, b, 3) /\ c.current_address = Absolute(b)
    [] stage = "jump" -> /\ Past(c, b, 3) /\ c.current_address = Absolute(b)
                         /\ c.low_byte = At(b, Absolute(b))
    [] stage = "zero page" -> Past(c, b, 2) /\ c.current_address = FirstByte(b)
    [] stage = "index" -> Past(c, b, 2) /\ c.current_address = Lo(FirstByte(b) + b.x)
    [] stage = "low pointed" -> /\ Past(c, b, 2) /\ c.current_address = Lo(FirstByte(b) + b.x)
                                /\ c.low_byte = At(b, c.current_address)
    [] stage = "pointer" -> Past(c, b, 2) /\ c.pointer = FirstByte(b)
    [] stage = "pointer low" -> /\ Past(c, b, 2) /\ c.pointer = FirstByte(b)
                                /\ c.low_byte = At(b, FirstByte(b))
    [] stage = "near" -> Past(c, b, Bytes(mode)) /\ Near(mode, c, b)
    [] stage = "near valued" -> /\ Past(c, b, Bytes(mode)) /\ Near(mode, c, b)
                                /\ c.current_value = At(b, c.current_address)
    [] stage = "aimed" -> Past(c, b, Bytes(mode)) /\ c.current_address = Target(b, mode)
    [] stage = "valued" -> /\ Past(c, b, Bytes(mode)) /\ c.current_address = Target(b, mode)
                           /\ c.current_value = At(b, Target(b, mode))
    [] stage = "base" -> /\ Past(c, b, 3) /\ c.low_byte = FirstByte(b)
                         /\ c.pointer = SecondByte(b)
    [] stage = "unfixed" -> /\ Past(c, b, 3) /\ c.pointer = FirstByte(b) + IndexIn(b, mode)
                            /\ c.current_address = Paged(Lo(c.pointer), SecondByte(b))
    [] stage = "written" -> /\ Visible(c) = WrittenBack(b, mode)
                            /\ c.current_address = Target(b, mode)
                            /\ c.current_value = At(b, Target(b, mode))
    [] stage = "pushed high" -> Visible(c) = PushedHigh(After(b, 2)) /\ c.low_byte = FirstByte(b)
    [] stage = "pushed" -> Visible(c) = Pushed(After(b, 2)) /\ c.low_byte = FirstByte(b)
    [] stage = "status" -> Visible(c) = StatusPulled(After(b, 1))
    [] stage = "return low" -> Visible(c) = Popping(StatusPulled(After(b, 1)))
    [] stage = "pulled low" -> Visible(c) = Popping(After(b, 1))
    [] stage = "pulled" -> Visible(c) = Popped(After(b, 1))
    [] stage = "branched" -> Settled(c) = Branching(op, b).r

LEMMA Stages ==
  ASSUME NEW op, NEW mode, NEW c, NEW b
  PROVE  /\ Reached("start", op, mode, c, b) <=> Past(c, b, 1)
         /\ Reached("low", op, mode, c, b) <=> (Past(c, b, 2) /\ c.low_byte = FirstByte(b))
         /\ Reached("address", op, mode, c, b) <=>
              /\ Past(c, b, 3)
              /\ c.current_address = Absolute(b)
         /\ Reached("jump", op, mode, c, b) <=>
              /\ Past(c, b, 3)
              /\ c.current_address = Absolute(b)
              /\ c.low_byte = At(b, Absolute(b))
         /\ Reached("zero page", op, mode, c, b) <=>
              /\ Past(c, b, 2)
              /\ c.current_address = FirstByte(b)
         /\ Reached("index", op, mode, c, b) <=>
              /\ Past(c, b, 2)
              /\ c.current_address = Lo(FirstByte(b) + b.x)
         /\ Reached("low pointed", op, mode, c, b) <=>
              /\ Past(c, b, 2)
              /\ c.current_address = Lo(FirstByte(b) + b.x)
              /\ c.low_byte = At(b, c.current_address)
         /\ Reached("pointer", op, mode, c, b) <=> (Past(c, b, 2) /\ c.pointer = FirstByte(b))
         /\ Reached("pointer low", op, mode, c, b) <=>
              /\ Past(c, b, 2)
              /\ c.pointer = FirstByte(b)
              /\ c.low_byte = At(b, FirstByte(b))
         /\ Reached("near", op, mode, c, b) <=> (Past(c, b, Bytes(mode)) /\ Near(mode, c, b))
         /\ Reached("near valued", op, mode, c, b) <=>
              /\ Past(c, b, Bytes(mode))
              /\ Near(mode, c, b)
              /\ c.current_value = At(b, c.current_address)
         /\ Reached("aimed", op, mode, c, b) <=>
              /\ Past(c, b, Bytes(mode))
              /\ c.current_address = Target(b, mode)
         /\ Reached("valued", op, mode, c, b) <=>
              /\ Past(c, b, Bytes(mode))
              /\ c.current_address = Target(b, mode)
              /\ c.current_value = At(b, Target(b, mode))
         /\ Reached("base", op, mode, c, b) <=>
              /\ Past(c, b, 3)
              /\ c.low_byte = FirstByte(b)
              /\ c.pointer = SecondByte(b)
         /\ Reached("unfixed", op, mode, c, b) <=>
              /\ Past(c, b, 3)
              /\ c.pointer = FirstByte(b) + IndexIn(b, mode)
              /\ c.current_address = Paged(Lo(c.pointer), SecondByte(b))
         /\ Reached("written", op, mode, c, b) <=>
              /\ Visible(c) = WrittenBack(b, mode)
              /\ c.current_address = Target(b, mode)
              /\ c.current_value = At(b, Target(b, mode))
         /\ Reached("pushed high", op, mode, c, b) <=>
              /\ Visible(c) = PushedHigh(After(b, 2))
              /\ c.low_byte = FirstByte(b)
         /\ Reached("pushed", op, mode, c, b) <=>
              /\ Visible(c) = Pushed(After(b, 2))
              /\ c.low_byte = FirstByte(b)
         /\ Reached("status", op, mode, c, b) <=> (Visible(c) = StatusPulled(After(b, 1)))
         /\ Reached("return low", op, mode, c, b) <=>
              /\ Visible(c) = Popping(StatusPulled(After(b, 1)))
         /\ Reached("pulled low", op, mode, c, b) <=> (Visible(c) = Popping(After(b, 1)))
         /\ Reached("pulled", op, mode, c, b) <=> (Visible(c) = Popped(After(b, 1)))
         /\ Reached("branched", op, mode, c, b) <=> (Settled(c) = Branching(op, b).r)
BY Zenon DEF Reached

-----------------------------------------------------------------------------
(* Steps on the stack                                                       *)

LEMMA AfterIs ==
  ASSUME NEW b, DOMAIN b = Registers, NEW n
  PROVE  /\ DOMAIN After(b, n) = Registers /\ After(b, n).pc = Shift(b.pc, n)
         /\ After(b, n).mem = b.mem /\ After(b, n).x = b.x /\ After(b, n).y = b.y
         /\ After(b, n).a = b.a /\ After(b, n).s = b.s /\ After(b, n).d = b.d
         /\ After(b, n).c = b.c
<1>. DEFINE w == Shift(b.pc, n)
<1>1. After(b, n) = [b EXCEPT !.pc = w]
  BY DEF After
<1>. HIDE DEF w
<1>2. /\ DOMAIN [b EXCEPT !.pc = w] = Registers /\ [b EXCEPT !.pc = w].pc = w
      /\ [b EXCEPT !.pc = w].mem = b.mem /\ [b EXCEPT !.pc = w].x = b.x
      /\ [b EXCEPT !.pc = w].y = b.y /\ [b EXCEPT !.pc = w].a = b.a
      /\ [b EXCEPT !.pc = w].s = b.s /\ [b EXCEPT !.pc = w].d = b.d /\ [b EXCEPT !.pc = w].c = b.c
  BY DEF Registers
<1>. QED BY <1>1, <1>2 DEF w

LEMMA WriteBackStep ==
  ASSUME NEW c, DOMAIN c = Fields, NEW b, SeenTyped(b), NEW n, Past(c, b, n), NEW to, NEW v,
         c.current_address = to, c.current_value = v
  PROVE  /\ Visible(WriteBack(c)) = [After(b, n) EXCEPT !.mem = Written(b.mem, to, v)]
         /\ WriteBack(c).current_address = to /\ WriteBack(c).current_value = v
<1>1. WriteBack(c) = Writing(c, to, v)
  BY DEF WriteBack
<1>2. /\ Visible(Writing(c, to, v)) = [Visible(c) EXCEPT !.mem = Written(c.mem, to, v)]
      /\ SameScratch(c, Writing(c, to, v))
  BY WritingIs
<1>3. Visible(c) = After(b, n) /\ c.mem = b.mem
  BY PastIs DEF Past, After
<1>. QED BY <1>1, <1>2, <1>3, Zenon DEF SameScratch

(* The stack.                                                               *)
LEMMA PushKeeps ==
  ASSUME NEW c, DOMAIN c = Fields, NEW v
  PROVE  /\ Push(c, v).low_byte = c.low_byte /\ Push(c, v).pc = c.pc
         /\ DOMAIN Push(c, v) = Fields
<1>. DEFINE d == Writing(c, OnStack(c.s), v)
            s == (d.s - 1) % 256
<1>1. DOMAIN d = Fields /\ SameScratch(c, d) /\ d.pc = c.pc
  BY WritingIs, Names DEF Writing
<1>2. Push(c, v) = [d EXCEPT !.s = s]
  BY DEF Push
<1>. HIDE DEF d, s
<1>3. DOMAIN [d EXCEPT !.s = s] = Fields /\ [d EXCEPT !.s = s].low_byte = d.low_byte
      /\ [d EXCEPT !.s = s].pc = d.pc
  BY <1>1, Names
<1>. QED BY <1>1, <1>2, <1>3 DEF SameScratch

LEMMA PopKeeps ==
  ASSUME NEW c, DOMAIN c = Fields
  PROVE  DOMAIN Pop(c) = Fields /\ Pop(c).pc = c.pc
<1>. DEFINE d == Reading(c, OnStack((c.s + 1) % 256))
            s == (d.s + 1) % 256
<1>1. DOMAIN d = Fields /\ d.pc = c.pc
  BY Names DEF Reading
<1>2. Pop(c) = [d EXCEPT !.s = s]
  BY DEF Pop
<1>. HIDE DEF d, s
<1>3. DOMAIN [d EXCEPT !.s = s] = Fields /\ [d EXCEPT !.s = s].pc = d.pc
  BY <1>1, Names
<1>. QED BY <1>1, <1>2, <1>3

LEMMA PushHighStep ==
  ASSUME NEW c, DOMAIN c = Fields, NEW r, Visible(c) = r
  PROVE  Visible(PushPch(c)) = PushedHigh(r) /\ PushPch(c).low_byte = c.low_byte
<1>1. PushPch(c) = Push(c, Hi(c.pc)) /\ r.pc = c.pc
  BY SeenFields DEF PushPch
<1>. DEFINE v == Hi(c.pc)
<1>2. PushedHigh(r) = Whole!push_byte(Visible(c), v) /\ PushPch(c) = Push(c, v)
  BY <1>1, Zenon DEF PushedHigh
<1>. HIDE DEF v
<1>3. Visible(Push(c, v)) = Whole!push_byte(Visible(c), v) /\ Push(c, v).low_byte = c.low_byte
  BY SeenPush, PushKeeps
<1>. QED BY <1>2, <1>3

LEMMA PushLowStep ==
  ASSUME NEW c, DOMAIN c = Fields, NEW r, DOMAIN r = Registers, Visible(c) = PushedHigh(r)
  PROVE  Visible(PushPcl(c)) = Pushed(r) /\ PushPcl(c).low_byte = c.low_byte
<1>. DEFINE v == Lo(c.pc)
            h == Hi(r.pc)
<1>1. PushPcl(c) = Push(c, v)
  BY DEF PushPcl
<1>2. Visible(c).pc = c.pc
  BY SeenFields
<1>3. PushedHigh(r).pc = r.pc
  <2>1. PushedHigh(r) = Whole!push_byte(r, h)
    BY DEF PushedHigh
  <2>. HIDE DEF h
  <2>. DEFINE q == Whole!Set(r, 256 + r.s, h)
              s == Whole!Wrap(q.s - 1)
              m == Written(r.mem, 256 + r.s, h)
  <2>2. q = [r EXCEPT !.mem = m]
    BY WholeMemory
  <2>3. Whole!push_byte(r, h) = [q EXCEPT !.s = s]
    BY DEF Whole!push_byte
  <2>. HIDE DEF s, m, q
  <2>4. DOMAIN q = Registers /\ q.pc = r.pc
    BY <2>2 DEF Registers
  <2>5. [q EXCEPT !.s = s].pc = q.pc
    BY <2>4 DEF Registers
  <2>. QED BY <2>1, <2>3, <2>4, <2>5
<1>4. Pushed(r) = Whole!push_byte(Visible(c), v)
  BY <1>2, <1>3, Zenon DEF Pushed
<1>. HIDE DEF v
<1>5. Visible(Push(c, v)) = Whole!push_byte(Visible(c), v) /\ Push(c, v).low_byte = c.low_byte
  BY SeenPush, PushKeeps
<1>. QED BY <1>1, <1>4, <1>5

LEMMA PullStatusStep ==
  ASSUME NEW c, DOMAIN c = Fields
  PROVE  Visible(PullStatus(c)) = StatusPulled(Visible(c))
<1>1. Visible(Pop(c)) = Whole!inc(Visible(c)) /\ Top(c) = Whole!TopByte(Visible(c))
  BY SeenPop
<1>2. DOMAIN Pop(c) = Fields
  BY PopKeeps
<1>3. Visible(SetStatus(Pop(c), Top(c))) = Whole!set_value(Visible(Pop(c)), Top(c))
  BY <1>2, SeenStatus
<1>. QED BY <1>1, <1>3, Zenon DEF PullStatus, StatusPulled

LEMMA PullLowStep ==
  ASSUME NEW c, DOMAIN c = Fields
  PROVE  Visible(PullPcl(c)) = Popping(Visible(c))
<1>. DEFINE d == Pop(c)
            w == Paged(Top(c), Hi(c.pc))
<1>1. Visible(d) = Whole!inc(Visible(c)) /\ Top(c) = Whole!TopByte(Visible(c)) /\ Visible(c).pc = c.pc
  BY SeenPop, SeenFields
<1>2. DOMAIN d = Fields /\ d.pc = c.pc
  BY PopKeeps
<1>3. PullPcl(c) = [d EXCEPT !.pc = w]
  BY <1>2 DEF PullPcl
<1>4. Popping(Visible(c)) = [Visible(d) EXCEPT !.pc = w]
  BY <1>1 DEF Popping
<1>. HIDE DEF d, w
<1>5. Visible([d EXCEPT !.pc = w]) = [Visible(d) EXCEPT !.pc = w]
  BY <1>2 DEF Visible, Fields, Registers, New
<1>. QED BY <1>3, <1>4, <1>5

LEMMA Incremented ==
  ASSUME NEW r, DOMAIN r = Registers
  PROVE  /\ DOMAIN Whole!inc(r) = Registers /\ Whole!inc(r).mem = r.mem /\ Whole!inc(r).pc = r.pc
         /\ \A w : /\ Whole!inc([r EXCEPT !.pc = w]) = [Whole!inc(r) EXCEPT !.pc = w]
                   /\ Whole!TopByte([r EXCEPT !.pc = w]) = Whole!TopByte(r)
<1>. DEFINE s == Whole!Wrap(r.s + 1)
<1>1. \A q : Whole!inc(q) = [q EXCEPT !.s = Whole!Wrap(q.s + 1)]
  BY DEF Whole!inc
<1>2. Whole!inc(r) = [r EXCEPT !.s = s]
  BY <1>1
<1>3. \A w : [r EXCEPT !.pc = w].s = r.s /\ [r EXCEPT !.pc = w].mem = r.mem
  BY DEF Registers
<1>4. \A w : Whole!inc([r EXCEPT !.pc = w]) = [[r EXCEPT !.pc = w] EXCEPT !.s = s]
  BY <1>1, <1>3
<1>5. \A w : Whole!TopByte([r EXCEPT !.pc = w]) = Whole!TopByte(r)
  <2>. TAKE w
  <2>. DEFINE q == [r EXCEPT !.pc = w]
  <2>1. q.s = r.s /\ q.mem = r.mem
    BY <1>3
  <2>. HIDE DEF q
  <2>2. Whole!TopByte(q) = Whole!TopByte(r)
    BY <2>1, Zenon DEF Whole!TopByte, Whole!Get
  <2>. QED BY <2>2 DEF q
<1>. HIDE DEF s
<1>6. \A w : [[r EXCEPT !.pc = w] EXCEPT !.s = s] = [[r EXCEPT !.s = s] EXCEPT !.pc = w]
  BY DEF Registers
<1>7. DOMAIN [r EXCEPT !.s = s] = Registers /\ [r EXCEPT !.s = s].mem = r.mem
      /\ [r EXCEPT !.s = s].pc = r.pc
  BY DEF Registers
<1>. QED BY <1>2, <1>4, <1>5, <1>6, <1>7

LEMMA PullHighStep ==
  ASSUME NEW c, DOMAIN c = Fields, NEW r, DOMAIN r = Registers, r.pc \in Int, Whole!TopByte(r) \in Byte,
         Visible(c) = Popping(r)
  PROVE  Visible(PullPch(c)) = Popped(r)
<1>. DEFINE d == Pop(c)
            p == Whole!inc(r)
            u == Paged(Whole!TopByte(r), Hi(r.pc))
            w == Paged(Lo(c.pc), Top(c))
<1>0. DOMAIN p = Registers
  BY Incremented
<1>1. Visible(c) = [p EXCEPT !.pc = u]
  BY DEF Popping
<1>2. Visible(d) = Whole!inc(Visible(c)) /\ Top(c) = Whole!TopByte(Visible(c)) /\ Visible(c).pc = c.pc
  BY SeenPop, SeenFields
<1>3. DOMAIN d = Fields /\ d.pc = c.pc
  BY PopKeeps
<1>4. PullPch(c) = [d EXCEPT !.pc = w]
  BY <1>3 DEF PullPch
<1>5. c.pc = u
  <2>. HIDE DEF u, p
  <2>. QED BY <1>0, <1>1, <1>2 DEF Registers
<1>6. Top(c) = Whole!TopByte(p) /\ Visible(d) = [Whole!inc(p) EXCEPT !.pc = u]
  <2>. HIDE DEF u, p
  <2>. QED BY <1>0, <1>1, <1>2, Incremented
<1>7. w = Whole!TopWord(r)
  <2>1. Lo(u) = Whole!TopByte(r)
    <3>. DEFINE t == Whole!TopByte(r)
                h == Hi(r.pc)
    <3>1. t \in Int /\ 0 <= t /\ t <= 255
      BY ByteIs
    <3>2. h \in Int
      BY DEF Hi
    <3>. HIDE DEF t, h
    <3>3. Lo(Paged(t, h)) = t
      BY <3>1, <3>2 DEF Lo, Paged
    <3>. QED BY <3>3 DEF t, h
  <2>. QED BY <1>5, <1>6, <2>1 DEF Whole!TopWord, Paged
<1>8. Popped(r) = [Whole!inc(p) EXCEPT !.pc = w]
  BY <1>7 DEF Popped
<1>9. DOMAIN Whole!inc(p) = Registers
  BY <1>0, Incremented
<1>. DEFINE q == Whole!inc(p)
<1>. HIDE DEF d, p, u, w, q
<1>10. Visible([d EXCEPT !.pc = w]) = [Visible(d) EXCEPT !.pc = w]
  BY <1>3 DEF Visible, Fields, Registers, New
<1>11. [[q EXCEPT !.pc = u] EXCEPT !.pc = w] = [q EXCEPT !.pc = w]
  BY <1>9 DEF Registers, q
<1>. QED BY <1>4, <1>6, <1>8, <1>10, <1>11 DEF q

LEMMA AfterTop ==
  ASSUME NEW b, SeenTyped(b), NEW n \in Int
  PROVE  After(b, n).pc \in Int /\ Whole!TopByte(After(b, n)) \in Byte
<1>. DEFINE r == After(b, n)
            w == 256 + Whole!Wrap(r.s + 1)
<1>1. DOMAIN b = Registers /\ b.pc \in Word /\ b.s \in Byte /\ \A to \in Word : At(b, to) \in Byte
  BY SeenKinds
<1>2. r.mem = b.mem /\ r.s = b.s /\ r.pc = Shift(b.pc, n)
  BY <1>1, AfterIs
<1>3. w \in Word
  BY <1>1, <1>2, ByteIs, WordIs DEF Whole!Wrap
<1>4. Whole!TopByte(r) = Whole!Get(r, w)
  BY Zenon DEF Whole!TopByte
<1>. HIDE DEF w, r
<1>5. Whole!Get(r, w) = At(b, w)
  BY <1>2, WholeOperand
<1>6. Shift(b.pc, n) \in Int
  BY <1>1, WordIs DEF Shift
<1>. QED BY <1>1, <1>2, <1>3, <1>4, <1>5, <1>6 DEF r

-----------------------------------------------------------------------------
(* Branches                                                                 *)

(* A branch: where it goes, its carry applied a cycle later.                *)
LEMMA BranchTarget ==
  ASSUME NEW pc \in Word, NEW byte \in Byte
  PROVE  LET new == Shift(pc, IF byte < 128 THEN byte ELSE byte - 256)
         IN /\ Whole!Wrap16(Whole!Wrap16(pc + byte) - (IF byte >= 128 THEN 256 ELSE 0)) = new
            /\ Hi(pc) = Hi(new) => Paged(Lo(pc + byte), Hi(pc)) = new
<1>. DEFINE offset == IF byte < 128 THEN byte ELSE byte - 256
            new == Shift(pc, offset)
<1>1. /\ pc \in Int /\ 0 <= pc /\ pc <= 65535 /\ byte \in Int /\ 0 <= byte /\ byte <= 255
      /\ offset \in Int
  BY ByteIs, WordIs
<1>2. Whole!Wrap16(Whole!Wrap16(pc + byte) - (IF byte >= 128 THEN 256 ELSE 0)) = new
  <2>1. CASE byte < 128
    BY <1>1, <2>1 DEF Whole!Wrap16, Shift
  <2>2. CASE ~(byte < 128)
    BY <1>1, <2>2 DEF Whole!Wrap16, Shift
  <2>. QED BY <2>1, <2>2
<1>3. ASSUME Hi(pc) = Hi(new) PROVE Paged(Lo(pc + byte), Hi(pc)) = new
  <2>1. Lo(new) = Lo(pc + byte)
    <3>1. CASE byte < 128
      BY <1>1, <3>1 DEF Shift, Lo
    <3>2. CASE ~(byte < 128)
      BY <1>1, <3>2 DEF Shift, Lo
    <3>. QED BY <3>1, <3>2
  <2>2. new = Paged(Lo(new), Hi(new))
    <3>1. new \in Int
      BY <1>1 DEF Shift
    <3>. HIDE DEF new
    <3>. QED BY <3>1 DEF Paged, Lo, Hi
  <2>. QED BY <1>3, <2>1, <2>2, Zenon
<1>. QED BY <1>2, <1>3, Zenon

Condition(op, r) ==
  CASE op = "BPL" -> ~r.n [] op = "BMI" -> r.n [] op = "BNE" -> ~r.z [] op = "BEQ" -> r.z
    [] op = "BCC" -> ~r.c [] op = "BCS" -> r.c [] op = "BVC" -> ~r.v [] op = "BVS" -> r.v

LEMMA BranchTaken ==
  ASSUME NEW op \in BranchOps, NEW c, NEW r, r.n = c.n, r.z = c.z, r.c = c.c, r.v = c.v
  PROVE  Taken(op, c) = Condition(op, r)
<1>1. CASE op = "BPL"
  BY <1>1, Zenon DEF Taken, Condition
<1>2. CASE op = "BMI"
  BY <1>2, Zenon DEF Taken, Condition
<1>3. CASE op = "BNE"
  BY <1>3, Zenon DEF Taken, Condition
<1>4. CASE op = "BEQ"
  BY <1>4, Zenon DEF Taken, Condition
<1>5. CASE op = "BCC"
  BY <1>5, Zenon DEF Taken, Condition
<1>6. CASE op = "BCS"
  BY <1>6, Zenon DEF Taken, Condition
<1>7. CASE op = "BVC"
  BY <1>7, Zenon DEF Taken, Condition
<1>8. CASE op = "BVS"
  BY <1>8, Zenon DEF Taken, Condition
<1>. QED BY <1>1, <1>2, <1>3, <1>4, <1>5, <1>6, <1>7, <1>8, Zenon DEF BranchOps

LEMMA WholeBranch ==
  ASSUME NEW b, SeenTyped(b), NEW c, Past(c, b, 2), NEW op \in BranchOps
  PROVE  Branching(op, b).r =
           IF Taken(op, c)
           THEN [After(b, 2) EXCEPT !.pc = Shift(c.pc, IF FirstByte(b) < 128 THEN FirstByte(b)
                                                       ELSE FirstByte(b) - 256)]
           ELSE After(b, 2)
<1>. DEFINE r == After(b, 2)
            byte == FirstByte(b)
            new == Shift(c.pc, IF byte < 128 THEN byte ELSE byte - 256)
            target == Whole!Wrap16(Whole!Wrap16(r.pc + byte) - (IF byte >= 128 THEN 256 ELSE 0))
            condition == Condition(op, r)
            go == [r EXCEPT !.pc = target]
            crosses == 1 + Whole!page_crossed(r.pc, target)
<1>1. /\ DOMAIN b = Registers /\ b.pc \in Word /\ byte \in Byte
  BY SeenKinds, OperandKinds
<1>2. r.mem = b.mem /\ r.pc = Shift(b.pc, 2) /\ c.pc = r.pc
  BY <1>1, AfterIs, PastIs
<1>3. Whole!Get(r, Whole!Wrap16(b.pc + 1)) = byte
  BY <1>2, WholeOperand
<1>4. c.pc \in Word
  <2>1. b.pc \in Int
    BY <1>1, WordIs
  <2>. QED BY <1>2, <2>1, ShiftWord
<1>5. target = new
  BY <1>1, <1>2, <1>4, BranchTarget
<1>6. condition = Taken(op, c)
  <2>1. Visible(c) = r
    BY DEF Past, After
  <2>2. r.n = c.n /\ r.z = c.z /\ r.c = c.c /\ r.v = c.v
    BY <2>1, SeenFields
  <2>. HIDE DEF r
  <2>3. Taken(op, c) = condition
    BY <2>2, BranchTaken, Zenon
  <2>. QED BY <2>3
<1>7. Branching(op, b) = IF condition THEN [r |-> go, extra |-> crosses] ELSE [r |-> r, extra |-> 0]
  <2>. HIDE DEF r, byte
  <2>1. Branching(op, b) = Whole!branch(op, r, b.pc)
    BY DEF Branching, r
  <2>2. Whole!branch(op, r, b.pc)
          = IF condition THEN [r |-> go, extra |-> crosses] ELSE [r |-> r, extra |-> 0]
    BY <1>3, Zenon DEF Whole!branch, Condition
  <2>. QED BY <2>1, <2>2
<1>. HIDE DEF condition, go, r, crosses
<1>8. Branching(op, b).r = IF condition THEN go ELSE r
  BY <1>7
<1>. QED BY <1>5, <1>6, <1>8 DEF go, r

LEMMA BranchMiddle ==
  ASSUME NEW c, Typed(c), NEW b, SeenTyped(b), Past(c, b, 2), c.low_byte = FirstByte(b),
         Op(c) \in BranchOps
  PROVE  Settled(BranchStep(c)) = Branching(Op(c), b).r
<1>. DEFINE byte == FirstByte(b)
            new == Shift(c.pc, IF byte < 128 THEN byte ELSE byte - 256)
            crossed == (Hi(c.pc) # Hi(new))
            there == Paged(Lo(c.pc + byte), Hi(c.pc))
            log == Append(c.bus, <<"read", c.pc>>)
            go == [Reading(c, c.pc) EXCEPT !.page_crossed = crossed, !.current_address = new, !.pc = there]
            stay == [c EXCEPT !.page_crossed = FALSE, !.no_increment = TRUE]
            r == After(b, 2)
<1>0. DOMAIN c = Fields /\ "no_increment" \in Fields
  BY FieldNames DEF Fields, New
<1>1. DOMAIN b = Registers /\ byte \in Byte /\ DOMAIN r = Registers
  BY SeenKinds, OperandKinds, AfterIs
<1>2. c.pc \in Word
  BY Types
<1>3. BranchStep(c) = IF Taken(Op(c), c) THEN go ELSE stay
  <2>1. Reading(c, c.pc).pc = c.pc
    BY <1>0, Names DEF Reading
  <2>2. BranchStep(c) = IF Taken(Op(c), c)
          THEN [Reading(c, c.pc) EXCEPT !.page_crossed = crossed, !.current_address = new,
                                        !.pc = Paged(Lo(Reading(c, c.pc).pc + byte), Hi(Reading(c, c.pc).pc))]
          ELSE stay
    BY DEF BranchStep
  <2>. QED BY <2>1, <2>2
<1>4. Branching(Op(c), b).r = IF Taken(Op(c), c) THEN [r EXCEPT !.pc = new] ELSE r
  BY WholeBranch
<1>5. Visible(c) = r
  BY DEF Past, After
<1>6. crossed \/ there = new
  BY <1>1, <1>2, BranchTarget
<1>. HIDE DEF new, crossed, there, r
<1>7. Settled(go) = [r EXCEPT !.pc = new]
  <2>. DEFINE e == Reading(c, c.pc)
  <2>1. DOMAIN e = Fields /\ Visible(e) = r
    BY <1>0, <1>5, ReadingIs
  <2>. HIDE DEF e
  <2>. DEFINE f == [e EXCEPT !.page_crossed = crossed, !.current_address = new, !.pc = there]
  <2>2. f.page_crossed = crossed /\ f.current_address = new /\ Visible(f).pc = there
    BY <2>1, Names DEF Visible, Registers
  <2>3. Visible(f) = [Visible(e) EXCEPT !.pc = there]
    BY <2>1 DEF Visible, Fields, Registers, New
  <2>4. Settled(f) = [Visible(f) EXCEPT !.pc = IF crossed THEN new ELSE there]
    <3>. HIDE DEF f
    <3>. QED BY <2>2 DEF Settled
  <2>. DEFINE end == IF crossed THEN new ELSE there
  <2>5. end = new
    BY <1>6
  <2>. HIDE DEF f, end
  <2>6. Settled(f) = [[r EXCEPT !.pc = there] EXCEPT !.pc = new]
    BY <2>1, <2>3, <2>4, <2>5 DEF end
  <2>7. [[r EXCEPT !.pc = there] EXCEPT !.pc = new] = [r EXCEPT !.pc = new]
    BY <1>1 DEF Registers
  <2>. QED BY <2>6, <2>7 DEF f, e
<1>8. Settled(stay) = r
  <2>1. Visible(stay) = r /\ stay.page_crossed = FALSE
    <3>1. Visible(stay) = Visible(c)
      BY <1>0 DEF Visible, Fields, Registers, New
    <3>. QED BY <1>0, <1>5, <3>1, Names
  <2>. HIDE DEF stay
  <2>2. Settled(stay) = [r EXCEPT !.pc = r.pc]
    BY <2>1 DEF Settled
  <2>. QED BY <1>5, <2>2 DEF Visible, Registers
<1>. HIDE DEF go, stay
<1>. QED BY <1>3, <1>4, <1>7, <1>8

-----------------------------------------------------------------------------
(* Each step leads from one stage to the next                               *)

(* The step from one stage to the next, for each addressing mode.           *)
Leads(op, mode, from, step, to) ==
  \/ from = "start" /\ step = "discard" /\ to = "start"
  \/ from = "start" /\ step = "stack" /\ to = "start"
  \/ from = "start" /\ step = "low" /\ to = "low"
  \/ mode = "abs" /\ from = "low" /\ step = "address" /\ to = "aimed"
  \/ mode = "ind" /\ from = "low" /\ step = "address" /\ to = "address"
  \/ mode = "ind" /\ from = "address" /\ step = "low pointed" /\ to = "jump"
  \/ mode = "zp" /\ from = "start" /\ step = "zero page" /\ to = "aimed"
  \/ from = "start" /\ step = "zero page" /\ to = "zero page"
  \/ mode \in {"zpx", "zpy"} /\ from = "zero page" /\ step = "index" /\ to = "aimed"
  \/ mode = "indx" /\ from = "zero page" /\ step = "index" /\ to = "index"
  \/ from = "index" /\ step = "low pointed" /\ to = "low pointed"
  \/ mode = "indx" /\ from = "low pointed" /\ step = "address pointed" /\ to = "aimed"
  \/ from = "start" /\ step = "pointer" /\ to = "pointer"
  \/ from = "pointer" /\ step = "pointer low" /\ to = "pointer low"
  \/ mode = "indy" /\ from = "pointer low" /\ step = "indexed pointer" /\ to = "near"
  \/ mode \in {"absx", "absy"} /\ from = "low" /\ step = "indexed" /\ to = "near"
  \/ mode \in Indexing /\ from = "near" /\ step = "value" /\ to = "near valued"
  \/ mode \in Indexing /\ from = "near" /\ step = "value, fix" /\ to = "aimed"
  \/ mode \in Indexing /\ from = "near valued" /\ step = "fix, value" /\ to = "valued"
  \/ from = "aimed" /\ step = "value" /\ to = "valued"
  \/ from = "low" /\ step = "pointer" /\ to = "base"
  \/ from = "base" /\ step = "unfixed" /\ to = "unfixed"
  \/ mode \in {"absx", "absy"} /\ from = "unfixed" /\ step = "carry, value" /\ to = "valued"
  \/ from = "valued" /\ step = "write back" /\ to = "written"
  \/ from = "low" /\ step = "stack" /\ to = "low"
  \/ from = "low" /\ step = "push pch" /\ to = "pushed high"
  \/ from = "pushed high" /\ step = "push pcl" /\ to = "pushed"
  \/ from = "start" /\ step = "pull p" /\ to = "status"
  \/ from = "status" /\ step = "pull pcl" /\ to = "return low"
  \/ from = "start" /\ step = "pull pcl" /\ to = "pulled low"
  \/ from = "pulled low" /\ step = "pull pch" /\ to = "pulled"
  \/ mode = "rel" /\ op \in BranchOps /\ from = "low" /\ step = "branch" /\ to = "branched"

LEMMA StageStep ==
  ASSUME NEW c, Typed(c), NEW b, SeenTyped(b), NEW op, NEW mode, op = Op(c), mode = Mode(c),
         NEW from, NEW step, NEW to, Leads(op, mode, from, step, to), Reached(from, op, mode, c, b)
  PROVE  Reached(to, op, mode, Perform(step, c), b)
<1>0. op = Op(c) /\ mode = Mode(c)
  OBVIOUS
<1>1. CASE from = "start" /\ step = "discard" /\ to = "start"
  <2>0. Reached("start", op, mode, c, b)
    BY <1>1
  <2>1. Past(c, b, 1)
    BY <2>0, Zenon DEF Reached
  <2>2. Past(Discard(c), b, 1)
    BY <1>0, <1>1, <2>1, FieldNames, ReadingIs DEF Past, Discard
  <2>4. Reached("start", op, mode, Discard(c), b)
    BY <2>2, Zenon DEF Reached
  <2>. QED BY <1>1, <2>4, Performs, Zenon
<1>2. CASE from = "start" /\ step = "stack" /\ to = "start"
  <2>0. Reached("start", op, mode, c, b)
    BY <1>2
  <2>1. Past(c, b, 1)
    BY <2>0, Zenon DEF Reached
  <2>2. Past(StackRead(c), b, 1)
    BY <1>0, <1>2, <2>1, FieldNames, ReadingIs DEF Past, StackRead
  <2>4. Reached("start", op, mode, StackRead(c), b)
    BY <2>2, Zenon DEF Reached
  <2>. QED BY <1>2, <2>4, Performs, Zenon
<1>3. CASE from = "start" /\ step = "low" /\ to = "low"
  <2>0. Reached("start", op, mode, c, b)
    BY <1>3
  <2>1. Past(c, b, 1)
    BY <2>0, Zenon DEF Reached
  <2>2. Past(Low(c), b, 2) /\ Low(c).low_byte = FirstByte(b)
    BY <1>0, <1>3, <2>1, LowStep
  <2>4. Reached("low", op, mode, Low(c), b)
    BY <2>2, Zenon DEF Reached
  <2>. QED BY <1>3, <2>4, Performs, Zenon
<1>4. CASE mode = "abs" /\ from = "low" /\ step = "address" /\ to = "aimed"
  <2>0. Reached("low", op, mode, c, b)
    BY <1>4
  <2>1. Past(c, b, 2) /\ c.low_byte = FirstByte(b)
    BY <2>0, Zenon DEF Reached
  <2>2. Past(AddressHigh(c), b, 3) /\ AddressHigh(c).current_address = Absolute(b)
    BY <1>0, <1>4, <2>1, AddressStep
  <2>3. Bytes(mode) = 3 /\ Target(b, mode) = Absolute(b)
    BY <1>4, Zenon DEF Bytes, Target, Indexing
  <2>4. Reached("aimed", op, mode, AddressHigh(c), b)
    BY <2>2, <2>3, Zenon DEF Reached
  <2>. QED BY <1>4, <2>4, Performs, Zenon
<1>5. CASE mode = "ind" /\ from = "low" /\ step = "address" /\ to = "address"
  <2>0. Reached("low", op, mode, c, b)
    BY <1>5
  <2>1. Past(c, b, 2) /\ c.low_byte = FirstByte(b)
    BY <2>0, Zenon DEF Reached
  <2>2. Past(AddressHigh(c), b, 3) /\ AddressHigh(c).current_address = Absolute(b)
    BY <1>0, <1>5, <2>1, AddressStep
  <2>4. Reached("address", op, mode, AddressHigh(c), b)
    BY <2>2, Zenon DEF Reached
  <2>. QED BY <1>5, <2>4, Performs, Zenon
<1>6. CASE mode = "ind" /\ from = "address" /\ step = "low pointed" /\ to = "jump"
  <2>0. Reached("address", op, mode, c, b)
    BY <1>6
  <2>1. Past(c, b, 3) /\ c.current_address = Absolute(b)
    BY <2>0, Zenon DEF Reached
  <2>2. /\ Past(LowPointed(c), b, 3)
        /\ LowPointed(c).current_address = Absolute(b)
        /\ LowPointed(c).low_byte = At(b, Absolute(b))
    BY <1>0, <1>6, <2>1, LowPointedStep
  <2>4. Reached("jump", op, mode, LowPointed(c), b)
    BY <2>2, Zenon DEF Reached
  <2>. QED BY <1>6, <2>4, Performs, Zenon
<1>7. CASE mode = "zp" /\ from = "start" /\ step = "zero page" /\ to = "aimed"
  <2>0. Reached("start", op, mode, c, b)
    BY <1>7
  <2>1. Past(c, b, 1)
    BY <2>0, Zenon DEF Reached
  <2>2. Past(ZeroPage(c), b, 2) /\ ZeroPage(c).current_address = FirstByte(b)
    BY <1>0, <1>7, <2>1, ZeroPageStep
  <2>3. Bytes(mode) = 2 /\ Target(b, mode) = FirstByte(b)
    BY <1>7, Zenon DEF Bytes, Target, Indexing
  <2>4. Reached("aimed", op, mode, ZeroPage(c), b)
    BY <2>2, <2>3, Zenon DEF Reached
  <2>. QED BY <1>7, <2>4, Performs, Zenon
<1>8. CASE from = "start" /\ step = "zero page" /\ to = "zero page"
  <2>0. Reached("start", op, mode, c, b)
    BY <1>8
  <2>1. Past(c, b, 1)
    BY <2>0, Zenon DEF Reached
  <2>2. Past(ZeroPage(c), b, 2) /\ ZeroPage(c).current_address = FirstByte(b)
    BY <1>0, <1>8, <2>1, ZeroPageStep
  <2>4. Reached("zero page", op, mode, ZeroPage(c), b)
    BY <2>2, Zenon DEF Reached
  <2>. QED BY <1>8, <2>4, Performs, Zenon
<1>9. CASE mode \in {"zpx", "zpy"} /\ from = "zero page" /\ step = "index" /\ to = "aimed"
  <2>0. Reached("zero page", op, mode, c, b)
    BY <1>9
  <2>1. Past(c, b, 2) /\ c.current_address = FirstByte(b)
    BY <2>0, Zenon DEF Reached
  <2>2. /\ Past(Index(c), b, 2)
        /\ Index(c).current_address = Lo(FirstByte(b) + IndexIn(b, mode))
    BY <1>0, <1>9, <2>1, IndexStep
  <2>3. Bytes(mode) = 2 /\ Target(b, mode) = Lo(FirstByte(b) + IndexIn(b, mode))
    BY <1>9, Zenon DEF Bytes, Target, Indexing
  <2>4. Reached("aimed", op, mode, Index(c), b)
    BY <2>2, <2>3, Zenon DEF Reached
  <2>. QED BY <1>9, <2>4, Performs, Zenon
<1>10. CASE mode = "indx" /\ from = "zero page" /\ step = "index" /\ to = "index"
  <2>0. Reached("zero page", op, mode, c, b)
    BY <1>10
  <2>1. Past(c, b, 2) /\ c.current_address = FirstByte(b)
    BY <2>0, Zenon DEF Reached
  <2>2. /\ Past(Index(c), b, 2)
        /\ Index(c).current_address = Lo(FirstByte(b) + IndexIn(b, mode))
    BY <1>0, <1>10, <2>1, IndexStep
  <2>3. IndexIn(b, mode) = b.x
    BY <1>10, Zenon DEF IndexIn
  <2>4. Reached("index", op, mode, Index(c), b)
    BY <2>2, <2>3, Zenon DEF Reached
  <2>. QED BY <1>10, <2>4, Performs, Zenon
<1>11. CASE from = "index" /\ step = "low pointed" /\ to = "low pointed"
  <2>0. Reached("index", op, mode, c, b)
    BY <1>11
  <2>1. Past(c, b, 2) /\ c.current_address = Lo(FirstByte(b) + b.x)
    BY <2>0, Zenon DEF Reached
  <2>2. /\ Past(LowPointed(c), b, 2)
        /\ LowPointed(c).current_address = Lo(FirstByte(b) + b.x)
        /\ LowPointed(c).low_byte = At(b, LowPointed(c).current_address)
    BY <1>0, <1>11, <2>1, LowPointedStep
  <2>4. Reached("low pointed", op, mode, LowPointed(c), b)
    BY <2>2, Zenon DEF Reached
  <2>. QED BY <1>11, <2>4, Performs, Zenon
<1>12. CASE mode = "indx" /\ from = "low pointed" /\ step = "address pointed" /\ to = "aimed"
  <2>0. Reached("low pointed", op, mode, c, b)
    BY <1>12
  <2>1. /\ Past(c, b, 2)
        /\ c.current_address = Lo(FirstByte(b) + b.x)
        /\ c.low_byte = At(b, c.current_address)
    BY <2>0, Zenon DEF Reached
  <2>2. /\ Past(AddressPointed(c), b, 2)
        /\ AddressPointed(c).current_address = Pointed(b, Lo(FirstByte(b) + b.x))
    BY <1>0, <1>12, <2>1, AddressPointedStep
  <2>3. Bytes(mode) = 2 /\ Target(b, mode) = Pointed(b, Lo(FirstByte(b) + b.x))
    BY <1>12, Zenon DEF Bytes, Target, Indexing
  <2>4. Reached("aimed", op, mode, AddressPointed(c), b)
    BY <2>2, <2>3, Zenon DEF Reached
  <2>. QED BY <1>12, <2>4, Performs, Zenon
<1>13. CASE from = "start" /\ step = "pointer" /\ to = "pointer"
  <2>0. Reached("start", op, mode, c, b)
    BY <1>13
  <2>1. Past(c, b, 1)
    BY <2>0, Zenon DEF Reached
  <2>5. 1 \in 1 .. 2
    OBVIOUS
  <2>2. Past(Pointer(c), b, 2) /\ Pointer(c).pointer = FirstByte(b)
    BY <1>0, <1>13, <2>1, <2>5, PointerStep DEF FirstByte
  <2>4. Reached("pointer", op, mode, Pointer(c), b)
    BY <2>2, Zenon DEF Reached
  <2>. QED BY <1>13, <2>4, Performs, Zenon
<1>14. CASE from = "pointer" /\ step = "pointer low" /\ to = "pointer low"
  <2>0. Reached("pointer", op, mode, c, b)
    BY <1>14
  <2>1. Past(c, b, 2) /\ c.pointer = FirstByte(b)
    BY <2>0, Zenon DEF Reached
  <2>2. /\ Past(PointerLow(c), b, 2)
        /\ PointerLow(c).pointer = FirstByte(b)
        /\ PointerLow(c).low_byte = At(b, FirstByte(b))
    BY <1>0, <1>14, <2>1, PointerLowStep
  <2>4. Reached("pointer low", op, mode, PointerLow(c), b)
    BY <2>2, Zenon DEF Reached
  <2>. QED BY <1>14, <2>4, Performs, Zenon
<1>15. CASE mode = "indy" /\ from = "pointer low" /\ step = "indexed pointer" /\ to = "near"
  <2>0. Reached("pointer low", op, mode, c, b)
    BY <1>15
  <2>1. Past(c, b, 2) /\ c.pointer = FirstByte(b) /\ c.low_byte = At(b, FirstByte(b))
    BY <2>0, Zenon DEF Reached
  <2>2. Past(IndexedPointer(c), b, 2) /\ Near(mode, IndexedPointer(c), b)
    BY <1>0, <1>15, <2>1, IndexedPointerStep
  <2>3. Bytes(mode) = 2
    BY <1>15, Zenon DEF Bytes
  <2>4. Reached("near", op, mode, IndexedPointer(c), b)
    BY <2>2, <2>3, Zenon DEF Reached
  <2>. QED BY <1>15, <2>4, Performs, Zenon
<1>16. CASE mode \in {"absx", "absy"} /\ from = "low" /\ step = "indexed" /\ to = "near"
  <2>0. Reached("low", op, mode, c, b)
    BY <1>16
  <2>1. Past(c, b, 2) /\ c.low_byte = FirstByte(b)
    BY <2>0, Zenon DEF Reached
  <2>2. Past(IndexedAddress(c), b, 3) /\ Near(mode, IndexedAddress(c), b)
    BY <1>0, <1>16, <2>1, IndexedAddressStep
  <2>3. Bytes(mode) = 3
    BY <1>16, Zenon DEF Bytes
  <2>4. Reached("near", op, mode, IndexedAddress(c), b)
    BY <2>2, <2>3, Zenon DEF Reached
  <2>. QED BY <1>16, <2>4, Performs, Zenon
<1>17. CASE mode \in Indexing /\ from = "near" /\ step = "value" /\ to = "near valued"
  <2>0. Reached("near", op, mode, c, b)
    BY <1>17
  <2>1. Past(c, b, Bytes(mode)) /\ Near(mode, c, b)
    BY <2>0, Zenon DEF Reached
  <2>2. /\ Past(Value(c), b, Bytes(mode))
        /\ Near(mode, Value(c), b)
        /\ Value(c).current_value = At(b, Value(c).current_address)
    BY <1>0, <1>17, <2>1, NearValue
  <2>4. Reached("near valued", op, mode, Value(c), b)
    BY <2>2, Zenon DEF Reached
  <2>. QED BY <1>17, <2>4, Performs, Zenon
<1>18. CASE mode \in Indexing /\ from = "near" /\ step = "value, fix" /\ to = "aimed"
  <2>0. Reached("near", op, mode, c, b)
    BY <1>18
  <2>1. Past(c, b, Bytes(mode)) /\ Near(mode, c, b)
    BY <2>0, Zenon DEF Reached
  <2>2. /\ Past(ValueThenFix(c), b, Bytes(mode))
        /\ ValueThenFix(c).current_address = Target(b, mode)
    BY <1>0, <1>18, <2>1, NearFix
  <2>4. Reached("aimed", op, mode, ValueThenFix(c), b)
    BY <2>2, Zenon DEF Reached
  <2>. QED BY <1>18, <2>4, Performs, Zenon
<1>19. CASE mode \in Indexing /\ from = "near valued" /\ step = "fix, value" /\ to = "valued"
  <2>0. Reached("near valued", op, mode, c, b)
    BY <1>19
  <2>1. Past(c, b, Bytes(mode)) /\ Near(mode, c, b)
    BY <2>0, Zenon DEF Reached
  <2>2. /\ Past(FixThenValue(c), b, Bytes(mode))
        /\ FixThenValue(c).current_address = Target(b, mode)
        /\ FixThenValue(c).current_value = At(b, Target(b, mode))
    BY <1>0, <1>19, <2>1, FixValue
  <2>4. Reached("valued", op, mode, FixThenValue(c), b)
    BY <2>2, Zenon DEF Reached
  <2>. QED BY <1>19, <2>4, Performs, Zenon
<1>20. CASE from = "aimed" /\ step = "value" /\ to = "valued"
  <2>0. Reached("aimed", op, mode, c, b)
    BY <1>20
  <2>1. Past(c, b, Bytes(mode)) /\ c.current_address = Target(b, mode)
    BY <2>0, Zenon DEF Reached
  <2>5. DOMAIN c = Fields
    BY FieldNames
  <2>2. /\ Past(Value(c), b, Bytes(mode))
        /\ Value(c).current_address = Target(b, mode)
        /\ Value(c).current_value = At(b, Target(b, mode))
    BY <1>0, <1>20, <2>1, <2>5, AimedValue
  <2>4. Reached("valued", op, mode, Value(c), b)
    BY <2>2, Zenon DEF Reached
  <2>. QED BY <1>20, <2>4, Performs, Zenon
<1>21. CASE from = "low" /\ step = "pointer" /\ to = "base"
  <2>0. Reached("low", op, mode, c, b)
    BY <1>21
  <2>1. Past(c, b, 2) /\ c.low_byte = FirstByte(b)
    BY <2>0, Zenon DEF Reached
  <2>5. 2 \in 1 .. 2
    OBVIOUS
  <2>2. /\ Past(Pointer(c), b, 3)
        /\ Pointer(c).low_byte = FirstByte(b)
        /\ Pointer(c).pointer = SecondByte(b)
    BY <1>0, <1>21, <2>1, <2>5, PointerStep DEF SecondByte
  <2>4. Reached("base", op, mode, Pointer(c), b)
    BY <2>2, Zenon DEF Reached
  <2>. QED BY <1>21, <2>4, Performs, Zenon
<1>22. CASE from = "base" /\ step = "unfixed" /\ to = "unfixed"
  <2>0. Reached("base", op, mode, c, b)
    BY <1>22
  <2>1. Past(c, b, 3) /\ c.low_byte = FirstByte(b) /\ c.pointer = SecondByte(b)
    BY <2>0, Zenon DEF Reached
  <2>2. /\ Past(Unfixed(c), b, 3)
        /\ Unfixed(c).pointer = FirstByte(b) + IndexIn(b, mode)
        /\ Unfixed(c).current_address = Paged(Lo(Unfixed(c).pointer), SecondByte(b))
    BY <1>0, <1>22, <2>1, UnfixedIs
  <2>4. Reached("unfixed", op, mode, Unfixed(c), b)
    BY <2>2, Zenon DEF Reached
  <2>. QED BY <1>22, <2>4, Performs, Zenon
<1>23. CASE mode \in {"absx", "absy"} /\ from = "unfixed" /\ step = "carry, value" /\ to = "valued"
  <2>0. Reached("unfixed", op, mode, c, b)
    BY <1>23
  <2>1. /\ Past(c, b, 3)
        /\ c.pointer = FirstByte(b) + IndexIn(b, mode)
        /\ c.current_address = Paged(Lo(c.pointer), SecondByte(b))
    BY <2>0, Zenon DEF Reached
  <2>2. /\ Past(CarryThenValue(c), b, 3)
        /\ CarryThenValue(c).current_address = Target(b, mode)
        /\ CarryThenValue(c).current_value = At(b, Target(b, mode))
    BY <1>0, <1>23, <2>1, CarryStep
  <2>3. Bytes(mode) = 3
    BY <1>23, Zenon DEF Bytes
  <2>4. Reached("valued", op, mode, CarryThenValue(c), b)
    BY <2>2, <2>3, Zenon DEF Reached
  <2>. QED BY <1>23, <2>4, Performs, Zenon
<1>24. CASE from = "valued" /\ step = "write back" /\ to = "written"
  <2>0. Reached("valued", op, mode, c, b)
    BY <1>24
  <2>1. /\ Past(c, b, Bytes(mode))
        /\ c.current_address = Target(b, mode)
        /\ c.current_value = At(b, Target(b, mode))
    BY <2>0, Zenon DEF Reached
  <2>5. DOMAIN c = Fields
    BY FieldNames
  <2>. DEFINE n == Bytes(mode)
              at == Target(b, mode)
              v == At(b, at)
  <2>2. /\ Visible(WriteBack(c)) = WrittenBack(b, mode)
        /\ WriteBack(c).current_address = at /\ WriteBack(c).current_value = v
    <3>1. Past(c, b, n) /\ c.current_address = at /\ c.current_value = v
      BY <2>1
    <3>. HIDE DEF n, at, v
    <3>2. /\ Visible(WriteBack(c)) = [After(b, n) EXCEPT !.mem = Written(b.mem, at, v)]
          /\ WriteBack(c).current_address = at /\ WriteBack(c).current_value = v
      BY <2>5, <3>1, WriteBackStep
    <3>. QED BY <3>2 DEF WrittenBack, n, at, v
  <2>4. Reached("written", op, mode, WriteBack(c), b)
    BY <2>2, Zenon DEF Reached
  <2>. QED BY <1>24, <2>4, Performs, Zenon
<1>25. CASE from = "low" /\ step = "stack" /\ to = "low"
  <2>0. Reached("low", op, mode, c, b)
    BY <1>25
  <2>1. Past(c, b, 2) /\ c.low_byte = FirstByte(b)
    BY <2>0, Zenon DEF Reached
  <2>2. Past(StackRead(c), b, 2) /\ StackRead(c).low_byte = FirstByte(b)
    BY <1>0, <1>25, <2>1, FieldNames, ReadingIs DEF Past, StackRead, SameScratch
  <2>4. Reached("low", op, mode, StackRead(c), b)
    BY <2>2, Zenon DEF Reached
  <2>. QED BY <1>25, <2>4, Performs, Zenon
<1>26. CASE from = "low" /\ step = "push pch" /\ to = "pushed high"
  <2>0. Reached("low", op, mode, c, b)
    BY <1>26
  <2>1. Past(c, b, 2) /\ c.low_byte = FirstByte(b)
    BY <2>0, Zenon DEF Reached
  <2>5. Visible(c) = After(b, 2) /\ DOMAIN c = Fields
    BY <2>1, FieldNames DEF Past, After
  <2>2. Visible(PushPch(c)) = PushedHigh(After(b, 2)) /\ PushPch(c).low_byte = FirstByte(b)
    BY <1>0, <1>26, <2>1, <2>5, PushHighStep
  <2>4. Reached("pushed high", op, mode, PushPch(c), b)
    BY <2>2, Zenon DEF Reached
  <2>. QED BY <1>26, <2>4, Performs, Zenon
<1>27. CASE from = "pushed high" /\ step = "push pcl" /\ to = "pushed"
  <2>0. Reached("pushed high", op, mode, c, b)
    BY <1>27
  <2>1. Visible(c) = PushedHigh(After(b, 2)) /\ c.low_byte = FirstByte(b)
    BY <2>0, Zenon DEF Reached
  <2>5. DOMAIN c = Fields /\ DOMAIN After(b, 2) = Registers
    BY FieldNames, SeenKinds, AfterIs
  <2>2. Visible(PushPcl(c)) = Pushed(After(b, 2)) /\ PushPcl(c).low_byte = FirstByte(b)
    BY <1>0, <1>27, <2>1, <2>5, PushLowStep
  <2>4. Reached("pushed", op, mode, PushPcl(c), b)
    BY <2>2, Zenon DEF Reached
  <2>. QED BY <1>27, <2>4, Performs, Zenon
<1>28. CASE from = "start" /\ step = "pull p" /\ to = "status"
  <2>0. Reached("start", op, mode, c, b)
    BY <1>28
  <2>1. Past(c, b, 1)
    BY <2>0, Zenon DEF Reached
  <2>5. Visible(c) = After(b, 1) /\ DOMAIN c = Fields
    BY <2>1, FieldNames DEF Past, After
  <2>2. Visible(PullStatus(c)) = StatusPulled(After(b, 1))
    BY <1>0, <1>28, <2>1, <2>5, PullStatusStep
  <2>4. Reached("status", op, mode, PullStatus(c), b)
    BY <2>2, Zenon DEF Reached
  <2>. QED BY <1>28, <2>4, Performs, Zenon
<1>29. CASE from = "status" /\ step = "pull pcl" /\ to = "return low"
  <2>0. Reached("status", op, mode, c, b)
    BY <1>29
  <2>1. Visible(c) = StatusPulled(After(b, 1))
    BY <2>0, Zenon DEF Reached
  <2>5. DOMAIN c = Fields
    BY FieldNames
  <2>2. Visible(PullPcl(c)) = Popping(StatusPulled(After(b, 1)))
    BY <1>0, <1>29, <2>1, <2>5, PullLowStep
  <2>4. Reached("return low", op, mode, PullPcl(c), b)
    BY <2>2, Zenon DEF Reached
  <2>. QED BY <1>29, <2>4, Performs, Zenon
<1>30. CASE from = "start" /\ step = "pull pcl" /\ to = "pulled low"
  <2>0. Reached("start", op, mode, c, b)
    BY <1>30
  <2>1. Past(c, b, 1)
    BY <2>0, Zenon DEF Reached
  <2>5. Visible(c) = After(b, 1) /\ DOMAIN c = Fields
    BY <2>1, FieldNames DEF Past, After
  <2>2. Visible(PullPcl(c)) = Popping(After(b, 1))
    BY <1>0, <1>30, <2>1, <2>5, PullLowStep
  <2>4. Reached("pulled low", op, mode, PullPcl(c), b)
    BY <2>2, Zenon DEF Reached
  <2>. QED BY <1>30, <2>4, Performs, Zenon
<1>31. CASE from = "pulled low" /\ step = "pull pch" /\ to = "pulled"
  <2>0. Reached("pulled low", op, mode, c, b)
    BY <1>31
  <2>1. Visible(c) = Popping(After(b, 1))
    BY <2>0, Zenon DEF Reached
  <2>5. /\ DOMAIN c = Fields
        /\ DOMAIN After(b, 1) = Registers
        /\ After(b, 1).pc \in Int
        /\ Whole!TopByte(After(b, 1)) \in Byte
    BY FieldNames, SeenKinds, AfterIs, AfterTop
  <2>2. Visible(PullPch(c)) = Popped(After(b, 1))
    BY <1>0, <1>31, <2>1, <2>5, PullHighStep
  <2>4. Reached("pulled", op, mode, PullPch(c), b)
    BY <2>2, Zenon DEF Reached
  <2>. QED BY <1>31, <2>4, Performs, Zenon
<1>32. CASE mode = "rel" /\ op \in BranchOps /\ from = "low" /\ step = "branch" /\ to = "branched"
  <2>0. Reached("low", op, mode, c, b)
    BY <1>32
  <2>1. Past(c, b, 2) /\ c.low_byte = FirstByte(b)
    BY <2>0, Zenon DEF Reached
  <2>2. Settled(BranchStep(c)) = Branching(op, b).r
    BY <1>0, <1>32, <2>1, BranchMiddle
  <2>4. Reached("branched", op, mode, BranchStep(c), b)
    BY <2>2, Zenon DEF Reached
  <2>. QED BY <1>32, <2>4, Performs, Zenon
<1>. QED BY <1>1, <1>2, <1>3, <1>4, <1>5, <1>6, <1>7, <1>8, <1>9, <1>10, <1>11, <1>12, <1>13,
           <1>14, <1>15, <1>16, <1>17, <1>18, <1>19, <1>20, <1>21, <1>22, <1>23, <1>24, <1>25,
           <1>26, <1>27, <1>28, <1>29, <1>30, <1>31, <1>32, Zenon DEF Leads

-----------------------------------------------------------------------------
(* What the older processor makes of an instruction, by its kind            *)

(* What next_instruction does once it has decoded its instruction.          *)
Computing == {"ADC", "AND", "BIT", "CMP", "CPX", "CPY", "EOR"}
Loading == {"LDA", "LDX", "LDY", "ORA", "SBC"}
Storing == {"STA", "STX", "STY"}
Setting == {"CLC", "SEC", "CLI", "SEI", "CLD", "SED", "CLV"}
Moving == {"TAX", "TXA", "TAY", "TYA", "TXS", "TSX", "DEX", "INX", "DEY", "INY"}
Stacking == {"PHA", "PHP", "PLA", "PLP"}
StoringMore == {"SAX", "SHA", "TAS", "SHX", "SHY"}
LoadingMore == {"LAX", "LAS", "ALR", "ANC", "ANE", "ARR", "LXA", "SBX"}

Executes(op, mode, r, pc, to, v) ==
  CASE op \in Computing -> Whole!Arithmetic(op, r, v)
    [] op \in Loading -> Whole!LoadsAndLogic(op, r, v)
    [] op \in Official -> 
         IF mode = "acc" THEN [Whole!Shift8(op, r, r.a).r EXCEPT !.a = Whole!Shift8(op, r, r.a).value]
         ELSE Whole!Set(Whole!Shift8(op, r, v).r, to, Whole!Shift8(op, r, v).value)
    [] op \in Storing -> Whole!StoresReg(op, r, to)
    [] mode = "rel" -> Whole!branch(op, r, pc).r
    [] op \in Setting -> Whole!SetsFlag(op, r)
    [] op \in Moving -> Whole!Moves(op, r)
    [] op = "JMP" -> [r EXCEPT !.pc = to]
    [] op = "JSR" -> Whole!jsr(r, pc)
    [] op = "RTI" -> Whole!rti(r)
    [] op = "RTS" -> Whole!rts(r)
    [] op = "BRK" -> Whole!handle_interrupt(r, TRUE, 65534)
    [] op \in Stacking -> Whole!Stacked(op, r)
    [] op \in Unofficial -> Whole!UndocumentedModify(op, r, to)
    [] op \in StoringMore -> Whole!UndocumentedStore(op, r, to)
    [] op \in LoadingMore -> Whole!UndocumentedRead(op, r, v)
    [] OTHER -> r

LEMMA ExecutesIs ==
  ASSUME NEW b, NEW opcode, opcode = At(b, b.pc), NEW n, Size(opcode) = n
  PROVE  LET op == Mnemonic(opcode)
             mode == AddressingType(opcode)
             r == After(b, n)
             to == Whole!address(r, b.pc, mode)
         IN Whole!next_instruction(b) = Executes(op, mode, r, b.pc, to, At(r, to))
<1>. DEFINE code == Whole!Get(b, b.pc)
            op == Whole!Mnemonic(code)
            mode == Whole!AddressingType(code)
            r == [b EXCEPT !.pc = Whole!Wrap16(b.pc + Whole!Size(code))]
            to == Whole!address(r, b.pc, mode)
            v == Whole!Get(r, to)
<1>1. Whole!next_instruction(b) = Executes(op, mode, r, b.pc, to, v)
  BY SMTT(30) DEF Whole!next_instruction, Executes, Whole!Modifies, Whole!UndocumentedModifies,
     Official, Unofficial, Computing, Loading, Storing, Setting, Moving,
     Stacking, StoringMore, LoadingMore
<1>2. code = opcode
  BY WholeMemory
<1>3. op = Mnemonic(opcode) /\ mode = AddressingType(opcode) /\ Whole!Size(code) = n
  BY <1>2, WholeTable
<1>4. r = After(b, n)
  <2>1. Whole!Wrap16(b.pc + Whole!Size(code)) = Shift(b.pc, n)
    BY <1>3 DEF Shift, Whole!Wrap16
  <2>. QED BY <2>1, Zenon DEF After
<1>5. v = At(r, to)
  BY WholeMemory
<1>. HIDE DEF op, mode, code, r, v
<1>6. to = Whole!address(After(b, n), b.pc, AddressingType(opcode))
  BY <1>3, <1>4
<1>. HIDE DEF to
<1>. QED BY <1>1, <1>3, <1>4, <1>5, <1>6, Zenon

(* That by kind: s is what an instruction comes to.                         *)
ByKind(s, op, mode, r, pc, to, v) ==
  /\ op \in Loads \ Disputed /\ mode # "rel" => s = WholeLoad(op, r, v)
  /\ op \in Official /\ mode = "acc" =>
       s = [Whole!Shift8(op, r, r.a).r EXCEPT !.a = Whole!Shift8(op, r, r.a).value]
  /\ op \in Official /\ mode # "acc" /\ mode # "rel" =>
       s = Whole!Set(Whole!Shift8(op, r, v).r, to, Whole!Shift8(op, r, v).value)
  /\ op \in Unofficial /\ mode # "rel" => s = Whole!UndocumentedModify(op, r, to)
  /\ op \in Storing /\ mode # "rel" => s = Whole!StoresReg(op, r, to)
  /\ op = "SAX" /\ mode # "rel" => s = Whole!UndocumentedStore(op, r, to)
  /\ op \in BranchOps /\ mode = "rel" => s = Whole!branch(op, r, pc).r
  /\ op \in Flags /\ mode # "rel" => s = Whole!SetsFlag(op, r)
  /\ op \in Transfers /\ mode # "rel" => s = Whole!Moves(op, r)
  /\ op = "JMP" /\ mode # "rel" => s = [r EXCEPT !.pc = to]
  /\ op = "JSR" /\ mode # "rel" => s = Whole!jsr(r, pc)
  /\ op = "RTI" /\ mode # "rel" => s = Whole!rti(r)
  /\ op = "RTS" /\ mode # "rel" => s = Whole!rts(r)
  /\ op \in Stacking /\ mode # "rel" => s = Whole!Stacked(op, r)

LEMMA ExecutesByKind ==
  ASSUME NEW op, NEW mode, NEW r, NEW pc, NEW to, NEW v
  PROVE  ByKind(Executes(op, mode, r, pc, to, v), op, mode, r, pc, to, v)
<1>. DEFINE s == Executes(op, mode, r, pc, to, v)
<1>1. op \in Official /\ mode = "acc" =>
       s = [Whole!Shift8(op, r, r.a).r EXCEPT !.a = Whole!Shift8(op, r, r.a).value]
  <2>. SUFFICES ASSUME op \in Official, mode = "acc"
                PROVE  s = [Whole!Shift8(op, r, r.a).r EXCEPT !.a = Whole!Shift8(op, r, r.a).value]
    OBVIOUS
  <2>1. /\ op \notin Computing /\ op \notin Loading /\ op \notin Storing /\ op \notin Setting
        /\ op \notin Moving /\ op # "JMP" /\ op # "JSR" /\ op # "RTI"
        /\ op # "RTS" /\ op # "BRK" /\ op \notin Stacking /\ op \notin Unofficial
        /\ op \notin StoringMore /\ op \notin LoadingMore
    BY DEF Official, Unofficial, Computing, Loading, Storing, Setting, Moving,
       Stacking, StoringMore, LoadingMore
  <2>. QED BY <2>1, SMTT(30) DEF Executes
<1>2. op \in Official /\ mode # "acc" /\ mode # "rel" =>
       s = Whole!Set(Whole!Shift8(op, r, v).r, to, Whole!Shift8(op, r, v).value)
  <2>. SUFFICES ASSUME op \in Official, mode # "acc", mode # "rel"
                PROVE  s = Whole!Set(Whole!Shift8(op, r, v).r, to, Whole!Shift8(op, r, v).value)
    OBVIOUS
  <2>1. /\ op \notin Computing /\ op \notin Loading /\ op \notin Storing /\ op \notin Setting
        /\ op \notin Moving /\ op # "JMP" /\ op # "JSR" /\ op # "RTI"
        /\ op # "RTS" /\ op # "BRK" /\ op \notin Stacking /\ op \notin Unofficial
        /\ op \notin StoringMore /\ op \notin LoadingMore
    BY DEF Official, Unofficial, Computing, Loading, Storing, Setting, Moving,
       Stacking, StoringMore, LoadingMore
  <2>. QED BY <2>1, SMTT(30) DEF Executes
<1>3. op \in Unofficial /\ mode # "rel" =>
       s = Whole!UndocumentedModify(op, r, to)
  <2>. SUFFICES ASSUME op \in Unofficial, mode # "rel"
                PROVE  s = Whole!UndocumentedModify(op, r, to)
    OBVIOUS
  <2>1. /\ op \notin Computing /\ op \notin Loading /\ op \notin Official /\ op \notin Storing
        /\ op \notin Setting /\ op \notin Moving /\ op # "JMP" /\ op # "JSR"
        /\ op # "RTI" /\ op # "RTS" /\ op # "BRK" /\ op \notin Stacking
        /\ op \notin StoringMore /\ op \notin LoadingMore
    BY DEF Official, Unofficial, Computing, Loading, Storing, Setting, Moving,
       Stacking, StoringMore, LoadingMore
  <2>. QED BY <2>1, SMTT(30) DEF Executes
<1>4. op \in Storing /\ mode # "rel" =>
       s = Whole!StoresReg(op, r, to)
  <2>. SUFFICES ASSUME op \in Storing, mode # "rel"
                PROVE  s = Whole!StoresReg(op, r, to)
    OBVIOUS
  <2>1. /\ op \notin Computing /\ op \notin Loading /\ op \notin Official /\ op \notin Setting
        /\ op \notin Moving /\ op # "JMP" /\ op # "JSR" /\ op # "RTI"
        /\ op # "RTS" /\ op # "BRK" /\ op \notin Stacking /\ op \notin Unofficial
        /\ op \notin StoringMore /\ op \notin LoadingMore
    BY DEF Official, Unofficial, Computing, Loading, Storing, Setting, Moving,
       Stacking, StoringMore, LoadingMore
  <2>. QED BY <2>1, SMTT(30) DEF Executes
<1>5. op = "SAX" /\ mode # "rel" =>
       s = Whole!UndocumentedStore(op, r, to)
  <2>. SUFFICES ASSUME op = "SAX", mode # "rel"
                PROVE  s = Whole!UndocumentedStore(op, r, to)
    OBVIOUS
  <2>1. /\ op \in StoringMore /\ op \notin Computing /\ op \notin Loading /\ op \notin Official
        /\ op \notin Storing /\ op \notin Setting /\ op \notin Moving /\ op # "JMP"
        /\ op # "JSR" /\ op # "RTI" /\ op # "RTS" /\ op # "BRK"
        /\ op \notin Stacking /\ op \notin Unofficial /\ op \notin LoadingMore
    BY DEF Official, Unofficial, Computing, Loading, Storing, Setting, Moving,
       Stacking, StoringMore, LoadingMore
  <2>. QED BY <2>1, SMTT(30) DEF Executes
<1>6. op \in BranchOps /\ mode = "rel" =>
       s = Whole!branch(op, r, pc).r
  <2>. SUFFICES ASSUME op \in BranchOps, mode = "rel"
                PROVE  s = Whole!branch(op, r, pc).r
    OBVIOUS
  <2>1. /\ op \notin Computing /\ op \notin Loading /\ op \notin Official /\ op \notin Storing
        /\ op \notin Setting /\ op \notin Moving /\ op # "JMP" /\ op # "JSR"
        /\ op # "RTI" /\ op # "RTS" /\ op # "BRK" /\ op \notin Stacking
        /\ op \notin Unofficial /\ op \notin StoringMore /\ op \notin LoadingMore
    BY DEF Official, Unofficial, Computing, Loading, Storing, Setting, Moving,
       Stacking, StoringMore, LoadingMore, BranchOps
  <2>. QED BY <2>1, SMTT(30) DEF Executes
<1>7. op \in Flags /\ mode # "rel" =>
       s = Whole!SetsFlag(op, r)
  <2>. SUFFICES ASSUME op \in Flags, mode # "rel"
                PROVE  s = Whole!SetsFlag(op, r)
    OBVIOUS
  <2>1. /\ op \in Setting /\ op \notin Computing /\ op \notin Loading /\ op \notin Official
        /\ op \notin Storing /\ op \notin Moving /\ op # "JMP" /\ op # "JSR"
        /\ op # "RTI" /\ op # "RTS" /\ op # "BRK" /\ op \notin Stacking
        /\ op \notin Unofficial /\ op \notin StoringMore /\ op \notin LoadingMore
    BY DEF Official, Unofficial, Computing, Loading, Storing, Setting, Moving,
       Stacking, StoringMore, LoadingMore, Flags
  <2>. QED BY <2>1, SMTT(30) DEF Executes
<1>8. op \in Transfers /\ mode # "rel" =>
       s = Whole!Moves(op, r)
  <2>. SUFFICES ASSUME op \in Transfers, mode # "rel"
                PROVE  s = Whole!Moves(op, r)
    OBVIOUS
  <2>1. /\ op \in Moving /\ op \notin Computing /\ op \notin Loading /\ op \notin Official
        /\ op \notin Storing /\ op \notin Setting /\ op # "JMP" /\ op # "JSR"
        /\ op # "RTI" /\ op # "RTS" /\ op # "BRK" /\ op \notin Stacking
        /\ op \notin Unofficial /\ op \notin StoringMore /\ op \notin LoadingMore
    BY DEF Official, Unofficial, Computing, Loading, Storing, Setting, Moving,
       Stacking, StoringMore, LoadingMore, Transfers
  <2>. QED BY <2>1, SMTT(30) DEF Executes
<1>9. op = "JMP" /\ mode # "rel" =>
       s = [r EXCEPT !.pc = to]
  <2>. SUFFICES ASSUME op = "JMP", mode # "rel"
                PROVE  s = [r EXCEPT !.pc = to]
    OBVIOUS
  <2>1. /\ op \notin Computing /\ op \notin Loading /\ op \notin Official /\ op \notin Storing
        /\ op \notin Setting /\ op \notin Moving /\ op # "JSR" /\ op # "RTI"
        /\ op # "RTS" /\ op # "BRK" /\ op \notin Stacking /\ op \notin Unofficial
        /\ op \notin StoringMore /\ op \notin LoadingMore
    BY DEF Official, Unofficial, Computing, Loading, Storing, Setting, Moving,
       Stacking, StoringMore, LoadingMore
  <2>. QED BY <2>1, SMTT(30) DEF Executes
<1>10. op = "JSR" /\ mode # "rel" =>
       s = Whole!jsr(r, pc)
  <2>. SUFFICES ASSUME op = "JSR", mode # "rel"
                PROVE  s = Whole!jsr(r, pc)
    OBVIOUS
  <2>1. /\ op \notin Computing /\ op \notin Loading /\ op \notin Official /\ op \notin Storing
        /\ op \notin Setting /\ op \notin Moving /\ op # "JMP" /\ op # "RTI"
        /\ op # "RTS" /\ op # "BRK" /\ op \notin Stacking /\ op \notin Unofficial
        /\ op \notin StoringMore /\ op \notin LoadingMore
    BY DEF Official, Unofficial, Computing, Loading, Storing, Setting, Moving,
       Stacking, StoringMore, LoadingMore
  <2>. QED BY <2>1, SMTT(30) DEF Executes
<1>11. op = "RTI" /\ mode # "rel" =>
       s = Whole!rti(r)
  <2>. SUFFICES ASSUME op = "RTI", mode # "rel"
                PROVE  s = Whole!rti(r)
    OBVIOUS
  <2>1. /\ op \notin Computing /\ op \notin Loading /\ op \notin Official /\ op \notin Storing
        /\ op \notin Setting /\ op \notin Moving /\ op # "JMP" /\ op # "JSR"
        /\ op # "RTS" /\ op # "BRK" /\ op \notin Stacking /\ op \notin Unofficial
        /\ op \notin StoringMore /\ op \notin LoadingMore
    BY DEF Official, Unofficial, Computing, Loading, Storing, Setting, Moving,
       Stacking, StoringMore, LoadingMore
  <2>. QED BY <2>1, SMTT(30) DEF Executes
<1>12. op = "RTS" /\ mode # "rel" =>
       s = Whole!rts(r)
  <2>. SUFFICES ASSUME op = "RTS", mode # "rel"
                PROVE  s = Whole!rts(r)
    OBVIOUS
  <2>1. /\ op \notin Computing /\ op \notin Loading /\ op \notin Official /\ op \notin Storing
        /\ op \notin Setting /\ op \notin Moving /\ op # "JMP" /\ op # "JSR"
        /\ op # "RTI" /\ op # "BRK" /\ op \notin Stacking /\ op \notin Unofficial
        /\ op \notin StoringMore /\ op \notin LoadingMore
    BY DEF Official, Unofficial, Computing, Loading, Storing, Setting, Moving,
       Stacking, StoringMore, LoadingMore
  <2>. QED BY <2>1, SMTT(30) DEF Executes
<1>13. op \in Stacking /\ mode # "rel" =>
       s = Whole!Stacked(op, r)
  <2>. SUFFICES ASSUME op \in Stacking, mode # "rel"
                PROVE  s = Whole!Stacked(op, r)
    OBVIOUS
  <2>1. /\ op \notin Computing /\ op \notin Loading /\ op \notin Official /\ op \notin Storing
        /\ op \notin Setting /\ op \notin Moving /\ op # "JMP" /\ op # "JSR"
        /\ op # "RTI" /\ op # "RTS" /\ op # "BRK" /\ op \notin Unofficial
        /\ op \notin StoringMore /\ op \notin LoadingMore
    BY DEF Official, Unofficial, Computing, Loading, Storing, Setting, Moving,
       Stacking, StoringMore, LoadingMore
  <2>. QED BY <2>1, SMTT(30) DEF Executes
<1>14. op \in Loads \ Disputed /\ mode # "rel" => s = WholeLoad(op, r, v)
  <2>. SUFFICES ASSUME op \in Loads \ Disputed, mode # "rel" PROVE s = WholeLoad(op, r, v)
    OBVIOUS
  <2>1. /\ WholeLoad(op, r, v) =
             CASE op \in Computing -> Whole!Arithmetic(op, r, v)
               [] op \in Loading -> Whole!LoadsAndLogic(op, r, v)
               [] op \in {"LAX", "LAS", "ALR", "ANC"} -> Whole!UndocumentedRead(op, r, v)
               [] op = "NOP" -> r
    BY Zenon DEF WholeLoad, Computing, Loading
  <2>2. /\ op \notin Official /\ op \notin Storing /\ op \notin Setting /\ op \notin Moving
        /\ op # "JMP" /\ op # "JSR" /\ op # "RTI" /\ op # "RTS"
        /\ op # "BRK" /\ op \notin Stacking /\ op \notin Unofficial /\ op \notin StoringMore
    BY DEF Official, Unofficial, Computing, Loading, Storing, Setting, Moving,
       Stacking, StoringMore, LoadingMore, Loads, Disputed, Unstable
  <2>3. CASE op \in Computing
    <3>1. op \notin Loading /\ op \notin LoadingMore /\ op \notin {"LAX", "LAS", "ALR", "ANC"} /\ op # "NOP"
      BY <2>3 DEF Computing, Loading, LoadingMore
    <3>. HIDE DEF s
    <3>2. s = Whole!Arithmetic(op, r, v)
      BY <2>2, <2>3, <3>1, SMTT(30) DEF s, Executes
    <3>. QED BY <2>1, <2>3, <3>1, <3>2, Zenon
  <2>4. CASE op \in Loading
    <3>1. op \notin Computing /\ op \notin LoadingMore /\ op \notin {"LAX", "LAS", "ALR", "ANC"} /\ op # "NOP"
      BY <2>4 DEF Computing, Loading, LoadingMore
    <3>. HIDE DEF s
    <3>2. s = Whole!LoadsAndLogic(op, r, v)
      BY <2>2, <2>4, <3>1, SMTT(30) DEF s, Executes
    <3>. QED BY <2>1, <2>4, <3>1, <3>2, Zenon
  <2>5. CASE op \in {"LAX", "LAS", "ALR", "ANC"}
    <3>1. op \notin Computing /\ op \notin Loading /\ op \in LoadingMore /\ op # "NOP"
      BY <2>5 DEF Computing, Loading, LoadingMore
    <3>. HIDE DEF s
    <3>2. s = Whole!UndocumentedRead(op, r, v)
      BY <2>2, <3>1, SMTT(30) DEF s, Executes
    <3>. QED BY <2>1, <2>5, <3>1, <3>2, Zenon
  <2>6. CASE op = "NOP"
    <3>1. op \notin Computing /\ op \notin Loading /\ op \notin LoadingMore /\ op \notin {"LAX", "LAS", "ALR", "ANC"}
      BY <2>6 DEF Computing, Loading, LoadingMore
    <3>. HIDE DEF s
    <3>2. s = r
      BY <2>2, <3>1, SMTT(30) DEF s, Executes
    <3>. QED BY <2>1, <2>6, <3>1, <3>2, Zenon
  <2>. QED BY <2>3, <2>4, <2>5, <2>6 DEF Loads, Disputed, Computing, Loading, Unstable
<1>. HIDE DEF s
<1>. QED BY <1>1, <1>2, <1>3, <1>4, <1>5, <1>6, <1>7, <1>8, <1>9, <1>10, <1>11, <1>12, <1>13, <1>14, Zenon DEF s, ByKind

-----------------------------------------------------------------------------
(* The last step, by the kind of instruction                                *)

(* What the last step of an instruction comes to.                           *)
LEMMA SeenDone ==
  ASSUME NEW e, DOMAIN e = Fields
  PROVE  Visible(Done(e)) = Visible(e)
BY SeenNone DEF Done

LEMMA UseIs ==
  ASSUME NEW d, Typed(d), NEW b, NEW n, Past(d, b, n), NEW v \in Byte, d.current_value = v,
         NEW op \in Loads \ Disputed, Op(d) = op, op \in Decimal => ~d.d
  PROVE  Visible(Use(d)) = WholeLoad(op, After(b, n), v)
<1>. DEFINE e == Load(op, d, v)
<1>1. Use(d) = Done(e)
  BY DEF Use
<1>2. Typed(e)
  BY LoadKept, KeptTyped
<1>3. Visible(e) = WholeLoad(op, Visible(d), v)
  BY SeenLoad
<1>4. DOMAIN e = Fields
  BY <1>2, FieldNames
<1>. HIDE DEF e
<1>5. Visible(Done(e)) = Visible(e)
  BY <1>4, SeenDone
<1>. QED BY <1>1, <1>3, <1>5, Zenon DEF Past, After

LEMMA ReadLast ==
  ASSUME NEW c, Typed(c), c.bus = <<>>, NEW b, SeenTyped(b), NEW n, Past(c, b, n),
         NEW to \in Word, c.current_address = to,
         NEW op \in Loads \ Disputed, Op(c) = op, op \in Decimal => ~b.d
  PROVE  Visible(ReadValue(c)) = WholeLoad(op, After(b, n), At(b, to))
<1>. DEFINE d == Value(c)
            v == At(b, to)
<1>1. Accessed(c, d)
  BY PlainSteps
<1>2. Typed(d) /\ Op(d) = op
  BY <1>1, AccessedTyped, SameOp
<1>3. Past(d, b, n) /\ d.current_value = v
  BY FieldNames, AimedValue
<1>4. v \in Byte
  BY SeenKinds
<1>5. ReadValue(c) = Use(d)
  BY DEF ReadValue
<1>. HIDE DEF d, v
<1>6. d.d = b.d
  BY <1>3, PastIs
<1>7. Visible(Use(d)) = WholeLoad(op, After(b, n), v)
  BY <1>2, <1>3, <1>4, <1>6, UseIs
<1>. QED BY <1>5, <1>7 DEF v

LEMMA ImmediateLast ==
  ASSUME NEW c, Typed(c), c.bus = <<>>, NEW b, SeenTyped(b), Past(c, b, 1),
         NEW op \in Loads \ Disputed, Op(c) = op, op \in Decimal => ~b.d
  PROVE  Visible(Immediate(c)) = WholeLoad(op, After(b, 2), FirstByte(b))
<1>. DEFINE v == FirstByte(b)
            f == Fetched(c)
            d == [f EXCEPT !.current_value = v]
<1>1. /\ DOMAIN f = Fields /\ Past(f, b, 2) /\ At(c, c.pc) = v
  BY FetchedIs DEF FirstByte
<1>2. Accessed(c, f)
  BY FetchedAccess
<1>3. v \in Byte
  BY OperandKinds
<1>4. Immediate(c) = Use(d)
  BY <1>1 DEF Immediate
<1>. HIDE DEF f, v
<1>5. Accessed(c, d)
  BY <1>2, <1>3, ThenKept
<1>6. Typed(d) /\ Op(d) = op
  BY <1>5, AccessedTyped, SameOp
<1>7. Visible(d) = Visible(f) /\ d.current_value = v
  BY <1>1, SeenNone, Names
<1>8. Past(d, b, 2)
  BY <1>1, <1>7, Zenon DEF Past
<1>. HIDE DEF d
<1>9. d.d = b.d
  BY <1>8, PastIs
<1>10. Visible(Use(d)) = WholeLoad(op, After(b, 2), v)
  BY <1>3, <1>6, <1>7, <1>8, <1>9, UseIs
<1>. QED BY <1>4, <1>10 DEF v

LEMMA FixUseLast ==
  ASSUME NEW c, Typed(c), c.bus = <<>>, NEW b, SeenTyped(b), NEW n, Past(c, b, n),
         NEW mode \in Indexing, Near(mode, c, b), c.current_value = At(b, c.current_address),
         NEW op \in Loads \ Disputed, Op(c) = op, op \in Decimal => ~b.d
  PROVE  Visible(FixThenUse(c)) = WholeLoad(op, After(b, n), At(b, Target(b, mode)))
<1>. DEFINE v == At(b, Target(b, mode))
<1>1. v \in Byte
  <2>1. Target(b, mode) \in Word
    BY TargetWord
  <2>. QED BY <2>1, SeenKinds
<1>2. CASE c.page_crossed
  <2>. DEFINE d == FixThenValue(c)
  <2>1. FixThenUse(c) = Use(d)
    BY <1>2 DEF FixThenUse, ReadValue, FixThenValue
  <2>2. Accessed(c, d)
    BY IndexedSteps
  <2>3. Typed(d) /\ Op(d) = op
    BY <2>2, AccessedTyped, SameOp
  <2>4. Past(d, b, n) /\ d.current_value = v
    BY FixValue
  <2>. HIDE DEF d, v
  <2>5. d.d = b.d
    BY <2>4, PastIs
  <2>6. Visible(Use(d)) = WholeLoad(op, After(b, n), v)
    BY <1>1, <2>3, <2>4, <2>5, UseIs
  <2>. QED BY <2>1, <2>6 DEF v
<1>3. CASE ~c.page_crossed
  <2>. DEFINE d == Uncounted(c)
  <2>1. FixThenUse(c) = Use(d)
    BY <1>3 DEF FixThenUse, Uncounted
  <2>2. Typed(d) /\ \A f \in Fields \ {"no_increment"} : d[f] = c[f]
    BY SilentIs
  <2>3. Visible(d) = Visible(c)
    BY FieldNames, SeenNone DEF Uncounted
  <2>4. Past(d, b, n)
    BY <2>3, Zenon DEF Past
  <2>5. c.current_value = v
    BY <1>3 DEF Near
  <2>. HIDE DEF d, v
  <2>6. "current_value" \in Fields \ {"no_increment"} /\ "current_opcode" \in Fields \ {"no_increment"}
    BY DEF Fields, New
  <2>7. d.current_value = v /\ Op(d) = op
    BY <2>2, <2>5, <2>6 DEF Op
  <2>8. d.d = b.d
    BY <2>4, PastIs
  <2>9. Visible(Use(d)) = WholeLoad(op, After(b, n), v)
    BY <1>1, <2>2, <2>4, <2>7, <2>8, UseIs
  <2>. QED BY <2>1, <2>9 DEF v
<1>. QED BY <1>2, <1>3

Remembering(r, m) == [r EXCEPT !.mem = m]

LEMMA WrittenAgain ==
  ASSUME NEW c, DOMAIN c = Fields, NEW to, NEW s
  PROVE  Visible(Writing(c, to, s)) = Remembering(Visible(c), Written(c.mem, to, s))
BY WritingIs DEF Remembering

LEMMA ModifyLast ==
  ASSUME NEW c, Typed(c), c.bus = <<>>, NEW r, DOMAIN r = Registers, NEW to \in Word,
         NEW v \in Byte, At(r, to) = v, c.current_address = to, c.current_value = v,
         Visible(c) = [r EXCEPT !.mem = Written(r.mem, to, v)],
         NEW op \in Official \union Unofficial, Op(c) = op, op \in Decimal => ~r.d
  PROVE  Visible(Modify(c)) =
           IF op \in Official
           THEN Whole!Set(Whole!Shift8(op, r, v).r, to, Whole!Shift8(op, r, v).value)
           ELSE Whole!UndocumentedModify(op, r, to)
<1>. DEFINE s == Modified(op, r, v)
            w == Writing(c, to, s)
            d == ShiftedOut(op, w, v)
            e == Accumulate(op, d, s)
            once == Written(r.mem, to, v)
<1>1. c.c = r.c /\ c.mem = once
  <2>1. Visible(c).c = c.c /\ Visible(c).mem = c.mem
    BY SeenFields
  <2>. HIDE DEF once
  <2>2. [r EXCEPT !.mem = once].c = r.c /\ [r EXCEPT !.mem = once].mem = once
    BY DEF Registers
  <2>3. Visible(c) = [r EXCEPT !.mem = once]
    BY DEF once
  <2>. QED BY <2>1, <2>2, <2>3
<1>2. Modified(op, c, v) = s
  BY <1>1, Zenon DEF Modified
<1>3. s \in Byte
  BY <1>2, ModifiedByte
<1>4. Modify(c) = Done(e)
  BY <1>2, Zenon DEF Modify
<1>. HIDE DEF s
<1>5. Accessed(c, w)
  BY <1>3, WritingAccess
<1>6. Typed(w) /\ DOMAIN c = Fields
  BY <1>5, AccessedTyped, FieldNames
<1>7. Visible(w) = [Visible(c) EXCEPT !.mem = Written(once, to, s)]
  <2>. HIDE DEF once
  <2>1. Visible(w) = Remembering(Visible(c), Written(c.mem, to, s))
    BY <1>6, WrittenAgain
  <2>. QED BY <1>1, <2>1, Zenon DEF Remembering
<1>8. Visible(w) = [r EXCEPT !.mem = Written(r.mem, to, s)]
  <2>1. Written(once, to, s) = Written(r.mem, to, s)
    BY WrittenTwice
  <2>. DEFINE twice == Written(r.mem, to, s)
  <2>. HIDE DEF once, twice
  <2>2. [[r EXCEPT !.mem = once] EXCEPT !.mem = twice] = [r EXCEPT !.mem = twice]
    BY DEF Registers
  <2>3. Visible(c) = [r EXCEPT !.mem = once]
    BY DEF once
  <2>. QED BY <1>7, <2>1, <2>2, <2>3 DEF twice
<1>9. Visible(e) = IF op \in Official
                   THEN Whole!Set(Whole!Shift8(op, r, v).r, to, Whole!Shift8(op, r, v).value)
                   ELSE Whole!UndocumentedModify(op, r, to)
  <2>. HIDE DEF w
  <2>. QED BY <1>6, <1>8, SeenModify DEF s
<1>. HIDE DEF w
<1>10. Typed(d)
  BY <1>6, ShiftedOutKept, KeptTyped
<1>. HIDE DEF d
<1>11. Typed(e)
  BY <1>3, <1>10, AccumulateKept, KeptTyped
<1>. HIDE DEF e
<1>12. Visible(Done(e)) = Visible(e)
  BY <1>11, FieldNames, SeenDone
<1>. QED BY <1>4, <1>9, <1>12, Zenon

(* The instructions that only fetch their opcode, and read what is next.    *)
LEMMA ImpliedLast ==
  ASSUME NEW c, Typed(c), c.bus = <<>>, NEW r, Visible(c) = r, NEW op, Op(c) = op
  PROVE  /\ op \in Flags => Visible(FlagStep(c)) = Whole!SetsFlag(op, r)
         /\ op \in Transfers => Visible(TransferStep(c)) = Whole!Moves(op, r)
         /\ op \in {"ASL", "LSR", "ROL", "ROR"} =>
              Visible(ShiftStep(c)) = [Whole!Shift8(op, r, r.a).r
                                         EXCEPT !.a = Whole!Shift8(op, r, r.a).value]
         /\ Visible(Nothing(c)) = r
<1>. DEFINE d == Discard(c)
<1>1. Accessed(c, d)
  BY PlainSteps
<1>2. Typed(d) /\ Op(d) = op
  BY <1>1, AccessedTyped, SameOp
<1>3. DOMAIN c = Fields /\ DOMAIN d = Fields
  BY <1>2, FieldNames
<1>4. Visible(d) = r
  BY <1>3, ReadingIs DEF Discard
<1>5. /\ FlagStep(c) = Done(SetFlag(op, d)) /\ TransferStep(c) = Done(Transfer(op, d))
      /\ ShiftStep(c) = Done(ShiftA(op, d)) /\ Nothing(c) = Done(d)
  BY Zenon DEF FlagStep, TransferStep, ShiftStep, Nothing
<1>. HIDE DEF d
<1>6. ASSUME op \in Flags PROVE Visible(FlagStep(c)) = Whole!SetsFlag(op, r)
  <2>. DEFINE e == SetFlag(op, d)
  <2>1. Visible(e) = Whole!SetsFlag(op, r)
    BY <1>3, <1>4, <1>6, SeenSetFlag
  <2>2. Typed(e)
    BY <1>2, <1>6, SetFlagKept, KeptTyped
  <2>. HIDE DEF e
  <2>3. Visible(Done(e)) = Visible(e)
    BY <2>2, FieldNames, SeenDone
  <2>. QED BY <1>5, <2>1, <2>3 DEF e
<1>7. ASSUME op \in Transfers PROVE Visible(TransferStep(c)) = Whole!Moves(op, r)
  <2>. DEFINE e == Transfer(op, d)
  <2>1. Visible(e) = Whole!Moves(op, r)
    BY <1>2, <1>4, <1>7, SeenTransfer
  <2>2. Typed(e)
    BY <1>2, <1>7, TransferKept, KeptTyped
  <2>. HIDE DEF e
  <2>3. Visible(Done(e)) = Visible(e)
    BY <2>2, FieldNames, SeenDone
  <2>. QED BY <1>5, <2>1, <2>3 DEF e
<1>8. ASSUME op \in {"ASL", "LSR", "ROL", "ROR"}
      PROVE  Visible(ShiftStep(c)) = [Whole!Shift8(op, r, r.a).r
                                        EXCEPT !.a = Whole!Shift8(op, r, r.a).value]
  <2>. DEFINE e == ShiftA(op, d)
  <2>1. Visible(e) = [Whole!Shift8(op, r, r.a).r EXCEPT !.a = Whole!Shift8(op, r, r.a).value]
    BY <1>2, <1>4, <1>8, SeenShiftA
  <2>2. op \in Official
    BY <1>8 DEF Official
  <2>3. Typed(e)
    BY <1>2, <2>2, ShiftAKept, KeptTyped
  <2>. HIDE DEF e
  <2>4. Visible(Done(e)) = Visible(e)
    BY <2>3, FieldNames, SeenDone
  <2>. QED BY <1>5, <2>1, <2>4 DEF e
<1>9. Visible(Nothing(c)) = r
  BY <1>3, <1>4, <1>5, SeenDone
<1>. QED BY <1>6, <1>7, <1>8, <1>9

LEMMA StackLast ==
  ASSUME NEW c, Typed(c), c.bus = <<>>, NEW r, Visible(c) = r, NEW op, Op(c) = op
  PROVE  /\ op \in {"PHA", "PHP"} => Visible(PushRegister(c)) = Whole!Stacked(op, r)
         /\ op \in {"PLA", "PLP"} => Visible(PullRegister(c)) = Whole!Stacked(op, r)
<1>0. DOMAIN c = Fields
  BY FieldNames
<1>1. ASSUME op \in {"PHA", "PHP"} PROVE Visible(PushRegister(c)) = Whole!Stacked(op, r)
  <2>. DEFINE v == IF op = "PHA" THEN c.a ELSE StatusByte(c, TRUE)
              e == Push(c, v)
  <2>1. PushRegister(c) = Done(e)
    BY DEF PushRegister
  <2>2. DOMAIN e = Fields
    BY <1>0, PushKeeps
  <2>3. Visible(e) = Whole!push_byte(r, v)
    BY <1>0, SeenPush
  <2>4. StatusByte(c, TRUE) = Whole!value(r, TRUE) /\ c.a = r.a
    BY <1>0, SeenStatus, SeenFields
  <2>5. Whole!push_byte(r, v) = Whole!Stacked(op, r)
    <3>1. CASE op = "PHA"
      <4>1. v = r.a
        BY <2>4, <3>1
      <4>. QED BY <3>1, <4>1, Zenon DEF Whole!Stacked
    <3>2. CASE op = "PHP"
      <4>1. v = Whole!value(r, TRUE)
        BY <2>4, <3>2
      <4>. QED BY <3>2, <4>1, Zenon DEF Whole!Stacked
    <3>. QED BY <1>1, <3>1, <3>2
  <2>. HIDE DEF e, v
  <2>6. Visible(Done(e)) = Visible(e)
    BY <2>2, SeenDone
  <2>. QED BY <2>1, <2>3, <2>5, <2>6
<1>2. ASSUME op \in {"PLA", "PLP"} PROVE Visible(PullRegister(c)) = Whole!Stacked(op, r)
  <2>. DEFINE d == Pop(c)
              v == Top(c)
              e == IF op = "PLA" THEN SetA(d, v) ELSE SetStatus(d, v)
  <2>1. PullRegister(c) = Done(e)
    BY Zenon DEF PullRegister
  <2>2. Accessed(c, d) /\ v \in Byte
    BY PopAccess, TopByteIs
  <2>3. Typed(d)
    BY <2>2, AccessedTyped
  <2>4. Visible(d) = Whole!inc(r) /\ v = Whole!TopByte(r)
    BY <1>0, SeenPop
  <2>. HIDE DEF d, v
  <2>5. DOMAIN d = Fields
    BY <2>3, FieldNames
  <2>6. CASE op = "PLA"
    <3>1. e = SetA(d, v)
      BY <2>6
    <3>2. Typed(SetA(d, v)) /\ Visible(SetA(d, v)) = Whole!WithA(Visible(d), v)
      BY <2>2, <2>3, <2>5, LoadingKept, KeptTyped, SeenLoading
    <3>3. Whole!Stacked(op, r) = Whole!WithA(Visible(d), v)
      BY <2>4, <2>6, Zenon DEF Whole!Stacked
    <3>. HIDE DEF e
    <3>4. Visible(Done(e)) = Visible(e)
      BY <3>1, <3>2, FieldNames, SeenDone
    <3>. QED BY <2>1, <3>1, <3>2, <3>3, <3>4
  <2>7. CASE op = "PLP"
    <3>1. e = SetStatus(d, v)
      BY <2>7
    <3>2. Typed(SetStatus(d, v)) /\ Visible(SetStatus(d, v)) = Whole!set_value(Visible(d), v)
      BY <2>3, <2>5, SetStatusKept, KeptTyped, SeenStatus
    <3>3. Whole!Stacked(op, r) = Whole!set_value(Visible(d), v)
      BY <2>4, <2>7, Zenon DEF Whole!Stacked
    <3>. HIDE DEF e
    <3>4. Visible(Done(e)) = Visible(e)
      BY <3>1, <3>2, FieldNames, SeenDone
    <3>. QED BY <2>1, <3>1, <3>2, <3>3, <3>4
  <2>. QED BY <1>2, <2>6, <2>7
<1>. QED BY <1>1, <1>2

(* A store: the value goes to where the operand says.                       *)
LEMMA StoreIs ==
  ASSUME NEW c, Typed(c), NEW b, SeenTyped(b), NEW n, Past(c, b, n), NEW to,
         c.current_address = to, NEW op \in Stores \ Disputed, Op(c) = op
  PROVE  Visible(Write(c)) =
           IF op = "SAX" THEN Whole!UndocumentedStore(op, After(b, n), to)
           ELSE Whole!StoresReg(op, After(b, n), to)
<1>. DEFINE v == Stored(op, c)
            e == Writing(c, to, v)
            r == After(b, n)
            m == Written(c.mem, to, v)
<1>1. op \in {"STA", "STX", "STY", "SAX"} /\ op \notin Unstable
  BY DEF Stores, Disputed
<1>2. Write(c) = Done(e)
  BY <1>1, Zenon DEF Write
<1>3. DOMAIN c = Fields
  BY FieldNames
<1>4. DOMAIN e = Fields /\ Visible(e) = Remembering(Visible(c), m)
  BY <1>3, WritingIs, WrittenAgain
<1>5. Visible(c) = r
  BY Zenon DEF Past, After
<1>6. Visible(e) = Whole!Set(r, to, v)
  <2>. DEFINE q == Visible(c)
  <2>1. q.mem = c.mem
    BY SeenFields
  <2>. HIDE DEF q, v, r
  <2>2. Whole!Set(q, to, v) = Remembering(q, Written(q.mem, to, v))
    BY WholeMemory DEF Remembering
  <2>. QED BY <1>4, <1>5, <2>1, <2>2 DEF q
<1>7. v = CASE op = "STA" -> r.a [] op = "STX" -> r.x [] op = "STY" -> r.y
             [] op = "SAX" -> Whole!And(r.a, r.x)
  <2>1. c.a = r.a /\ c.x = r.x /\ c.y = r.y
    BY <1>5, SeenFields
  <2>2. Whole!And(c.a, c.x) = And(c.a, c.x)
    BY WholeAnd
  <2>. HIDE DEF r
  <2>3. CASE op = "STA"
    BY <2>1, <2>3, Zenon DEF Stored
  <2>4. CASE op = "STX"
    BY <2>1, <2>4, Zenon DEF Stored
  <2>5. CASE op = "STY"
    BY <2>1, <2>5, Zenon DEF Stored
  <2>6. CASE op = "SAX"
    BY <2>1, <2>2, <2>6, Zenon DEF Stored
  <2>. QED BY <1>1, <2>3, <2>4, <2>5, <2>6
<1>8. Whole!Set(r, to, v) = IF op = "SAX" THEN Whole!UndocumentedStore(op, r, to)
                            ELSE Whole!StoresReg(op, r, to)
  <2>. HIDE DEF r, v
  <2>1. CASE op = "STA"
    BY <1>7, <2>1, Zenon DEF Whole!StoresReg
  <2>2. CASE op = "STX"
    BY <1>7, <2>2, Zenon DEF Whole!StoresReg
  <2>3. CASE op = "STY"
    BY <1>7, <2>3, Zenon DEF Whole!StoresReg
  <2>4. CASE op = "SAX"
    <3>1. v = Whole!And(r.a, r.x)
      BY <1>7, <2>4, Zenon
    <3>. QED BY <2>4, <3>1, Zenon DEF Whole!UndocumentedStore
  <2>. QED BY <1>1, <2>1, <2>2, <2>3, <2>4
<1>. HIDE DEF e, v, r
<1>9. Visible(Done(e)) = Visible(e)
  BY <1>4, SeenDone
<1>. QED BY <1>2, <1>6, <1>8, <1>9 DEF r

LEMMA FixStoreIs ==
  ASSUME NEW c, Typed(c), NEW b, SeenTyped(b), NEW n, Past(c, b, n),
         NEW mode \in Indexing, Near(mode, c, b), Op(c) = "STA"
  PROVE  Visible(FixThenWrite(c)) = Whole!StoresReg("STA", After(b, n), Target(b, mode))
<1>. DEFINE d == Fixed(c)
            to == Target(b, mode)
<1>1. FixThenWrite(c) = Write(d)
  BY DEF FixThenWrite
<1>2. Kept(c, d)
  BY FixedKept
<1>3. Typed(d) /\ Op(d) = "STA"
  BY <1>2, KeptTyped, SameOp
<1>4. Visible(d) = Visible(c) /\ d.current_address = to
  BY FieldNames, FixedIs, NearFixed
<1>5. Past(d, b, n)
  BY <1>4, Zenon DEF Past
<1>6. "STA" \in Stores \ Disputed /\ "STA" # "SAX"
  BY DEF Stores, Disputed, Unstable
<1>. HIDE DEF d, to
<1>7. Visible(Write(d)) = Whole!StoresReg("STA", After(b, n), to)
  BY <1>3, <1>4, <1>5, <1>6, StoreIs
<1>. QED BY <1>1, <1>7 DEF to

(* A jump.                                                                  *)
LEMMA JumpLast ==
  ASSUME NEW c, DOMAIN c = Fields, NEW w, w = Paged(c.low_byte, At(c, c.pc))
  PROVE  Visible(JumpHigh(c)) = [Visible(c) EXCEPT !.pc = w]
<1>. DEFINE d == Reading(c, c.pc)
            e == [d EXCEPT !.pc = w]
<1>1. DOMAIN d = Fields /\ Visible(d) = Visible(c)
  BY ReadingIs
<1>2. JumpHigh(c) = Done(e)
  BY DEF JumpHigh
<1>. HIDE DEF d
<1>3. DOMAIN e = Fields /\ Visible(e) = [Visible(d) EXCEPT !.pc = w]
  BY <1>1, SeenFlag
<1>. HIDE DEF e
<1>4. Visible(Done(e)) = Visible(e)
  BY <1>3, SeenDone
<1>. QED BY <1>1, <1>2, <1>3, <1>4

LEMMA JumpAbsolute ==
  ASSUME NEW c, Typed(c), NEW b, SeenTyped(b), Past(c, b, 2), c.low_byte = FirstByte(b)
  PROVE  Visible(JumpHigh(c)) = [After(b, 3) EXCEPT !.pc = Absolute(b)]
<1>1. At(c, c.pc) = SecondByte(b)
  BY PastIs DEF SecondByte
<1>. DEFINE w == Absolute(b)
            r == After(b, 2)
            q == After(b, 3)
<1>2. w = Paged(c.low_byte, At(c, c.pc))
  BY <1>1 DEF Absolute
<1>3. Visible(c) = r
  BY Zenon DEF Past, After
<1>4. DOMAIN c = Fields /\ DOMAIN b = Registers
  BY FieldNames, SeenKinds
<1>. HIDE DEF w
<1>5. Visible(JumpHigh(c)) = [Visible(c) EXCEPT !.pc = w]
  BY <1>2, <1>4, JumpLast
<1>6. [r EXCEPT !.pc = w] = [q EXCEPT !.pc = w]
  BY <1>4 DEF After, Registers
<1>. QED BY <1>3, <1>5, <1>6 DEF w

LEMMA JumpIndirect ==
  ASSUME NEW c, Typed(c), NEW b, SeenTyped(b), NEW n, Past(c, b, n), c.current_address = Absolute(b),
         c.low_byte = At(b, Absolute(b))
  PROVE  Visible(JumpPointed(c)) = [After(b, n) EXCEPT !.pc = Vectored(b)]
<1>. DEFINE next == Paged(Lo(c.current_address + 1), Hi(c.current_address))
            w == Paged(c.low_byte, At(c, next))
            d == Reading(c, next)
            e == [d EXCEPT !.pc = w]
<1>1. JumpPointed(c) = Done(e)
  BY DEF JumpPointed
<1>2. w = Vectored(b)
  <2>1. next = Paged(Lo(Absolute(b) + 1), Hi(Absolute(b)))
    BY Zenon
  <2>. HIDE DEF next
  <2>2. At(c, next) = At(b, next)
    BY PastIs
  <2>. QED BY <2>1, <2>2, Zenon DEF Vectored
<1>. HIDE DEF next
<1>3. DOMAIN d = Fields /\ Visible(d) = Visible(c)
  BY FieldNames, ReadingIs
<1>. HIDE DEF d, w
<1>4. DOMAIN e = Fields /\ Visible(e) = [Visible(d) EXCEPT !.pc = w]
  BY <1>3, SeenFlag
<1>. HIDE DEF e
<1>5. Visible(Done(e)) = Visible(e)
  BY <1>4, SeenDone
<1>6. Visible(c) = After(b, n)
  BY Zenon DEF Past, After
<1>. QED BY <1>1, <1>2, <1>3, <1>4, <1>5, <1>6

(* A push leaves the program counter, and memory elsewhere.                 *)
LEMMA AtElsewhere ==
  ASSUME NEW p, NEW q, NEW to, NEW v, q.mem = Written(p.mem, to, v), NEW w, w # to
  PROVE  At(q, w) = At(p, w)
BY DEF At, Written

Pushing(r, v) ==
  LET p == Whole!push_byte(r, v)
  IN /\ DOMAIN p = Registers /\ p.pc = r.pc /\ p.s = (r.s - 1) % 256
     /\ p.mem = Written(r.mem, 256 + r.s, v)
     /\ \A w : Whole!push_byte([r EXCEPT !.pc = w], v) = [p EXCEPT !.pc = w]

LEMMA PushingIs ==
  ASSUME NEW r, DOMAIN r = Registers, NEW v
  PROVE  Pushing(r, v)
<1>. DEFINE m == Written(r.mem, 256 + r.s, v)
            s == (r.s - 1) % 256
            p == [r EXCEPT !.mem = m, !.s = s]
<1>1. Whole!push_byte(r, v) = p
  <2>1. Whole!Set(r, 256 + r.s, v) = [r EXCEPT !.mem = m]
    BY WholeMemory
  <2>2. [r EXCEPT !.mem = m].s = r.s
    BY DEF Registers
  <2>3. Whole!Wrap(r.s - 1) = s
    BY WholeBits
  <2>4. Whole!push_byte(r, v) = [[r EXCEPT !.mem = m] EXCEPT !.s = s]
    BY <2>1, <2>2, <2>3, Zenon DEF Whole!push_byte
  <2>. HIDE DEF m, s
  <2>. QED BY <2>4
<1>2. \A w : Whole!push_byte([r EXCEPT !.pc = w], v) = [p EXCEPT !.pc = w]
  <2>. TAKE w
  <2>. DEFINE q == [r EXCEPT !.pc = w]
  <2>1. q.mem = r.mem /\ q.s = r.s
    BY DEF Registers
  <2>. HIDE DEF q
  <2>2. Whole!Set(q, 256 + q.s, v) = [q EXCEPT !.mem = m]
    <3>1. Whole!Set(q, 256 + q.s, v) = [q EXCEPT !.mem = Written(q.mem, 256 + q.s, v)]
      BY WholeMemory
    <3>. QED BY <2>1, <3>1, Zenon
  <2>3. [q EXCEPT !.mem = m].s = r.s
    BY <2>1 DEF Registers, q
  <2>4. Whole!Wrap(r.s - 1) = s
    BY WholeBits
  <2>5. Whole!push_byte(q, v) = [[q EXCEPT !.mem = m] EXCEPT !.s = s]
    BY <2>2, <2>3, <2>4, Zenon DEF Whole!push_byte
  <2>. HIDE DEF m, s
  <2>6. [[q EXCEPT !.mem = m] EXCEPT !.s = s] = [p EXCEPT !.pc = w]
    BY DEF q, Registers
  <2>. QED BY <2>5, <2>6 DEF q
<1>3. DOMAIN p = Registers /\ p.pc = r.pc /\ p.s = s /\ p.mem = m
  <2>. HIDE DEF m, s
  <2>. QED BY DEF Registers
<1>. HIDE DEF p
<1>. QED BY <1>1, <1>2, <1>3 DEF Pushing

Overlaps(b) ==
  Shift(b.pc, 1) = OnStack(b.s) \/ Shift(b.pc, 2) = OnStack((b.s - 1) % 256)

LEMMA JsrLast ==
  ASSUME NEW c, Typed(c), NEW b, SeenTyped(b), Visible(c) = Pushed(After(b, 2)),
         c.low_byte = FirstByte(b), ~Overlaps(b)
  PROVE  Visible(JumpHigh(c)) = Whole!jsr(After(b, 3), b.pc)
<1>. DEFINE r == After(b, 2)
            q == After(b, 3)
            back == Shift(b.pc, 2)
            p == Whole!push_byte(r, Hi(back))
            f == Whole!push_byte(p, Lo(back))
            on == Shift(b.pc, 3)
            half == [p EXCEPT !.pc = on]
            w == Paged(FirstByte(b), At(p, back))
<1>1. DOMAIN b = Registers /\ b.pc \in Word /\ b.s \in Byte /\ DOMAIN c = Fields
  BY SeenKinds, FieldNames
<1>2. DOMAIN r = Registers /\ r.pc = back /\ r.mem = b.mem /\ r.s = b.s
  BY <1>1, AfterIs
<1>3. /\ DOMAIN p = Registers /\ p.pc = r.pc /\ p.s = (r.s - 1) % 256
      /\ p.mem = Written(r.mem, 256 + r.s, Hi(back))
      /\ \A x : Whole!push_byte([r EXCEPT !.pc = x], Hi(back)) = [p EXCEPT !.pc = x]
  <2>. DEFINE h == Hi(back)
  <2>. HIDE DEF h, r
  <2>. QED BY <1>2, PushingIs, Zenon DEF Pushing
<1>4. /\ f.pc = p.pc /\ f.mem = Written(p.mem, 256 + p.s, Lo(back)) /\ DOMAIN f = Registers
      /\ \A x : Whole!push_byte([p EXCEPT !.pc = x], Lo(back)) = [f EXCEPT !.pc = x]
  <2>1. DOMAIN p = Registers
    BY <1>3
  <2>2. \A v : Pushing(p, v)
    <3>. HIDE DEF p
    <3>. QED BY <2>1, PushingIs
  <2>. HIDE DEF p
  <2>. QED BY <2>2, Zenon DEF Pushing
<1>5. Visible(c) = f
  BY <1>2, Zenon DEF Pushed, PushedHigh
<1>6. c.pc = back /\ c.mem = f.mem
  <2>1. Visible(c).pc = c.pc /\ Visible(c).mem = c.mem
    BY SeenFields
  <2>. HIDE DEF f, r, p
  <2>. QED BY <1>2, <1>3, <1>4, <1>5, <2>1
<1>7. At(c, back) = At(p, back)
  <2>1. back # 256 + p.s
    BY <1>2, <1>3 DEF Overlaps, OnStack, STACK_ADDRESS
  <2>. DEFINE l == Lo(back)
              to == 256 + p.s
  <2>2. c.mem = Written(p.mem, to, l)
    BY <1>4, <1>6
  <2>3. back # to
    BY <2>1
  <2>. HIDE DEF p, l, to, back
  <2>. QED BY <2>2, <2>3 DEF At, Written
<1>8. Visible(JumpHigh(c)) = [f EXCEPT !.pc = w]
  <2>1. w = Paged(c.low_byte, At(c, c.pc))
    BY <1>6, <1>7, Zenon
  <2>. HIDE DEF w, f
  <2>. QED BY <1>1, <1>5, <2>1, JumpLast
<1>9. q = [r EXCEPT !.pc = on]
  BY <1>1 DEF After, Registers
<1>10. Whole!push_byte(q, Hi(back)) = half
  BY <1>3, <1>9, Zenon
<1>11. Whole!word(half, Whole!Wrap16(b.pc + 1)) = w
  <2>1. half.mem = p.mem
    <3>. HIDE DEF p
    <3>. QED BY <1>3 DEF Registers
  <2>2. Shift(b.pc, 1) # 256 + r.s
    BY <1>2 DEF Overlaps, OnStack, STACK_ADDRESS
  <2>3. /\ Whole!Wrap16(b.pc + 1) = Shift(b.pc, 1) /\ Whole!Wrap16(Shift(b.pc, 1) + 1) = back
    BY <1>1, WordIs DEF Whole!Wrap16, Shift
  <2>4. Whole!word(half, Shift(b.pc, 1)) = Whole!Get(half, Shift(b.pc, 1)) + 256 * Whole!Get(half, back)
    BY <2>3, Zenon DEF Whole!word, Whole!WordOf
  <2>5. Whole!Get(half, back) = At(p, back)
    <3>1. Whole!Get(half, back) = At(half, back)
      BY WholeMemory
    <3>. HIDE DEF half, p
    <3>. QED BY <2>1, <3>1 DEF At
  <2>6. Whole!Get(half, Shift(b.pc, 1)) = FirstByte(b)
    <3>1. Whole!Get(half, Shift(b.pc, 1)) = At(half, Shift(b.pc, 1))
      BY WholeMemory
    <3>. DEFINE to == 256 + r.s
                h == Hi(back)
                x == Shift(b.pc, 1)
    <3>2. half.mem = Written(b.mem, to, h)
      BY <1>2, <1>3, <2>1
    <3>4. x # to
      BY <2>2
    <3>. HIDE DEF half, p, r, to, h, x
    <3>3. At(half, x) = At(b, x)
      BY <3>2, <3>4 DEF At, Written
    <3>. QED BY <3>1, <3>3 DEF FirstByte, x
  <2>. HIDE DEF half, p
  <2>7. Whole!word(half, Shift(b.pc, 1)) = w
    BY <2>4, <2>5, <2>6 DEF Paged
  <2>. QED BY <2>3, <2>7, Zenon
<1>12. Whole!jsr(q, b.pc) = Whole!push_byte([half EXCEPT !.pc = w], Lo(back))
  <2>1. Whole!Wrap16(b.pc + 2) = back
    BY DEF Whole!Wrap16, Shift
  <2>2. Whole!Wrap16(b.pc + 2) \div 256 = Hi(back) /\ Whole!Wrap16(b.pc + 2) % 256 = Lo(back)
    BY <2>1 DEF Hi, Lo
  <2>. HIDE DEF half, back, w, q
  <2>. QED BY <1>10, <1>11, <2>2, Zenon DEF Whole!jsr
<1>13. [half EXCEPT !.pc = w] = [p EXCEPT !.pc = w]
  <2>. HIDE DEF p, w, on
  <2>. QED BY <1>3 DEF Registers
<1>. HIDE DEF w, f
<1>14. Whole!push_byte([p EXCEPT !.pc = w], Lo(back)) = [f EXCEPT !.pc = w]
  BY <1>4
<1>. HIDE DEF half, p
<1>. QED BY <1>8, <1>12, <1>13, <1>14, Zenon

(* The returns.                                                             *)
LEMMA RtsLast ==
  ASSUME NEW c, Typed(c), NEW r, DOMAIN r = Registers, Visible(c) = Popped(r)
  PROVE  Visible(IncrementPc(c)) = Whole!rts(r)
<1>. DEFINE t == Whole!TopWord(r)
            p == Whole!inc(Whole!inc(r))
            d == Reading(c, c.pc)
            e == [d EXCEPT !.pc = Shift(c.pc, 1)]
            w == Shift(t, 1)
<1>1. DOMAIN p = Registers
  <2>1. DOMAIN Whole!inc(r) = Registers
    BY Incremented
  <2>. QED BY <2>1, Incremented
<1>2. Visible(c) = [p EXCEPT !.pc = t]
  BY Zenon DEF Popped
<1>3. DOMAIN d = Fields /\ Visible(d) = Visible(c)
  BY FieldNames, ReadingIs
<1>4. d.pc = c.pc
  BY FieldNames DEF Reading
<1>5. IncrementPc(c) = Done(e)
  BY <1>3, <1>4 DEF IncrementPc, Fetched, IncPc
<1>6. c.pc = t
  <2>1. Visible(c).pc = c.pc
    BY SeenFields
  <2>. HIDE DEF p, t
  <2>2. [p EXCEPT !.pc = t].pc = t
    BY <1>1 DEF Registers
  <2>. QED BY <1>2, <2>1, <2>2
<1>7. Whole!rts(r) = [p EXCEPT !.pc = w]
  <2>1. Whole!Wrap16(t + 1) = w
    BY DEF Whole!Wrap16, Shift
  <2>. HIDE DEF w
  <2>. QED BY <2>1, Zenon DEF Whole!rts
<1>8. e = [d EXCEPT !.pc = w]
  BY <1>6
<1>. HIDE DEF d, w, p, t, e
<1>9. DOMAIN e = Fields /\ Visible(e) = [Visible(d) EXCEPT !.pc = w]
  <2>1. DOMAIN [d EXCEPT !.pc = w] = Fields /\ Visible([d EXCEPT !.pc = w]) = [Visible(d) EXCEPT !.pc = w]
    BY <1>3, SeenFlag
  <2>. QED BY <1>8, <2>1
<1>10. Visible(Done(e)) = Visible(e)
  BY <1>9, SeenDone
<1>11. [[p EXCEPT !.pc = t] EXCEPT !.pc = w] = [p EXCEPT !.pc = w]
  BY <1>1 DEF Registers
<1>. QED BY <1>2, <1>3, <1>5, <1>7, <1>9, <1>10, <1>11

(* The flags come off the stack before or after the stack pointer moves.    *)
LEMMA StatusThenPop ==
  ASSUME NEW r, DOMAIN r = Registers, NEW t
  PROVE  /\ Whole!inc(Whole!set_value(r, t)) = Whole!set_value(Whole!inc(r), t)
         /\ DOMAIN Whole!set_value(r, t) = Registers
         /\ Whole!set_value(r, t).mem = r.mem /\ Whole!set_value(r, t).s = r.s
         /\ Whole!set_value(r, t).pc = r.pc
<1>. DEFINE s == Whole!Wrap(r.s + 1)
            n == (Whole!Bit(t, 128) = 1)
            v == (Whole!Bit(t, 64) = 1)
            d == (Whole!Bit(t, 8) = 1)
            i == (Whole!Bit(t, 4) = 1)
            z == (Whole!Bit(t, 2) = 1)
            c == (Whole!Bit(t, 1) = 1)
            q == [r EXCEPT !.n = n, !.v = v, !.d = d, !.i = i, !.z = z, !.c = c]
            p == [r EXCEPT !.s = s]
<1>1. Whole!set_value(r, t) = q
  BY Zenon DEF Whole!set_value
<1>2. Whole!inc(r) = p
  BY DEF Whole!inc
<1>3. Whole!set_value(p, t) = [p EXCEPT !.n = n, !.v = v, !.d = d, !.i = i, !.z = z, !.c = c]
  BY Zenon DEF Whole!set_value
<1>. HIDE DEF n, v, d, i, z, c
<1>4. DOMAIN q = Registers /\ q.mem = r.mem /\ q.s = r.s /\ q.pc = r.pc
  BY DEF Registers
<1>5. Whole!inc(q) = [q EXCEPT !.s = s]
  BY <1>4, Zenon DEF Whole!inc, s
<1>. HIDE DEF s
<1>6. [q EXCEPT !.s = s] = [p EXCEPT !.n = n, !.v = v, !.d = d, !.i = i, !.z = z, !.c = c]
  BY DEF Registers
<1>. HIDE DEF p, q
<1>. QED BY <1>1, <1>2, <1>3, <1>4, <1>5, <1>6

LEMMA RtiLast ==
  ASSUME NEW c, Typed(c), NEW b, SeenTyped(b), Visible(c) = Popping(StatusPulled(After(b, 1)))
  PROVE  Visible(Return(c)) = Whole!rti(After(b, 1))
<1>. DEFINE r == After(b, 1)
            t == Whole!TopByte(r)
            i == Whole!inc(r)
            q == Whole!set_value(i, t)
            w == 256 + Whole!Wrap(q.s + 1)
<1>1. /\ DOMAIN b = Registers /\ b.pc \in Word /\ b.s \in Byte /\ DOMAIN c = Fields
      /\ \A to \in Word : At(b, to) \in Byte
  BY SeenKinds, FieldNames
<1>2. DOMAIN r = Registers /\ r.pc = Shift(b.pc, 1) /\ r.mem = b.mem /\ r.s = b.s
  BY <1>1, AfterIs
<1>3. StatusPulled(r) = q
  BY Zenon DEF StatusPulled
<1>. HIDE DEF r
<1>4. DOMAIN i = Registers /\ i.mem = b.mem /\ i.pc = r.pc
  BY <1>2, Incremented
<1>5. DOMAIN q = Registers /\ q.mem = b.mem /\ q.pc = r.pc /\ q.s = i.s
  <2>. HIDE DEF i, t
  <2>. QED BY <1>4, StatusThenPop
<1>6. i.s = Whole!Wrap(b.s + 1)
  BY <1>2 DEF Whole!inc, Registers
<1>7. w \in Word
  <2>1. q.s \in Int
    BY <1>1, <1>5, <1>6, ByteIs DEF Whole!Wrap
  <2>. HIDE DEF q
  <2>. QED BY <2>1, WordIs DEF Whole!Wrap
<1>8. Whole!TopByte(q) \in Byte
  <2>1. Whole!TopByte(q) = Whole!Get(q, w)
    BY Zenon DEF Whole!TopByte
  <2>. HIDE DEF q, w
  <2>2. Whole!Get(q, w) = At(b, w)
    BY <1>5, WholeOperand
  <2>. QED BY <1>1, <1>7, <2>1, <2>2
<1>9. q.pc \in Int
  <2>1. Shift(b.pc, 1) \in Int
    BY <1>1, WordIs DEF Shift
  <2>. QED BY <1>2, <1>5, <2>1
<1>10. Visible(PullPch(c)) = Popped(q)
  <2>1. DOMAIN c = Fields /\ DOMAIN q = Registers /\ Visible(c) = Popping(q)
    BY <1>1, <1>3, <1>5 DEF r
  <2>. HIDE DEF q
  <2>. QED BY <1>8, <1>9, <2>1, PullHighStep, Zenon
<1>11. Return(c) = Done(PullPch(c))
  BY DEF Return
<1>12. DOMAIN PullPch(c) = Fields
  BY <1>1, PopKeeps DEF PullPch
<1>13. Visible(Done(PullPch(c))) = Visible(PullPch(c))
  BY <1>12, SeenDone
<1>14. Whole!inc(Whole!set_value(r, t)) = q
  BY <1>2, StatusThenPop
<1>15. Whole!rti(r) = Popped(q)
  <2>. HIDE DEF q, t
  <2>1. Whole!rti(r) = [Whole!inc(Whole!inc(q)) EXCEPT !.pc = Whole!TopWord(q)]
    BY <1>14, Zenon DEF Whole!rti, t
  <2>. QED BY <2>1, Zenon DEF Popped
<1>. QED BY <1>10, <1>11, <1>13, <1>15 DEF r

(* A branch: the last cycle, if the page was left, puts it right.           *)
LEMMA BranchLast ==
  ASSUME NEW c, Typed(c), NEW r, Settled(c) = r
  PROVE  Visible(FixPc(c)) = r
<1>1. DOMAIN c = Fields /\ "no_increment" \in Fields
  BY FieldNames DEF Fields, New
<1>2. CASE c.page_crossed
  <2>. DEFINE d == Reading(c, c.pc)
              w == c.current_address
              e == [d EXCEPT !.pc = w]
  <2>1. FixPc(c) = Done(e)
    BY <1>2 DEF FixPc
  <2>2. DOMAIN d = Fields /\ Visible(d) = Visible(c)
    BY <1>1, ReadingIs
  <2>3. r = [Visible(c) EXCEPT !.pc = w]
    BY <1>2 DEF Settled
  <2>. HIDE DEF d, w
  <2>4. DOMAIN e = Fields /\ Visible(e) = [Visible(d) EXCEPT !.pc = w]
    BY <2>2, SeenFlag
  <2>. HIDE DEF e
  <2>5. Visible(Done(e)) = Visible(e)
    BY <2>4, SeenDone
  <2>. QED BY <2>1, <2>2, <2>3, <2>4, <2>5
<1>3. CASE ~c.page_crossed
  <2>. DEFINE e == [c EXCEPT !.no_increment = TRUE]
  <2>1. FixPc(c) = Done(e)
    BY <1>3 DEF FixPc
  <2>2. DOMAIN e = Fields /\ Visible(e) = Visible(c)
    BY <1>1, SeenNone
  <2>3. r = [Visible(c) EXCEPT !.pc = Visible(c).pc]
    BY <1>3 DEF Settled
  <2>4. r = Visible(c)
    BY <2>3 DEF Visible
  <2>. HIDE DEF e
  <2>5. Visible(Done(e)) = Visible(e)
    BY <2>2, SeenDone
  <2>. QED BY <2>1, <2>2, <2>4, <2>5
<1>. QED BY <1>2, <1>3

-----------------------------------------------------------------------------
(* The older processor's decoding                                           *)

(* The size of an instruction, and what the older processor makes of it.    *)
LEMMA SizeIs ==
  ASSUME NEW opcode, Mnemonic(opcode) # "JAM", NEW mode, AddressingType(opcode) = mode
  PROVE  /\ mode \in {"imm"} \union Direct \union Indexing => Size(opcode) = Bytes(mode)
         /\ mode \in {"impl", "acc"} => Size(opcode) = 1
         /\ mode = "rel" => Size(opcode) = 2
         /\ mode = "ind" => Size(opcode) = 3
<1>1. Size(opcode) = CASE mode \in {"impl", "acc"} -> 1
                       [] mode \in {"abs", "absx", "absy", "ind"} -> 3
                       [] OTHER -> 2
  BY Zenon DEF Size
<1>2. mode \in {"impl", "acc"} => Size(opcode) = 1
  <2>1. mode \in {"impl", "acc"} => mode \notin {"abs", "absx", "absy", "ind"}
    OBVIOUS
  <2>. QED BY <1>1, <2>1, Zenon
<1>3. mode \in {"abs", "absx", "absy", "ind"} => Size(opcode) = 3
  <2>1. mode \in {"abs", "absx", "absy", "ind"} => mode \notin {"impl", "acc"}
    OBVIOUS
  <2>. QED BY <1>1, <2>1, Zenon
<1>4. mode \notin {"abs", "absx", "absy", "ind"} /\ mode \notin {"impl", "acc"} => Size(opcode) = 2
  BY <1>1, Zenon
<1>5. mode \in {"imm"} \union Direct \union Indexing => mode \notin {"impl", "acc"}
  BY DEF Direct, Indexing
<1>6. mode \in {"imm"} \union Direct \union Indexing => Size(opcode) = Bytes(mode)
  <2>1. CASE mode \in {"abs", "absx", "absy", "ind"}
    BY <1>3, <2>1 DEF Bytes
  <2>2. CASE mode \notin {"abs", "absx", "absy", "ind"}
    BY <1>4, <1>5, <2>2 DEF Bytes
  <2>. QED BY <2>1, <2>2
<1>7. mode = "rel" => Size(opcode) = 2
  BY <1>4
<1>. QED BY <1>2, <1>3, <1>6, <1>7

(* s is what next_instruction makes of b, r having passed its bytes.        *)
Comes(s, b, op, mode, r, to) == ByKind(s, op, mode, r, b.pc, to, At(b, to))

LEMMA DecodedTo ==
  ASSUME NEW b, SeenTyped(b), NEW opcode, opcode = At(b, b.pc), NEW op, Mnemonic(opcode) = op,
         NEW mode, AddressingType(opcode) = mode, NEW n, Size(opcode) = n
  PROVE  LET r == After(b, n)
         IN Comes(Whole!next_instruction(b), b, op, mode, r, Whole!address(r, b.pc, mode))
<1>. DEFINE r == After(b, n)
            to == Whole!address(r, b.pc, mode)
            v == At(r, to)
            s == Whole!next_instruction(b)
<1>1. s = Executes(op, mode, r, b.pc, to, v)
  BY ExecutesIs, Zenon
<1>2. DOMAIN b = Registers
  BY SeenKinds
<1>3. r.mem = b.mem
  BY <1>2, AfterIs
<1>4. v = At(b, to)
  <2>. HIDE DEF r, to
  <2>. QED BY <1>3 DEF At
<1>. HIDE DEF r, to, v, s
<1>5. ByKind(Executes(op, mode, r, b.pc, to, v), op, mode, r, b.pc, to, v)
  BY ExecutesByKind
<1>. QED BY <1>1, <1>4, <1>5, Zenon DEF Comes, r, to, s

LEMMA Decoded ==
  ASSUME NEW b, SeenTyped(b), NEW opcode, opcode = At(b, b.pc), NEW op, Mnemonic(opcode) = op,
         NEW mode, AddressingType(opcode) = mode, op # "JAM"
  PROVE  LET s == Whole!next_instruction(b)
         IN /\ mode \in {"imm"} \union Direct \union Indexing =>
                 Comes(s, b, op, mode, After(b, Bytes(mode)), Target(b, mode))
            /\ mode \in {"impl", "acc"} => \E to : Comes(s, b, op, mode, After(b, 1), to)
            /\ mode = "rel" => \E to : Comes(s, b, op, mode, After(b, 2), to)
            /\ mode = "ind" => Comes(s, b, op, mode, After(b, 3), Vectored(b))
<1>. DEFINE s == Whole!next_instruction(b)
            n == Size(opcode)
            r == After(b, n)
            to == Whole!address(r, b.pc, mode)
<1>1. Comes(s, b, op, mode, r, to)
  <2>1. \A k : Size(opcode) = k => Comes(s, b, op, mode, After(b, k), Whole!address(After(b, k), b.pc, mode))
    BY DecodedTo
  <2>. QED BY <2>1
<1>2. /\ mode \in {"imm"} \union Direct \union Indexing => n = Bytes(mode)
      /\ mode \in {"impl", "acc"} => n = 1
      /\ mode = "rel" => n = 2
      /\ mode = "ind" => n = 3
  BY SizeIs
<1>3. r.mem = b.mem /\ r.x = b.x /\ r.y = b.y
  BY SeenKinds, AfterIs
<1>. HIDE DEF r, s
<1>4. mode \in {"imm"} \union Direct \union Indexing => to = Target(b, mode)
  BY <1>3, TargetIs
<1>5. mode = "ind" => to = Vectored(b)
  BY <1>3, VectoredIs
<1>. HIDE DEF to, n
<1>6. r = After(b, n)
  BY DEF r
<1>. QED BY <1>1, <1>2, <1>4, <1>5, <1>6, Zenon DEF s

-----------------------------------------------------------------------------
(* The last step leaves what the older processor does                       *)

(* The last step of each instruction, and what has been reached before it.  *)
Concludes(op, mode, from, step) ==
  \/ from = "start" /\ step = "immediate" /\ mode = "imm" /\ op \in Loads \ Disputed
  \/ from = "aimed" /\ step = "read" /\ mode \in Direct /\ op \in Loads \ Disputed
  \/ from = "near valued" /\ step = "fix, use" /\ mode \in Indexing /\ op \in Loads \ Disputed
  \/ from = "written" /\ step = "modify" /\ mode \in Direct \union Indexing /\ op \in Official \union Unofficial
  \/ from = "start" /\ step = "shift" /\ mode = "acc" /\ op \in {"ASL", "LSR", "ROL", "ROR"}
  \/ from = "aimed" /\ step = "write" /\ mode \in Direct \union Indexing /\ op \in Stores \ Disputed
  \/ from = "near valued" /\ step = "fix, write" /\ mode \in Indexing /\ op = "STA"
  \/ from = "start" /\ step = "flag" /\ mode = "impl" /\ op \in Flags
  \/ from = "start" /\ step = "transfer" /\ mode = "impl" /\ op \in Transfers
  \/ from = "start" /\ step = "nothing" /\ mode = "impl" /\ op = "NOP"
  \/ from = "start" /\ step = "push" /\ mode = "impl" /\ op \in {"PHA", "PHP"}
  \/ from = "start" /\ step = "pull" /\ mode = "impl" /\ op \in {"PLA", "PLP"}
  \/ from = "low" /\ step = "jump" /\ mode = "abs" /\ op = "JMP"
  \/ from = "pushed" /\ step = "jump" /\ mode = "abs" /\ op = "JSR"
  \/ from = "jump" /\ step = "jump pointed" /\ mode = "ind" /\ op = "JMP"
  \/ from = "return low" /\ step = "return" /\ mode = "impl" /\ op = "RTI"
  \/ from = "pulled" /\ step = "increment pc" /\ mode = "impl" /\ op = "RTS"
  \/ from = "branched" /\ step = "fix pc" /\ mode = "rel" /\ op \in BranchOps

LEMMA Concluding ==
  ASSUME NEW op, NEW mode, NEW from, NEW step, Concludes(op, mode, from, step)
  PROVE  op # "JAM"
BY DEF Concludes, Loads, Official, Unofficial, Stores, Flags, Transfers, BranchOps, Unstable

LEMMA LastStage ==
  ASSUME NEW c, Typed(c), c.bus = <<>>, NEW b, SeenTyped(b), c.current_opcode = At(b, b.pc),
         NEW op, NEW mode, op = Op(c), mode = Mode(c), op \in Decimal => ~b.d,
         op = "JSR" => ~Overlaps(b),
         NEW from, NEW step, Concludes(op, mode, from, step), Reached(from, op, mode, c, b)
  PROVE  Visible(Perform(step, c)) = Whole!next_instruction(b)
<1>. DEFINE s == Whole!next_instruction(b)
<1>0. /\ mode \in {"imm"} \union Direct \union Indexing =>
            Comes(s, b, op, mode, After(b, Bytes(mode)), Target(b, mode))
      /\ mode \in {"impl", "acc"} => \E to : Comes(s, b, op, mode, After(b, 1), to)
      /\ mode = "rel" => \E to : Comes(s, b, op, mode, After(b, 2), to)
      /\ mode = "ind" => Comes(s, b, op, mode, After(b, 3), Vectored(b))
  <2>1. op # "JAM"
    BY Concluding
  <2>2. Mnemonic(c.current_opcode) = op /\ AddressingType(c.current_opcode) = mode
    BY DEF Op, Mode
  <2>. QED BY <2>1, <2>2, Decoded
<1>. HIDE DEF s
<1>99. op = Op(c) /\ mode = Mode(c) /\ DOMAIN c = Fields /\ DOMAIN b = Registers
  BY FieldNames, SeenKinds
<1>1. CASE from = "start" /\ step = "immediate" /\ mode = "imm" /\ op \in Loads \ Disputed
  <2>0. Reached("start", op, mode, c, b)
    BY <1>1
  <2>1. Past(c, b, 1)
    BY <2>0, Zenon DEF Reached
  <2>2. Comes(s, b, op, mode, After(b, Bytes(mode)), Target(b, mode)) /\ mode # "rel"
    BY <1>0, <1>1
  <2>3. After(b, Bytes(mode)) = After(b, 2) /\ At(b, Target(b, mode)) = FirstByte(b)
    BY <1>1, Zenon DEF Bytes, Target, Indexing, FirstByte
  <2>4. s = WholeLoad(op, After(b, 2), FirstByte(b))
    BY <1>1, <2>2, <2>3, Zenon DEF Comes, ByKind
  <2>5. Visible(Immediate(c)) = WholeLoad(op, After(b, 2), FirstByte(b))
    BY <1>99, <1>1, <2>1, ImmediateLast
  <2>. QED BY <1>1, <2>4, <2>5, Performs, Zenon DEF s
<1>2. CASE from = "aimed" /\ step = "read" /\ mode \in Direct /\ op \in Loads \ Disputed
  <2>0. Reached("aimed", op, mode, c, b)
    BY <1>2
  <2>1. Past(c, b, Bytes(mode)) /\ c.current_address = Target(b, mode)
    BY <2>0, Zenon DEF Reached
  <2>2. Comes(s, b, op, mode, After(b, Bytes(mode)), Target(b, mode)) /\ mode # "rel"
    BY <1>0, <1>2 DEF Direct, Indexing
  <2>3. Target(b, mode) \in Word
    BY <1>2, TargetWord
  <2>4. s = WholeLoad(op, After(b, Bytes(mode)), At(b, Target(b, mode)))
    BY <1>2, <2>2, Zenon DEF Comes, ByKind
  <2>5. Visible(ReadValue(c)) = WholeLoad(op, After(b, Bytes(mode)), At(b, Target(b, mode)))
    BY <1>99, <1>2, <2>1, <2>3, ReadLast
  <2>. QED BY <1>2, <2>4, <2>5, Performs, Zenon DEF s
<1>3. CASE from = "near valued" /\ step = "fix, use" /\ mode \in Indexing /\ op \in Loads \ Disputed
  <2>0. Reached("near valued", op, mode, c, b)
    BY <1>3
  <2>1. /\ Past(c, b, Bytes(mode)) /\ Near(mode, c, b)
        /\ c.current_value = At(b, c.current_address)
    BY <2>0, Zenon DEF Reached
  <2>2. Comes(s, b, op, mode, After(b, Bytes(mode)), Target(b, mode)) /\ mode # "rel"
    BY <1>0, <1>3 DEF Direct, Indexing
  <2>4. s = WholeLoad(op, After(b, Bytes(mode)), At(b, Target(b, mode)))
    BY <1>3, <2>2, Zenon DEF Comes, ByKind
  <2>5. Visible(FixThenUse(c)) = WholeLoad(op, After(b, Bytes(mode)), At(b, Target(b, mode)))
    BY <1>99, <1>3, <2>1, FixUseLast
  <2>. QED BY <1>3, <2>4, <2>5, Performs, Zenon DEF s
<1>4. CASE from = "written" /\ step = "modify" /\ mode \in Direct \union Indexing /\ op \in Official \union Unofficial
  <2>0. Reached("written", op, mode, c, b)
    BY <1>4
  <2>1. /\ Visible(c) = WrittenBack(b, mode) /\ c.current_address = Target(b, mode)
        /\ c.current_value = At(b, Target(b, mode))
    BY <2>0, Zenon DEF Reached
  <2>2. Comes(s, b, op, mode, After(b, Bytes(mode)), Target(b, mode)) /\ mode # "rel" /\ mode # "acc"
    BY <1>0, <1>4 DEF Direct, Indexing
  <2>. DEFINE r == After(b, Bytes(mode))
              to == Target(b, mode)
              v == At(b, to)
  <2>3. DOMAIN r = Registers /\ r.mem = b.mem /\ r.d = b.d
    BY <1>99, AfterIs
  <2>4. to \in Word
    BY <1>4, TargetWord
  <2>6. v \in Byte
    BY <2>4, SeenKinds
  <2>7. op \notin Official => op \in Unofficial
    BY <1>4
  <2>8. s = IF op \in Official
            THEN Whole!Set(Whole!Shift8(op, r, v).r, to, Whole!Shift8(op, r, v).value)
            ELSE Whole!UndocumentedModify(op, r, to)
    <3>1. op \in Official => s = Whole!Set(Whole!Shift8(op, r, v).r, to, Whole!Shift8(op, r, v).value)
      BY <2>2, Zenon DEF Comes, ByKind
    <3>2. op \in Unofficial => s = Whole!UndocumentedModify(op, r, to)
      BY <2>2, Zenon DEF Comes, ByKind
    <3>. HIDE DEF r, to, v
    <3>. QED BY <2>7, <3>1, <3>2, Zenon
  <2>9. Visible(c) = [r EXCEPT !.mem = Written(r.mem, to, v)]
    BY <2>1, <2>3, Zenon DEF WrittenBack
  <2>10. c.current_address = to /\ c.current_value = v
    BY <2>1
  <2>. HIDE DEF r, to, v
  <2>11. At(r, to) = v
    BY <2>3 DEF At, v
  <2>12. op \in Official \union Unofficial
    BY <1>4
  <2>5. Visible(Modify(c)) =
            IF op \in Official
            THEN Whole!Set(Whole!Shift8(op, r, v).r, to, Whole!Shift8(op, r, v).value)
            ELSE Whole!UndocumentedModify(op, r, to)
    BY <1>99, <2>3, <2>4, <2>6, <2>9, <2>10, <2>11, <2>12, ModifyLast
  <2>. QED BY <1>4, <2>5, <2>8, Performs, Zenon DEF s
<1>5. CASE from = "start" /\ step = "shift" /\ mode = "acc" /\ op \in {"ASL", "LSR", "ROL", "ROR"}
  <2>0. Reached("start", op, mode, c, b)
    BY <1>5
  <2>1. Past(c, b, 1)
    BY <2>0, Zenon DEF Reached
  <2>2. PICK to : Comes(s, b, op, mode, After(b, 1), to)
    BY <1>0, <1>5
  <2>3. mode # "rel"
    BY <1>5
  <2>6. Visible(c) = After(b, 1)
    BY <2>1, Zenon DEF Past, After
  <2>. DEFINE r == After(b, 1)
  <2>7. op \in Official
    BY <1>5 DEF Official
  <2>4. s = [Whole!Shift8(op, r, r.a).r EXCEPT !.a = Whole!Shift8(op, r, r.a).value]
    BY <1>5, <2>2, <2>3, <2>7, Zenon DEF Comes, ByKind
  <2>. HIDE DEF r
  <2>8. Visible(c) = r
    BY <2>6 DEF r
  <2>5. Visible(ShiftStep(c)) = [Whole!Shift8(op, r, r.a).r EXCEPT !.a = Whole!Shift8(op, r, r.a).value]
    BY <1>99, <1>5, <2>8, ImpliedLast
  <2>. QED BY <1>5, <2>4, <2>5, Performs, Zenon DEF s
<1>6. CASE from = "aimed" /\ step = "write" /\ mode \in Direct \union Indexing /\ op \in Stores \ Disputed
  <2>0. Reached("aimed", op, mode, c, b)
    BY <1>6
  <2>1. Past(c, b, Bytes(mode)) /\ c.current_address = Target(b, mode)
    BY <2>0, Zenon DEF Reached
  <2>2. Comes(s, b, op, mode, After(b, Bytes(mode)), Target(b, mode)) /\ mode # "rel"
    BY <1>0, <1>6 DEF Direct, Indexing
  <2>. DEFINE r == After(b, Bytes(mode))
              to == Target(b, mode)
  <2>3. op # "SAX" => op \in Storing
    BY <1>6 DEF Stores, Disputed, Storing
  <2>4. s = IF op = "SAX" THEN Whole!UndocumentedStore(op, r, to) ELSE Whole!StoresReg(op, r, to)
    <3>1. op = "SAX" => s = Whole!UndocumentedStore(op, r, to)
      BY <2>2, Zenon DEF Comes, ByKind
    <3>2. op \in Storing => s = Whole!StoresReg(op, r, to)
      BY <2>2, Zenon DEF Comes, ByKind
    <3>. HIDE DEF r, to
    <3>. QED BY <2>3, <3>1, <3>2, Zenon
  <2>. DEFINE n == Bytes(mode)
  <2>6. Past(c, b, n) /\ c.current_address = to /\ r = After(b, n)
    BY <2>1
  <2>. HIDE DEF r, to, n
  <2>5. Visible(Write(c)) = IF op = "SAX" THEN Whole!UndocumentedStore(op, r, to) ELSE Whole!StoresReg(op, r, to)
    BY <1>99, <1>6, <2>6, StoreIs
  <2>. QED BY <1>6, <2>4, <2>5, Performs, Zenon DEF s
<1>7. CASE from = "near valued" /\ step = "fix, write" /\ mode \in Indexing /\ op = "STA"
  <2>0. Reached("near valued", op, mode, c, b)
    BY <1>7
  <2>1. /\ Past(c, b, Bytes(mode)) /\ Near(mode, c, b)
        /\ c.current_value = At(b, c.current_address)
    BY <2>0, Zenon DEF Reached
  <2>2. Comes(s, b, op, mode, After(b, Bytes(mode)), Target(b, mode)) /\ mode # "rel"
    BY <1>0, <1>7 DEF Indexing
  <2>3. op \in Storing
    BY <1>7 DEF Storing
  <2>4. s = Whole!StoresReg(op, After(b, Bytes(mode)), Target(b, mode))
    BY <2>2, <2>3, Zenon DEF Comes, ByKind
  <2>. DEFINE n == Bytes(mode)
  <2>6. Past(c, b, n)
    BY <2>1
  <2>. HIDE DEF n
  <2>7. Visible(FixThenWrite(c)) = Whole!StoresReg("STA", After(b, n), Target(b, mode))
    BY <1>99, <1>7, <2>1, <2>6, FixStoreIs
  <2>5. Visible(FixThenWrite(c)) = Whole!StoresReg(op, After(b, Bytes(mode)), Target(b, mode))
    BY <1>7, <2>7, Zenon DEF n
  <2>. QED BY <1>7, <2>4, <2>5, Performs, Zenon DEF s
<1>8. CASE from = "start" /\ step = "flag" /\ mode = "impl" /\ op \in Flags
  <2>0. Reached("start", op, mode, c, b)
    BY <1>8
  <2>1. Past(c, b, 1)
    BY <2>0, Zenon DEF Reached
  <2>2. PICK to : Comes(s, b, op, mode, After(b, 1), to)
    BY <1>0, <1>8
  <2>3. mode # "rel"
    BY <1>8
  <2>6. Visible(c) = After(b, 1)
    BY <2>1, Zenon DEF Past, After
  <2>4. s = Whole!SetsFlag(op, After(b, 1))
    BY <1>8, <2>2, <2>3, Zenon DEF Comes, ByKind
  <2>5. Visible(FlagStep(c)) = Whole!SetsFlag(op, After(b, 1))
    BY <1>99, <1>8, <2>1, <2>6, ImpliedLast
  <2>. QED BY <1>8, <2>4, <2>5, Performs, Zenon DEF s
<1>9. CASE from = "start" /\ step = "transfer" /\ mode = "impl" /\ op \in Transfers
  <2>0. Reached("start", op, mode, c, b)
    BY <1>9
  <2>1. Past(c, b, 1)
    BY <2>0, Zenon DEF Reached
  <2>2. PICK to : Comes(s, b, op, mode, After(b, 1), to)
    BY <1>0, <1>9
  <2>3. mode # "rel"
    BY <1>9
  <2>6. Visible(c) = After(b, 1)
    BY <2>1, Zenon DEF Past, After
  <2>4. s = Whole!Moves(op, After(b, 1))
    BY <1>9, <2>2, <2>3, Zenon DEF Comes, ByKind
  <2>5. Visible(TransferStep(c)) = Whole!Moves(op, After(b, 1))
    BY <1>99, <1>9, <2>1, <2>6, ImpliedLast
  <2>. QED BY <1>9, <2>4, <2>5, Performs, Zenon DEF s
<1>10. CASE from = "start" /\ step = "nothing" /\ mode = "impl" /\ op = "NOP"
  <2>0. Reached("start", op, mode, c, b)
    BY <1>10
  <2>1. Past(c, b, 1)
    BY <2>0, Zenon DEF Reached
  <2>2. PICK to : Comes(s, b, op, mode, After(b, 1), to)
    BY <1>0, <1>10
  <2>3. mode # "rel"
    BY <1>10
  <2>6. Visible(c) = After(b, 1)
    BY <2>1, Zenon DEF Past, After
  <2>7. op \in Loads \ Disputed
    BY <1>10 DEF Loads, Disputed, Unstable
  <2>8. WholeLoad(op, After(b, 1), At(b, to)) = After(b, 1)
    BY <1>10, Zenon DEF WholeLoad
  <2>4. s = After(b, 1)
    BY <1>10, <2>2, <2>3, <2>7, <2>8, Zenon DEF Comes, ByKind
  <2>5. Visible(Nothing(c)) = After(b, 1)
    BY <1>99, <1>10, <2>6, ImpliedLast
  <2>. QED BY <1>10, <2>4, <2>5, Performs, Zenon DEF s
<1>11. CASE from = "start" /\ step = "push" /\ mode = "impl" /\ op \in {"PHA", "PHP"}
  <2>0. Reached("start", op, mode, c, b)
    BY <1>11
  <2>1. Past(c, b, 1)
    BY <2>0, Zenon DEF Reached
  <2>2. PICK to : Comes(s, b, op, mode, After(b, 1), to)
    BY <1>0, <1>11
  <2>3. mode # "rel"
    BY <1>11
  <2>6. Visible(c) = After(b, 1)
    BY <2>1, Zenon DEF Past, After
  <2>7. op \in Stacking
    BY <1>11 DEF Stacking
  <2>4. s = Whole!Stacked(op, After(b, 1))
    BY <1>11, <2>2, <2>3, <2>7, Zenon DEF Comes, ByKind
  <2>5. Visible(PushRegister(c)) = Whole!Stacked(op, After(b, 1))
    BY <1>99, <1>11, <2>1, <2>6, StackLast
  <2>. QED BY <1>11, <2>4, <2>5, Performs, Zenon DEF s
<1>12. CASE from = "start" /\ step = "pull" /\ mode = "impl" /\ op \in {"PLA", "PLP"}
  <2>0. Reached("start", op, mode, c, b)
    BY <1>12
  <2>1. Past(c, b, 1)
    BY <2>0, Zenon DEF Reached
  <2>2. PICK to : Comes(s, b, op, mode, After(b, 1), to)
    BY <1>0, <1>12
  <2>3. mode # "rel"
    BY <1>12
  <2>6. Visible(c) = After(b, 1)
    BY <2>1, Zenon DEF Past, After
  <2>7. op \in Stacking
    BY <1>12 DEF Stacking
  <2>4. s = Whole!Stacked(op, After(b, 1))
    BY <1>12, <2>2, <2>3, <2>7, Zenon DEF Comes, ByKind
  <2>5. Visible(PullRegister(c)) = Whole!Stacked(op, After(b, 1))
    BY <1>99, <1>12, <2>1, <2>6, StackLast
  <2>. QED BY <1>12, <2>4, <2>5, Performs, Zenon DEF s
<1>13. CASE from = "low" /\ step = "jump" /\ mode = "abs" /\ op = "JMP"
  <2>0. Reached("low", op, mode, c, b)
    BY <1>13
  <2>1. Past(c, b, 2) /\ c.low_byte = FirstByte(b)
    BY <2>0, Zenon DEF Reached
  <2>2. Comes(s, b, op, mode, After(b, Bytes(mode)), Target(b, mode)) /\ mode # "rel"
    BY <1>0, <1>13 DEF Direct
  <2>3. After(b, Bytes(mode)) = After(b, 3) /\ Target(b, mode) = Absolute(b)
    BY <1>13, Zenon DEF Bytes, Target, Indexing
  <2>4. s = [After(b, 3) EXCEPT !.pc = Absolute(b)]
    BY <1>13, <2>2, <2>3, Zenon DEF Comes, ByKind
  <2>5. Visible(JumpHigh(c)) = [After(b, 3) EXCEPT !.pc = Absolute(b)]
    BY <2>1, JumpAbsolute
  <2>. QED BY <1>13, <2>4, <2>5, Performs, Zenon DEF s
<1>14. CASE from = "pushed" /\ step = "jump" /\ mode = "abs" /\ op = "JSR"
  <2>0. Reached("pushed", op, mode, c, b)
    BY <1>14
  <2>1. Visible(c) = Pushed(After(b, 2)) /\ c.low_byte = FirstByte(b)
    BY <2>0, Zenon DEF Reached
  <2>2. Comes(s, b, op, mode, After(b, Bytes(mode)), Target(b, mode)) /\ mode # "rel"
    BY <1>0, <1>14 DEF Direct
  <2>3. After(b, Bytes(mode)) = After(b, 3)
    BY <1>14, Zenon DEF Bytes
  <2>4. s = Whole!jsr(After(b, 3), b.pc)
    BY <1>14, <2>2, <2>3, Zenon DEF Comes, ByKind
  <2>5. Visible(JumpHigh(c)) = Whole!jsr(After(b, 3), b.pc)
    BY <1>14, <2>1, JsrLast
  <2>. QED BY <1>14, <2>4, <2>5, Performs, Zenon DEF s
<1>15. CASE from = "jump" /\ step = "jump pointed" /\ mode = "ind" /\ op = "JMP"
  <2>0. Reached("jump", op, mode, c, b)
    BY <1>15
  <2>1. /\ Past(c, b, 3) /\ c.current_address = Absolute(b)
        /\ c.low_byte = At(b, Absolute(b))
    BY <2>0, Zenon DEF Reached
  <2>2. Comes(s, b, op, mode, After(b, 3), Vectored(b)) /\ mode # "rel"
    BY <1>0, <1>15
  <2>4. s = [After(b, 3) EXCEPT !.pc = Vectored(b)]
    BY <1>15, <2>2, Zenon DEF Comes, ByKind
  <2>5. Visible(JumpPointed(c)) = [After(b, 3) EXCEPT !.pc = Vectored(b)]
    BY <2>1, JumpIndirect
  <2>. QED BY <1>15, <2>4, <2>5, Performs, Zenon DEF s
<1>16. CASE from = "return low" /\ step = "return" /\ mode = "impl" /\ op = "RTI"
  <2>0. Reached("return low", op, mode, c, b)
    BY <1>16
  <2>1. Visible(c) = Popping(StatusPulled(After(b, 1)))
    BY <2>0, Zenon DEF Reached
  <2>2. PICK to : Comes(s, b, op, mode, After(b, 1), to)
    BY <1>0, <1>16
  <2>3. mode # "rel"
    BY <1>16
  <2>4. s = Whole!rti(After(b, 1))
    BY <1>16, <2>2, <2>3, Zenon DEF Comes, ByKind
  <2>5. Visible(Return(c)) = Whole!rti(After(b, 1))
    BY <1>99, <1>16, <2>1, RtiLast
  <2>. QED BY <1>16, <2>4, <2>5, Performs, Zenon DEF s
<1>17. CASE from = "pulled" /\ step = "increment pc" /\ mode = "impl" /\ op = "RTS"
  <2>0. Reached("pulled", op, mode, c, b)
    BY <1>17
  <2>1. Visible(c) = Popped(After(b, 1))
    BY <2>0, Zenon DEF Reached
  <2>2. PICK to : Comes(s, b, op, mode, After(b, 1), to)
    BY <1>0, <1>17
  <2>3. mode # "rel"
    BY <1>17
  <2>4. s = Whole!rts(After(b, 1))
    BY <1>17, <2>2, <2>3, Zenon DEF Comes, ByKind
  <2>. DEFINE r == After(b, 1)
  <2>6. DOMAIN r = Registers
    BY <1>99, AfterIs
  <2>5. Visible(IncrementPc(c)) = Whole!rts(r)
    BY <2>1, <2>6, RtsLast
  <2>. QED BY <1>17, <2>4, <2>5, Performs, Zenon DEF s
<1>18. CASE from = "branched" /\ step = "fix pc" /\ mode = "rel" /\ op \in BranchOps
  <2>0. Reached("branched", op, mode, c, b)
    BY <1>18
  <2>1. Settled(c) = Branching(op, b).r
    BY <2>0, Zenon DEF Reached
  <2>2. PICK to : Comes(s, b, op, mode, After(b, 2), to)
    BY <1>0, <1>18
  <2>4. s = Branching(op, b).r
    BY <1>18, <2>2, Zenon DEF Comes, ByKind, Branching
  <2>5. Visible(FixPc(c)) = Branching(op, b).r
    BY <2>1, BranchLast
  <2>. QED BY <1>18, <2>4, <2>5, Performs, Zenon DEF s
<1>. QED BY <1>1, <1>2, <1>3, <1>4, <1>5, <1>6, <1>7, <1>8, <1>9, <1>10, <1>11, <1>12, <1>13, <1>14, <1>15, <1>16, <1>17, <1>18 DEF Concludes

-----------------------------------------------------------------------------
(* The stages of each sequence of steps                                     *)

(* The stages t of the steps s: the first tick leaves the instruction at    *)
(* its start, and each step leads to the next stage, up to the last.        *)
Passes(op, mode, s, t) ==
  /\ Len(s) \in Nat \ {0} /\ t[1] = "start"
  /\ Concludes(op, mode, t[Len(s)], s[Len(s)])
  /\ \A k \in 1 .. Len(s) : k # Len(s) => Leads(op, mode, t[k], s[k], t[k + 1])

Passable(op, mode, s) == \E t : Passes(op, mode, s, t)

LEMMA Passing1 ==
  ASSUME NEW op, NEW mode, NEW s, NEW t, Len(s) = 1, t[1] = "start",
         Concludes(op, mode, t[1], s[1])
  PROVE  Passable(op, mode, s)
<1>1. \A k \in 1 .. 1 : k # 1 => Leads(op, mode, t[k], s[k], t[k + 1])
  OBVIOUS
<1>2. Len(s) \in Nat \ {0}
  OBVIOUS
<1>. QED BY <1>1, <1>2, Zenon DEF Passes, Passable

LEMMA Passing2 ==
  ASSUME NEW op, NEW mode, NEW s, NEW t, Len(s) = 2, t[1] = "start",
         Leads(op, mode, t[1], s[1], t[2]),
         Concludes(op, mode, t[2], s[2])
  PROVE  Passable(op, mode, s)
<1>1. \A k \in 1 .. 2 : k # 2 => Leads(op, mode, t[k], s[k], t[k + 1])
  <2>1. 1 + 1 = 2
    OBVIOUS
  <2>2. \A k \in 1 .. 2 : k = 1 \/ k = 2
    OBVIOUS
  <2>. QED BY <2>1, <2>2, Zenon
<1>2. Len(s) \in Nat \ {0}
  OBVIOUS
<1>. QED BY <1>1, <1>2, Zenon DEF Passes, Passable

LEMMA Passing3 ==
  ASSUME NEW op, NEW mode, NEW s, NEW t, Len(s) = 3, t[1] = "start",
         Leads(op, mode, t[1], s[1], t[2]),
         Leads(op, mode, t[2], s[2], t[3]),
         Concludes(op, mode, t[3], s[3])
  PROVE  Passable(op, mode, s)
<1>1. \A k \in 1 .. 3 : k # 3 => Leads(op, mode, t[k], s[k], t[k + 1])
  <2>1. 1 + 1 = 2 /\ 2 + 1 = 3
    OBVIOUS
  <2>2. \A k \in 1 .. 3 : k = 1 \/ k = 2 \/ k = 3
    OBVIOUS
  <2>. QED BY <2>1, <2>2, Zenon
<1>2. Len(s) \in Nat \ {0}
  OBVIOUS
<1>. QED BY <1>1, <1>2, Zenon DEF Passes, Passable

LEMMA Passing4 ==
  ASSUME NEW op, NEW mode, NEW s, NEW t, Len(s) = 4, t[1] = "start",
         Leads(op, mode, t[1], s[1], t[2]),
         Leads(op, mode, t[2], s[2], t[3]),
         Leads(op, mode, t[3], s[3], t[4]),
         Concludes(op, mode, t[4], s[4])
  PROVE  Passable(op, mode, s)
<1>1. \A k \in 1 .. 4 : k # 4 => Leads(op, mode, t[k], s[k], t[k + 1])
  <2>1. 1 + 1 = 2 /\ 2 + 1 = 3 /\ 3 + 1 = 4
    OBVIOUS
  <2>2. \A k \in 1 .. 4 : k = 1 \/ k = 2 \/ k = 3 \/ k = 4
    OBVIOUS
  <2>. QED BY <2>1, <2>2, Zenon
<1>2. Len(s) \in Nat \ {0}
  OBVIOUS
<1>. QED BY <1>1, <1>2, Zenon DEF Passes, Passable

LEMMA Passing5 ==
  ASSUME NEW op, NEW mode, NEW s, NEW t, Len(s) = 5, t[1] = "start",
         Leads(op, mode, t[1], s[1], t[2]),
         Leads(op, mode, t[2], s[2], t[3]),
         Leads(op, mode, t[3], s[3], t[4]),
         Leads(op, mode, t[4], s[4], t[5]),
         Concludes(op, mode, t[5], s[5])
  PROVE  Passable(op, mode, s)
<1>1. \A k \in 1 .. 5 : k # 5 => Leads(op, mode, t[k], s[k], t[k + 1])
  <2>1. 1 + 1 = 2 /\ 2 + 1 = 3 /\ 3 + 1 = 4 /\ 4 + 1 = 5
    OBVIOUS
  <2>2. \A k \in 1 .. 5 : k = 1 \/ k = 2 \/ k = 3 \/ k = 4 \/ k = 5
    OBVIOUS
  <2>. QED BY <2>1, <2>2, Zenon
<1>2. Len(s) \in Nat \ {0}
  OBVIOUS
<1>. QED BY <1>1, <1>2, Zenon DEF Passes, Passable

LEMMA Passing6 ==
  ASSUME NEW op, NEW mode, NEW s, NEW t, Len(s) = 6, t[1] = "start",
         Leads(op, mode, t[1], s[1], t[2]),
         Leads(op, mode, t[2], s[2], t[3]),
         Leads(op, mode, t[3], s[3], t[4]),
         Leads(op, mode, t[4], s[4], t[5]),
         Leads(op, mode, t[5], s[5], t[6]),
         Concludes(op, mode, t[6], s[6])
  PROVE  Passable(op, mode, s)
<1>1. \A k \in 1 .. 6 : k # 6 => Leads(op, mode, t[k], s[k], t[k + 1])
  <2>1. 1 + 1 = 2 /\ 2 + 1 = 3 /\ 3 + 1 = 4 /\ 4 + 1 = 5 /\ 5 + 1 = 6
    OBVIOUS
  <2>2. \A k \in 1 .. 6 : k = 1 \/ k = 2 \/ k = 3 \/ k = 4 \/ k = 5 \/ k = 6
    OBVIOUS
  <2>. QED BY <2>1, <2>2, Zenon
<1>2. Len(s) \in Nat \ {0}
  OBVIOUS
<1>. QED BY <1>1, <1>2, Zenon DEF Passes, Passable

LEMMA Passing7 ==
  ASSUME NEW op, NEW mode, NEW s, NEW t, Len(s) = 7, t[1] = "start",
         Leads(op, mode, t[1], s[1], t[2]),
         Leads(op, mode, t[2], s[2], t[3]),
         Leads(op, mode, t[3], s[3], t[4]),
         Leads(op, mode, t[4], s[4], t[5]),
         Leads(op, mode, t[5], s[5], t[6]),
         Leads(op, mode, t[6], s[6], t[7]),
         Concludes(op, mode, t[7], s[7])
  PROVE  Passable(op, mode, s)
<1>1. \A k \in 1 .. 7 : k # 7 => Leads(op, mode, t[k], s[k], t[k + 1])
  <2>1. 1 + 1 = 2 /\ 2 + 1 = 3 /\ 3 + 1 = 4 /\ 4 + 1 = 5 /\ 5 + 1 = 6 /\ 6 + 1 = 7
    OBVIOUS
  <2>2. \A k \in 1 .. 7 : k = 1 \/ k = 2 \/ k = 3 \/ k = 4 \/ k = 5 \/ k = 6 \/ k = 7
    OBVIOUS
  <2>. QED BY <2>1, <2>2, Zenon
<1>2. Len(s) \in Nat \ {0}
  OBVIOUS
<1>. QED BY <1>1, <1>2, Zenon DEF Passes, Passable

LEMMA ImmediateStepsPass ==
  ASSUME NEW op, NEW mode, mode = "imm" /\ op \in Loads \ Disputed
  PROVE  Passable(op, mode, ImmediateSteps)
<1>. DEFINE s == ImmediateSteps
            t == <<"start">>
<1>1. Len(s) = 1 /\ s[1] = "immediate"
  BY DEF ImmediateSteps
<1>2. t[1] = "start"
  OBVIOUS
<1>. HIDE DEF s, t
<1>3. /\ Concludes(op, mode, "start", "immediate")
  BY Zenon DEF Concludes, Leads, Direct, Indexing
<1>4. Passable(op, mode, s)
  BY <1>1, <1>2, <1>3, Passing1, Zenon
<1>. QED BY <1>4 DEF s

LEMMA CompareImmStepsPass ==
  ASSUME NEW op, NEW mode, mode = "imm" /\ op \in Loads \ Disputed
  PROVE  Passable(op, mode, CompareImmSteps)
<1>. DEFINE s == CompareImmSteps
            t == <<"start">>
<1>1. Len(s) = 1 /\ s[1] = "immediate"
  BY DEF CompareImmSteps
<1>2. t[1] = "start"
  OBVIOUS
<1>. HIDE DEF s, t
<1>3. /\ Concludes(op, mode, "start", "immediate")
  BY Zenon DEF Concludes, Leads, Direct, Indexing
<1>4. Passable(op, mode, s)
  BY <1>1, <1>2, <1>3, Passing1, Zenon
<1>. QED BY <1>4 DEF s

LEMMA ReadAbsPass ==
  ASSUME NEW op, NEW mode, mode = "abs" /\ op \in Loads \ Disputed
  PROVE  Passable(op, mode, ReadAbs)
<1>. DEFINE s == ReadAbs
            t == <<"start", "low", "aimed">>
<1>1. Len(s) = 3 /\ s[1] = "low" /\ s[2] = "address" /\ s[3] = "read"
  BY DEF ReadAbs
<1>2. t[1] = "start" /\ t[2] = "low" /\ t[3] = "aimed"
  OBVIOUS
<1>. HIDE DEF s, t
<1>3. /\ Concludes(op, mode, "aimed", "read")
      /\ Leads(op, mode, "start", "low", "low")
      /\ Leads(op, mode, "low", "address", "aimed")
  BY Zenon DEF Concludes, Leads, Direct, Indexing
<1>4. Passable(op, mode, s)
  BY <1>1, <1>2, <1>3, Passing3, Zenon
<1>. QED BY <1>4 DEF s

LEMMA ReadZpPass ==
  ASSUME NEW op, NEW mode, mode = "zp" /\ op \in Loads \ Disputed
  PROVE  Passable(op, mode, ReadZp)
<1>. DEFINE s == ReadZp
            t == <<"start", "aimed">>
<1>1. Len(s) = 2 /\ s[1] = "zero page" /\ s[2] = "read"
  BY DEF ReadZp
<1>2. t[1] = "start" /\ t[2] = "aimed"
  OBVIOUS
<1>. HIDE DEF s, t
<1>3. /\ Concludes(op, mode, "aimed", "read")
      /\ Leads(op, mode, "start", "zero page", "aimed")
  BY Zenon DEF Concludes, Leads, Direct, Indexing
<1>4. Passable(op, mode, s)
  BY <1>1, <1>2, <1>3, Passing2, Zenon
<1>. QED BY <1>4 DEF s

LEMMA ReadZpXPass ==
  ASSUME NEW op, NEW mode, mode \in {"zpx", "zpy"} /\ op \in Loads \ Disputed
  PROVE  Passable(op, mode, ReadZpX)
<1>. DEFINE s == ReadZpX
            t == <<"start", "zero page", "aimed">>
<1>1. Len(s) = 3 /\ s[1] = "zero page" /\ s[2] = "index" /\ s[3] = "read"
  BY DEF ReadZpX
<1>2. t[1] = "start" /\ t[2] = "zero page" /\ t[3] = "aimed"
  OBVIOUS
<1>. HIDE DEF s, t
<1>3. /\ Concludes(op, mode, "aimed", "read")
      /\ Leads(op, mode, "start", "zero page", "zero page")
      /\ Leads(op, mode, "zero page", "index", "aimed")
  BY Zenon DEF Concludes, Leads, Direct, Indexing
<1>4. Passable(op, mode, s)
  BY <1>1, <1>2, <1>3, Passing3, Zenon
<1>. QED BY <1>4 DEF s

LEMMA ReadIndXPass ==
  ASSUME NEW op, NEW mode, mode = "indx" /\ op \in Loads \ Disputed
  PROVE  Passable(op, mode, ReadIndX)
<1>. DEFINE s == ReadIndX
            t == <<"start", "zero page", "index", "low pointed", "aimed">>
<1>1. Len(s) = 5 /\ s[1] = "zero page" /\ s[2] = "index" /\ s[3] = "low pointed" /\ s[4] = "address pointed" /\ s[5] = "read"
  BY DEF ReadIndX
<1>2. t[1] = "start" /\ t[2] = "zero page" /\ t[3] = "index" /\ t[4] = "low pointed" /\ t[5] = "aimed"
  OBVIOUS
<1>. HIDE DEF s, t
<1>3. /\ Concludes(op, mode, "aimed", "read")
      /\ Leads(op, mode, "start", "zero page", "zero page")
      /\ Leads(op, mode, "zero page", "index", "index")
      /\ Leads(op, mode, "index", "low pointed", "low pointed")
      /\ Leads(op, mode, "low pointed", "address pointed", "aimed")
  BY Zenon DEF Concludes, Leads, Direct, Indexing
<1>4. Passable(op, mode, s)
  BY <1>1, <1>2, <1>3, Passing5, Zenon
<1>. QED BY <1>4 DEF s

LEMMA ReadIndYPass ==
  ASSUME NEW op, NEW mode, mode = "indy" /\ op \in Loads \ Disputed
  PROVE  Passable(op, mode, ReadIndY)
<1>. DEFINE s == ReadIndY
            t == <<"start", "pointer", "pointer low", "near", "near valued">>
<1>1. Len(s) = 5 /\ s[1] = "pointer" /\ s[2] = "pointer low" /\ s[3] = "indexed pointer" /\ s[4] = "value" /\ s[5] = "fix, use"
  BY DEF ReadIndY
<1>2. t[1] = "start" /\ t[2] = "pointer" /\ t[3] = "pointer low" /\ t[4] = "near" /\ t[5] = "near valued"
  OBVIOUS
<1>. HIDE DEF s, t
<1>3. /\ Concludes(op, mode, "near valued", "fix, use")
      /\ Leads(op, mode, "start", "pointer", "pointer")
      /\ Leads(op, mode, "pointer", "pointer low", "pointer low")
      /\ Leads(op, mode, "pointer low", "indexed pointer", "near")
      /\ Leads(op, mode, "near", "value", "near valued")
  BY Zenon DEF Concludes, Leads, Direct, Indexing
<1>4. Passable(op, mode, s)
  BY <1>1, <1>2, <1>3, Passing5, Zenon
<1>. QED BY <1>4 DEF s

LEMMA ReadAbsXPass ==
  ASSUME NEW op, NEW mode, mode \in {"absx", "absy"} /\ op \in Loads \ Disputed
  PROVE  Passable(op, mode, ReadAbsX)
<1>. DEFINE s == ReadAbsX
            t == <<"start", "low", "near", "near valued">>
<1>1. Len(s) = 4 /\ s[1] = "low" /\ s[2] = "indexed" /\ s[3] = "value" /\ s[4] = "fix, use"
  BY DEF ReadAbsX
<1>2. t[1] = "start" /\ t[2] = "low" /\ t[3] = "near" /\ t[4] = "near valued"
  OBVIOUS
<1>. HIDE DEF s, t
<1>3. /\ Concludes(op, mode, "near valued", "fix, use")
      /\ Leads(op, mode, "start", "low", "low")
      /\ Leads(op, mode, "low", "indexed", "near")
      /\ Leads(op, mode, "near", "value", "near valued")
  BY Zenon DEF Concludes, Leads, Direct, Indexing
<1>4. Passable(op, mode, s)
  BY <1>1, <1>2, <1>3, Passing4, Zenon
<1>. QED BY <1>4 DEF s

LEMMA WriteAbsPass ==
  ASSUME NEW op, NEW mode, mode = "abs" /\ op \in Stores \ Disputed
  PROVE  Passable(op, mode, WriteAbs)
<1>. DEFINE s == WriteAbs
            t == <<"start", "low", "aimed">>
<1>1. Len(s) = 3 /\ s[1] = "low" /\ s[2] = "address" /\ s[3] = "write"
  BY DEF WriteAbs
<1>2. t[1] = "start" /\ t[2] = "low" /\ t[3] = "aimed"
  OBVIOUS
<1>. HIDE DEF s, t
<1>3. /\ Concludes(op, mode, "aimed", "write")
      /\ Leads(op, mode, "start", "low", "low")
      /\ Leads(op, mode, "low", "address", "aimed")
  BY Zenon DEF Concludes, Leads, Direct, Indexing
<1>4. Passable(op, mode, s)
  BY <1>1, <1>2, <1>3, Passing3, Zenon
<1>. QED BY <1>4 DEF s

LEMMA WriteZpPass ==
  ASSUME NEW op, NEW mode, mode = "zp" /\ op \in Stores \ Disputed
  PROVE  Passable(op, mode, WriteZp)
<1>. DEFINE s == WriteZp
            t == <<"start", "aimed">>
<1>1. Len(s) = 2 /\ s[1] = "zero page" /\ s[2] = "write"
  BY DEF WriteZp
<1>2. t[1] = "start" /\ t[2] = "aimed"
  OBVIOUS
<1>. HIDE DEF s, t
<1>3. /\ Concludes(op, mode, "aimed", "write")
      /\ Leads(op, mode, "start", "zero page", "aimed")
  BY Zenon DEF Concludes, Leads, Direct, Indexing
<1>4. Passable(op, mode, s)
  BY <1>1, <1>2, <1>3, Passing2, Zenon
<1>. QED BY <1>4 DEF s

LEMMA WriteZpXPass ==
  ASSUME NEW op, NEW mode, mode \in {"zpx", "zpy"} /\ op \in Stores \ Disputed
  PROVE  Passable(op, mode, WriteZpX)
<1>. DEFINE s == WriteZpX
            t == <<"start", "zero page", "aimed">>
<1>1. Len(s) = 3 /\ s[1] = "zero page" /\ s[2] = "index" /\ s[3] = "write"
  BY DEF WriteZpX
<1>2. t[1] = "start" /\ t[2] = "zero page" /\ t[3] = "aimed"
  OBVIOUS
<1>. HIDE DEF s, t
<1>3. /\ Concludes(op, mode, "aimed", "write")
      /\ Leads(op, mode, "start", "zero page", "zero page")
      /\ Leads(op, mode, "zero page", "index", "aimed")
  BY Zenon DEF Concludes, Leads, Direct, Indexing
<1>4. Passable(op, mode, s)
  BY <1>1, <1>2, <1>3, Passing3, Zenon
<1>. QED BY <1>4 DEF s

LEMMA WriteIndXPass ==
  ASSUME NEW op, NEW mode, mode = "indx" /\ op \in Stores \ Disputed
  PROVE  Passable(op, mode, WriteIndX)
<1>. DEFINE s == WriteIndX
            t == <<"start", "zero page", "index", "low pointed", "aimed">>
<1>1. Len(s) = 5 /\ s[1] = "zero page" /\ s[2] = "index" /\ s[3] = "low pointed" /\ s[4] = "address pointed" /\ s[5] = "write"
  BY DEF WriteIndX
<1>2. t[1] = "start" /\ t[2] = "zero page" /\ t[3] = "index" /\ t[4] = "low pointed" /\ t[5] = "aimed"
  OBVIOUS
<1>. HIDE DEF s, t
<1>3. /\ Concludes(op, mode, "aimed", "write")
      /\ Leads(op, mode, "start", "zero page", "zero page")
      /\ Leads(op, mode, "zero page", "index", "index")
      /\ Leads(op, mode, "index", "low pointed", "low pointed")
      /\ Leads(op, mode, "low pointed", "address pointed", "aimed")
  BY Zenon DEF Concludes, Leads, Direct, Indexing
<1>4. Passable(op, mode, s)
  BY <1>1, <1>2, <1>3, Passing5, Zenon
<1>. QED BY <1>4 DEF s

LEMMA WriteIndYPass ==
  ASSUME NEW op, NEW mode, mode = "indy" /\ op = "STA"
  PROVE  Passable(op, mode, WriteIndY)
<1>. DEFINE s == WriteIndY
            t == <<"start", "pointer", "pointer low", "near", "near valued">>
<1>1. Len(s) = 5 /\ s[1] = "pointer" /\ s[2] = "pointer low" /\ s[3] = "indexed pointer" /\ s[4] = "value" /\ s[5] = "fix, write"
  BY DEF WriteIndY
<1>2. t[1] = "start" /\ t[2] = "pointer" /\ t[3] = "pointer low" /\ t[4] = "near" /\ t[5] = "near valued"
  OBVIOUS
<1>. HIDE DEF s, t
<1>3. /\ Concludes(op, mode, "near valued", "fix, write")
      /\ Leads(op, mode, "start", "pointer", "pointer")
      /\ Leads(op, mode, "pointer", "pointer low", "pointer low")
      /\ Leads(op, mode, "pointer low", "indexed pointer", "near")
      /\ Leads(op, mode, "near", "value", "near valued")
  BY Zenon DEF Concludes, Leads, Direct, Indexing
<1>4. Passable(op, mode, s)
  BY <1>1, <1>2, <1>3, Passing5, Zenon
<1>. QED BY <1>4 DEF s

LEMMA WriteAbsXPass ==
  ASSUME NEW op, NEW mode, mode \in {"absx", "absy"} /\ op \in Stores \ Disputed
  PROVE  Passable(op, mode, WriteAbsX)
<1>. DEFINE s == WriteAbsX
            t == <<"start", "low", "near", "aimed">>
<1>1. Len(s) = 4 /\ s[1] = "low" /\ s[2] = "indexed" /\ s[3] = "value, fix" /\ s[4] = "write"
  BY DEF WriteAbsX
<1>2. t[1] = "start" /\ t[2] = "low" /\ t[3] = "near" /\ t[4] = "aimed"
  OBVIOUS
<1>. HIDE DEF s, t
<1>3. /\ Concludes(op, mode, "aimed", "write")
      /\ Leads(op, mode, "start", "low", "low")
      /\ Leads(op, mode, "low", "indexed", "near")
      /\ Leads(op, mode, "near", "value, fix", "aimed")
  BY Zenon DEF Concludes, Leads, Direct, Indexing
<1>4. Passable(op, mode, s)
  BY <1>1, <1>2, <1>3, Passing4, Zenon
<1>. QED BY <1>4 DEF s

LEMMA ModifyAbsPass ==
  ASSUME NEW op, NEW mode, mode = "abs" /\ op \in Official \union Unofficial
  PROVE  Passable(op, mode, ModifyAbs)
<1>. DEFINE s == ModifyAbs
            t == <<"start", "low", "aimed", "valued", "written">>
<1>1. Len(s) = 5 /\ s[1] = "low" /\ s[2] = "address" /\ s[3] = "value" /\ s[4] = "write back" /\ s[5] = "modify"
  BY DEF ModifyAbs
<1>2. t[1] = "start" /\ t[2] = "low" /\ t[3] = "aimed" /\ t[4] = "valued" /\ t[5] = "written"
  OBVIOUS
<1>. HIDE DEF s, t
<1>3. /\ Concludes(op, mode, "written", "modify")
      /\ Leads(op, mode, "start", "low", "low")
      /\ Leads(op, mode, "low", "address", "aimed")
      /\ Leads(op, mode, "aimed", "value", "valued")
      /\ Leads(op, mode, "valued", "write back", "written")
  BY Zenon DEF Concludes, Leads, Direct, Indexing
<1>4. Passable(op, mode, s)
  BY <1>1, <1>2, <1>3, Passing5, Zenon
<1>. QED BY <1>4 DEF s

LEMMA ModifyZpPass ==
  ASSUME NEW op, NEW mode, mode = "zp" /\ op \in Official \union Unofficial
  PROVE  Passable(op, mode, ModifyZp)
<1>. DEFINE s == ModifyZp
            t == <<"start", "aimed", "valued", "written">>
<1>1. Len(s) = 4 /\ s[1] = "zero page" /\ s[2] = "value" /\ s[3] = "write back" /\ s[4] = "modify"
  BY DEF ModifyZp
<1>2. t[1] = "start" /\ t[2] = "aimed" /\ t[3] = "valued" /\ t[4] = "written"
  OBVIOUS
<1>. HIDE DEF s, t
<1>3. /\ Concludes(op, mode, "written", "modify")
      /\ Leads(op, mode, "start", "zero page", "aimed")
      /\ Leads(op, mode, "aimed", "value", "valued")
      /\ Leads(op, mode, "valued", "write back", "written")
  BY Zenon DEF Concludes, Leads, Direct, Indexing
<1>4. Passable(op, mode, s)
  BY <1>1, <1>2, <1>3, Passing4, Zenon
<1>. QED BY <1>4 DEF s

LEMMA ModifyZpXPass ==
  ASSUME NEW op, NEW mode, mode \in {"zpx", "zpy"} /\ op \in Official \union Unofficial
  PROVE  Passable(op, mode, ModifyZpX)
<1>. DEFINE s == ModifyZpX
            t == <<"start", "zero page", "aimed", "valued", "written">>
<1>1. Len(s) = 5 /\ s[1] = "zero page" /\ s[2] = "index" /\ s[3] = "value" /\ s[4] = "write back" /\ s[5] = "modify"
  BY DEF ModifyZpX
<1>2. t[1] = "start" /\ t[2] = "zero page" /\ t[3] = "aimed" /\ t[4] = "valued" /\ t[5] = "written"
  OBVIOUS
<1>. HIDE DEF s, t
<1>3. /\ Concludes(op, mode, "written", "modify")
      /\ Leads(op, mode, "start", "zero page", "zero page")
      /\ Leads(op, mode, "zero page", "index", "aimed")
      /\ Leads(op, mode, "aimed", "value", "valued")
      /\ Leads(op, mode, "valued", "write back", "written")
  BY Zenon DEF Concludes, Leads, Direct, Indexing
<1>4. Passable(op, mode, s)
  BY <1>1, <1>2, <1>3, Passing5, Zenon
<1>. QED BY <1>4 DEF s

LEMMA ModifyIndXPass ==
  ASSUME NEW op, NEW mode, mode = "indx" /\ op \in Official \union Unofficial
  PROVE  Passable(op, mode, ModifyIndX)
<1>. DEFINE s == ModifyIndX
            t == <<"start", "zero page", "index", "low pointed", "aimed", "valued", "written">>
<1>1. Len(s) = 7 /\ s[1] = "zero page" /\ s[2] = "index" /\ s[3] = "low pointed" /\ s[4] = "address pointed" /\ s[5] = "value" /\ s[6] = "write back" /\ s[7] = "modify"
  BY DEF ModifyIndX
<1>2. t[1] = "start" /\ t[2] = "zero page" /\ t[3] = "index" /\ t[4] = "low pointed" /\ t[5] = "aimed" /\ t[6] = "valued" /\ t[7] = "written"
  OBVIOUS
<1>. HIDE DEF s, t
<1>3. /\ Concludes(op, mode, "written", "modify")
      /\ Leads(op, mode, "start", "zero page", "zero page")
      /\ Leads(op, mode, "zero page", "index", "index")
      /\ Leads(op, mode, "index", "low pointed", "low pointed")
      /\ Leads(op, mode, "low pointed", "address pointed", "aimed")
      /\ Leads(op, mode, "aimed", "value", "valued")
      /\ Leads(op, mode, "valued", "write back", "written")
  BY Zenon DEF Concludes, Leads, Direct, Indexing
<1>4. Passable(op, mode, s)
  BY <1>1, <1>2, <1>3, Passing7, Zenon
<1>. QED BY <1>4 DEF s

LEMMA ModifyIndYPass ==
  ASSUME NEW op, NEW mode, mode = "indy" /\ op \in Official \union Unofficial
  PROVE  Passable(op, mode, ModifyIndY)
<1>. DEFINE s == ModifyIndY
            t == <<"start", "pointer", "pointer low", "near", "near valued", "valued", "written">>
<1>1. Len(s) = 7 /\ s[1] = "pointer" /\ s[2] = "pointer low" /\ s[3] = "indexed pointer" /\ s[4] = "value" /\ s[5] = "fix, value" /\ s[6] = "write back" /\ s[7] = "modify"
  BY DEF ModifyIndY
<1>2. t[1] = "start" /\ t[2] = "pointer" /\ t[3] = "pointer low" /\ t[4] = "near" /\ t[5] = "near valued" /\ t[6] = "valued" /\ t[7] = "written"
  OBVIOUS
<1>. HIDE DEF s, t
<1>3. /\ Concludes(op, mode, "written", "modify")
      /\ Leads(op, mode, "start", "pointer", "pointer")
      /\ Leads(op, mode, "pointer", "pointer low", "pointer low")
      /\ Leads(op, mode, "pointer low", "indexed pointer", "near")
      /\ Leads(op, mode, "near", "value", "near valued")
      /\ Leads(op, mode, "near valued", "fix, value", "valued")
      /\ Leads(op, mode, "valued", "write back", "written")
  BY Zenon DEF Concludes, Leads, Direct, Indexing
<1>4. Passable(op, mode, s)
  BY <1>1, <1>2, <1>3, Passing7, Zenon
<1>. QED BY <1>4 DEF s

LEMMA ModifyAbsXPass ==
  ASSUME NEW op, NEW mode, mode \in {"absx", "absy"} /\ op \in Official \union Unofficial
  PROVE  Passable(op, mode, ModifyAbsX)
<1>. DEFINE s == ModifyAbsX
            t == <<"start", "low", "near", "aimed", "valued", "written">>
<1>1. Len(s) = 6 /\ s[1] = "low" /\ s[2] = "indexed" /\ s[3] = "value, fix" /\ s[4] = "value" /\ s[5] = "write back" /\ s[6] = "modify"
  BY DEF ModifyAbsX
<1>2. t[1] = "start" /\ t[2] = "low" /\ t[3] = "near" /\ t[4] = "aimed" /\ t[5] = "valued" /\ t[6] = "written"
  OBVIOUS
<1>. HIDE DEF s, t
<1>3. /\ Concludes(op, mode, "written", "modify")
      /\ Leads(op, mode, "start", "low", "low")
      /\ Leads(op, mode, "low", "indexed", "near")
      /\ Leads(op, mode, "near", "value, fix", "aimed")
      /\ Leads(op, mode, "aimed", "value", "valued")
      /\ Leads(op, mode, "valued", "write back", "written")
  BY Zenon DEF Concludes, Leads, Direct, Indexing
<1>4. Passable(op, mode, s)
  BY <1>1, <1>2, <1>3, Passing6, Zenon
<1>. QED BY <1>4 DEF s

LEMMA UnofficialModifyAbsXPass ==
  ASSUME NEW op, NEW mode, mode \in {"absx", "absy"} /\ op \in Official \union Unofficial
  PROVE  Passable(op, mode, UnofficialModifyAbsX)
<1>. DEFINE s == UnofficialModifyAbsX
            t == <<"start", "low", "base", "unfixed", "valued", "written">>
<1>1. Len(s) = 6 /\ s[1] = "low" /\ s[2] = "pointer" /\ s[3] = "unfixed" /\ s[4] = "carry, value" /\ s[5] = "write back" /\ s[6] = "modify"
  BY DEF UnofficialModifyAbsX
<1>2. t[1] = "start" /\ t[2] = "low" /\ t[3] = "base" /\ t[4] = "unfixed" /\ t[5] = "valued" /\ t[6] = "written"
  OBVIOUS
<1>. HIDE DEF s, t
<1>3. /\ Concludes(op, mode, "written", "modify")
      /\ Leads(op, mode, "start", "low", "low")
      /\ Leads(op, mode, "low", "pointer", "base")
      /\ Leads(op, mode, "base", "unfixed", "unfixed")
      /\ Leads(op, mode, "unfixed", "carry, value", "valued")
      /\ Leads(op, mode, "valued", "write back", "written")
  BY Zenon DEF Concludes, Leads, Direct, Indexing
<1>4. Passable(op, mode, s)
  BY <1>1, <1>2, <1>3, Passing6, Zenon
<1>. QED BY <1>4 DEF s

LEMMA ShiftAStepsPass ==
  ASSUME NEW op, NEW mode, mode = "acc" /\ op \in {"ASL", "LSR", "ROL", "ROR"}
  PROVE  Passable(op, mode, ShiftASteps)
<1>. DEFINE s == ShiftASteps
            t == <<"start">>
<1>1. Len(s) = 1 /\ s[1] = "shift"
  BY DEF ShiftASteps
<1>2. t[1] = "start"
  OBVIOUS
<1>. HIDE DEF s, t
<1>3. /\ Concludes(op, mode, "start", "shift")
  BY Zenon DEF Concludes, Leads, Direct, Indexing
<1>4. Passable(op, mode, s)
  BY <1>1, <1>2, <1>3, Passing1, Zenon
<1>. QED BY <1>4 DEF s

LEMMA FlagStepsPass ==
  ASSUME NEW op, NEW mode, mode = "impl" /\ op \in Flags
  PROVE  Passable(op, mode, FlagSteps)
<1>. DEFINE s == FlagSteps
            t == <<"start">>
<1>1. Len(s) = 1 /\ s[1] = "flag"
  BY DEF FlagSteps
<1>2. t[1] = "start"
  OBVIOUS
<1>. HIDE DEF s, t
<1>3. /\ Concludes(op, mode, "start", "flag")
  BY Zenon DEF Concludes, Leads, Direct, Indexing
<1>4. Passable(op, mode, s)
  BY <1>1, <1>2, <1>3, Passing1, Zenon
<1>. QED BY <1>4 DEF s

LEMMA TransferStepsPass ==
  ASSUME NEW op, NEW mode, mode = "impl" /\ op \in Transfers
  PROVE  Passable(op, mode, TransferSteps)
<1>. DEFINE s == TransferSteps
            t == <<"start">>
<1>1. Len(s) = 1 /\ s[1] = "transfer"
  BY DEF TransferSteps
<1>2. t[1] = "start"
  OBVIOUS
<1>. HIDE DEF s, t
<1>3. /\ Concludes(op, mode, "start", "transfer")
  BY Zenon DEF Concludes, Leads, Direct, Indexing
<1>4. Passable(op, mode, s)
  BY <1>1, <1>2, <1>3, Passing1, Zenon
<1>. QED BY <1>4 DEF s

LEMMA NopStepsPass ==
  ASSUME NEW op, NEW mode, mode = "impl" /\ op = "NOP"
  PROVE  Passable(op, mode, NopSteps)
<1>. DEFINE s == NopSteps
            t == <<"start">>
<1>1. Len(s) = 1 /\ s[1] = "nothing"
  BY DEF NopSteps
<1>2. t[1] = "start"
  OBVIOUS
<1>. HIDE DEF s, t
<1>3. /\ Concludes(op, mode, "start", "nothing")
  BY Zenon DEF Concludes, Leads, Direct, Indexing
<1>4. Passable(op, mode, s)
  BY <1>1, <1>2, <1>3, Passing1, Zenon
<1>. QED BY <1>4 DEF s

LEMMA PushStepsPass ==
  ASSUME NEW op, NEW mode, mode = "impl" /\ op \in {"PHA", "PHP"}
  PROVE  Passable(op, mode, PushSteps)
<1>. DEFINE s == PushSteps
            t == <<"start", "start">>
<1>1. Len(s) = 2 /\ s[1] = "discard" /\ s[2] = "push"
  BY DEF PushSteps
<1>2. t[1] = "start" /\ t[2] = "start"
  OBVIOUS
<1>. HIDE DEF s, t
<1>3. /\ Concludes(op, mode, "start", "push")
      /\ Leads(op, mode, "start", "discard", "start")
  BY Zenon DEF Concludes, Leads, Direct, Indexing
<1>4. Passable(op, mode, s)
  BY <1>1, <1>2, <1>3, Passing2, Zenon
<1>. QED BY <1>4 DEF s

LEMMA PullStepsPass ==
  ASSUME NEW op, NEW mode, mode = "impl" /\ op \in {"PLA", "PLP"}
  PROVE  Passable(op, mode, PullSteps)
<1>. DEFINE s == PullSteps
            t == <<"start", "start", "start">>
<1>1. Len(s) = 3 /\ s[1] = "discard" /\ s[2] = "stack" /\ s[3] = "pull"
  BY DEF PullSteps
<1>2. t[1] = "start" /\ t[2] = "start" /\ t[3] = "start"
  OBVIOUS
<1>. HIDE DEF s, t
<1>3. /\ Concludes(op, mode, "start", "pull")
      /\ Leads(op, mode, "start", "discard", "start")
      /\ Leads(op, mode, "start", "stack", "start")
  BY Zenon DEF Concludes, Leads, Direct, Indexing
<1>4. Passable(op, mode, s)
  BY <1>1, <1>2, <1>3, Passing3, Zenon
<1>. QED BY <1>4 DEF s

LEMMA RtiStepsPass ==
  ASSUME NEW op, NEW mode, mode = "impl" /\ op = "RTI"
  PROVE  Passable(op, mode, RtiSteps)
<1>. DEFINE s == RtiSteps
            t == <<"start", "start", "start", "status", "return low">>
<1>1. Len(s) = 5 /\ s[1] = "discard" /\ s[2] = "stack" /\ s[3] = "pull p" /\ s[4] = "pull pcl" /\ s[5] = "return"
  BY DEF RtiSteps
<1>2. t[1] = "start" /\ t[2] = "start" /\ t[3] = "start" /\ t[4] = "status" /\ t[5] = "return low"
  OBVIOUS
<1>. HIDE DEF s, t
<1>3. /\ Concludes(op, mode, "return low", "return")
      /\ Leads(op, mode, "start", "discard", "start")
      /\ Leads(op, mode, "start", "stack", "start")
      /\ Leads(op, mode, "start", "pull p", "status")
      /\ Leads(op, mode, "status", "pull pcl", "return low")
  BY Zenon DEF Concludes, Leads, Direct, Indexing
<1>4. Passable(op, mode, s)
  BY <1>1, <1>2, <1>3, Passing5, Zenon
<1>. QED BY <1>4 DEF s

LEMMA RtsStepsPass ==
  ASSUME NEW op, NEW mode, mode = "impl" /\ op = "RTS"
  PROVE  Passable(op, mode, RtsSteps)
<1>. DEFINE s == RtsSteps
            t == <<"start", "start", "start", "pulled low", "pulled">>
<1>1. Len(s) = 5 /\ s[1] = "discard" /\ s[2] = "stack" /\ s[3] = "pull pcl" /\ s[4] = "pull pch" /\ s[5] = "increment pc"
  BY DEF RtsSteps
<1>2. t[1] = "start" /\ t[2] = "start" /\ t[3] = "start" /\ t[4] = "pulled low" /\ t[5] = "pulled"
  OBVIOUS
<1>. HIDE DEF s, t
<1>3. /\ Concludes(op, mode, "pulled", "increment pc")
      /\ Leads(op, mode, "start", "discard", "start")
      /\ Leads(op, mode, "start", "stack", "start")
      /\ Leads(op, mode, "start", "pull pcl", "pulled low")
      /\ Leads(op, mode, "pulled low", "pull pch", "pulled")
  BY Zenon DEF Concludes, Leads, Direct, Indexing
<1>4. Passable(op, mode, s)
  BY <1>1, <1>2, <1>3, Passing5, Zenon
<1>. QED BY <1>4 DEF s

LEMMA JmpIndStepsPass ==
  ASSUME NEW op, NEW mode, mode = "ind" /\ op = "JMP"
  PROVE  Passable(op, mode, JmpIndSteps)
<1>. DEFINE s == JmpIndSteps
            t == <<"start", "low", "address", "jump">>
<1>1. Len(s) = 4 /\ s[1] = "low" /\ s[2] = "address" /\ s[3] = "low pointed" /\ s[4] = "jump pointed"
  BY DEF JmpIndSteps
<1>2. t[1] = "start" /\ t[2] = "low" /\ t[3] = "address" /\ t[4] = "jump"
  OBVIOUS
<1>. HIDE DEF s, t
<1>3. /\ Concludes(op, mode, "jump", "jump pointed")
      /\ Leads(op, mode, "start", "low", "low")
      /\ Leads(op, mode, "low", "address", "address")
      /\ Leads(op, mode, "address", "low pointed", "jump")
  BY Zenon DEF Concludes, Leads, Direct, Indexing
<1>4. Passable(op, mode, s)
  BY <1>1, <1>2, <1>3, Passing4, Zenon
<1>. QED BY <1>4 DEF s

LEMMA JmpStepsPass ==
  ASSUME NEW op, NEW mode, mode = "abs" /\ op = "JMP"
  PROVE  Passable(op, mode, JmpSteps)
<1>. DEFINE s == JmpSteps
            t == <<"start", "low">>
<1>1. Len(s) = 2 /\ s[1] = "low" /\ s[2] = "jump"
  BY DEF JmpSteps
<1>2. t[1] = "start" /\ t[2] = "low"
  OBVIOUS
<1>. HIDE DEF s, t
<1>3. /\ Concludes(op, mode, "low", "jump")
      /\ Leads(op, mode, "start", "low", "low")
  BY Zenon DEF Concludes, Leads, Direct, Indexing
<1>4. Passable(op, mode, s)
  BY <1>1, <1>2, <1>3, Passing2, Zenon
<1>. QED BY <1>4 DEF s

LEMMA JsrStepsPass ==
  ASSUME NEW op, NEW mode, mode = "abs" /\ op = "JSR"
  PROVE  Passable(op, mode, JsrSteps)
<1>. DEFINE s == JsrSteps
            t == <<"start", "low", "low", "pushed high", "pushed">>
<1>1. Len(s) = 5 /\ s[1] = "low" /\ s[2] = "stack" /\ s[3] = "push pch" /\ s[4] = "push pcl" /\ s[5] = "jump"
  BY DEF JsrSteps
<1>2. t[1] = "start" /\ t[2] = "low" /\ t[3] = "low" /\ t[4] = "pushed high" /\ t[5] = "pushed"
  OBVIOUS
<1>. HIDE DEF s, t
<1>3. /\ Concludes(op, mode, "pushed", "jump")
      /\ Leads(op, mode, "start", "low", "low")
      /\ Leads(op, mode, "low", "stack", "low")
      /\ Leads(op, mode, "low", "push pch", "pushed high")
      /\ Leads(op, mode, "pushed high", "push pcl", "pushed")
  BY Zenon DEF Concludes, Leads, Direct, Indexing
<1>4. Passable(op, mode, s)
  BY <1>1, <1>2, <1>3, Passing5, Zenon
<1>. QED BY <1>4 DEF s

LEMMA BranchStepsPass ==
  ASSUME NEW op, NEW mode, mode = "rel" /\ op \in BranchOps
  PROVE  Passable(op, mode, BranchSteps)
<1>. DEFINE s == BranchSteps
            t == <<"start", "low", "branched">>
<1>1. Len(s) = 3 /\ s[1] = "low" /\ s[2] = "branch" /\ s[3] = "fix pc"
  BY DEF BranchSteps
<1>2. t[1] = "start" /\ t[2] = "low" /\ t[3] = "branched"
  OBVIOUS
<1>. HIDE DEF s, t
<1>3. /\ Concludes(op, mode, "branched", "fix pc")
      /\ Leads(op, mode, "start", "low", "low")
      /\ Leads(op, mode, "low", "branch", "branched")
  BY Zenon DEF Concludes, Leads, Direct, Indexing
<1>4. Passable(op, mode, s)
  BY <1>1, <1>2, <1>3, Passing3, Zenon
<1>. QED BY <1>4 DEF s

-----------------------------------------------------------------------------
(* Every instruction passes through stages                                  *)

LEMMA StepsPass ==
  ASSUME NEW c, Typed(c), c.hardware_interrupt = None, Op(c) \notin Disputed
  PROVE  Passable(Op(c), Mode(c), Steps(c))
<1>. DEFINE op == Op(c)
            mode == Mode(c)
            s == Steps(c)
<1>. SUFFICES Passable(op, mode, s)
  OBVIOUS
<1>1. Known(op, mode)
  BY Types, EveryOpcode DEF Op, Mode
<1>2. op \notin Disputed
  OBVIOUS
<1>3. op # "JAM" /\ op # "BRK"
  BY <1>2 DEF Disputed
<1>4. s = CASE op \in BranchOps -> BranchSteps
            [] op = "JSR" -> JsrSteps
            [] op = "JMP" -> IF mode = "ind" THEN JmpIndSteps ELSE JmpSteps
            [] op \in Official \union Unofficial -> ModifySteps(op, mode)
            [] op \in Stores -> WriteSteps(mode)
            [] mode = "impl" -> ImpliedSteps(op)
            [] OTHER -> ReadSteps(op, mode)
  BY <1>3, Zenon DEF Steps
<1>. HIDE DEF op, mode, s
<1>5. CASE op \in BranchOps
  <2>1. mode = "rel"
    BY <1>1, <1>5 DEF Known, BranchOps, Official, Unofficial, Stores, Unstable, Implied, Flags, Transfers, Loads
  <2>2. s = BranchSteps
    BY <1>4, <1>5, <2>1 DEF BranchOps, Official, Unofficial, Stores, Unstable
  <2>. QED BY <1>5, <2>1, <2>2, BranchStepsPass, Zenon
<1>6. CASE op = "JSR"
  <2>1. mode = "abs"
    BY <1>1, <1>6 DEF Known, BranchOps, Official, Unofficial, Stores, Unstable, Implied, Flags, Transfers, Loads
  <2>2. s = JsrSteps
    BY <1>4, <1>6, <2>1 DEF BranchOps, Official, Unofficial, Stores, Unstable
  <2>. QED BY <1>6, <2>1, <2>2, JsrStepsPass, Zenon
<1>7. CASE op = "JMP"
  <2>1. mode \in {"abs", "ind"}
    BY <1>1, <1>7 DEF Known, BranchOps, Official, Unofficial, Stores, Unstable, Implied, Flags, Transfers, Loads
  <2>2. s = IF mode = "ind" THEN JmpIndSteps ELSE JmpSteps
    BY <1>4, <1>7, <2>1 DEF BranchOps, Official, Unofficial, Stores, Unstable
  <2>. QED BY <1>7, <2>1, <2>2, JmpIndStepsPass, JmpStepsPass, Zenon
<1>8. CASE op \in Official
  <2>1. \/ mode = "acc" /\ op \in {"ASL", "LSR", "ROL", "ROR"}
        \/ mode \in {"abs", "zp", "zpx", "absx"}
    BY <1>1, <1>8 DEF Known, BranchOps, Official, Unofficial, Stores, Unstable, Implied, Flags, Transfers, Loads
  <2>2. s = ModifySteps(op, mode)
    BY <1>4, <1>8, <2>1 DEF BranchOps, Official, Unofficial, Stores, Unstable
  <2>3. CASE mode = "acc" /\ op \in {"ASL", "LSR", "ROL", "ROR"}
    <3>1. s = ShiftASteps
      BY <2>2, <2>3 DEF ModifySteps
    <3>. QED BY <2>3, <3>1, ShiftAStepsPass, Zenon
  <2>4. CASE mode = "abs"
    <3>1. s = ModifyAbs
      BY <2>2, <2>4 DEF ModifySteps
    <3>. QED BY <1>8, <2>4, <3>1, ModifyAbsPass, Zenon
  <2>5. CASE mode = "zp"
    <3>1. s = ModifyZp
      BY <2>2, <2>5 DEF ModifySteps
    <3>. QED BY <1>8, <2>5, <3>1, ModifyZpPass, Zenon
  <2>6. CASE mode = "zpx"
    <3>1. s = ModifyZpX
      BY <2>2, <2>6 DEF ModifySteps
    <3>. QED BY <1>8, <2>6, <3>1, ModifyZpXPass, Zenon
  <2>7. CASE mode = "absx"
    <3>1. s = ModifyAbsX
      BY <1>8, <2>2, <2>7 DEF ModifySteps
    <3>. QED BY <1>8, <2>7, <3>1, ModifyAbsXPass, Zenon
  <2>. QED BY <2>1, <2>3, <2>4, <2>5, <2>6, <2>7
<1>9. CASE op \in Unofficial
  <2>1. mode \in {"abs", "zp", "zpx", "indx", "absx", "absy", "indy"}
    BY <1>1, <1>9 DEF Known, BranchOps, Official, Unofficial, Stores, Unstable, Implied, Flags, Transfers, Loads, Indexing
  <2>2. s = ModifySteps(op, mode) /\ op \notin Official
    BY <1>4, <1>9, <2>1 DEF BranchOps, Official, Unofficial, Stores, Unstable
  <2>3. CASE mode = "abs"
    <3>1. s = ModifyAbs
      BY <2>2, <2>3 DEF ModifySteps
    <3>. QED BY <1>9, <2>3, <3>1, ModifyAbsPass, Zenon
  <2>4. CASE mode = "zp"
    <3>1. s = ModifyZp
      BY <2>2, <2>4 DEF ModifySteps
    <3>. QED BY <1>9, <2>4, <3>1, ModifyZpPass, Zenon
  <2>5. CASE mode = "zpx"
    <3>1. s = ModifyZpX
      BY <2>2, <2>5 DEF ModifySteps
    <3>. QED BY <1>9, <2>5, <3>1, ModifyZpXPass, Zenon
  <2>6. CASE mode = "indx"
    <3>1. s = ModifyIndX
      BY <2>2, <2>6 DEF ModifySteps
    <3>. QED BY <1>9, <2>6, <3>1, ModifyIndXPass, Zenon
  <2>7. CASE mode = "indy"
    <3>1. s = ModifyIndY
      BY <2>2, <2>7 DEF ModifySteps
    <3>. QED BY <1>9, <2>7, <3>1, ModifyIndYPass, Zenon
  <2>8. CASE mode \in {"absx", "absy"}
    <3>1. s = UnofficialModifyAbsX
      BY <2>2, <2>8 DEF ModifySteps
    <3>. QED BY <1>9, <2>8, <3>1, UnofficialModifyAbsXPass, Zenon
  <2>. QED BY <2>1, <2>3, <2>4, <2>5, <2>6, <2>7, <2>8
<1>10. CASE op \in Stores
  <2>0. op \in Stores \ Disputed
    BY <1>2, <1>10
  <2>1. \/ mode \in {"abs", "zp", "zpx", "zpy", "indx", "absx", "absy"}
        \/ mode = "indy" /\ op = "STA"
    BY <1>1, <2>0 DEF Known, BranchOps, Official, Unofficial, Stores, Unstable, Implied, Flags, Transfers, Loads, Direct, Disputed
  <2>2. s = WriteSteps(mode)
    BY <1>4, <1>10, <2>1 DEF BranchOps, Official, Unofficial, Stores, Unstable
  <2>3. CASE mode = "abs"
    <3>1. s = WriteAbs
      BY <2>2, <2>3 DEF WriteSteps
    <3>. QED BY <2>0, <2>3, <3>1, WriteAbsPass, Zenon
  <2>4. CASE mode = "zp"
    <3>1. s = WriteZp
      BY <2>2, <2>4 DEF WriteSteps
    <3>. QED BY <2>0, <2>4, <3>1, WriteZpPass, Zenon
  <2>5. CASE mode \in {"zpx", "zpy"}
    <3>1. s = WriteZpX
      BY <2>2, <2>5 DEF WriteSteps
    <3>. QED BY <2>0, <2>5, <3>1, WriteZpXPass, Zenon
  <2>6. CASE mode = "indx"
    <3>1. s = WriteIndX
      BY <2>2, <2>6 DEF WriteSteps
    <3>. QED BY <2>0, <2>6, <3>1, WriteIndXPass, Zenon
  <2>7. CASE mode = "indy" /\ op = "STA"
    <3>1. s = WriteIndY
      BY <2>2, <2>7 DEF WriteSteps
    <3>. QED BY <2>7, <3>1, WriteIndYPass, Zenon
  <2>8. CASE mode \in {"absx", "absy"}
    <3>1. s = WriteAbsX
      BY <2>2, <2>8 DEF WriteSteps
    <3>. QED BY <2>0, <2>8, <3>1, WriteAbsXPass, Zenon
  <2>. QED BY <2>1, <2>3, <2>4, <2>5, <2>6, <2>7, <2>8
<1>11. CASE op \in Implied /\ mode = "impl"
  <2>1. s = ImpliedSteps(op)
    BY <1>4, <1>11 DEF BranchOps, Official, Unofficial, Stores, Unstable, Implied, Flags, Transfers
  <2>2. CASE op \in Flags
    <3>1. s = FlagSteps
      BY <2>1, <2>2 DEF ImpliedSteps, Flags, Transfers
    <3>. QED BY <1>11, <2>2, <3>1, FlagStepsPass, Zenon
  <2>3. CASE op \in Transfers
    <3>1. s = TransferSteps
      BY <2>1, <2>3 DEF ImpliedSteps, Flags, Transfers
    <3>. QED BY <1>11, <2>3, <3>1, TransferStepsPass, Zenon
  <2>4. CASE op = "NOP"
    <3>1. s = NopSteps
      BY <2>1, <2>4 DEF ImpliedSteps, Flags, Transfers
    <3>. QED BY <1>11, <2>4, <3>1, NopStepsPass, Zenon
  <2>5. CASE op = "RTI"
    <3>1. s = RtiSteps
      BY <2>1, <2>5 DEF ImpliedSteps, Flags, Transfers
    <3>. QED BY <1>11, <2>5, <3>1, RtiStepsPass, Zenon
  <2>6. CASE op = "RTS"
    <3>1. s = RtsSteps
      BY <2>1, <2>6 DEF ImpliedSteps, Flags, Transfers
    <3>. QED BY <1>11, <2>6, <3>1, RtsStepsPass, Zenon
  <2>7. CASE op \in {"PHA", "PHP"}
    <3>1. s = PushSteps
      BY <2>1, <2>7 DEF ImpliedSteps, Flags, Transfers
    <3>. QED BY <1>11, <2>7, <3>1, PushStepsPass, Zenon
  <2>8. CASE op \in {"PLA", "PLP"}
    <3>1. s = PullSteps
      BY <2>1, <2>8 DEF ImpliedSteps, Flags, Transfers
    <3>. QED BY <1>11, <2>8, <3>1, PullStepsPass, Zenon
  <2>. QED BY <1>3, <1>11, <2>2, <2>3, <2>4, <2>5, <2>6, <2>7, <2>8 DEF Implied
<1>12. CASE op \in Loads /\ mode # "impl"
  <2>0. op \in Loads \ Disputed
    BY <1>2, <1>12
  <2>1. mode \in {"imm", "abs", "zp", "zpx", "zpy", "indx", "absx", "absy", "indy"}
    BY <1>1, <1>12 DEF Known, BranchOps, Official, Unofficial, Stores, Unstable, Implied, Flags, Transfers, Loads, Direct, Indexing
  <2>2. s = ReadSteps(op, mode)
    BY <1>4, <1>12 DEF BranchOps, Official, Unofficial, Stores, Unstable, Loads
  <2>3. CASE mode = "imm"
    <3>1. s = ImmediateSteps \/ s = CompareImmSteps
      BY <2>2, <2>3 DEF ReadSteps
    <3>. QED BY <2>0, <2>3, <3>1, ImmediateStepsPass, CompareImmStepsPass, Zenon
  <2>4. CASE mode = "abs"
    <3>1. s = ReadAbs
      BY <2>2, <2>4 DEF ReadSteps
    <3>. QED BY <2>0, <2>4, <3>1, ReadAbsPass, Zenon
  <2>5. CASE mode = "zp"
    <3>1. s = ReadZp
      BY <2>2, <2>5 DEF ReadSteps
    <3>. QED BY <2>0, <2>5, <3>1, ReadZpPass, Zenon
  <2>6. CASE mode \in {"zpx", "zpy"}
    <3>1. s = ReadZpX
      BY <2>2, <2>6 DEF ReadSteps
    <3>. QED BY <2>0, <2>6, <3>1, ReadZpXPass, Zenon
  <2>7. CASE mode = "indx"
    <3>1. s = ReadIndX
      BY <2>2, <2>7 DEF ReadSteps
    <3>. QED BY <2>0, <2>7, <3>1, ReadIndXPass, Zenon
  <2>8. CASE mode = "indy"
    <3>1. s = ReadIndY
      BY <2>2, <2>8 DEF ReadSteps
    <3>. QED BY <2>0, <2>8, <3>1, ReadIndYPass, Zenon
  <2>9. CASE mode \in {"absx", "absy"}
    <3>1. s = ReadAbsX
      BY <2>2, <2>9 DEF ReadSteps
    <3>. QED BY <2>0, <2>9, <3>1, ReadAbsXPass, Zenon
  <2>. QED BY <2>1, <2>3, <2>4, <2>5, <2>6, <2>7, <2>8, <2>9
<1>13. \/ op \in BranchOps \/ op = "JSR" \/ op = "JMP" \/ op \in Official \/ op \in Unofficial
       \/ op \in Stores \/ (op \in Implied /\ mode = "impl") \/ (op \in Loads /\ mode # "impl")
  BY <1>1, <1>3 DEF Known, Official, Direct, Indexing, Unstable, Stores
<1>. QED BY <1>5, <1>6, <1>7, <1>8, <1>9, <1>10, <1>11, <1>12, <1>13, Zenon

StageNames ==
  {"start", "low", "address", "jump", "zero page", "index", "low pointed", "pointer",
   "pointer low", "near", "near valued", "aimed", "valued", "base", "unfixed", "written",
   "pushed high", "pushed", "status", "return low", "pulled low", "pulled", "branched"}

LEMMA StageNamed ==
  ASSUME NEW op, NEW mode, NEW from, NEW step
  PROVE  /\ \A to : Leads(op, mode, from, step, to) => from \in StageNames
         /\ Concludes(op, mode, from, step) => from \in StageNames
BY DEF Leads, Concludes, StageNames

LEMMA PassesNamed ==
  ASSUME NEW op, NEW mode, NEW s, NEW t, Passes(op, mode, s, t), NEW k \in 1 .. Len(s)
  PROVE  t[k] \in StageNames
<1>1. CASE k = Len(s)
  BY <1>1, StageNamed DEF Passes
<1>2. CASE k # Len(s)
  <2>1. Leads(op, mode, t[k], s[k], t[k + 1])
    BY <1>2 DEF Passes
  <2>. QED BY <2>1, StageNamed
<1>. QED BY <1>1, <1>2

(* What has been reached is told by the registers and the five fields.      *)
LEMMA Staying ==
  ASSUME NEW c, NEW d, Visible(d) = Visible(c), SameScratch(c, d), NEW stage \in StageNames, NEW op,
         NEW mode, NEW b, Reached(stage, op, mode, c, b)
  PROVE  Reached(stage, op, mode, d, b)
<1>0. /\ Visible(d) = Visible(c)
      /\ d.low_byte = c.low_byte /\ d.current_address = c.current_address /\ d.pointer = c.pointer
      /\ d.page_crossed = c.page_crossed /\ d.current_value = c.current_value
  BY DEF SameScratch
<1>24. \A n : Past(d, b, n) <=> Past(c, b, n)
  BY <1>0, Zenon DEF Past
<1>25. Near(mode, d, b) <=> Near(mode, c, b)
  BY <1>0, Zenon DEF Near
<1>26. Settled(d) = Settled(c)
  BY <1>0, Zenon DEF Settled
<1>1. CASE stage = "start"
  BY <1>1, <1>0, <1>24, <1>25, <1>26, Zenon DEF Reached
<1>2. CASE stage = "low"
  BY <1>2, <1>0, <1>24, <1>25, <1>26, Zenon DEF Reached
<1>3. CASE stage = "address"
  BY <1>3, <1>0, <1>24, <1>25, <1>26, Zenon DEF Reached
<1>4. CASE stage = "jump"
  BY <1>4, <1>0, <1>24, <1>25, <1>26, Zenon DEF Reached
<1>5. CASE stage = "zero page"
  BY <1>5, <1>0, <1>24, <1>25, <1>26, Zenon DEF Reached
<1>6. CASE stage = "index"
  BY <1>6, <1>0, <1>24, <1>25, <1>26, Zenon DEF Reached
<1>7. CASE stage = "low pointed"
  BY <1>7, <1>0, <1>24, <1>25, <1>26, Zenon DEF Reached
<1>8. CASE stage = "pointer"
  BY <1>8, <1>0, <1>24, <1>25, <1>26, Zenon DEF Reached
<1>9. CASE stage = "pointer low"
  BY <1>9, <1>0, <1>24, <1>25, <1>26, Zenon DEF Reached
<1>10. CASE stage = "near"
  BY <1>10, <1>0, <1>24, <1>25, <1>26, Zenon DEF Reached
<1>11. CASE stage = "near valued"
  BY <1>11, <1>0, <1>24, <1>25, <1>26, Zenon DEF Reached
<1>12. CASE stage = "aimed"
  BY <1>12, <1>0, <1>24, <1>25, <1>26, Zenon DEF Reached
<1>13. CASE stage = "valued"
  BY <1>13, <1>0, <1>24, <1>25, <1>26, Zenon DEF Reached
<1>14. CASE stage = "base"
  BY <1>14, <1>0, <1>24, <1>25, <1>26, Zenon DEF Reached
<1>15. CASE stage = "unfixed"
  BY <1>15, <1>0, <1>24, <1>25, <1>26, Zenon DEF Reached
<1>16. CASE stage = "written"
  BY <1>16, <1>0, <1>24, <1>25, <1>26, Zenon DEF Reached
<1>17. CASE stage = "pushed high"
  BY <1>17, <1>0, <1>24, <1>25, <1>26, Zenon DEF Reached
<1>18. CASE stage = "pushed"
  BY <1>18, <1>0, <1>24, <1>25, <1>26, Zenon DEF Reached
<1>19. CASE stage = "status"
  BY <1>19, <1>0, <1>24, <1>25, <1>26, Zenon DEF Reached
<1>20. CASE stage = "return low"
  BY <1>20, <1>0, <1>24, <1>25, <1>26, Zenon DEF Reached
<1>21. CASE stage = "pulled low"
  BY <1>21, <1>0, <1>24, <1>25, <1>26, Zenon DEF Reached
<1>22. CASE stage = "pulled"
  BY <1>22, <1>0, <1>24, <1>25, <1>26, Zenon DEF Reached
<1>23. CASE stage = "branched"
  BY <1>23, <1>0, <1>24, <1>25, <1>26, Zenon DEF Reached
<1>. QED BY <1>1, <1>2, <1>3, <1>4, <1>5, <1>6, <1>7, <1>8, <1>9, <1>10, <1>11, <1>12, <1>13, <1>14, <1>15, <1>16, <1>17, <1>18, <1>19, <1>20, <1>21, <1>22, <1>23, Zenon DEF StageNames

-----------------------------------------------------------------------------
(* An instruction in progress                                               *)

LEMMA SeenAlike ==
  ASSUME NEW c, NEW d,
         \A f \in Registers \union {"low_byte", "current_address", "pointer", "page_crossed",
                                    "current_value"} : d[f] = c[f]
  PROVE  Visible(d) = Visible(c) /\ SameScratch(c, d)
<1>1. SameScratch(c, d)
  BY DEF SameScratch
<1>2. \A f \in Registers : d[f] = c[f]
  OBVIOUS
<1>. QED BY <1>1, <1>2 DEF Visible

LEMMA Alike ==
  /\ Registers \union {"low_byte", "current_address", "pointer", "page_crossed", "current_value"}
       \subseteq Fields \ {"bus", "latched_nmi", "dma_on_previous_cycle", "current_cycle",
                           "instruction_cycles", "current_opcode", "current_cycle",
                           "hardware_interrupt", "no_increment", "finished"}
BY DEF Fields, Registers, New

LEMMA EndTickSeen ==
  ASSUME NEW c, Typed(c)
  PROVE  Visible(EndTick(c)) = Visible(c) /\ SameScratch(c, EndTick(c))
BY EndTickIs, Alike, SeenAlike

(* The instruction in progress is the one at the program counter it started *)
(* from, and if the two processors agree on it, it has come as far as its   *)
(* cycle says.                                                              *)
Follows(c, b) ==
  /\ c.current_opcode = At(b, b.pc)
  /\ Op(c) \notin Disputed =>
       \E t : /\ Passes(Op(c), Mode(c), Steps(c), t)
              /\ Reached(t[c.current_cycle - 1], Op(c), Mode(c), c, b)

LEMMA FollowsKept ==
  ASSUME NEW c, NEW d, NEW b, Follows(c, b), Visible(d) = Visible(c), SameScratch(c, d),
         d.current_opcode = c.current_opcode, d.hardware_interrupt = c.hardware_interrupt,
         d.current_cycle = c.current_cycle, c.current_cycle - 1 \in 1 .. Len(Steps(c))
  PROVE  Follows(d, b)
<1>1. Steps(d) = Steps(c) /\ Op(d) = Op(c) /\ Mode(d) = Mode(c)
  BY SameSteps DEF Op, Mode
<1>. DEFINE k == c.current_cycle - 1
            s == Steps(c)
            op == Op(c)
            mode == Mode(c)
<1>2. d.current_cycle - 1 = k /\ k \in 1 .. Len(s)
  OBVIOUS
<1>3. SUFFICES ASSUME op \notin Disputed
               PROVE  \E t : Passes(op, mode, s, t) /\ Reached(t[k], op, mode, d, b)
  BY <1>1, <1>2, Zenon DEF Follows
<1>. HIDE DEF k, s, op, mode
<1>4. PICK t : Passes(op, mode, s, t) /\ Reached(t[k], op, mode, c, b)
  BY <1>3, Zenon DEF Follows, k, s, op, mode
<1>5. t[k] \in StageNames
  BY <1>2, <1>4, PassesNamed, Zenon
<1>6. Reached(t[k], op, mode, d, b)
  BY <1>4, <1>5, Staying, Zenon
<1>. QED BY <1>4, <1>6

LEMMA FollowsOn ==
  ASSUME NEW c, Typed(c), NEW b, SeenTyped(b), Follows(c, b),
         NEW k, k = c.current_cycle - 1, k \in 1 .. Len(Steps(c)), k # Len(Steps(c)),
         NEW p, p = Perform(Steps(c)[k], c), Typed(p),
         p.current_opcode = c.current_opcode, p.hardware_interrupt = c.hardware_interrupt,
         p.current_cycle = c.current_cycle
  PROVE  Follows(EndTick(p), b)
<1>. DEFINE s == Steps(c)
            op == Op(c)
            mode == Mode(c)
            e == EndTick(p)
<1>1. /\ Visible(e) = Visible(p) /\ SameScratch(p, e) /\ e.current_opcode = c.current_opcode
      /\ e.hardware_interrupt = c.hardware_interrupt /\ e.current_cycle = c.current_cycle + 1
  BY EndTickSeen, EndTickIs, Apart
<1>. HIDE DEF e
<1>2. Steps(e) = s /\ Op(e) = op /\ Mode(e) = mode
  BY <1>1, SameSteps DEF Op, Mode
<1>3. e.current_cycle - 1 = k + 1
  <2>1. c.current_cycle \in Nat
    BY Types
  <2>. QED BY <1>1, <2>1
<1>. HIDE DEF s, op, mode
<1>4. SUFFICES ASSUME op \notin Disputed
               PROVE  \E t : Passes(op, mode, s, t) /\ Reached(t[k + 1], op, mode, e, b)
  <2>1. e.current_opcode = At(b, b.pc)
    BY <1>1 DEF Follows
  <2>. QED BY <1>2, <1>3, <2>1, Zenon DEF Follows, e
<1>5. PICK t : Passes(op, mode, s, t) /\ Reached(t[k], op, mode, c, b)
  BY <1>4, Zenon DEF Follows, s, op, mode
<1>6. Leads(op, mode, t[k], s[k], t[k + 1])
  BY <1>5, Zenon DEF Passes, s
<1>7. k + 1 \in 1 .. Len(s) /\ Len(s) \in Nat
  BY <1>5 DEF Passes, s
<1>8. t[k + 1] \in StageNames
  BY <1>5, <1>7, PassesNamed, Zenon
<1>. DEFINE from == t[k]
            to == t[k + 1]
            step == s[k]
<1>9. Reached(to, op, mode, p, b)
  <2>1. op = Op(c) /\ mode = Mode(c) /\ p = Perform(step, c)
    BY DEF op, mode, s
  <2>2. Leads(op, mode, from, step, to) /\ Reached(from, op, mode, c, b)
    BY <1>5, <1>6
  <2>. HIDE DEF from, to, step
  <2>3. Reached(to, op, mode, Perform(step, c), b)
    BY <2>1, <2>2, StageStep, Zenon
  <2>. QED BY <2>1, <2>3, Zenon
<1>. HIDE DEF from, to, step
<1>10. Reached(to, op, mode, e, b)
  BY <1>1, <1>8, <1>9, Staying, Zenon DEF to
<1>. QED BY <1>5, <1>10, Zenon DEF to

(* The decimal flag is as it was before the last step of an addition.       *)
LEMMA DecimalSeen ==
  ASSUME NEW c, NEW b, DOMAIN b = Registers, NEW op \in Decimal, NEW mode, NEW from, NEW step,
         Concludes(op, mode, from, step), Reached(from, op, mode, c, b)
  PROVE  c.d = b.d
<1>1. from \in {"start", "aimed", "near valued", "written"}
  BY DEF Concludes, Decimal, Stores, Unstable, Flags, Transfers, BranchOps
<1>2. ASSUME NEW n, Past(c, b, n) PROVE c.d = b.d
  <2>. DEFINE w == Shift(b.pc, n)
  <2>1. Visible(c) = [b EXCEPT !.pc = w]
    BY <1>2 DEF Past
  <2>. HIDE DEF w
  <2>2. [b EXCEPT !.pc = w].d = b.d
    BY DEF Registers
  <2>3. Visible(c).d = c.d
    BY DEF Visible, Registers
  <2>. QED BY <2>1, <2>2, <2>3
<1>3. CASE from = "start"
  BY <1>2, <1>3, Zenon DEF Reached
<1>4. CASE from = "aimed"
  BY <1>2, <1>4, Zenon DEF Reached
<1>5. CASE from = "near valued"
  BY <1>2, <1>5, Zenon DEF Reached
<1>6. CASE from = "written"
  <2>. DEFINE w == Shift(b.pc, Bytes(mode))
              m == Written(b.mem, Target(b, mode), At(b, Target(b, mode)))
  <2>1. Visible(c) = WrittenBack(b, mode)
    BY <1>6, Zenon DEF Reached
  <2>2. Visible(c) = [[b EXCEPT !.pc = w] EXCEPT !.mem = m]
    BY <2>1, Zenon DEF WrittenBack, After
  <2>. HIDE DEF w, m
  <2>3. [[b EXCEPT !.pc = w] EXCEPT !.mem = m].d = b.d
    BY DEF Registers
  <2>4. Visible(c).d = c.d
    BY DEF Visible, Registers
  <2>. QED BY <2>2, <2>3, <2>4
<1>. QED BY <1>1, <1>3, <1>4, <1>5, <1>6

LEMMA FollowsOver ==
  ASSUME NEW c, Typed(c), c.bus = <<>>, NEW b, SeenTyped(b), Follows(c, b), Op(c) \notin Disputed,
         Op(c) \in Decimal => ~c.d, Op(c) = "JSR" => ~Overlaps(b),
         NEW k, k = c.current_cycle - 1, k = Len(Steps(c))
  PROVE  Visible(Perform(Steps(c)[k], c)) = Whole!next_instruction(b)
<1>. DEFINE op == Op(c)
            mode == Mode(c)
            s == Steps(c)
<1>1. PICK t : Passes(op, mode, s, t) /\ Reached(t[k], op, mode, c, b)
  BY Zenon DEF Follows
<1>. HIDE DEF op, mode, s
<1>. DEFINE from == t[k]
            step == s[k]
<1>2. Concludes(op, mode, from, step) /\ Reached(from, op, mode, c, b)
  BY <1>1, Zenon DEF Passes, s
<1>. HIDE DEF from, step
<1>3. c.current_opcode = At(b, b.pc)
  BY DEF Follows
<1>4. DOMAIN b = Registers
  BY DEF SeenTyped
<1>5. op \in Decimal => ~b.d
  <2>1. op \in Decimal => ~c.d
    BY DEF op
  <2>. QED BY <1>2, <1>4, <2>1, DecimalSeen, Zenon
<1>6. op = Op(c) /\ mode = Mode(c) /\ (op = "JSR" => ~Overlaps(b))
  BY DEF op, mode
<1>7. Visible(Perform(step, c)) = Whole!next_instruction(b)
  BY <1>2, <1>3, <1>5, <1>6, LastStage, Zenon
<1>. QED BY <1>7, Zenon DEF step, s

LEMMA SomeSteps ==
  ASSUME NEW c, Typed(c), c.hardware_interrupt = None, Op(c) \notin Disputed
  PROVE  Steps(c) # <<>>
<1>1. PICK t : Passes(Op(c), Mode(c), Steps(c), t)
  BY StepsPass, Zenon DEF Passable
<1>2. Len(Steps(c)) # 0
  BY <1>1 DEF Passes
<1>3. Len(<<>>) = 0
  OBVIOUS
<1>. QED BY <1>2, <1>3, Zenon

-----------------------------------------------------------------------------
(* The first tick of an instruction                                         *)

LEMMA BeginSeen ==
  ASSUME NEW c, Typed(c)
  PROVE  Visible(Begin(c)) = Visible(c)
<1>1. DOMAIN c = Fields
  BY DEF Typed
<1>2. \A f \in Registers : Begin(c)[f] = c[f]
  BY <1>1 DEF Begin, Fields, Registers, New
<1>. QED BY <1>2 DEF Visible

LEMMA PastNone ==
  ASSUME NEW c, Typed(c)
  PROVE  Past(c, Visible(c), 0) /\ Shift(c.pc, 0) = c.pc /\ Visible(c).pc = c.pc
<1>1. c.pc \in Word
  BY Types
<1>2. Shift(c.pc, 0) = c.pc
  BY <1>1, WordIs DEF Shift
<1>3. Visible(c).pc = c.pc
  BY DEF Visible, Registers
<1>4. [Visible(c) EXCEPT !.pc = c.pc] = Visible(c)
  BY DEF Visible
<1>. QED BY <1>2, <1>3, <1>4 DEF Past

(* The first tick of an instruction leaves it at its start, or it is over.  *)
LEMMA FetchFollows ==
  ASSUME NEW c, Typed(c), c.hardware_interrupt = None
  PROVE  LET d == EndTick(FetchOpcode(Begin(c)))
         IN IF d.finished THEN Op(d) \in Disputed
            ELSE d.hardware_interrupt = None /\ Follows(d, Visible(c))
<1>. DEFINE b == Begin(c)
            v == At(b, b.pc)
            g == Fetched(b)
            h == [g EXCEPT !.current_opcode = v]
            e == [h EXCEPT !.dma_on_previous_cycle = FALSE]
            r == Visible(c)
<1>1. /\ Typed(b) /\ b.bus = <<>> /\ b.current_cycle = 1 /\ ~b.no_increment /\ ~b.finished
      /\ b.hardware_interrupt = None
  BY BeginIs
<1>2. Visible(b) = r /\ SeenTyped(r)
  BY BeginSeen, SeenTypes
<1>. HIDE DEF b, r
<1>3. v \in Byte
  BY <1>1, Types, AtByte
<1>4. Typed(g) /\ Len(g.bus) = 1 /\ \A f \in Books : g[f] = b[f]
  BY <1>1, FetchedAccess DEF Accessed
<1>5. Past(g, r, 1) /\ v = At(r, r.pc)
  <2>1. Past(b, r, 0) /\ Shift(r.pc, 0) = r.pc
    BY <1>1, <1>2, PastNone
  <2>2. 0 \in 0 .. 3 /\ 0 + 1 = 1
    OBVIOUS
  <2>3. Past(Fetched(b), r, 0 + 1) /\ At(b, b.pc) = At(r, Shift(r.pc, 0))
    BY <1>1, <1>2, <2>1, <2>2, FetchedIs, Zenon
  <2>. QED BY <2>1, <2>2, <2>3
<1>. HIDE DEF g, v
<1>6. /\ DOMAIN g = Fields
      /\ {"current_cycle", "no_increment", "finished", "hardware_interrupt"} \subseteq Books
      /\ {"current_cycle", "no_increment", "finished", "hardware_interrupt", "bus"}
            \subseteq Fields \ {"current_opcode", "dma_on_previous_cycle"}
      /\ "current_opcode" \in Fields
      /\ Registers \subseteq Fields \ {"current_opcode", "dma_on_previous_cycle"}
  BY <1>4 DEF Typed, Books, Fields, New, Registers
<1>7. Typed(h)
  BY <1>3, <1>4, Update, KindOf
<1>8. Typed(e)
  <2>. HIDE DEF h
  <2>. QED BY <1>7, Update, KindOf
<1>9. \A f \in Fields \ {"current_opcode", "dma_on_previous_cycle"} : e[f] = g[f]
  BY <1>6
<1>10. e.current_opcode = v
  BY <1>6
<1>11. FetchOpcode(b) = IF Steps(e) = <<>>
                       THEN Done([e EXCEPT !.current_cycle = Size(e.current_opcode)]) ELSE e
  BY DEF FetchOpcode, g, v
<1>. HIDE DEF e
<1>12. e.current_cycle = 1 /\ ~e.finished /\ e.hardware_interrupt = None
  BY <1>1, <1>4, <1>6, <1>9
<1>13. Past(e, r, 1)
  <2>1. Visible(e) = Visible(g)
    BY <1>6, <1>9 DEF Visible
  <2>. QED BY <1>5, <2>1 DEF Past
<1>14. CASE Steps(e) # <<>>
  <2>. DEFINE d == EndTick(e)
  <2>1. /\ Typed(d) /\ d.finished = e.finished /\ d.hardware_interrupt = e.hardware_interrupt
        /\ d.current_opcode = e.current_opcode /\ d.current_cycle = e.current_cycle + 1
    BY <1>8, EndTickIs, Apart
  <2>2. Visible(d) = Visible(e)
    BY <1>8, EndTickSeen
  <2>3. EndTick(FetchOpcode(b)) = d
    BY <1>11, <1>14
  <2>. HIDE DEF d
  <2>4. d.current_cycle - 1 = 1 /\ ~d.finished /\ d.hardware_interrupt = None
    BY <1>12, <2>1
  <2>5. Reached("start", Op(d), Mode(d), d, r)
    <3>1. Past(d, r, 1)
      BY <1>13, <2>2 DEF Past
    <3>. QED BY <3>1, Zenon DEF Reached
  <2>6. ASSUME Op(d) \notin Disputed
        PROVE  \E t : /\ Passes(Op(d), Mode(d), Steps(d), t)
                      /\ Reached(t[d.current_cycle - 1], Op(d), Mode(d), d, r)
    <3>1. PICK t : Passes(Op(d), Mode(d), Steps(d), t)
      BY <2>1, <2>4, <2>6, StepsPass, Zenon DEF Passable
    <3>2. t[1] = "start"
      BY <3>1, Zenon DEF Passes
    <3>. QED BY <2>4, <2>5, <3>1, <3>2, Zenon
  <2>7. d.current_opcode = At(r, r.pc)
    BY <1>5, <1>10, <2>1
  <2>8. Follows(d, r)
    BY <2>6, <2>7, Zenon DEF Follows
  <2>. QED BY <2>3, <2>4, <2>8, Zenon DEF b, r
<1>15. CASE Steps(e) = <<>>
  <2>. DEFINE size == Size(e.current_opcode)
              p == [e EXCEPT !.current_cycle = size]
              d == EndTick(Done(p))
  <2>1. size \in Nat
    BY SizeNat
  <2>. HIDE DEF size
  <2>2. Typed(p)
    BY <1>8, <2>1, Update, KindOf
  <2>3. p.current_opcode = e.current_opcode
    BY <1>6, <1>8 DEF Typed
  <2>. HIDE DEF p
  <2>4. /\ Typed(Done(p)) /\ Done(p).finished /\ Done(p).current_opcode = p.current_opcode
    BY <2>2, DoneIs, BookFields
  <2>5. d.finished = Done(p).finished /\ d.current_opcode = Done(p).current_opcode
    BY <2>4, EndTickIs, Apart
  <2>6. EndTick(FetchOpcode(b)) = d
    BY <1>11, <1>15 DEF p, size
  <2>. HIDE DEF d
  <2>7. Op(e) \in Disputed
    BY <1>8, <1>12, <1>15, SomeSteps
  <2>8. d.finished /\ Op(d) \in Disputed
    BY <2>3, <2>4, <2>5, <2>7 DEF Op
  <2>. QED BY <2>6, <2>8, Zenon DEF b
<1>. QED BY <1>14, <1>15, Zenon

-----------------------------------------------------------------------------
(* An interrupt in progress                                                 *)

(* What an interrupt has pushed when the vector is read.                    *)
Saved(b) == [Whole!push_byte(Pushed(b), Whole!value(b, FALSE)) EXCEPT !.i = TRUE]

Entered(c, b) ==
  \/ c.current_cycle \in {2, 3} /\ Visible(c) = b
  \/ c.current_cycle = 4 /\ Visible(c) = PushedHigh(b)
  \/ c.current_cycle = 5 /\ Visible(c) = Pushed(b)
  \/ c.current_cycle = 6 /\ Visible(c) = Saved(b)
  \/ c.current_cycle = 7 /\ Visible(c) = Saved(b) /\ c.low_byte = At(Saved(b), Vector(c))

LEMMA PushFlags ==
  ASSUME NEW r, DOMAIN r = Registers, NEW v
  PROVE  LET p == Whole!push_byte(r, v)
         IN /\ DOMAIN p = Registers /\ p.pc = r.pc
            /\ p.n = r.n /\ p.v = r.v /\ p.d = r.d /\ p.i = r.i /\ p.z = r.z /\ p.c = r.c
<1>. DEFINE m == Written(r.mem, 256 + r.s, v)
            q == [r EXCEPT !.mem = m]
            s == Whole!Wrap(q.s - 1)
<1>1. Whole!push_byte(r, v) = [q EXCEPT !.s = s]
  <2>1. Whole!Set(r, 256 + r.s, v) = q
    BY WholeMemory
  <2>. QED BY <2>1, Zenon DEF Whole!push_byte
<1>. HIDE DEF m, s
<1>. DEFINE p == [q EXCEPT !.s = s]
<1>2. /\ DOMAIN p = Registers /\ p.pc = r.pc
      /\ p.n = r.n /\ p.v = r.v /\ p.d = r.d /\ p.i = r.i /\ p.z = r.z /\ p.c = r.c
  BY DEF Registers
<1>. QED BY <1>1, <1>2, Zenon

LEMMA PushedIs ==
  ASSUME NEW b, DOMAIN b = Registers
  PROVE  /\ DOMAIN Pushed(b) = Registers
         /\ \A brk : Whole!value(Pushed(b), brk) = Whole!value(b, brk)
         /\ Pushed(b) = Whole!push_word(b, b.pc)
<1>. DEFINE h == Hi(b.pc)
            l == Lo(b.pc)
            p == PushedHigh(b)
<1>1. p = Whole!push_byte(b, h)
  BY Zenon DEF PushedHigh
<1>. HIDE DEF h
<1>2. /\ DOMAIN p = Registers /\ p.pc = b.pc
      /\ p.n = b.n /\ p.v = b.v /\ p.d = b.d /\ p.i = b.i /\ p.z = b.z /\ p.c = b.c
  BY <1>1, PushFlags
<1>3. Pushed(b) = Whole!push_byte(p, l)
  BY <1>2, Zenon DEF Pushed
<1>. HIDE DEF p, l
<1>. DEFINE q == Pushed(b)
<1>4. /\ DOMAIN q = Registers
      /\ q.n = p.n /\ q.v = p.v /\ q.d = p.d /\ q.i = p.i /\ q.z = p.z /\ q.c = p.c
  BY <1>2, <1>3, PushFlags
<1>. HIDE DEF q
<1>5. q.n = b.n /\ q.v = b.v /\ q.d = b.d /\ q.i = b.i /\ q.z = b.z /\ q.c = b.c
  BY <1>2, <1>4
<1>6. \A brk : Whole!value(q, brk) = Whole!value(b, brk)
  BY <1>5, Zenon DEF Whole!value
<1>7. q = Whole!push_word(b, b.pc)
  <2>1. q = Whole!push_byte(Whole!push_byte(b, h), l)
    BY <1>1, <1>3, Zenon DEF q
  <2>. QED BY <2>1, Zenon DEF Whole!push_word, h, l, Hi, Lo
<1>. QED BY <1>4, <1>6, <1>7 DEF q

LEMMA WholeInterrupt ==
  ASSUME NEW b, DOMAIN b = Registers, NEW vector, Shift(vector, 1) = vector + 1
  PROVE  Whole!handle_interrupt(b, FALSE, vector)
           = [Saved(b) EXCEPT !.pc = Paged(At(Saved(b), vector), At(Saved(b), vector + 1))]
<1>. DEFINE v == Whole!value(b, FALSE)
            q == Pushed(b)
            p == Whole!push_byte(q, v)
            s == Saved(b)
<1>1. DOMAIN q = Registers /\ q = Whole!push_word(b, b.pc)
  BY PushedIs, Zenon
<1>2. s = [p EXCEPT !.i = TRUE]
  BY Zenon DEF Saved
<1>3. p = Whole!push_byte(Whole!push_word(b, b.pc), Whole!value(b, FALSE))
  BY <1>1, Zenon
<1>. HIDE DEF v, q
<1>4. DOMAIN p = Registers
  BY <1>1, PushFlags
<1>. HIDE DEF p
<1>. DEFINE to == Whole!word(p, vector)
<1>5. Whole!handle_interrupt(b, FALSE, vector) = [p EXCEPT !.i = TRUE, !.pc = to]
  BY <1>3, Zenon DEF Whole!handle_interrupt
<1>. HIDE DEF s
<1>6. s.mem = p.mem
  BY <1>2, <1>4 DEF Registers
<1>7. \A w : At(s, w) = At(p, w)
  BY <1>6, Zenon DEF At
<1>8. to = Paged(At(s, vector), At(s, vector + 1))
  <2>1. Whole!Wrap16(vector + 1) = vector + 1
    BY DEF Whole!Wrap16, Shift
  <2>. DEFINE next == vector + 1
  <2>. HIDE DEF next
  <2>2. Whole!Get(p, vector) = At(p, vector) /\ Whole!Get(p, next) = At(p, next)
    BY WholeMemory, Zenon
  <2>3. Whole!word(p, vector) = Whole!Get(p, vector) + 256 * Whole!Get(p, next)
    BY <2>1, Zenon DEF Whole!word, Whole!WordOf, next
  <2>. QED BY <1>7, <2>2, <2>3, Zenon DEF Paged, next
<1>. HIDE DEF to
<1>9. [s EXCEPT !.pc = to] = [p EXCEPT !.i = TRUE, !.pc = to]
  BY <1>2
<1>. QED BY <1>5, <1>8, <1>9 DEF s

LEMMA Enterings ==
  ASSUME NEW c, NEW b
  PROVE  /\ c.current_cycle \in {2, 3} => (Entered(c, b) <=> Visible(c) = b)
         /\ c.current_cycle = 4 => (Entered(c, b) <=> Visible(c) = PushedHigh(b))
         /\ c.current_cycle = 5 => (Entered(c, b) <=> Visible(c) = Pushed(b))
         /\ c.current_cycle = 6 => (Entered(c, b) <=> Visible(c) = Saved(b))
         /\ c.current_cycle = 7 =>
              (Entered(c, b) <=> Visible(c) = Saved(b) /\ c.low_byte = At(Saved(b), Vector(c)))
BY DEF Entered

LEMMA VectorSame ==
  ASSUME NEW c, NEW d, d.latched_nmi = c.latched_nmi, d.hardware_interrupt = c.hardware_interrupt
  PROVE  Vector(d) = Vector(c)
BY Zenon DEF Vector, ByBrk

LEMMA PushStatusStep ==
  ASSUME NEW c, DOMAIN c = Fields, NEW b, DOMAIN b = Registers, Visible(c) = Pushed(b),
         c.hardware_interrupt # None
  PROVE  Visible(PushStatus(c)) = Saved(b)
<1>. DEFINE v == StatusByte(c, FALSE)
            d == Push(c, v)
            w == Whole!value(b, FALSE)
<1>1. PushStatus(c) = [d EXCEPT !.i = TRUE]
  BY DEF PushStatus, ByBrk
<1>2. v = w
  <2>1. v = Whole!value(Visible(c), FALSE)
    BY SeenStatus
  <2>. QED BY <2>1, PushedIs, Zenon
<1>. HIDE DEF v
<1>3. Visible(d) = Whole!push_byte(Visible(c), v) /\ DOMAIN d = Fields
  BY SeenPush, PushKeeps
<1>. HIDE DEF d
<1>4. Visible([d EXCEPT !.i = TRUE]) = [Visible(d) EXCEPT !.i = TRUE]
  BY <1>3 DEF Visible, Fields, Registers, New
<1>5. Saved(b) = [Visible(d) EXCEPT !.i = TRUE]
  BY <1>2, <1>3, Zenon DEF Saved
<1>. QED BY <1>1, <1>4, <1>5

LEMMA VectorLowStep ==
  ASSUME NEW c, DOMAIN c = Fields
  PROVE  /\ Visible(VectorLow(c)) = Visible(c)
         /\ VectorLow(c).low_byte = At(Visible(c), Vector(c))
         /\ VectorLow(c).latched_nmi = c.latched_nmi
<1>. DEFINE at == Vector(c)
            v == At(c, at)
            d == Reading(c, at)
<1>1. VectorLow(c) = [d EXCEPT !.low_byte = v]
  BY DEF VectorLow
<1>2. v = At(Visible(c), at)
  BY SeenFields, Zenon DEF At
<1>3. DOMAIN d = Fields /\ Visible(d) = Visible(c)
  BY ReadingIs
<1>5. d.latched_nmi = c.latched_nmi
  BY DEF Reading, Fields, New
<1>. HIDE DEF at, v, d
<1>4. Visible([d EXCEPT !.low_byte = v]) = Visible(d) /\ [d EXCEPT !.low_byte = v].low_byte = v
      /\ [d EXCEPT !.low_byte = v].latched_nmi = d.latched_nmi
  BY <1>3 DEF Visible, Fields, Registers, New
<1>. QED BY <1>1, <1>2, <1>3, <1>4, <1>5 DEF at

LEMMA VectorHighStep ==
  ASSUME NEW c, DOMAIN c = Fields
  PROVE  Visible(VectorHigh(c)) = [Visible(c) EXCEPT !.pc = Paged(c.low_byte, At(Visible(c), Vector(c) + 1))]
<1>. DEFINE at == Vector(c) + 1
            to == Paged(c.low_byte, At(c, at))
            d == Reading(c, at)
            e == [[[d EXCEPT !.pc = to] EXCEPT !.latched_nmi = FALSE]
                    EXCEPT !.hardware_interrupt = None]
<1>1. At(c, at) = At(Visible(c), at)
  BY SeenFields, Zenon DEF At
<1>2. DOMAIN d = Fields /\ Visible(d) = Visible(c)
  BY ReadingIs
<1>3. VectorHigh(c) = [e EXCEPT !.finished = TRUE]
  BY DEF VectorHigh, Done
<1>4. Visible(c).pc = c.pc /\ to = Paged(c.low_byte, At(Visible(c), at))
  BY <1>1, SeenFields
<1>. HIDE DEF at, to, d
<1>5. Visible([e EXCEPT !.finished = TRUE]) = [Visible(d) EXCEPT !.pc = to]
  BY <1>2 DEF Visible, Fields, Registers, New
<1>. HIDE DEF e
<1>. QED BY <1>2, <1>3, <1>4, <1>5, Zenon DEF at

(* A step of an interrupt's sequence.                                       *)
LEMMA EnteredOn ==
  ASSUME NEW c, Typed(c), NEW b, DOMAIN b = Registers, Entered(c, b), c.hardware_interrupt # None,
         NEW k \in 1 .. 5, k = c.current_cycle - 1, NEW p, p = Perform(InterruptSteps[k], c),
         Typed(p), p.current_cycle = c.current_cycle, p.hardware_interrupt = c.hardware_interrupt
  PROVE  Entered(EndTick(p), b)
<1>. DEFINE e == EndTick(p)
<1>1. /\ Visible(e) = Visible(p) /\ SameScratch(p, e)
      /\ e.hardware_interrupt = p.hardware_interrupt /\ e.current_cycle = c.current_cycle + 1
      /\ e.latched_nmi = p.latched_nmi
  <2>1. "latched_nmi" \in Fields \ {"current_cycle", "instruction_cycles"}
    BY DEF Fields, New
  <2>. QED BY <2>1, EndTickSeen, EndTickIs, Apart
<1>2. e.low_byte = p.low_byte
  BY <1>1 DEF SameScratch
<1>. HIDE DEF e
<1>3. DOMAIN c = Fields /\ c.current_cycle \in Nat
  BY Types DEF Typed
<1>4. /\ InterruptSteps[1] = "padding" /\ InterruptSteps[2] = "push pch"
      /\ InterruptSteps[3] = "push pcl" /\ InterruptSteps[4] = "push p"
      /\ InterruptSteps[5] = "vector low"
  BY DEF InterruptSteps
<1>5. CASE k = 1
  <2>1. p = Padding(c)
    BY <1>4, <1>5, Performs, Zenon
  <2>2. p = Reading(c, c.pc)
    BY <2>1, Zenon DEF Padding, Discard, ByBrk
  <2>3. Visible(p) = Visible(c)
    BY <1>3, <2>2, ReadingIs
  <2>4. c.current_cycle = 2 /\ e.current_cycle = 3
    BY <1>1, <1>3, <1>5
  <2>. QED BY <1>1, <2>3, <2>4, Enterings DEF e
<1>6. CASE k = 2
  <2>1. p = PushPch(c)
    BY <1>4, <1>6, Performs, Zenon
  <2>2. c.current_cycle = 3 /\ e.current_cycle = 4
    BY <1>1, <1>3, <1>6
  <2>3. Visible(c) = b
    BY <2>2, Enterings
  <2>4. Visible(p) = PushedHigh(b)
    BY <1>3, <2>1, <2>3, PushHighStep
  <2>. QED BY <1>1, <2>2, <2>4, Enterings DEF e
<1>7. CASE k = 3
  <2>1. p = PushPcl(c)
    BY <1>4, <1>7, Performs, Zenon
  <2>2. c.current_cycle = 4 /\ e.current_cycle = 5
    BY <1>1, <1>3, <1>7
  <2>3. Visible(c) = PushedHigh(b)
    BY <2>2, Enterings
  <2>4. Visible(p) = Pushed(b)
    BY <1>3, <2>1, <2>3, PushLowStep
  <2>. QED BY <1>1, <2>2, <2>4, Enterings DEF e
<1>8. CASE k = 4
  <2>1. p = PushStatus(c)
    BY <1>4, <1>8, Performs, Zenon
  <2>2. c.current_cycle = 5 /\ e.current_cycle = 6
    BY <1>1, <1>3, <1>8
  <2>3. Visible(c) = Pushed(b)
    BY <2>2, Enterings
  <2>4. Visible(p) = Saved(b)
    BY <1>3, <2>1, <2>3, PushStatusStep
  <2>. QED BY <1>1, <2>2, <2>4, Enterings DEF e
<1>9. CASE k = 5
  <2>1. p = VectorLow(c)
    BY <1>4, <1>9, Performs, Zenon
  <2>2. c.current_cycle = 6 /\ e.current_cycle = 7
    BY <1>1, <1>3, <1>9
  <2>3. Visible(c) = Saved(b)
    BY <2>2, Enterings
  <2>4. Visible(p) = Saved(b) /\ p.low_byte = At(Saved(b), Vector(c))
        /\ p.latched_nmi = c.latched_nmi
    BY <1>3, <2>1, <2>3, VectorLowStep
  <2>5. Vector(e) = Vector(c)
    BY <1>1, <2>4, VectorSame
  <2>6. Visible(e) = Saved(b) /\ e.low_byte = At(Saved(b), Vector(e))
    BY <1>1, <1>2, <2>4, <2>5, Zenon
  <2>. QED BY <2>2, <2>6, Enterings DEF e
<1>. QED BY <1>5, <1>6, <1>7, <1>8, <1>9

LEMMA VectorNext ==
  ASSUME NEW c, Typed(c)
  PROVE  Shift(Vector(c), 1) = Vector(c) + 1
<1>1. Vector(c) = 65530 \/ Vector(c) = 65534
  BY VectorWord
<1>. QED BY <1>1 DEF Shift

LEMMA EnteredOver ==
  ASSUME NEW c, Typed(c), NEW b, DOMAIN b = Registers, Entered(c, b), c.current_cycle = 7
  PROVE  Visible(Perform("vector high", c)) = Whole!handle_interrupt(b, FALSE, Vector(c))
<1>. DEFINE at == Vector(c)
            s == Saved(b)
<1>1. DOMAIN c = Fields
  BY DEF Typed
<1>2. Visible(c) = s /\ c.low_byte = At(s, at)
  BY Enterings
<1>3. Visible(VectorHigh(c)) = [Visible(c) EXCEPT !.pc = Paged(c.low_byte, At(Visible(c), at + 1))]
  BY <1>1, VectorHighStep
<1>4. Shift(at, 1) = at + 1
  BY VectorNext
<1>. HIDE DEF at
<1>5. Whole!handle_interrupt(b, FALSE, at) = [s EXCEPT !.pc = Paged(At(s, at), At(s, at + 1))]
  BY <1>4, WholeInterrupt, Zenon
<1>6. Visible(VectorHigh(c)) = Whole!handle_interrupt(b, FALSE, at)
  BY <1>2, <1>3, <1>5, Zenon
<1>. QED BY <1>6, Performs, Zenon DEF at

-----------------------------------------------------------------------------
(* Every tick follows the older processor                                   *)

(* Between two ticks, the instruction or the interrupt in progress has come *)
(* as far as its cycle says.                                                *)
Tracked(c, b) == IF c.hardware_interrupt = None THEN Follows(c, b) ELSE Entered(c, b)

(* What the last tick has to leave, if the two processors agree on it.      *)
Completed(c, d, b) ==
  /\ c.hardware_interrupt # None => Visible(d) = Whole!handle_interrupt(b, FALSE, Vector(c))
  /\ c.hardware_interrupt = None =>
       /\ Op(d) = Op(c)
       /\ Op(c) \notin Disputed /\ (Op(c) \in Decimal => ~c.d) /\ (Op(c) = "JSR" => ~Overlaps(b))
            => Visible(d) = Whole!next_instruction(b)

LEMMA TrackedReady ==
  ASSUME NEW c, Typed(c), Midway(c), NEW b, Tracked(c, b), NEW arrives \in BOOLEAN,
         arrives => c.current_cycle \in 2 .. 5,
         NEW r, r = [c EXCEPT !.bus = <<>>, !.latched_nmi = @ \/ arrives]
  PROVE  /\ Tracked(r, b) /\ Visible(r) = Visible(c)
         /\ c.current_cycle \in {6, 7} => Vector(r) = Vector(c)
<1>1. /\ Typed(r) /\ r.bus = <<>>
      /\ \A f \in Fields \ {"bus", "latched_nmi"} : r[f] = c[f]
  <2>. DEFINE q == [c EXCEPT !.bus = <<>>, !.latched_nmi = @ \/ arrives]
  <2>1. Typed(q) /\ q.bus = <<>> /\ \A f \in Fields \ {"bus", "latched_nmi"} : q[f] = c[f]
    BY Readied
  <2>2. r = q
    OBVIOUS
  <2>. HIDE DEF q
  <2>. QED BY <2>1, <2>2, Zenon
<1>2. /\ r.current_opcode = c.current_opcode /\ r.hardware_interrupt = c.hardware_interrupt
      /\ r.current_cycle = c.current_cycle
  BY <1>1, Apart
<1>3. Visible(r) = Visible(c) /\ SameScratch(c, r)
  BY <1>1, Alike, SeenAlike
<1>4. r.latched_nmi = (c.latched_nmi \/ arrives) /\ c.latched_nmi \in BOOLEAN
  BY Types DEF Typed, Fields, New
<1>5. ASSUME c.current_cycle \in {6, 7} PROVE Vector(r) = Vector(c)
  <2>1. ~arrives
    BY <1>5
  <2>2. r.latched_nmi = c.latched_nmi
    BY <1>4, <2>1
  <2>. QED BY <1>2, <2>2, VectorSame
<1>6. CASE c.hardware_interrupt = None
  <2>1. Follows(c, b)
    BY <1>6 DEF Tracked
  <2>2. c.current_cycle - 1 \in 1 .. Len(Steps(c))
    BY DEF Midway
  <2>3. Follows(r, b)
    BY <1>2, <1>3, <2>1, <2>2, FollowsKept, Zenon
  <2>. QED BY <1>2, <1>3, <1>5, <1>6, <2>3 DEF Tracked
<1>7. CASE c.hardware_interrupt # None
  <2>1. Entered(c, b) /\ r.low_byte = c.low_byte
    BY <1>3, <1>7 DEF Tracked, SameScratch
  <2>2. Entered(r, b)
    BY <1>2, <1>3, <1>5, <2>1 DEF Entered
  <2>. QED BY <1>2, <1>3, <1>5, <1>7, <2>2 DEF Tracked
<1>. QED BY <1>6, <1>7

LEMMA TrackedOn ==
  ASSUME NEW c, Typed(c), ~c.finished, Midway(c), NEW b, SeenTyped(b), Tracked(c, b),
         NEW arrives \in BOOLEAN, arrives => c.current_cycle \in 2 .. 5
  PROVE  LET d == EndTick(Perform(Steps(c)[c.current_cycle - 1],
                                  [c EXCEPT !.bus = <<>>, !.latched_nmi = @ \/ arrives]))
         IN IF d.finished THEN Completed(c, d, b) ELSE Tracked(d, b)
<1>. DEFINE r == [c EXCEPT !.bus = <<>>, !.latched_nmi = @ \/ arrives]
            s == Steps(c)
            k == c.current_cycle - 1
            p == Perform(s[k], r)
            d == EndTick(p)
<1>1. /\ Typed(r) /\ r.bus = <<>>
      /\ \A f \in Fields \ {"bus", "latched_nmi"} : r[f] = c[f]
  BY Readied
<1>2. k \in 1 .. Len(s) /\ (c.no_increment => s[k] = "fix pc" /\ ~c.page_crossed)
      /\ (s[k] = "unfixed" => c.pointer \in Byte)
  BY DEF Midway
<1>3. /\ r.current_opcode = c.current_opcode /\ r.hardware_interrupt = c.hardware_interrupt
      /\ r.no_increment = c.no_increment /\ r.page_crossed = c.page_crossed
      /\ r.pointer = c.pointer /\ r.finished = c.finished /\ r.current_cycle = c.current_cycle
  BY <1>1, Apart
<1>4. Steps(r) = s /\ Op(r) = Op(c)
  BY <1>3, SameSteps DEF Op
<1>5. c.current_cycle \in Nat /\ k \in Int /\ DOMAIN b = Registers
  BY Types DEF SeenTyped
<1>6. /\ Tracked(r, b) /\ Visible(r) = Visible(c)
      /\ c.current_cycle \in {6, 7} => Vector(r) = Vector(c)
  BY TrackedReady
<1>7. r.d = c.d
  BY <1>1 DEF Fields, Registers, New
<1>. HIDE DEF r, s
<1>8. s # <<>>
  <2>1. SUFFICES ASSUME s = <<>> PROVE FALSE
    OBVIOUS
  <2>2. Len(s) = 0
    BY <2>1
  <2>. HIDE DEF k
  <2>3. k \in 1 .. 0
    BY <1>2, <2>2, Zenon
  <2>. QED BY <2>3
<1>9. PICK length \in 1 .. 7 : Chained(s, length) /\ LastFor(r, s[length])
  BY <1>1, <1>4, <1>8, StepsOf, LastOf
<1>10. Len(s) = length
  BY <1>9 DEF Chained
<1>11. k \in 1 .. length /\ k = r.current_cycle - 1
  BY <1>2, <1>3, <1>10
<1>12. c.hardware_interrupt # None => s = InterruptSteps /\ Len(s) = 6 /\ s[6] = "vector high"
  <2>1. EndsIn(InterruptSteps, 6, "vector high")
    BY SequencesAre
  <2>2. c.hardware_interrupt # None => s = InterruptSteps
    BY Zenon DEF s, Steps
  <2>. QED BY <2>1, <2>2 DEF EndsIn, Chained
<1>. HIDE DEF k
<1>13. CASE k = length
  <2>1. Over(r, p)
    BY <1>1, <1>2, <1>3, <1>9, <1>13, LastStep
  <2>2. Typed(p) /\ p.finished /\ p.current_opcode = c.current_opcode
    BY <1>3, <2>1 DEF Over
  <2>. HIDE DEF p
  <2>3. Typed(d) /\ d.finished /\ d.current_opcode = c.current_opcode /\ Visible(d) = Visible(p)
    BY <2>2, EndTickIs, EndTickSeen, Apart
  <2>4. Op(d) = Op(c)
    BY <2>3 DEF Op
  <2>. HIDE DEF d
  <2>5. CASE c.hardware_interrupt # None
    <3>1. k = 6 /\ s[k] = "vector high"
      BY <1>10, <1>12, <1>13, <2>5
    <3>2. c.current_cycle = 7
      <4>1. r.current_cycle - 1 = 6 /\ r.current_cycle \in Nat
        BY <1>3, <1>5, <1>11, <3>1, Zenon
      <4>. QED BY <1>3, <4>1
    <3>3. Entered(r, b)
      BY <1>3, <1>6, <2>5 DEF Tracked
    <3>4. Visible(Perform("vector high", r)) = Whole!handle_interrupt(b, FALSE, Vector(r))
      BY <1>1, <1>3, <1>5, <3>2, <3>3, EnteredOver
    <3>5. Visible(d) = Whole!handle_interrupt(b, FALSE, Vector(c))
      <4>1. p = Perform("vector high", r)
        BY <3>1, Zenon DEF p
      <4>2. Vector(r) = Vector(c)
        BY <1>6, <3>2
      <4>. QED BY <2>3, <3>4, <4>1, <4>2, Zenon
    <3>6. Completed(c, d, b)
      BY <2>5, <3>5, Zenon DEF Completed
    <3>. QED BY <2>3, <3>6, Zenon DEF d, p, k, s, r
  <2>6. CASE c.hardware_interrupt = None
    <3>1. Follows(r, b)
      BY <1>3, <1>6, <2>6, Zenon DEF Tracked
    <3>2. ASSUME Op(c) \notin Disputed, Op(c) \in Decimal => ~c.d, Op(c) = "JSR" => ~Overlaps(b)
          PROVE  Visible(d) = Whole!next_instruction(b)
      <4>1. Op(r) \notin Disputed /\ (Op(r) \in Decimal => ~r.d) /\ (Op(r) = "JSR" => ~Overlaps(b))
        BY <1>4, <1>7, <3>2
      <4>2. k = Len(Steps(r))
        BY <1>4, <1>10, <1>13
      <4>3. Visible(Perform(Steps(r)[k], r)) = Whole!next_instruction(b)
        BY <1>1, <1>11, <3>1, <4>1, <4>2, FollowsOver, Zenon
      <4>. QED BY <1>4, <2>3, <4>3, Zenon DEF p
    <3>3. Completed(c, d, b)
      BY <2>4, <2>6, <3>2, Zenon DEF Completed
    <3>. QED BY <2>3, <3>3, Zenon DEF d, p, k, s, r
  <2>. QED BY <2>5, <2>6, Zenon
<1>14. CASE k # length
  <2>1. Branched(r, p)
    BY <1>1, <1>2, <1>3, <1>9, <1>11, <1>14, MiddleStep
  <2>. HIDE DEF p
  <2>2. /\ Typed(p) /\ p.current_cycle = r.current_cycle /\ p.current_opcode = r.current_opcode
        /\ p.hardware_interrupt = r.hardware_interrupt /\ p.finished = r.finished
    BY <2>1, Apart DEF Branched
  <2>3. d.finished = p.finished /\ d.hardware_interrupt = p.hardware_interrupt
    BY <2>2, EndTickIs, Apart
  <2>4. k # Len(s)
    BY <1>10, <1>14
  <2>. HIDE DEF d
  <2>5. CASE c.hardware_interrupt # None
    <3>1. k \in 1 .. 5 /\ p = Perform(InterruptSteps[k], r)
      <4>1. p = Perform(InterruptSteps[k], r)
        BY <1>12, <2>5, Zenon DEF p
      <4>2. length = 6
        BY <1>10, <1>12, <2>5
      <4>3. k \in 1 .. 6 /\ k # 6
        BY <1>11, <1>14, <4>2
      <4>. QED BY <4>1, <4>3
    <3>2. Entered(r, b)
      BY <1>3, <1>6, <2>5, Zenon DEF Tracked
    <3>3. r.hardware_interrupt # None
      BY <1>3, <2>5
    <3>4. Entered(EndTick(p), b)
      BY <1>1, <1>5, <1>11, <2>2, <3>1, <3>2, <3>3, EnteredOn, Zenon
    <3>5. Tracked(d, b) /\ ~d.finished
      BY <1>3, <2>2, <2>3, <2>5, <3>4, Zenon DEF Tracked, d
    <3>. QED BY <3>5, Zenon DEF d, p, k, s, r
  <2>6. CASE c.hardware_interrupt = None
    <3>1. Follows(r, b)
      BY <1>3, <1>6, <2>6, Zenon DEF Tracked
    <3>2. k \in 1 .. Len(Steps(r)) /\ k # Len(Steps(r)) /\ p = Perform(Steps(r)[k], r)
      BY <1>2, <1>4, <2>4, Zenon DEF p
    <3>3. Follows(EndTick(p), b)
      BY <1>1, <1>11, <2>2, <3>1, <3>2, FollowsOn, Zenon
    <3>4. Tracked(d, b) /\ ~d.finished
      BY <1>3, <2>2, <2>3, <2>6, <3>3, Zenon DEF Tracked, d
    <3>. QED BY <3>4, Zenon DEF d, p, k, s, r
  <2>. QED BY <2>5, <2>6, Zenon
<1>. QED BY <1>13, <1>14, Zenon

(* The first tick of an interrupt discards an opcode.                       *)
LEMMA InterruptEnters ==
  ASSUME NEW c, Typed(c), NEW line \in DOMAIN VectorAddress
  PROVE  LET d == EndTick([Discard(Begin(c)) EXCEPT !.hardware_interrupt = line,
                                                    !.current_opcode = 0,
                                                    !.dma_on_previous_cycle = FALSE])
         IN ~d.finished /\ d.hardware_interrupt = line /\ Tracked(d, Visible(c))
<1>. DEFINE b == Begin(c)
            g == Discard(b)
            h == [g EXCEPT !.hardware_interrupt = line]
            i == [h EXCEPT !.current_opcode = 0]
            e == [i EXCEPT !.dma_on_previous_cycle = FALSE]
            d == EndTick(e)
            r == Visible(c)
<1>1. Typed(b) /\ b.bus = <<>> /\ b.current_cycle = 1 /\ ~b.no_increment /\ ~b.finished
  BY BeginIs
<1>2. Visible(b) = r
  BY BeginSeen
<1>. HIDE DEF b, r
<1>3. Typed(g) /\ \A f \in Books : g[f] = b[f]
  BY <1>1, PlainSteps DEF Accessed
<1>4. Visible(g) = r
  <2>1. DOMAIN b = Fields
    BY <1>1 DEF Typed
  <2>. QED BY <1>2, <2>1, ReadingIs DEF Discard
<1>. HIDE DEF g
<1>5. Typed(h)
  BY <1>3, Update, KindOf
<1>6. 0 \in Byte
  BY ByteIs
<1>7. Typed(i)
  <2>. HIDE DEF h
  <2>. QED BY <1>5, <1>6, Update, KindOf
<1>8. Typed(e)
  <2>. HIDE DEF i
  <2>. QED BY <1>7, Update, KindOf
<1>9. /\ DOMAIN g = Fields /\ "hardware_interrupt" \in Fields
      /\ {"current_cycle", "finished"} \subseteq Books
      /\ {"current_cycle", "finished"} \union Registers
            \subseteq Fields \ {"current_opcode", "dma_on_previous_cycle", "hardware_interrupt"}
  BY <1>3 DEF Typed, Books, Fields, Registers, New
<1>10. /\ e.hardware_interrupt = line
       /\ \A f \in Fields \ {"current_opcode", "dma_on_previous_cycle", "hardware_interrupt"} :
            e[f] = g[f]
  BY <1>9
<1>11. [g EXCEPT !.hardware_interrupt = line, !.current_opcode = 0,
                 !.dma_on_previous_cycle = FALSE] = e
  BY <1>9
<1>. HIDE DEF e
<1>12. e.current_cycle = 1 /\ ~e.finished
  BY <1>1, <1>3, <1>9, <1>10
<1>13. Visible(e) = r
  BY <1>4, <1>9, <1>10 DEF Visible
<1>14. /\ d.finished = e.finished /\ d.hardware_interrupt = e.hardware_interrupt
       /\ d.current_cycle = e.current_cycle + 1
  BY <1>8, EndTickIs, Apart
<1>15. Visible(d) = r
  BY <1>8, <1>13, EndTickSeen
<1>. HIDE DEF d
<1>16. d.current_cycle \in {2, 3}
  BY <1>12, <1>14
<1>17. Entered(d, r)
  BY <1>15, <1>16 DEF Entered
<1>18. line # None
  BY DEF VectorAddress, None
<1>19. ~d.finished /\ d.hardware_interrupt = line /\ Tracked(d, r)
  BY <1>10, <1>12, <1>14, <1>17, <1>18, Zenon DEF Tracked
<1>. QED BY <1>11, <1>19, Zenon DEF d, g, b, r

(* A DMA's cycle leaves the instruction where it was.                       *)
LEMMA DmaTracks ==
  ASSUME NEW c, Typed(c), NEW b
  PROVE  LET d == [c EXCEPT !.dma_on_previous_cycle = TRUE, !.bus = <<>>]
         IN /\ Visible(d) = Visible(c) /\ d.finished = c.finished
            /\ Midway(c) /\ Tracked(c, b) => Tracked(d, b)
<1>. DEFINE d == [c EXCEPT !.dma_on_previous_cycle = TRUE, !.bus = <<>>]
<1>1. DOMAIN c = Fields
  BY DEF Typed
<1>2. \A f \in Fields \ {"dma_on_previous_cycle", "bus"} : d[f] = c[f]
  BY <1>1
<1>. HIDE DEF d
<1>3. /\ {"current_cycle", "current_opcode", "finished", "hardware_interrupt", "latched_nmi"}
           \subseteq Fields \ {"dma_on_previous_cycle", "bus"}
      /\ Registers \union {"low_byte", "current_address", "pointer", "page_crossed",
                           "current_value"} \subseteq Fields \ {"dma_on_previous_cycle", "bus"}
  BY DEF Fields, Registers, New
<1>4. /\ d.current_cycle = c.current_cycle /\ d.current_opcode = c.current_opcode
      /\ d.finished = c.finished /\ d.hardware_interrupt = c.hardware_interrupt
      /\ d.latched_nmi = c.latched_nmi
  BY <1>2, <1>3
<1>5. Visible(d) = Visible(c) /\ SameScratch(c, d)
  BY <1>2, <1>3, SeenAlike
<1>6. ASSUME Midway(c), Tracked(c, b) PROVE Tracked(d, b)
  <2>1. CASE c.hardware_interrupt = None
    <3>1. Follows(c, b)
      BY <1>6, <2>1 DEF Tracked
    <3>2. c.current_cycle - 1 \in 1 .. Len(Steps(c))
      BY <1>6 DEF Midway
    <3>3. Follows(d, b)
      BY <1>4, <1>5, <3>1, <3>2, FollowsKept, Zenon
    <3>. QED BY <1>4, <2>1, <3>3 DEF Tracked
  <2>2. CASE c.hardware_interrupt # None
    <3>1. Entered(c, b) /\ d.low_byte = c.low_byte /\ Vector(d) = Vector(c)
      BY <1>4, <1>5, <1>6, <2>2, VectorSame DEF Tracked, SameScratch
    <3>2. Entered(d, b)
      BY <1>4, <1>5, <3>1 DEF Entered
    <3>. QED BY <1>4, <2>2, <3>2 DEF Tracked
  <2>. QED BY <2>1, <2>2
<1>. QED BY <1>4, <1>5, <1>6, Zenon DEF d

LEMMA RestoreSeen ==
  ASSUME NEW c, Typed(c),
         NEW d, d = [field \in DOMAIN c |->
                       IF field \in {"bus", "low_byte", "pointer", "base_high",
                                     "hardware_interrupt", "latched_nmi",
                                     "dma_on_previous_cycle", "no_increment"}
                       THEN New[field] ELSE c[field]]
  PROVE  Visible(d) = Visible(c) /\ d.finished = c.finished
<1>. DEFINE cleared == {"bus", "low_byte", "pointer", "base_high", "hardware_interrupt",
                        "latched_nmi", "dma_on_previous_cycle", "no_increment"}
<1>1. DOMAIN c = Fields
  BY DEF Typed
<1>2. \A f \in Fields \ cleared : d[f] = c[f]
  BY <1>1
<1>3. Registers \union {"finished"} \subseteq Fields \ cleared
  BY DEF Fields, Registers, New
<1>. HIDE DEF cleared
<1>4. \A f \in Registers : d[f] = c[f]
  BY <1>2, <1>3
<1>5. d.finished = c.finished
  BY <1>2, <1>3
<1>. QED BY <1>4, <1>5 DEF Visible

-----------------------------------------------------------------------------
(* The refinement                                                           *)

LEMMA WholeInterruptStep ==
  ASSUME NEW vector
  PROVE  Whole!Interrupt(vector) <=>
           (IF cpu2'.finished THEN Visible(cpu2') ELSE before')
             = Whole!handle_interrupt(IF cpu2.finished THEN Visible(cpu2) ELSE before,
                                      FALSE, vector)
BY Zenon DEF Whole!Interrupt

LEMMA StartFinished ==
  ASSUME Cpu2Init
  PROVE  cpu2.finished
<1>1. PICK start \in Start :
        cpu2 = [field \in Registers \union DOMAIN New |->
                  IF field \in Registers THEN start.state[field] ELSE New[field]]
  BY DEF Cpu2Init
<1>2. "finished" \in DOMAIN New /\ "finished" \notin Registers /\ New.finished = TRUE
  BY DEF New, Registers
<1>. QED BY <1>1, <1>2

(* The history: the state the instruction in progress started from, and how *)
(* far the instruction has come from it.                                    *)
Tracking ==
  /\ Sound(cpu2)
  /\ SeenTyped(before)
  /\ ~cpu2.finished => Tracked(cpu2, before)

(* What a step may do to the history: nothing, or what the last tick of an  *)
(* instruction does.                                                        *)
Advances ==
  \/ (IF cpu2'.finished THEN Visible(cpu2') ELSE before')
       = (IF cpu2.finished THEN Visible(cpu2) ELSE before)
  \/ cpu2.finished /\ cpu2.hardware_interrupt = None /\ Op(cpu2') \in Disputed
  \/ ~cpu2.finished /\ cpu2'.finished /\ Completed(cpu2, cpu2', before)

LEMMA EveryTracking ==
  ASSUME Tracking, MCCpu2Next
  PROVE  Tracking' /\ Advances
<1>0. /\ Typed(cpu2) /\ Sound(cpu2) /\ SeenTyped(before)
      /\ cpu2.finished => cpu2.hardware_interrupt = None
      /\ ~cpu2.finished => Tracked(cpu2, before) /\ Midway(cpu2)
      /\ cpu2.finished \in BOOLEAN
  BY Types DEF Tracking, Sound
<1>1. Cpu2Next /\ before' = IF cpu2.finished THEN Visible(cpu2) ELSE before
  BY DEF MCCpu2Next
<1>2. Sound(cpu2')
  BY <1>0, <1>1, EveryStep
<1>3. SeenTyped(before')
  <2>1. SeenTyped(Visible(cpu2))
    BY <1>0, SeenTypes
  <2>. QED BY <1>0, <1>1, <2>1
<1>4. SUFFICES /\ ~cpu2'.finished => Tracked(cpu2', before')
               /\ Advances
  BY <1>2, <1>3 DEF Tracking
<1>5. CASE Fetch
  <2>1. cpu2.finished /\ cpu2.hardware_interrupt = None /\ before' = Visible(cpu2)
    BY <1>0, <1>1, <1>5 DEF Fetch
  <2>2. cpu2' = EndTick(FetchOpcode(Begin(cpu2)))
    BY <1>5 DEF Fetch
  <2>3. IF cpu2'.finished THEN Op(cpu2') \in Disputed
        ELSE cpu2'.hardware_interrupt = None /\ Follows(cpu2', before')
    BY <1>0, <2>1, <2>2, FetchFollows, Zenon
  <2>. QED BY <2>1, <2>3, Zenon DEF Tracked, Advances
<1>6. ASSUME NEW line \in DOMAIN VectorAddress, TakeInterrupt(line)
      PROVE  (~cpu2'.finished => Tracked(cpu2', before')) /\ Advances
  <2>1. cpu2.finished /\ before' = Visible(cpu2)
    BY <1>1, <1>6 DEF TakeInterrupt
  <2>2. cpu2' = EndTick([Discard(Begin(cpu2)) EXCEPT !.hardware_interrupt = line,
                                                     !.current_opcode = 0,
                                                     !.dma_on_previous_cycle = FALSE])
    BY <1>6, Zenon DEF TakeInterrupt
  <2>3. ~cpu2'.finished /\ Tracked(cpu2', before')
    BY <1>0, <2>1, <2>2, InterruptEnters, Zenon
  <2>. QED BY <2>1, <2>3, Zenon DEF Advances
<1>7. ASSUME NEW arrives \in BOOLEAN, Continue(arrives)
      PROVE  (~cpu2'.finished => Tracked(cpu2', before')) /\ Advances
  <2>1. /\ ~cpu2.finished /\ before' = before /\ Midway(cpu2) /\ Tracked(cpu2, before)
        /\ arrives => cpu2.current_cycle \in 2 .. 5
    BY <1>0, <1>1, <1>7 DEF Continue, MayBeHijacked
  <2>2. cpu2' = EndTick(Perform(Steps(cpu2)[cpu2.current_cycle - 1],
                                [cpu2 EXCEPT !.bus = <<>>, !.latched_nmi = @ \/ arrives]))
    BY <1>7, Zenon DEF Continue
  <2>3. IF cpu2'.finished THEN Completed(cpu2, cpu2', before) ELSE Tracked(cpu2', before)
    BY <1>0, <2>1, <2>2, TrackedOn, Zenon
  <2>. QED BY <2>1, <2>3, Zenon DEF Advances
<1>8. CASE DmaCycle
  <2>1. /\ Visible(cpu2') = Visible(cpu2) /\ cpu2'.finished = cpu2.finished
        /\ Midway(cpu2) /\ Tracked(cpu2, before) => Tracked(cpu2', before)
    <3>1. cpu2' = [cpu2 EXCEPT !.dma_on_previous_cycle = TRUE, !.bus = <<>>]
      BY <1>8, Zenon DEF DmaCycle
    <3>. QED BY <1>0, <3>1, DmaTracks, Zenon
  <2>. QED BY <1>0, <1>1, <2>1, Zenon DEF Advances
<1>9. CASE SaveRestore
  <2>1. cpu2.finished
    BY <1>9 DEF SaveRestore
  <2>2. Visible(cpu2') = Visible(cpu2) /\ cpu2'.finished = cpu2.finished
    <3>1. cpu2' = [field \in DOMAIN cpu2 |->
                     IF field \in {"bus", "low_byte", "pointer", "base_high",
                                   "hardware_interrupt", "latched_nmi",
                                   "dma_on_previous_cycle", "no_increment"}
                     THEN New[field] ELSE cpu2[field]]
      BY <1>9, Zenon DEF SaveRestore
    <3>. QED BY <1>0, <3>1, RestoreSeen
  <2>. QED BY <2>1, <2>2, Zenon DEF Advances
<1>. QED BY <1>1, <1>5, <1>6, <1>7, <1>8, <1>9, Zenon DEF Cpu2Next

LEMMA AdvancesImplements ==
  ASSUME Tracking, Advances
  PROVE  [Agreed => IF cpu2.hardware_interrupt # None THEN Whole!Interrupt(Vector(cpu2))
                    ELSE Whole!Instruction]_(IF cpu2.finished THEN Visible(cpu2) ELSE before)
<1>1. CASE (IF cpu2'.finished THEN Visible(cpu2') ELSE before')
             = (IF cpu2.finished THEN Visible(cpu2) ELSE before)
  BY <1>1
<1>2. CASE cpu2.finished /\ cpu2.hardware_interrupt = None /\ Op(cpu2') \in Disputed
  BY <1>2, Zenon DEF Agreed
<1>3. CASE ~cpu2.finished /\ cpu2'.finished /\ Completed(cpu2, cpu2', before)
  <2>1. ASSUME cpu2.hardware_interrupt # None
        PROVE  Whole!Interrupt(Vector(cpu2))
    <3>1. Visible(cpu2') = Whole!handle_interrupt(before, FALSE, Vector(cpu2))
      BY <1>3, <2>1, Zenon DEF Completed
    <3>. QED BY <1>3, <3>1, WholeInterruptStep
  <2>2. ASSUME cpu2.hardware_interrupt = None, Agreed
        PROVE  Whole!Instruction
    <3>1. /\ Op(cpu2') \notin Disputed /\ (Op(cpu2') \in Decimal => ~cpu2.d)
          /\ (Op(cpu2') = "JSR" => ~Overlaps(before))
      BY <2>2, Zenon DEF Agreed, OverItself, Overlaps
    <3>2. Visible(cpu2') = Whole!next_instruction(before)
      BY <1>3, <2>2, <3>1, Zenon DEF Completed
    <3>. QED BY <1>3, <3>2, WholeStep
  <2>. QED BY <2>1, <2>2, Zenon
<1>. QED BY <1>1, <1>2, <1>3 DEF Advances

(* Cycle by cycle, Cpu2 carries out the instructions and interrupts of the  *)
(* older processor, for every opcode, operand and memory, from any state    *)
(* and whatever interrupts come: what ImplementsCpu says of those the two   *)
(* agree on.                                                                *)
THEOREM Cpu2ImplementsCpu == MCCpu2Spec => ImplementsCpu
<1>1. MCCpu2Init => Tracking
  <2>1. SUFFICES ASSUME MCCpu2Init PROVE Tracking
    OBVIOUS
  <2>2. Sound(cpu2) /\ before = Visible(cpu2)
    BY <2>1, StartSound DEF MCCpu2Init
  <2>3. SeenTyped(before)
    BY <2>2, SeenTypes DEF Sound
  <2>4. cpu2.finished
    BY <2>1, StartFinished DEF MCCpu2Init
  <2>. QED BY <2>2, <2>3, <2>4 DEF Tracking
<1>2. Tracking /\ [MCCpu2Next]_MCCpu2vars => Tracking'
  BY EveryTracking DEF Tracking, MCCpu2vars, Cpu2vars
<1>3. Tracking /\ [MCCpu2Next]_MCCpu2vars
        => [Agreed => IF cpu2.hardware_interrupt # None THEN Whole!Interrupt(Vector(cpu2))
                      ELSE Whole!Instruction]_(IF cpu2.finished THEN Visible(cpu2) ELSE before)
  <2>1. SUFFICES ASSUME Tracking, [MCCpu2Next]_MCCpu2vars PROVE Advances
    BY AdvancesImplements
  <2>2. CASE MCCpu2Next
    BY <2>1, <2>2, EveryTracking
  <2>3. CASE UNCHANGED MCCpu2vars
    BY <2>3 DEF MCCpu2vars, Cpu2vars, Advances
  <2>. QED BY <2>1, <2>2, <2>3
<1>. QED BY <1>1, <1>2, <1>3, PTL DEF MCCpu2Spec, ImplementsCpu
=============================================================================
