------------------------------ MODULE Operands ------------------------------
(* The instruction table OPERANDS_6502: for each opcode its mnemonic (that  *)
(* of its constant), its addressing mode and its cycles.                    *)
EXTENDS Integers, Sequences

Operands_00_3f ==
  << <<"BRK", "impl", 7>>, <<"ORA", "indx", 6>>, <<"JAM", "impl", 3>>, <<"SLO", "indx", 8>>,
     <<"NOP", "zp", 3>>, <<"ORA", "zp", 3>>, <<"ASL", "zp", 5>>, <<"SLO", "zp", 5>>,
     <<"PHP", "impl", 3>>, <<"ORA", "imm", 2>>, <<"ASL", "acc", 2>>, <<"ANC", "imm", 2>>,
     <<"NOP", "abs", 5>>, <<"ORA", "abs", 4>>, <<"ASL", "abs", 6>>, <<"SLO", "abs", 6>>,
     <<"BPL", "rel", 2>>, <<"ORA", "indy", 5>>, <<"JAM", "zpi", 3>>, <<"SLO", "indy", 8>>,
     <<"NOP", "zpx", 3>>, <<"ORA", "zpx", 4>>, <<"ASL", "zpx", 6>>, <<"SLO", "zpx", 6>>,
     <<"CLC", "impl", 2>>, <<"ORA", "absy", 4>>, <<"NOP", "impl", 1>>, <<"SLO", "absy", 7>>,
     <<"NOP", "absx", 5>>, <<"ORA", "absx", 4>>, <<"ASL", "absx", 7>>, <<"SLO", "absx", 7>>,
     <<"JSR", "abs", 6>>, <<"AND", "indx", 6>>, <<"JAM", "impl", 3>>, <<"RLA", "indx", 8>>,
     <<"BIT", "zp", 3>>, <<"AND", "zp", 3>>, <<"ROL", "zp", 5>>, <<"RLA", "zp", 5>>,
     <<"PLP", "impl", 4>>, <<"AND", "imm", 2>>, <<"ROL", "acc", 2>>, <<"ANC", "imm", 2>>,
     <<"BIT", "abs", 4>>, <<"AND", "abs", 4>>, <<"ROL", "abs", 6>>, <<"RLA", "abs", 6>>,
     <<"BMI", "rel", 2>>, <<"AND", "indy", 5>>, <<"JAM", "zpi", 3>>, <<"RLA", "indy", 8>>,
     <<"NOP", "zpx", 4>>, <<"AND", "zpx", 4>>, <<"ROL", "zpx", 6>>, <<"RLA", "zpx", 6>>,
     <<"SEC", "impl", 2>>, <<"AND", "absy", 4>>, <<"NOP", "impl", 1>>, <<"RLA", "absy", 7>>,
     <<"NOP", "absx", 5>>, <<"AND", "absx", 4>>, <<"ROL", "absx", 7>>, <<"RLA", "absx", 7>> >>

Operands_40_7f ==
  << <<"RTI", "impl", 6>>, <<"EOR", "indx", 6>>, <<"JAM", "impl", 3>>, <<"SRE", "indx", 8>>,
     <<"NOP", "zp", 3>>, <<"EOR", "zp", 3>>, <<"LSR", "zp", 5>>, <<"SRE", "zp", 5>>,
     <<"PHA", "impl", 3>>, <<"EOR", "imm", 2>>, <<"LSR", "acc", 2>>, <<"ALR", "imm", 2>>,
     <<"JMP", "abs", 3>>, <<"EOR", "abs", 4>>, <<"LSR", "abs", 6>>, <<"SRE", "abs", 6>>,
     <<"BVC", "rel", 2>>, <<"EOR", "indy", 5>>, <<"JAM", "zpi", 3>>, <<"SRE", "indy", 8>>,
     <<"NOP", "zpx", 4>>, <<"EOR", "zpx", 4>>, <<"LSR", "zpx", 6>>, <<"SRE", "zpx", 6>>,
     <<"CLI", "impl", 2>>, <<"EOR", "absy", 4>>, <<"NOP", "impl", 1>>, <<"SRE", "absy", 7>>,
     <<"NOP", "absx", 5>>, <<"EOR", "absx", 4>>, <<"LSR", "absx", 7>>, <<"SRE", "absx", 7>>,
     <<"RTS", "impl", 6>>, <<"ADC", "indx", 6>>, <<"JAM", "impl", 3>>, <<"RRA", "indx", 8>>,
     <<"NOP", "zp", 3>>, <<"ADC", "zp", 3>>, <<"ROR", "zp", 5>>, <<"RRA", "zp", 5>>,
     <<"PLA", "impl", 4>>, <<"ADC", "imm", 2>>, <<"ROR", "acc", 2>>, <<"ARR", "imm", 2>>,
     <<"JMP", "ind", 5>>, <<"ADC", "abs", 4>>, <<"ROR", "abs", 6>>, <<"RRA", "abs", 6>>,
     <<"BVS", "rel", 2>>, <<"ADC", "indy", 5>>, <<"JAM", "zpi", 3>>, <<"RRA", "indy", 8>>,
     <<"NOP", "zpx", 4>>, <<"ADC", "zpx", 4>>, <<"ROR", "zpx", 6>>, <<"RRA", "zpx", 1>>,
     <<"SEI", "impl", 2>>, <<"ADC", "absy", 4>>, <<"NOP", "impl", 2>>, <<"RRA", "absy", 7>>,
     <<"NOP", "absx", 5>>, <<"ADC", "absx", 4>>, <<"ROR", "absx", 7>>, <<"RRA", "absx", 7>> >>

Operands_80_bf ==
  << <<"NOP", "imm", 1>>, <<"STA", "indx", 6>>, <<"NOP", "imm", 2>>, <<"SAX", "indx", 6>>,
     <<"STY", "zp", 3>>, <<"STA", "zp", 3>>, <<"STX", "zp", 3>>, <<"SAX", "zp", 5>>,
     <<"DEY", "impl", 2>>, <<"NOP", "imm", 2>>, <<"TXA", "impl", 2>>, <<"ANE", "imm", 2>>,
     <<"STY", "abs", 4>>, <<"STA", "abs", 4>>, <<"STX", "abs", 4>>, <<"SAX", "abs", 4>>,
     <<"BCC", "rel", 2>>, <<"STA", "indy", 6>>, <<"JAM", "zpi", 3>>, <<"SHA", "indy", 6>>,
     <<"STY", "zpx", 4>>, <<"STA", "zpx", 4>>, <<"STX", "zpy", 4>>, <<"SAX", "zpy", 4>>,
     <<"TYA", "impl", 2>>, <<"STA", "absy", 5>>, <<"TXS", "impl", 2>>, <<"TAS", "absy", 5>>,
     <<"SHY", "absx", 5>>, <<"STA", "absx", 5>>, <<"SHX", "absy", 5>>, <<"SHA", "absy", 5>>,
     <<"LDY", "imm", 2>>, <<"LDA", "indx", 6>>, <<"LDX", "imm", 2>>, <<"LAX", "indx", 6>>,
     <<"LDY", "zp", 3>>, <<"LDA", "zp", 3>>, <<"LDX", "zp", 3>>, <<"LAX", "zp", 5>>,
     <<"TAY", "impl", 2>>, <<"LDA", "imm", 2>>, <<"TAX", "impl", 2>>, <<"LXA", "imm", 2>>,
     <<"LDY", "abs", 4>>, <<"LDA", "abs", 4>>, <<"LDX", "abs", 4>>, <<"LAX", "abs", 4>>,
     <<"BCS", "rel", 2>>, <<"LDA", "indy", 5>>, <<"JAM", "zpi", 3>>, <<"LAX", "indy", 5>>,
     <<"LDY", "zpx", 4>>, <<"LDA", "zpx", 4>>, <<"LDX", "zpy", 4>>, <<"LAX", "zpy", 4>>,
     <<"CLV", "impl", 2>>, <<"LDA", "absy", 4>>, <<"TSX", "impl", 2>>, <<"LAS", "absy", 4>>,
     <<"LDY", "absx", 4>>, <<"LDA", "absx", 4>>, <<"LDX", "absy", 4>>, <<"LAX", "absy", 4>> >>

Operands_c0_ff ==
  << <<"CPY", "imm", 2>>, <<"CMP", "indx", 6>>, <<"NOP", "imm", 2>>, <<"DCP", "indx", 8>>,
     <<"CPY", "zp", 3>>, <<"CMP", "zp", 3>>, <<"DEC", "zp", 5>>, <<"DCP", "zp", 5>>,
     <<"INY", "impl", 2>>, <<"CMP", "imm", 2>>, <<"DEX", "impl", 2>>, <<"SBX", "imm", 2>>,
     <<"CPY", "abs", 4>>, <<"CMP", "abs", 4>>, <<"DEC", "abs", 6>>, <<"DCP", "abs", 6>>,
     <<"BNE", "rel", 2>>, <<"CMP", "indy", 5>>, <<"JAM", "zpi", 3>>, <<"DCP", "indy", 8>>,
     <<"NOP", "zpx", 4>>, <<"CMP", "zpx", 4>>, <<"DEC", "zpx", 6>>, <<"DCP", "zpx", 6>>,
     <<"CLD", "impl", 2>>, <<"CMP", "absy", 4>>, <<"NOP", "impl", 2>>, <<"DCP", "absy", 7>>,
     <<"NOP", "absx", 5>>, <<"CMP", "absx", 4>>, <<"DEC", "absx", 7>>, <<"DCP", "absx", 7>>,
     <<"CPX", "imm", 2>>, <<"SBC", "indx", 6>>, <<"NOP", "imm", 2>>, <<"ISC", "indx", 8>>,
     <<"CPX", "zp", 3>>, <<"SBC", "zp", 3>>, <<"INC", "zp", 5>>, <<"ISC", "zp", 5>>,
     <<"INX", "impl", 2>>, <<"SBC", "imm", 2>>, <<"NOP", "impl", 2>>, <<"USBC", "imm", 2>>,
     <<"CPX", "abs", 4>>, <<"SBC", "abs", 4>>, <<"INC", "abs", 6>>, <<"ISC", "abs", 6>>,
     <<"BEQ", "rel", 2>>, <<"SBC", "indy", 5>>, <<"JAM", "zpi", 3>>, <<"ISC", "indy", 8>>,
     <<"NOP", "zpx", 4>>, <<"SBC", "zpx", 4>>, <<"INC", "zpx", 6>>, <<"ISC", "zpx", 6>>,
     <<"SED", "impl", 2>>, <<"SBC", "absy", 4>>, <<"NOP", "impl", 1>>, <<"ISC", "absy", 7>>,
     <<"NOP", "absx", 5>>, <<"SBC", "absx", 4>>, <<"INC", "absx", 7>>, <<"ISC", "absx", 7>> >>

OPERANDS_6502 == Operands_00_3f \o Operands_40_7f \o Operands_80_bf \o Operands_c0_ff

Operand(opcode) == OPERANDS_6502[opcode + 1]
Mnemonic(opcode) == Operand(opcode)[1]
AddressingType(opcode) == Operand(opcode)[2]
Cycles(opcode) == Operand(opcode)[3]

(* The bytes of an instruction follow from its mode, and a JAM has none.   *)
Size(opcode) ==
  IF Mnemonic(opcode) = "JAM" THEN 0
  ELSE CASE AddressingType(opcode) \in {"impl", "acc"} -> 1
         [] AddressingType(opcode) \in {"abs", "absx", "absy", "ind"} -> 3
         [] OTHER -> 2

(* The rows whose name is in capitals: the documented instructions.        *)
Documented(opcode) ==
  /\ Mnemonic(opcode) \notin
       {"SLO", "RLA", "SRE", "RRA", "SAX", "LAX", "DCP", "ISC", "ANC", "ALR", "ARR", "ANE", "LXA",
        "SBX", "SHA", "SHX", "SHY", "TAS", "LAS", "USBC", "JAM"}
  /\ Mnemonic(opcode) = "NOP" => opcode = 234
=============================================================================
