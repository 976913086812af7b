------------------------------- MODULE RiscV --------------------------------
(***************************************************************************)
(* The instructions of arch/riscv/asmgen_riscv.h.  An instruction word is  *)
(* the set of its bits that are 1; an immediate is an integer, negative    *)
(* when the bit 31 the C code looks at is set.                             *)
(***************************************************************************)
EXTENDS Integers, Sequences, FiniteSetsExt

Slice(v, low, width) == (v \div 2 ^ low) % 2 ^ width
Sign(v) == IF v < 0 THEN 1 ELSE 0

(* A C bit-field structure: pairs <<value, width>> from the low bit up. *)
Pack(fields) ==
  LET start[i \in 1 .. Len(fields) + 1] ==
        IF i = 1 THEN 0 ELSE start[i - 1] + fields[i - 1][2]
  IN UNION {{start[i] + b : b \in {c \in 0 .. fields[i][2] - 1 : Slice(fields[i][1], c, 1) = 1}} :
            i \in DOMAIN fields}

RType(op, rd, f3, rs1, rs2, f7) ==
  Pack(<< <<op, 7>>, <<rd, 5>>, <<f3, 3>>, <<rs1, 5>>, <<rs2, 5>>, <<f7, 7>> >>)
IType(op, rd, f3, rs1, imm) ==
  Pack(<< <<op, 7>>, <<rd, 5>>, <<f3, 3>>, <<rs1, 5>>, <<imm, 12>> >>)
SType(op, f3, rs1, rs2, imm) ==
  Pack(<< <<op, 7>>, <<Slice(imm, 0, 5), 5>>, <<f3, 3>>, <<rs1, 5>>, <<rs2, 5>>,
          <<Slice(imm, 5, 6), 6>>, <<Sign(imm), 1>> >>)
BType(op, f3, rs1, rs2, imm) ==
  Pack(<< <<op, 7>>, <<Slice(imm, 11, 1), 1>>, <<Slice(imm, 1, 4), 4>>, <<f3, 3>>,
          <<rs1, 5>>, <<rs2, 5>>, <<Slice(imm, 5, 6), 6>>, <<Sign(imm), 1>> >>)
UType(op, rd, imm) == Pack(<< <<op, 7>>, <<rd, 5>>, <<imm, 20>> >>)
JType(op, rd, imm) ==
  Pack(<< <<op, 7>>, <<rd, 5>>, <<Slice(imm, 12, 8), 8>>, <<Slice(imm, 11, 1), 1>>,
          <<Slice(imm, 1, 10), 10>>, <<Slice(imm, 20, 1), 1>> >>)

(***************************************************************************)
(* The instructions: opcode, funct3 and funct7 as the type has them.       *)
(***************************************************************************)
UTable == [LUI |-> <<55>>, AUIPC |-> <<23>>]
JTable == [JAL |-> <<111>>]
BTable == [BEQ |-> <<99, 0>>, BNE |-> <<99, 1>>, BLT |-> <<99, 4>>, BGE |-> <<99, 5>>,
           BLTU |-> <<99, 6>>, BGEU |-> <<99, 7>>]
ITable == [JALR |-> <<103, 0>>, LB |-> <<3, 0>>, LH |-> <<3, 1>>, LW |-> <<3, 2>>,
           LBU |-> <<3, 4>>, LHU |-> <<3, 5>>, ADDI |-> <<19, 0>>, SLTI |-> <<19, 2>>,
           SLTIU |-> <<19, 3>>, XORI |-> <<19, 4>>, ORI |-> <<19, 6>>, ANDI |-> <<19, 7>>]
STable == [SB |-> <<35, 0>>, SH |-> <<35, 1>>, SW |-> <<35, 2>>]
(* A mutant: the arithmetic shift to the right without its mark. *)
SRTableUnmarked == [SLLI |-> <<19, 1, 0>>, SRLI |-> <<19, 5, 0>>, SRAI |-> <<19, 5, 0>>]
SRTable == [SLLI |-> <<19, 1, 0>>, SRLI |-> <<19, 5, 0>>, SRAI |-> <<19, 5, 32>>]
RTable == [ADD |-> <<51, 0, 0>>, SUB |-> <<51, 0, 32>>, SLL |-> <<51, 1, 0>>,
           SLT |-> <<51, 2, 0>>, SLTU |-> <<51, 3, 0>>, XOR |-> <<51, 4, 0>>,
           SRL |-> <<51, 5, 0>>, SRA |-> <<51, 5, 32>>, OR |-> <<51, 6, 0>>, AND |-> <<51, 7, 0>>]
ITable64 == [LWU |-> <<3, 6>>, LD |-> <<3, 3>>, ADDIW |-> <<27, 0>>]
STable64 == [SD |-> <<35, 3>>]
RTable64 == [SLLIW |-> <<27, 1, 0>>, SRLIW |-> <<27, 5, 0>>, SRAIW |-> <<27, 5, 32>>,
             ADDW |-> <<59, 0, 0>>, SUBW |-> <<59, 0, 32>>, SLLW |-> <<59, 1, 0>>,
             SRLW |-> <<59, 5, 0>>, SRAW |-> <<59, 5, 32>>]
RTableM == [MUL |-> <<51, 0, 1>>, MULH |-> <<51, 1, 1>>, MULHSU |-> <<51, 2, 1>>,
            MULHU |-> <<51, 3, 1>>, DIV |-> <<51, 4, 1>>, DIVU |-> <<51, 5, 1>>,
            REM |-> <<51, 6, 1>>, REMU |-> <<51, 7, 1>>]
RTableM64 == [MULW |-> <<59, 0, 1>>, DIVW |-> <<59, 4, 1>>, DIVUW |-> <<59, 5, 1>>,
              REMW |-> <<59, 6, 1>>, REMUW |-> <<59, 7, 1>>]
ATable == [AMOADD_W |-> <<47, 2, 0>>, AMOSWAP_W |-> <<47, 2, 1>>]
ATable64 == [AMOADD_D |-> <<47, 3, 0>>, AMOSWAP_D |-> <<47, 3, 1>>]
CSRTable == [CSRRW |-> <<115, 1>>, CSRRS |-> <<115, 2>>, CSRRC |-> <<115, 3>>,
             CSRRWI |-> <<115, 5>>, CSRRSI |-> <<115, 6>>, CSRRCI |-> <<115, 7>>]

(* The assembler's functions, by the type of the instruction t.  A shift   *)
(* by a number of 32 or more has the sixth bit of the number in funct7.    *)
UINSTR(t, rd, imm) == UType(t[1], rd, imm)
JINSTR(t, rd, imm) == JType(t[1], rd, imm)
BINSTR(t, rs1, rs2, imm) == BType(t[1], t[2], rs1, rs2, imm)
IINSTR(t, rd, rs1, imm) == IType(t[1], rd, t[2], rs1, imm)
SINSTR(t, rs2, rs1, imm) == SType(t[1], t[2], rs1, rs2, imm)
RINSTR(t, rd, rs1, rs2) == RType(t[1], rd, t[2], rs1, rs2, t[3])
SRINSTR(t, rd, rs1, n) == RType(t[1], rd, t[2], rs1, n, t[3] + Slice(n, 5, 1))
AINSTR(t, rd, rs2, rs1, flag) == RType(t[1], rd, t[2], rs1, rs2, 4 * t[3] + flag)
CSRINSTR(t, csr, rd, rs1) == IType(t[1], rd, t[2], rs1, csr)
PINSTR(op, rd, f3, rs1, rs2, imm) == IType(op, rd, f3, rs1, 32 * imm + (rs2 % 32))
SRET == PINSTR(115, 0, 0, 0, 2, 8)
ECALL == PINSTR(115, 0, 0, 0, 0, 0)

(***************************************************************************)
(* The processor: what it takes a word for.                                *)
(***************************************************************************)
Bits(word, low, width) == FoldSet(LAMBDA b, v : v + 2 ^ (b - low), 0, word \cap (low .. low + width - 1))
SignExtended(v, width) == IF v < 2 ^ (width - 1) THEN v ELSE v - 2 ^ width

Opcode(word) == Bits(word, 0, 7)
Rd(word) == Bits(word, 7, 5)
Funct3(word) == Bits(word, 12, 3)
Rs1(word) == Bits(word, 15, 5)
Rs2(word) == Bits(word, 20, 5)
Funct7(word) == Bits(word, 25, 7)
ImmI(word) == SignExtended(Bits(word, 20, 12), 12)
ImmS(word) == SignExtended(Bits(word, 7, 5) + 32 * Funct7(word), 12)
ImmB(word) == SignExtended(2 * Bits(word, 8, 4) + 32 * Bits(word, 25, 6)
                           + 2048 * Bits(word, 7, 1) + 4096 * Bits(word, 31, 1), 13)
ImmU(word) == Bits(word, 12, 20)
ImmJ(word) == SignExtended(2 * Bits(word, 21, 10) + 2048 * Bits(word, 20, 1)
                           + 4096 * Bits(word, 12, 8) + 2 ^ 20 * Bits(word, 31, 1), 21)
=============================================================================
