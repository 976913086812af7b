-------------------------------- MODULE X86 ---------------------------------
(***************************************************************************)
(* The instructions of arch/x86_64/asmgen_x86_64.h that the compiler       *)
(* emits, as sequences of bytes; a last immediate of four or eight bytes   *)
(* is one element.                                                         *)
(***************************************************************************)
EXTENDS Integers, Sequences

RBX == 3
R15 == 15
Bit(b, r) == IF r >= 8 THEN b ELSE 0
(* REX, REX_W and REX_B for a register above 7. *)
Rex(r) == 64 + 8 + Bit(1, r)

ADD_IMM(r, imm) == <<Rex(r), 131, 192 + (r % 8), imm % 256>>
CALL_REL32(r) == <<232, r - 5>>
JMP_REL32(r) == <<233, r - 5>>
JMP(r) == <<255, 224 + (r % 8)>>
LEA_REL32(reg, rel) == <<Rex(reg), 141, 8 * (reg % 8) + 5, rel - 7>>
MOV_TAKE_REL32(reg, rel) == <<Rex(reg), 139, 8 * (reg % 8) + 5, rel - 7>>
MOV_IMM64(reg, imm) == <<Rex(reg), 187, imm>>
MOVQ_PUT(dest, src) == <<72 + Bit(2, dest) + Bit(1, src), 137, 8 * (dest % 8) + (src % 8)>>
MOVQ_TAKE(src, dest) == <<72 + Bit(2, dest) + Bit(1, src), 139, 8 * (dest % 8) + (src % 8)>>
BEQ_IMM(reg, imm, offset) == <<Rex(reg), 131, 192 + 8 * 7 + (reg % 8), imm % 256, 15, 132, offset - 10>>
RET == <<195>>

(* Every call the compiler makes of them, with what it wants: the name,    *)
(* the registers, and a distance from the start of the code.               *)
Wanted(d) ==
  { <<ADD_IMM(R15, d), <<"add", R15, d>>>>, <<CALL_REL32(d), <<"call", d>>>>, <<JMP_REL32(d), <<"jump", d>>>>,
    <<JMP(RBX), <<"jump to", RBX>>>>, <<LEA_REL32(RBX, d), <<"address", RBX, d>>>>,
    <<MOV_TAKE_REL32(RBX, d), <<"load", RBX, d>>>>, <<MOV_IMM64(RBX, d), <<"constant", RBX, d>>>>,
    <<MOVQ_PUT(RBX, R15), <<"store", RBX, R15>>>>, <<MOVQ_TAKE(R15, RBX), <<"take", RBX, R15>>>>,
    <<BEQ_IMM(RBX, 0, d), <<"jump if", RBX, 0, d>>>>, <<RET, <<"return">>>> }

(***************************************************************************)
(* The processor: what it takes a sequence of bytes for, and how many      *)
(* bytes that is.                                                          *)
(***************************************************************************)
Extended(c) ==
  LET rex == c[1] % 16
      reg == ((c[3] \div 8) % 8) + 8 * ((rex \div 4) % 2)
      base == (c[3] % 8) + 8 * (rex % 2)
      direct == c[3] \div 64 = 3
  IN CASE c[2] \in 184 .. 191 -> <<"constant", (c[2] % 8) + 8 * (rex % 2), c[3]>>
       [] c[2] = 131 /\ direct /\ reg = 0 ->
            <<"add", base, IF c[4] < 128 THEN c[4] ELSE c[4] - 256>>
       [] c[2] = 131 /\ direct /\ reg = 7 /\ c[5] = 15 /\ c[6] = 132 -> <<"jump if", base, c[4], 10 + c[7]>>
       [] c[2] = 141 /\ c[3] % 8 = 5 /\ ~direct -> <<"address", reg, 7 + c[4]>>
       [] c[2] = 139 /\ c[3] % 8 = 5 /\ ~direct -> <<"load", reg, 7 + c[4]>>
       [] c[2] = 139 /\ c[3] % 8 # 5 /\ c[3] < 64 -> <<"take", reg, base>>
       [] c[2] = 137 /\ c[3] < 64 -> <<"store", reg, base>>
       [] OTHER -> <<"unknown">>
Instruction(c) ==
  CASE c[1] \in 72 .. 79 -> Extended(c)
    [] c[1] = 232 -> <<"call", 5 + c[2]>>
    [] c[1] = 233 -> <<"jump", 5 + c[2]>>
    [] c[1] = 255 /\ c[2] \div 8 = 28 -> <<"jump to", c[2] % 8>>
    [] c[1] = 195 -> <<"return">>
    [] OTHER -> <<"unknown">>
=============================================================================
