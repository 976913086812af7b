----------------------------- MODULE NativeCode -----------------------------
(***************************************************************************)
(* What the compiler emits for a number, an address and a call             *)
(* (arch/riscv/compile.c and arch/x86_64/compile.c), the tables through    *)
(* which far words are reached (plt.c), and what the processor makes of    *)
(* the code.  A cell has 2 * Half bits, an address is a cell.              *)
(*                                                                         *)
(* An instruction is a tuple of its name and its operands; code is a       *)
(* sequence of them.  Every instruction of RISC-V has four bytes; a call   *)
(* of x86 has five and the other instructions of x86 here have seven.      *)
(***************************************************************************)
EXTENDS RiscV, X86, SequencesExt

CONSTANTS
  Half,       \* half the bits of a cell: 32
  Low,        \* bits of the immediate of ADDI, LD and JALR: 12
  Jump,       \* bits of the offset of JAL but for its sign: 20
  GotBytes,   \* sizeof(struct got_t): 8
  Start, End, \* the code section
  Exported,   \* the words of the image: [addr, body, runs, exec]
  Numbers,    \* numbers a program compiles
  Distances,  \* how far from HERE what it compiles may be
  Immediates, \* immediates of single instructions
  Regs        \* registers of single instructions

ASSUME WidthAssumption ==
  {Low, Half, Jump} \subseteq Nat \ {0} /\ Low < Half /\ Jump < Half /\ Half < 2 ^ (Low - 1)
ASSUME OperandAssumption == Regs \subseteq 0 .. 31 /\ Immediates \subseteq Int

VARIABLES
  arch,   \* the processor compiled for
  here,   \* where the next instruction goes
  out     \* for the properties: what was compiled last, from where, to what code
vars == <<arch, here, out>>

RV == arch = "riscv"

CellMod == 2 ^ (2 * Half)
Values == 0 .. CellMod - 1
AsCell(v) == v % CellMod
SignedCell(v) == IF v < CellMod \div 2 THEN v ELSE v - CellMod
Sext(v, bits) == LET m == v % 2 ^ bits IN IF m < 2 ^ (bits - 1) THEN m ELSE m - 2 ^ bits

(* The conversion (int32_t), and the two immediates it is split into.      *)
Int32(v) == Sext(v, Half)
(* A mutant: the sign of the lower part forgotten. *)
LowerUnsigned(x) == x % 2 ^ Low
Lower(x) == Sext(x, Low)
Upper(x) == ((x - Lower(x)) \div 2 ^ Low) % 2 ^ (Half - Low)

(* The test (cell)d >> 32 is 0 or -1. *)
Near(d) == SignedCell(AsCell(d)) \div 2 ^ Half \in {0, -1}

(***************************************************************************)
(* The tables at the start of the code section: the addresses of all       *)
(* words, of their bodies and of the code they run, and for the last two   *)
(* a stub that jumps through the table.                                    *)
(***************************************************************************)
Fields(Of(_), words) == [i \in DOMAIN words |-> Of(words[i])]
Runs == FoldLeft(LAMBDA ws, w : IF w.runs THEN Append(ws, w) ELSE ws, <<>>, Exported)
GotWords == Fields(LAMBDA w : w.addr, Exported)
GotBodies == Fields(LAMBDA w : w.body, Exported)
GotExecs == Fields(LAMBDA w : w.exec, Runs)
Got == GotWords \o GotBodies \o GotExecs
WordCount == Len(Exported)
PltCount == Len(Exported) + Len(Runs)

PltBytes == IF RV THEN 16 ELSE 9
GotAddr(i) == Start + (i - 1) * GotBytes
PltStart == Start + Len(Got) * GotBytes
PltAddr(i) == PltStart + (i - 1) * PltBytes

(* HERE behind the tables: the product is added to a pointer to got_t. *)
TableBytes(stub) == GotBytes * (Len(Got) * GotBytes + PltCount * stub)
FirstHere == Start + TableBytes(PltBytes)

(* A few hundred words: their tables are well within 2 ^ (Half - 1) bytes. *)
ASSUME CellAssumption ==
  /\ Numbers \subseteq Values /\ Distances \subseteq Int
  /\ Exported \in Seq([addr : Values, body : Values, runs : BOOLEAN, exec : Values])
  /\ Start \in Nat /\ End \in Int /\ GotBytes \in Nat \ {0}
  /\ TableBytes(16) + 18 < 2 ^ (Half - 1) - 2 ^ Low /\ Start + TableBytes(16) + 18 < CellMod

Found(S, else, At(_)) == IF S = {} THEN else ELSE At(Min(S))
(* A mutant: the stubs numbered from the start of the table. *)
find_plt_unshifted(addr) ==
  Found({i \in 1 .. PltCount : Got[i] = addr}, addr, PltAddr)
find_plt(addr) ==
  Found({i \in 1 .. PltCount : Got[WordCount + i] = addr}, addr, PltAddr)
find_got(addr) == Found({i \in DOMAIN Got : Got[i] = addr}, addr, GotAddr)

(* init_plt: the stub i, at address at; a NOP after it fills up its bytes. *)
StubRV(i, at) ==
  LET y == Int32(GotAddr(WordCount + i) - at)
  IN <<<<"AUIPC", "T6", Upper(y)>>, <<"LD", "T6", "T6", Lower(y)>>, <<"JALR", "X0", "T6", 0>>>>
StubX86(i, at) ==
  <<<<"TAKE", "RBX", Int32(GotAddr(WordCount + i) - at) - 7>>, <<"JMP", "RBX">>>>

(***************************************************************************)
(* RISC-V.                                                                 *)
(***************************************************************************)
StoreLow(reg, v) ==
  LET x == Int32(v)
  IN (IF Upper(x) = 0 THEN <<<<"ADDIW", reg, "X0", Lower(x)>>>>
      ELSE IF Lower(x) = 0 THEN <<<<"LUI", reg, Upper(x)>>>>
      ELSE <<<<"LUI", reg, Upper(x)>>, <<"ADDIW", reg, reg, Lower(x)>>>>)
     \o IF v \div 2 ^ Half # 0 THEN <<>>
        ELSE <<<<"ADDI", "T0", "X0", Half>>, <<"SLL", reg, reg, "T0">>, <<"SRL", reg, reg, "T0">>>>

c_store(v) ==
  LET high == v \div 2 ^ Half
      low == v % 2 ^ Half
      shift == <<"ADDI", "T0", "X0", Half>>
  IN IF Near(v) THEN StoreLow("A2", v)
     ELSE IF low # 0
     THEN StoreLow("A3", high) \o <<shift, <<"SLL", "A3", "A3", "T0">>>>
          \o StoreLow("A2", low) \o <<<<"SLL", "A2", "A2", "T0">>, <<"SRL", "A2", "A2", "T0">>,
                                      <<"OR", "A2", "A2", "A3">>>>
     ELSE StoreLow("A2", high) \o <<shift, <<"SLL", "A2", "A2", "T0">>>>

PushRV == <<<<"SX", "A2", "S0">>, <<"ADDI", "S0", "S0", 1>>>>

ConstantRV(v) == c_store(v) \o PushRV

(* Code and the compiler status it leaves, which says what was emitted.    *)
Emitted(code, status) == [code |-> code, status |-> status]

AddressRV(v) ==
  LET near == Near(v - here)
      y == Int32((IF near THEN v ELSE find_got(v)) - here)
      upper == <<<<"AUIPC", "A2", Upper(y)>>>>
  IN IF ~near THEN Emitted(upper \o <<<<"LD", "A2", "A2", Lower(y)>>>> \o PushRV, 1)
     ELSE IF Lower(y) # 0 THEN Emitted(upper \o <<<<"ADDI", "A2", "A2", Lower(y)>>>> \o PushRV, 0)
     ELSE Emitted(upper \o PushRV, 3)

Target(v) == IF Near(v - here) THEN v ELSE find_plt(v)

ExecuteRV(v) ==
  LET t == Target(v)
      y == Int32(t - here)
  IN IF y < -(2 ^ Jump) \/ y > 2 ^ Jump \/ t < Start \/ t >= End
     THEN Emitted(<<<<"AUIPC", "RA", Upper(y)>>, <<"JALR", "RA", "RA", Lower(y)>>>>, 0)
     ELSE Emitted(<<<<"JAL", "RA", y>>>>, 1)

(***************************************************************************)
(* x86-64.                                                                 *)
(***************************************************************************)
PushX86 == <<<<"MOV", "RBX", "R15">>, <<"ADD", "R15", 1>>>>
ConstantX86(v) == <<<<"MOV64", "RBX", v>>>> \o PushX86
AddressX86(v) ==
  IF Near(v - here) THEN Emitted(<<<<"LEA", "RBX", Int32(v - here) - 7>>>> \o PushX86, 1)
  ELSE Emitted(<<<<"TAKE", "RBX", Int32(find_got(v) - here) - 7>>>> \o PushX86, 0)
ExecuteX86(v) == Emitted(<<<<"CALL", Int32(Target(v) - here) - 5>>>>, 0)

(***************************************************************************)
(* The processors.  The registers are a record, with pc among them; X0     *)
(* stays 0, and what a push writes to is left out.                         *)
(***************************************************************************)
Memory(addr) == Found({i \in DOMAIN Got : GotAddr(i) = AsCell(addr)}, 0, LAMBDA i : Got[i])
Registers == [X0 |-> 0, A2 |-> 0, A3 |-> 0, T0 |-> 0, T6 |-> 0, RA |-> 0, RBX |-> 0]
Bytes(i) == CASE i[1] \in {"LEA", "TAKE"} -> 7 [] i[1] = "CALL" -> 5 [] i[1] = "MOV64" -> 10
              [] i[1] = "MOV" -> 3 [] i[1] = "JE" -> 10 [] i[1] = "JMP32" -> 5 [] i[1] = "JMP" -> 2 [] OTHER -> 4
Length(code) == FoldLeft(LAMBDA n, i : n + Bytes(i), 0, code)
BitOr(a, b) ==
  Bits({k \in 0 .. 2 * Half - 1 : Slice(a, k, 1) = 1 \/ Slice(b, k, 1) = 1}, 0, 2 * Half)

(* The machine m, [pc, r], after the instruction i. *)
Exec(m, i) ==
  LET r == m.r
      next == m.pc + Bytes(i)
      Set(reg, v) == [pc |-> next, r |-> [r EXCEPT ![reg] = AsCell(v)]]
      Go(t) == [m EXCEPT !.pc = AsCell(t)]
  IN CASE i[1] = "LUI" -> Set(i[2], Int32(i[3] * 2 ^ Low))
       [] i[1] = "AUIPC" -> Set(i[2], m.pc + Int32(i[3] * 2 ^ Low))
       [] i[1] = "ADDIW" -> Set(i[2], Int32(r[i[3]] + Sext(i[4], Low)))
       [] i[1] = "ADDI" /\ i[2] \in DOMAIN r -> Set(i[2], r[i[3]] + Sext(i[4], Low))
       [] i[1] = "LD" -> Set(i[2], Memory(r[i[3]] + Sext(i[4], Low)))
       [] i[1] = "SLL" -> Set(i[2], r[i[3]] * 2 ^ r[i[4]])
       [] i[1] = "SRL" -> Set(i[2], r[i[3]] \div 2 ^ r[i[4]])
       [] i[1] = "OR" -> Set(i[2], BitOr(r[i[3]], r[i[4]]))
       [] i[1] = "JALR" -> Go(r[i[3]] + Sext(i[4], Low))
       [] i[1] = "JAL" -> Go(m.pc + Sext(i[3], Jump + 1))
       [] i[1] = "MOV64" -> Set(i[2], i[3])
       [] i[1] = "LEA" -> Set(i[2], next + Int32(i[3]))
       [] i[1] = "TAKE" -> Set(i[2], Memory(next + Int32(i[3])))
       [] i[1] = "CALL" -> Go(next + Int32(i[2]))
       [] i[1] = "JMP" -> Go(r[i[2]])
       [] OTHER -> [m EXCEPT !.pc = next]

Run(code, at) == FoldLeft(Exec, [pc |-> at, r |-> Registers], code)

(***************************************************************************)
(* The words of the compiler, and its assembler alone.                     *)
(***************************************************************************)
Compiled(kind, v, e) ==
  /\ out' = [kind |-> kind, arch |-> arch, v |-> v, at |-> here, code |-> e.code, status |-> e.status]
  /\ here' = here + Length(e.code)
  /\ UNCHANGED arch

SYS_COMPILE_CONSTANT ==
  \E v \in Numbers :
    Compiled("constant", v, Emitted(IF RV THEN ConstantRV(v) ELSE ConstantX86(v), "kept"))

(* Where a program refers to: anywhere around HERE, and the exported words. *)
Addresses == {AsCell(here + d) : d \in Distances} \cup ToSet(Got)

(* x86 gives up on an address that is neither near nor in the table.       *)
SYS_COMPILE_ADDR ==
  \E v \in Addresses :
    \/ RV /\ Compiled("address", v, AddressRV(v))
    \/ ~RV /\ (Near(v - here) \/ find_got(v) # v) /\ Compiled("address", v, AddressX86(v))

SYS_COMPILE_EXECUTE ==
  \E v \in Addresses :
    /\ Near(Target(v) - here)
    /\ \/ RV /\ v % 2 = 0 /\ Compiled("execute", v, ExecuteRV(v))
       \/ ~RV /\ Compiled("execute", v, ExecuteX86(v))

Assembled(type, name, t, ops, word) ==
  /\ out' = [kind |-> type, name |-> name, t |-> t, ops |-> ops, word |-> word]
  /\ UNCHANGED <<arch, here>>

Within(bits) == {v \in Immediates : -(2 ^ (bits - 1)) <= v /\ v < 2 ^ (bits - 1)}

AssembleI(a, b) ==
  \E T \in {ITable, ITable64}, imm \in Within(12) : \E n \in DOMAIN T :
    Assembled("I", n, T[n], <<a, b, imm>>, IINSTR(T[n], a, b, imm))
AssembleCSR(a, b) ==
  \E n \in DOMAIN CSRTable, csr \in {1, 2048, 4095} :
    Assembled("I", n, CSRTable[n], <<a, b, SignExtended(csr, 12)>>, CSRINSTR(CSRTable[n], csr, a, b))
AssembleP ==
  \/ Assembled("I", "SRET", <<115, 0>>, <<0, 0, 258>>, SRET)
  \/ Assembled("I", "ECALL", <<115, 0>>, <<0, 0, 0>>, ECALL)
AssembleS(a, b) ==
  \E T \in {STable, STable64}, imm \in Within(12) : \E n \in DOMAIN T :
    Assembled("S", n, T[n], <<a, b, imm>>, SINSTR(T[n], a, b, imm))
AssembleB(a, b) ==
  \E n \in DOMAIN BTable, imm \in {v \in Within(13) : v % 2 = 0} :
    Assembled("B", n, BTable[n], <<a, b, imm>>, BINSTR(BTable[n], a, b, imm))
AssembleR(a, b) ==
  \/ \E T \in {RTable, RTable64, RTableM, RTableM64}, c \in Regs : \E n \in DOMAIN T :
       Assembled("R", n, T[n], <<a, b, c>>, RINSTR(T[n], a, b, c))
  \/ \E n \in DOMAIN SRTable, c \in 0 .. 63 :
       Assembled("SR", n, SRTable[n], <<a, b, c>>, SRINSTR(SRTable[n], a, b, c))
  \/ \E T \in {ATable, ATable64}, c \in Regs, flag \in 0 .. 3 : \E n \in DOMAIN T :
       Assembled("A", n, T[n], <<a, b, c, flag>>, AINSTR(T[n], a, b, c, flag))
AssembleUJ(a) ==
  \/ \E n \in DOMAIN UTable, imm \in Immediates \cap 0 .. 2 ^ 20 - 1 :
       Assembled("U", n, UTable[n], <<a, imm>>, UINSTR(UTable[n], a, imm))
  \/ \E imm \in {v \in Within(21) : v % 2 = 0} :
       Assembled("J", "JAL", JTable.JAL, <<a, imm>>, JINSTR(JTable.JAL, a, imm))

AssembleRV ==
  \E a, b \in Regs :
    \/ AssembleI(a, b) \/ AssembleCSR(a, b) \/ AssembleS(a, b) \/ AssembleB(a, b) \/ AssembleR(a, b)
    \/ AssembleUJ(a) \/ AssembleP

Assemble ==
  \/ /\ ~RV
     /\ \E d \in Immediates : \E w \in Wanted(d) :
          /\ w[2][1] = "add" => -128 <= d /\ d < 128
          /\ Assembled("x86", w[2][1], <<>>, w[2], w[1])
  \/ RV /\ AssembleRV

Init ==
  /\ arch \in {"riscv", "x86_64"}
  /\ here \in {FirstHere, FirstHere + 18}
  /\ out = [kind |-> "none"]

Next ==
  /\ out.kind = "none"
  /\ SYS_COMPILE_CONSTANT \/ SYS_COMPILE_ADDR \/ SYS_COMPILE_EXECUTE \/ Assemble

Spec == Init /\ [][Next]_vars

(***************************************************************************)
(* Properties.                                                             *)
(***************************************************************************)
Result == Run(out.code, out.at)
Left == IF out.arch = "riscv" THEN Result.r.A2 ELSE Result.r.RBX
Distance == SignedCell(AsCell(out.v - out.at))

(* c_store: the code a number is compiled to leaves that number, for every *)
(* number.  The one exception is RISC-V and a number whose high half is    *)
(* all ones and whose low half is not negative: the test of the high half  *)
(* takes it for a short negative number, and its low half is left.         *)
ConstantLoaded ==
  out.kind = "constant" =>
    Left = IF /\ out.arch = "riscv"
              /\ out.v \div 2 ^ Half = 2 ^ Half - 1 /\ out.v % 2 ^ Half < 2 ^ (Half - 1)
           THEN out.v % 2 ^ Half ELSE out.v

(* What the code reaches from here: 2^31 bytes but for the last few.       *)
Reached(d) == -(2 ^ (Half - 1)) + 2 ^ Low <= d /\ d < 2 ^ (Half - 1) - 2 ^ Low

(* The address of something within reach, and of every exported word       *)
(* however far (through the table, find_got), is what the compiled code    *)
(* leaves; a call arrives at the word it names, directly or through the    *)
(* stub init_plt wrote (find_plt).  The test that decides between the two  *)
(* admits twice the reach, and a call of exactly 2^20 bytes forward within *)
(* the section is compiled to a JAL backward; both are left out here.      *)
Arrives ==
  LET pc == Result.pc
      stub == {i \in 1 .. PltCount : PltAddr(i) = pc}
      Stub(i) == IF out.arch = "riscv" THEN StubRV(i, pc) ELSE StubX86(i, pc)
  IN IF stub = {} \/ pc = out.v THEN pc ELSE Run(Stub(Min(stub)), pc).pc

AddressesReached ==
  /\ out.kind = "address" /\ (Reached(Distance) \/ (~Near(Distance) /\ out.v \in ToSet(Got))) => Left = out.v
  /\ out.kind = "execute" /\ (Reached(Distance) \/ ~Near(Distance)) /\ (out.arch = "riscv" => Distance # 2 ^ Jump)
       => Arrives = out.v

(* Every function of the assemblers (asmgen_riscv.h, and those of          *)
(* asmgen_x86_64.h the compiler calls, with the registers it gives them)   *)
(* puts its opcode, registers and immediate where the processor looks for  *)
(* them, and no two instructions of RISC-V have the same code.             *)
Entries == UNION {{<<n, T[n]>> : n \in DOMAIN T} :
                  T \in {RTable, RTable64, RTableM, RTableM64, SRTable, ITable, ITable64, STable,
                         STable64, BTable, CSRTable, UTable, JTable}}
EncodingsRight ==
  LET w == out.word
      ops == out.ops
  IN /\ out.kind \in {"R", "SR", "A", "I", "S", "B", "U", "J"} => Opcode(w) = out.t[1]
     /\ out.kind \in {"R", "SR", "A", "I", "S", "B"} => Funct3(w) = out.t[2]
     /\ out.kind \in {"R", "A"} => <<Rd(w), Rs1(w), Rs2(w)>> =
          IF out.kind = "A" THEN <<ops[1], ops[3], ops[2]>> ELSE ops
     /\ out.kind = "A" => Funct7(w) = 4 * out.t[3] + ops[4]
     /\ out.kind = "R" => Funct7(w) = out.t[3]
     /\ out.kind = "SR" => <<Rd(w), Rs1(w), Bits(w, 20, 6)>> = ops /\ Bits(w, 26, 6) = out.t[3] \div 2
     /\ out.kind = "I" => <<Rd(w), Rs1(w), ImmI(w)>> = ops
     /\ out.kind = "S" => <<Rs2(w), Rs1(w), ImmS(w)>> = ops
     /\ out.kind = "B" => <<Rs1(w), Rs2(w), ImmB(w)>> = ops
     /\ out.kind = "U" => <<Rd(w), ImmU(w)>> = ops
     /\ out.kind = "J" => <<Rd(w), ImmJ(w)>> = ops
     /\ out.kind \in {"R", "SR", "I", "S", "B"} =>
          \A e \in Entries : e[2] = out.t => e[1] = out.name
     /\ out.kind = "x86" => Instruction(w) = ops
=============================================================================
