----------------------------- MODULE Optimizer ------------------------------
(***************************************************************************)
(* The optimizer for RISC-V (asm/rv-optim.fth).  DROP, DUP, SWAP and ROT   *)
(* compile to instructions in place, and each then calls QUEUE: a run of   *)
(* such words is compiled again from its beginning, as the loads and the   *)
(* stores that are left when the words are carried out on cell numbers.    *)
(* An address counts instructions from 1, so that 0 is no address, as it   *)
(* is for START.                                                           *)
(***************************************************************************)
EXTENDS Integers, SequencesExt, FiniteSetsExt

CONSTANTS
  USABLE_REGISTERS,  \* 15
  Foreign,           \* what the compiler's own cells beneath hold: addresses
  Steps              \* how many words and labels a program has

ASSUME OptimizerAssumption == USABLE_REGISTERS \in Nat \ {0} /\ Foreign > 2 * USABLE_REGISTERS

VARIABLES
  code,                           \* what is compiled, up to HERE
  START, EXP, CSG, SEQUENCE,      \* the optimizer: SEQUENCE up to SEQ-I
  CSRI,                           \* how often a word of the control-flow stack ran
  aborted,                        \* ABORT" has stopped the compiler
  steps,
  since,    \* for the property: the words behind each place a jump arrives at
  beyond    \* for the property: a sequence went beyond the numbered cells
queue == <<START, EXP, CSG, SEQUENCE>>
optimizer == <<code, queue, CSRI, aborted, steps, since, beyond>>

HERE == Len(code) + 1

StackWords == {"DROP", "DUP", "SWAP", "ROT"}
(* What a word does to a stack, top last. *)
After(w, s) ==
  LET n == Len(s)
  IN CASE w = "DROP" -> Front(s)
       [] w = "DUP" -> Append(s, Last(s))
       [] w = "SWAP" -> SubSeq(s, 1, n - 2) \o <<s[n], s[n - 1]>>
       [] w = "ROT" -> SubSeq(s, 1, n - 3) \o <<s[n - 1], s[n], s[n - 2]>>

(* The code of a single word (asm/rv-core.fth), in instructions.           *)
LX(reg, k) == <<"LX", reg, k>>      \* the k-th cell of the stack to a register
SX(reg, k) == <<"SX", reg, k>>
GROW(n) == <<"GROW", n>>
Macro ==
  [DROP |-> <<GROW(-1)>>,
   DUP |-> <<LX(0, 1), SX(0, 0), GROW(1)>>,
   SWAP |-> <<LX(0, 1), LX(1, 2), SX(0, 2), SX(1, 1)>>,
   ROT |-> <<LX(2, 1), LX(1, 2), LX(0, 3), SX(0, 1), SX(2, 2), SX(1, 3)>>]
Size(w) == Len(Macro[w])

(***************************************************************************)
(* OPTIMIZE.  The cells are numbered from the top and the words carried    *)
(* out on the numbers, on the compiler's own data stack.  OFF is by how    *)
(* much the stack grows.                                                   *)
(***************************************************************************)
Numbered == [i \in 1 .. USABLE_REGISTERS |-> USABLE_REGISTERS - i]
Simulated(q) == FoldLeft(LAMBDA s, w : After(w, s), <<Foreign, Foreign + 1>> \o Numbered, q)
OFF(q) == FoldLeft(LAMBDA n, w : IF w = "DUP" THEN n + 1 ELSE IF w = "DROP" THEN n - 1 ELSE n, 0, q)
Item(q, i) == Simulated(q)[Len(Simulated(q)) - i]

(* The places whose cell is not the one that was there before. *)
Moved(q) == {i \in 0 .. USABLE_REGISTERS - 1 + OFF(q) : Item(q, i) # i - OFF(q)}

(* The register i takes the cell that goes to place i, unless one further  *)
(* down takes the same (FETCH-REGISTER-OF).                                *)
RegisterOf(q, i) == Max({j \in Moved(q) : Item(q, j) = Item(q, i)})
Each(Emit1(_), S) == LET d == SetToSortSeq(S, >) IN [i \in DOMAIN d |-> Emit1(d[i])]
Loads(q) == Each(LAMBDA r : LX(r, Item(q, r) + 1), {j \in Moved(q) : RegisterOf(q, j) = j})
Stores(q) == Each(LAMBDA p : SX(RegisterOf(q, p), p + 1), Moved(q))
Optimized(q) ==
  Loads(q) \o (IF OFF(q) = 0 THEN <<>> ELSE <<GROW(OFF(q))>>) \o Stores(q)

(* There is no register for a place beyond the last; and a stack that      *)
(* loses all the numbered cells sends the loop over them past its end,     *)
(* until it asks for a register with a negative number.                    *)
NoRegister(q) == OFF(q) = -USABLE_REGISTERS \/ \E i \in Moved(q) : i >= USABLE_REGISTERS

(* A mutant: a jump that arrives between two words is not noticed. *)
FollowsHere == START # 0 /\ HERE - START = EXP
(* The word compiled at HERE goes on with the sequence: no word of the     *)
(* control-flow stack ran and nothing else was compiled since.             *)
Follows == START # 0 /\ CSRI = CSG /\ HERE - START = EXP

Go == ~aborted /\ steps < Steps /\ steps' = steps + 1

(* The words of q look at no cell beneath the numbered ones, leave one of  *)
(* them, and end with each cell they moved at a place with a register.     *)
Deepest(q, cells) ==
  Max({0} \cup {cells[q[k]] - OFF(SubSeq(q, 1, k - 1)) : k \in {j \in DOMAIN q : cells[q[j]] > 0}})
LooksAt == [DROP |-> 1, DUP |-> 1, SWAP |-> 2, ROT |-> 3]
Moves == [DROP |-> 0, DUP |-> 0, SWAP |-> 2, ROT |-> 3]
Fits(q) ==
  /\ Deepest(q, LooksAt) <= USABLE_REGISTERS
  /\ OFF(q) > -USABLE_REGISTERS
  /\ Deepest(q, Moves) + OFF(q) <= USABLE_REGISTERS

QUEUE(w) ==
  LET q == IF Follows THEN Append(SEQUENCE, w) ELSE <<w>>
      at == IF Follows THEN START ELSE HERE
      full == Len(q) = USABLE_REGISTERS
  IN /\ Go
     /\ aborted' = NoRegister(q)
     /\ code' = SubSeq(code, 1, at - 1) \o IF NoRegister(q) THEN <<>> ELSE Optimized(q)
     /\ START' = IF full THEN 0 ELSE at
     /\ EXP' = IF full THEN 0 ELSE Len(code') + 1 - at
     /\ CSG' = IF full THEN 0 ELSE CSRI
     /\ SEQUENCE' = IF full THEN <<>> ELSE q
     /\ since' = [a \in DOMAIN since |-> Append(since[a], w)]
     /\ beyond' = (beyond \/ ~Fits(q))
     /\ UNCHANGED CSRI

StackWord == \E w \in StackWords : QUEUE(w)

(* Any other code; here it pushes a number. *)
Other ==
  /\ Go
  /\ code' = Append(code, <<"LIT">>)
  /\ since' = [a \in DOMAIN since |-> Append(since[a], "LIT")]
  /\ UNCHANGED <<queue, CSRI, aborted, beyond>>

(* BEGIN, or the THEN of a branch before. *)
Arrive ==
  /\ Go
  /\ CSRI' = CSRI + 1
  /\ since' = [a \in DOMAIN since \cup {HERE} |-> IF a = HERE THEN <<>> ELSE since[a]]
  /\ UNCHANGED <<code, queue, aborted, beyond>>

OptimizerInit ==
  /\ code = <<>> /\ START = 0 /\ EXP = 0 /\ CSG = 0 /\ SEQUENCE = <<>>
  /\ CSRI = 0 /\ aborted = FALSE /\ steps = 0
  /\ since = [a \in {1} |-> <<>>] /\ beyond = FALSE

OptimizerNext == StackWord \/ Other \/ Arrive

(***************************************************************************)
(* Properties.                                                             *)
(***************************************************************************)
(* The processor: the stack pointer, the cells of the stack by their       *)
(* address, and the registers.                                             *)
Cells == -(3 * Steps) .. Steps
Machine == [s |-> 0, cell |-> [a \in Cells |-> a], reg |-> [r \in 0 .. USABLE_REGISTERS |-> 0]]
Does(m, i) ==
  CASE i[1] = "LX" -> [m EXCEPT !.reg[i[2]] = IF m.s - i[3] \in Cells THEN m.cell[m.s - i[3]] ELSE 0]
    [] i[1] = "SX" -> [m EXCEPT !.cell[m.s - i[3]] = m.reg[i[2]]]
    [] i[1] = "GROW" -> [m EXCEPT !.s = @ + i[2]]
    [] i[1] = "LIT" -> [m EXCEPT !.cell[m.s] = Steps, !.s = @ + 1]
Effect(from) ==
  LET m == FoldLeft(Does, Machine, SubSeq(code, from, Len(code)))
  IN [i \in 1 .. 3 * Steps + m.s |-> m.cell[i - 1 - 3 * Steps]]
Meant(ws) ==
  FoldLeft(LAMBDA s, w : IF w = "LIT" THEN Append(s, Steps) ELSE After(w, s),
           [i \in 1 .. 3 * Steps |-> i - 1 - 3 * Steps], ws)

(* The code left by the optimizer does what the words do, from the start   *)
(* of the definition and from every place in it where a jump arrives, and  *)
(* the compiler does not stop (OPTIMIZE, QUEUE).  Left out are sequences   *)
(* that go beyond the cells there are registers for: they stop the         *)
(* compiler, or have cells of its own taken for numbers.                   *)
OptimizedRight ==
  ~beyond => ~aborted /\ \A a \in DOMAIN since : a <= HERE /\ Effect(a) = Meant(since[a])
=============================================================================
