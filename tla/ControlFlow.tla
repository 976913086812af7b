---------------------------- MODULE ControlFlow -----------------------------
(***************************************************************************)
(* The words that compile jumps (arch/*/core/IF.c, AHEAD.c, THEN.c,        *)
(* UNTIL.c, AGAIN.c, core/BEGIN.c, CS_PICK.c, CS_ROLL.c, do.fth, case.fth) *)
(* and the control-flow stack they keep on the data stack.  An entry of it *)
(* has four cells: an address, two registers and the function that writes  *)
(* the branch again once its target is known; the registers are always the *)
(* same two, so an entry here is the address and whether there is such a   *)
(* function.  CASE, DO and ?DO mark their place by an entry whose address  *)
(* is 2 or 3.                                                              *)
(*                                                                         *)
(* mem holds the jumps only; the calls between them are so many bytes.     *)
(* What the program means is kept apart from what the words do: the        *)
(* structures that are open, and for every jump where it should go.        *)
(***************************************************************************)
EXTENDS NativeCode

CONSTANTS
  Words,    \* how many words a program has, those that end its open structures included
  Depth,    \* how many structures are open at once
  Bodies    \* bytes of longer stretches of code: at most one in a program

VARIABLES
  mem,      \* the jumps, by address
  cs,       \* the control-flow stack
  open,     \* for the properties: the structures that are open
  jumps,    \* for the properties: where every jump should go
  words, bodies   \* how many of each the program has so far
flow == <<mem, cs, open, jumps, words, bodies>>

(* Where a compilation stands: what the C code and the Forth code change.  *)
Now == [here |-> here, mem |-> mem, cs |-> cs]
Skip(c, n) == [c EXCEPT !.here = @ + n]
(* A call of a word compiled with POSTPONE, and the top of the stack taken *)
(* to a register.                                                          *)
Call(c) == Skip(c, Bytes(<<IF RV THEN "JAL" ELSE "CALL">>))
TakeTop(c) == Skip(c, IF RV THEN 8 ELSE 7)

Write(m, at, code) ==
  IF Len(code) = 1 THEN at :> code[1] @@ m
  ELSE (at :> code[1]) @@ (at + 4 :> code[2]) @@ m
Emit(c, code) == [c EXCEPT !.mem = Write(@, c.here, code), !.here = @ + Length(code)]

(***************************************************************************)
(* The jumps.  A branch of RISC-V reaches 4096 bytes; one that goes        *)
(* further is a branch around a JAL.                                       *)
(***************************************************************************)
BEQ_OR_JAL(d) ==
  IF d \div 4096 \in {-1, 0} THEN <<<<"BEQ", d>>>> ELSE <<<<"BNE", 8>>, <<"JAL", "X0", d - 4>>>>
BEQ_OR_JAL_NOP(d) == IF Len(BEQ_OR_JAL(d)) = 1 THEN BEQ_OR_JAL(d) \o <<<<"NOP">>>> ELSE BEQ_OR_JAL(d)

Branch(d) == IF RV THEN BEQ_OR_JAL(d) ELSE <<<<"JE", d - 10>>>>
Goto(d) == IF RV THEN <<<<"JAL", "X0", d>>>> ELSE <<<<"JMP32", d - 5>>>>

(***************************************************************************)
(* The words of the compiler in C.                                         *)
(***************************************************************************)
Entry(addr, cond) == <<addr, cond>>
Pushed(c, e) == [c EXCEPT !.cs = Append(@, e)]
Drop(c) == [c EXCEPT !.cs = Front(@)]
TopEntry(c) == Last(c.cs)

IF_impl(c) ==
  LET t == TakeTop(c)
  IN Emit(Pushed(t, Entry(t.here, TRUE)), IF RV THEN BEQ_OR_JAL_NOP(0) ELSE Branch(0))
AHEAD_impl(c) == Emit(Pushed(c, Entry(c.here, FALSE)), Goto(0))
THEN_impl(c) ==
  LET at == TopEntry(c)[1]
      d == c.here - at
  IN [Drop(c) EXCEPT !.mem = Write(@, at, IF TopEntry(c)[2] THEN Branch(d) ELSE Goto(d))]
BEGIN_impl(c) == Pushed(c, Entry(c.here, FALSE))
UNTIL_impl(c) ==
  LET t == TakeTop(c)
  IN Emit(Drop(t), Branch(TopEntry(c)[1] - t.here))
AGAIN_impl(c) == Emit(Drop(c), Goto(TopEntry(c)[1] - c.here))
CS_PICK(c, d) == Pushed(c, c.cs[Len(c.cs) - d])
CS_ROLL(c, d) ==
  LET i == Len(c.cs) - d
  IN [c EXCEPT !.cs = Append(RemoveAt(@, i), @[i])]

Marks == {2, 3}
Mark(c, n) == Pushed(c, Entry(n, FALSE))
MarkOf(c) == c.cs[Max({i \in DOMAIN c.cs : c.cs[i][1] \in Marks})][1]
(* A mutant: LEAVE's jump left on top, where the next THEN takes it. *)
cs_leave_top(c) == c
cs_leave(c) ==
  LET i == Max({j \in DOMAIN c.cs : c.cs[j][1] \in Marks})
  IN [c EXCEPT !.cs = InsertAt(Front(@), i + 1, Last(@))]

(***************************************************************************)
(* The words in Forth.                                                     *)
(***************************************************************************)
ELSE_impl(c) == THEN_impl(CS_ROLL(AHEAD_impl(c), 1))
(* THEN until the mark is on top, then without it. *)
Resolved(c) ==
  LET i == Max({j \in DOMAIN c.cs : c.cs[j][1] \in Marks})
  IN Drop(FoldLeft(LAMBDA d, k : THEN_impl(d), c, [k \in 1 .. Len(c.cs) - i |-> k]))
DO_impl(c) == BEGIN_impl(Mark(Call(Call(c)), 2))
QDO_impl(c) == BEGIN_impl(Mark(Call(Call(IF_impl(Call(Call(c))))), 3))
LOOP_impl(c) ==
  LET r == Resolved(UNTIL_impl(Call(c)))
  IN IF MarkOf(c) = 2 THEN r ELSE THEN_impl(Call(ELSE_impl(r)))
LEAVE_impl(c) == cs_leave(AHEAD_impl(Call(c)))
OF_impl(c) == Call(IF_impl(Call(Call(c))))
ENDCASE_impl(c) == Resolved(Call(c))

(***************************************************************************)
(* The program: its structures and the jumps it means.                     *)
(***************************************************************************)
NoWhere == -1
Structure(kind, at, exits) == [kind |-> kind, at |-> at, exits |-> exits]
Inner == Last(open)
Enclosed(s) == Append(Front(open), s)
Loops == {"DO", "?DO"}
(* LEAVE's jump is kept with the innermost loop, or with the innermost     *)
(* CASE when that is further in.                                           *)
LeavesFrom(site) ==
  LET i == Max({j \in DOMAIN open : open[j].kind \in Loops \cup {"CASE"}})
  IN [open EXCEPT ![i].exits = @ \cup {site}]

Planned(site, to, next) == site :> [to |-> to, next |-> next]
To(js, sites, to) == [s \in DOMAIN js |-> IF s \in sites THEN [js[s] EXCEPT !.to = to] ELSE js[s]]

Word(c, o, js) ==
  /\ out.kind = "none"
  /\ words + Len(o) < Words
  /\ words' = words + 1
  /\ here' = c.here /\ mem' = c.mem /\ cs' = c.cs
  /\ open' = o /\ jumps' = js
  /\ UNCHANGED <<arch, out, bodies>>

Is(kinds) == Len(open) > 0 /\ Inner.kind \in kinds
Opens == Len(open) < Depth

(* The jump an IF or an AHEAD at the end of c compiles.                    *)
IfSite(c) == TopEntry(c)[1]
New(c) == Planned(IfSite(c), NoWhere, c.here)

IF_ ==
  LET c == IF_impl(Now)
  IN Opens /\ Word(c, Append(open, Structure("IF", 0, {IfSite(c)})), New(c) @@ jumps)

AHEAD_ ==
  LET c == AHEAD_impl(Now)
  IN Opens /\ Word(c, Append(open, Structure("ELSE", 0, {IfSite(c)})), New(c) @@ jumps)

ELSE_ ==
  LET c == ELSE_impl(Now)
  IN /\ Is({"IF"})
     /\ Word(c, Enclosed(Structure("ELSE", 0, {here})), To(Planned(here, NoWhere, c.here) @@ jumps, Inner.exits, c.here))

THEN_ == Is({"IF", "ELSE"}) /\ Word(THEN_impl(Now), Front(open), To(jumps, Inner.exits, here))

BEGIN_ == Opens /\ Word(BEGIN_impl(Now), Append(open, Structure("BEGIN", here, {})), jumps)

WHILE_ ==
  LET c == CS_ROLL(IF_impl(Now), 1)
      site == TakeTop(Now).here
  IN /\ Is({"BEGIN"})
     /\ Word(c, Enclosed(Structure("WHILE", Inner.at, {site})), Planned(site, NoWhere, c.here) @@ jumps)

UNTIL_ ==
  LET c == UNTIL_impl(Now)
  IN Is({"BEGIN"}) /\ Word(c, Front(open), Planned(TakeTop(Now).here, Inner.at, c.here) @@ jumps)

AGAIN_ ==
  LET c == AGAIN_impl(Now)
  IN Is({"BEGIN"}) /\ Word(c, Front(open), Planned(here, Inner.at, c.here) @@ jumps)

REPEAT_ ==
  LET c == AGAIN_impl(Now)
  IN /\ Is({"WHILE"})
     /\ Word(THEN_impl(c), Front(open), To(Planned(here, Inner.at, c.here) @@ jumps, Inner.exits, c.here))

(* How many entries the structure s keeps on the control-flow stack.       *)
EntriesOf(s) ==
  CASE s.kind \in {"IF", "ELSE", "OF", "BEGIN"} -> 1
    [] s.kind = "WHILE" -> 2
    [] s.kind = "CASE" -> 1 + Cardinality(s.exits)
    [] s.kind \in Loops -> 2 + Cardinality(s.exits)
Above(i) == FoldLeft(LAMBDA n, s : n + EntriesOf(s), 0, SubSeq(open, i + 1, Len(open)))

(* A second way back to a BEGIN: its number, CS-PICK and AGAIN.            *)
Continue ==
  \E i \in DOMAIN open :
    /\ open[i].kind \in {"BEGIN", "WHILE"}
    /\ LET c == AGAIN_impl(CS_PICK(Now, Above(i)))
       IN Word(c, open, Planned(here, open[i].at, c.here) @@ jumps)

CASE_ == Opens /\ Word(Mark(Now, 2), Append(open, Structure("CASE", 0, {})), jumps)

OF_ ==
  LET c == OF_impl(Now)
  IN /\ Is({"CASE"}) /\ Opens
     /\ Word(c, Append(open, Structure("OF", 0, {IfSite(c)})), Planned(IfSite(c), NoWhere, c.here - Bytes(<<IF RV THEN "JAL" ELSE "CALL">>)) @@ jumps)

ENDOF_ ==
  LET c == ELSE_impl(Now)
      case == Len(open) - 1
  IN /\ Is({"OF"})
     /\ Word(c, [Front(open) EXCEPT ![case].exits = @ \cup {here}],
             To(Planned(here, NoWhere, c.here) @@ jumps, Inner.exits, c.here))

ENDCASE_ ==
  LET c == ENDCASE_impl(Now)
  IN Is({"CASE"}) /\ Word(c, Front(open), To(jumps, Inner.exits, c.here))

DO_ ==
  LET c == DO_impl(Now)
  IN Opens /\ Word(c, Append(open, Structure("DO", c.here, {})), jumps)

QDO_ ==
  LET c == QDO_impl(Now)
      site == TakeTop(Call(Call(Now))).here
  IN Opens /\ Word(c, open \o <<Structure("IF", 0, {site}), Structure("?DO", c.here, {})>>,
                   Planned(site, NoWhere, IF_impl(Call(Call(Now))).here) @@ jumps)

LEAVE_ ==
  LET c == LEAVE_impl(Now)
      site == Call(Now).here
  IN /\ \E i \in DOMAIN open : open[i].kind \in Loops
     /\ Word(c, LeavesFrom(site), Planned(site, NoWhere, c.here) @@ jumps)

LOOP_ ==
  LET c == LOOP_impl(Now)
      site == TakeTop(Call(Now)).here
      after == UNTIL_impl(Call(Now)).here
      js == To(Planned(site, Inner.at, after) @@ jumps, Inner.exits, after)
      skip == AHEAD_impl(Skip(Now, after - here)).here
  IN \/ Is({"DO"}) /\ Word(c, Front(open), js)
     \/ /\ Is({"?DO"})
        /\ Word(c, Front(Front(open)),
                To(Planned(after, c.here, skip) @@ js, open[Len(open) - 1].exits, skip))

(* A longer stretch without jumps. *)
Body ==
  \E n \in Bodies :
    /\ out.kind = "none" /\ words > 0 /\ bodies = 0
    /\ here' = here + n
    /\ bodies' = 1
    /\ UNCHANGED <<arch, out, mem, cs, open, jumps, words>>

FlowInit ==
  /\ mem = <<>> /\ cs = <<>> /\ open = <<>> /\ jumps = <<>>
  /\ words = 0 /\ bodies = 0

FlowNext ==
  \/ IF_ \/ AHEAD_ \/ ELSE_ \/ THEN_ \/ BEGIN_ \/ WHILE_ \/ UNTIL_ \/ AGAIN_ \/ REPEAT_
  \/ Continue \/ CASE_ \/ OF_ \/ ENDOF_ \/ ENDCASE_ \/ DO_ \/ QDO_ \/ LEAVE_ \/ LOOP_ \/ Body

(***************************************************************************)
(* Properties.                                                             *)
(***************************************************************************)
(* The processor at the jump pc; zero says whether the cell taken from the *)
(* stack was 0.                                                            *)
Step(pc, zero) ==
  LET i == mem[pc]
  IN CASE i[1] = "JAL" -> pc + Sext(i[3], 21)
       [] i[1] = "BEQ" -> IF zero THEN pc + Sext(i[2], 13) ELSE pc + 4
       [] i[1] = "BNE" -> IF zero THEN pc + 4 ELSE pc + Sext(i[2], 13)
       [] i[1] = "NOP" -> pc + 4
       [] i[1] = "JE" -> IF zero THEN pc + 10 + i[2] ELSE pc + 10
       [] OTHER -> pc + 5 + i[2]
Taken(site) == IF mem[site][1] = "BNE" THEN Step(Step(site, TRUE), TRUE) ELSE Step(site, TRUE)
Passed(site) ==
  LET n == Step(site, FALSE)
  IN IF n \in DOMAIN mem /\ mem[n][1] = "NOP" THEN n + 4 ELSE n

(* Every structure, however nested and however long, has its jumps land    *)
(* where it says, taken or not, once it is closed; LEAVE leaves the        *)
(* innermost loop (a CASE between them takes LEAVE's jump for one of its   *)
(* own, cs_leave_impl); and the control-flow stack holds what the open     *)
(* structures put there and no more.                                       *)
BranchesLand ==
  /\ \A site \in DOMAIN jumps :
       jumps[site].to # NoWhere =>
         /\ Taken(site) = jumps[site].to
         /\ mem[site][1] \in {"BEQ", "BNE", "JE"} => Passed(site) = jumps[site].next
  /\ Len(cs) = Above(0)
  /\ open = <<>> => \A site \in DOMAIN jumps : jumps[site].to # NoWhere
=============================================================================
