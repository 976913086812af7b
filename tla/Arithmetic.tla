----------------------------- MODULE Arithmetic -----------------------------
(***************************************************************************)
(* The words that compute with single and double cells in C: UM/MOD,       *)
(* FM/MOD, SM/REM, */, */MOD and M*/, and the words a counted loop calls,  *)
(* on a data stack and a return stack of cells of Width bits.  The top of  *)
(* a stack is its last element, a cell is an unsigned integer, and a       *)
(* double cell has its high cell on top.  A word whose division traps the  *)
(* processor has no step: the program ends there.                          *)
(***************************************************************************)
EXTENDS Bignum

CONSTANTS
  Digits,     \* digits of a bignum in a cell: CELL_WIDTH / V_BIGBITS
  Operands,   \* the cells a program starts with
  Return      \* the address a word returns to, on top of the return stack

Width == BigBits * Digits
Cell == 0 .. 2 ^ Width - 1

ASSUME DigitsAssumption == Digits \in Nat \ {0}
ASSUME OperandsAssumption == Operands \subseteq Cell

VARIABLES
  st,     \* the data stack
  rst,    \* the return stack
  call    \* for the properties: the last word and the stacks it met
vars == <<st, rst, call>>

(* A two's complement integer of w bits, and the cell that holds one. *)
Signed(v, w) == IF v < 2 ^ (w - 1) THEN v ELSE v - 2 ^ w
ToCell(v) == v % 2 ^ Width
IsNegative(c) == Signed(c, Width) < 0
True == ToCell(-1)

(* The quotient and the remainder of C, which round to zero. *)
Abs(v) == IF v < 0 THEN -v ELSE v
Quot(a, b) == IF (a < 0) = (b < 0) THEN Abs(a) \div Abs(b) ELSE -(Abs(a) \div Abs(b))
Rem(a, b) == a - b * Quot(a, b)

(* The stack s without its top n cells, and the i-th cell from the top. *)
Below(s, n) == SubSeq(s, 1, Len(s) - n)
Top(s, i) == s[Len(s) - i]

(* upop and pop, udpop and dpop, dpush; i cells lie above the operand. *)
UPop(s, i) == Top(s, i)
Pop(s, i) == Signed(Top(s, i), Width)
UDPop(s, i) == Top(s, i) * 2 ^ Width + Top(s, i + 1)
DPop(s, i) == Signed(UDPop(s, i), 2 * Width)
DPush(v) == <<ToCell(v), ToCell(v \div 2 ^ Width)>>

Called(word) == call' = [word |-> word, st |-> st, rst |-> rst]

(* What the division of a double cell by n does not trap on. *)
Divides(d, n) == n # 0 /\ ~(d = -(2 ^ (2 * Width - 1)) /\ n = -1)

UM_slash_MOD ==
  LET n == UPop(st, 0)
      d == UDPop(st, 1)
  IN /\ Len(st) >= 3
     /\ n # 0
     /\ st' = Below(st, 3) \o <<ToCell(d % n), ToCell(d \div n)>>
     /\ Called("UM/MOD") /\ UNCHANGED rst

SM_slash_REM ==
  LET n == Pop(st, 0)
      d == DPop(st, 1)
  IN /\ Len(st) >= 3
     /\ Divides(d, n)
     /\ st' = Below(st, 3) \o <<ToCell(Rem(d, n)), ToCell(Quot(d, n))>>
     /\ Called("SM/REM") /\ UNCHANGED rst

(* A mutant: the remainder is corrected when it is negative. *)
FMByRemainder(d, n) == Signed(ToCell(Rem(d, n)), Width) < 0
(* The test is made on the remainder cut to a cell. *)
FMCorrects(d, n) == ToCell(Rem(d, n)) # 0 /\ (d < 0) # (n < 0)

FM_slash_MOD ==
  LET n == Pop(st, 0)
      d == DPop(st, 1)
      fix == IF FMCorrects(d, n) THEN 1 ELSE 0
  IN /\ Len(st) >= 3
     /\ Divides(d, n)
     /\ st' = Below(st, 3) \o <<ToCell(Rem(d, n) + fix * n), ToCell(Quot(d, n) - fix)>>
     /\ Called("FM/MOD") /\ UNCHANGED rst

star_slash ==
  LET n3 == Pop(st, 0)
  IN /\ Len(st) >= 3
     /\ n3 # 0
     /\ st' = Append(Below(st, 3), ToCell(Quot(Pop(st, 2) * Pop(st, 1), n3)))
     /\ Called("*/") /\ UNCHANGED rst

star_slash_MOD ==
  LET n3 == Pop(st, 0)
      product == Pop(st, 2) * Pop(st, 1)
  IN /\ Len(st) >= 3
     /\ n3 # 0
     /\ st' = Below(st, 3) \o <<ToCell(Rem(product, n3)), ToCell(Quot(product, n3))>>
     /\ Called("*/MOD") /\ UNCHANGED rst

(***************************************************************************)
(* M*/: u times n, an integer of three cells, over the unsigned cell d.    *)
(* The magnitudes are multiplied and divided; a zero that ought to be      *)
(* negative is taken for the lowest double cell, whose magnitude lost its  *)
(* one bit.                                                                *)
(***************************************************************************)
(* A mutant: the product is formed in two cells. *)
ScaledInTwoCells(u, n, d) ==
  LET tv == Mul(Import(2 * Digits, Abs(u)), Import(Digits, Abs(n)))
      q == Value(Div(tv, Import(Digits, d), <<>>).x) % 2 ^ (2 * Width - 1)
  IN IF (u < 0) = (n < 0) THEN q ELSE -q
Scaled(u, n, d) ==
  LET tv == Mul(SetBignum(3 * Digits, Import(2 * Digits, Abs(u))), Import(Digits, Abs(n)))
      uv == SetBignum(2 * Digits, Div(tv, Import(Digits, d), <<>>).x)
      q == Value(uv) % 2 ^ (2 * Width - 1)
  IN IF (u < 0) = (n < 0) THEN q
     ELSE IF q = 0 /\ u # 0 /\ n # 0 THEN -(2 ^ (2 * Width - 1)) ELSE -q

M_star_slash ==
  /\ Len(st) >= 4
  /\ st' = Below(st, 4) \o DPush(Scaled(DPop(st, 2), Pop(st, 1), UPop(st, 0)))
  /\ Called("M*/") /\ UNCHANGED rst

(***************************************************************************)
(* The words of a counted loop.  The return stack holds the index, the     *)
(* limit and, on top, where the word returns to.                           *)
(***************************************************************************)
Index == Top(rst, 2)
Limit == Top(rst, 1)

Ends == /\ st' = Append(st, True)
        /\ rst' = Append(Below(rst, 3), Top(rst, 0))
Repeats(below, index) ==
        /\ st' = Append(below, 0)
        /\ rst' = Below(rst, 3) \o <<index, Limit, Top(rst, 0)>>

SYS_LOOP ==
  LET index == ToCell(Index + 1)
  IN /\ Len(rst) >= 3 /\ Len(st) < 4
     /\ IF index = Limit THEN Ends ELSE Repeats(st, index)
     /\ Called("LOOP")

(* Exclusive or of two integers is negative when their signs differ. *)
SignsDiffer(a, b) == IsNegative(a) # IsNegative(b)
(* A mutant: a step down is not told from a step up. *)
CrossesOnce(old, inc) == SignsDiffer(old, ToCell(old + inc))
Crosses(old, inc) == SignsDiffer(old, ToCell(old + inc)) /\ SignsDiffer(old, inc)

SYS_plus_LOOP ==
  LET inc == UPop(st, 0)
  IN /\ Len(rst) >= 3 /\ Len(st) >= 1
     /\ IF Crosses(ToCell(Index - Limit), inc)
        THEN /\ st' = Append(Below(st, 1), True)
             /\ rst' = Append(Below(rst, 3), Top(rst, 0))
        ELSE Repeats(Below(st, 1), ToCell(Index + inc))
     /\ Called("+LOOP")

SYS_LEAVE ==
  /\ Len(rst) >= 3
  /\ rst' = Append(Below(rst, 3), Top(rst, 0))
  /\ Called("LEAVE") /\ UNCHANGED st

(* Four cells on the stack; the index of the loop is any distance from its *)
(* limit.                                                                  *)
Init ==
  /\ st \in [1 .. 4 -> Operands]
  /\ rst = <<ToCell(st[1] + st[2]), st[2], Return>>
  /\ call = [word |-> "none", st |-> <<>>, rst |-> <<>>]

Next ==
  \/ UM_slash_MOD \/ SM_slash_REM \/ FM_slash_MOD
  \/ star_slash \/ star_slash_MOD \/ M_star_slash
  \/ SYS_LOOP \/ SYS_plus_LOOP \/ SYS_LEAVE

Spec == Init /\ [][Next]_vars

(***************************************************************************)
(* What the last word, called with the stacks of call, has to have done.   *)
(***************************************************************************)
Did(word, P(_)) == call.word = word => P(call.st)
InCell(v) == -(2 ^ (Width - 1)) <= v /\ v < 2 ^ (Width - 1)
InDCell(v) == -(2 ^ (2 * Width - 1)) <= v /\ v < 2 ^ (2 * Width - 1)

(* Quotient and remainder are on top of st. *)
Divided(d, n, q, rem) == Pop(st, 0) = q /\ Pop(st, 1) = rem /\ d = q * n + rem

(* A double cell over a cell: whenever the quotient fits a cell, UM/MOD    *)
(* (UM_slash_MOD.c) divides without signs, FM/MOD rounds down so that the  *)
(* remainder has the sign of the divisor, SM/REM, */ and */MOD round to    *)
(* zero; and quotient and remainder make up the dividend, for every        *)
(* combination of signs and at the ends of the range.                      *)
DivisionsRight ==
  /\ Did("UM/MOD", LAMBDA s :
       LET d == UDPop(s, 1) n == UPop(s, 0)
       IN d \div n \in Cell => UPop(st, 0) * n + UPop(st, 1) = d /\ UPop(st, 1) < n)
  /\ Did("FM/MOD", LAMBDA s :
       LET d == DPop(s, 1) n == Pop(s, 0)
           floor == IF n > 0 THEN d \div n ELSE (-d) \div (-n)
       IN InCell(floor) => Divided(d, n, floor, d - n * floor))
  /\ Did("SM/REM", LAMBDA s :
       LET d == DPop(s, 1) n == Pop(s, 0)
       IN InCell(Quot(d, n)) => Divided(d, n, Quot(d, n), Rem(d, n)))
  /\ Did("*/MOD", LAMBDA s :
       LET d == Pop(s, 2) * Pop(s, 1) n == Pop(s, 0)
       IN InCell(Quot(d, n)) => Divided(d, n, Quot(d, n), Rem(d, n)))
  /\ Did("*/", LAMBDA s :
       LET d == Pop(s, 2) * Pop(s, 1) n == Pop(s, 0)
       IN InCell(Quot(d, n)) => Pop(st, 0) = Quot(d, n))

(* M*/ (M_star_slash.c) keeps all three cells of the product: the quotient *)
(* rounded to zero is right whenever it fits two cells, up to the lowest   *)
(* double cell.  The one exception is a product between -d and 0, whose    *)
(* quotient is zero: the code answers with the lowest double cell.         *)
ScaledRight ==
  Did("M*/", LAMBDA s :
    LET d == UPop(s, 0)
        product == DPop(s, 2) * Pop(s, 1)
        q == Quot(product, d)
    IN d # 0 /\ InDCell(q) =>
         DPop(st, 0) = IF product < 0 /\ q = 0 THEN -(2 ^ (2 * Width - 1)) ELSE q)

(* Going by inc from index, around the circle of cells, steps over the     *)
(* boundary between limit - 1 and limit.                                   *)
Crossed(index, limit, inc) ==
  \/ inc > 0 /\ \E k \in 1 .. inc : ToCell(index + k) = limit
  \/ inc < 0 /\ \E k \in 1 .. -inc : ToCell(index - k) = ToCell(limit - 1)

(* LOOP and +LOOP (cs.c) end a loop exactly when the index crosses the     *)
(* boundary below the limit, wherever the two are and whichever way the    *)
(* sums wrap; until then the index advances and the limit and the return   *)
(* address stay; LEAVE and the end of the loop drop the index and limit    *)
(* and nothing else.                                                       *)
LoopEnds ==
  LET index == Top(call.rst, 2)
      limit == Top(call.rst, 1)
      inc == IF call.word = "LOOP" THEN 1 ELSE Pop(call.st, 0)
      left == Append(Below(call.rst, 3), Top(call.rst, 0))
  IN /\ call.word \in {"LOOP", "+LOOP"} =>
          IF Crossed(index, limit, inc) THEN Top(st, 0) = True /\ rst = left
          ELSE /\ Top(st, 0) = 0
               /\ rst = Below(call.rst, 3) \o <<ToCell(index + inc), limit, Top(call.rst, 0)>>
     /\ call.word = "LEAVE" => rst = left /\ st = call.st

(***************************************************************************)
(* The functions of v_bignum.c.c against the integers: x has the digits of *)
(* the two cells on top, y of the third and z of the fourth.               *)
(***************************************************************************)
(* A dividend with its top bit set and below the divisor does not keep     *)
(* that bit in the remainder (v_bignum_div).                               *)
Computes(x, y) ==
  LET limit == 2 ^ (BigBits * Len(x))
      vx == Value(x)
      vy == Value(y)
      d == Div(x, y, y)
  IN /\ Value(Add(x, y)) = (vx + vy) % limit
     /\ Value(Sub(x, y)) = (vx - vy) % limit
     /\ Value(Mul(x, y)) = (vx * vy) % limit
     /\ vy # 0 => Value(d.x) = vx \div vy
     /\ vy # 0 /\ (2 * vy <= limit \/ vx >= vy \/ 2 * vx < limit) => Value(d.rem) = vx % vy
     /\ Gte(x, y) <=> vx >= vy

Digital(x, y, z) ==
  LET n == Len(x)
      limit == 2 ^ (BigBits * n)
      vx == Value(x)
      vy == Value(y)
  IN /\ Computes(x, y)
     /\ Computes(x, y \o z)
     /\ vy # 0 => Value(Mod(x, y)) = vx % vy
     /\ Gte(y, x) <=> vy >= vx /\ ~(vx = vy /\ vx # 0)
     /\ \A k \in 0 .. n * BigBits :
          /\ Value(ShiftLeft(x, k)) = (vx * 2 ^ k) % limit
          /\ Value(ShiftRight(x, k)) = vx \div 2 ^ k
     /\ ShiftLeft1(x) = ShiftLeft(x, 1)
     /\ EqZero(x) <=> vx = 0
     /\ EqOne(x) <=> vx = 1
     /\ Eq(y, z) <=> vy = Value(z)
     /\ Value(Not(x)) = limit - 1 - vx
     /\ \A digit \in Digit :
          /\ Value(AddDigit(x, digit)) = (vx + digit) % limit
          /\ Value(SubDigit(x, digit)) = (vx - digit) % limit
          /\ Value(MulDigit(x, digit)) = (vx * digit) % limit
          /\ Value(SetDigit(n, digit)) = Value(One(n)) * digit

(* The functions of v_bignum.c.c, the ones M*/ calls and the others,       *)
(* compute the integers they stand for, cut to the digits of the result,   *)
(* carries over several digits included, for a second number of half the   *)
(* digits of the first and of as many; but a remainder is cut short when   *)
(* the dividend has its top bit set and is less than the divisor, and gte  *)
(* of equal numbers says no when the first has fewer digits.               *)
LibraryRight ==
  Len(st) = 4 =>
    Digital(Import(Digits, Top(st, 1)) \o Import(Digits, Top(st, 0)),
            Import(Digits, Top(st, 2)), Import(Digits, Top(st, 3)))

(* Powers modulo n come out right, for a number of no more digits than the *)
(* modulus, for exponents from 2 on, and for 1 when the number is below    *)
(* the modulus: squares, their reduction by mu and the order of the        *)
(* exponent's bits fit together.  A longer number has a square with too    *)
(* many digits for mu: 2^64 modulo 3 is not 1 then (v_bignum_reduce).      *)
PowersRight ==
  Len(st) = 4 =>
    \A x \in {Import(Digits, Top(st, 0))}, y \in {Import(Digits, Top(st, 1))},
       n \in {Import(Digits, Top(st, 2))} :
      Value(n) # 0 /\ Used(x) <= Used(n) /\ (Value(y) > 1 \/ (Value(y) = 1 /\ Value(x) < Value(n))) =>
        Value(PowMod(x, y, n)) = FoldLeft(LAMBDA p, i : (p * Value(x)) % Value(n), 1,
                                          [i \in 1 .. Value(y) |-> i])
=============================================================================
