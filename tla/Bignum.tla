------------------------------- MODULE Bignum -------------------------------
(***************************************************************************)
(* The unsigned integers of double/v_bignum.c.c: a sequence of digits, the *)
(* low one first, whose length never changes.  A result that needs more    *)
(* digits than its number has is cut off.  An operator below returns what  *)
(* the function of the same name leaves in its first argument.             *)
(***************************************************************************)
EXTENDS Integers, Sequences, FiniteSetsExt, SequencesExt

CONSTANT BigBits    \* V_BIGBITS: bits of a digit, 16 in the program

ASSUME BigBitsAssumption == BigBits \in Nat \ {0}

Base == 2 ^ BigBits
Digit == 0 .. Base - 1
Numbers(n) == [1 .. n -> Digit]

(* The sequence f, of which TLC evaluates every element once. *)
Fixed(f) == f \o <<>>

(* The digit at place i; a number has a zero at every place above its own. *)
At(x, i) == IF i \in DOMAIN x THEN x[i] ELSE 0

(* raw_import and raw_export: between an integer and n digits. *)
Import(n, v) == [i \in 1 .. n |-> (v \div 2 ^ (BigBits * (i - 1))) % Base]
Value(x) == FoldRight(LAMBDA d, v : d + Base * v, x, 0)

Zero(n) == [i \in 1 .. n |-> 0]
One(n) == [Zero(n) EXCEPT ![1] = 1]
SetDigit(n, d) == [Zero(n) EXCEPT ![1] = d]
SetBignum(n, y) == Fixed([i \in 1 .. n |-> At(y, i)])
Not(x) == [i \in DOMAIN x |-> Base - 1 - x[i]]

(***************************************************************************)
(* Bits.                                                                   *)
(***************************************************************************)
BitTest(x, bit) ==
  /\ bit \in 0 .. Len(x) * BigBits - 1
  /\ (x[bit \div BigBits + 1] \div 2 ^ (bit % BigBits)) % 2 = 1

BitSet(x, bit) ==
  IF bit >= Len(x) * BigBits \/ BitTest(x, bit) THEN x
  ELSE [x EXCEPT ![bit \div BigBits + 1] = @ + 2 ^ (bit % BigBits)]

BitMsb(x) == Max({-1} \cup {b \in 0 .. Len(x) * BigBits - 1 : BitTest(x, b)})

(* The bits bits of y that end at msb, in n digits. *)
SetPart(n, y, msb, bits) ==
  IF msb > Len(y) * BigBits THEN Zero(n)
  ELSE FoldLeft(LAMBDA x, i : IF BitTest(y, msb - bits + i) THEN BitSet(x, i - 1) ELSE x,
                Zero(n), [i \in 1 .. bits |-> i])

(* The number x with e[i] at each place: a place keeps its low digit and   *)
(* hands on the rest, negative after a difference; c comes to the first.   *)
Ripple(e, c) ==
  LET carry[i \in 0 .. Len(e)] == IF i = 0 THEN c ELSE (e[i] + carry[i - 1]) \div Base
  IN Fixed([i \in DOMAIN e |-> (e[i] + carry[i - 1]) % Base])

ShiftLeft(x, count) ==
  Ripple([i \in DOMAIN x |-> At(x, i - count \div BigBits) * 2 ^ (count % BigBits)], 0)

ShiftLeft1(x) == Ripple([i \in DOMAIN x |-> x[i] * 2], 0)

(* A mutant: the bits a digit takes from the one above it are dropped. *)
ShiftRightDrops(x, count) ==
  [i \in DOMAIN x |-> At(x, i + count \div BigBits) \div 2 ^ (count % BigBits)]
ShiftRight(x, count) ==
  LET places == count \div BigBits
      rest == count % BigBits
  IN Fixed([i \in DOMAIN x |-> At(x, i + places) \div 2 ^ rest
                               + ((At(x, i + places + 1) * 2 ^ (BigBits - rest)) % Base)])

(***************************************************************************)
(* Comparisons.  The last line of gte compares the cells below the first   *)
(* digits, which hold the lengths; eq of numbers of different lengths does *)
(* not look at the digit above the shorter one.                            *)
(***************************************************************************)
EqZero(x) == \A i \in DOMAIN x : x[i] = 0
EqOne(x) == x[1] = 1 /\ \A i \in DOMAIN x \ {1} : x[i] = 0

Eq(x, y) ==
  LET short == Min({Len(x), Len(y)})
  IN /\ \A i \in 1 .. short : x[i] = y[i]
     /\ \A i \in short + 2 .. Max({Len(x), Len(y)}) : At(x, i) = 0 /\ At(y, i) = 0

Used(x) == Max({0} \cup {i \in DOMAIN x : x[i] # 0})

Gte(x, y) ==
  LET differ == {k \in 1 .. Used(x) : x[k] # y[k]}
  IN \/ Used(x) > Used(y)
     \/ Used(x) = 0 /\ Used(y) = 0
     \/ /\ Used(x) = Used(y) /\ Used(x) > 0
        /\ IF differ = {} THEN Len(x) >= Len(y) ELSE x[Max(differ)] > y[Max(differ)]

(***************************************************************************)
(* Sums and products.                                                      *)
(***************************************************************************)
AddDigit(x, d) == Ripple(x, d)
SubDigit(x, d) == Ripple(x, -d)
MulDigit(x, d) == Ripple([i \in DOMAIN x |-> x[i] * d], 0)
Add(x, y) == Ripple([i \in DOMAIN x |-> x[i] + At(y, i)], 0)
Sub(x, y) == Ripple([i \in DOMAIN x |-> x[i] - At(y, i)], 0)

(* One row of the product: w + x * y[i], moved up by i - 1 places.  The    *)
(* carry out of the row goes one place further up than it belongs, above   *)
(* all the places that are kept.                                           *)
MulRow(w, x, i, d) ==
  LET n == Len(x)
      row == Ripple([j \in 1 .. n + 1 |-> IF j > n THEN 0 ELSE w[i + j - 1] + x[j] * d], 0)
  IN Fixed([k \in DOMAIN w |->
              IF k \in i .. i + n - 1 THEN row[k - i + 1]
              ELSE IF k = i + n + 1 THEN row[n + 1] ELSE w[k]])

Mul(x, y) ==
  SetBignum(Len(x), FoldLeft(LAMBDA w, i : MulRow(w, x, i, y[i]),
                             Zero(Len(x) + Len(y) + 1), [i \in 1 .. Len(y) |-> i]))

(***************************************************************************)
(* Division: [x |-> quotient, rem |-> remainder].  work holds the bits of  *)
(* x brought down so far.                                                  *)
(***************************************************************************)
DivStep(y, s, bit) ==
  LET fits == Gte(s.work, y)
      low == IF bit THEN 1 ELSE 0
  IN [q |-> LET q == ShiftLeft1(s.q) IN IF fits THEN [q EXCEPT ![1] = @ + 1] ELSE q,
      work |-> LET w == ShiftLeft1(IF fits THEN Sub(s.work, y) ELSE s.work)
               IN [w EXCEPT ![1] = @ + low]]

Div(x, y, rem) ==
  LET msbx == BitMsb(x)
      msby == BitMsb(y)
      start == [q |-> Zero(Len(x)), work |-> SetPart(Len(x), x, msbx, msby + 1)]
      done == FoldLeft(LAMBDA s, k : DivStep(y, s, BitTest(x, msbx - msby - k)),
                       start, [k \in 1 .. msbx - msby + 1 |-> k])
  IN IF msby > msbx THEN [x |-> Zero(Len(x)), rem |-> SetBignum(Len(rem), x)]
     ELSE IF msby < 0 THEN [x |-> Zero(Len(x)), rem |-> rem]
     ELSE [x |-> done.q, rem |-> SetBignum(Len(rem), ShiftRight(done.work, 1))]

Mod(x, y) == SetBignum(Len(x), Div(x, y, Zero(Max({Len(x), Len(y)}))).rem)

(***************************************************************************)
(* Reduction modulo m by the helper mu, and powers modulo n.               *)
(***************************************************************************)
ReduceBegin(m) ==
  LET k == Used(m)
  IN Div(BitSet(Zero(2 * k + 1), BigBits * 2 * k), m, <<>>).x

Reduce(x, m, mu) ==
  LET k == Used(m)
      q == ShiftRight(Mul(ShiftRight(SetBignum(Len(x) + Len(mu) - (k - 1), x),
                                     BigBits * (k - 1)), mu), BigBits * (k + 1))
      r == Sub(SetBignum(Len(x), SetBignum(k + 1, x)),
               SetBignum(k + 1, Mul(SetBignum(Len(x), q), m)))
      term == BitSet(Zero(k + BigBits), BigBits * (k + 1))
      below[v \in Numbers(Len(x))] == IF Gte(v, m) THEN below[Sub(v, m)] ELSE v
  IN below[IF BitTest(r, BigBits * Len(r) - 1) THEN Add(r, term) ELSE r]

(* One row of the square of the t low digits.  A doubled product may need  *)
(* one bit more than two digits: that bit is the variable high.            *)
SquareRow(w, x, t, i) ==
  LET first == (w[2 * i - 1] + x[i] * x[i]) % Base ^ 2
      Sum(j, c) == 2 * x[i] * x[j] + w[i + j - 1] + c
      carry[j \in i .. t] == IF j = i THEN first \div Base ELSE Sum(j, carry[j - 1]) \div Base
  IN Fixed([k \in DOMAIN w |->
              IF k = 2 * i - 1 THEN first % Base
              ELSE IF k \in 2 * i .. i + t - 1 THEN Sum(k - i + 1, carry[k - i]) % Base
              ELSE IF k = i + t THEN carry[t] ELSE w[k]])

SquareHalf(x) ==
  LET t == Used(SetBignum(Len(x) \div 2, x))
      w == FoldLeft(LAMBDA v, i : SquareRow(v, x, t, i), Zero(2 * t), [i \in 1 .. t |-> i])
  IN IF Len(x) < 2 THEN x ELSE SetBignum(Len(x), [i \in DOMAIN w |-> w[i] % Base])

(* A mutant: the bits of the exponent are taken from the low end. *)
PowModBackwards(x, y, n) ==
  LET mu == ReduceBegin(n)
      Squared(v) == Reduce(SquareHalf(v), n, mu)
      Round(v, bit) == IF bit THEN Reduce(Mul(Squared(v), x), n, mu) ELSE Squared(v)
  IN SetBignum(Len(x), FoldLeft(LAMBDA v, i : Round(v, BitTest(y, i - 1)),
                                SetBignum(2 * Len(x), x), [i \in 1 .. BitMsb(y) |-> i]))
PowMod(x, y, n) ==
  LET k == BitMsb(y)
      mu == ReduceBegin(n)
      Squared(v) == Reduce(SquareHalf(v), n, mu)
      Round(v, bit) == IF bit THEN Reduce(Mul(Squared(v), x), n, mu) ELSE Squared(v)
  IN SetBignum(Len(x), FoldLeft(LAMBDA v, i : Round(v, BitTest(y, k - i)),
                                SetBignum(2 * Len(x), x), [i \in 1 .. k |-> i]))
=============================================================================
