-------------------------- MODULE Compiler_proofs --------------------------
(***************************************************************************)
(* What the compiler emits does what was compiled, for every width of      *)
(* cells and immediates, every number and every table of exported words.   *)
(* First the instructions: every one the assemblers put together is the    *)
(* one the processor reads, for every register, every immediate that fits  *)
(* and every entry of the tables; a word is the set of its bits, and a     *)
(* field of it is read back.  Then code: what a sequence of instructions   *)
(* leaves is what its parts leave one after the other, and each part has   *)
(* a lemma.                                                                *)
(***************************************************************************)
EXTENDS Compiler, FiniteSetTheorems, FunctionTheorems, SequenceTheorems,
        WellFoundedInduction, TLAPS

-----------------------------------------------------------------------------
(* Powers of two count the subsets of an interval; with one element more   *)
(* there are the subsets without it and as many with it.                   *)

LEMMA Counted ==
  ASSUME NEW n \in Nat
  PROVE  /\ IsFiniteSet(SUBSET (1 .. n))
         /\ Cardinality(SUBSET (1 .. n)) = 2 ^ n
         /\ 2 ^ n \in Nat \ {0}
<1>1. IsFiniteSet(1 .. n) /\ Cardinality(1 .. n) = n
  BY FS_Interval
<1>2. IsFiniteSet(SUBSET (1 .. n)) /\ Cardinality(SUBSET (1 .. n)) = 2 ^ n
  BY <1>1, FS_SUBSET
<1>3. Cardinality(SUBSET (1 .. n)) \in Nat
  BY <1>2, FS_CardinalityType
<1>4. Cardinality(SUBSET (1 .. n)) # 0
  <2>1. {} \in SUBSET (1 .. n)
    OBVIOUS
  <2> QED BY <1>2, <2>1, FS_EmptySet
<1> QED BY <1>2, <1>3, <1>4

LEMMA Doubles ==
  ASSUME NEW n \in Nat
  PROVE  2 ^ (n + 1) = 2 * 2 ^ n
<1> DEFINE A == SUBSET (1 .. n)
           B == {s \in SUBSET (1 .. n + 1) : n + 1 \in s}
           with == [s \in A |-> s \cup {n + 1}]
<1>1. A \cup B = SUBSET (1 .. n + 1)
  <2>1. 1 .. n + 1 = (1 .. n) \cup {n + 1} /\ n + 1 \notin 1 .. n
    OBVIOUS
  <2> QED BY <2>1
<1>2. A \cap B = {}
  OBVIOUS
<1>3. with \in Bijection(A, B)
  <2>1. 1 .. n + 1 = (1 .. n) \cup {n + 1} /\ n + 1 \notin 1 .. n
    OBVIOUS
  <2>2. \A s \in A : s \cup {n + 1} \in B
    BY <2>1
  <2>3. \A s, t \in A : s \cup {n + 1} = t \cup {n + 1} => s = t
    BY <2>1
  <2>4. ASSUME NEW t \in B PROVE \E s \in A : s \cup {n + 1} = t
    <3>1. t \ {n + 1} \in A /\ (t \ {n + 1}) \cup {n + 1} = t
      BY <2>1
    <3> QED BY <3>1
  <2> HIDE DEF A, B
  <2> QED BY <2>2, <2>3, <2>4, Fun_IsBij
<1>4. IsFiniteSet(A) /\ Cardinality(A) = 2 ^ n /\ 2 ^ n \in Nat
  BY Counted
<1>5. IsFiniteSet(B) /\ Cardinality(B) = 2 ^ n
  <2>1. ExistsBijection(A, B)
    BY <1>3 DEF ExistsBijection
  <2> HIDE DEF A, B
  <2> QED BY <1>4, <2>1, FS_Bijection
<1>6. Cardinality(A \cup B) = 2 ^ (n + 1)
  <2>1. n + 1 \in Nat
    OBVIOUS
  <2> QED BY <1>1, <2>1, Counted
<1>7. Cardinality(A \cup B) = Cardinality(A) + Cardinality(B) - Cardinality(A \cap B)
  <2> HIDE DEF A, B
  <2> QED BY <1>4, <1>5, FS_Union
<1>8. Cardinality(A \cap B) = 0
  BY <1>2, FS_EmptySet
<1> HIDE DEF A, B
<1> QED BY <1>4, <1>5, <1>6, <1>7, <1>8

LEMMA Smallest ==
  ASSUME NEW T, T \subseteq Nat, T # {}
  PROVE  \E x \in T : \A y \in T : x <= y
<1>1. PICK x \in T : \A y \in T : ~(<<y, x>> \in OpToRel(<, Nat))
  BY NatLessThanWellFounded, WFMin
<1>2. \A y \in T : ~(y < x)
  BY <1>1 DEF OpToRel
<1> QED BY <1>2

LEMMA AddsUp ==
  ASSUME NEW a \in Nat, NEW b \in Nat
  PROVE  2 ^ (a + b) = 2 ^ a * 2 ^ b
<1> DEFINE T == {n \in Nat : 2 ^ (a + n) # 2 ^ a * 2 ^ n}
<1> SUFFICES ASSUME T # {} PROVE FALSE
  OBVIOUS
<1>1. PICK n \in T : \A k \in T : n <= k
  BY Smallest
<1>2. CASE n = 0
  <2>1. 2 ^ n = 1 /\ a + n = a /\ 2 ^ a \in Nat
    <3>1. n \in Nat /\ SUBSET (1 .. n) = {{}}
      BY <1>2
    <3>2. Cardinality({{}}) = 1
      BY FS_Singleton
    <3>3. Cardinality(SUBSET (1 .. n)) = 2 ^ n /\ 2 ^ a \in Nat
      BY <3>1, Counted
    <3> QED BY <1>2, <3>1, <3>2, <3>3
  <2>2. 2 ^ (a + n) = 2 ^ a * 2 ^ n
    BY <2>1
  <2> QED BY <2>2
<1>3. CASE n # 0
  <2>1. n - 1 \in Nat /\ n = (n - 1) + 1 /\ a + n = (a + (n - 1)) + 1 /\ a + (n - 1) \in Nat /\ ~(n <= n - 1)
    BY <1>3
  <2>2. 2 ^ (a + (n - 1)) = 2 ^ a * 2 ^ (n - 1)
    BY <1>1, <2>1
  <2>3. 2 ^ n = 2 * 2 ^ (n - 1) /\ 2 ^ (a + n) = 2 * 2 ^ (a + (n - 1))
    <3> DEFINE k == n - 1
    <3>1. k \in Nat /\ a + k \in Nat /\ n = k + 1 /\ a + n = (a + k) + 1
      BY <2>1
    <3> HIDE DEF k, T
    <3>2. 2 ^ (k + 1) = 2 * 2 ^ k /\ 2 ^ ((a + k) + 1) = 2 * 2 ^ (a + k)
      BY <3>1, Doubles
    <3>3. 2 ^ n = 2 * 2 ^ k /\ 2 ^ (a + n) = 2 * 2 ^ (a + k)
      BY <3>1, <3>2
    <3> QED BY <3>3 DEF k
  <2>4. ASSUME NEW x \in Nat, NEW y \in Nat PROVE 2 * (x * y) = x * (2 * y)
    OBVIOUS
  <2>5. 2 ^ a \in Nat /\ 2 ^ (n - 1) \in Nat
    BY <2>1, Counted
  <2>6. 2 ^ (a + n) = 2 ^ a * 2 ^ n
    BY <2>2, <2>3, <2>4, <2>5
  <2> QED BY <2>6
<1> QED BY <1>2, <1>3
-----------------------------------------------------------------------------
(* Integers: quotients and remainders, and products that are monotonic.    *)

LEMMA Euclid ==
  ASSUME NEW a \in Int, NEW y \in Nat \ {0}
  PROVE  a \div y \in Int /\ a % y \in 0 .. y - 1 /\ a = y * (a \div y) + (a % y)
OBVIOUS

LEMMA Monotonic ==
  ASSUME NEW a \in Int, NEW b \in Int, NEW c \in Nat, a <= b
  PROVE  c * a <= c * b
<1>1. c * (b - a) >= 0
  OBVIOUS
<1>2. c * (b - a) = c * b - c * a
  OBVIOUS
<1> QED BY <1>1, <1>2

LEMMA Unique ==
  ASSUME NEW y \in Nat \ {0}, NEW k \in Int, NEW r \in 0 .. y - 1, NEW a \in Int, a = y * k + r
  PROVE  a \div y = k /\ a % y = r
<1> DEFINE q == a \div y
           s == a % y
<1>1. q \in Int /\ s \in 0 .. y - 1 /\ a = y * q + s
  BY Euclid
<1> HIDE DEF q, s
<1>2. CASE q > k
  <2>1. y * (k + 1) <= y * q
    BY <1>1, <1>2, Monotonic
  <2>2. y * (k + 1) = y * k + y
    OBVIOUS
  <2> QED BY <1>1, <2>1, <2>2
<1>3. CASE q < k
  <2>1. y * (q + 1) <= y * k
    BY <1>1, <1>3, Monotonic
  <2>2. y * (q + 1) = y * q + y
    BY <1>1
  <2> QED BY <1>1, <2>1, <2>2
<1>4. CASE q = k
  <2>1. s = r
    BY <1>1, <1>4
  <2> QED BY <1>4, <2>1 DEF q, s
<1> QED BY <1>1, <1>2, <1>3, <1>4

LEMMA Product ==
  ASSUME NEW a \in Nat, NEW b \in Nat
  PROVE  a * b \in Nat
OBVIOUS

(* Sums that differ by a multiple of m leave the same remainder.           *)
LEMMA SameRemainder ==
  ASSUME NEW m \in Nat \ {0}, NEW a \in Int, NEW b \in Int, NEW k \in Int, a = b + m * k
  PROVE  a % m = b % m
<1> DEFINE q == b \div m
           s == b % m
<1>1. q \in Int /\ s \in 0 .. m - 1 /\ b = m * q + s
  BY Euclid
<1> HIDE DEF q, s
<1>2. a = m * (q + k) + s
  <2>1. m * (q + k) = m * q + m * k
    BY <1>1
  <2> QED BY <1>1, <2>1
<1>3. a % m = s
  BY <1>1, <1>2, Unique
<1> QED BY <1>3 DEF s

LEMMA Remains ==
  ASSUME NEW m \in Nat \ {0}, NEW a \in 0 .. m - 1
  PROVE  a % m = a /\ a \div m = 0
<1>1. a = m * 0 + a
  OBVIOUS
<1> QED BY <1>1, Unique

LEMMA Residue ==
  ASSUME NEW w \in Nat \ {0}, NEW v \in 0 .. w - 1, NEW k \in Int, NEW t \in Int, t = v + k * w
  PROVE  t % w = v
<1>1. t = w * k + v
  OBVIOUS
<1> QED BY <1>1, Unique

(* Whatever holds at 0 and passes from k to k + 1 holds up to n.           *)
LEMMA Ascends ==
  ASSUME NEW n \in Nat, NEW P, P \subseteq 0 .. n, 0 \in P,
         \A k \in 0 .. n - 1 : k \in P => k + 1 \in P
  PROVE  \A k \in 0 .. n : k \in P
<1> DEFINE T == (0 .. n) \ P
<1> SUFFICES ASSUME T # {} PROVE FALSE
  OBVIOUS
<1>1. PICK k \in T : \A j \in T : k <= j
  <2>1. T \subseteq Nat
    OBVIOUS
  <2> HIDE DEF T
  <2> QED BY <2>1, Smallest
<1>2. k # 0 /\ k \in 0 .. n
  OBVIOUS
<1>3. k - 1 \in 0 .. n - 1 /\ k - 1 \in 0 .. n /\ ~(k <= k - 1) /\ (k - 1) + 1 = k
  BY <1>2
<1>4. k - 1 \in P
  BY <1>1, <1>3
<1>5. k \in P
  BY <1>3, <1>4
<1> QED BY <1>5

-----------------------------------------------------------------------------
(* Folds over a finite set, as the library defines them: over the subsets, *)
(* of which pick takes the next element.  When each step stays within S    *)
(* the fold exists and its result is in S.                                 *)
Picks(P, pick) == \A s \in SUBSET P : s # {} => pick[s] \in s
Folded(f, P, base, step, pick) ==
  \A s \in SUBSET P : f[s] = IF s = {} THEN base ELSE step[pick[s]][f[s \ {pick[s]}]]

LEMMA Fewer ==
  ASSUME NEW P, IsFiniteSet(P), NEW s \in SUBSET P, NEW i \in s
  PROVE  /\ s \ {i} \in SUBSET P
         /\ Cardinality(s) \in Nat /\ Cardinality(s \ {i}) \in Nat
         /\ Cardinality(s \ {i}) = Cardinality(s) - 1
<1>2. IsFiniteSet(s)
  BY FS_Subset
<1>3. IsFiniteSet(s \ {i}) /\ Cardinality(s \ {i}) = Cardinality(s) - 1
  BY <1>2, FS_RemoveElement
<1> QED BY <1>2, <1>3, FS_CardinalityType

LEMMA Counts ==
  ASSUME NEW P, IsFiniteSet(P), NEW s \in SUBSET P
  PROVE  Cardinality(s) \in Nat /\ Cardinality(s) <= Cardinality(P) /\ Cardinality(P) \in Nat
         /\ (s # {} => Cardinality(s) # 0)
<1>1. IsFiniteSet(s) /\ Cardinality(s) <= Cardinality(P)
  BY FS_Subset
<1> QED BY <1>1, FS_CardinalityType, FS_EmptySet

LEMMA Folding ==
  ASSUME NEW P, IsFiniteSet(P), NEW S, NEW base \in S, NEW step \in [P -> [S -> S]],
         NEW pick, Picks(P, pick)
  PROVE  \E f \in [SUBSET P -> S] : Folded(f, P, base, step, pick)
<1> DEFINE n == Cardinality(P)
           Up(k) == {s \in SUBSET P : Cardinality(s) <= k}
           Rec(f, s) == f[s] = IF s = {} THEN base ELSE step[pick[s]][f[s \ {pick[s]}]]
           Done(k) == \E f \in [Up(k) -> S] : \A s \in Up(k) : Rec(f, s)
           T == {k \in Nat : ~Done(k)}
<1>0. n \in Nat
  BY FS_CardinalityType
<1> HIDE DEF n
<1>1. \A s \in SUBSET P : s # {} => /\ pick[s] \in s /\ pick[s] \in P
                                    /\ s \ {pick[s]} \in SUBSET P
                                    /\ Cardinality(s) \in Nat
                                    /\ Cardinality(s \ {pick[s]}) = Cardinality(s) - 1
  BY Fewer, Zenon DEF Picks
<1>2. ASSUME T # {} PROVE FALSE
  <2> HIDE DEF Done
  <2>1. PICK k \in T : \A j \in T : k <= j
    BY <1>2, Smallest
  <2>2. CASE k = 0
    <3>1. \A s \in Up(k) : s = {}
      <4>1. \A s \in SUBSET P : s # {} => Cardinality(s) # 0 /\ Cardinality(s) \in Nat
        BY Counts
      <4>2. \A s \in Up(k) : s \in SUBSET P /\ Cardinality(s) <= 0
        BY <2>2
      <4> HIDE DEF Up
      <4> QED BY <4>1, <4>2
    <3> DEFINE f == [s \in Up(k) |-> base]
    <3>2. f \in [Up(k) -> S] /\ \A s \in Up(k) : Rec(f, s)
      <4> HIDE DEF Up
      <4> QED BY <3>1
    <3>3. Done(k)
      <4> HIDE DEF f, Up, Rec
      <4> QED BY <3>2 DEF Done
    <3> QED BY <3>3
  <2>3. CASE k # 0
    <3> DEFINE j == k - 1
    <3>1. j \in Nat /\ ~(k <= j) /\ k = j + 1
      BY <2>3
    <3> HIDE DEF j
    <3>2. Done(j)
      BY <2>1, <3>1
    <3>3. PICK f \in [Up(j) -> S] : \A s \in Up(j) : Rec(f, s)
      <4> HIDE DEF Up, Rec
      <4> QED BY <3>2 DEF Done
    <3> DEFINE g == [s \in Up(k) |-> IF s = {} THEN base ELSE step[pick[s]][f[s \ {pick[s]}]]]
    <3>4. \A s \in Up(k) : s # {} => pick[s] \in P /\ s \ {pick[s]} \in Up(j)
      <4> SUFFICES ASSUME NEW s \in Up(k), s # {} PROVE pick[s] \in P /\ s \ {pick[s]} \in Up(j)
        OBVIOUS
      <4>1. /\ Cardinality(s) <= k /\ Cardinality(s) \in Nat
            /\ Cardinality(s \ {pick[s]}) = Cardinality(s) - 1
            /\ s \ {pick[s]} \in SUBSET P /\ pick[s] \in P
        BY <1>1
      <4>2. Cardinality(s \ {pick[s]}) <= j
        BY <3>1, <4>1
      <4> QED BY <4>1, <4>2
    <3>5. Up(j) \subseteq Up(k)
      <4>1. \A s \in Up(j) : s \in SUBSET P /\ Cardinality(s) <= j /\ Cardinality(s) \in Nat
        BY Counts
      <4>2. \A s \in Up(j) : Cardinality(s) <= k
        BY <3>1, <4>1
      <4> QED BY <4>1, <4>2
    <3> HIDE DEF Up
    <3>6. g \in [Up(k) -> S]
      <4>1. \A s \in Up(k) : s # {} => step[pick[s]][f[s \ {pick[s]}]] \in S
        BY <3>4
      <4> QED BY <4>1
    <3>7. \A s \in Up(j) : g[s] = f[s]
      BY <3>3, <3>5
    <3>8. \A s \in Up(k) : Rec(g, s)
      BY <3>4, <3>7
    <3>9. Done(k)
      <4> HIDE DEF g, Rec
      <4> QED BY <3>6, <3>8 DEF Done
    <3> QED BY <3>9
  <2> QED BY <2>2, <2>3
<1>3. Done(n)
  <2> HIDE DEF Done
  <2> QED BY <1>0, <1>2
<1>4. Up(n) = SUBSET P
  <2>1. \A s \in SUBSET P : Cardinality(s) <= n
    BY Counts DEF n
  <2> QED BY <2>1
<1> HIDE DEF Up
<1> QED BY <1>3, <1>4 DEF Folded

(* The places are taken from the highest on.                               *)
LEMMA HasMax ==
  ASSUME NEW n \in Nat, NEW s \in SUBSET (1 .. n), s # {}
  PROVE  Max(s) \in s /\ \A y \in s : Max(s) >= y
<1>1. s \subseteq Nat
  OBVIOUS
<1> DEFINE U == {n - y : y \in s}
<1>4. U \subseteq Nat /\ U # {}
  <2>1. \A y \in s : n - y \in Nat
    OBVIOUS
  <2> QED BY <2>1
<1>5. PICK u \in U : \A v \in U : u <= v
  BY <1>4, Smallest
<1>6. PICK z \in s : u = n - z
  OBVIOUS
<1>7. \A y \in s : z >= y
  <2> SUFFICES ASSUME NEW y \in s PROVE z >= y
    OBVIOUS
  <2>1. n - z <= n - y
    BY <1>5, <1>6
  <2>2. z \in Nat /\ y \in Nat
    BY <1>1
  <2> QED BY <2>1, <2>2
<1> QED BY <1>7 DEF Max

LEMMA LastPlace ==
  ASSUME NEW n \in Nat, NEW i \in 1 .. n
  PROVE  /\ 1 .. i \in SUBSET (1 .. n) /\ 1 .. i - 1 \in SUBSET (1 .. n) /\ 1 .. i # {}
         /\ Max(1 .. i) = i /\ (1 .. i) \ {i} = 1 .. i - 1
<1>1. i \in 1 .. i /\ \A j \in 1 .. i : i >= j
  OBVIOUS
<1>2. Max(1 .. i) \in 1 .. i /\ \A j \in 1 .. i : Max(1 .. i) >= j
  BY <1>1 DEF Max
<1> QED BY <1>1, <1>2

(* A fold over the places of a sequence takes its steps in turn. *)
LastPicks(n, pick) == \A s \in SUBSET (1 .. n) : s # {} => pick[s] = Max(s)
Carries(c, n, S, base, step) ==
  c \in [0 .. n -> S] /\ c[0] = base /\ \A i \in 1 .. n : c[i] = step[i][c[i - 1]]

LEMMA FoldCarries ==
  ASSUME NEW n \in Nat, NEW S, NEW base \in S, NEW step \in [1 .. n -> [S -> S]],
         NEW pick, LastPicks(n, pick),
         NEW f \in [SUBSET (1 .. n) -> S], Folded(f, 1 .. n, base, step, pick)
  PROVE  \E c : Carries(c, n, S, base, step) /\ c[n] = f[1 .. n]
<1> DEFINE c == [i \in 0 .. n |-> f[1 .. i]]
<1>1. \A i \in 0 .. n : 1 .. i \in SUBSET (1 .. n)
  OBVIOUS
<1>2. c \in [0 .. n -> S] /\ c[0] = base
  <2>1. 1 .. 0 = {} /\ 0 \in 0 .. n /\ {} \in SUBSET (1 .. n)
    OBVIOUS
  <2>2. f[{}] = base
    BY <2>1 DEF Folded
  <2> QED BY <1>1, <2>1, <2>2
<1>3. ASSUME NEW i \in 1 .. n PROVE c[i] = step[i][c[i - 1]]
  <2> DEFINE s == 1 .. i
             t == 1 .. i - 1
  <2>1. s \in SUBSET (1 .. n) /\ t \in SUBSET (1 .. n) /\ s # {} /\ Max(s) = i /\ s \ {i} = t
    BY LastPlace
  <2>2. i \in 0 .. n /\ i - 1 \in 0 .. n
    OBVIOUS
  <2>3. c[i] = f[s] /\ c[i - 1] = f[t]
    BY <2>2
  <2> HIDE DEF s, t, c
  <2>4. pick[s] = i
    BY <2>1 DEF LastPicks
  <2>5. f[s] = step[i][f[t]]
    BY <2>1, <2>4 DEF Folded
  <2> QED BY <2>3, <2>5
<1>4. c[n] = f[1 .. n]
  <2>1. n \in 0 .. n
    OBVIOUS
  <2> QED BY <2>1
<1> HIDE DEF c
<1>5. Carries(c, n, S, base, step)
  BY <1>2, <1>3 DEF Carries
<1> QED BY <1>4, <1>5

Continues(g, P, base, S, step, pick) ==
  /\ g[{}] = base
  /\ \A s \in SUBSET P : s # {} /\ g[s \ {pick[s]}] \in S => g[s] = step[pick[s]][g[s \ {pick[s]}]]

Agrees(g, f, P) == \A s \in SUBSET P : g[s] = f[s]

(* Whatever takes the same steps is the same fold.                         *)
LEMMA FoldAgrees ==
  ASSUME NEW P, IsFiniteSet(P), NEW S, NEW base \in S, NEW step \in [P -> [S -> S]],
         NEW pick, Picks(P, pick),
         NEW f \in [SUBSET P -> S], Folded(f, P, base, step, pick),
         NEW g, Continues(g, P, base, S, step, pick)
  PROVE  Agrees(g, f, P)
<1> DEFINE Bad == {s \in SUBSET P : g[s] # f[s]}
           T == {Cardinality(s) : s \in Bad}
<1> SUFFICES ASSUME Bad # {} PROVE FALSE
  BY DEF Agrees
<1>1. T # {} /\ T \subseteq Nat
  BY Counts
<1>2. PICK k \in T : \A j \in T : k <= j
  BY <1>1, Smallest
<1>3. PICK s \in Bad : k = Cardinality(s)
  OBVIOUS
<1>4. f[{}] = base
  <2>1. {} \in SUBSET P
    OBVIOUS
  <2> QED BY <2>1 DEF Folded
<1>5. s # {} /\ s \in SUBSET P
  <2>1. g[{}] = base
    BY DEF Continues
  <2> QED BY <1>4, <2>1
<1>6. /\ pick[s] \in s /\ pick[s] \in P /\ s \ {pick[s]} \in SUBSET P
      /\ Cardinality(s \ {pick[s]}) = k - 1 /\ k \in Nat
  BY <1>3, <1>5, Fewer DEF Picks
<1> DEFINE t == s \ {pick[s]}
<1>7. t \notin Bad
  <2>1. ~(k <= Cardinality(t))
    BY <1>6
  <2> HIDE DEF Bad
  <2> QED BY <1>2, <2>1
<1>8. g[t] = f[t] /\ f[t] \in S
  <2>1. t \in SUBSET P
    BY <1>6
  <2> HIDE DEF t
  <2> QED BY <1>7, <2>1
<1>9. f[s] = step[pick[s]][f[t]]
  BY <1>5 DEF Folded
<1>10. g[s] = step[pick[s]][g[t]]
  <2>1. g[t] \in S
    BY <1>8
  <2> QED BY <1>5, <2>1 DEF Continues
<1>11. g[s] = f[s]
  BY <1>8, <1>9, <1>10
<1> QED BY <1>3, <1>11

-----------------------------------------------------------------------------
(* Immediates: what the hardware extends by its sign.                      *)

LEMMA Halves ==
  ASSUME NEW k \in Nat \ {0}
  PROVE  2 ^ k = 2 * 2 ^ (k - 1) /\ 2 ^ (k - 1) \in Nat \ {0}
<1> DEFINE j == k - 1
<1>1. j \in Nat /\ k = j + 1
  OBVIOUS
<1> HIDE DEF j
<1>2. 2 ^ (j + 1) = 2 * 2 ^ j /\ 2 ^ j \in Nat \ {0}
  BY <1>1, Doubles, Counted
<1>3. 2 ^ k = 2 * 2 ^ j
  BY <1>1, <1>2
<1> QED BY <1>2, <1>3 DEF j

LEMMA SextIs ==
  ASSUME NEW v \in Int, NEW k \in Nat \ {0}
  PROVE  /\ Sext(v, k) \in Int /\ -(2 ^ (k - 1)) <= Sext(v, k) /\ Sext(v, k) < 2 ^ (k - 1)
         /\ \E j \in Int : v = Sext(v, k) + 2 ^ k * j
<1> DEFINE h == 2 ^ (k - 1)
           w == 2 ^ k
           m == v % w
           q == v \div w
<1>1. w = 2 * h /\ h \in Nat \ {0}
  BY Halves
<1>2. Sext(v, k) = IF m < h THEN m ELSE m - w
  BY DEF Sext
<1> HIDE DEF h, w
<1>3. w \in Nat \ {0}
  BY <1>1
<1>4. q \in Int /\ m \in 0 .. w - 1 /\ v = w * q + m
  BY <1>3, Euclid
<1> HIDE DEF m, q
<1>5. Sext(v, k) \in Int /\ -h <= Sext(v, k) /\ Sext(v, k) < h
  BY <1>1, <1>2, <1>4
<1>6. \E j \in Int : v = Sext(v, k) + w * j
  <2>1. CASE m < h
    <3>1. Sext(v, k) = m /\ w * q \in Int
      BY <1>2, <1>3, <1>4, <2>1
    <3>2. v = Sext(v, k) + w * q
      BY <1>4, <3>1
    <3> QED BY <1>4, <3>2
  <2>2. CASE ~(m < h)
    <3>1. w * (q + 1) = w * q + w /\ w * q \in Int
      BY <1>3, <1>4
    <3>2. v = (m - w) + w * (q + 1)
      BY <1>3, <1>4, <3>1
    <3>3. q + 1 \in Int /\ Sext(v, k) = m - w
      BY <1>2, <1>4, <2>2
    <3> QED BY <3>2, <3>3
  <2> QED BY <2>1, <2>2
<1> QED BY <1>5, <1>6 DEF h, w

LEMMA SextSame ==
  ASSUME NEW v \in Int, NEW u \in Int, NEW k \in Nat, NEW j \in Int, v = u + 2 ^ k * j
  PROVE  Sext(v, k) = Sext(u, k)
<1> DEFINE w == 2 ^ k
<1>1. w \in Nat \ {0}
  BY Counted
<1> HIDE DEF w
<1>2. v % w = u % w
  BY <1>1, SameRemainder DEF w
<1> QED BY <1>2 DEF w, Sext

LEMMA SextKeeps ==
  ASSUME NEW k \in Nat \ {0}, NEW v \in Int, -(2 ^ (k - 1)) <= v, v < 2 ^ (k - 1)
  PROVE  Sext(v, k) = v
<1> DEFINE h == 2 ^ (k - 1)
           w == 2 ^ k
<1>1. w = 2 * h /\ h \in Nat \ {0}
  BY Halves
<1>2. Sext(v, k) = IF v % w < h THEN v % w ELSE (v % w) - w
  BY DEF Sext
<1>3. -h <= v /\ v < h
  OBVIOUS
<1> HIDE DEF h, w
<1>4. w \in Nat \ {0}
  BY <1>1
<1>5. CASE v >= 0
  <2>1. v \in 0 .. w - 1
    BY <1>1, <1>3, <1>5
  <2>2. v % w = v
    BY <1>4, <2>1, Remains
  <2> QED BY <1>2, <1>3, <2>2
<1>6. CASE v < 0
  <2>1. v + w \in 0 .. w - 1 /\ v = w * (-1) + (v + w) /\ -1 \in Int
    BY <1>1, <1>3, <1>6
  <2>2. v % w = v + w
    BY <1>4, <2>1, Unique
  <2> QED BY <1>1, <1>2, <1>3, <1>6, <2>2
<1> QED BY <1>5, <1>6

(* Two integers that differ by a multiple of 2 ^ k and both have k bits    *)
(* with a sign are the same.                                               *)
LEMMA SextOnly ==
  ASSUME NEW k \in Nat \ {0}, NEW v \in Int, NEW u \in Int, NEW j \in Int, v = u + 2 ^ k * j,
         -(2 ^ (k - 1)) <= u, u < 2 ^ (k - 1)
  PROVE  Sext(v, k) = u
<1>1. Sext(v, k) = Sext(u, k)
  BY SextSame
<1> QED BY <1>1, SextKeeps

-----------------------------------------------------------------------------
(* The widths: lower immediates, words of Half bits and cells.             *)
Sizes(l, q, b) ==
  /\ l \in Nat \ {0} /\ q \in Nat \ {0} /\ b \in Nat \ {0}
  /\ 2 ^ (Low - 1) = l /\ 2 ^ Low = 2 * l
  /\ 2 ^ (Half - Low) = 2 * q
  /\ 2 ^ (Half - 1) = b /\ 2 ^ Half = 2 * b
  /\ b = (2 * l) * q /\ l < b
  /\ CellMod = (2 * b) * (2 * b)
  /\ Half < l /\ Half \in Nat \ {0} /\ Low \in Nat \ {0} /\ Half - Low \in Nat \ {0}

LEMMA Widths == \E l, q, b : Sizes(l, q, b)
<1> DEFINE l == 2 ^ (Low - 1)
           e == Half - Low
           q == 2 ^ (e - 1)
           b == 2 ^ (Half - 1)
<1>1. Half \in Nat \ {0} /\ Low \in Nat \ {0} /\ e \in Nat \ {0} /\ Half = Low + e /\ Half < l
  BY WidthAssumption
<1> HIDE DEF e
<1>2. 2 ^ Low = 2 * l /\ l \in Nat \ {0} /\ 2 ^ Half = 2 * b /\ b \in Nat \ {0} /\ 2 ^ e = 2 * q /\ q \in Nat \ {0}
  BY <1>1, Halves
<1>3. 2 ^ (Low + e) = 2 ^ Low * 2 ^ e
  BY <1>1, AddsUp
<1>4. 2 ^ (Half + Half) = 2 ^ Half * 2 ^ Half
  BY <1>1, AddsUp
<1>5. 2 * Half = Half + Half
  BY <1>1
<1> HIDE DEF l, q, b
<1>6. 2 * b = (2 * l) * (2 * q)
  BY <1>1, <1>2, <1>3
<1>7. b = (2 * l) * q
  <2>1. (2 * l) * (2 * q) = 2 * ((2 * l) * q) /\ (2 * l) * q \in Int
    BY <1>2
  <2> DEFINE z == (2 * l) * q
  <2> HIDE DEF z
  <2>2. 2 * b = 2 * z /\ z \in Int
    BY <1>6, <2>1 DEF z
  <2> QED BY <1>2, <2>2 DEF z
<1>8. l < b
  <2>1. (2 * l) * 1 <= (2 * l) * q
    BY <1>2, Monotonic
  <2> QED BY <1>2, <1>7, <2>1
<1>9. CellMod = (2 * b) * (2 * b)
  BY <1>2, <1>4, <1>5 DEF CellMod
<1>10. 2 ^ (Low - 1) = l /\ 2 ^ (Half - Low) = 2 * q /\ 2 ^ (Half - 1) = b
  BY <1>2 DEF l, b, e
<1>11. Half - Low \in Nat \ {0}
  BY <1>1 DEF e
<1> QED BY <1>1, <1>2, <1>7, <1>8, <1>9, <1>10, <1>11 DEF Sizes

(* An offset of Half bits in its two immediates.                           *)
LEMMA Splits ==
  ASSUME NEW l, NEW q, NEW b, Sizes(l, q, b), NEW y \in Int, -b <= y, y < b
  PROVE  /\ Lower(y) \in Int /\ -l <= Lower(y) /\ Lower(y) < l
         /\ Upper(y) \in 0 .. 2 * q - 1
         /\ \E j \in Int : Upper(y) * 2 ^ Low + Lower(y) = y + 2 ^ Half * j
         /\ y < b - l => Int32(Upper(y) * 2 ^ Low) = y - Lower(y)
<1> DEFINE lo == Lower(y)
           u == (y - lo) \div (2 * l)
           up == u % (2 * q)
           k == u \div (2 * q)
<1>1. /\ l \in Nat \ {0} /\ q \in Nat \ {0} /\ b \in Nat \ {0} /\ 2 ^ Low = 2 * l /\ 2 ^ (Low - 1) = l
      /\ 2 ^ (Half - Low) = 2 * q /\ 2 ^ Half = 2 * b /\ 2 ^ (Half - 1) = b
      /\ b = (2 * l) * q /\ Half \in Nat \ {0} /\ Low \in Nat \ {0}
  BY DEF Sizes
<1>2. /\ lo \in Int /\ -l <= lo /\ lo < l
      /\ \E j \in Int : y = lo + (2 * l) * j
  <2>1. /\ Sext(y, Low) \in Int /\ -(2 ^ (Low - 1)) <= Sext(y, Low) /\ Sext(y, Low) < 2 ^ (Low - 1)
        /\ \E j \in Int : y = Sext(y, Low) + 2 ^ Low * j
    BY <1>1, SextIs
  <2>2. lo = Sext(y, Low)
    BY DEF Lower
  <2> HIDE DEF lo
  <2> QED BY <1>1, <2>1, <2>2
<1>3. Upper(y) = up
  BY <1>1 DEF Upper
<1> HIDE DEF lo
<1>4. PICK v \in Int : y = lo + (2 * l) * v
  BY <1>2
<1>5. u = v
  <2> DEFINE g == 2 * l
  <2>1. g \in Nat \ {0} /\ y - lo = g * v + 0 /\ y - lo \in Int /\ 0 \in 0 .. g - 1
    <3>1. (2 * l) * v \in Int
      BY <1>1
    <3> QED BY <1>1, <1>2, <1>4, <3>1
  <2> HIDE DEF g
  <2>2. (y - lo) \div g = v
    BY <2>1, Unique
  <2> QED BY <2>2 DEF g
<1> HIDE DEF u
<1>6. up \in 0 .. 2 * q - 1 /\ k \in Int /\ u = (2 * q) * k + up
  <2>1. 2 * q \in Nat \ {0} /\ u \in Int
    BY <1>1, <1>5
  <2> QED BY <2>1, Euclid
<1> HIDE DEF up, k
<1>7. up * (2 * l) + lo = y + (2 * b) * (-k)
  <2>1. up = u - (2 * q) * k /\ (2 * q) * k \in Int
    BY <1>1, <1>5, <1>6
  <2>2. (u - (2 * q) * k) * (2 * l) = u * (2 * l) - ((2 * q) * k) * (2 * l)
    BY <1>1, <1>5, <1>6
  <2>3. ((2 * q) * k) * (2 * l) = (2 * ((2 * l) * q)) * k
    BY <1>1, <1>6
  <2>4. up * (2 * l) = (2 * l) * v - (2 * b) * k
    <3>1. u * (2 * l) = (2 * l) * v
      BY <1>1, <1>5
    <3>2. ((2 * q) * k) * (2 * l) = (2 * b) * k
      BY <1>1, <2>3
    <3> QED BY <2>1, <2>2, <3>1, <3>2
  <2>5. (2 * b) * (-k) = -((2 * b) * k) /\ (2 * b) * k \in Int /\ (2 * l) * v \in Int
    BY <1>1, <1>6
  <2> QED BY <1>2, <1>4, <2>4, <2>5
<1>8. ASSUME y < b - l PROVE Int32(up * (2 * l)) = y - lo
  <2>1. y - lo < b /\ y - lo \in Int
    BY <1>1, <1>2, <1>8
  <2>2. -b <= y - lo
    <3>1. y - lo = (2 * l) * v /\ -(b + l) < y - lo
      <4>1. (2 * l) * v \in Int
        BY <1>1
      <4> QED BY <1>1, <1>2, <1>4, <4>1
    <3>2. CASE v >= -q
      <4>1. (2 * l) * (-q) <= (2 * l) * v
        BY <1>1, <3>2, Monotonic
      <4>2. (2 * l) * (-q) = -((2 * l) * q)
        BY <1>1
      <4>3. -b <= (2 * l) * v
        BY <1>1, <4>1, <4>2
      <4> QED BY <3>1, <4>3
    <3>3. CASE v < -q
      <4>1. (2 * l) * v <= (2 * l) * (-q - 1)
        BY <1>1, <3>3, Monotonic
      <4>2. (2 * l) * (-q - 1) = -((2 * l) * q) - 2 * l
        BY <1>1
      <4>3. (2 * l) * v <= -b - 2 * l
        BY <1>1, <4>1, <4>2
      <4>4. y - lo <= -b - 2 * l
        BY <3>1, <4>3
      <4> QED BY <1>1, <2>1, <3>1, <4>4
    <3> QED BY <1>1, <3>2, <3>3
  <2>3. up * (2 * l) = (y - lo) + 2 ^ Half * (-k) /\ up * (2 * l) \in Int /\ -k \in Int
    <3>1. up * (2 * l) \in Int /\ (2 * b) * (-k) \in Int
      BY <1>1, <1>6
    <3> QED BY <1>1, <1>2, <1>6, <1>7, <3>1
  <2>4. -(2 ^ (Half - 1)) <= y - lo /\ y - lo < 2 ^ (Half - 1) /\ Half \in Nat \ {0}
    BY <1>1, <2>1, <2>2
  <2> DEFINE z == y - lo
             x == up * (2 * l)
             e == -k
  <2>5. /\ x \in Int /\ z \in Int /\ e \in Int /\ x = z + 2 ^ Half * e
        /\ -(2 ^ (Half - 1)) <= z /\ z < 2 ^ (Half - 1) /\ Half \in Nat \ {0}
    BY <2>1, <2>3, <2>4
  <2> HIDE DEF z, x, e
  <2>6. Sext(x, Half) = z
    BY <2>5, SextOnly
  <2> QED BY <2>6 DEF z, x, Int32
<1>9. Upper(y) * 2 ^ Low = up * (2 * l)
  BY <1>1, <1>3
<1>10. \E j \in Int : Upper(y) * 2 ^ Low + Lower(y) = y + 2 ^ Half * j
  <2>1. -k \in Int /\ Upper(y) * 2 ^ Low + lo = y + 2 ^ Half * (-k)
    BY <1>1, <1>6, <1>7, <1>9
  <2> QED BY <2>1 DEF lo
<1> QED BY <1>2, <1>3, <1>6, <1>8, <1>9, <1>10 DEF lo

(* The arithmetic of cells.                                                *)
LEMMA CellIs ==
  /\ CellMod \in Nat \ {0}
  /\ \A v \in Int : AsCell(v) \in 0 .. CellMod - 1 /\ \E k \in Int : v = AsCell(v) + CellMod * k
  /\ \A v \in 0 .. CellMod - 1 : AsCell(v) = v
<1>1. CellMod \in Nat \ {0}
  <2>1. 2 * Half \in Nat
    BY WidthAssumption
  <2> QED BY <2>1, Counted DEF CellMod
<1>2. ASSUME NEW v \in Int PROVE AsCell(v) \in 0 .. CellMod - 1 /\ \E k \in Int : v = AsCell(v) + CellMod * k
  <2> DEFINE q == v \div CellMod
             m == v % CellMod
  <2>1. q \in Int /\ m \in 0 .. CellMod - 1 /\ v = CellMod * q + m
    BY <1>1, Euclid
  <2> HIDE DEF q, m
  <2>2. CellMod * q \in Int
    BY <1>1, <2>1
  <2>3. v = m + CellMod * q
    BY <1>1, <2>1, <2>2
  <2>4. AsCell(v) = m
    BY DEF AsCell, m
  <2> QED BY <2>1, <2>3, <2>4
<1>3. ASSUME NEW v \in 0 .. CellMod - 1 PROVE AsCell(v) = v
  BY <1>1, Remains DEF AsCell
<1> QED BY <1>1, <1>2, <1>3

LEMMA SameCell ==
  ASSUME NEW v \in Int, NEW u \in Int, NEW k \in Int, v = u + CellMod * k
  PROVE  AsCell(v) = AsCell(u)
BY CellIs, SameRemainder DEF AsCell

(* A sum of cells is the cell of the sum.                                  *)
LEMMA SumCell ==
  ASSUME NEW v \in Int, NEW u \in Int
  PROVE  AsCell(AsCell(v) + u) = AsCell(v + u)
<1> DEFINE c == AsCell(v)
<1>1. PICK k \in Int : c \in 0 .. CellMod - 1 /\ v = c + CellMod * k
  BY CellIs
<1> HIDE DEF c
<1>2. CellMod * k \in Int /\ c \in Int
  BY <1>1, CellIs
<1>3. v + u = (c + u) + CellMod * k
  BY <1>1, <1>2
<1>4. AsCell(v + u) = AsCell(c + u)
  <2> DEFINE x == v + u
             z == c + u
  <2>1. x \in Int /\ z \in Int /\ x = z + CellMod * k
    BY <1>2, <1>3
  <2> HIDE DEF x, z
  <2>2. AsCell(x) = AsCell(z)
    BY <2>1, SameCell
  <2> QED BY <2>2 DEF x, z
<1> QED BY <1>4 DEF c

-----------------------------------------------------------------------------
(* Numbers and their bits.                                                 *)

Weighs(step, P, w) == \A x \in P : \A v \in Nat : step[x][v] = v + w[x]
Adds(f, P, w) == f[{}] = 0 /\ \A s \in SUBSET P : f[s] \in Nat /\ \A y \in s : f[s] = f[s \ {y}] + w[y]

(* Each element of a set adds its weight, whichever is picked first.       *)
LEMMA FoldAdds ==
  ASSUME NEW P, IsFiniteSet(P), NEW w \in [P -> Nat], NEW pick, Picks(P, pick),
         NEW step, Weighs(step, P, w),
         NEW f \in [SUBSET P -> Nat], Folded(f, P, 0, step, pick)
  PROVE  Adds(f, P, w)
<1>1. f[{}] = 0
  <2>1. {} \in SUBSET P
    OBVIOUS
  <2> QED BY <2>1 DEF Folded
<1>2. \A s \in SUBSET P : s # {} => /\ pick[s] \in s /\ s \ {pick[s]} \in SUBSET P
                                    /\ f[s] = f[s \ {pick[s]}] + w[pick[s]]
  <2> SUFFICES ASSUME NEW s \in SUBSET P, s # {}
               PROVE  /\ pick[s] \in s /\ s \ {pick[s]} \in SUBSET P
                      /\ f[s] = f[s \ {pick[s]}] + w[pick[s]]
    OBVIOUS
  <2> DEFINE x == pick[s]
             t == s \ {x}
  <2>1. x \in s /\ x \in P /\ t \in SUBSET P
    BY DEF Picks
  <2>2. f[t] \in Nat
    BY <2>1
  <2>3. f[s] = step[x][f[t]]
    BY DEF Folded
  <2> HIDE DEF t, x
  <2>4. f[s] = f[t] + w[x]
    BY <2>1, <2>2, <2>3 DEF Weighs
  <2> QED BY <2>1, <2>4 DEF t, x
<1> DEFINE Every(s) == \A y \in s : f[s] = f[s \ {y}] + w[y]
           Bad == {s \in SUBSET P : ~Every(s)}
           T == {Cardinality(s) : s \in Bad}
<1>3. ASSUME Bad # {} PROVE FALSE
  <2>1. T # {} /\ T \subseteq Nat
    BY <1>3, Counts
  <2> HIDE DEF Every
  <2>2. PICK k \in T : \A j \in T : k <= j
    BY <2>1, Smallest
  <2>3. PICK s \in Bad : k = Cardinality(s)
    OBVIOUS
  <2>4. \A x \in s : Every(s \ {x}) /\ s \ {x} \in SUBSET P
    <3> SUFFICES ASSUME NEW x \in s PROVE Every(s \ {x}) /\ s \ {x} \in SUBSET P
      OBVIOUS
    <3>1. Cardinality(s \ {x}) = k - 1 /\ k \in Nat /\ s \ {x} \in SUBSET P
      BY <2>3, Fewer
    <3>2. ~(k <= Cardinality(s \ {x}))
      BY <3>1
    <3> QED BY <2>2, <3>1, <3>2
  <2>5. ASSUME NEW y \in s PROVE f[s] = f[s \ {y}] + w[y]
    <3> DEFINE x == pick[s]
    <3>1. x \in s /\ f[s] = f[s \ {x}] + w[x]
      BY <1>2
    <3> HIDE DEF x
    <3>2. CASE x = y
      BY <3>1, <3>2
    <3>3. CASE x # y
      <4> DEFINE u == (s \ {x}) \ {y}
      <4>1. f[s \ {x}] = f[u] + w[y]
        BY <2>4, <3>1, <3>3 DEF Every
      <4>2. f[s \ {y}] = f[u] + w[x]
        <5>1. (s \ {y}) \ {x} = u /\ x \in s \ {y}
          BY <3>1, <3>3
        <5>2. f[s \ {y}] = f[(s \ {y}) \ {x}] + w[x]
          BY <2>4, <5>1 DEF Every
        <5> QED BY <5>1, <5>2
      <4>3. u \in SUBSET P /\ x \in P /\ y \in P
        BY <2>4, <3>1
      <4> HIDE DEF u
      <4>4. f[u] \in Nat /\ w[x] \in Nat /\ w[y] \in Nat
        BY <4>3
      <4> QED BY <3>1, <4>1, <4>2, <4>4
    <3> QED BY <3>2, <3>3
  <2>6. Every(s)
    BY <2>5 DEF Every
  <2> QED BY <2>3, <2>6
<1>4. \A s \in SUBSET P : Every(s)
  BY <1>3
<1> QED BY <1>1, <1>4 DEF Adds

LEMMA Unit == 2 ^ 0 = 1 /\ 2 ^ 1 = 2
<1>1. 2 ^ 0 = 1
  <2>0. 0 \in Nat /\ 1 .. 0 = {}
    OBVIOUS
  <2>1. Cardinality(SUBSET (1 .. 0)) = 2 ^ 0
    BY <2>0, Counted
  <2>2. SUBSET {} = {{}}
    OBVIOUS
  <2>3. Cardinality({{}}) = 1
    BY FS_Singleton
  <2> QED BY <2>0, <2>1, <2>2, <2>3
<1>2. 2 ^ (0 + 1) = 2 * 2 ^ 0
  <2>1. 0 \in Nat
    OBVIOUS
  <2> QED BY <2>1, Doubles
<1> QED BY <1>1, <1>2

LEMMA BitIs ==
  ASSUME NEW v \in Int, NEW k \in Nat
  PROVE  /\ Slice(v, k, 1) \in {0, 1}
         /\ v % 2 ^ (k + 1) = (v % 2 ^ k) + (IF Slice(v, k, 1) = 1 THEN 2 ^ k ELSE 0)
<1> DEFINE p == 2 ^ k
           q == v \div p
           r == v % p
           h == q \div 2
           t == q % 2
<1>1. p \in Nat \ {0} /\ 2 ^ (k + 1) = 2 * p
  BY Counted, Doubles
<1>2. Slice(v, k, 1) = t
  BY Unit DEF Slice
<1> HIDE DEF p
<1>3. q \in Int /\ r \in 0 .. p - 1 /\ v = p * q + r
  BY <1>1, Euclid
<1> HIDE DEF q, r
<1>4. h \in Int /\ t \in 0 .. 1 /\ q = 2 * h + t
  BY <1>3, Euclid
<1> HIDE DEF h, t
<1> DEFINE z == IF t = 1 THEN p ELSE 0
           m == 2 * p
<1>5. v = m * h + (r + z) /\ r + z \in 0 .. m - 1 /\ m \in Nat \ {0}
  <2>1. p * (2 * h + t) = (2 * p) * h + p * t
    BY <1>1, <1>4
  <2>2. p * t = z /\ z \in Nat /\ z <= p
    <3>1. CASE t = 0
      BY <1>1, <3>1
    <3>2. CASE t = 1
      BY <1>1, <3>2
    <3> QED BY <1>4, <3>1, <3>2
  <2>3. (2 * p) * h \in Int
    BY <1>1, <1>4
  <2> QED BY <1>1, <1>3, <1>4, <2>1, <2>2, <2>3
<1>6. v % m = r + z
  <2> DEFINE x == r + z
  <2>1. x \in 0 .. m - 1 /\ v = m * h + x
    BY <1>5
  <2> HIDE DEF x, m, z
  <2>2. v % m = x
    BY <1>4, <1>5, <2>1, Unique
  <2> QED BY <2>2 DEF x
<1>7. v % 2 ^ (k + 1) = r + z
  BY <1>1, <1>6
<1> QED BY <1>2, <1>4, <1>7 DEF r, p

(* The bits low, low + 1, ... of a word are those of v. *)
Holds(word, low, n, v) == \A k \in 0 .. n - 1 : low + k \in word <=> Slice(v, k, 1) = 1

Spans(T, low, n) == T \subseteq low .. low + n - 1
Weights(T, low) == [y \in T |-> 2 ^ (y - low)]

(* The weights of the bits of v sum up to v. *)
LEMMA BitSum ==
  ASSUME NEW low \in Nat, NEW n \in Nat, NEW v \in Int, NEW T, Spans(T, low, n),
         Holds(T, low, n, v),
         NEW f, Adds(f, T, Weights(T, low))
  PROVE  f[T] = v % 2 ^ n
<1>0. /\ \A k \in 0 .. n - 1 : low + k \in T <=> Slice(v, k, 1) = 1
      /\ f[{}] = 0 /\ \A s \in SUBSET T : f[s] \in Nat
      /\ \A s \in SUBSET T : \A y \in s : f[s] = f[s \ {y}] + 2 ^ (y - low)
  BY DEF Holds, Adds, Weights
<1>00. T \subseteq low .. low + n - 1
  BY DEF Spans
<1> DEFINE below(j) == T \cap (low .. low + j - 1)
           G == {j \in 0 .. n : f[below(j)] = v % 2 ^ j}
<1>1. 0 \in G
  <2>1. below(0) = {}
    OBVIOUS
  <2>2. v % 2 ^ 0 = 0
    <3>1. v % 1 = 0
      OBVIOUS
    <3> QED BY <3>1, Unit
  <2>3. 0 \in 0 .. n /\ f[below(0)] = 0
    <3>1. 0 \in 0 .. n
      OBVIOUS
    <3> HIDE DEF below
    <3>2. f[below(0)] = f[{}]
      BY <2>1
    <3> QED BY <1>0, <3>1, <3>2
  <2> HIDE DEF below
  <2> QED BY <2>2, <2>3
<1>2. ASSUME NEW j \in 0 .. n - 1, j \in G PROVE j + 1 \in G
  <2> DEFINE s == below(j)
             t == below(j + 1)
  <2>1. f[s] = v % 2 ^ j
    BY <1>2
  <2>2. j \in Nat /\ j + 1 \in 0 .. n
    OBVIOUS
  <2>3. Slice(v, j, 1) \in {0, 1} /\ v % 2 ^ (j + 1) = (v % 2 ^ j) + (IF Slice(v, j, 1) = 1 THEN 2 ^ j ELSE 0)
    BY <2>2, BitIs
  <2>4. low .. low + (j + 1) - 1 = (low .. low + j - 1) \cup {low + j} /\ low + j \notin low .. low + j - 1
    BY <2>2
  <2>5. f[s] \in Nat /\ s \in SUBSET T /\ t \in SUBSET T
    BY <1>0
  <2>6. f[t] = v % 2 ^ (j + 1)
    <3>1. CASE Slice(v, j, 1) = 1
      <4>1. low + j \in T
        BY <1>0, <3>1
      <4>2. low + j \in t /\ t \ {low + j} = s
        BY <2>4, <4>1
      <4>3. (low + j) - low = j
        OBVIOUS
      <4> HIDE DEF s, t
      <4>4. f[t] = f[s] + 2 ^ ((low + j) - low)
        BY <1>0, <2>5, <4>2
      <4>5. f[t] = f[s] + 2 ^ j
        BY <4>3, <4>4
      <4> QED BY <2>1, <2>3, <3>1, <4>5
    <3>2. CASE Slice(v, j, 1) = 0
      <4>1. low + j \notin T
        BY <1>0, <3>2
      <4>2. t = s
        BY <2>4, <4>1
      <4> HIDE DEF s, t
      <4>3. v % 2 ^ (j + 1) = (v % 2 ^ j) + 0
        BY <2>3, <3>2
      <4>4. v % 2 ^ j \in Nat
        BY <2>1, <2>5
      <4> QED BY <2>1, <4>2, <4>3, <4>4
    <3> QED BY <2>3, <3>1, <3>2
  <2> HIDE DEF below
  <2> QED BY <2>2, <2>6
<1>3. G \subseteq 0 .. n
  OBVIOUS
<1>4. \A j \in 0 .. n : j \in G
  <2> HIDE DEF G
  <2> QED BY <1>1, <1>2, <1>3, Ascends
<1>5. f[below(n)] = v % 2 ^ n
  <2>1. n \in 0 .. n
    OBVIOUS
  <2> HIDE DEF below
  <2> QED BY <1>4, <2>1
<1>6. below(n) = T
  BY <1>00
<1> QED BY <1>5, <1>6


(* A field of a word is the sum of the weights of its bits.                *)
Field(word, low, n) == word \cap (low .. low + n - 1)

LEMMA BitsAdd ==
  ASSUME NEW low \in Nat, NEW n \in Nat, NEW word
  PROVE  /\ Spans(Field(word, low, n), low, n)
         /\ \E f \in [SUBSET Field(word, low, n) -> Nat] :
              /\ Adds(f, Field(word, low, n), Weights(Field(word, low, n), low))
              /\ Bits(word, low, n) = f[Field(word, low, n)]
<1> DEFINE T == Field(word, low, n)
           first(s) == CHOOSE x \in s : TRUE
           w == Weights(T, low)
           step == [x \in T |-> [z \in Nat |-> z + w[x]]]
           pick == [s \in SUBSET T |-> first(s)]
           iter == CHOOSE it : it = [s \in SUBSET T |-> IF s = {} THEN 0
                                     ELSE it[s \ {first(s)}] + 2 ^ (first(s) - low)]
<1>1. T \subseteq low .. low + n - 1 /\ IsFiniteSet(T)
  <2>1. IsFiniteSet(low .. low + n - 1) /\ T \subseteq low .. low + n - 1
    <3>1. low + n - 1 \in Int /\ low \in Int
      OBVIOUS
    <3> QED BY <3>1, FS_Interval DEF Field
  <2> QED BY <2>1, FS_Subset
<1>2. Bits(word, low, n) = iter[T]
  BY DEF Bits, FoldSet, MapThenFoldSet, Field
<1>3. \A x \in T : w[x] = 2 ^ (x - low) /\ w[x] \in Nat
  <2> SUFFICES ASSUME NEW x \in T PROVE w[x] = 2 ^ (x - low) /\ w[x] \in Nat
    OBVIOUS
  <2>1. x - low \in Nat
    BY <1>1
  <2>2. 2 ^ (x - low) \in Nat
    BY <2>1, Counted
  <2> QED BY <2>2 DEF Weights
<1>4. w \in [T -> Nat]
  BY <1>3 DEF Weights
<1>5. step \in [T -> [Nat -> Nat]]
  <2> HIDE DEF w, T
  <2> QED BY <1>4
<1>6. Picks(T, pick)
  <2> HIDE DEF T
  <2> QED BY DEF Picks
<1>7. \A s \in SUBSET T : s # {} => first(s) \in s /\ first(s) \in T /\ s \ {first(s)} \in SUBSET T /\ pick[s] = first(s)
  <2> HIDE DEF T
  <2> QED OBVIOUS
<1> HIDE DEF T, w, iter, first
<1>8. PICK f \in [SUBSET T -> Nat] : Folded(f, T, 0, step, pick)
  <2> HIDE DEF step, pick
  <2> QED BY <1>1, <1>5, <1>6, Folding
<1>9. Adds(f, T, w)
  <2>1. Weighs(step, T, w)
    BY DEF Weighs
  <2> HIDE DEF pick, step
  <2> QED BY <1>1, <1>4, <1>6, <1>8, <2>1, FoldAdds
<1>10. f = [s \in SUBSET T |-> IF s = {} THEN 0 ELSE f[s \ {first(s)}] + 2 ^ (first(s) - low)]
  <2>1. \A s \in SUBSET T : f[s] = IF s = {} THEN 0 ELSE f[s \ {first(s)}] + 2 ^ (first(s) - low)
    <3> SUFFICES ASSUME NEW s \in SUBSET T
                 PROVE  f[s] = IF s = {} THEN 0 ELSE f[s \ {first(s)}] + 2 ^ (first(s) - low)
      OBVIOUS
    <3>1. CASE s = {}
      BY <1>9, <3>1 DEF Adds
    <3>2. CASE s # {}
      <4>1. first(s) \in s /\ first(s) \in T
        BY <1>7, <3>2
      <4>2. f[s] = f[s \ {first(s)}] + w[first(s)]
        BY <1>9, <4>1 DEF Adds
      <4> QED BY <1>3, <3>2, <4>1, <4>2
    <3> QED BY <3>1, <3>2
  <2> QED BY <2>1
<1>11. iter = [s \in SUBSET T |-> IF s = {} THEN 0 ELSE iter[s \ {first(s)}] + 2 ^ (first(s) - low)]
  BY <1>10 DEF iter
<1>12. Agrees(iter, f, T)
  <2>1. iter[{}] = 0
    <3>1. {} \in SUBSET T
      OBVIOUS
    <3> QED BY <1>11, <3>1
  <2>2. ASSUME NEW s \in SUBSET T, s # {}, iter[s \ {pick[s]}] \in Nat
        PROVE  iter[s] = step[pick[s]][iter[s \ {pick[s]}]]
    <3>1. first(s) \in T /\ pick[s] = first(s)
      BY <1>7, <2>2
    <3>2. iter[s] = iter[s \ {first(s)}] + 2 ^ (first(s) - low)
      BY <1>11, <2>2
    <3>3. w[first(s)] = 2 ^ (first(s) - low) /\ w[first(s)] \in Nat
      BY <1>3, <3>1
    <3> HIDE DEF pick
    <3>4. step[first(s)][iter[s \ {first(s)}]] = iter[s \ {first(s)}] + w[first(s)]
      BY <2>2, <3>1
    <3> QED BY <3>1, <3>2, <3>3, <3>4
  <2> HIDE DEF pick, step
  <2>3. 0 \in Nat
    OBVIOUS
  <2>4. Continues(iter, T, 0, Nat, step, pick)
    BY <2>1, <2>2 DEF Continues
  <2> QED BY <1>1, <1>5, <1>6, <1>8, <2>3, <2>4, FoldAgrees
<1>13. iter[T] = f[T]
  <2>1. T \in SUBSET T
    OBVIOUS
  <2> QED BY <1>12, <2>1 DEF Agrees
<1> QED BY <1>1, <1>2, <1>9, <1>13 DEF T, w, Spans

(* What the bits low, low + 1, ... of a word say, when they are those of v. *)
LEMMA BitsAre ==
  ASSUME NEW low \in Nat, NEW n \in Nat, NEW v \in Int, NEW word, Holds(word, low, n, v)
  PROVE  Bits(word, low, n) = v % 2 ^ n
<1> DEFINE T == Field(word, low, n)
<1>1. PICK f \in [SUBSET T -> Nat] : Adds(f, T, Weights(T, low)) /\ Bits(word, low, n) = f[T]
  BY BitsAdd
<1>2. Spans(T, low, n)
  BY BitsAdd
<1>3. Holds(T, low, n, v)
  <2> SUFFICES ASSUME NEW k \in 0 .. n - 1 PROVE low + k \in T <=> Slice(v, k, 1) = 1
    BY DEF Holds
  <2>1. low + k \in low .. low + n - 1
    OBVIOUS
  <2> QED BY <2>1 DEF Field, Holds
<1> HIDE DEF T
<1>4. f[T] = v % 2 ^ n
  BY <1>1, <1>2, <1>3, BitSum
<1> QED BY <1>1, <1>4

LEMMA BitsNat ==
  ASSUME NEW low \in Nat, NEW n \in Nat, NEW word
  PROVE  Bits(word, low, n) \in Nat
<1> DEFINE T == Field(word, low, n)
<1>1. PICK f \in [SUBSET T -> Nat] : Bits(word, low, n) = f[T]
  BY BitsAdd
<1> QED BY <1>1

-----------------------------------------------------------------------------
(* Structures of bit fields.                                               *)
Fielded(fields, n) ==
  /\ n \in Nat /\ Len(fields) = n /\ DOMAIN fields = 1 .. n
  /\ \A i \in 1 .. n : fields[i][1] \in Int /\ fields[i][2] \in Nat
Starts(start, fields, n) ==
  /\ start \in [1 .. n + 1 -> Nat] /\ start[1] = 0
  /\ \A i \in 1 .. n : start[i + 1] = start[i] + fields[i][2]
Packed(word, start, fields, n) ==
  \A i \in 1 .. n : Holds(word, start[i], fields[i][2], fields[i][1])

LEMMA StartsExist ==
  ASSUME NEW n, NEW fields, Fielded(fields, n)
  PROVE  \E start : Starts(start, fields, n) /\
           start = [i \in 1 .. n + 1 |-> IF i = 1 THEN 0 ELSE start[i - 1] + fields[i - 1][2]]
<1>1. n \in Nat /\ \A i \in 1 .. n : fields[i][2] \in Nat
  BY DEF Fielded
<1> DEFINE step == [i \in 1 .. n |-> [x \in Nat |-> x + fields[i][2]]]
           pick == [s \in SUBSET (1 .. n) |-> Max(s)]
<1>2. step \in [1 .. n -> [Nat -> Nat]]
  BY <1>1
<1>3. Picks(1 .. n, pick) /\ LastPicks(n, pick) /\ IsFiniteSet(1 .. n)
  <2>1. Picks(1 .. n, pick) /\ LastPicks(n, pick)
    BY <1>1, HasMax DEF Picks, LastPicks
  <2>2. 1 \in Int /\ n \in Int
    BY <1>1
  <2> HIDE DEF pick
  <2> QED BY <2>1, <2>2, FS_Interval
<1>4. \A i \in 1 .. n : \A x \in Nat : step[i][x] = x + fields[i][2]
  OBVIOUS
<1> HIDE DEF step, pick
<1>5. 0 \in Nat
  OBVIOUS
<1>6. PICK f \in [SUBSET (1 .. n) -> Nat] : Folded(f, 1 .. n, 0, step, pick)
  BY <1>2, <1>3, <1>5, Folding
<1>7. PICK c : Carries(c, n, Nat, 0, step)
  BY <1>1, <1>2, <1>3, <1>5, <1>6, FoldCarries
<1>8. c \in [0 .. n -> Nat] /\ c[0] = 0 /\ \A i \in 1 .. n : c[i] = c[i - 1] + fields[i][2]
  <2>1. c \in [0 .. n -> Nat] /\ c[0] = 0 /\ \A i \in 1 .. n : c[i] = step[i][c[i - 1]]
    BY <1>7 DEF Carries
  <2>2. \A i \in 1 .. n : c[i - 1] \in Nat
    <3>1. \A i \in 1 .. n : i - 1 \in 0 .. n
      BY <1>1
    <3> QED BY <2>1, <3>1
  <2> QED BY <1>4, <2>1, <2>2
<1> DEFINE start == [i \in 1 .. n + 1 |-> c[i - 1]]
<1>9. \A i \in 1 .. n + 1 : i - 1 \in 0 .. n
  BY <1>1
<1>10. \A i \in 1 .. n : i \in 1 .. n + 1 /\ i + 1 \in 1 .. n + 1 /\ (i + 1) - 1 = i
  BY <1>1
<1>11. 1 \in 1 .. n + 1 /\ 1 - 1 = 0
  BY <1>1
<1>12. Starts(start, fields, n)
  <2>1. start \in [1 .. n + 1 -> Nat]
    BY <1>8, <1>9
  <2>2. start[1] = 0
    BY <1>8, <1>11
  <2>3. \A i \in 1 .. n : start[i + 1] = start[i] + fields[i][2]
    <3> SUFFICES ASSUME NEW i \in 1 .. n PROVE start[i + 1] = start[i] + fields[i][2]
      OBVIOUS
    <3>1. start[i + 1] = c[i] /\ start[i] = c[i - 1]
      BY <1>10
    <3> QED BY <1>8, <3>1
  <2> HIDE DEF start
  <2> QED BY <2>1, <2>2, <2>3 DEF Starts
<1>13. start = [i \in 1 .. n + 1 |-> IF i = 1 THEN 0 ELSE start[i - 1] + fields[i - 1][2]]
  <2>1. \A i \in 1 .. n + 1 : start[i] = IF i = 1 THEN 0 ELSE start[i - 1] + fields[i - 1][2]
    <3> SUFFICES ASSUME NEW i \in 1 .. n + 1 PROVE start[i] = IF i = 1 THEN 0 ELSE start[i - 1] + fields[i - 1][2]
      OBVIOUS
    <3>1. CASE i = 1
      BY <1>12, <3>1 DEF Starts
    <3>2. CASE i # 1
      <4> DEFINE j == i - 1
      <4>1. j \in 1 .. n /\ i = j + 1
        BY <1>1, <3>2
      <4> HIDE DEF j, start
      <4>2. start[j + 1] = start[j] + fields[j][2]
        BY <1>12, <4>1 DEF Starts
      <4>3. start[i] = start[j] + fields[j][2]
        BY <4>1, <4>2
      <4> QED BY <3>2, <4>3 DEF j
    <3> QED BY <3>1, <3>2
  <2>2. start = [i \in 1 .. n + 1 |-> start[i]]
    OBVIOUS
  <2> HIDE DEF start
  <2> QED BY <2>1, <2>2
<1> HIDE DEF start
<1> QED BY <1>12, <1>13

LEMMA StartsOrdered ==
  ASSUME NEW n, NEW fields, Fielded(fields, n), NEW start, Starts(start, fields, n),
         NEW i \in 1 .. n, NEW j \in 1 .. n, i < j
  PROVE  start[i] \in Nat /\ start[j] \in Nat /\ start[i] + fields[i][2] <= start[j]
<1>1. n \in Nat /\ \A k \in 1 .. n : fields[k][2] \in Nat
  BY DEF Fielded
<1>2. start \in [1 .. n + 1 -> Nat] /\ \A k \in 1 .. n : start[k + 1] = start[k] + fields[k][2]
  BY DEF Starts
<1>3. \A k \in 1 .. n + 1 : start[k] \in Nat
  BY <1>2
<1> DEFINE m == n - i
           P == {d \in 0 .. m : start[i + 1] <= start[(i + 1) + d]}
<1>4. m \in Nat /\ i + 1 \in 1 .. n + 1
  BY <1>1
<1>5. 0 \in P
  <2>1. (i + 1) + 0 = i + 1 /\ 0 \in 0 .. m /\ start[i + 1] \in Nat
    BY <1>3, <1>4
  <2> HIDE DEF m
  <2>2. start[(i + 1) + 0] = start[i + 1]
    BY <2>1
  <2> QED BY <2>1, <2>2
<1>6. ASSUME NEW d \in 0 .. m - 1, d \in P PROVE d + 1 \in P
  <2> DEFINE k == (i + 1) + d
  <2>1. k \in 1 .. n /\ k \in 1 .. n + 1 /\ k + 1 = (i + 1) + (d + 1) /\ d + 1 \in 0 .. m
    BY <1>1
  <2>2. start[i + 1] <= start[k]
    BY <1>6
  <2> HIDE DEF k, m
  <2>3. start[k + 1] = start[k] + fields[k][2] /\ start[k] \in Nat /\ fields[k][2] \in Nat
    BY <1>1, <1>2, <1>3, <2>1
  <2>4. start[i + 1] \in Nat
    BY <1>3, <1>4
  <2>5. start[i + 1] <= start[k + 1]
    BY <2>2, <2>3, <2>4
  <2> QED BY <2>1, <2>5
<1>7. P \subseteq 0 .. m
  OBVIOUS
<1> DEFINE d == j - (i + 1)
<1>8. d \in 0 .. m /\ (i + 1) + d = j
  BY <1>1
<1>9. d \in P
  <2> HIDE DEF P, m, d
  <2> QED BY <1>4, <1>5, <1>6, <1>7, <1>8, Ascends
<1>10. start[i + 1] <= start[j]
  BY <1>8, <1>9
<1>11. start[i] \in Nat /\ start[j] \in Nat /\ start[i + 1] = start[i] + fields[i][2]
  <2>1. i \in 1 .. n + 1 /\ j \in 1 .. n + 1
    BY <1>1
  <2> QED BY <1>2, <1>3, <2>1
<1> QED BY <1>10, <1>11

LEMMA PackIs ==
  ASSUME NEW n, NEW fields, Fielded(fields, n)
  PROVE  \E start : Starts(start, fields, n) /\ Packed(Pack(fields), start, fields, n)
<1> DEFINE start == CHOOSE s : s = [i \in 1 .. n + 1 |-> IF i = 1 THEN 0 ELSE s[i - 1] + fields[i - 1][2]]
<1>1. /\ n \in Nat /\ Len(fields) = n /\ DOMAIN fields = 1 .. n
      /\ \A i \in 1 .. n : fields[i][1] \in Int /\ fields[i][2] \in Nat
  BY DEF Fielded
<1>2. Pack(fields) = UNION {{start[i] + b : b \in {c \in 0 .. fields[i][2] - 1 : Slice(fields[i][1], c, 1) = 1}} :
                            i \in 1 .. n}
  BY <1>1 DEF Pack
<1>3. start = [i \in 1 .. n + 1 |-> IF i = 1 THEN 0 ELSE start[i - 1] + fields[i - 1][2]]
  <2>1. \E s : s = [i \in 1 .. n + 1 |-> IF i = 1 THEN 0 ELSE s[i - 1] + fields[i - 1][2]]
    BY StartsExist
  <2> QED BY <2>1
<1> HIDE DEF start
<1>4. /\ start[1] = 0
      /\ \A i \in 1 .. n : start[i + 1] = start[i] + fields[i][2]
  <2>1. 1 \in 1 .. n + 1
    BY <1>1
  <2>2. start[1] = 0
    BY <1>3, <2>1
  <2>3. ASSUME NEW i \in 1 .. n PROVE start[i + 1] = start[i] + fields[i][2]
    <3> DEFINE j == i + 1
    <3>1. j \in 1 .. n + 1 /\ j # 1 /\ j - 1 = i
      BY <1>1
    <3> HIDE DEF j
    <3>2. start[j] = start[j - 1] + fields[j - 1][2]
      BY <1>3, <3>1
    <3> QED BY <3>1, <3>2 DEF j
  <2> QED BY <2>2, <2>3
<1>5. \A i \in 1 .. n + 1 : start[i] \in Nat
  <2> DEFINE P == {k \in 0 .. n : start[k + 1] \in Nat}
  <2>1. 0 \in P
    <3>1. 0 + 1 = 1 /\ 0 \in 0 .. n
      BY <1>1
    <3>2. start[0 + 1] = 0
      BY <1>4, <3>1
    <3> QED BY <3>1, <3>2
  <2>2. ASSUME NEW k \in 0 .. n - 1, k \in P PROVE k + 1 \in P
    <3> DEFINE i == k + 1
    <3>1. i \in 1 .. n /\ i \in 0 .. n
      BY <1>1
    <3>2. start[i] \in Nat
      BY <2>2
    <3> HIDE DEF i
    <3>3. start[i + 1] = start[i] + fields[i][2] /\ fields[i][2] \in Nat
      <4> HIDE DEF P
      <4> QED BY <1>1, <1>4, <3>1
    <3>30. start[i + 1] \in Nat
      BY <3>2, <3>3
    <3>4. i \in P
      BY <3>1, <3>30
    <3> QED BY <3>4 DEF i
  <2>3. P \subseteq 0 .. n
    OBVIOUS
  <2>4. \A k \in 0 .. n : k \in P
    <3> HIDE DEF P
    <3> QED BY <1>1, <2>1, <2>2, <2>3, Ascends
  <2> SUFFICES ASSUME NEW i \in 1 .. n + 1 PROVE start[i] \in Nat
    OBVIOUS
  <2> DEFINE k == i - 1
  <2>5. k \in 0 .. n /\ k + 1 = i
    BY <1>1
  <2> HIDE DEF k
  <2>6. start[k + 1] \in Nat
    BY <2>4, <2>5
  <2> QED BY <2>5, <2>6
<1>6. Starts(start, fields, n)
  <2>1. start \in [1 .. n + 1 -> Nat]
    BY <1>3, <1>5
  <2> QED BY <1>4, <2>1 DEF Starts
<1>7. ASSUME NEW i \in 1 .. n, NEW k \in 0 .. fields[i][2] - 1
      PROVE  start[i] + k \in Pack(fields) <=> Slice(fields[i][1], k, 1) = 1
  <2>1. start[i] \in Nat /\ fields[i][2] \in Nat /\ k \in Nat /\ k < fields[i][2]
    <3>1. i \in 1 .. n + 1
      BY <1>1
    <3> QED BY <1>1, <1>5, <3>1
  <2>2. ASSUME Slice(fields[i][1], k, 1) = 1 PROVE start[i] + k \in Pack(fields)
    BY <1>2, <2>2
  <2>3. ASSUME start[i] + k \in Pack(fields) PROVE Slice(fields[i][1], k, 1) = 1
    <3>1. PICK j \in 1 .. n : \E b \in 0 .. fields[j][2] - 1 :
            start[j] + b = start[i] + k /\ Slice(fields[j][1], b, 1) = 1
      BY <1>2, <2>3
    <3>11. PICK b \in 0 .. fields[j][2] - 1 :
            start[j] + b = start[i] + k /\ Slice(fields[j][1], b, 1) = 1
      BY <3>1
    <3>2. start[j] \in Nat /\ fields[j][2] \in Nat /\ b \in Nat /\ b < fields[j][2]
      <4>1. j \in 1 .. n + 1
        BY <1>1
      <4> QED BY <1>1, <1>5, <4>1
    <3>3. CASE i < j
      <4>1. start[i] + fields[i][2] <= start[j]
        BY <1>6, <3>3, StartsOrdered
      <4> QED BY <2>1, <3>11, <3>2, <4>1
    <3>4. CASE j < i
      <4>1. start[j] + fields[j][2] <= start[i]
        BY <1>6, <3>4, StartsOrdered
      <4> QED BY <2>1, <3>11, <3>2, <4>1
    <3>5. CASE i = j
      <4>1. b = k
        BY <2>1, <3>11, <3>2, <3>5
      <4> QED BY <3>11, <3>5, <4>1
    <3> QED BY <1>1, <3>3, <3>4, <3>5
  <2> QED BY <2>2, <2>3
<1>8. Packed(Pack(fields), start, fields, n)
  BY <1>7 DEF Packed, Holds
<1> QED BY <1>6, <1>8

LEMMA SlicesAre ==
  ASSUME NEW v \in Int, NEW low \in Nat, NEW n \in Nat
  PROVE  Slice(v, low, n) \in 0 .. 2 ^ n - 1 /\ Slice(v, low, n) \in Int
<1> DEFINE p == 2 ^ low
           q == 2 ^ n
<1>1. p \in Nat \ {0} /\ q \in Nat \ {0}
  BY Counted
<1> HIDE DEF p, q
<1>2. v \div p \in Int
  BY <1>1, Euclid
<1>3. (v \div p) % q \in 0 .. q - 1
  BY <1>1, <1>2, Euclid
<1> QED BY <1>3 DEF Slice, p, q

(* Every type of instruction has its fields where PackIs puts them.        *)
RBits(w, op, rd, f3, rs1, rs2, f7) ==
  /\ Holds(w, 0, 7, op)
  /\ Holds(w, 7, 5, rd)
  /\ Holds(w, 12, 3, f3)
  /\ Holds(w, 15, 5, rs1)
  /\ Holds(w, 20, 5, rs2)
  /\ Holds(w, 25, 7, f7)
  /\ Bits(w, 0, 7) = op % 2 ^ 7
  /\ Bits(w, 7, 5) = rd % 2 ^ 5
  /\ Bits(w, 12, 3) = f3 % 2 ^ 3
  /\ Bits(w, 15, 5) = rs1 % 2 ^ 5
  /\ Bits(w, 20, 5) = rs2 % 2 ^ 5
  /\ Bits(w, 25, 7) = f7 % 2 ^ 7

LEMMA RFields ==
  ASSUME NEW op \in Int, NEW rd \in Int, NEW f3 \in Int, NEW rs1 \in Int, NEW rs2 \in Int, NEW f7 \in Int
  PROVE  RBits(RType(op, rd, f3, rs1, rs2, f7), op, rd, f3, rs1, rs2, f7)
<1> DEFINE v1 == op
           v2 == rd
           v3 == f3
           v4 == rs1
           v5 == rs2
           v6 == f7
           fields == << <<v1, 7>>, <<v2, 5>>, <<v3, 3>>, <<v4, 5>>, <<v5, 5>>, <<v6, 7>> >>
<1>1. v1 \in Int /\ v2 \in Int /\ v3 \in Int /\ v4 \in Int /\ v5 \in Int /\ v6 \in Int
  OBVIOUS
<1>2. RType(op, rd, f3, rs1, rs2, f7) = Pack(fields)
  BY DEF RType
<1> HIDE DEF v1, v2, v3, v4, v5, v6
<1>3. /\ fields[1][1] = v1 /\ fields[1][2] = 7
      /\ fields[2][1] = v2 /\ fields[2][2] = 5
      /\ fields[3][1] = v3 /\ fields[3][2] = 3
      /\ fields[4][1] = v4 /\ fields[4][2] = 5
      /\ fields[5][1] = v5 /\ fields[5][2] = 5
      /\ fields[6][1] = v6 /\ fields[6][2] = 7
  OBVIOUS
<1>4. Fielded(fields, 6)
  <2>1. 6 \in Nat /\ Len(fields) = 6 /\ DOMAIN fields = 1 .. 6
    OBVIOUS
  <2> HIDE DEF fields
  <2>2. ASSUME NEW i \in 1 .. 6 PROVE fields[i][1] \in Int /\ fields[i][2] \in Nat
    <3>1. i = 1 \/ i = 2 \/ i = 3 \/ i = 4 \/ i = 5 \/ i = 6
      OBVIOUS
    <3> QED BY <1>1, <1>3, <3>1
  <2> QED BY <2>1, <2>2 DEF Fielded
<1> HIDE DEF fields
<1>5. PICK start : Starts(start, fields, 6) /\ Packed(Pack(fields), start, fields, 6)
  BY <1>4, PackIs
<1>6. start[1] = 0 /\ \A i \in 1 .. 6 : start[i + 1] = start[i] + fields[i][2]
  BY <1>5 DEF Starts
<1>7. start[1] = 0 /\ start[2] = 7 /\ start[3] = 12 /\ start[4] = 15 /\ start[5] = 20 /\ start[6] = 25
  <2>1. start[2] = 7
    <3>1. 1 \in 1 .. 6 /\ 1 + 1 = 2
      OBVIOUS
    <3>2. start[1 + 1] = start[1] + fields[1][2]
      BY <1>6, <3>1
    <3> QED BY <1>3, <1>6, <3>1, <3>2
  <2>2. start[3] = 12
    <3>1. 2 \in 1 .. 6 /\ 2 + 1 = 3
      OBVIOUS
    <3>2. start[2 + 1] = start[2] + fields[2][2]
      BY <1>6, <3>1
    <3> QED BY <1>3, <1>6, <3>1, <3>2, <2>1
  <2>3. start[4] = 15
    <3>1. 3 \in 1 .. 6 /\ 3 + 1 = 4
      OBVIOUS
    <3>2. start[3 + 1] = start[3] + fields[3][2]
      BY <1>6, <3>1
    <3> QED BY <1>3, <1>6, <3>1, <3>2, <2>2
  <2>4. start[5] = 20
    <3>1. 4 \in 1 .. 6 /\ 4 + 1 = 5
      OBVIOUS
    <3>2. start[4 + 1] = start[4] + fields[4][2]
      BY <1>6, <3>1
    <3> QED BY <1>3, <1>6, <3>1, <3>2, <2>3
  <2>5. start[6] = 25
    <3>1. 5 \in 1 .. 6 /\ 5 + 1 = 6
      OBVIOUS
    <3>2. start[5 + 1] = start[5] + fields[5][2]
      BY <1>6, <3>1
    <3> QED BY <1>3, <1>6, <3>1, <3>2, <2>4
  <2> QED BY <1>6, <2>1, <2>2, <2>3, <2>4, <2>5
<1>8. \A i \in 1 .. 6 : Holds(Pack(fields), start[i], fields[i][2], fields[i][1])
  BY <1>5 DEF Packed
<1>9. /\ Holds(Pack(fields), 0, 7, v1)
      /\ Holds(Pack(fields), 7, 5, v2)
      /\ Holds(Pack(fields), 12, 3, v3)
      /\ Holds(Pack(fields), 15, 5, v4)
      /\ Holds(Pack(fields), 20, 5, v5)
      /\ Holds(Pack(fields), 25, 7, v6)
  <2>1. Holds(Pack(fields), 0, 7, v1)
    <3>1. 1 \in 1 .. 6
      OBVIOUS
    <3> QED BY <1>3, <1>7, <1>8, <3>1
  <2>2. Holds(Pack(fields), 7, 5, v2)
    <3>1. 2 \in 1 .. 6
      OBVIOUS
    <3> QED BY <1>3, <1>7, <1>8, <3>1
  <2>3. Holds(Pack(fields), 12, 3, v3)
    <3>1. 3 \in 1 .. 6
      OBVIOUS
    <3> QED BY <1>3, <1>7, <1>8, <3>1
  <2>4. Holds(Pack(fields), 15, 5, v4)
    <3>1. 4 \in 1 .. 6
      OBVIOUS
    <3> QED BY <1>3, <1>7, <1>8, <3>1
  <2>5. Holds(Pack(fields), 20, 5, v5)
    <3>1. 5 \in 1 .. 6
      OBVIOUS
    <3> QED BY <1>3, <1>7, <1>8, <3>1
  <2>6. Holds(Pack(fields), 25, 7, v6)
    <3>1. 6 \in 1 .. 6
      OBVIOUS
    <3> QED BY <1>3, <1>7, <1>8, <3>1
  <2> QED BY <2>1, <2>2, <2>3, <2>4, <2>5, <2>6
<1>10. \A i \in 1 .. 6 : Bits(Pack(fields), start[i], fields[i][2]) = fields[i][1] % 2 ^ fields[i][2]
  <2> SUFFICES ASSUME NEW i \in 1 .. 6
               PROVE  Bits(Pack(fields), start[i], fields[i][2]) = fields[i][1] % 2 ^ fields[i][2]
    OBVIOUS
  <2>1. start[i] \in Nat /\ fields[i][1] \in Int /\ fields[i][2] \in Nat
    <3>1. i \in 1 .. 6 + 1
      OBVIOUS
    <3> QED BY <1>4, <1>5, <3>1 DEF Starts, Fielded
  <2> QED BY <1>8, <2>1, BitsAre
<1>11. /\ Bits(Pack(fields), 0, 7) = v1 % 2 ^ 7
       /\ Bits(Pack(fields), 7, 5) = v2 % 2 ^ 5
       /\ Bits(Pack(fields), 12, 3) = v3 % 2 ^ 3
       /\ Bits(Pack(fields), 15, 5) = v4 % 2 ^ 5
       /\ Bits(Pack(fields), 20, 5) = v5 % 2 ^ 5
       /\ Bits(Pack(fields), 25, 7) = v6 % 2 ^ 7
  <2>1. Bits(Pack(fields), 0, 7) = v1 % 2 ^ 7
    <3>1. 1 \in 1 .. 6
      OBVIOUS
    <3>2. Bits(Pack(fields), start[1], fields[1][2]) = fields[1][1] % 2 ^ fields[1][2]
      BY <1>10, <3>1
    <3> QED BY <1>3, <1>7, <3>2
  <2>2. Bits(Pack(fields), 7, 5) = v2 % 2 ^ 5
    <3>1. 2 \in 1 .. 6
      OBVIOUS
    <3>2. Bits(Pack(fields), start[2], fields[2][2]) = fields[2][1] % 2 ^ fields[2][2]
      BY <1>10, <3>1
    <3> QED BY <1>3, <1>7, <3>2
  <2>3. Bits(Pack(fields), 12, 3) = v3 % 2 ^ 3
    <3>1. 3 \in 1 .. 6
      OBVIOUS
    <3>2. Bits(Pack(fields), start[3], fields[3][2]) = fields[3][1] % 2 ^ fields[3][2]
      BY <1>10, <3>1
    <3> QED BY <1>3, <1>7, <3>2
  <2>4. Bits(Pack(fields), 15, 5) = v4 % 2 ^ 5
    <3>1. 4 \in 1 .. 6
      OBVIOUS
    <3>2. Bits(Pack(fields), start[4], fields[4][2]) = fields[4][1] % 2 ^ fields[4][2]
      BY <1>10, <3>1
    <3> QED BY <1>3, <1>7, <3>2
  <2>5. Bits(Pack(fields), 20, 5) = v5 % 2 ^ 5
    <3>1. 5 \in 1 .. 6
      OBVIOUS
    <3>2. Bits(Pack(fields), start[5], fields[5][2]) = fields[5][1] % 2 ^ fields[5][2]
      BY <1>10, <3>1
    <3> QED BY <1>3, <1>7, <3>2
  <2>6. Bits(Pack(fields), 25, 7) = v6 % 2 ^ 7
    <3>1. 6 \in 1 .. 6
      OBVIOUS
    <3>2. Bits(Pack(fields), start[6], fields[6][2]) = fields[6][1] % 2 ^ fields[6][2]
      BY <1>10, <3>1
    <3> QED BY <1>3, <1>7, <3>2
  <2> QED BY <2>1, <2>2, <2>3, <2>4, <2>5, <2>6
<1> QED BY <1>2, <1>9, <1>11 DEF RBits, v1, v2, v3, v4, v5, v6

IBits(w, op, rd, f3, rs1, imm) ==
  /\ Holds(w, 0, 7, op)
  /\ Holds(w, 7, 5, rd)
  /\ Holds(w, 12, 3, f3)
  /\ Holds(w, 15, 5, rs1)
  /\ Holds(w, 20, 12, imm)
  /\ Bits(w, 0, 7) = op % 2 ^ 7
  /\ Bits(w, 7, 5) = rd % 2 ^ 5
  /\ Bits(w, 12, 3) = f3 % 2 ^ 3
  /\ Bits(w, 15, 5) = rs1 % 2 ^ 5
  /\ Bits(w, 20, 12) = imm % 2 ^ 12

LEMMA IFields ==
  ASSUME NEW op \in Int, NEW rd \in Int, NEW f3 \in Int, NEW rs1 \in Int, NEW imm \in Int
  PROVE  IBits(IType(op, rd, f3, rs1, imm), op, rd, f3, rs1, imm)
<1> DEFINE v1 == op
           v2 == rd
           v3 == f3
           v4 == rs1
           v5 == imm
           fields == << <<v1, 7>>, <<v2, 5>>, <<v3, 3>>, <<v4, 5>>, <<v5, 12>> >>
<1>1. v1 \in Int /\ v2 \in Int /\ v3 \in Int /\ v4 \in Int /\ v5 \in Int
  OBVIOUS
<1>2. IType(op, rd, f3, rs1, imm) = Pack(fields)
  BY DEF IType
<1> HIDE DEF v1, v2, v3, v4, v5
<1>3. /\ fields[1][1] = v1 /\ fields[1][2] = 7
      /\ fields[2][1] = v2 /\ fields[2][2] = 5
      /\ fields[3][1] = v3 /\ fields[3][2] = 3
      /\ fields[4][1] = v4 /\ fields[4][2] = 5
      /\ fields[5][1] = v5 /\ fields[5][2] = 12
  OBVIOUS
<1>4. Fielded(fields, 5)
  <2>1. 5 \in Nat /\ Len(fields) = 5 /\ DOMAIN fields = 1 .. 5
    OBVIOUS
  <2> HIDE DEF fields
  <2>2. ASSUME NEW i \in 1 .. 5 PROVE fields[i][1] \in Int /\ fields[i][2] \in Nat
    <3>1. i = 1 \/ i = 2 \/ i = 3 \/ i = 4 \/ i = 5
      OBVIOUS
    <3> QED BY <1>1, <1>3, <3>1
  <2> QED BY <2>1, <2>2 DEF Fielded
<1> HIDE DEF fields
<1>5. PICK start : Starts(start, fields, 5) /\ Packed(Pack(fields), start, fields, 5)
  BY <1>4, PackIs
<1>6. start[1] = 0 /\ \A i \in 1 .. 5 : start[i + 1] = start[i] + fields[i][2]
  BY <1>5 DEF Starts
<1>7. start[1] = 0 /\ start[2] = 7 /\ start[3] = 12 /\ start[4] = 15 /\ start[5] = 20
  <2>1. start[2] = 7
    <3>1. 1 \in 1 .. 5 /\ 1 + 1 = 2
      OBVIOUS
    <3>2. start[1 + 1] = start[1] + fields[1][2]
      BY <1>6, <3>1
    <3> QED BY <1>3, <1>6, <3>1, <3>2
  <2>2. start[3] = 12
    <3>1. 2 \in 1 .. 5 /\ 2 + 1 = 3
      OBVIOUS
    <3>2. start[2 + 1] = start[2] + fields[2][2]
      BY <1>6, <3>1
    <3> QED BY <1>3, <1>6, <3>1, <3>2, <2>1
  <2>3. start[4] = 15
    <3>1. 3 \in 1 .. 5 /\ 3 + 1 = 4
      OBVIOUS
    <3>2. start[3 + 1] = start[3] + fields[3][2]
      BY <1>6, <3>1
    <3> QED BY <1>3, <1>6, <3>1, <3>2, <2>2
  <2>4. start[5] = 20
    <3>1. 4 \in 1 .. 5 /\ 4 + 1 = 5
      OBVIOUS
    <3>2. start[4 + 1] = start[4] + fields[4][2]
      BY <1>6, <3>1
    <3> QED BY <1>3, <1>6, <3>1, <3>2, <2>3
  <2> QED BY <1>6, <2>1, <2>2, <2>3, <2>4
<1>8. \A i \in 1 .. 5 : Holds(Pack(fields), start[i], fields[i][2], fields[i][1])
  BY <1>5 DEF Packed
<1>9. /\ Holds(Pack(fields), 0, 7, v1)
      /\ Holds(Pack(fields), 7, 5, v2)
      /\ Holds(Pack(fields), 12, 3, v3)
      /\ Holds(Pack(fields), 15, 5, v4)
      /\ Holds(Pack(fields), 20, 12, v5)
  <2>1. Holds(Pack(fields), 0, 7, v1)
    <3>1. 1 \in 1 .. 5
      OBVIOUS
    <3> QED BY <1>3, <1>7, <1>8, <3>1
  <2>2. Holds(Pack(fields), 7, 5, v2)
    <3>1. 2 \in 1 .. 5
      OBVIOUS
    <3> QED BY <1>3, <1>7, <1>8, <3>1
  <2>3. Holds(Pack(fields), 12, 3, v3)
    <3>1. 3 \in 1 .. 5
      OBVIOUS
    <3> QED BY <1>3, <1>7, <1>8, <3>1
  <2>4. Holds(Pack(fields), 15, 5, v4)
    <3>1. 4 \in 1 .. 5
      OBVIOUS
    <3> QED BY <1>3, <1>7, <1>8, <3>1
  <2>5. Holds(Pack(fields), 20, 12, v5)
    <3>1. 5 \in 1 .. 5
      OBVIOUS
    <3> QED BY <1>3, <1>7, <1>8, <3>1
  <2> QED BY <2>1, <2>2, <2>3, <2>4, <2>5
<1>10. \A i \in 1 .. 5 : Bits(Pack(fields), start[i], fields[i][2]) = fields[i][1] % 2 ^ fields[i][2]
  <2> SUFFICES ASSUME NEW i \in 1 .. 5
               PROVE  Bits(Pack(fields), start[i], fields[i][2]) = fields[i][1] % 2 ^ fields[i][2]
    OBVIOUS
  <2>1. start[i] \in Nat /\ fields[i][1] \in Int /\ fields[i][2] \in Nat
    <3>1. i \in 1 .. 5 + 1
      OBVIOUS
    <3> QED BY <1>4, <1>5, <3>1 DEF Starts, Fielded
  <2> QED BY <1>8, <2>1, BitsAre
<1>11. /\ Bits(Pack(fields), 0, 7) = v1 % 2 ^ 7
       /\ Bits(Pack(fields), 7, 5) = v2 % 2 ^ 5
       /\ Bits(Pack(fields), 12, 3) = v3 % 2 ^ 3
       /\ Bits(Pack(fields), 15, 5) = v4 % 2 ^ 5
       /\ Bits(Pack(fields), 20, 12) = v5 % 2 ^ 12
  <2>1. Bits(Pack(fields), 0, 7) = v1 % 2 ^ 7
    <3>1. 1 \in 1 .. 5
      OBVIOUS
    <3>2. Bits(Pack(fields), start[1], fields[1][2]) = fields[1][1] % 2 ^ fields[1][2]
      BY <1>10, <3>1
    <3> QED BY <1>3, <1>7, <3>2
  <2>2. Bits(Pack(fields), 7, 5) = v2 % 2 ^ 5
    <3>1. 2 \in 1 .. 5
      OBVIOUS
    <3>2. Bits(Pack(fields), start[2], fields[2][2]) = fields[2][1] % 2 ^ fields[2][2]
      BY <1>10, <3>1
    <3> QED BY <1>3, <1>7, <3>2
  <2>3. Bits(Pack(fields), 12, 3) = v3 % 2 ^ 3
    <3>1. 3 \in 1 .. 5
      OBVIOUS
    <3>2. Bits(Pack(fields), start[3], fields[3][2]) = fields[3][1] % 2 ^ fields[3][2]
      BY <1>10, <3>1
    <3> QED BY <1>3, <1>7, <3>2
  <2>4. Bits(Pack(fields), 15, 5) = v4 % 2 ^ 5
    <3>1. 4 \in 1 .. 5
      OBVIOUS
    <3>2. Bits(Pack(fields), start[4], fields[4][2]) = fields[4][1] % 2 ^ fields[4][2]
      BY <1>10, <3>1
    <3> QED BY <1>3, <1>7, <3>2
  <2>5. Bits(Pack(fields), 20, 12) = v5 % 2 ^ 12
    <3>1. 5 \in 1 .. 5
      OBVIOUS
    <3>2. Bits(Pack(fields), start[5], fields[5][2]) = fields[5][1] % 2 ^ fields[5][2]
      BY <1>10, <3>1
    <3> QED BY <1>3, <1>7, <3>2
  <2> QED BY <2>1, <2>2, <2>3, <2>4, <2>5
<1> QED BY <1>2, <1>9, <1>11 DEF IBits, v1, v2, v3, v4, v5

SBits(w, op, f3, rs1, rs2, imm) ==
  /\ Holds(w, 0, 7, op)
  /\ Holds(w, 7, 5, Slice(imm, 0, 5))
  /\ Holds(w, 12, 3, f3)
  /\ Holds(w, 15, 5, rs1)
  /\ Holds(w, 20, 5, rs2)
  /\ Holds(w, 25, 6, Slice(imm, 5, 6))
  /\ Holds(w, 31, 1, Sign(imm))
  /\ Bits(w, 0, 7) = op % 2 ^ 7
  /\ Bits(w, 7, 5) = Slice(imm, 0, 5) % 2 ^ 5
  /\ Bits(w, 12, 3) = f3 % 2 ^ 3
  /\ Bits(w, 15, 5) = rs1 % 2 ^ 5
  /\ Bits(w, 20, 5) = rs2 % 2 ^ 5
  /\ Bits(w, 25, 6) = Slice(imm, 5, 6) % 2 ^ 6
  /\ Bits(w, 31, 1) = Sign(imm) % 2 ^ 1

LEMMA SFields ==
  ASSUME NEW op \in Int, NEW f3 \in Int, NEW rs1 \in Int, NEW rs2 \in Int, NEW imm \in Int
  PROVE  SBits(SType(op, f3, rs1, rs2, imm), op, f3, rs1, rs2, imm)
<1> DEFINE v1 == op
           v2 == Slice(imm, 0, 5)
           v3 == f3
           v4 == rs1
           v5 == rs2
           v6 == Slice(imm, 5, 6)
           v7 == Sign(imm)
           fields == << <<v1, 7>>, <<v2, 5>>, <<v3, 3>>, <<v4, 5>>, <<v5, 5>>, <<v6, 6>>, <<v7, 1>> >>
<1>1. v1 \in Int /\ v2 \in Int /\ v3 \in Int /\ v4 \in Int /\ v5 \in Int /\ v6 \in Int /\ v7 \in Int
  <2>1. v2 \in Int
    <3>1. 0 \in Nat /\ 5 \in Nat
      OBVIOUS
    <3> QED BY <3>1, SlicesAre
  <2>2. v6 \in Int
    <3>1. 5 \in Nat /\ 6 \in Nat
      OBVIOUS
    <3> QED BY <3>1, SlicesAre
  <2>3. v7 \in Int
    BY DEF Sign
  <2> HIDE DEF v2, v6, v7
  <2> QED BY <2>1, <2>2, <2>3
<1>2. SType(op, f3, rs1, rs2, imm) = Pack(fields)
  BY DEF SType
<1> HIDE DEF v1, v2, v3, v4, v5, v6, v7
<1>3. /\ fields[1][1] = v1 /\ fields[1][2] = 7
      /\ fields[2][1] = v2 /\ fields[2][2] = 5
      /\ fields[3][1] = v3 /\ fields[3][2] = 3
      /\ fields[4][1] = v4 /\ fields[4][2] = 5
      /\ fields[5][1] = v5 /\ fields[5][2] = 5
      /\ fields[6][1] = v6 /\ fields[6][2] = 6
      /\ fields[7][1] = v7 /\ fields[7][2] = 1
  OBVIOUS
<1>4. Fielded(fields, 7)
  <2>1. 7 \in Nat /\ Len(fields) = 7 /\ DOMAIN fields = 1 .. 7
    OBVIOUS
  <2> HIDE DEF fields
  <2>2. ASSUME NEW i \in 1 .. 7 PROVE fields[i][1] \in Int /\ fields[i][2] \in Nat
    <3>1. i = 1 \/ i = 2 \/ i = 3 \/ i = 4 \/ i = 5 \/ i = 6 \/ i = 7
      OBVIOUS
    <3> QED BY <1>1, <1>3, <3>1
  <2> QED BY <2>1, <2>2 DEF Fielded
<1> HIDE DEF fields
<1>5. PICK start : Starts(start, fields, 7) /\ Packed(Pack(fields), start, fields, 7)
  BY <1>4, PackIs
<1>6. start[1] = 0 /\ \A i \in 1 .. 7 : start[i + 1] = start[i] + fields[i][2]
  BY <1>5 DEF Starts
<1>7. start[1] = 0 /\ start[2] = 7 /\ start[3] = 12 /\ start[4] = 15 /\ start[5] = 20 /\ start[6] = 25 /\ start[7] = 31
  <2>1. start[2] = 7
    <3>1. 1 \in 1 .. 7 /\ 1 + 1 = 2
      OBVIOUS
    <3>2. start[1 + 1] = start[1] + fields[1][2]
      BY <1>6, <3>1
    <3> QED BY <1>3, <1>6, <3>1, <3>2
  <2>2. start[3] = 12
    <3>1. 2 \in 1 .. 7 /\ 2 + 1 = 3
      OBVIOUS
    <3>2. start[2 + 1] = start[2] + fields[2][2]
      BY <1>6, <3>1
    <3> QED BY <1>3, <1>6, <3>1, <3>2, <2>1
  <2>3. start[4] = 15
    <3>1. 3 \in 1 .. 7 /\ 3 + 1 = 4
      OBVIOUS
    <3>2. start[3 + 1] = start[3] + fields[3][2]
      BY <1>6, <3>1
    <3> QED BY <1>3, <1>6, <3>1, <3>2, <2>2
  <2>4. start[5] = 20
    <3>1. 4 \in 1 .. 7 /\ 4 + 1 = 5
      OBVIOUS
    <3>2. start[4 + 1] = start[4] + fields[4][2]
      BY <1>6, <3>1
    <3> QED BY <1>3, <1>6, <3>1, <3>2, <2>3
  <2>5. start[6] = 25
    <3>1. 5 \in 1 .. 7 /\ 5 + 1 = 6
      OBVIOUS
    <3>2. start[5 + 1] = start[5] + fields[5][2]
      BY <1>6, <3>1
    <3> QED BY <1>3, <1>6, <3>1, <3>2, <2>4
  <2>6. start[7] = 31
    <3>1. 6 \in 1 .. 7 /\ 6 + 1 = 7
      OBVIOUS
    <3>2. start[6 + 1] = start[6] + fields[6][2]
      BY <1>6, <3>1
    <3> QED BY <1>3, <1>6, <3>1, <3>2, <2>5
  <2> QED BY <1>6, <2>1, <2>2, <2>3, <2>4, <2>5, <2>6
<1>8. \A i \in 1 .. 7 : Holds(Pack(fields), start[i], fields[i][2], fields[i][1])
  BY <1>5 DEF Packed
<1>9. /\ Holds(Pack(fields), 0, 7, v1)
      /\ Holds(Pack(fields), 7, 5, v2)
      /\ Holds(Pack(fields), 12, 3, v3)
      /\ Holds(Pack(fields), 15, 5, v4)
      /\ Holds(Pack(fields), 20, 5, v5)
      /\ Holds(Pack(fields), 25, 6, v6)
      /\ Holds(Pack(fields), 31, 1, v7)
  <2>1. Holds(Pack(fields), 0, 7, v1)
    <3>1. 1 \in 1 .. 7
      OBVIOUS
    <3> QED BY <1>3, <1>7, <1>8, <3>1
  <2>2. Holds(Pack(fields), 7, 5, v2)
    <3>1. 2 \in 1 .. 7
      OBVIOUS
    <3> QED BY <1>3, <1>7, <1>8, <3>1
  <2>3. Holds(Pack(fields), 12, 3, v3)
    <3>1. 3 \in 1 .. 7
      OBVIOUS
    <3> QED BY <1>3, <1>7, <1>8, <3>1
  <2>4. Holds(Pack(fields), 15, 5, v4)
    <3>1. 4 \in 1 .. 7
      OBVIOUS
    <3> QED BY <1>3, <1>7, <1>8, <3>1
  <2>5. Holds(Pack(fields), 20, 5, v5)
    <3>1. 5 \in 1 .. 7
      OBVIOUS
    <3> QED BY <1>3, <1>7, <1>8, <3>1
  <2>6. Holds(Pack(fields), 25, 6, v6)
    <3>1. 6 \in 1 .. 7
      OBVIOUS
    <3> QED BY <1>3, <1>7, <1>8, <3>1
  <2>7. Holds(Pack(fields), 31, 1, v7)
    <3>1. 7 \in 1 .. 7
      OBVIOUS
    <3> QED BY <1>3, <1>7, <1>8, <3>1
  <2> QED BY <2>1, <2>2, <2>3, <2>4, <2>5, <2>6, <2>7
<1>10. \A i \in 1 .. 7 : Bits(Pack(fields), start[i], fields[i][2]) = fields[i][1] % 2 ^ fields[i][2]
  <2> SUFFICES ASSUME NEW i \in 1 .. 7
               PROVE  Bits(Pack(fields), start[i], fields[i][2]) = fields[i][1] % 2 ^ fields[i][2]
    OBVIOUS
  <2>1. start[i] \in Nat /\ fields[i][1] \in Int /\ fields[i][2] \in Nat
    <3>1. i \in 1 .. 7 + 1
      OBVIOUS
    <3> QED BY <1>4, <1>5, <3>1 DEF Starts, Fielded
  <2> QED BY <1>8, <2>1, BitsAre
<1>11. /\ Bits(Pack(fields), 0, 7) = v1 % 2 ^ 7
       /\ Bits(Pack(fields), 7, 5) = v2 % 2 ^ 5
       /\ Bits(Pack(fields), 12, 3) = v3 % 2 ^ 3
       /\ Bits(Pack(fields), 15, 5) = v4 % 2 ^ 5
       /\ Bits(Pack(fields), 20, 5) = v5 % 2 ^ 5
       /\ Bits(Pack(fields), 25, 6) = v6 % 2 ^ 6
       /\ Bits(Pack(fields), 31, 1) = v7 % 2 ^ 1
  <2>1. Bits(Pack(fields), 0, 7) = v1 % 2 ^ 7
    <3>1. 1 \in 1 .. 7
      OBVIOUS
    <3>2. Bits(Pack(fields), start[1], fields[1][2]) = fields[1][1] % 2 ^ fields[1][2]
      BY <1>10, <3>1
    <3> QED BY <1>3, <1>7, <3>2
  <2>2. Bits(Pack(fields), 7, 5) = v2 % 2 ^ 5
    <3>1. 2 \in 1 .. 7
      OBVIOUS
    <3>2. Bits(Pack(fields), start[2], fields[2][2]) = fields[2][1] % 2 ^ fields[2][2]
      BY <1>10, <3>1
    <3> QED BY <1>3, <1>7, <3>2
  <2>3. Bits(Pack(fields), 12, 3) = v3 % 2 ^ 3
    <3>1. 3 \in 1 .. 7
      OBVIOUS
    <3>2. Bits(Pack(fields), start[3], fields[3][2]) = fields[3][1] % 2 ^ fields[3][2]
      BY <1>10, <3>1
    <3> QED BY <1>3, <1>7, <3>2
  <2>4. Bits(Pack(fields), 15, 5) = v4 % 2 ^ 5
    <3>1. 4 \in 1 .. 7
      OBVIOUS
    <3>2. Bits(Pack(fields), start[4], fields[4][2]) = fields[4][1] % 2 ^ fields[4][2]
      BY <1>10, <3>1
    <3> QED BY <1>3, <1>7, <3>2
  <2>5. Bits(Pack(fields), 20, 5) = v5 % 2 ^ 5
    <3>1. 5 \in 1 .. 7
      OBVIOUS
    <3>2. Bits(Pack(fields), start[5], fields[5][2]) = fields[5][1] % 2 ^ fields[5][2]
      BY <1>10, <3>1
    <3> QED BY <1>3, <1>7, <3>2
  <2>6. Bits(Pack(fields), 25, 6) = v6 % 2 ^ 6
    <3>1. 6 \in 1 .. 7
      OBVIOUS
    <3>2. Bits(Pack(fields), start[6], fields[6][2]) = fields[6][1] % 2 ^ fields[6][2]
      BY <1>10, <3>1
    <3> QED BY <1>3, <1>7, <3>2
  <2>7. Bits(Pack(fields), 31, 1) = v7 % 2 ^ 1
    <3>1. 7 \in 1 .. 7
      OBVIOUS
    <3>2. Bits(Pack(fields), start[7], fields[7][2]) = fields[7][1] % 2 ^ fields[7][2]
      BY <1>10, <3>1
    <3> QED BY <1>3, <1>7, <3>2
  <2> QED BY <2>1, <2>2, <2>3, <2>4, <2>5, <2>6, <2>7
<1> QED BY <1>2, <1>9, <1>11 DEF SBits, v1, v2, v3, v4, v5, v6, v7

BBits(w, op, f3, rs1, rs2, imm) ==
  /\ Holds(w, 0, 7, op)
  /\ Holds(w, 7, 1, Slice(imm, 11, 1))
  /\ Holds(w, 8, 4, Slice(imm, 1, 4))
  /\ Holds(w, 12, 3, f3)
  /\ Holds(w, 15, 5, rs1)
  /\ Holds(w, 20, 5, rs2)
  /\ Holds(w, 25, 6, Slice(imm, 5, 6))
  /\ Holds(w, 31, 1, Sign(imm))
  /\ Bits(w, 0, 7) = op % 2 ^ 7
  /\ Bits(w, 7, 1) = Slice(imm, 11, 1) % 2 ^ 1
  /\ Bits(w, 8, 4) = Slice(imm, 1, 4) % 2 ^ 4
  /\ Bits(w, 12, 3) = f3 % 2 ^ 3
  /\ Bits(w, 15, 5) = rs1 % 2 ^ 5
  /\ Bits(w, 20, 5) = rs2 % 2 ^ 5
  /\ Bits(w, 25, 6) = Slice(imm, 5, 6) % 2 ^ 6
  /\ Bits(w, 31, 1) = Sign(imm) % 2 ^ 1

LEMMA BFields ==
  ASSUME NEW op \in Int, NEW f3 \in Int, NEW rs1 \in Int, NEW rs2 \in Int, NEW imm \in Int
  PROVE  BBits(BType(op, f3, rs1, rs2, imm), op, f3, rs1, rs2, imm)
<1> DEFINE v1 == op
           v2 == Slice(imm, 11, 1)
           v3 == Slice(imm, 1, 4)
           v4 == f3
           v5 == rs1
           v6 == rs2
           v7 == Slice(imm, 5, 6)
           v8 == Sign(imm)
           fields == << <<v1, 7>>, <<v2, 1>>, <<v3, 4>>, <<v4, 3>>, <<v5, 5>>, <<v6, 5>>, <<v7, 6>>, <<v8, 1>> >>
<1>1. v1 \in Int /\ v2 \in Int /\ v3 \in Int /\ v4 \in Int /\ v5 \in Int /\ v6 \in Int /\ v7 \in Int /\ v8 \in Int
  <2>1. v2 \in Int
    <3>1. 11 \in Nat /\ 1 \in Nat
      OBVIOUS
    <3> QED BY <3>1, SlicesAre
  <2>2. v3 \in Int
    <3>1. 1 \in Nat /\ 4 \in Nat
      OBVIOUS
    <3> QED BY <3>1, SlicesAre
  <2>3. v7 \in Int
    <3>1. 5 \in Nat /\ 6 \in Nat
      OBVIOUS
    <3> QED BY <3>1, SlicesAre
  <2>4. v8 \in Int
    BY DEF Sign
  <2> HIDE DEF v2, v3, v7, v8
  <2> QED BY <2>1, <2>2, <2>3, <2>4
<1>2. BType(op, f3, rs1, rs2, imm) = Pack(fields)
  BY DEF BType
<1> HIDE DEF v1, v2, v3, v4, v5, v6, v7, v8
<1>3. /\ fields[1][1] = v1 /\ fields[1][2] = 7
      /\ fields[2][1] = v2 /\ fields[2][2] = 1
      /\ fields[3][1] = v3 /\ fields[3][2] = 4
      /\ fields[4][1] = v4 /\ fields[4][2] = 3
      /\ fields[5][1] = v5 /\ fields[5][2] = 5
      /\ fields[6][1] = v6 /\ fields[6][2] = 5
      /\ fields[7][1] = v7 /\ fields[7][2] = 6
      /\ fields[8][1] = v8 /\ fields[8][2] = 1
  OBVIOUS
<1>4. Fielded(fields, 8)
  <2>1. 8 \in Nat /\ Len(fields) = 8 /\ DOMAIN fields = 1 .. 8
    OBVIOUS
  <2> HIDE DEF fields
  <2>2. ASSUME NEW i \in 1 .. 8 PROVE fields[i][1] \in Int /\ fields[i][2] \in Nat
    <3>1. i = 1 \/ i = 2 \/ i = 3 \/ i = 4 \/ i = 5 \/ i = 6 \/ i = 7 \/ i = 8
      OBVIOUS
    <3> QED BY <1>1, <1>3, <3>1
  <2> QED BY <2>1, <2>2 DEF Fielded
<1> HIDE DEF fields
<1>5. PICK start : Starts(start, fields, 8) /\ Packed(Pack(fields), start, fields, 8)
  BY <1>4, PackIs
<1>6. start[1] = 0 /\ \A i \in 1 .. 8 : start[i + 1] = start[i] + fields[i][2]
  BY <1>5 DEF Starts
<1>7. start[1] = 0 /\ start[2] = 7 /\ start[3] = 8 /\ start[4] = 12 /\ start[5] = 15 /\ start[6] = 20 /\ start[7] = 25 /\ start[8] = 31
  <2>1. start[2] = 7
    <3>1. 1 \in 1 .. 8 /\ 1 + 1 = 2
      OBVIOUS
    <3>2. start[1 + 1] = start[1] + fields[1][2]
      BY <1>6, <3>1
    <3> QED BY <1>3, <1>6, <3>1, <3>2
  <2>2. start[3] = 8
    <3>1. 2 \in 1 .. 8 /\ 2 + 1 = 3
      OBVIOUS
    <3>2. start[2 + 1] = start[2] + fields[2][2]
      BY <1>6, <3>1
    <3> QED BY <1>3, <1>6, <3>1, <3>2, <2>1
  <2>3. start[4] = 12
    <3>1. 3 \in 1 .. 8 /\ 3 + 1 = 4
      OBVIOUS
    <3>2. start[3 + 1] = start[3] + fields[3][2]
      BY <1>6, <3>1
    <3> QED BY <1>3, <1>6, <3>1, <3>2, <2>2
  <2>4. start[5] = 15
    <3>1. 4 \in 1 .. 8 /\ 4 + 1 = 5
      OBVIOUS
    <3>2. start[4 + 1] = start[4] + fields[4][2]
      BY <1>6, <3>1
    <3> QED BY <1>3, <1>6, <3>1, <3>2, <2>3
  <2>5. start[6] = 20
    <3>1. 5 \in 1 .. 8 /\ 5 + 1 = 6
      OBVIOUS
    <3>2. start[5 + 1] = start[5] + fields[5][2]
      BY <1>6, <3>1
    <3> QED BY <1>3, <1>6, <3>1, <3>2, <2>4
  <2>6. start[7] = 25
    <3>1. 6 \in 1 .. 8 /\ 6 + 1 = 7
      OBVIOUS
    <3>2. start[6 + 1] = start[6] + fields[6][2]
      BY <1>6, <3>1
    <3> QED BY <1>3, <1>6, <3>1, <3>2, <2>5
  <2>7. start[8] = 31
    <3>1. 7 \in 1 .. 8 /\ 7 + 1 = 8
      OBVIOUS
    <3>2. start[7 + 1] = start[7] + fields[7][2]
      BY <1>6, <3>1
    <3> QED BY <1>3, <1>6, <3>1, <3>2, <2>6
  <2> QED BY <1>6, <2>1, <2>2, <2>3, <2>4, <2>5, <2>6, <2>7
<1>8. \A i \in 1 .. 8 : Holds(Pack(fields), start[i], fields[i][2], fields[i][1])
  BY <1>5 DEF Packed
<1>9. /\ Holds(Pack(fields), 0, 7, v1)
      /\ Holds(Pack(fields), 7, 1, v2)
      /\ Holds(Pack(fields), 8, 4, v3)
      /\ Holds(Pack(fields), 12, 3, v4)
      /\ Holds(Pack(fields), 15, 5, v5)
      /\ Holds(Pack(fields), 20, 5, v6)
      /\ Holds(Pack(fields), 25, 6, v7)
      /\ Holds(Pack(fields), 31, 1, v8)
  <2>1. Holds(Pack(fields), 0, 7, v1)
    <3>1. 1 \in 1 .. 8
      OBVIOUS
    <3> QED BY <1>3, <1>7, <1>8, <3>1
  <2>2. Holds(Pack(fields), 7, 1, v2)
    <3>1. 2 \in 1 .. 8
      OBVIOUS
    <3> QED BY <1>3, <1>7, <1>8, <3>1
  <2>3. Holds(Pack(fields), 8, 4, v3)
    <3>1. 3 \in 1 .. 8
      OBVIOUS
    <3> QED BY <1>3, <1>7, <1>8, <3>1
  <2>4. Holds(Pack(fields), 12, 3, v4)
    <3>1. 4 \in 1 .. 8
      OBVIOUS
    <3> QED BY <1>3, <1>7, <1>8, <3>1
  <2>5. Holds(Pack(fields), 15, 5, v5)
    <3>1. 5 \in 1 .. 8
      OBVIOUS
    <3> QED BY <1>3, <1>7, <1>8, <3>1
  <2>6. Holds(Pack(fields), 20, 5, v6)
    <3>1. 6 \in 1 .. 8
      OBVIOUS
    <3> QED BY <1>3, <1>7, <1>8, <3>1
  <2>7. Holds(Pack(fields), 25, 6, v7)
    <3>1. 7 \in 1 .. 8
      OBVIOUS
    <3> QED BY <1>3, <1>7, <1>8, <3>1
  <2>8. Holds(Pack(fields), 31, 1, v8)
    <3>1. 8 \in 1 .. 8
      OBVIOUS
    <3> QED BY <1>3, <1>7, <1>8, <3>1
  <2> QED BY <2>1, <2>2, <2>3, <2>4, <2>5, <2>6, <2>7, <2>8
<1>10. \A i \in 1 .. 8 : Bits(Pack(fields), start[i], fields[i][2]) = fields[i][1] % 2 ^ fields[i][2]
  <2> SUFFICES ASSUME NEW i \in 1 .. 8
               PROVE  Bits(Pack(fields), start[i], fields[i][2]) = fields[i][1] % 2 ^ fields[i][2]
    OBVIOUS
  <2>1. start[i] \in Nat /\ fields[i][1] \in Int /\ fields[i][2] \in Nat
    <3>1. i \in 1 .. 8 + 1
      OBVIOUS
    <3> QED BY <1>4, <1>5, <3>1 DEF Starts, Fielded
  <2> QED BY <1>8, <2>1, BitsAre
<1>11. /\ Bits(Pack(fields), 0, 7) = v1 % 2 ^ 7
       /\ Bits(Pack(fields), 7, 1) = v2 % 2 ^ 1
       /\ Bits(Pack(fields), 8, 4) = v3 % 2 ^ 4
       /\ Bits(Pack(fields), 12, 3) = v4 % 2 ^ 3
       /\ Bits(Pack(fields), 15, 5) = v5 % 2 ^ 5
       /\ Bits(Pack(fields), 20, 5) = v6 % 2 ^ 5
       /\ Bits(Pack(fields), 25, 6) = v7 % 2 ^ 6
       /\ Bits(Pack(fields), 31, 1) = v8 % 2 ^ 1
  <2>1. Bits(Pack(fields), 0, 7) = v1 % 2 ^ 7
    <3>1. 1 \in 1 .. 8
      OBVIOUS
    <3>2. Bits(Pack(fields), start[1], fields[1][2]) = fields[1][1] % 2 ^ fields[1][2]
      BY <1>10, <3>1
    <3> QED BY <1>3, <1>7, <3>2
  <2>2. Bits(Pack(fields), 7, 1) = v2 % 2 ^ 1
    <3>1. 2 \in 1 .. 8
      OBVIOUS
    <3>2. Bits(Pack(fields), start[2], fields[2][2]) = fields[2][1] % 2 ^ fields[2][2]
      BY <1>10, <3>1
    <3> QED BY <1>3, <1>7, <3>2
  <2>3. Bits(Pack(fields), 8, 4) = v3 % 2 ^ 4
    <3>1. 3 \in 1 .. 8
      OBVIOUS
    <3>2. Bits(Pack(fields), start[3], fields[3][2]) = fields[3][1] % 2 ^ fields[3][2]
      BY <1>10, <3>1
    <3> QED BY <1>3, <1>7, <3>2
  <2>4. Bits(Pack(fields), 12, 3) = v4 % 2 ^ 3
    <3>1. 4 \in 1 .. 8
      OBVIOUS
    <3>2. Bits(Pack(fields), start[4], fields[4][2]) = fields[4][1] % 2 ^ fields[4][2]
      BY <1>10, <3>1
    <3> QED BY <1>3, <1>7, <3>2
  <2>5. Bits(Pack(fields), 15, 5) = v5 % 2 ^ 5
    <3>1. 5 \in 1 .. 8
      OBVIOUS
    <3>2. Bits(Pack(fields), start[5], fields[5][2]) = fields[5][1] % 2 ^ fields[5][2]
      BY <1>10, <3>1
    <3> QED BY <1>3, <1>7, <3>2
  <2>6. Bits(Pack(fields), 20, 5) = v6 % 2 ^ 5
    <3>1. 6 \in 1 .. 8
      OBVIOUS
    <3>2. Bits(Pack(fields), start[6], fields[6][2]) = fields[6][1] % 2 ^ fields[6][2]
      BY <1>10, <3>1
    <3> QED BY <1>3, <1>7, <3>2
  <2>7. Bits(Pack(fields), 25, 6) = v7 % 2 ^ 6
    <3>1. 7 \in 1 .. 8
      OBVIOUS
    <3>2. Bits(Pack(fields), start[7], fields[7][2]) = fields[7][1] % 2 ^ fields[7][2]
      BY <1>10, <3>1
    <3> QED BY <1>3, <1>7, <3>2
  <2>8. Bits(Pack(fields), 31, 1) = v8 % 2 ^ 1
    <3>1. 8 \in 1 .. 8
      OBVIOUS
    <3>2. Bits(Pack(fields), start[8], fields[8][2]) = fields[8][1] % 2 ^ fields[8][2]
      BY <1>10, <3>1
    <3> QED BY <1>3, <1>7, <3>2
  <2> QED BY <2>1, <2>2, <2>3, <2>4, <2>5, <2>6, <2>7, <2>8
<1> QED BY <1>2, <1>9, <1>11 DEF BBits, v1, v2, v3, v4, v5, v6, v7, v8

UBits(w, op, rd, imm) ==
  /\ Holds(w, 0, 7, op)
  /\ Holds(w, 7, 5, rd)
  /\ Holds(w, 12, 20, imm)
  /\ Bits(w, 0, 7) = op % 2 ^ 7
  /\ Bits(w, 7, 5) = rd % 2 ^ 5
  /\ Bits(w, 12, 20) = imm % 2 ^ 20

LEMMA UFields ==
  ASSUME NEW op \in Int, NEW rd \in Int, NEW imm \in Int
  PROVE  UBits(UType(op, rd, imm), op, rd, imm)
<1> DEFINE v1 == op
           v2 == rd
           v3 == imm
           fields == << <<v1, 7>>, <<v2, 5>>, <<v3, 20>> >>
<1>1. v1 \in Int /\ v2 \in Int /\ v3 \in Int
  OBVIOUS
<1>2. UType(op, rd, imm) = Pack(fields)
  BY DEF UType
<1> HIDE DEF v1, v2, v3
<1>3. /\ fields[1][1] = v1 /\ fields[1][2] = 7
      /\ fields[2][1] = v2 /\ fields[2][2] = 5
      /\ fields[3][1] = v3 /\ fields[3][2] = 20
  OBVIOUS
<1>4. Fielded(fields, 3)
  <2>1. 3 \in Nat /\ Len(fields) = 3 /\ DOMAIN fields = 1 .. 3
    OBVIOUS
  <2> HIDE DEF fields
  <2>2. ASSUME NEW i \in 1 .. 3 PROVE fields[i][1] \in Int /\ fields[i][2] \in Nat
    <3>1. i = 1 \/ i = 2 \/ i = 3
      OBVIOUS
    <3> QED BY <1>1, <1>3, <3>1
  <2> QED BY <2>1, <2>2 DEF Fielded
<1> HIDE DEF fields
<1>5. PICK start : Starts(start, fields, 3) /\ Packed(Pack(fields), start, fields, 3)
  BY <1>4, PackIs
<1>6. start[1] = 0 /\ \A i \in 1 .. 3 : start[i + 1] = start[i] + fields[i][2]
  BY <1>5 DEF Starts
<1>7. start[1] = 0 /\ start[2] = 7 /\ start[3] = 12
  <2>1. start[2] = 7
    <3>1. 1 \in 1 .. 3 /\ 1 + 1 = 2
      OBVIOUS
    <3>2. start[1 + 1] = start[1] + fields[1][2]
      BY <1>6, <3>1
    <3> QED BY <1>3, <1>6, <3>1, <3>2
  <2>2. start[3] = 12
    <3>1. 2 \in 1 .. 3 /\ 2 + 1 = 3
      OBVIOUS
    <3>2. start[2 + 1] = start[2] + fields[2][2]
      BY <1>6, <3>1
    <3> QED BY <1>3, <1>6, <3>1, <3>2, <2>1
  <2> QED BY <1>6, <2>1, <2>2
<1>8. \A i \in 1 .. 3 : Holds(Pack(fields), start[i], fields[i][2], fields[i][1])
  BY <1>5 DEF Packed
<1>9. /\ Holds(Pack(fields), 0, 7, v1)
      /\ Holds(Pack(fields), 7, 5, v2)
      /\ Holds(Pack(fields), 12, 20, v3)
  <2>1. Holds(Pack(fields), 0, 7, v1)
    <3>1. 1 \in 1 .. 3
      OBVIOUS
    <3> QED BY <1>3, <1>7, <1>8, <3>1
  <2>2. Holds(Pack(fields), 7, 5, v2)
    <3>1. 2 \in 1 .. 3
      OBVIOUS
    <3> QED BY <1>3, <1>7, <1>8, <3>1
  <2>3. Holds(Pack(fields), 12, 20, v3)
    <3>1. 3 \in 1 .. 3
      OBVIOUS
    <3> QED BY <1>3, <1>7, <1>8, <3>1
  <2> QED BY <2>1, <2>2, <2>3
<1>10. \A i \in 1 .. 3 : Bits(Pack(fields), start[i], fields[i][2]) = fields[i][1] % 2 ^ fields[i][2]
  <2> SUFFICES ASSUME NEW i \in 1 .. 3
               PROVE  Bits(Pack(fields), start[i], fields[i][2]) = fields[i][1] % 2 ^ fields[i][2]
    OBVIOUS
  <2>1. start[i] \in Nat /\ fields[i][1] \in Int /\ fields[i][2] \in Nat
    <3>1. i \in 1 .. 3 + 1
      OBVIOUS
    <3> QED BY <1>4, <1>5, <3>1 DEF Starts, Fielded
  <2> QED BY <1>8, <2>1, BitsAre
<1>11. /\ Bits(Pack(fields), 0, 7) = v1 % 2 ^ 7
       /\ Bits(Pack(fields), 7, 5) = v2 % 2 ^ 5
       /\ Bits(Pack(fields), 12, 20) = v3 % 2 ^ 20
  <2>1. Bits(Pack(fields), 0, 7) = v1 % 2 ^ 7
    <3>1. 1 \in 1 .. 3
      OBVIOUS
    <3>2. Bits(Pack(fields), start[1], fields[1][2]) = fields[1][1] % 2 ^ fields[1][2]
      BY <1>10, <3>1
    <3> QED BY <1>3, <1>7, <3>2
  <2>2. Bits(Pack(fields), 7, 5) = v2 % 2 ^ 5
    <3>1. 2 \in 1 .. 3
      OBVIOUS
    <3>2. Bits(Pack(fields), start[2], fields[2][2]) = fields[2][1] % 2 ^ fields[2][2]
      BY <1>10, <3>1
    <3> QED BY <1>3, <1>7, <3>2
  <2>3. Bits(Pack(fields), 12, 20) = v3 % 2 ^ 20
    <3>1. 3 \in 1 .. 3
      OBVIOUS
    <3>2. Bits(Pack(fields), start[3], fields[3][2]) = fields[3][1] % 2 ^ fields[3][2]
      BY <1>10, <3>1
    <3> QED BY <1>3, <1>7, <3>2
  <2> QED BY <2>1, <2>2, <2>3
<1> QED BY <1>2, <1>9, <1>11 DEF UBits, v1, v2, v3

JBits(w, op, rd, imm) ==
  /\ Holds(w, 0, 7, op)
  /\ Holds(w, 7, 5, rd)
  /\ Holds(w, 12, 8, Slice(imm, 12, 8))
  /\ Holds(w, 20, 1, Slice(imm, 11, 1))
  /\ Holds(w, 21, 10, Slice(imm, 1, 10))
  /\ Holds(w, 31, 1, Slice(imm, 20, 1))
  /\ Bits(w, 0, 7) = op % 2 ^ 7
  /\ Bits(w, 7, 5) = rd % 2 ^ 5
  /\ Bits(w, 12, 8) = Slice(imm, 12, 8) % 2 ^ 8
  /\ Bits(w, 20, 1) = Slice(imm, 11, 1) % 2 ^ 1
  /\ Bits(w, 21, 10) = Slice(imm, 1, 10) % 2 ^ 10
  /\ Bits(w, 31, 1) = Slice(imm, 20, 1) % 2 ^ 1

LEMMA JFields ==
  ASSUME NEW op \in Int, NEW rd \in Int, NEW imm \in Int
  PROVE  JBits(JType(op, rd, imm), op, rd, imm)
<1> DEFINE v1 == op
           v2 == rd
           v3 == Slice(imm, 12, 8)
           v4 == Slice(imm, 11, 1)
           v5 == Slice(imm, 1, 10)
           v6 == Slice(imm, 20, 1)
           fields == << <<v1, 7>>, <<v2, 5>>, <<v3, 8>>, <<v4, 1>>, <<v5, 10>>, <<v6, 1>> >>
<1>1. v1 \in Int /\ v2 \in Int /\ v3 \in Int /\ v4 \in Int /\ v5 \in Int /\ v6 \in Int
  <2>1. v3 \in Int
    <3>1. 12 \in Nat /\ 8 \in Nat
      OBVIOUS
    <3> QED BY <3>1, SlicesAre
  <2>2. v4 \in Int
    <3>1. 11 \in Nat /\ 1 \in Nat
      OBVIOUS
    <3> QED BY <3>1, SlicesAre
  <2>3. v5 \in Int
    <3>1. 1 \in Nat /\ 10 \in Nat
      OBVIOUS
    <3> QED BY <3>1, SlicesAre
  <2>4. v6 \in Int
    <3>1. 20 \in Nat /\ 1 \in Nat
      OBVIOUS
    <3> QED BY <3>1, SlicesAre
  <2> HIDE DEF v3, v4, v5, v6
  <2> QED BY <2>1, <2>2, <2>3, <2>4
<1>2. JType(op, rd, imm) = Pack(fields)
  BY DEF JType
<1> HIDE DEF v1, v2, v3, v4, v5, v6
<1>3. /\ fields[1][1] = v1 /\ fields[1][2] = 7
      /\ fields[2][1] = v2 /\ fields[2][2] = 5
      /\ fields[3][1] = v3 /\ fields[3][2] = 8
      /\ fields[4][1] = v4 /\ fields[4][2] = 1
      /\ fields[5][1] = v5 /\ fields[5][2] = 10
      /\ fields[6][1] = v6 /\ fields[6][2] = 1
  OBVIOUS
<1>4. Fielded(fields, 6)
  <2>1. 6 \in Nat /\ Len(fields) = 6 /\ DOMAIN fields = 1 .. 6
    OBVIOUS
  <2> HIDE DEF fields
  <2>2. ASSUME NEW i \in 1 .. 6 PROVE fields[i][1] \in Int /\ fields[i][2] \in Nat
    <3>1. i = 1 \/ i = 2 \/ i = 3 \/ i = 4 \/ i = 5 \/ i = 6
      OBVIOUS
    <3> QED BY <1>1, <1>3, <3>1
  <2> QED BY <2>1, <2>2 DEF Fielded
<1> HIDE DEF fields
<1>5. PICK start : Starts(start, fields, 6) /\ Packed(Pack(fields), start, fields, 6)
  BY <1>4, PackIs
<1>6. start[1] = 0 /\ \A i \in 1 .. 6 : start[i + 1] = start[i] + fields[i][2]
  BY <1>5 DEF Starts
<1>7. start[1] = 0 /\ start[2] = 7 /\ start[3] = 12 /\ start[4] = 20 /\ start[5] = 21 /\ start[6] = 31
  <2>1. start[2] = 7
    <3>1. 1 \in 1 .. 6 /\ 1 + 1 = 2
      OBVIOUS
    <3>2. start[1 + 1] = start[1] + fields[1][2]
      BY <1>6, <3>1
    <3> QED BY <1>3, <1>6, <3>1, <3>2
  <2>2. start[3] = 12
    <3>1. 2 \in 1 .. 6 /\ 2 + 1 = 3
      OBVIOUS
    <3>2. start[2 + 1] = start[2] + fields[2][2]
      BY <1>6, <3>1
    <3> QED BY <1>3, <1>6, <3>1, <3>2, <2>1
  <2>3. start[4] = 20
    <3>1. 3 \in 1 .. 6 /\ 3 + 1 = 4
      OBVIOUS
    <3>2. start[3 + 1] = start[3] + fields[3][2]
      BY <1>6, <3>1
    <3> QED BY <1>3, <1>6, <3>1, <3>2, <2>2
  <2>4. start[5] = 21
    <3>1. 4 \in 1 .. 6 /\ 4 + 1 = 5
      OBVIOUS
    <3>2. start[4 + 1] = start[4] + fields[4][2]
      BY <1>6, <3>1
    <3> QED BY <1>3, <1>6, <3>1, <3>2, <2>3
  <2>5. start[6] = 31
    <3>1. 5 \in 1 .. 6 /\ 5 + 1 = 6
      OBVIOUS
    <3>2. start[5 + 1] = start[5] + fields[5][2]
      BY <1>6, <3>1
    <3> QED BY <1>3, <1>6, <3>1, <3>2, <2>4
  <2> QED BY <1>6, <2>1, <2>2, <2>3, <2>4, <2>5
<1>8. \A i \in 1 .. 6 : Holds(Pack(fields), start[i], fields[i][2], fields[i][1])
  BY <1>5 DEF Packed
<1>9. /\ Holds(Pack(fields), 0, 7, v1)
      /\ Holds(Pack(fields), 7, 5, v2)
      /\ Holds(Pack(fields), 12, 8, v3)
      /\ Holds(Pack(fields), 20, 1, v4)
      /\ Holds(Pack(fields), 21, 10, v5)
      /\ Holds(Pack(fields), 31, 1, v6)
  <2>1. Holds(Pack(fields), 0, 7, v1)
    <3>1. 1 \in 1 .. 6
      OBVIOUS
    <3> QED BY <1>3, <1>7, <1>8, <3>1
  <2>2. Holds(Pack(fields), 7, 5, v2)
    <3>1. 2 \in 1 .. 6
      OBVIOUS
    <3> QED BY <1>3, <1>7, <1>8, <3>1
  <2>3. Holds(Pack(fields), 12, 8, v3)
    <3>1. 3 \in 1 .. 6
      OBVIOUS
    <3> QED BY <1>3, <1>7, <1>8, <3>1
  <2>4. Holds(Pack(fields), 20, 1, v4)
    <3>1. 4 \in 1 .. 6
      OBVIOUS
    <3> QED BY <1>3, <1>7, <1>8, <3>1
  <2>5. Holds(Pack(fields), 21, 10, v5)
    <3>1. 5 \in 1 .. 6
      OBVIOUS
    <3> QED BY <1>3, <1>7, <1>8, <3>1
  <2>6. Holds(Pack(fields), 31, 1, v6)
    <3>1. 6 \in 1 .. 6
      OBVIOUS
    <3> QED BY <1>3, <1>7, <1>8, <3>1
  <2> QED BY <2>1, <2>2, <2>3, <2>4, <2>5, <2>6
<1>10. \A i \in 1 .. 6 : Bits(Pack(fields), start[i], fields[i][2]) = fields[i][1] % 2 ^ fields[i][2]
  <2> SUFFICES ASSUME NEW i \in 1 .. 6
               PROVE  Bits(Pack(fields), start[i], fields[i][2]) = fields[i][1] % 2 ^ fields[i][2]
    OBVIOUS
  <2>1. start[i] \in Nat /\ fields[i][1] \in Int /\ fields[i][2] \in Nat
    <3>1. i \in 1 .. 6 + 1
      OBVIOUS
    <3> QED BY <1>4, <1>5, <3>1 DEF Starts, Fielded
  <2> QED BY <1>8, <2>1, BitsAre
<1>11. /\ Bits(Pack(fields), 0, 7) = v1 % 2 ^ 7
       /\ Bits(Pack(fields), 7, 5) = v2 % 2 ^ 5
       /\ Bits(Pack(fields), 12, 8) = v3 % 2 ^ 8
       /\ Bits(Pack(fields), 20, 1) = v4 % 2 ^ 1
       /\ Bits(Pack(fields), 21, 10) = v5 % 2 ^ 10
       /\ Bits(Pack(fields), 31, 1) = v6 % 2 ^ 1
  <2>1. Bits(Pack(fields), 0, 7) = v1 % 2 ^ 7
    <3>1. 1 \in 1 .. 6
      OBVIOUS
    <3>2. Bits(Pack(fields), start[1], fields[1][2]) = fields[1][1] % 2 ^ fields[1][2]
      BY <1>10, <3>1
    <3> QED BY <1>3, <1>7, <3>2
  <2>2. Bits(Pack(fields), 7, 5) = v2 % 2 ^ 5
    <3>1. 2 \in 1 .. 6
      OBVIOUS
    <3>2. Bits(Pack(fields), start[2], fields[2][2]) = fields[2][1] % 2 ^ fields[2][2]
      BY <1>10, <3>1
    <3> QED BY <1>3, <1>7, <3>2
  <2>3. Bits(Pack(fields), 12, 8) = v3 % 2 ^ 8
    <3>1. 3 \in 1 .. 6
      OBVIOUS
    <3>2. Bits(Pack(fields), start[3], fields[3][2]) = fields[3][1] % 2 ^ fields[3][2]
      BY <1>10, <3>1
    <3> QED BY <1>3, <1>7, <3>2
  <2>4. Bits(Pack(fields), 20, 1) = v4 % 2 ^ 1
    <3>1. 4 \in 1 .. 6
      OBVIOUS
    <3>2. Bits(Pack(fields), start[4], fields[4][2]) = fields[4][1] % 2 ^ fields[4][2]
      BY <1>10, <3>1
    <3> QED BY <1>3, <1>7, <3>2
  <2>5. Bits(Pack(fields), 21, 10) = v5 % 2 ^ 10
    <3>1. 5 \in 1 .. 6
      OBVIOUS
    <3>2. Bits(Pack(fields), start[5], fields[5][2]) = fields[5][1] % 2 ^ fields[5][2]
      BY <1>10, <3>1
    <3> QED BY <1>3, <1>7, <3>2
  <2>6. Bits(Pack(fields), 31, 1) = v6 % 2 ^ 1
    <3>1. 6 \in 1 .. 6
      OBVIOUS
    <3>2. Bits(Pack(fields), start[6], fields[6][2]) = fields[6][1] % 2 ^ fields[6][2]
      BY <1>10, <3>1
    <3> QED BY <1>3, <1>7, <3>2
  <2> QED BY <2>1, <2>2, <2>3, <2>4, <2>5, <2>6
<1> QED BY <1>2, <1>9, <1>11 DEF JBits, v1, v2, v3, v4, v5, v6

LEMMA Weight ==
  2 ^ 1 = 2 /\ 2 ^ 2 = 4 /\ 2 ^ 3 = 8 /\ 2 ^ 4 = 16 /\ 2 ^ 5 = 32 /\ 2 ^ 6 = 64 /\ 2 ^ 7 = 128
<1>1. \A k \in Nat : 2 ^ (k + 1) = 2 * 2 ^ k
  BY Doubles
<1>2. /\ 2 ^ 1 = 2 /\ 2 ^ (1 + 1) = 2 * 2 ^ 1 /\ 2 ^ (2 + 1) = 2 * 2 ^ 2 /\ 2 ^ (3 + 1) = 2 * 2 ^ 3
      /\ 2 ^ (4 + 1) = 2 * 2 ^ 4 /\ 2 ^ (5 + 1) = 2 * 2 ^ 5 /\ 2 ^ (6 + 1) = 2 * 2 ^ 6
  BY <1>1, Unit
<1> QED BY <1>2

LEMMA Heavy ==
  /\ 2 ^ 8 = 256 /\ 2 ^ 9 = 512 /\ 2 ^ 10 = 1024 /\ 2 ^ 11 = 2048 /\ 2 ^ 12 = 4096 /\ 2 ^ 13 = 8192
  /\ 2 ^ 14 = 16384 /\ 2 ^ 15 = 32768 /\ 2 ^ 16 = 65536 /\ 2 ^ 17 = 131072 /\ 2 ^ 18 = 262144
  /\ 2 ^ 19 = 524288 /\ 2 ^ 20 = 1048576 /\ 2 ^ 21 = 2097152
<1>1. \A k \in Nat : 2 ^ (k + 1) = 2 * 2 ^ k
  BY Doubles
<1>2. /\ 2 ^ (7 + 1) = 2 * 2 ^ 7 /\ 2 ^ (8 + 1) = 2 * 2 ^ 8 /\ 2 ^ (9 + 1) = 2 * 2 ^ 9
      /\ 2 ^ (10 + 1) = 2 * 2 ^ 10 /\ 2 ^ (11 + 1) = 2 * 2 ^ 11 /\ 2 ^ (12 + 1) = 2 * 2 ^ 12
      /\ 2 ^ (13 + 1) = 2 * 2 ^ 13 /\ 2 ^ (14 + 1) = 2 * 2 ^ 14 /\ 2 ^ (15 + 1) = 2 * 2 ^ 15
      /\ 2 ^ (16 + 1) = 2 * 2 ^ 16 /\ 2 ^ (17 + 1) = 2 * 2 ^ 17 /\ 2 ^ (18 + 1) = 2 * 2 ^ 18
      /\ 2 ^ (19 + 1) = 2 * 2 ^ 19 /\ 2 ^ (20 + 1) = 2 * 2 ^ 20
  BY <1>1
<1> QED BY <1>2, Weight, SMT

LEMMA FieldIs ==
  ASSUME NEW low \in Nat, NEW n \in Nat, NEW v \in 0 .. 2 ^ n - 1, NEW word, Holds(word, low, n, v)
  PROVE  Bits(word, low, n) = v
<1> DEFINE w == 2 ^ n
<1>1. w \in Nat \ {0} /\ v \in 0 .. w - 1
  BY Counted
<1>2. v \in Int
  BY <1>1
<1>3. Bits(word, low, n) = v % w
  BY <1>2, BitsAre
<1> HIDE DEF w
<1>4. v % w = v
  BY <1>1, Remains
<1> QED BY <1>3, <1>4

(* Dividing twice. *)
LEMMA Nested ==
  ASSUME NEW v \in Int, NEW a \in Nat \ {0}, NEW b \in Nat \ {0}
  PROVE  (v \div a) \div b = v \div (a * b)
<1> DEFINE q == v \div a
           r == v % a
           h == q \div b
           s == q % b
           m == a * b
           x == a * s + r
<1>1. q \in Int /\ r \in 0 .. a - 1 /\ v = a * q + r
  BY Euclid
<1> HIDE DEF q, r
<1>2. h \in Int /\ s \in 0 .. b - 1 /\ q = b * h + s
  BY <1>1, Euclid
<1> HIDE DEF h, s
<1>3. m \in Nat \ {0}
  <2>1. a * b \in Nat /\ a * 1 <= a * b
    BY Product, Monotonic
  <2> QED BY <2>1
<1>4. v = m * h + x
  <2>1. a * (b * h + s) = (a * b) * h + a * s
    BY <1>2
  <2>2. (a * b) * h \in Int /\ a * s \in Int
    BY <1>2
  <2> QED BY <1>1, <1>2, <2>1, <2>2
<1>5. x \in 0 .. m - 1
  <2>1. a * s <= a * (b - 1) /\ a * 0 <= a * s
    BY <1>2, Monotonic
  <2>2. a * (b - 1) = a * b - a /\ a * s \in Int /\ a * b \in Int /\ a * 0 = 0
    BY <1>2
  <2> QED BY <1>1, <2>1, <2>2
<1> HIDE DEF m, x
<1>6. v \div m = h
  BY <1>2, <1>3, <1>4, <1>5, Unique
<1> QED BY <1>6 DEF h, q, m

(* The bits of a slice are those of the number it is cut from.             *)
LEMMA Cut ==
  ASSUME NEW v \in Int, NEW a \in Nat, NEW n \in Nat, NEW k \in Nat, k < n
  PROVE  Slice(Slice(v, a, n), k, 1) = Slice(v \div 2 ^ a, k, 1)
<1> DEFINE y == v \div 2 ^ a
           p == 2 ^ k
           e == 2 ^ (n - k - 1)
           w == 2 ^ n
           q == y \div w
           r == y % w
           h == r \div p
           s == r % p
<1>1. p \in Nat \ {0} /\ e \in Nat \ {0} /\ w = p * (2 * e) /\ y \in Int
  <2> DEFINE j == n - k - 1
  <2>1. j \in Nat /\ n = k + (j + 1) /\ j + 1 \in Nat
    OBVIOUS
  <2> HIDE DEF j
  <2>2. 2 ^ (j + 1) = 2 * 2 ^ j
    BY <2>1, Doubles
  <2>3. 2 ^ (k + (j + 1)) = 2 ^ k * 2 ^ (j + 1)
    BY <2>1, AddsUp
  <2>4. 2 ^ k \in Nat \ {0} /\ 2 ^ j \in Nat \ {0} /\ 2 ^ a \in Nat \ {0}
    BY <2>1, Counted
  <2>5. v \div 2 ^ a \in Int
    BY <2>4, Euclid
  <2> QED BY <2>1, <2>2, <2>3, <2>4, <2>5 DEF j
<1>2. Slice(v, a, n) = r /\ Slice(v \div 2 ^ a, k, 1) = (y \div p) % 2 /\ Slice(r, k, 1) = h % 2
  BY Unit DEF Slice
<1> HIDE DEF y, p, e, w
<1>3. w \in Nat \ {0}
  <2>1. p * (2 * e) \in Nat /\ p * 1 <= p * (2 * e)
    BY <1>1, Product, Monotonic
  <2> QED BY <1>1, <2>1
<1>4. q \in Int /\ r \in 0 .. w - 1 /\ y = w * q + r
  BY <1>1, <1>3, Euclid
<1> HIDE DEF q, r
<1>5. h \in Int /\ s \in 0 .. p - 1 /\ r = p * h + s
  BY <1>1, <1>4, Euclid
<1> HIDE DEF h, s
<1> DEFINE t == (2 * e) * q + h
<1>6. t \in Int /\ y = p * t + s
  <2>1. p * ((2 * e) * q + h) = (p * (2 * e)) * q + p * h
    BY <1>1, <1>4, <1>5
  <2>2. (p * (2 * e)) * q \in Int /\ p * h \in Int /\ (2 * e) * q \in Int
    BY <1>1, <1>4, <1>5
  <2> QED BY <1>1, <1>4, <1>5, <2>1, <2>2
<1>7. t % 2 = h % 2
  <2>1. t = h + 2 * (e * q) /\ e * q \in Int
    BY <1>1, <1>4, <1>5
  <2> HIDE DEF t
  <2>2. 2 \in Nat \ {0} /\ t \in Int
    BY <1>6
  <2> QED BY <1>5, <2>1, <2>2, SameRemainder
<1>8. y \div p = t
  <2> HIDE DEF t
  <2> QED BY <1>1, <1>4, <1>5, <1>6, Unique
<1> QED BY <1>2, <1>7, <1>8

LEMMA CutHolds ==
  ASSUME NEW v \in Int, NEW a \in Nat, NEW n \in Nat, NEW low \in Nat, NEW word, Holds(word, low, n, Slice(v, a, n))
  PROVE  Holds(word, low, n, v \div 2 ^ a)
<1> SUFFICES ASSUME NEW k \in 0 .. n - 1 PROVE low + k \in word <=> Slice(v \div 2 ^ a, k, 1) = 1
  BY DEF Holds
<1>1. k \in Nat /\ k < n
  OBVIOUS
<1>2. Slice(Slice(v, a, n), k, 1) = Slice(v \div 2 ^ a, k, 1)
  BY <1>1, Cut
<1>3. low + k \in word <=> Slice(Slice(v, a, n), k, 1) = 1
  BY DEF Holds
<1> QED BY <1>2, <1>3

(* One bit more, and the lowest one left out.                              *)
LEMMA HoldsMore ==
  ASSUME NEW v \in Int, NEW n \in Nat, NEW low \in Nat, NEW word, NEW u \in Int, Holds(word, low, n, v),
         Holds(word, low + n, 1, u), Slice(u, 0, 1) = Slice(v, n, 1)
  PROVE  Holds(word, low, n + 1, v)
<1> SUFFICES ASSUME NEW k \in 0 .. (n + 1) - 1 PROVE low + k \in word <=> Slice(v, k, 1) = 1
  BY DEF Holds
<1>1. CASE k = n
  <2>1. 0 \in 0 .. 1 - 1
    OBVIOUS
  <2>2. (low + n) + 0 \in word <=> Slice(u, 0, 1) = 1
    BY <2>1 DEF Holds
  <2>3. (low + n) + 0 = low + k
    BY <1>1
  <2> QED BY <1>1, <2>2, <2>3
<1>2. CASE k # n
  <2>1. k \in 0 .. n - 1
    BY <1>2
  <2> QED BY <2>1 DEF Holds
<1> QED BY <1>1, <1>2

LEMMA HoldsRest ==
  ASSUME NEW v \in Int, NEW n \in Nat, NEW low \in Nat, NEW word, Holds(word, low, n + 1, v)
  PROVE  Holds(word, low + 1, n, v \div 2)
<1> SUFFICES ASSUME NEW k \in 0 .. n - 1 PROVE (low + 1) + k \in word <=> Slice(v \div 2, k, 1) = 1
  BY DEF Holds
<1> DEFINE j == k + 1
<1>1. j \in 0 .. (n + 1) - 1 /\ low + j = (low + 1) + k /\ k \in Nat
  OBVIOUS
<1>2. low + j \in word <=> Slice(v, j, 1) = 1
  BY <1>1 DEF Holds
<1>3. Slice(v, j, 1) = Slice(v \div 2, k, 1)
  <2> DEFINE p == 2 ^ k
  <2>1. 2 ^ j = 2 * p /\ p \in Nat \ {0}
    BY <1>1, Doubles, Counted
  <2>2. Slice(v, j, 1) = (v \div (2 * p)) % 2 ^ 1 /\ Slice(v \div 2, k, 1) = ((v \div 2) \div p) % 2 ^ 1
    BY <2>1 DEF Slice
  <2> HIDE DEF p
  <2>3. 2 \in Nat \ {0}
    OBVIOUS
  <2>4. (v \div 2) \div p = v \div (2 * p)
    BY <2>1, <2>3, Nested
  <2> QED BY <2>2, <2>4
<1> QED BY <1>1, <1>2, <1>3

-----------------------------------------------------------------------------
(* What the processor takes the assembled words for.                       *)
RReads(w, op, rd, f3, rs1, rs2, f7) ==
  /\ Opcode(w) = op /\ Rd(w) = rd /\ Funct3(w) = f3 /\ Rs1(w) = rs1
  /\ rs2 \in 0 .. 31 => Rs2(w) = rs2
  /\ f7 \in 0 .. 127 => Funct7(w) = f7

LEMMA RRight ==
  ASSUME NEW op \in 0 .. 127, NEW rd \in 0 .. 31, NEW f3 \in 0 .. 7, NEW rs1 \in 0 .. 31,
         NEW rs2 \in Int, NEW f7 \in Int
  PROVE  RReads(RType(op, rd, f3, rs1, rs2, f7), op, rd, f3, rs1, rs2, f7)
<1> DEFINE w == RType(op, rd, f3, rs1, rs2, f7)
<1>1. op \in Int /\ rd \in Int /\ f3 \in Int /\ rs1 \in Int
  OBVIOUS
<1>2. /\ Bits(w, 0, 7) = op % 2 ^ 7 /\ Bits(w, 7, 5) = rd % 2 ^ 5 /\ Bits(w, 12, 3) = f3 % 2 ^ 3
      /\ Bits(w, 15, 5) = rs1 % 2 ^ 5 /\ Bits(w, 20, 5) = rs2 % 2 ^ 5 /\ Bits(w, 25, 7) = f7 % 2 ^ 7
  <2>1. RBits(w, op, rd, f3, rs1, rs2, f7)
    BY <1>1, RFields
  <2> QED BY <2>1 DEF RBits
<1> HIDE DEF w
<1>3. /\ Bits(w, 0, 7) = op % 128 /\ Bits(w, 7, 5) = rd % 32 /\ Bits(w, 12, 3) = f3 % 8
      /\ Bits(w, 15, 5) = rs1 % 32 /\ Bits(w, 20, 5) = rs2 % 32 /\ Bits(w, 25, 7) = f7 % 128
  BY <1>2, Weight
<1>4. op % 128 = op /\ rd % 32 = rd /\ f3 % 8 = f3 /\ rs1 % 32 = rs1
  OBVIOUS
<1>5. Opcode(w) = op /\ Rd(w) = rd /\ Funct3(w) = f3 /\ Rs1(w) = rs1
  BY <1>3, <1>4 DEF Opcode, Rd, Funct3, Rs1
<1>6. ASSUME rs2 \in 0 .. 31 PROVE Rs2(w) = rs2
  <2>1. rs2 % 32 = rs2
    BY <1>6
  <2> QED BY <1>3, <2>1 DEF Rs2
<1>7. ASSUME f7 \in 0 .. 127 PROVE Funct7(w) = f7
  <2>1. f7 % 128 = f7
    BY <1>7
  <2> QED BY <1>3, <2>1 DEF Funct7
<1> QED BY <1>5, <1>6, <1>7 DEF w, RReads

(* A shift by c bits: the sixth bit of c is the lowest one of funct7.      *)
LEMMA ShiftBits ==
  ASSUME NEW word, NEW low \in Nat, NEW n \in Nat, NEW m \in Nat, NEW c \in 0 .. 2 ^ (n + 1) - 1,
         NEW h \in 0 .. 2 ^ m - 1, NEW f7 \in Int, f7 = 2 * h + Slice(c, n, 1),
         Holds(word, low, n, c), Holds(word, low + n, m + 1, f7)
  PROVE  Bits(word, low, n + 1) = c /\ Bits(word, (low + n) + 1, m) = h
<1>1. c \in Int /\ h \in Nat /\ n + 1 \in Nat /\ low + n \in Nat
  <2>1. 2 ^ (n + 1) \in Nat /\ 2 ^ m \in Nat
    BY Counted
  <2> QED BY <2>1
<1> DEFINE b == Slice(c, n, 1)
<1>2. b \in {0, 1}
  BY <1>1, BitIs
<1>3. Slice(f7, 0, 1) = b /\ f7 \div 2 = h
  <2>1. Slice(f7, 0, 1) = (f7 \div 1) % 2
    BY Unit DEF Slice
  <2> HIDE DEF b
  <2>2. f7 = 2 * h + b
    BY DEF b
  <2>3. f7 \div 1 = f7 /\ f7 % 2 = b /\ f7 \div 2 = h
    BY <1>1, <1>2, <2>2
  <2> QED BY <2>1, <2>3
<1>4. Bits(word, low, n + 1) = c
  <2>1. Holds(word, low + n, 1, f7)
    <3>1. 0 .. 1 - 1 \subseteq 0 .. (m + 1) - 1
      OBVIOUS
    <3> QED BY <3>1 DEF Holds
  <2>2. Holds(word, low, n + 1, c)
    BY <1>1, <1>3, <2>1, HoldsMore
  <2> QED BY <1>1, <2>2, FieldIs
<1>5. Bits(word, (low + n) + 1, m) = h
  <2> DEFINE l == low + n
  <2>1. l \in Nat /\ l + 1 \in Nat /\ Holds(word, l, m + 1, f7)
    BY <1>1
  <2> HIDE DEF l
  <2>2. Holds(word, l + 1, m, f7 \div 2)
    BY <2>1, HoldsRest
  <2>3. Bits(word, l + 1, m) = h
    BY <1>3, <2>1, <2>2, FieldIs
  <2> QED BY <2>3 DEF l
<1> QED BY <1>4, <1>5

SRReads(w, op, rd, f3, rs1, c, h) ==
  /\ Opcode(w) = op /\ Rd(w) = rd /\ Funct3(w) = f3 /\ Rs1(w) = rs1
  /\ Bits(w, 20, 6) = c /\ Bits(w, 26, 6) = h

LEMMA SRRight ==
  ASSUME NEW op \in 0 .. 127, NEW rd \in 0 .. 31, NEW f3 \in 0 .. 7, NEW rs1 \in 0 .. 31,
         NEW c \in 0 .. 63, NEW h \in 0 .. 63
  PROVE  SRReads(RType(op, rd, f3, rs1, c, 2 * h + Slice(c, 5, 1)), op, rd, f3, rs1, c, h)
<1> DEFINE f7 == 2 * h + Slice(c, 5, 1)
           w == RType(op, rd, f3, rs1, c, f7)
<1>1. c \in Int /\ f7 \in Int
  <2> DEFINE b == Slice(c, 5, 1)
  <2>1. b \in {0, 1}
    <3>1. 5 \in Nat /\ c \in Int
      OBVIOUS
    <3> QED BY <3>1, BitIs
  <2> HIDE DEF b
  <2>2. 2 * h + b \in Int
    BY <2>1
  <2> QED BY <2>2 DEF b
<1>2. f7 = 2 * h + Slice(c, 5, 1)
  OBVIOUS
<1> HIDE DEF f7
<1>3. w = RType(op, rd, f3, rs1, c, f7) /\ op \in Int /\ rd \in Int /\ f3 \in Int /\ rs1 \in Int
  OBVIOUS
<1> HIDE DEF w
<1>4. Opcode(w) = op /\ Rd(w) = rd /\ Funct3(w) = f3 /\ Rs1(w) = rs1
  <2>1. RReads(w, op, rd, f3, rs1, c, f7)
    BY <1>1, <1>3, RRight, Zenon
  <2> QED BY <2>1 DEF RReads
<1>5. Holds(w, 20, 5, c) /\ Holds(w, 25, 7, f7)
  <2>1. RBits(w, op, rd, f3, rs1, c, f7)
    BY <1>1, <1>3, RFields
  <2> QED BY <2>1 DEF RBits
<1> DEFINE l == 20
           n == 5
           m == 6
<1>6. /\ l \in Nat /\ n \in Nat /\ m \in Nat /\ c \in 0 .. 2 ^ (n + 1) - 1 /\ h \in 0 .. 2 ^ m - 1
      /\ f7 = 2 * h + Slice(c, n, 1) /\ Holds(w, l, n, c) /\ Holds(w, l + n, m + 1, f7)
  BY <1>2, <1>5, Weight
<1>7. n + 1 = 6 /\ l = 20 /\ (l + n) + 1 = 26 /\ m = 6
  OBVIOUS
<1> HIDE DEF l, n, m
<1>8. Bits(w, l, n + 1) = c /\ Bits(w, (l + n) + 1, m) = h
  BY <1>1, <1>6, ShiftBits
<1>9. Bits(w, 20, 6) = c /\ Bits(w, 26, 6) = h
  BY <1>7, <1>8
<1> QED BY <1>4, <1>9 DEF w, f7, SRReads

IReads(w, op, rd, f3, rs1, imm) ==
  /\ Opcode(w) = op /\ Rd(w) = rd /\ Funct3(w) = f3 /\ Rs1(w) = rs1
  /\ imm \in -2048 .. 2047 => ImmI(w) = imm
  /\ imm \in 0 .. 4095 => ImmI(w) = SignExtended(imm, 12)

LEMMA IRight ==
  ASSUME NEW op \in 0 .. 127, NEW rd \in 0 .. 31, NEW f3 \in 0 .. 7, NEW rs1 \in 0 .. 31, NEW imm \in Int
  PROVE  IReads(IType(op, rd, f3, rs1, imm), op, rd, f3, rs1, imm)
<1> DEFINE w == IType(op, rd, f3, rs1, imm)
<1>1. op \in Int /\ rd \in Int /\ f3 \in Int /\ rs1 \in Int
  OBVIOUS
<1>2. /\ Bits(w, 0, 7) = op % 2 ^ 7 /\ Bits(w, 7, 5) = rd % 2 ^ 5 /\ Bits(w, 12, 3) = f3 % 2 ^ 3
      /\ Bits(w, 15, 5) = rs1 % 2 ^ 5 /\ Bits(w, 20, 12) = imm % 2 ^ 12
  <2>1. IBits(w, op, rd, f3, rs1, imm)
    BY <1>1, IFields
  <2> QED BY <2>1 DEF IBits
<1> HIDE DEF w
<1>3. /\ Bits(w, 0, 7) = op % 128 /\ Bits(w, 7, 5) = rd % 32 /\ Bits(w, 12, 3) = f3 % 8
      /\ Bits(w, 15, 5) = rs1 % 32
  BY <1>2, Weight
<1>4. op % 128 = op /\ rd % 32 = rd /\ f3 % 8 = f3 /\ rs1 % 32 = rs1
  OBVIOUS
<1>5. Opcode(w) = op /\ Rd(w) = rd /\ Funct3(w) = f3 /\ Rs1(w) = rs1
  BY <1>3, <1>4 DEF Opcode, Rd, Funct3, Rs1
<1>6. ImmI(w) = IF imm % 4096 < 2048 THEN imm % 4096 ELSE (imm % 4096) - 4096
  BY <1>2, Heavy, SMT DEF ImmI, SignExtended
<1>7. ASSUME imm \in -2048 .. 2047 PROVE ImmI(w) = imm
  <2>1. CASE imm >= 0
    <3>1. imm % 4096 = imm /\ imm < 2048
      BY <1>7, <2>1, SMT
    <3> QED BY <1>6, <3>1, SMT
  <2>2. CASE imm < 0
    <3>1. imm % 4096 = imm + 4096 /\ ~(imm + 4096 < 2048)
      BY <1>7, <2>2, SMT
    <3> QED BY <1>6, <3>1, SMT
  <2> QED BY <2>1, <2>2, SMT
<1>8. ASSUME imm \in 0 .. 4095 PROVE ImmI(w) = SignExtended(imm, 12)
  <2>1. imm % 4096 = imm
    BY <1>8, SMT
  <2>2. SignExtended(imm, 12) = IF imm < 2048 THEN imm ELSE imm - 4096
    BY Heavy, SMT DEF SignExtended
  <2> QED BY <1>6, <2>1, <2>2, SMT
<1> QED BY <1>5, <1>7, <1>8 DEF w, IReads

UReads(w, op, rd, imm) == Opcode(w) = op /\ Rd(w) = rd /\ ImmU(w) = imm

LEMMA URight ==
  ASSUME NEW op \in 0 .. 127, NEW rd \in 0 .. 31, NEW imm \in 0 .. 2 ^ 20 - 1
  PROVE  UReads(UType(op, rd, imm), op, rd, imm)
<1> DEFINE w == UType(op, rd, imm)
           p == 2 ^ 20
<1>1. op \in Int /\ rd \in Int /\ p \in Nat \ {0} /\ imm \in 0 .. p - 1
  <2>1. 20 \in Nat
    OBVIOUS
  <2> QED BY <2>1, Counted
<1> HIDE DEF p
<1>2. imm \in Int
  BY <1>1
<1>3. Bits(w, 0, 7) = op % 2 ^ 7 /\ Bits(w, 7, 5) = rd % 2 ^ 5 /\ Bits(w, 12, 20) = imm % p
  <2>1. UBits(w, op, rd, imm)
    BY <1>1, <1>2, UFields
  <2> QED BY <2>1 DEF UBits, p
<1> HIDE DEF w
<1>4. op % 2 ^ 7 = op /\ rd % 2 ^ 5 = rd
  BY Weight
<1>5. imm % p = imm
  BY <1>1, Remains
<1>6. Opcode(w) = op /\ Rd(w) = rd /\ ImmU(w) = imm
  BY <1>3, <1>4, <1>5 DEF Opcode, Rd, ImmU
<1> QED BY <1>6 DEF w, UReads

SmallS(imm) == imm \in Int /\ -2048 <= imm /\ imm < 2048
SReads(w, op, f3, rs1, rs2, imm) ==
  Opcode(w) = op /\ Funct3(w) = f3 /\ Rs1(w) = rs1 /\ Rs2(w) = rs2 /\ ImmS(w) = imm

LEMMA SRight ==
  ASSUME NEW op \in 0 .. 127, NEW f3 \in 0 .. 7, NEW rs1 \in 0 .. 31, NEW rs2 \in 0 .. 31,
         NEW imm, SmallS(imm)
  PROVE  SReads(SType(op, f3, rs1, rs2, imm), op, f3, rs1, rs2, imm)
<1> DEFINE w == SType(op, f3, rs1, rs2, imm)
<1> USE DEF SmallS
<1>1. op \in Int /\ f3 \in Int /\ rs1 \in Int /\ rs2 \in Int
  OBVIOUS
<1>2. /\ Bits(w, 0, 7) = op % 2 ^ 7 /\ Bits(w, 12, 3) = f3 % 2 ^ 3 /\ Bits(w, 15, 5) = rs1 % 2 ^ 5
      /\ Bits(w, 20, 5) = rs2 % 2 ^ 5 /\ Bits(w, 7, 5) = Slice(imm, 0, 5) % 2 ^ 5
      /\ Holds(w, 25, 6, Slice(imm, 5, 6)) /\ Holds(w, 31, 1, Sign(imm))
  <2>1. SBits(w, op, f3, rs1, rs2, imm)
    BY <1>1, SFields
  <2> QED BY <2>1 DEF SBits
<1> HIDE DEF w
<1>3. op % 2 ^ 7 = op /\ f3 % 2 ^ 3 = f3 /\ rs1 % 2 ^ 5 = rs1 /\ rs2 % 2 ^ 5 = rs2
  BY Weight
<1>4. Opcode(w) = op /\ Funct3(w) = f3 /\ Rs1(w) = rs1 /\ Rs2(w) = rs2
  BY <1>2, <1>3 DEF Opcode, Rs1, Rs2, Funct3
<1> DEFINE u == imm \div 32
           r == imm % 32
<1>5. u \in -64 .. 63 /\ r \in 0 .. 31 /\ imm = 32 * u + r
  BY SMT
<1>6. Bits(w, 7, 5) = r
  <2>1. Slice(imm, 0, 5) = (imm \div 1) % 32 /\ imm \div 1 = imm
    BY Unit, Weight, SMT DEF Slice
  <2>2. r % 32 = r
    BY <1>5, SMT
  <2> QED BY <1>2, <2>1, <2>2, Weight, SMT
<1>7. Funct7(w) = u % 128
  <2>1. imm \div 2 ^ 5 = u
    BY Weight, SMT
  <2> HIDE DEF u
  <2> DEFINE low == 25
             n == 6
             a == 5
             e == Sign(imm)
  <2>2. /\ low \in Nat /\ n \in Nat /\ a \in Nat /\ n + 1 \in Nat /\ Holds(w, low, n, Slice(imm, a, n))
        /\ Holds(w, low + n, 1, e) /\ imm \div 2 ^ a = u /\ u \in Int
    BY <1>2, <1>5, <2>1, SMT
  <2>3. Slice(e, 0, 1) = Slice(u, n, 1) /\ e \in Int
    <3>1. Slice(e, 0, 1) = (e \div 1) % 2 /\ Slice(u, n, 1) = (u \div 64) % 2
      BY Unit, Weight, SMT DEF Slice
    <3>2. CASE imm < 0
      <4>1. e = 1 /\ u < 0
        BY <1>5, <3>2, SMT DEF Sign
      <4>2. u \div 64 = -1
        BY <1>5, <4>1, SMT
      <4>3. (1 \div 1) % 2 = 1
        BY SMT
      <4>4. (u \div 64) % 2 = 1
        <5>1. u \div 64 = 2 * (-1) + 1 /\ -1 \in Int /\ 2 \in Nat \ {0} /\ 1 \in 0 .. 2 - 1
          BY <4>2, SMT
        <5>2. u \div 64 \in Int
          BY <4>2, SMT
        <5> QED BY <5>1, <5>2, Unique
      <4> QED BY <3>1, <4>1, <4>2, <4>3, <4>4, SMT
    <3>3. CASE ~(imm < 0)
      <4>1. e = 0 /\ u >= 0
        BY <1>5, <3>3, SMT DEF Sign
      <4>2. u \div 64 = 0
        BY <1>5, <4>1, SMT
      <4>3. (0 \div 1) % 2 = 0 /\ 0 % 2 = 0
        BY SMT
      <4> QED BY <3>1, <4>1, <4>2, <4>3, SMT
    <3> QED BY <3>2, <3>3
  <2>4. low = 25 /\ n + 1 = 7 /\ 2 ^ (n + 1) = 128
    BY Weight
  <2> HIDE DEF low, n, a, e
  <2>5. Holds(w, low, n, u)
    BY <2>2, CutHolds
  <2>6. Holds(w, low, n + 1, u)
    BY <2>2, <2>3, <2>5, HoldsMore
  <2>7. Bits(w, low, n + 1) = u % 2 ^ (n + 1)
    BY <2>2, <2>6, BitsAre
  <2>8. Bits(w, 25, 7) = u % 2 ^ 7
    <3>1. u % 2 ^ (n + 1) = u % 128
      BY <2>4
    <3>2. Bits(w, low, n + 1) = u % 128
      BY <2>7, <3>1
    <3>3. Bits(w, 25, 7) = u % 128
      BY <2>4, <3>2
    <3> QED BY <3>3, Weight
  <2> QED BY <2>8, Weight DEF Funct7
<1> HIDE DEF u, r
<1>8. ImmS(w) = imm
  <2> DEFINE x == r + 32 * (u % 128)
  <2>1. ImmS(w) = IF x < 2048 THEN x ELSE x - 4096
    BY <1>6, <1>7, Heavy, SMT DEF ImmS, SignExtended
  <2>2. CASE u >= 0
    <3>1. u % 128 = u
      BY <1>5, <2>2, SMT
    <3>2. x = imm /\ imm < 2048
      BY <1>5, <3>1, SMT
    <3> HIDE DEF x
    <3> QED BY <2>1, <3>2, SMT
  <2>3. CASE u < 0
    <3>1. u % 128 = u + 128
      BY <1>5, <2>3, SMT
    <3>2. x = imm + 4096 /\ ~(imm + 4096 < 2048)
      BY <1>5, <3>1, SMT
    <3> HIDE DEF x
    <3> QED BY <2>1, <3>2, SMT
  <2> QED BY <1>5, <2>2, <2>3, SMT
<1> QED BY <1>4, <1>8 DEF w, SReads

SmallB(imm) == imm \in Int /\ -4096 <= imm /\ imm < 4096 /\ imm % 2 = 0
BReads(w, op, f3, rs1, rs2, imm) ==
  Opcode(w) = op /\ Funct3(w) = f3 /\ Rs1(w) = rs1 /\ Rs2(w) = rs2 /\ ImmB(w) = imm

LEMMA BRight ==
  ASSUME NEW op \in 0 .. 127, NEW f3 \in 0 .. 7, NEW rs1 \in 0 .. 31, NEW rs2 \in 0 .. 31,
         NEW imm, SmallB(imm)
  PROVE  BReads(BType(op, f3, rs1, rs2, imm), op, f3, rs1, rs2, imm)
<1> DEFINE w == BType(op, f3, rs1, rs2, imm)
<1> USE DEF SmallB
<1>1. op \in Int /\ f3 \in Int /\ rs1 \in Int /\ rs2 \in Int
  OBVIOUS
<1>2. /\ Bits(w, 0, 7) = op % 2 ^ 7 /\ Bits(w, 12, 3) = f3 % 2 ^ 3 /\ Bits(w, 15, 5) = rs1 % 2 ^ 5
      /\ Bits(w, 20, 5) = rs2 % 2 ^ 5 /\ Bits(w, 8, 4) = Slice(imm, 1, 4) % 2 ^ 4
      /\ Bits(w, 25, 6) = Slice(imm, 5, 6) % 2 ^ 6 /\ Bits(w, 7, 1) = Slice(imm, 11, 1) % 2 ^ 1
      /\ Bits(w, 31, 1) = Sign(imm) % 2 ^ 1
  <2>1. BBits(w, op, f3, rs1, rs2, imm)
    BY <1>1, BFields
  <2> QED BY <2>1 DEF BBits
<1> HIDE DEF w
<1>3. op % 2 ^ 7 = op /\ f3 % 2 ^ 3 = f3 /\ rs1 % 2 ^ 5 = rs1 /\ rs2 % 2 ^ 5 = rs2
  BY Weight
<1>4. Opcode(w) = op /\ Funct3(w) = f3 /\ Rs1(w) = rs1 /\ Rs2(w) = rs2
  BY <1>2, <1>3 DEF Opcode, Rs1, Rs2, Funct3
<1> DEFINE m == imm \div 2
           a == m % 16
           m1 == m \div 16
           c == m1 % 64
           m2 == m1 \div 64
           d == m2 % 2
           m3 == m2 \div 2
           s == Sign(imm)
<1>5. m \in Int /\ imm = 2 * m
  BY SMT
<1> HIDE DEF m
<1>6. m1 \in Int /\ a \in 0 .. 15 /\ m = 16 * m1 + a
  BY <1>5, SMT
<1> HIDE DEF m1, a
<1>7. m2 \in Int /\ c \in 0 .. 63 /\ m1 = 64 * m2 + c
  BY <1>6, SMT
<1> HIDE DEF m2, c
<1>8. m3 \in Int /\ d \in 0 .. 1 /\ m2 = 2 * m3 + d
  BY <1>7, SMT
<1> HIDE DEF m3, d
<1>9. s \in 0 .. 1 /\ m3 = -s /\ (s = 1 <=> imm < 0)
  BY <1>5, <1>6, <1>7, <1>8, SMT DEF Sign
<1> HIDE DEF s
<1>10. Slice(imm, 1, 4) = a
  <2>1. Slice(imm, 1, 4) = (imm \div 2) % 16
    BY Weight, SMT DEF Slice
  <2> QED BY <2>1 DEF a, m
<1>11. Slice(imm, 5, 6) = c
  <2>1. Slice(imm, 5, 6) = (imm \div 32) % 64
    BY Weight, SMT DEF Slice
  <2>2. imm \div 32 = m1
    BY <1>5, <1>6, SMT
  <2> QED BY <2>1, <2>2 DEF c
<1>12. Slice(imm, 11, 1) = d
  <2>1. Slice(imm, 11, 1) = (imm \div 2048) % 2
    BY Weight, Heavy, SMT DEF Slice
  <2>2. imm \div 2048 = m2
    BY <1>5, <1>6, <1>7, SMT
  <2> QED BY <2>1, <2>2, SMT DEF d
<1>13. Bits(w, 8, 4) = a /\ Bits(w, 25, 6) = c /\ Bits(w, 7, 1) = d /\ Bits(w, 31, 1) = s
  <2>1. a % 16 = a /\ c % 64 = c /\ d % 2 = d /\ s % 2 = s
    BY <1>6, <1>7, <1>8, <1>9, SMT
  <2>2. /\ Bits(w, 8, 4) = a % 16 /\ Bits(w, 25, 6) = c % 64 /\ Bits(w, 7, 1) = d % 2 /\ Bits(w, 31, 1) = s % 2
    BY <1>2, <1>10, <1>11, <1>12, Weight, SMT DEF s
  <2> QED BY <2>1, <2>2
<1>14. ImmB(w) = imm
  <2> DEFINE x == 2 * a + 32 * c + 2048 * d + 4096 * s
  <2>1. ImmB(w) = IF x < 4096 THEN x ELSE x - 8192
    BY <1>13, Heavy, SMT DEF ImmB, SignExtended
  <2>2. x = imm + 8192 * s /\ x \in Int
    BY <1>5, <1>6, <1>7, <1>8, <1>9, SMT
  <2> HIDE DEF x
  <2>3. CASE s = 0
    BY <1>9, <2>1, <2>2, <2>3, SMT
  <2>4. CASE s = 1
    BY <1>9, <2>1, <2>2, <2>4, SMT
  <2> QED BY <1>9, <2>3, <2>4, SMT
<1> QED BY <1>4, <1>14 DEF w, BReads

LEMMA OddBelow == \A x \in Int : x + 1 = 0 => x % 2 = 1
<1> SUFFICES ASSUME NEW x \in Int, x + 1 = 0 PROVE x % 2 = 1
  OBVIOUS
<1> DEFINE y == 2
           k == 0 - 1
           r == 1
<1>1. y \in Nat \ {0} /\ k \in Int /\ r \in 0 .. y - 1 /\ x = y * k + r
  OBVIOUS
<1> HIDE DEF y, k, r
<1>2. x % y = r
  BY <1>1, Unique
<1> QED BY <1>2 DEF y, r

SmallJ(imm) == imm \in Int /\ -(2 ^ 20) <= imm /\ imm < 2 ^ 20 /\ imm % 2 = 0
JReads(w, op, rd, imm) == Opcode(w) = op /\ Rd(w) = rd /\ ImmJ(w) = imm

LEMMA JRight ==
  ASSUME NEW op \in 0 .. 127, NEW rd \in 0 .. 31,
         NEW imm, SmallJ(imm)
  PROVE  JReads(JType(op, rd, imm), op, rd, imm)
<1> DEFINE w == JType(op, rd, imm)
<1> USE DEF SmallJ
<1>1. op \in Int /\ rd \in Int
  OBVIOUS
<1>2. /\ Bits(w, 0, 7) = op % 2 ^ 7 /\ Bits(w, 7, 5) = rd % 2 ^ 5
      /\ Bits(w, 21, 10) = Slice(imm, 1, 10) % 2 ^ 10 /\ Bits(w, 20, 1) = Slice(imm, 11, 1) % 2 ^ 1
      /\ Bits(w, 12, 8) = Slice(imm, 12, 8) % 2 ^ 8 /\ Bits(w, 31, 1) = Slice(imm, 20, 1) % 2 ^ 1
  <2>1. JBits(w, op, rd, imm)
    BY <1>1, JFields
  <2> QED BY <2>1 DEF JBits
<1> HIDE DEF w
<1>3. op % 2 ^ 7 = op /\ rd % 2 ^ 5 = rd
  BY Weight
<1>4. Opcode(w) = op /\ Rd(w) = rd
  BY <1>2, <1>3 DEF Opcode, Rd
<1> DEFINE p == 2 ^ 20
           m == imm \div 2
           a == m % 1024
           m1 == m \div 1024
           b == m1 % 2
           m2 == m1 \div 2
           c == m2 % 256
           m3 == m2 \div 256
           s == m3 % 2
<1>5. m \in Int /\ imm = 2 * m /\ p = 1048576 /\ -p <= imm /\ imm < p
  BY Heavy, SMT
<1> HIDE DEF m, p
<1>6. m1 \in Int /\ a \in 0 .. 1023 /\ m = 1024 * m1 + a
  BY <1>5, SMT
<1> HIDE DEF m1, a
<1>7. m2 \in Int /\ b \in 0 .. 1 /\ m1 = 2 * m2 + b
  BY <1>6, SMT
<1> HIDE DEF m2, b
<1>8. m3 \in Int /\ c \in 0 .. 255 /\ m2 = 256 * m3 + c
  BY <1>7, SMT
<1> HIDE DEF m3, c
<1>9. s \in 0 .. 1 /\ m3 = -s /\ (s = 1 <=> imm < 0)
  <2>1. imm = p * m3 + 4096 * c + 2048 * b + 2 * a
    BY <1>5, <1>6, <1>7, <1>8, SMT
  <2>2. (m3 = 0 \/ m3 + 1 = 0) /\ (m3 + 1 = 0 <=> imm < 0)
    BY <1>5, <1>6, <1>7, <1>8, <2>1, SMT
  <2>3. m3 = 0 => s = 0
    BY SMT
  <2>4. m3 + 1 = 0 => s = 1
    BY <1>8, OddBelow, SMT
  <2> HIDE DEF s
  <2> QED BY <1>8, <2>2, <2>3, <2>4, SMT
<1> HIDE DEF s
<1>10. Slice(imm, 1, 10) = a
  <2>1. Slice(imm, 1, 10) = (imm \div 2) % 1024
    BY Weight, Heavy, SMT DEF Slice
  <2> QED BY <2>1, SMT DEF a, m
<1>11. Slice(imm, 11, 1) = b
  <2>1. Slice(imm, 11, 1) = (imm \div 2048) % 2
    BY Weight, Heavy, SMT DEF Slice
  <2>2. imm \div 2048 = m1
    BY <1>5, <1>6, SMT
  <2> QED BY <2>1, <2>2, SMT DEF b
<1>12. Slice(imm, 12, 8) = c
  <2>1. Slice(imm, 12, 8) = (imm \div 4096) % 256
    BY Heavy, SMT DEF Slice
  <2>2. imm \div 4096 = m2
    BY <1>5, <1>6, <1>7, SMT
  <2> QED BY <2>1, <2>2, SMT DEF c
<1>13. Slice(imm, 20, 1) = s
  <2>1. Slice(imm, 20, 1) = (imm \div p) % 2
    BY Weight, SMT DEF Slice, p
  <2>2. imm \div p = m3
    BY <1>5, <1>6, <1>7, <1>8, SMT
  <2> QED BY <2>1, <2>2, SMT DEF s
<1>14. Bits(w, 21, 10) = a /\ Bits(w, 20, 1) = b /\ Bits(w, 12, 8) = c /\ Bits(w, 31, 1) = s
  <2>1. a % 1024 = a /\ b % 2 = b /\ c % 256 = c /\ s % 2 = s
    BY <1>6, <1>7, <1>8, <1>9, SMT
  <2>2. Bits(w, 21, 10) = a % 1024 /\ Bits(w, 20, 1) = b % 2 /\ Bits(w, 12, 8) = c % 256 /\ Bits(w, 31, 1) = s % 2
    BY <1>2, <1>10, <1>11, <1>12, <1>13, Weight, Heavy, SMT
  <2> QED BY <2>1, <2>2, SMT
<1>15. ImmJ(w) = imm
  <2> DEFINE x == 2 * a + 2048 * b + 4096 * c + p * s
  <2>1. ImmJ(w) = IF x < p THEN x ELSE x - 2 * p
    <3>1. ImmJ(w) = SignExtended(x, 21)
      BY <1>14, SMT DEF ImmJ, p
    <3>2. 2 ^ (21 - 1) = p /\ 2 ^ 21 = 2 * p
      BY Heavy, SMT DEF p
    <3> HIDE DEF x
    <3> QED BY <3>1, <3>2, SMT DEF SignExtended
  <2>2. x = imm + 2 * p * s /\ x \in Int
    <3>1. CASE s = 0
      BY <1>5, <1>6, <1>7, <1>8, <1>9, <3>1, SMT
    <3>2. CASE s = 1
      BY <1>5, <1>6, <1>7, <1>8, <1>9, <3>2, SMT
    <3> QED BY <1>9, <3>1, <3>2, SMT
  <2> HIDE DEF x
  <2>3. CASE s = 0
    BY <1>5, <1>9, <2>1, <2>2, <2>3, SMT
  <2>4. CASE s = 1
    BY <1>5, <1>9, <2>1, <2>2, <2>4, SMT
  <2> QED BY <1>9, <2>3, <2>4, SMT
<1> QED BY <1>4, <1>15 DEF w, JReads

-----------------------------------------------------------------------------
(* x86: the processor reads what the assembler was asked for.              *)
LEMMA X86Right ==
  ASSUME NEW d \in Int, NEW w \in Wanted(d), w[2][1] = "add" => -128 <= d /\ d < 128
  PROVE  Instruction(w[1]) = w[2]
<1>1. CASE w = <<ADD_IMM(R15, d), <<"add", R15, d>>>>
  <2> DEFINE b == d % 256
             c == <<73, 131, 199, b>>
  <2>1. w[1] = c /\ w[2] = <<"add", 15, d>>
    BY <1>1, SMT DEF ADD_IMM, R15, Rex, Bit
  <2>2. b \in 0 .. 255 /\ d = IF b < 128 THEN b ELSE b - 256
    <3>1. -128 <= d /\ d < 128
      BY <1>1, <2>1
    <3>2. CASE d >= 0
      BY <3>1, <3>2, SMT
    <3>3. CASE d < 0
      <4>1. b = d + 256
        BY <3>1, <3>3, SMT
      <4> QED BY <3>1, <3>3, <4>1, SMT
    <3> QED BY <3>2, <3>3
  <2> HIDE DEF b
  <2>3. c[1] = 73 /\ c[2] = 131 /\ c[3] = 199 /\ c[4] = b
    OBVIOUS
  <2> HIDE DEF c
  <2>4. Extended(c) = <<"add", 15, IF b < 128 THEN b ELSE b - 256>>
    BY <2>2, <2>3, SMT DEF Extended
  <2>5. Instruction(c) = Extended(c)
    BY <2>3, SMT DEF Instruction
  <2> QED BY <2>1, <2>2, <2>4, <2>5, SMT
<1>2. CASE w = <<CALL_REL32(d), <<"call", d>>>>
  BY <1>2, SMT DEF CALL_REL32, Instruction
<1>3. CASE w = <<JMP_REL32(d), <<"jump", d>>>>
  BY <1>3, SMT DEF JMP_REL32, Instruction
<1>4. CASE w = <<JMP(RBX), <<"jump to", RBX>>>>
  <2> DEFINE c == <<255, 227>>
  <2>1. w[1] = c /\ w[2] = <<"jump to", 3>>
    <3>1. 224 + (3 % 8) = 227
      BY SMT
    <3>2. JMP(RBX) = c
      BY <3>1, Zenon DEF JMP, RBX
    <3> QED BY <1>4, <3>2, Zenon DEF RBX
  <2>2. c[1] = 255 /\ c[2] = 227 /\ 227 \div 8 = 28 /\ 227 % 8 = 3
    BY SMT
  <2> HIDE DEF c
  <2>3. c[2] \div 8 = 28 /\ c[2] % 8 = 3
    BY <2>2
  <2>4. Instruction(c) = <<"jump to", c[2] % 8>>
    <3>1. ~(c[1] \in 72 .. 79) /\ c[1] # 232 /\ c[1] # 233 /\ c[1] # 195
      BY <2>2, SMT
    <3> QED BY <2>2, <2>3, <3>1, Zenon DEF Instruction
  <2> QED BY <2>1, <2>3, <2>4
<1>5. CASE w = <<LEA_REL32(RBX, d), <<"address", RBX, d>>>>
  <2> DEFINE c == <<72, 141, 29, d - 7>>
  <2>1. w[1] = c /\ w[2] = <<"address", 3, d>>
    BY <1>5, SMT DEF LEA_REL32, RBX, Rex, Bit
  <2>2. c[1] = 72 /\ c[2] = 141 /\ c[3] = 29 /\ c[4] = d - 7
    OBVIOUS
  <2> HIDE DEF c
  <2>3. Extended(c) = <<"address", 3, 7 + c[4]>>
    BY <2>2, SMT DEF Extended
  <2>4. Instruction(c) = Extended(c)
    BY <2>2, SMT DEF Instruction
  <2>5. 7 + c[4] = d
    BY <2>2
  <2> QED BY <2>1, <2>3, <2>4, <2>5
<1>6. CASE w = <<MOV_TAKE_REL32(RBX, d), <<"load", RBX, d>>>>
  <2> DEFINE c == <<72, 139, 29, d - 7>>
  <2>1. w[1] = c /\ w[2] = <<"load", 3, d>>
    BY <1>6, SMT DEF MOV_TAKE_REL32, RBX, Rex, Bit
  <2>2. c[1] = 72 /\ c[2] = 139 /\ c[3] = 29 /\ c[4] = d - 7
    OBVIOUS
  <2> HIDE DEF c
  <2>3. Extended(c) = <<"load", 3, 7 + c[4]>>
    BY <2>2, SMT DEF Extended
  <2>4. Instruction(c) = Extended(c)
    BY <2>2, SMT DEF Instruction
  <2>5. 7 + c[4] = d
    BY <2>2
  <2> QED BY <2>1, <2>3, <2>4, <2>5
<1>7. CASE w = <<MOV_IMM64(RBX, d), <<"constant", RBX, d>>>>
  <2> DEFINE c == <<72, 187, d>>
  <2>1. w[1] = c /\ w[2] = <<"constant", 3, d>>
    BY <1>7, SMT DEF MOV_IMM64, RBX, Rex, Bit
  <2>2. c[1] = 72 /\ c[2] = 187 /\ c[3] = d
    OBVIOUS
  <2> HIDE DEF c
  <2>3. Extended(c) = <<"constant", 3, d>>
    BY <2>2, SMT DEF Extended
  <2>4. Instruction(c) = Extended(c)
    BY <2>2, SMT DEF Instruction
  <2> QED BY <2>1, <2>3, <2>4
<1>8. CASE w = <<MOVQ_PUT(RBX, R15), <<"store", RBX, R15>>>>
  BY <1>8, SMT DEF MOVQ_PUT, RBX, R15, Bit, Instruction, Extended
<1>9. CASE w = <<MOVQ_TAKE(R15, RBX), <<"take", RBX, R15>>>>
  BY <1>9, SMT DEF MOVQ_TAKE, RBX, R15, Bit, Instruction, Extended
<1>10. CASE w = <<BEQ_IMM(RBX, 0, d), <<"jump if", RBX, 0, d>>>>
  <2> DEFINE c == <<72, 131, 251, 0, 15, 132, d - 10>>
  <2>1. w[1] = c /\ w[2] = <<"jump if", 3, 0, d>>
    <3>1. 0 % 256 = 0 /\ 192 + 8 * 7 + (3 % 8) = 251 /\ Rex(3) = 72
      BY SMT DEF Rex, Bit
    <3>2. BEQ_IMM(RBX, 0, d) = c
      BY <3>1, Zenon DEF BEQ_IMM, RBX
    <3> QED BY <1>10, <3>2, Zenon DEF RBX
  <2>2. c[1] = 72 /\ c[2] = 131 /\ c[3] = 251 /\ c[4] = 0 /\ c[5] = 15 /\ c[6] = 132 /\ c[7] = d - 10
    OBVIOUS
  <2> HIDE DEF c
  <2>3. Extended(c) = <<"jump if", 3, 0, 10 + c[7]>>
    <3>1. 72 % 16 = 8 /\ 8 \div 4 = 2 /\ 2 % 2 = 0 /\ 8 % 2 = 0 /\ 251 \div 8 = 31 /\ 31 % 8 = 7 /\ 251 % 8 = 3
          /\ 251 \div 64 = 3
      BY SMT
    <3> DEFINE rex == c[1] % 16
               reg == ((c[3] \div 8) % 8) + 8 * ((rex \div 4) % 2)
               base == (c[3] % 8) + 8 * (rex % 2)
               direct == c[3] \div 64 = 3
    <3>2. rex = 8 /\ reg = 7 /\ base = 3 /\ direct
      BY <2>2, <3>1, SMT
    <3>3. Extended(c) = CASE c[2] \in 184 .. 191 -> <<"constant", (c[2] % 8) + 8 * (rex % 2), c[3]>>
            [] c[2] = 131 /\ direct /\ reg = 0 ->
                 <<"add", base, IF c[4] < 128 THEN c[4] ELSE c[4] - 256>>
            [] c[2] = 131 /\ direct /\ reg = 7 /\ c[5] = 15 /\ c[6] = 132 -> <<"jump if", base, c[4], 10 + c[7]>>
            [] c[2] = 141 /\ c[3] % 8 = 5 /\ ~direct -> <<"address", reg, 7 + c[4]>>
            [] c[2] = 139 /\ c[3] % 8 = 5 /\ ~direct -> <<"load", reg, 7 + c[4]>>
            [] c[2] = 139 /\ c[3] % 8 # 5 /\ c[3] < 64 -> <<"take", reg, base>>
            [] c[2] = 137 /\ c[3] < 64 -> <<"store", reg, base>>
            [] OTHER -> <<"unknown">>
      BY DEF Extended
    <3> HIDE DEF rex, reg, base, direct
    <3>4. ~(c[2] \in 184 .. 191) /\ reg # 0 /\ c[2] # 141 /\ c[2] # 139 /\ c[2] # 137
      BY <2>2, <3>2, SMT
    <3>5. Extended(c) = <<"jump if", base, c[4], 10 + c[7]>>
      BY <2>2, <3>2, <3>3, <3>4, Zenon
    <3> QED BY <2>2, <3>2, <3>5, Zenon
  <2>4. Instruction(c) = Extended(c)
    BY <2>2, SMT DEF Instruction
  <2>5. 10 + c[7] = d
    BY <2>2
  <2> QED BY <2>1, <2>3, <2>4, <2>5
<1>11. CASE w = <<RET, <<"return">>>>
  BY <1>11, SMT DEF RET, Instruction
<1> QED BY <1>1, <1>2, <1>3, <1>4, <1>5, <1>6, <1>7, <1>8, <1>9, <1>10, <1>11 DEF Wanted

-----------------------------------------------------------------------------
(* The tables: every code is in range, and no two names have the same one. *)
Ranged(t) == t[1] \in 0 .. 127 /\ t[2] \in 0 .. 7

(* Which table a code is from. *)
Group(t) ==
  IF Len(t) = 1 THEN IF t[1] = 111 THEN "J" ELSE "U"
  ELSE IF Len(t) = 2
  THEN IF t[1] = 115 THEN "CSR"
       ELSE IF t[1] = 99 THEN "B"
       ELSE IF t[1] = 35 THEN IF t[2] = 3 THEN "S64" ELSE "S"
       ELSE IF t[1] = 27 \/ (t[1] = 3 /\ (t[2] = 6 \/ t[2] = 3)) THEN "I64" ELSE "I"
  ELSE IF t[1] = 19 THEN "SR"
  ELSE IF t[1] = 51 THEN IF t[3] = 1 THEN "M" ELSE "R"
  ELSE IF t[3] = 1 THEN "M64" ELSE "R64"

OfGroup(T, group) == \A n \in DOMAIN T : Group(T[n]) = group
OneName(T) == \A n, k \in DOMAIN T : T[n] = T[k] => n = k
InRange(T) == \A n \in DOMAIN T : Ranged(T[n])
Third(T, S) == \A n \in DOMAIN T : T[n][3] \in S

LEMMA GroupU == OfGroup(UTable, "U") /\ OneName(UTable) /\ \A n \in DOMAIN UTable : UTable[n][1] \in 0 .. 127
  BY SMT DEF OfGroup, OneName, Group, UTable
LEMMA GroupJ == OfGroup(JTable, "J") /\ OneName(JTable)
  BY SMT DEF OfGroup, OneName, Group, JTable
LEMMA GroupB == OfGroup(BTable, "B") /\ OneName(BTable) /\ InRange(BTable)
  BY SMT DEF OfGroup, OneName, InRange, Ranged, Group, BTable
LEMMA GroupI == OfGroup(ITable, "I") /\ OneName(ITable) /\ InRange(ITable)
  BY SMT DEF OfGroup, OneName, InRange, Ranged, Group, ITable
LEMMA GroupI64 == OfGroup(ITable64, "I64") /\ OneName(ITable64) /\ InRange(ITable64)
  BY SMT DEF OfGroup, OneName, InRange, Ranged, Group, ITable64
LEMMA GroupS == OfGroup(STable, "S") /\ OneName(STable) /\ InRange(STable)
  BY SMT DEF OfGroup, OneName, InRange, Ranged, Group, STable
LEMMA GroupS64 == OfGroup(STable64, "S64") /\ OneName(STable64) /\ InRange(STable64)
  BY SMT DEF OfGroup, OneName, InRange, Ranged, Group, STable64
LEMMA GroupCSR == OfGroup(CSRTable, "CSR") /\ OneName(CSRTable) /\ InRange(CSRTable)
  BY SMT DEF OfGroup, OneName, InRange, Ranged, Group, CSRTable
LEMMA GroupSR == OfGroup(SRTable, "SR") /\ OneName(SRTable) /\ InRange(SRTable) /\ Third(SRTable, {0, 32})
  BY SMT DEF OfGroup, OneName, InRange, Ranged, Third, Group, SRTable
LEMMA GroupR == OfGroup(RTable, "R") /\ OneName(RTable) /\ InRange(RTable) /\ Third(RTable, {0, 32})
  BY SMT DEF OfGroup, OneName, InRange, Ranged, Third, Group, RTable
LEMMA GroupR64 == OfGroup(RTable64, "R64") /\ OneName(RTable64) /\ InRange(RTable64) /\ Third(RTable64, {0, 32})
  BY SMT DEF OfGroup, OneName, InRange, Ranged, Third, Group, RTable64
LEMMA GroupM == OfGroup(RTableM, "M") /\ OneName(RTableM) /\ InRange(RTableM) /\ Third(RTableM, {1})
  BY SMT DEF OfGroup, OneName, InRange, Ranged, Third, Group, RTableM
LEMMA GroupM64 == OfGroup(RTableM64, "M64") /\ OneName(RTableM64) /\ InRange(RTableM64) /\ Third(RTableM64, {1})
  BY SMT DEF OfGroup, OneName, InRange, Ranged, Third, Group, RTableM64
LEMMA GroupA ==
  InRange(ATable) /\ Third(ATable, {0, 1}) /\ InRange(ATable64) /\ Third(ATable64, {0, 1})
  BY SMT DEF InRange, Ranged, Third, ATable, ATable64

(* Two entries with the same code are in the same table, so have one name. *)
LEMMA Together ==
  ASSUME NEW T, NEW g, OfGroup(T, g), OneName(T), NEW n \in DOMAIN T,
         NEW K, NEW h, OfGroup(K, h), OneName(K), NEW k \in DOMAIN K, g = h => T = K, T[n] = K[k]
  PROVE  n = k
<1>1. Group(T[n]) = g /\ Group(K[k]) = h
  BY DEF OfGroup
<1>2. T = K
  BY <1>1
<1> QED BY <1>2 DEF OneName

Tables == {RTable, RTable64, RTableM, RTableM64, SRTable, ITable, ITable64, STable,
           STable64, BTable, CSRTable, UTable, JTable}
GroupOf(T, g) ==
  \/ (T = RTable /\ g = "R")
  \/ (T = RTable64 /\ g = "R64")
  \/ (T = RTableM /\ g = "M")
  \/ (T = RTableM64 /\ g = "M64")
  \/ (T = SRTable /\ g = "SR")
  \/ (T = ITable /\ g = "I")
  \/ (T = ITable64 /\ g = "I64")
  \/ (T = STable /\ g = "S")
  \/ (T = STable64 /\ g = "S64")
  \/ (T = BTable /\ g = "B")
  \/ (T = CSRTable /\ g = "CSR")
  \/ (T = UTable /\ g = "U")
  \/ (T = JTable /\ g = "J")

LEMMA GroupExists == \A T \in Tables : \E g : GroupOf(T, g)
<1> SUFFICES ASSUME NEW T \in Tables PROVE \E g : GroupOf(T, g)
  OBVIOUS
<1>1. \/ T = RTable \/ T = RTable64 \/ T = RTableM \/ T = RTableM64 \/ T = SRTable \/ T = ITable
      \/ T = ITable64 \/ T = STable \/ T = STable64 \/ T = BTable \/ T = CSRTable \/ T = UTable
      \/ T = JTable
  BY DEF Tables
<1>2. /\ T = RTable => GroupOf(T, "R")
      /\ T = RTable64 => GroupOf(T, "R64")
      /\ T = RTableM => GroupOf(T, "M")
      /\ T = RTableM64 => GroupOf(T, "M64")
      /\ T = SRTable => GroupOf(T, "SR")
      /\ T = ITable => GroupOf(T, "I")
      /\ T = ITable64 => GroupOf(T, "I64")
      /\ T = STable => GroupOf(T, "S")
      /\ T = STable64 => GroupOf(T, "S64")
      /\ T = BTable => GroupOf(T, "B")
      /\ T = CSRTable => GroupOf(T, "CSR")
      /\ T = UTable => GroupOf(T, "U")
      /\ T = JTable => GroupOf(T, "J")
  BY DEF GroupOf
<1> QED BY <1>1, <1>2, Zenon

LEMMA GroupsAre ==
  ASSUME NEW T, NEW g, GroupOf(T, g)
  PROVE  OfGroup(T, g) /\ OneName(T)
  BY GroupU, GroupJ, GroupB, GroupI, GroupI64, GroupS, GroupS64, GroupCSR, GroupSR, GroupR, GroupR64,
     GroupM, GroupM64, Zenon DEF GroupOf

LEMMA GroupsDiffer ==
  ASSUME NEW T, NEW K, NEW g, GroupOf(T, g), GroupOf(K, g)
  PROVE  T = K
  BY SMT DEF GroupOf

Unmistakable(name, t) == \A e \in Entries : e[2] = t => e[1] = name

LEMMA EntriesAre == \A e \in Entries : \E T \in Tables : \E n \in DOMAIN T : e[1] = n /\ e[2] = T[n]
<1> SUFFICES ASSUME NEW e \in Entries PROVE \E T \in Tables : \E n \in DOMAIN T : e[1] = n /\ e[2] = T[n]
  OBVIOUS
<1> DEFINE Of(T) == {<<n, T[n]>> : n \in DOMAIN T}
<1>1. Entries = UNION {Of(T) : T \in Tables}
  BY DEF Entries, Tables
<1>2. PICK T \in Tables : e \in Of(T)
  BY <1>1
<1>3. PICK n \in DOMAIN T : e = <<n, T[n]>>
  BY <1>2
<1>4. e[1] = n /\ e[2] = T[n]
  BY <1>3
<1> QED BY <1>4

LEMMA Distinct ==
  ASSUME NEW T \in Tables, NEW n \in DOMAIN T
  PROVE  Unmistakable(n, T[n])
<1> SUFFICES ASSUME NEW e \in Entries, e[2] = T[n] PROVE e[1] = n
  BY DEF Unmistakable
<1>1. PICK K \in Tables : \E k \in DOMAIN K : e[1] = k /\ e[2] = K[k]
  BY EntriesAre
<1>2. PICK k \in DOMAIN K : e[1] = k /\ e[2] = K[k]
  BY <1>1
<1>3. PICK g : GroupOf(T, g)
  BY GroupExists
<1>4. PICK h : GroupOf(K, h)
  BY GroupExists
<1>5. OfGroup(T, g) /\ OneName(T) /\ OfGroup(K, h) /\ OneName(K)
  BY <1>3, <1>4, GroupsAre
<1>6. g = h => T = K
  BY <1>3, <1>4, GroupsDiffer
<1>7. T[n] = K[k]
  BY <1>2
<1> HIDE <1>1
<1>8. n = k
  BY <1>5, <1>6, <1>7, Together
<1> QED BY <1>2, <1>8

(* No entry has the code that the two instructions without operands share. *)
LEMMA NoEntry == \A name : Unmistakable(name, <<115, 0>>)
<1> SUFFICES ASSUME NEW e \in Entries, e[2] = <<115, 0>> PROVE FALSE
  BY DEF Unmistakable
<1>1. PICK K \in Tables : \E k \in DOMAIN K : e[1] = k /\ e[2] = K[k]
  BY EntriesAre
<1>2. PICK k \in DOMAIN K : e[1] = k /\ e[2] = K[k]
  BY <1>1
<1>3. PICK h : GroupOf(K, h)
  BY GroupExists
<1>4. Group(K[k]) = h
  BY <1>3, GroupsAre DEF OfGroup
<1>5. Group(<<115, 0>>) = "CSR"
  BY SMT DEF Group
<1>6. GroupOf(K, "CSR")
  BY <1>2, <1>3, <1>4, <1>5
<1>7. K = CSRTable
  BY <1>6, SMT DEF GroupOf
<1>8. CSRTable[k][2] # 0
  <2>1. k \in DOMAIN CSRTable
    BY <1>7
  <2> QED BY <2>1, SMT DEF CSRTable
<1>9. K[k] = <<115, 0>>
  BY <1>2
<1> QED BY <1>7, <1>8, <1>9

-----------------------------------------------------------------------------
(* What EncodingsRight says of one thing that was compiled.                *)
Encoded(o) ==
  LET w == o.word
      ops == o.ops
  IN /\ o.kind \in {"R", "SR", "A", "I", "S", "B", "U", "J"} => Opcode(w) = o.t[1]
     /\ o.kind \in {"R", "SR", "A", "I", "S", "B"} => Funct3(w) = o.t[2]
     /\ o.kind \in {"R", "A"} => <<Rd(w), Rs1(w), Rs2(w)>> =
          IF o.kind = "A" THEN <<ops[1], ops[3], ops[2]>> ELSE ops
     /\ o.kind = "A" => Funct7(w) = 4 * o.t[3] + ops[4]
     /\ o.kind = "R" => Funct7(w) = o.t[3]
     /\ o.kind = "SR" => <<Rd(w), Rs1(w), Bits(w, 20, 6)>> = ops /\ Bits(w, 26, 6) = o.t[3] \div 2
     /\ o.kind = "I" => <<Rd(w), Rs1(w), ImmI(w)>> = ops
     /\ o.kind = "S" => <<Rs2(w), Rs1(w), ImmS(w)>> = ops
     /\ o.kind = "B" => <<Rs1(w), Rs2(w), ImmB(w)>> = ops
     /\ o.kind = "U" => <<Rd(w), ImmU(w)>> = ops
     /\ o.kind = "J" => <<Rd(w), ImmJ(w)>> = ops
     /\ o.kind \in {"R", "SR", "I", "S", "B"} => Unmistakable(o.name, o.t)
     /\ o.kind = "x86" => Instruction(w) = ops

LEMMA EncodedIs == EncodingsRight <=> Encoded(out)
  BY DEF EncodingsRight, Encoded, Unmistakable

Output(kind, name, t, ops, word) == [kind |-> kind, name |-> name, t |-> t, ops |-> ops, word |-> word]

LEMMA EncodedR ==
  ASSUME NEW n, NEW t, Ranged(t), t[3] \in 0 .. 127, Unmistakable(n, t),
         NEW a \in 0 .. 31, NEW b \in 0 .. 31, NEW c \in 0 .. 31
  PROVE  Encoded(Output("R", n, t, <<a, b, c>>, RINSTR(t, a, b, c)))
<1> DEFINE w == RINSTR(t, a, b, c)
           o == Output("R", n, t, <<a, b, c>>, w)
           op == t[1]
           f3 == t[2]
           f7 == t[3]
<1>1. op \in 0 .. 127 /\ f3 \in 0 .. 7 /\ f7 \in 0 .. 127 /\ f7 \in Int /\ c \in Int
  BY DEF Ranged
<1>2. w = RType(op, a, f3, b, c, f7)
  BY DEF RINSTR
<1> HIDE DEF w, op, f3, f7
<1>3. RReads(w, op, a, f3, b, c, f7)
  BY <1>1, <1>2, RRight, Zenon
<1>4. Opcode(w) = op /\ Rd(w) = a /\ Funct3(w) = f3 /\ Rs1(w) = b /\ Rs2(w) = c /\ Funct7(w) = f7
  BY <1>1, <1>3 DEF RReads
<1>5. o.kind = "R" /\ o.name = n /\ o.t = t /\ o.ops = <<a, b, c>> /\ o.word = w
  BY DEF Output
<1> HIDE DEF o
<1>6. Opcode(w) = t[1] /\ Funct3(w) = t[2] /\ Funct7(w) = t[3]
  BY <1>4 DEF op, f3, f7
<1>7. Encoded(o)
  BY <1>4, <1>5, <1>6 DEF Encoded
<1> QED BY <1>7 DEF o, w

LEMMA EncodedSR ==
  ASSUME NEW n, NEW t, Ranged(t), t[3] \in {0, 32}, Unmistakable(n, t),
         NEW a \in 0 .. 31, NEW b \in 0 .. 31, NEW c \in 0 .. 63
  PROVE  Encoded(Output("SR", n, t, <<a, b, c>>, SRINSTR(t, a, b, c)))
<1> DEFINE w == SRINSTR(t, a, b, c)
           o == Output("SR", n, t, <<a, b, c>>, w)
           op == t[1]
           f3 == t[2]
           h == IF t[3] = 0 THEN 0 ELSE 16
<1>1. op \in 0 .. 127 /\ f3 \in 0 .. 7 /\ h \in 0 .. 63
  BY DEF Ranged
<1>2. t[3] = 2 * h /\ t[3] \div 2 = h
  <2>1. 2 * 0 = 0 /\ 2 * 16 = 32 /\ 0 \div 2 = 0 /\ 32 \div 2 = 16
    OBVIOUS
  <2> QED BY <2>1
<1>3. w = RType(op, a, f3, b, c, 2 * h + Slice(c, 5, 1))
  BY <1>2 DEF SRINSTR
<1> HIDE DEF w, op, f3, h
<1>4. SRReads(w, op, a, f3, b, c, h)
  BY <1>1, <1>3, SRRight, Zenon
<1>5. /\ Opcode(w) = t[1] /\ Rd(w) = a /\ Funct3(w) = t[2] /\ Rs1(w) = b /\ Bits(w, 20, 6) = c
      /\ Bits(w, 26, 6) = t[3] \div 2
  BY <1>2, <1>4 DEF SRReads, op, f3
<1>6. o.kind = "SR" /\ o.name = n /\ o.t = t /\ o.ops = <<a, b, c>> /\ o.word = w
  BY DEF Output
<1> HIDE DEF o
<1>7. Encoded(o)
  BY <1>5, <1>6 DEF Encoded
<1> QED BY <1>7 DEF o, w

LEMMA EncodedA ==
  ASSUME NEW n, NEW t, Ranged(t), t[3] \in {0, 1},
         NEW a \in 0 .. 31, NEW b \in 0 .. 31, NEW c \in 0 .. 31, NEW flag \in 0 .. 3
  PROVE  Encoded(Output("A", n, t, <<a, b, c, flag>>, AINSTR(t, a, b, c, flag)))
<1> DEFINE w == AINSTR(t, a, b, c, flag)
           o == Output("A", n, t, <<a, b, c, flag>>, w)
           op == t[1]
           f3 == t[2]
           f7 == 4 * t[3] + flag
<1>1. op \in 0 .. 127 /\ f3 \in 0 .. 7 /\ f7 \in 0 .. 127 /\ f7 \in Int /\ b \in Int
  BY DEF Ranged
<1>2. w = RType(op, a, f3, c, b, f7)
  BY DEF AINSTR
<1> HIDE DEF w, op, f3, f7
<1>3. RReads(w, op, a, f3, c, b, f7)
  BY <1>1, <1>2, RRight, Zenon
<1>4. /\ Opcode(w) = t[1] /\ Rd(w) = a /\ Funct3(w) = t[2] /\ Rs1(w) = c /\ Rs2(w) = b
      /\ Funct7(w) = f7
  BY <1>1, <1>3 DEF RReads, op, f3
<1>5. o.kind = "A" /\ o.t = t /\ o.ops = <<a, b, c, flag>> /\ o.word = w
  BY DEF Output
<1>6. f7 = 4 * t[3] + flag
  BY DEF f7
<1>7. <<a, b, c, flag>>[1] = a /\ <<a, b, c, flag>>[2] = b /\ <<a, b, c, flag>>[3] = c
      /\ <<a, b, c, flag>>[4] = flag
  OBVIOUS
<1> HIDE DEF o
<1>8. Encoded(o)
  BY <1>4, <1>5, <1>6, <1>7 DEF Encoded
<1> QED BY <1>8 DEF o, w

(* i is the immediate, or what the processor makes of it.                  *)
SmallI(imm, i) ==
  \/ (imm \in -2048 .. 2047 /\ i = imm)
  \/ (imm \in 0 .. 4095 /\ i = SignExtended(imm, 12))
LEMMA EncodedI ==
  ASSUME NEW n, NEW t, Ranged(t), Unmistakable(n, t),
         NEW a \in 0 .. 31, NEW b \in 0 .. 31, NEW imm \in Int, NEW i,
         SmallI(imm, i)
  PROVE  Encoded(Output("I", n, t, <<a, b, i>>, IType(t[1], a, t[2], b, imm)))
<1> DEFINE w == IType(t[1], a, t[2], b, imm)
           o == Output("I", n, t, <<a, b, i>>, w)
<1>1. t[1] \in 0 .. 127 /\ t[2] \in 0 .. 7
  BY DEF Ranged
<1>2. IReads(w, t[1], a, t[2], b, imm)
  BY <1>1, IRight, Zenon
<1> HIDE DEF w
<1>3. Opcode(w) = t[1] /\ Rd(w) = a /\ Funct3(w) = t[2] /\ Rs1(w) = b /\ ImmI(w) = i
  BY <1>2, SMT DEF IReads, SmallI
<1>4. o.kind = "I" /\ o.name = n /\ o.t = t /\ o.ops = <<a, b, i>> /\ o.word = w
  BY DEF Output
<1> HIDE DEF o
<1>5. Encoded(o)
  BY <1>3, <1>4 DEF Encoded
<1> QED BY <1>5 DEF o, w

LEMMA EncodedS ==
  ASSUME NEW n, NEW t, Ranged(t), Unmistakable(n, t),
         NEW a \in 0 .. 31, NEW b \in 0 .. 31, NEW imm, SmallS(imm)
  PROVE  Encoded(Output("S", n, t, <<a, b, imm>>, SINSTR(t, a, b, imm)))
<1> DEFINE w == SINSTR(t, a, b, imm)
           o == Output("S", n, t, <<a, b, imm>>, w)
<1>1. t[1] \in 0 .. 127 /\ t[2] \in 0 .. 7
  BY DEF Ranged
<1>2. SReads(SType(t[1], t[2], b, a, imm), t[1], t[2], b, a, imm)
  BY <1>1, SRight, Zenon
<1>3. SReads(w, t[1], t[2], b, a, imm)
  BY <1>2 DEF SINSTR
<1> HIDE DEF w
<1>4. Opcode(w) = t[1] /\ Funct3(w) = t[2] /\ Rs1(w) = b /\ Rs2(w) = a /\ ImmS(w) = imm
  BY <1>3 DEF SReads
<1>5. o.kind = "S" /\ o.name = n /\ o.t = t /\ o.ops = <<a, b, imm>> /\ o.word = w
  BY DEF Output
<1> HIDE DEF o
<1>6. Encoded(o)
  BY <1>4, <1>5 DEF Encoded
<1> QED BY <1>6 DEF o, w

LEMMA EncodedB ==
  ASSUME NEW n, NEW t, Ranged(t), Unmistakable(n, t),
         NEW a \in 0 .. 31, NEW b \in 0 .. 31,
         NEW imm, SmallB(imm)
  PROVE  Encoded(Output("B", n, t, <<a, b, imm>>, BINSTR(t, a, b, imm)))
<1> DEFINE w == BINSTR(t, a, b, imm)
           o == Output("B", n, t, <<a, b, imm>>, w)
<1>1. t[1] \in 0 .. 127 /\ t[2] \in 0 .. 7
  BY DEF Ranged
<1>2. BReads(BType(t[1], t[2], a, b, imm), t[1], t[2], a, b, imm)
  BY <1>1, BRight, Zenon
<1>3. BReads(w, t[1], t[2], a, b, imm)
  BY <1>2 DEF BINSTR
<1> HIDE DEF w
<1>4. Opcode(w) = t[1] /\ Funct3(w) = t[2] /\ Rs1(w) = a /\ Rs2(w) = b /\ ImmB(w) = imm
  BY <1>3 DEF BReads
<1>5. o.kind = "B" /\ o.name = n /\ o.t = t /\ o.ops = <<a, b, imm>> /\ o.word = w
  BY DEF Output
<1> HIDE DEF o
<1>6. Encoded(o)
  BY <1>4, <1>5 DEF Encoded
<1> QED BY <1>6 DEF o, w

LEMMA EncodedU ==
  ASSUME NEW n, NEW t, t[1] \in 0 .. 127, NEW a \in 0 .. 31, NEW imm \in 0 .. 2 ^ 20 - 1
  PROVE  Encoded(Output("U", n, t, <<a, imm>>, UINSTR(t, a, imm)))
<1> DEFINE op == t[1]
           w == UINSTR(t, a, imm)
           o == Output("U", n, t, <<a, imm>>, w)
<1>1. op \in 0 .. 127 /\ w = UType(op, a, imm)
  BY DEF UINSTR
<1> HIDE DEF op, w
<1>2. UReads(w, op, a, imm)
  BY <1>1, URight
<1>3. Opcode(w) = t[1] /\ Rd(w) = a /\ ImmU(w) = imm
  BY <1>2 DEF UReads, op
<1>4. o.kind = "U" /\ o.t = t /\ o.ops = <<a, imm>> /\ o.word = w
  BY DEF Output
<1> HIDE DEF o
<1>5. Encoded(o)
  BY <1>3, <1>4 DEF Encoded
<1> QED BY <1>5 DEF o, w

LEMMA EncodedJ ==
  ASSUME NEW n, NEW t, t[1] \in 0 .. 127, NEW a \in 0 .. 31,
         NEW imm, SmallJ(imm)
  PROVE  Encoded(Output("J", n, t, <<a, imm>>, JINSTR(t, a, imm)))
<1> DEFINE op == t[1]
           w == JINSTR(t, a, imm)
           o == Output("J", n, t, <<a, imm>>, w)
<1>1. op \in 0 .. 127 /\ w = JType(op, a, imm)
  BY DEF JINSTR
<1> HIDE DEF op, w
<1>2. JReads(w, op, a, imm)
  BY <1>1, JRight
<1>3. Opcode(w) = t[1] /\ Rd(w) = a /\ ImmJ(w) = imm
  BY <1>2 DEF JReads, op
<1>4. o.kind = "J" /\ o.t = t /\ o.ops = <<a, imm>> /\ o.word = w
  BY DEF Output
<1> HIDE DEF o
<1>5. Encoded(o)
  BY <1>3, <1>4 DEF Encoded
<1> QED BY <1>5 DEF o, w

(* Which instructions the tables name. *)
LEMMA TableIs ==
  ASSUME NEW T \in Tables, NEW n \in DOMAIN T, InRange(T)
  PROVE  Ranged(T[n]) /\ Unmistakable(n, T[n])
  BY Distinct DEF InRange

LEMMA AssembledIs ==
  ASSUME NEW kind, NEW name, NEW t, NEW ops, NEW word,
         Assembled(kind, name, t, ops, word), Encoded(Output(kind, name, t, ops, word))
  PROVE  Encoded(out')
  BY DEF Assembled, Output

LEMMA WithinIs ==
  /\ \A v \in Within(12) : SmallS(v) /\ SmallI(v, v)
  /\ \A v \in Within(13) : v % 2 = 0 => SmallB(v)
  /\ \A v \in Within(21) : v % 2 = 0 => SmallJ(v)
<1>1. 2 ^ (12 - 1) = 2048 /\ 2 ^ (13 - 1) = 4096 /\ 2 ^ (21 - 1) = 2 ^ 20
  BY Heavy, SMT
<1>2. ASSUME NEW v \in Within(12) PROVE SmallS(v) /\ SmallI(v, v)
  <2>1. v \in Int /\ -2048 <= v /\ v < 2048
    BY <1>1, <1>2, OperandAssumption, SMT DEF Within
  <2> QED BY <2>1, SMT DEF SmallS, SmallI
<1>3. ASSUME NEW v \in Within(13), v % 2 = 0 PROVE SmallB(v)
  <2>1. v \in Int /\ -4096 <= v /\ v < 4096
    BY <1>1, <1>3, OperandAssumption, SMT DEF Within
  <2> QED BY <1>3, <2>1, SMT DEF SmallB
<1>4. ASSUME NEW v \in Within(21), v % 2 = 0 PROVE SmallJ(v)
  <2>1. v \in Int /\ -(2 ^ 20) <= v /\ v < 2 ^ 20
    BY <1>1, <1>4, OperandAssumption, SMT DEF Within
  <2> QED BY <1>4, <2>1, SMT DEF SmallJ
<1> QED BY <1>2, <1>3, <1>4

(* The three parts of a control and status register's number the run has.  *)
LEMMA RegisterNumbers == \A csr \in {1, 2048, 4095} : csr \in Int /\ SmallI(csr, SignExtended(csr, 12))
  BY SMT DEF SmallI

PlainI(n, t, a, b, imm, i, ops, w) ==
  /\ Ranged(t) /\ Unmistakable(n, t)
  /\ a \in 0 .. 31 /\ b \in 0 .. 31 /\ imm \in Int /\ SmallI(imm, i)
  /\ ops = <<a, b, i>> /\ w = IType(t[1], a, t[2], b, imm)

LEMMA EncodedPlain ==
  ASSUME NEW n, NEW t, NEW a, NEW b, NEW imm, NEW i, NEW ops, NEW w, PlainI(n, t, a, b, imm, i, ops, w)
  PROVE  Encoded(Output("I", n, t, ops, w))
<1>1. /\ Ranged(t) /\ Unmistakable(n, t)
      /\ a \in 0 .. 31 /\ b \in 0 .. 31 /\ imm \in Int /\ SmallI(imm, i)
  BY DEF PlainI
<1>2. Encoded(Output("I", n, t, <<a, b, i>>, IType(t[1], a, t[2], b, imm)))
  BY <1>1, EncodedI, Zenon
<1>3. ops = <<a, b, i>> /\ w = IType(t[1], a, t[2], b, imm)
  BY DEF PlainI
<1> QED BY <1>2, <1>3

LEMMA AssembleRVRight ==
  ASSUME AssembleRV
  PROVE  Encoded(out')
<1>1. PICK a \in Regs, b \in Regs :
        \/ AssembleI(a, b) \/ AssembleCSR(a, b) \/ AssembleS(a, b) \/ AssembleB(a, b) \/ AssembleR(a, b)
        \/ AssembleUJ(a) \/ AssembleP
  BY DEF AssembleRV
<1>2. a \in 0 .. 31 /\ b \in 0 .. 31
  BY OperandAssumption
<1>3. ASSUME NEW T \in {ITable, ITable64}, NEW imm \in Within(12), NEW n \in DOMAIN T,
             Assembled("I", n, T[n], <<a, b, imm>>, IINSTR(T[n], a, b, imm))
      PROVE  Encoded(out')
  <2>1. T \in Tables /\ InRange(T)
    BY GroupI, GroupI64 DEF Tables
  <2>2. Ranged(T[n]) /\ Unmistakable(n, T[n])
    BY <2>1, TableIs
  <2>3. SmallI(imm, imm) /\ imm \in Int
    BY WithinIs, OperandAssumption DEF Within
  <2> DEFINE t == T[n]
  <2>4. IINSTR(t, a, b, imm) = IType(t[1], a, t[2], b, imm)
    BY DEF IINSTR
  <2>5. Ranged(t) /\ Unmistakable(n, t)
    BY <2>2
  <2> HIDE DEF t
  <2>6. Encoded(Output("I", n, t, <<a, b, imm>>, IType(t[1], a, t[2], b, imm)))
    BY <1>2, <2>3, <2>5, EncodedI, Zenon
  <2>7. Encoded(Output("I", n, T[n], <<a, b, imm>>, IINSTR(T[n], a, b, imm)))
    BY <2>4, <2>6 DEF t
  <2> QED BY <1>3, <2>7, AssembledIs
<1>4. ASSUME NEW T \in {STable, STable64}, NEW imm \in Within(12), NEW n \in DOMAIN T,
             Assembled("S", n, T[n], <<a, b, imm>>, SINSTR(T[n], a, b, imm))
      PROVE  Encoded(out')
  <2>1. T \in Tables /\ InRange(T)
    BY GroupS, GroupS64 DEF Tables
  <2>2. Ranged(T[n]) /\ Unmistakable(n, T[n])
    BY <2>1, TableIs
  <2>3. SmallS(imm)
    BY WithinIs
  <2>4. Encoded(Output("S", n, T[n], <<a, b, imm>>, SINSTR(T[n], a, b, imm)))
    BY <1>2, <2>2, <2>3, EncodedS, Zenon
  <2> QED BY <1>4, <2>4, AssembledIs
<1>5. ASSUME NEW n \in DOMAIN BTable, NEW imm \in {v \in Within(13) : v % 2 = 0},
             Assembled("B", n, BTable[n], <<a, b, imm>>, BINSTR(BTable[n], a, b, imm))
      PROVE  Encoded(out')
  <2>1. BTable \in Tables /\ InRange(BTable)
    BY GroupB DEF Tables
  <2>2. Ranged(BTable[n]) /\ Unmistakable(n, BTable[n])
    BY <2>1, TableIs
  <2>3. SmallB(imm)
    BY WithinIs
  <2>4. Encoded(Output("B", n, BTable[n], <<a, b, imm>>, BINSTR(BTable[n], a, b, imm)))
    BY <1>2, <2>2, <2>3, EncodedB, Zenon
  <2> QED BY <1>5, <2>4, AssembledIs
<1>6. ASSUME NEW T \in {RTable, RTable64, RTableM, RTableM64}, NEW c \in Regs, NEW n \in DOMAIN T,
             Assembled("R", n, T[n], <<a, b, c>>, RINSTR(T[n], a, b, c))
      PROVE  Encoded(out')
  <2>1. T \in Tables /\ InRange(T)
    BY GroupR, GroupR64, GroupM, GroupM64 DEF Tables
  <2>2. Ranged(T[n]) /\ Unmistakable(n, T[n])
    BY <2>1, TableIs
  <2>3. T[n][3] \in 0 .. 127
    <3>1. T[n][3] \in {0, 32} \/ T[n][3] \in {1}
      BY GroupR, GroupR64, GroupM, GroupM64 DEF Third
    <3> QED BY <3>1
  <2>4. c \in 0 .. 31
    BY OperandAssumption
  <2>5. Encoded(Output("R", n, T[n], <<a, b, c>>, RINSTR(T[n], a, b, c)))
    BY <1>2, <2>2, <2>3, <2>4, EncodedR, Zenon
  <2> QED BY <1>6, <2>5, AssembledIs
<1>7. ASSUME NEW n \in DOMAIN SRTable, NEW c \in 0 .. 63,
             Assembled("SR", n, SRTable[n], <<a, b, c>>, SRINSTR(SRTable[n], a, b, c))
      PROVE  Encoded(out')
  <2>1. SRTable \in Tables /\ InRange(SRTable)
    BY GroupSR DEF Tables
  <2>2. Ranged(SRTable[n]) /\ Unmistakable(n, SRTable[n])
    BY <2>1, TableIs
  <2>3. SRTable[n][3] \in {0, 32}
    BY GroupSR DEF Third
  <2>4. Encoded(Output("SR", n, SRTable[n], <<a, b, c>>, SRINSTR(SRTable[n], a, b, c)))
    BY <1>2, <2>2, <2>3, EncodedSR, Zenon
  <2> QED BY <1>7, <2>4, AssembledIs
<1>8. ASSUME NEW T \in {ATable, ATable64}, NEW c \in Regs, NEW flag \in 0 .. 3, NEW n \in DOMAIN T,
             Assembled("A", n, T[n], <<a, b, c, flag>>, AINSTR(T[n], a, b, c, flag))
      PROVE  Encoded(out')
  <2>1. Ranged(T[n]) /\ T[n][3] \in {0, 1}
    BY GroupA DEF InRange, Third
  <2>2. c \in 0 .. 31
    BY OperandAssumption
  <2>3. Encoded(Output("A", n, T[n], <<a, b, c, flag>>, AINSTR(T[n], a, b, c, flag)))
    BY <1>2, <2>1, <2>2, EncodedA, Zenon
  <2> QED BY <1>8, <2>3, AssembledIs
<1>9. ASSUME NEW n \in DOMAIN CSRTable, NEW csr \in {1, 2048, 4095},
             Assembled("I", n, CSRTable[n], <<a, b, SignExtended(csr, 12)>>, CSRINSTR(CSRTable[n], csr, a, b))
      PROVE  Encoded(out')
  <2>1. CSRTable \in Tables /\ InRange(CSRTable)
    BY GroupCSR DEF Tables
  <2>2. Ranged(CSRTable[n]) /\ Unmistakable(n, CSRTable[n])
    BY <2>1, TableIs
  <2>3. SmallI(csr, SignExtended(csr, 12)) /\ csr \in Int
    BY RegisterNumbers
  <2> DEFINE i == SignExtended(csr, 12)
             ops == <<a, b, i>>
             w == CSRINSTR(CSRTable[n], csr, a, b)
  <2>4. ops = <<a, b, i>> /\ w = IType(CSRTable[n][1], a, CSRTable[n][2], b, csr)
    BY DEF CSRINSTR
  <2> HIDE DEF ops, w
  <2>5. PlainI(n, CSRTable[n], a, b, csr, i, ops, w)
    BY <1>2, <2>2, <2>3, <2>4 DEF PlainI
  <2>6. Encoded(Output("I", n, CSRTable[n], ops, w))
    BY <2>5, EncodedPlain
  <2> QED BY <1>9, <2>6, AssembledIs DEF ops, w
<1>10. ASSUME NEW n \in DOMAIN UTable, NEW imm \in Immediates \cap 0 .. 2 ^ 20 - 1,
              Assembled("U", n, UTable[n], <<a, imm>>, UINSTR(UTable[n], a, imm))
       PROVE  Encoded(out')
  <2>1. UTable[n][1] \in 0 .. 127
    BY GroupU
  <2>2. imm \in 0 .. 2 ^ 20 - 1
    OBVIOUS
  <2>3. Encoded(Output("U", n, UTable[n], <<a, imm>>, UINSTR(UTable[n], a, imm)))
    BY <1>2, <2>1, <2>2, EncodedU
  <2> QED BY <1>10, <2>3, AssembledIs
<1>11. ASSUME NEW imm \in {v \in Within(21) : v % 2 = 0},
              Assembled("J", "JAL", JTable.JAL, <<a, imm>>, JINSTR(JTable.JAL, a, imm))
       PROVE  Encoded(out')
  <2> DEFINE t == JTable.JAL
  <2>1. t[1] \in 0 .. 127
    BY SMT DEF JTable
  <2>2. SmallJ(imm)
    BY WithinIs
  <2> HIDE DEF t
  <2>3. Encoded(Output("J", "JAL", t, <<a, imm>>, JINSTR(t, a, imm)))
    BY <1>2, <2>1, <2>2, EncodedJ
  <2> QED BY <1>11, <2>3, AssembledIs DEF t
<1>12. CASE Assembled("I", "SRET", <<115, 0>>, <<0, 0, 258>>, SRET)
  <2>1. 258 \in Int /\ SmallI(258, 258) /\ 0 \in 0 .. 31 /\ 32 * 8 + (2 % 32) = 258
    BY SMT DEF SmallI
  <2>2. PlainI("SRET", <<115, 0>>, 0, 0, 258, 258, <<0, 0, 258>>, SRET)
    BY <2>1, NoEntry DEF PlainI, Ranged, SRET, PINSTR
  <2>3. Encoded(Output("I", "SRET", <<115, 0>>, <<0, 0, 258>>, SRET))
    BY <2>2, EncodedPlain
  <2> QED BY <1>12, <2>3, AssembledIs
<1>13. CASE Assembled("I", "ECALL", <<115, 0>>, <<0, 0, 0>>, ECALL)
  <2>1. 0 \in Int /\ SmallI(0, 0) /\ 0 \in 0 .. 31 /\ 32 * 0 + (0 % 32) = 0
    BY SMT DEF SmallI
  <2>2. PlainI("ECALL", <<115, 0>>, 0, 0, 0, 0, <<0, 0, 0>>, ECALL)
    BY <2>1, NoEntry DEF PlainI, Ranged, ECALL, PINSTR
  <2>3. Encoded(Output("I", "ECALL", <<115, 0>>, <<0, 0, 0>>, ECALL))
    BY <2>2, EncodedPlain
  <2> QED BY <1>13, <2>3, AssembledIs
<1>14. AssembleI(a, b) => Encoded(out')
  BY <1>3 DEF AssembleI
<1>15. AssembleS(a, b) => Encoded(out')
  BY <1>4 DEF AssembleS
<1>16. AssembleB(a, b) => Encoded(out')
  BY <1>5 DEF AssembleB
<1>17. AssembleR(a, b) => Encoded(out')
  BY <1>6, <1>7, <1>8 DEF AssembleR
<1>18. AssembleUJ(a) => Encoded(out')
  BY <1>10, <1>11 DEF AssembleUJ
<1>19. AssembleCSR(a, b) => Encoded(out')
  BY <1>9 DEF AssembleCSR
<1>20. AssembleP => Encoded(out')
  BY <1>12, <1>13 DEF AssembleP
<1> QED BY <1>1, <1>14, <1>15, <1>16, <1>17, <1>18, <1>19, <1>20

(* Every instruction the assemblers are asked for is the one the processor *)
(* reads.                                                                  *)
LEMMA SingleEncoded ==
  ASSUME Next
  PROVE  Encoded(out')
<1>1. CASE SYS_COMPILE_CONSTANT \/ SYS_COMPILE_ADDR \/ SYS_COMPILE_EXECUTE
  <2>1. out'.kind \in {"constant", "address", "execute"}
    BY <1>1 DEF SYS_COMPILE_CONSTANT, SYS_COMPILE_ADDR, SYS_COMPILE_EXECUTE, Compiled
  <2> QED BY <2>1 DEF Encoded
<1>2. ASSUME NEW d \in Immediates, NEW w \in Wanted(d), w[2][1] = "add" => -128 <= d /\ d < 128,
             Assembled("x86", w[2][1], <<>>, w[2], w[1])
      PROVE  Encoded(out')
  <2>1. d \in Int
    BY OperandAssumption
  <2>2. Instruction(w[1]) = w[2]
    BY <1>2, <2>1, X86Right
  <2>3. Encoded(Output("x86", w[2][1], <<>>, w[2], w[1]))
    BY <2>2 DEF Encoded, Output
  <2> QED BY <1>2, <2>3, AssembledIs
<1>3. CASE Assemble
  BY <1>2, <1>3, AssembleRVRight DEF Assemble
<1> QED BY <1>1, <1>3 DEF Next

(* The rest of the compiler leaves what was compiled last alone.           *)
LEMMA OutKept ==
  ASSUME CompilerNext \/ UNCHANGED <<vars, flow, optimizer>>
  PROVE  Next \/ UNCHANGED out
<1>1. CASE UNCHANGED <<vars, flow, optimizer>>
  BY <1>1 DEF vars
<1>2. CASE Stack
  BY <1>2 DEF Stack, vars
<1>3. CASE Single
  BY <1>3 DEF Single
<1>4. CASE FlowNext
  <2>1. ASSUME NEW c, NEW o, NEW js, Word(c, o, js) PROVE UNCHANGED out
    BY <2>1 DEF Word
  <2> QED BY <1>4, <2>1 DEF FlowNext, IF_, AHEAD_, ELSE_, THEN_, BEGIN_, WHILE_, UNTIL_, AGAIN_, REPEAT_,
             Continue, CASE_, OF_, ENDOF_, ENDCASE_, DO_, QDO_, LEAVE_, LOOP_, Body
<1> QED BY <1>1, <1>2, <1>3, <1>4 DEF CompilerNext, Flow

THEOREM InstructionsEncoded == CompilerSpec => []EncodingsRight
<1>1. CompilerInit => EncodingsRight
  BY DEF CompilerInit, Init, EncodingsRight
<1>2. EncodingsRight /\ [CompilerNext]_<<vars, flow, optimizer>> => EncodingsRight'
  <2> SUFFICES ASSUME EncodingsRight, CompilerNext \/ UNCHANGED <<vars, flow, optimizer>>
               PROVE  EncodingsRight'
    OBVIOUS
  <2>1. EncodingsRight' <=> Encoded(out')
    BY DEF EncodingsRight, Encoded, Unmistakable
  <2>2. CASE Next
    BY <2>1, <2>2, SingleEncoded
  <2>3. CASE UNCHANGED out
    BY <2>1, <2>3, EncodedIs
  <2> QED BY <2>2, <2>3, OutKept
<1> QED BY <1>1, <1>2, PTL DEF CompilerSpec

-----------------------------------------------------------------------------
(* The processor: what a piece of code leaves of the registers.            *)
Names == {"X0", "A2", "A3", "T0", "T6", "RA", "RBX"}
Machines == {m \in [pc : Int, r : [Names -> Values]] : m.r["X0"] = 0}
Works(i) == \A m \in Machines : Exec(m, i) \in Machines
Good(is) == \E I : is \in Seq(I) /\ \A i \in I : Works(i)
Ran(m, is) == FoldLeft(Exec, m, is)
Traces(c, m, is) ==
  /\ c \in [0 .. Len(is) -> Machines] /\ c[0] = m
  /\ \A k \in 1 .. Len(is) : c[k] = Exec(c[k - 1], is[k])

LEMMA GoodIs ==
  ASSUME NEW is, Good(is)
  PROVE  /\ Len(is) \in Nat /\ DOMAIN is = 1 .. Len(is)
         /\ \A k \in 1 .. Len(is) : Works(is[k])
<1>1. PICK I : is \in Seq(I) /\ \A i \in I : Works(i)
  BY DEF Good
<1>2. Len(is) \in Nat /\ DOMAIN is = 1 .. Len(is) /\ \A k \in 1 .. Len(is) : is[k] \in I
  BY <1>1, LenProperties, ElementOfSeq
<1> QED BY <1>1, <1>2

(* The library's fold goes through the machines one after another.         *)
LEMMA RanTraces ==
  ASSUME NEW m \in Machines, NEW is, Good(is)
  PROVE  \E c : Traces(c, m, is) /\ c[Len(is)] = Ran(m, is)
<1> DEFINE n == Len(is)
           P == 1 .. n
           step == [k \in P |-> [z \in Machines |-> Exec(z, is[k])]]
           pick == [s \in SUBSET P |-> Max(s)]
           iter == CHOOSE it : it = [s \in SUBSET P |-> IF s = {} THEN m
                                     ELSE Exec(it[s \ {Max(s)}], is[Max(s)])]
<1>1. n \in Nat /\ DOMAIN is = P /\ \A k \in P : Works(is[k])
  BY GoodIs
<1>2. Ran(m, is) = iter[P]
  BY <1>1 DEF Ran, FoldLeft, MapThenFoldSet
<1> HIDE DEF n
<1>3. Picks(P, pick) /\ LastPicks(n, pick) /\ IsFiniteSet(P)
  <2>1. Picks(P, pick) /\ LastPicks(n, pick)
    BY <1>1, HasMax DEF Picks, LastPicks
  <2>2. 1 \in Int /\ n \in Int
    BY <1>1
  <2> HIDE DEF pick
  <2> QED BY <2>1, <2>2, FS_Interval
<1>4. \A s \in SUBSET P : s # {} => Max(s) \in P /\ s \ {Max(s)} \in SUBSET P /\ pick[s] = Max(s)
  <2> SUFFICES ASSUME NEW s \in SUBSET P, s # {}
               PROVE  Max(s) \in P /\ s \ {Max(s)} \in SUBSET P /\ pick[s] = Max(s)
    OBVIOUS
  <2>1. Max(s) \in s
    BY <1>1, HasMax
  <2> QED BY <2>1
<1> HIDE DEF P, iter, pick
<1>5. step \in [P -> [Machines -> Machines]]
  BY <1>1 DEF Works
<1>6. \A k \in P : \A z \in Machines : step[k][z] = Exec(z, is[k])
  OBVIOUS
<1> HIDE DEF step
<1>7. PICK f \in [SUBSET P -> Machines] : Folded(f, P, m, step, pick)
  BY <1>3, <1>5, Folding
<1>8. f = [s \in SUBSET P |-> IF s = {} THEN m ELSE Exec(f[s \ {Max(s)}], is[Max(s)])]
  <2>1. \A s \in SUBSET P : f[s] = IF s = {} THEN m ELSE Exec(f[s \ {Max(s)}], is[Max(s)])
    <3> SUFFICES ASSUME NEW s \in SUBSET P
                 PROVE  f[s] = IF s = {} THEN m ELSE Exec(f[s \ {Max(s)}], is[Max(s)])
      OBVIOUS
    <3>1. f[s] = IF s = {} THEN m ELSE step[pick[s]][f[s \ {pick[s]}]]
      BY <1>7 DEF Folded
    <3> QED BY <1>4, <1>6, <1>7, <3>1
  <2> QED BY <2>1
<1>9. iter = [s \in SUBSET P |-> IF s = {} THEN m ELSE Exec(iter[s \ {Max(s)}], is[Max(s)])]
  BY <1>8 DEF iter
<1>10. Continues(iter, P, m, Machines, step, pick)
  <2>1. iter[{}] = m
    <3>1. {} \in SUBSET P
      OBVIOUS
    <3> QED BY <1>9, <3>1
  <2>2. ASSUME NEW s \in SUBSET P, s # {}, iter[s \ {pick[s]}] \in Machines
        PROVE  iter[s] = step[pick[s]][iter[s \ {pick[s]}]]
    <3>1. iter[s] = Exec(iter[s \ {Max(s)}], is[Max(s)])
      BY <1>9, <2>2
    <3> QED BY <1>4, <1>6, <2>2, <3>1
  <2> QED BY <2>1, <2>2 DEF Continues
<1>11. Agrees(iter, f, P)
  BY <1>3, <1>5, <1>7, <1>10, FoldAgrees
<1>12. iter[P] = f[P]
  <2>1. P \in SUBSET P
    OBVIOUS
  <2> QED BY <1>11, <2>1 DEF Agrees
<1>13. PICK c : Carries(c, n, Machines, m, step) /\ c[n] = f[1 .. n]
  <2>1. P = 1 .. n
    BY DEF P
  <2>2. step \in [1 .. n -> [Machines -> Machines]] /\ f \in [SUBSET (1 .. n) -> Machines]
    BY <1>5, <1>7, <2>1
  <2>3. Folded(f, 1 .. n, m, step, pick)
    BY <1>7, <2>1
  <2>4. n \in Nat /\ LastPicks(n, pick)
    BY <1>1, <1>3
  <2> HIDE DEF pick, step
  <2> QED BY <2>2, <2>3, <2>4, FoldCarries
<1>14. Traces(c, m, is)
  <2>1. c \in [0 .. n -> Machines] /\ c[0] = m /\ \A k \in 1 .. n : c[k] = step[k][c[k - 1]]
    BY <1>13 DEF Carries
  <2>2. \A k \in 1 .. n : k \in P /\ k - 1 \in 0 .. n
    BY <1>1 DEF P
  <2>3. \A k \in 1 .. n : c[k] = Exec(c[k - 1], is[k])
    BY <1>6, <2>1, <2>2
  <2> QED BY <2>1, <2>3 DEF n, Traces
<1>15. c[Len(is)] = Ran(m, is)
  BY <1>2, <1>12, <1>13 DEF n, P
<1> QED BY <1>14, <1>15

LEMMA TracesOnce ==
  ASSUME NEW m \in Machines, NEW is, Good(is), NEW c, Traces(c, m, is)
  PROVE  c[Len(is)] = Ran(m, is) /\ Ran(m, is) \in Machines
<1>1. PICK d : Traces(d, m, is) /\ d[Len(is)] = Ran(m, is)
  BY RanTraces
<1> DEFINE n == Len(is)
           P == {k \in 0 .. n : c[k] = d[k]}
<1>2. n \in Nat
  BY GoodIs
<1>3. /\ c \in [0 .. n -> Machines] /\ d \in [0 .. n -> Machines] /\ c[0] = d[0]
      /\ \A k \in 1 .. n : c[k] = Exec(c[k - 1], is[k]) /\ d[k] = Exec(d[k - 1], is[k])
  BY <1>1 DEF Traces
<1> HIDE DEF n
<1>4. 0 \in P /\ P \subseteq 0 .. n
  BY <1>2, <1>3
<1>5. ASSUME NEW k \in 0 .. n - 1, k \in P PROVE k + 1 \in P
  <2> DEFINE j == k + 1
  <2>1. j \in 1 .. n /\ j \in 0 .. n /\ j - 1 = k
    BY <1>2
  <2>2. c[k] = d[k]
    BY <1>5
  <2> HIDE DEF j
  <2>3. c[j] = Exec(c[j - 1], is[j]) /\ d[j] = Exec(d[j - 1], is[j])
    BY <1>3, <2>1
  <2>4. c[j] = d[j]
    BY <2>1, <2>2, <2>3
  <2> QED BY <2>1, <2>4 DEF j
<1>6. \A k \in 0 .. n : k \in P
  <2> HIDE DEF P
  <2> QED BY <1>2, <1>4, <1>5, Ascends
<1>7. n \in 0 .. n
  BY <1>2
<1>8. c[n] = d[n] /\ d[n] \in Machines
  BY <1>3, <1>6, <1>7
<1> QED BY <1>1, <1>8 DEF n

LEMMA RanOne ==
  ASSUME NEW m \in Machines, NEW i, Works(i)
  PROVE  Good(<<i>>) /\ Ran(m, <<i>>) = Exec(m, i) /\ Exec(m, i) \in Machines
<1>1. <<i>> \in Seq({i}) /\ Len(<<i>>) = 1 /\ <<i>>[1] = i
  OBVIOUS
<1>2. Good(<<i>>)
  <2> DEFINE is == <<i>>
             I == {i}
  <2>1. is \in Seq(I) /\ \A j \in I : Works(j)
    BY <1>1
  <2> HIDE DEF is, I
  <2>2. Good(is)
    BY <2>1 DEF Good
  <2> QED BY <2>2 DEF is
<1> DEFINE c == [k \in 0 .. 1 |-> IF k = 0 THEN m ELSE Exec(m, i)]
<1>3. Exec(m, i) \in Machines
  BY DEF Works
<1>4. c \in [0 .. 1 -> Machines] /\ c[0] = m /\ c[1] = Exec(m, i)
  BY <1>3
<1> HIDE DEF c
<1>5. Traces(c, m, <<i>>)
  <2>1. \A k \in 1 .. 1 : k = 1 /\ k - 1 = 0
    OBVIOUS
  <2> QED BY <1>1, <1>4, <2>1 DEF Traces
<1>6. c[Len(<<i>>)] = Ran(m, <<i>>)
  BY <1>2, <1>5, TracesOnce
<1> QED BY <1>1, <1>2, <1>3, <1>4, <1>6

LEMMA RanNone ==
  ASSUME NEW m \in Machines
  PROVE  Good(<<>>) /\ Ran(m, <<>>) = m
<1>1. <<>> \in Seq({}) /\ Len(<<>>) = 0
  OBVIOUS
<1>2. Good(<<>>)
  <2> DEFINE is == <<>>
             I == {}
  <2>1. is \in Seq(I) /\ \A j \in I : Works(j)
    BY <1>1
  <2> HIDE DEF is, I
  <2>2. Good(is)
    BY <2>1 DEF Good
  <2> QED BY <2>2 DEF is
<1> DEFINE c == [k \in 0 .. 0 |-> m]
<1>3. c \in [0 .. 0 -> Machines] /\ c[0] = m
  OBVIOUS
<1> HIDE DEF c
<1>4. Traces(c, m, <<>>)
  <2>1. 1 .. 0 = {}
    OBVIOUS
  <2> QED BY <1>1, <1>3, <2>1 DEF Traces
<1>5. c[Len(<<>>)] = Ran(m, <<>>)
  BY <1>2, <1>4, TracesOnce
<1> QED BY <1>1, <1>2, <1>3, <1>5

LEMMA RanConcat ==
  ASSUME NEW m \in Machines, NEW s, Good(s), NEW t, Good(t)
  PROVE  Good(s \o t) /\ Ran(m, s) \in Machines /\ Ran(m, s \o t) = Ran(Ran(m, s), t)
<1>1. PICK I : s \in Seq(I) /\ \A i \in I : Works(i)
  BY DEF Good
<1>2. PICK J : t \in Seq(J) /\ \A i \in J : Works(i)
  BY DEF Good
<1> DEFINE K == I \cup J
           a == Len(s)
           b == Len(t)
           u == s \o t
<1>3. s \in Seq(K) /\ t \in Seq(K) /\ \A i \in K : Works(i)
  <2>1. I \subseteq K /\ J \subseteq K
    OBVIOUS
  <2>2. Seq(I) \subseteq Seq(K) /\ Seq(J) \subseteq Seq(K)
    <3> HIDE DEF K
    <3> QED BY <2>1, SeqMonotonic
  <2> QED BY <1>1, <1>2, <2>2
<1> HIDE DEF K
<1>4. /\ u \in Seq(K) /\ Len(u) = a + b /\ a \in Nat /\ b \in Nat
      /\ \A k \in 1 .. a + b : u[k] = IF k <= a THEN s[k] ELSE t[k - a]
  BY <1>3, ConcatProperties, LenProperties
<1>5. Good(u)
  BY <1>3, <1>4 DEF Good
<1>6. PICK c : Traces(c, m, u) /\ c[Len(u)] = Ran(m, u)
  BY <1>5, RanTraces
<1> HIDE DEF a, b, u
<1>7. /\ c \in [0 .. a + b -> Machines] /\ c[0] = m
      /\ \A k \in 1 .. a + b : c[k] = Exec(c[k - 1], u[k])
  BY <1>4, <1>6 DEF Traces
<1> DEFINE d == [k \in 0 .. a |-> c[k]]
           e == [k \in 0 .. b |-> c[a + k]]
<1>8. Traces(d, m, s)
  <2>1. \A k \in 0 .. a : k \in 0 .. a + b
    BY <1>4
  <2>2. d \in [0 .. a -> Machines] /\ d[0] = m
    BY <1>4, <1>7, <2>1
  <2>3. ASSUME NEW k \in 1 .. a PROVE d[k] = Exec(d[k - 1], s[k])
    <3>1. k \in 1 .. a + b /\ k <= a /\ k \in 0 .. a /\ k - 1 \in 0 .. a
      BY <1>4
    <3>2. c[k] = Exec(c[k - 1], s[k])
      BY <1>4, <1>7, <3>1
    <3> QED BY <3>1, <3>2
  <2> HIDE DEF d
  <2> QED BY <2>2, <2>3 DEF Traces, a
<1>9. d[a] = Ran(m, s) /\ Ran(m, s) \in Machines
  <2> HIDE DEF d
  <2> QED BY <1>8, TracesOnce DEF a
<1>10. d[a] = c[a] /\ e[0] = c[a] /\ e[b] = c[a + b]
  <2>1. a \in 0 .. a /\ 0 \in 0 .. b /\ b \in 0 .. b /\ a + 0 = a
    BY <1>4
  <2> QED BY <2>1
<1>11. Traces(e, Ran(m, s), t)
  <2>1. \A k \in 0 .. b : a + k \in 0 .. a + b
    BY <1>4
  <2>2. e \in [0 .. b -> Machines]
    BY <1>7, <2>1
  <2>3. ASSUME NEW k \in 1 .. b PROVE e[k] = Exec(e[k - 1], t[k])
    <3> DEFINE j == a + k
    <3>1. j \in 1 .. a + b /\ ~(j <= a) /\ j - a = k /\ k \in 0 .. b /\ k - 1 \in 0 .. b /\ a + (k - 1) = j - 1
      BY <1>4
    <3>2. e[k] = c[j] /\ e[k - 1] = c[a + (k - 1)]
      BY <3>1
    <3> HIDE DEF j, e
    <3>3. c[j] = Exec(c[j - 1], t[k])
      BY <1>4, <1>7, <3>1
    <3> QED BY <3>1, <3>2, <3>3
  <2> HIDE DEF d, e
  <2> QED BY <1>9, <1>10, <2>2, <2>3 DEF Traces, b
<1>12. e[b] = Ran(Ran(m, s), t)
  <2> HIDE DEF d, e
  <2> QED BY <1>9, <1>11, TracesOnce DEF b
<1> HIDE DEF d, e
<1> QED BY <1>4, <1>5, <1>6, <1>9, <1>10, <1>12 DEF u

(* What a step of the processor is, instruction by instruction.            *)
Targets == Names \ {"X0"}
Written(m, n, reg, v) == [pc |-> m.pc + n, r |-> [m.r EXCEPT ![reg] = AsCell(v)]]
Gone(m, t) == [m EXCEPT !.pc = AsCell(t)]
Past(m, n) == [m EXCEPT !.pc = m.pc + n]
Leaves(m, n, reg, v, z) ==
  /\ z \in Machines /\ z.pc = m.pc + n /\ z.r[reg] = AsCell(v)
  /\ \A x \in Names \ {reg} : z.r[x] = m.r[x]

LEMMA ExecLUI ==
  ASSUME NEW m \in Machines, NEW reg \in Targets, NEW u
  PROVE  Exec(m, <<"LUI", reg, u>>) = Written(m, 4, reg, Int32(u * 2 ^ Low))
<1> DEFINE i == <<"LUI", reg, u>>
<1>1. i[1] = "LUI" /\ i[2] = reg /\ i[3] = u
  OBVIOUS
<1>2. DOMAIN m.r = Names
  BY DEF Machines
<1> HIDE DEF i
<1>3. Exec(m, i) = Written(m, 4, reg, Int32(u * 2 ^ Low))
  BY <1>1, <1>2 DEF Exec, Bytes, Written, Targets
<1> QED BY <1>3 DEF i

LEMMA ExecAUIPC ==
  ASSUME NEW m \in Machines, NEW reg \in Targets, NEW u
  PROVE  Exec(m, <<"AUIPC", reg, u>>) = Written(m, 4, reg, m.pc + Int32(u * 2 ^ Low))
<1> DEFINE i == <<"AUIPC", reg, u>>
<1>1. i[1] = "AUIPC" /\ i[2] = reg /\ i[3] = u
  OBVIOUS
<1>2. DOMAIN m.r = Names
  BY DEF Machines
<1> HIDE DEF i
<1>3. Exec(m, i) = Written(m, 4, reg, m.pc + Int32(u * 2 ^ Low))
  BY <1>1, <1>2 DEF Exec, Bytes, Written, Targets
<1> QED BY <1>3 DEF i

LEMMA ExecADDIW ==
  ASSUME NEW m \in Machines, NEW reg \in Targets, NEW a, NEW u
  PROVE  Exec(m, <<"ADDIW", reg, a, u>>) = Written(m, 4, reg, Int32(m.r[a] + Sext(u, Low)))
<1> DEFINE i == <<"ADDIW", reg, a, u>>
<1>1. i[1] = "ADDIW" /\ i[2] = reg /\ i[3] = a /\ i[4] = u
  OBVIOUS
<1>2. DOMAIN m.r = Names
  BY DEF Machines
<1> HIDE DEF i
<1>3. Exec(m, i) = Written(m, 4, reg, Int32(m.r[a] + Sext(u, Low)))
  BY <1>1, <1>2 DEF Exec, Bytes, Written, Targets
<1> QED BY <1>3 DEF i

LEMMA ExecADDI ==
  ASSUME NEW m \in Machines, NEW reg \in Targets, NEW a, NEW u
  PROVE  Exec(m, <<"ADDI", reg, a, u>>) = Written(m, 4, reg, m.r[a] + Sext(u, Low))
<1> DEFINE i == <<"ADDI", reg, a, u>>
<1>1. i[1] = "ADDI" /\ i[2] = reg /\ i[3] = a /\ i[4] = u
  OBVIOUS
<1>2. DOMAIN m.r = Names
  BY DEF Machines
<1> HIDE DEF i
<1>3. Exec(m, i) = Written(m, 4, reg, m.r[a] + Sext(u, Low))
  BY <1>1, <1>2 DEF Exec, Bytes, Written, Targets
<1> QED BY <1>3 DEF i

LEMMA ExecLD ==
  ASSUME NEW m \in Machines, NEW reg \in Targets, NEW a, NEW u
  PROVE  Exec(m, <<"LD", reg, a, u>>) = Written(m, 4, reg, Memory(m.r[a] + Sext(u, Low)))
<1> DEFINE i == <<"LD", reg, a, u>>
<1>1. i[1] = "LD" /\ i[2] = reg /\ i[3] = a /\ i[4] = u
  OBVIOUS
<1>2. DOMAIN m.r = Names
  BY DEF Machines
<1> HIDE DEF i
<1>3. Exec(m, i) = Written(m, 4, reg, Memory(m.r[a] + Sext(u, Low)))
  BY <1>1, <1>2 DEF Exec, Bytes, Written, Targets
<1> QED BY <1>3 DEF i

LEMMA ExecSLL ==
  ASSUME NEW m \in Machines, NEW reg \in Targets, NEW a, NEW b
  PROVE  Exec(m, <<"SLL", reg, a, b>>) = Written(m, 4, reg, m.r[a] * 2 ^ m.r[b])
<1> DEFINE i == <<"SLL", reg, a, b>>
<1>1. i[1] = "SLL" /\ i[2] = reg /\ i[3] = a /\ i[4] = b
  OBVIOUS
<1>2. DOMAIN m.r = Names
  BY DEF Machines
<1> HIDE DEF i
<1>3. Exec(m, i) = Written(m, 4, reg, m.r[a] * 2 ^ m.r[b])
  BY <1>1, <1>2 DEF Exec, Bytes, Written, Targets
<1> QED BY <1>3 DEF i

LEMMA ExecSRL ==
  ASSUME NEW m \in Machines, NEW reg \in Targets, NEW a, NEW b
  PROVE  Exec(m, <<"SRL", reg, a, b>>) = Written(m, 4, reg, m.r[a] \div 2 ^ m.r[b])
<1> DEFINE i == <<"SRL", reg, a, b>>
<1>1. i[1] = "SRL" /\ i[2] = reg /\ i[3] = a /\ i[4] = b
  OBVIOUS
<1>2. DOMAIN m.r = Names
  BY DEF Machines
<1> HIDE DEF i
<1>3. Exec(m, i) = Written(m, 4, reg, m.r[a] \div 2 ^ m.r[b])
  BY <1>1, <1>2 DEF Exec, Bytes, Written, Targets
<1> QED BY <1>3 DEF i

LEMMA ExecOR ==
  ASSUME NEW m \in Machines, NEW reg \in Targets, NEW a, NEW b
  PROVE  Exec(m, <<"OR", reg, a, b>>) = Written(m, 4, reg, BitOr(m.r[a], m.r[b]))
<1> DEFINE i == <<"OR", reg, a, b>>
<1>1. i[1] = "OR" /\ i[2] = reg /\ i[3] = a /\ i[4] = b
  OBVIOUS
<1>2. DOMAIN m.r = Names
  BY DEF Machines
<1> HIDE DEF i
<1>3. Exec(m, i) = Written(m, 4, reg, BitOr(m.r[a], m.r[b]))
  BY <1>1, <1>2 DEF Exec, Bytes, Written, Targets
<1> QED BY <1>3 DEF i

LEMMA ExecMOV64 ==
  ASSUME NEW m \in Machines, NEW reg \in Targets, NEW u
  PROVE  Exec(m, <<"MOV64", reg, u>>) = Written(m, 10, reg, u)
<1> DEFINE i == <<"MOV64", reg, u>>
<1>1. i[1] = "MOV64" /\ i[2] = reg /\ i[3] = u
  OBVIOUS
<1>2. DOMAIN m.r = Names
  BY DEF Machines
<1> HIDE DEF i
<1>3. Exec(m, i) = Written(m, 10, reg, u)
  BY <1>1, <1>2 DEF Exec, Bytes, Written, Targets
<1> QED BY <1>3 DEF i

LEMMA ExecLEA ==
  ASSUME NEW m \in Machines, NEW reg \in Targets, NEW u
  PROVE  Exec(m, <<"LEA", reg, u>>) = Written(m, 7, reg, (m.pc + 7) + Int32(u))
<1> DEFINE i == <<"LEA", reg, u>>
<1>1. i[1] = "LEA" /\ i[2] = reg /\ i[3] = u
  OBVIOUS
<1>2. DOMAIN m.r = Names
  BY DEF Machines
<1> HIDE DEF i
<1>3. Exec(m, i) = Written(m, 7, reg, (m.pc + 7) + Int32(u))
  BY <1>1, <1>2 DEF Exec, Bytes, Written, Targets
<1> QED BY <1>3 DEF i

LEMMA ExecTAKE ==
  ASSUME NEW m \in Machines, NEW reg \in Targets, NEW u
  PROVE  Exec(m, <<"TAKE", reg, u>>) = Written(m, 7, reg, Memory((m.pc + 7) + Int32(u)))
<1> DEFINE i == <<"TAKE", reg, u>>
<1>1. i[1] = "TAKE" /\ i[2] = reg /\ i[3] = u
  OBVIOUS
<1>2. DOMAIN m.r = Names
  BY DEF Machines
<1> HIDE DEF i
<1>3. Exec(m, i) = Written(m, 7, reg, Memory((m.pc + 7) + Int32(u)))
  BY <1>1, <1>2 DEF Exec, Bytes, Written, Targets
<1> QED BY <1>3 DEF i

LEMMA ExecJALR ==
  ASSUME NEW m \in Machines, NEW reg, NEW a, NEW u
  PROVE  Exec(m, <<"JALR", reg, a, u>>) = Gone(m, m.r[a] + Sext(u, Low))
<1> DEFINE i == <<"JALR", reg, a, u>>
<1>1. i[1] = "JALR" /\ i[2] = reg /\ i[3] = a /\ i[4] = u
  OBVIOUS
<1> HIDE DEF i
<1>2. Exec(m, i) = Gone(m, m.r[a] + Sext(u, Low))
  BY <1>1 DEF Exec, Bytes, Gone, Past
<1> QED BY <1>2 DEF i

LEMMA ExecJAL ==
  ASSUME NEW m \in Machines, NEW reg, NEW u
  PROVE  Exec(m, <<"JAL", reg, u>>) = Gone(m, m.pc + Sext(u, Jump + 1))
<1> DEFINE i == <<"JAL", reg, u>>
<1>1. i[1] = "JAL" /\ i[2] = reg /\ i[3] = u
  OBVIOUS
<1> HIDE DEF i
<1>2. Exec(m, i) = Gone(m, m.pc + Sext(u, Jump + 1))
  BY <1>1 DEF Exec, Bytes, Gone, Past
<1> QED BY <1>2 DEF i

LEMMA ExecCALL ==
  ASSUME NEW m \in Machines, NEW u
  PROVE  Exec(m, <<"CALL", u>>) = Gone(m, (m.pc + 5) + Int32(u))
<1> DEFINE i == <<"CALL", u>>
<1>1. i[1] = "CALL" /\ i[2] = u
  OBVIOUS
<1> HIDE DEF i
<1>2. Exec(m, i) = Gone(m, (m.pc + 5) + Int32(u))
  BY <1>1 DEF Exec, Bytes, Gone, Past
<1> QED BY <1>2 DEF i

LEMMA ExecJMP ==
  ASSUME NEW m \in Machines, NEW a
  PROVE  Exec(m, <<"JMP", a>>) = Gone(m, m.r[a])
<1> DEFINE i == <<"JMP", a>>
<1>1. i[1] = "JMP" /\ i[2] = a
  OBVIOUS
<1> HIDE DEF i
<1>2. Exec(m, i) = Gone(m, m.r[a])
  BY <1>1 DEF Exec, Bytes, Gone, Past
<1> QED BY <1>2 DEF i

LEMMA ExecSX ==
  ASSUME NEW m \in Machines, NEW a, NEW u
  PROVE  Exec(m, <<"SX", a, u>>) = Past(m, 4)
<1> DEFINE i == <<"SX", a, u>>
<1>1. i[1] = "SX" /\ i[2] = a /\ i[3] = u
  OBVIOUS
<1> HIDE DEF i
<1>2. Exec(m, i) = Past(m, 4)
  BY <1>1 DEF Exec, Bytes, Gone, Past
<1> QED BY <1>2 DEF i

LEMMA ExecMOV ==
  ASSUME NEW m \in Machines, NEW a, NEW u
  PROVE  Exec(m, <<"MOV", a, u>>) = Past(m, 3)
<1> DEFINE i == <<"MOV", a, u>>
<1>1. i[1] = "MOV" /\ i[2] = a /\ i[3] = u
  OBVIOUS
<1> HIDE DEF i
<1>2. Exec(m, i) = Past(m, 3)
  BY <1>1 DEF Exec, Bytes, Gone, Past
<1> QED BY <1>2 DEF i

LEMMA ExecADD ==
  ASSUME NEW m \in Machines, NEW a, NEW u
  PROVE  Exec(m, <<"ADD", a, u>>) = Past(m, 4)
<1> DEFINE i == <<"ADD", a, u>>
<1>1. i[1] = "ADD" /\ i[2] = a /\ i[3] = u
  OBVIOUS
<1> HIDE DEF i
<1>2. Exec(m, i) = Past(m, 4)
  BY <1>1 DEF Exec, Bytes, Gone, Past
<1> QED BY <1>2 DEF i

LEMMA ExecS0 ==
  ASSUME NEW m \in Machines
  PROVE  Exec(m, <<"ADDI", "S0", "S0", 1>>) = Past(m, 4)
<1> DEFINE i == <<"ADDI", "S0", "S0", 1>>
<1>1. i[1] = "ADDI" /\ i[2] = "S0"
  OBVIOUS
<1>2. DOMAIN m.r = Names /\ "S0" \notin Names
  BY DEF Machines, Names
<1> HIDE DEF i
<1>3. Exec(m, i) = Past(m, 4)
  BY <1>1, <1>2 DEF Exec, Bytes, Past
<1> QED BY <1>3 DEF i

LEMMA WrittenIs ==
  ASSUME NEW m \in Machines, NEW n \in Int, NEW reg \in Targets, NEW v \in Int
  PROVE  Leaves(m, n, reg, v, Written(m, n, reg, v))
<1>1. m.pc \in Int /\ m.r \in [Names -> Values] /\ m.r["X0"] = 0
  BY DEF Machines
<1>2. AsCell(v) \in Values /\ reg \in Names /\ reg # "X0" /\ "X0" \in Names
  BY CellIs DEF Values, Targets, Names
<1> QED BY <1>1, <1>2 DEF Written, Leaves, Machines

LEMMA GoneIs ==
  ASSUME NEW m \in Machines, NEW t \in Int
  PROVE  Gone(m, t) \in Machines /\ Gone(m, t).pc = AsCell(t) /\ Gone(m, t).r = m.r
<1>1. AsCell(t) \in Int
  BY CellIs
<1> QED BY <1>1 DEF Gone, Machines

LEMMA PastIs ==
  ASSUME NEW m \in Machines, NEW n \in Int
  PROVE  Past(m, n) \in Machines /\ Past(m, n).r = m.r
BY DEF Past, Machines


-----------------------------------------------------------------------------
(* Shifts by Half and the union of two halves of a cell.                   *)
LEMMA HalfCell ==
  /\ 2 ^ Half \in Nat \ {0} /\ CellMod = 2 ^ Half * 2 ^ Half /\ CellMod \in Nat \ {0}
  /\ Half \in Nat \ {0} /\ 2 * Half \in Nat /\ 2 ^ (2 * Half) = CellMod /\ 2 ^ Half <= CellMod
<1>1. PICK l, q, b : Sizes(l, q, b)
  BY Widths
<1>2. 2 ^ Half = 2 * b /\ b \in Nat \ {0} /\ CellMod = (2 * b) * (2 * b) /\ Half \in Nat \ {0}
  BY <1>1 DEF Sizes
<1> DEFINE w == 2 ^ Half
<1>3. w \in Nat \ {0} /\ CellMod = w * w
  BY <1>2
<1> HIDE DEF w
<1>4. w * 1 <= w * w /\ w * w \in Nat \ {0}
  BY <1>3, Monotonic
<1> QED BY <1>2, <1>3, <1>4 DEF w, CellMod

(* A half in the upper half of a cell. *)
LEMMA Raised ==
  ASSUME NEW v \in 0 .. 2 ^ Half - 1, NEW a \in 0 .. 2 ^ Half - 1
  PROVE  v * 2 ^ Half \in Values /\ v * 2 ^ Half + a \in Values
<1> DEFINE w == 2 ^ Half
<1>1. w \in Nat \ {0} /\ CellMod = w * w /\ v \in 0 .. w - 1 /\ a \in 0 .. w - 1
  BY HalfCell
<1> HIDE DEF w
<1>2. w * v <= w * (w - 1)
  BY <1>1, Monotonic
<1>3. w * (w - 1) = w * w - w /\ w * v = v * w /\ v * w \in Nat
  BY <1>1
<1> QED BY <1>1, <1>2, <1>3 DEF Values, w

LEMMA ShiftedUp ==
  ASSUME NEW c \in Int, NEW v \in 0 .. 2 ^ Half - 1, NEW j \in Int, c = v + 2 ^ Half * j
  PROVE  AsCell(c * 2 ^ Half) = v * 2 ^ Half /\ (v * 2 ^ Half) \div 2 ^ Half = v
<1> DEFINE w == 2 ^ Half
           x == v * w
           y == c * w
<1>1. w \in Nat \ {0} /\ CellMod = w * w /\ v \in 0 .. w - 1 /\ c = v + w * j /\ v \in Int
  BY HalfCell
<1>2. x \in Values
  <2>1. 0 \in 0 .. 2 ^ Half - 1
    BY HalfCell
  <2> QED BY <2>1, Raised
<1> HIDE DEF w
<1>3. y = x + (w * w) * j /\ x \in Int /\ y \in Int
  <2>1. (v + w * j) * w = v * w + (w * w) * j
    BY <1>1
  <2> QED BY <1>1, <2>1
<1>4. x = w * v + 0
  BY <1>1
<1>5. y = x + CellMod * j
  BY <1>1, <1>3
<1> HIDE DEF x, y
<1>6. AsCell(y) = AsCell(x) /\ AsCell(x) = x
  BY <1>2, <1>3, <1>5, SameCell, CellIs DEF Values
<1>7. x \div w = v
  <2>1. 0 \in 0 .. w - 1
    BY <1>1
  <2> QED BY <1>1, <1>3, <1>4, <2>1, Unique
<1> QED BY <1>6, <1>7 DEF x, y, w

LEMMA BitEven ==
  ASSUME NEW q \in Int, NEW e \in Int, NEW t \in Int, t = q + 2 * e
  PROVE  t % 2 = q % 2
<1>1. 2 \in Nat \ {0}
  OBVIOUS
<1> QED BY <1>1, SameRemainder

LEMMA BitsBelow ==
  ASSUME NEW h \in Nat, NEW a \in Nat, NEW k \in Nat, k < Half
  PROVE  /\ Slice(h * 2 ^ Half + a, k, 1) = Slice(a, k, 1)
         /\ Slice(h * 2 ^ Half, k, 1) = 0
<1> DEFINE p == 2 ^ k
           d == Half - k
           e == 2 ^ (d - 1)
           q == a \div p
           r == a % p
           w == 2 ^ Half
<1>1. Half \in Nat /\ d \in Nat \ {0} /\ k + d = Half
  BY HalfCell
<1> HIDE DEF d
<1>2. 2 ^ d = 2 * e /\ e \in Nat \ {0}
  BY <1>1, Halves
<1>3. 2 ^ (k + d) = 2 ^ k * 2 ^ d
  BY <1>1, AddsUp
<1>4. p \in Nat \ {0}
  BY Counted
<1>5. w = p * (2 * e)
  BY <1>1, <1>2, <1>3
<1> HIDE DEF p, e, w
<1>6. q \in Int /\ r \in 0 .. p - 1 /\ a = p * q + r
  BY <1>4, Euclid
<1> HIDE DEF q, r
<1> DEFINE t == q + 2 * (h * e)
           z == 2 * (h * e)
           v == h * w + a
           u == h * w
<1>7. /\ t \in Int /\ z \in Int /\ v \in Int /\ u \in Int /\ h * e \in Int
      /\ v = p * t + r /\ u = p * z + 0 /\ 0 \in 0 .. p - 1
  <2>1. h * e \in Int /\ p * q \in Int /\ h * w \in Int
    BY <1>2, <1>4, <1>5, <1>6
  <2>2. p * (2 * (h * e)) = h * w
    <3>1. p * (2 * (h * e)) = h * (p * (2 * e))
      BY <1>2, <1>4
    <3> QED BY <1>5, <3>1
  <2>3. p * (q + 2 * (h * e)) = p * q + p * (2 * (h * e))
    BY <1>2, <1>4, <1>6
  <2> QED BY <1>4, <1>6, <2>1, <2>2, <2>3
<1>8. v \div p = t /\ u \div p = z
  <2> HIDE DEF t, z, v, u
  <2> QED BY <1>4, <1>6, <1>7, Unique
<1>9. t % 2 = q % 2 /\ z % 2 = 0
  <2>1. t % 2 = q % 2
    BY <1>6, <1>7, BitEven
  <2>2. z % 2 = 0 % 2
    <3>1. z = 0 + 2 * (h * e) /\ 0 \in Int
      BY <1>7
    <3> HIDE DEF z
    <3> QED BY <1>7, <3>1, BitEven
  <2>3. 0 % 2 = 0
    OBVIOUS
  <2> QED BY <2>1, <2>2, <2>3
<1>10. Slice(v, k, 1) = t % 2 /\ Slice(a, k, 1) = q % 2 /\ Slice(u, k, 1) = z % 2
  <2> HIDE DEF t, z, v, u
  <2> QED BY <1>8, Unit DEF Slice, p, q
<1> QED BY <1>9, <1>10 DEF w

LEMMA BitsAbove ==
  ASSUME NEW h \in Nat, NEW a \in 0 .. 2 ^ Half - 1, NEW k \in Nat, Half <= k
  PROVE  /\ Slice(h * 2 ^ Half + a, k, 1) = Slice(h * 2 ^ Half, k, 1)
         /\ Slice(a, k, 1) = 0
<1> DEFINE w == 2 ^ Half
           j == k - Half
           g == 2 ^ j
           p == 2 ^ k
           q == h \div g
           r == h % g
<1>1. Half \in Nat /\ j \in Nat /\ Half + j = k
  BY HalfCell
<1> HIDE DEF j
<1>2. 2 ^ (Half + j) = 2 ^ Half * 2 ^ j
  BY <1>1, AddsUp
<1>3. g \in Nat \ {0} /\ w \in Nat \ {0} /\ a \in 0 .. w - 1 /\ p \in Nat \ {0}
  BY <1>1, Counted
<1>4. p = w * g
  BY <1>1, <1>2
<1> HIDE DEF w, g, p
<1>5. q \in Int /\ r \in 0 .. g - 1 /\ h = g * q + r
  BY <1>3, Euclid
<1> HIDE DEF q, r
<1> DEFINE s == w * r
           v == h * w + a
           u == h * w
<1>6. s \in Nat /\ s + a < p /\ a < p
  <2>1. w * r <= w * (g - 1) /\ w * r \in Nat
    BY <1>3, <1>5, Monotonic
  <2>2. w * (g - 1) = w * g - w /\ w * g \in Int
    BY <1>3
  <2>3. w * r + a < p
    BY <1>3, <1>4, <2>1, <2>2
  <2> QED BY <1>3, <2>1, <2>3
<1>7. v = p * q + (s + a) /\ u = p * q + s /\ v \in Int /\ u \in Int
  <2>1. (g * q + r) * w = (w * g) * q + w * r
    BY <1>3, <1>5
  <2>2. h * w \in Int /\ p * q \in Int
    BY <1>3, <1>5
  <2>3. h * w = p * q + w * r
    BY <1>4, <1>5, <2>1
  <2> QED BY <1>3, <1>6, <2>2, <2>3
<1> HIDE DEF s, v, u
<1>8. v \div p = q /\ u \div p = q /\ a \div p = 0
  <2> DEFINE z == s + a
  <2>1. z \in 0 .. p - 1 /\ s \in 0 .. p - 1 /\ a \in 0 .. p - 1 /\ v = p * q + z
    BY <1>3, <1>6, <1>7
  <2> HIDE DEF z
  <2> QED BY <1>3, <1>5, <1>7, <2>1, Unique, Remains
<1>9. 0 % 2 = 0
  OBVIOUS
<1>10. Slice(v, k, 1) = Slice(u, k, 1) /\ Slice(a, k, 1) = 0
  BY <1>8, <1>9, Unit DEF Slice, p
<1> QED BY <1>10 DEF v, u, w

LEMMA BitOrIs ==
  ASSUME NEW h \in 0 .. 2 ^ Half - 1, NEW a \in 0 .. 2 ^ Half - 1
  PROVE  BitOr(a, h * 2 ^ Half) = h * 2 ^ Half + a
<1> DEFINE u == h * 2 ^ Half
           v == h * 2 ^ Half + a
           n == 2 * Half
           word == {k \in 0 .. n - 1 : Slice(a, k, 1) = 1 \/ Slice(u, k, 1) = 1}
<1>1. v \in Values /\ n \in Nat /\ 2 ^ n = CellMod /\ CellMod \in Nat \ {0} /\ h \in Nat /\ a \in Nat
  BY Raised, HalfCell
<1>2. ASSUME NEW k \in 0 .. n - 1 PROVE (Slice(a, k, 1) = 1 \/ Slice(u, k, 1) = 1) <=> Slice(v, k, 1) = 1
  <2>1. k \in Nat /\ Half \in Nat
    BY <1>1, HalfCell
  <2>2. CASE k < Half
    <3>1. Slice(v, k, 1) = Slice(a, k, 1) /\ Slice(u, k, 1) = 0
      BY <1>1, <2>1, <2>2, BitsBelow
    <3> HIDE DEF u, v
    <3> QED BY <3>1
  <2>3. CASE Half <= k
    <3>1. Slice(v, k, 1) = Slice(u, k, 1) /\ Slice(a, k, 1) = 0
      BY <1>1, <2>1, <2>3, BitsAbove
    <3> HIDE DEF u, v
    <3> QED BY <3>1
  <2> QED BY <2>1, <2>2, <2>3
<1> HIDE DEF u, v, n
<1>3. Holds(word, 0, n, v)
  <2> SUFFICES ASSUME NEW k \in 0 .. n - 1 PROVE 0 + k \in word <=> Slice(v, k, 1) = 1
    BY DEF Holds
  <2>1. 0 + k = k
    BY <1>1
  <2> QED BY <1>2, <2>1
<1> HIDE DEF word
<1>4. 0 \in Nat /\ v \in Int
  BY <1>1 DEF Values
<1>5. Bits(word, 0, n) = v % 2 ^ n
  BY <1>1, <1>3, <1>4, BitsAre
<1>6. v % CellMod = v
  BY <1>1, Remains DEF Values
<1>7. BitOr(a, u) = Bits(word, 0, n)
  BY DEF BitOr, word, n
<1> QED BY <1>1, <1>5, <1>6, <1>7 DEF u, v

-----------------------------------------------------------------------------
(* A number of Half bits from its two immediates.                          *)
LEMMA Int32Is ==
  ASSUME NEW v \in Int
  PROVE  /\ Int32(v) \in Int /\ -(2 ^ (Half - 1)) <= Int32(v) /\ Int32(v) < 2 ^ (Half - 1)
         /\ \E j \in Int : v = Int32(v) + 2 ^ Half * j
BY HalfCell, SextIs DEF Int32

LEMMA Int32Only ==
  ASSUME NEW v \in Int, NEW u \in Int, NEW j \in Int, v = u + 2 ^ Half * j,
         -(2 ^ (Half - 1)) <= u, u < 2 ^ (Half - 1)
  PROVE  Int32(v) = u
BY HalfCell, SextOnly DEF Int32

Wide(y) == y \in Int /\ -(2 ^ (Half - 1)) <= y /\ y < 2 ^ (Half - 1)

LEMMA Recombined ==
  ASSUME NEW y, Wide(y)
  PROVE  /\ Upper(y) \in Int /\ Lower(y) \in Int /\ Upper(y) * 2 ^ Low \in Int
         /\ Sext(Lower(y), Low) = Lower(y)
         /\ Upper(y) = 0 => Int32(Lower(y)) = y
         /\ Lower(y) = 0 => Int32(Upper(y) * 2 ^ Low) = y
         /\ Int32(AsCell(Int32(Upper(y) * 2 ^ Low)) + Lower(y)) = y
<1>1. PICK l, q, b : Sizes(l, q, b)
  BY Widths
<1>2. /\ l \in Nat \ {0} /\ q \in Nat \ {0} /\ b \in Nat \ {0} /\ 2 ^ Low = 2 * l /\ 2 ^ (Low - 1) = l
      /\ 2 ^ Half = 2 * b /\ 2 ^ (Half - 1) = b /\ l < b /\ Half \in Nat \ {0} /\ Low \in Nat \ {0}
      /\ CellMod = 2 ^ Half * 2 ^ Half
  BY <1>1 DEF Sizes
<1>3. y \in Int /\ -b <= y /\ y < b
  BY <1>2 DEF Wide
<1> DEFINE lo == Lower(y)
           z == Upper(y) * 2 ^ Low
           w == 2 ^ Half
<1>4. lo \in Int /\ -l <= lo /\ lo < l /\ Upper(y) \in 0 .. 2 * q - 1 /\ \E j \in Int : z + lo = y + w * j
  BY <1>1, <1>3, Splits
<1>5. PICK j \in Int : z + lo = y + w * j
  BY <1>4
<1>6. z \in Int /\ w \in Nat \ {0} /\ Upper(y) \in Int
  <2>1. Upper(y) \in Int /\ 2 ^ Low \in Int
    BY <1>2, <1>4
  <2> QED BY <1>2, <2>1
<1>7. Sext(lo, Low) = lo
  BY <1>2, <1>4, SextKeeps
<1>8. ASSUME Upper(y) = 0 PROVE Int32(lo) = y
  <2>1. z = 0
    <3>1. 2 ^ Low \in Int
      BY <1>2
    <3> QED BY <1>8, <3>1
  <2> HIDE DEF lo, z, w
  <2>2. lo = y + w * j
    BY <1>4, <1>5, <2>1
  <2> QED BY <1>2, <1>3, <1>4, <2>2, Int32Only DEF w
<1>9. ASSUME lo = 0 PROVE Int32(z) = y
  <2> HIDE DEF lo, z, w
  <2>1. z = y + w * j
    BY <1>5, <1>6, <1>9
  <2> QED BY <1>2, <1>3, <1>6, <2>1, Int32Only DEF w
<1> HIDE DEF lo, z
<1>10. PICK i \in Int : Int32(z) \in Int /\ z = Int32(z) + w * i
  BY <1>6, Int32Is
<1> DEFINE x == Int32(z)
           c == AsCell(x)
<1>11. PICK k \in Int : c \in Int /\ x = c + CellMod * k
  <2>1. x \in Int
    BY <1>10
  <2> HIDE DEF x
  <2>2. c \in 0 .. CellMod - 1 /\ CellMod \in Nat /\ \E k \in Int : x = c + CellMod * k
    BY <2>1, CellIs
  <2> HIDE DEF c
  <2> QED BY <2>2
<1> HIDE DEF x, c, w
<1> DEFINE e == j - i - w * k
           s == c + lo
<1>12. s = y + w * e /\ s \in Int /\ e \in Int
  <2>1. w * (j - i - w * k) = w * j - w * i - (w * w) * k
    BY <1>5, <1>6, <1>10, <1>11
  <2>2. CellMod * k = (w * w) * k /\ (w * w) * k \in Int /\ w * i \in Int /\ w * j \in Int /\ w * k \in Int
    BY <1>2, <1>6, <1>10, <1>11 DEF w
  <2>3. z = (c + (w * w) * k) + w * i
    BY <1>10, <1>11, <2>2 DEF x
  <2>4. c + lo = y + (w * j - w * i - (w * w) * k)
    <3> DEFINE wwk == (w * w) * k
               wi == w * i
               wj == w * j
    <3>1. wwk \in Int /\ wi \in Int /\ wj \in Int /\ z = (c + wwk) + wi /\ z + lo = y + wj
      BY <1>5, <2>2, <2>3
    <3> HIDE DEF wwk, wi, wj
    <3>2. c + lo = y + (wj - wi - wwk)
      BY <1>3, <1>4, <1>11, <3>1
    <3> QED BY <3>2 DEF wwk, wi, wj
  <2> QED BY <1>4, <1>11, <2>1, <2>2, <2>4
<1>13. Int32(s) = y
  <2> HIDE DEF s, e
  <2> QED BY <1>2, <1>3, <1>12, Int32Only DEF w
<1> QED BY <1>4, <1>6, <1>7, <1>8, <1>9, <1>13 DEF lo, z, s, c, x

(* The registers but reg and T0 are left alone. *)
Kept(m, z, reg, c) ==
  /\ z \in Machines /\ z.r[reg] = c
  /\ \A x \in Names \ {reg, "T0"} : z.r[x] = m.r[x]

LEMMA RegisterIs ==
  ASSUME NEW m \in Machines, NEW x \in Names
  PROVE  m.r[x] \in Values /\ m.r[x] \in Int /\ m.pc \in Int /\ m.r["X0"] = 0
BY CellIs DEF Machines, Values

LEMMA WorkingLUI ==
  ASSUME NEW reg \in Targets, NEW u \in Int
  PROVE  Works(<<"LUI", reg, u>>)
<1> SUFFICES ASSUME NEW m \in Machines PROVE Exec(m, <<"LUI", reg, u>>) \in Machines
  BY DEF Works
<1> DEFINE v == Int32(u * 2 ^ Low)
<1>1. v \in Int /\ 4 \in Int
  <2>1. u * 2 ^ Low \in Int
    <3>1. Low \in Nat
      BY WidthAssumption
    <3>2. 2 ^ Low \in Int
      BY <3>1, Counted
    <3> QED BY <3>2
  <2> QED BY <2>1, Int32Is
<1> HIDE DEF v
<1>2. Leaves(m, 4, reg, v, Written(m, 4, reg, v))
  BY <1>1, WrittenIs
<1>3. Exec(m, <<"LUI", reg, u>>) = Written(m, 4, reg, v)
  BY ExecLUI DEF v
<1> QED BY <1>2, <1>3 DEF Leaves

LEMMA SextInt ==
  ASSUME NEW u \in Int
  PROVE  Sext(u, Low) \in Int
<1>1. Low \in Nat \ {0}
  BY WidthAssumption
<1> QED BY <1>1, SextIs

LEMMA WorkingADDIW ==
  ASSUME NEW reg \in Targets, NEW a \in Names, NEW u \in Int
  PROVE  Works(<<"ADDIW", reg, a, u>>)
<1> SUFFICES ASSUME NEW m \in Machines PROVE Exec(m, <<"ADDIW", reg, a, u>>) \in Machines
  BY DEF Works
<1> DEFINE v == Int32(m.r[a] + Sext(u, Low))
<1>1. v \in Int /\ 4 \in Int
  <2>1. m.r[a] + Sext(u, Low) \in Int
    BY RegisterIs, SextInt
  <2> QED BY <2>1, Int32Is
<1> HIDE DEF v
<1>2. Leaves(m, 4, reg, v, Written(m, 4, reg, v))
  BY <1>1, WrittenIs
<1>3. Exec(m, <<"ADDIW", reg, a, u>>) = Written(m, 4, reg, v)
  BY ExecADDIW DEF v
<1> QED BY <1>2, <1>3 DEF Leaves

LEMMA WorkingADDI ==
  ASSUME NEW reg \in Targets, NEW a \in Names, NEW u \in Int
  PROVE  Works(<<"ADDI", reg, a, u>>)
<1> SUFFICES ASSUME NEW m \in Machines PROVE Exec(m, <<"ADDI", reg, a, u>>) \in Machines
  BY DEF Works
<1> DEFINE v == m.r[a] + Sext(u, Low)
<1>1. v \in Int /\ 4 \in Int
  <2>1. m.r[a] + Sext(u, Low) \in Int
    BY RegisterIs, SextInt
  <2> QED BY <2>1
<1> HIDE DEF v
<1>2. Leaves(m, 4, reg, v, Written(m, 4, reg, v))
  BY <1>1, WrittenIs
<1>3. Exec(m, <<"ADDI", reg, a, u>>) = Written(m, 4, reg, v)
  BY ExecADDI DEF v
<1> QED BY <1>2, <1>3 DEF Leaves

LEMMA WorkingShifts ==
  ASSUME NEW reg \in Targets, NEW a \in Names, NEW b \in Names
  PROVE  Works(<<"SLL", reg, a, b>>) /\ Works(<<"SRL", reg, a, b>>) /\ Works(<<"OR", reg, a, b>>)
<1>1. ASSUME NEW m \in Machines PROVE Exec(m, <<"SLL", reg, a, b>>) \in Machines
  <2> DEFINE v == m.r[a] * 2 ^ m.r[b]
  <2>1. v \in Int /\ 4 \in Int
    <3>1. m.r[a] \in Int /\ m.r[b] \in Nat
      BY RegisterIs DEF Values
    <3>2. 2 ^ m.r[b] \in Int
      BY <3>1, Counted
    <3> QED BY <3>1, <3>2
  <2> HIDE DEF v
  <2>2. Leaves(m, 4, reg, v, Written(m, 4, reg, v))
    BY <2>1, WrittenIs
  <2>3. Exec(m, <<"SLL", reg, a, b>>) = Written(m, 4, reg, v)
    BY ExecSLL DEF v
  <2> QED BY <2>2, <2>3 DEF Leaves
<1>2. ASSUME NEW m \in Machines PROVE Exec(m, <<"SRL", reg, a, b>>) \in Machines
  <2> DEFINE v == m.r[a] \div 2 ^ m.r[b]
  <2>1. v \in Int /\ 4 \in Int
    <3>1. m.r[a] \in Int /\ m.r[b] \in Nat
      BY RegisterIs DEF Values
    <3>2. 2 ^ m.r[b] \in Nat \ {0}
      BY <3>1, Counted
    <3> DEFINE y == m.r[a]
               p == 2 ^ m.r[b]
    <3>3. y \in Int /\ p \in Nat \ {0}
      BY <3>1, <3>2
    <3> HIDE DEF y, p
    <3>4. y \div p \in Int
      BY <3>3, Euclid
    <3> QED BY <3>4 DEF y, p
  <2> HIDE DEF v
  <2>2. Leaves(m, 4, reg, v, Written(m, 4, reg, v))
    BY <2>1, WrittenIs
  <2>3. Exec(m, <<"SRL", reg, a, b>>) = Written(m, 4, reg, v)
    BY ExecSRL DEF v
  <2> QED BY <2>2, <2>3 DEF Leaves
<1>3. ASSUME NEW m \in Machines PROVE Exec(m, <<"OR", reg, a, b>>) \in Machines
  <2> DEFINE v == BitOr(m.r[a], m.r[b])
  <2>1. v \in Int /\ 4 \in Int
    <3>1. 0 \in Nat /\ 2 * Half \in Nat
      BY HalfCell
    <3> QED BY <3>1, BitsNat DEF BitOr
  <2> HIDE DEF v
  <2>2. Leaves(m, 4, reg, v, Written(m, 4, reg, v))
    BY <2>1, WrittenIs
  <2>3. Exec(m, <<"OR", reg, a, b>>) = Written(m, 4, reg, v)
    BY ExecOR DEF v
  <2> QED BY <2>2, <2>3 DEF Leaves
<1> QED BY <1>1, <1>2, <1>3 DEF Works

-----------------------------------------------------------------------------
(* StoreLow and c_store.                                                   *)
LEMMA ShiftCount ==
  ASSUME NEW m \in Machines
  PROVE  /\ Exec(m, <<"ADDI", "T0", "X0", Half>>) \in Machines
         /\ Exec(m, <<"ADDI", "T0", "X0", Half>>).r["T0"] = Half
         /\ \A x \in Names \ {"T0"} : Exec(m, <<"ADDI", "T0", "X0", Half>>).r[x] = m.r[x]
<1>1. PICK l, q, b : Sizes(l, q, b)
  BY Widths
<1>2. /\ l \in Nat \ {0} /\ 2 ^ (Low - 1) = l /\ Half \in Nat \ {0} /\ Low \in Nat \ {0} /\ Half < l
      /\ CellMod = (2 * b) * (2 * b) /\ l < b /\ b \in Nat \ {0} /\ 2 ^ Half = 2 * b
  BY <1>1 DEF Sizes
<1>3. Sext(Half, Low) = Half
  BY <1>2, SextKeeps
<1>4. AsCell(Half) = Half
  <2>1. Half \in 0 .. CellMod - 1
    <3>1. 2 ^ Half <= CellMod /\ CellMod \in Nat
      BY HalfCell
    <3> QED BY <1>2, <3>1
  <2> QED BY <2>1, CellIs
<1> DEFINE z == Exec(m, <<"ADDI", "T0", "X0", Half>>)
<1>5. "T0" \in Targets /\ "X0" \in Names /\ 4 \in Int /\ Half \in Int
  BY <1>2 DEF Targets, Names
<1>6. z = Written(m, 4, "T0", Half)
  <2>1. z = Written(m, 4, "T0", m.r["X0"] + Sext(Half, Low))
    BY <1>5, ExecADDI
  <2>2. m.r["X0"] + Sext(Half, Low) = Half
    <3>1. m.r["X0"] = 0
      BY <1>5, RegisterIs
    <3> QED BY <1>2, <1>3, <3>1
  <2> HIDE DEF z
  <2> QED BY <2>1, <2>2
<1> HIDE DEF z
<1>7. Leaves(m, 4, "T0", Half, z)
  BY <1>5, <1>6, WrittenIs
<1> QED BY <1>4, <1>7 DEF Leaves, z

(* A register taken to the upper half of a cell, by the count in T0. *)
LEMMA Lifted ==
  ASSUME NEW m \in Machines, m.r["T0"] = Half, NEW reg \in Targets \ {"T0"},
         NEW v \in 0 .. 2 ^ Half - 1, NEW j \in Int, m.r[reg] = v + 2 ^ Half * j
  PROVE  Kept(m, Exec(m, <<"SLL", reg, reg, "T0">>), reg, v * 2 ^ Half)
         /\ Exec(m, <<"SLL", reg, reg, "T0">>).r["T0"] = Half
<1> DEFINE z == Exec(m, <<"SLL", reg, reg, "T0">>)
           c == m.r[reg]
           y == c * 2 ^ Half
<1>1. reg \in Targets /\ reg \in Names /\ "T0" \in Names \ {reg} /\ 4 \in Int
  BY DEF Targets, Names
<1>2. z = Written(m, 4, reg, y)
  BY <1>1, ExecSLL
<1>3. c \in Int /\ y \in Int /\ AsCell(y) = v * 2 ^ Half
  <2>1. c \in Int
    BY <1>1, RegisterIs
  <2>2. AsCell(c * 2 ^ Half) = v * 2 ^ Half
    <3> HIDE DEF c
    <3>1. c = v + 2 ^ Half * j
      BY DEF c
    <3> QED BY <2>1, <3>1, ShiftedUp
  <2>3. c * 2 ^ Half \in Int
    BY <2>1, HalfCell
  <2> QED BY <2>1, <2>2, <2>3
<1> HIDE DEF z, c, y
<1>4. Leaves(m, 4, reg, y, z)
  BY <1>1, <1>2, <1>3, WrittenIs
<1>5. z \in Machines /\ z.r[reg] = v * 2 ^ Half /\ \A x \in Names \ {reg} : z.r[x] = m.r[x]
  BY <1>3, <1>4 DEF Leaves
<1> QED BY <1>1, <1>5 DEF Kept, z

LEMMA Lowered ==
  ASSUME NEW m \in Machines, m.r["T0"] = Half, NEW reg \in Targets \ {"T0"},
         NEW v \in 0 .. 2 ^ Half - 1, m.r[reg] = v * 2 ^ Half
  PROVE  Kept(m, Exec(m, <<"SRL", reg, reg, "T0">>), reg, v)
         /\ Exec(m, <<"SRL", reg, reg, "T0">>).r["T0"] = Half
<1> DEFINE z == Exec(m, <<"SRL", reg, reg, "T0">>)
           y == m.r[reg] \div 2 ^ Half
<1>1. reg \in Targets /\ reg \in Names /\ "T0" \in Names \ {reg} /\ 4 \in Int
  BY DEF Targets, Names
<1>2. z = Written(m, 4, reg, y)
  BY <1>1, ExecSRL
<1>3. y = v /\ v \in Values /\ v \in Int
  <2>1. v = v + 2 ^ Half * 0 /\ v \in Int /\ 0 \in Int
    BY HalfCell
  <2>2. (v * 2 ^ Half) \div 2 ^ Half = v
    BY <2>1, ShiftedUp
  <2>3. v \in Values
    BY HalfCell DEF Values
  <2> QED BY <2>1, <2>2, <2>3
<1>4. AsCell(v) = v
  BY <1>3, CellIs DEF Values
<1> HIDE DEF z, y
<1>5. Leaves(m, 4, reg, v, z)
  BY <1>1, <1>2, <1>3, WrittenIs
<1> QED BY <1>1, <1>4, <1>5 DEF Kept, Leaves, z

LEMMA WorkingShift == Works(<<"ADDI", "T0", "X0", Half>>)
BY ShiftCount DEF Works

LEMMA RanTwo ==
  ASSUME NEW m \in Machines, NEW i, Works(i), NEW j, Works(j)
  PROVE  Good(<<i, j>>) /\ Ran(m, <<i, j>>) = Exec(Exec(m, i), j) /\ Ran(m, <<i, j>>) \in Machines
<1>1. <<i, j>> = <<i>> \o <<j>>
  OBVIOUS
<1>2. Good(<<i>>) /\ Ran(m, <<i>>) = Exec(m, i) /\ Exec(m, i) \in Machines
  BY RanOne
<1>3. Good(<<j>>) /\ Ran(Exec(m, i), <<j>>) = Exec(Exec(m, i), j) /\ Exec(Exec(m, i), j) \in Machines
  BY <1>2, RanOne
<1>4. Good(<<i>> \o <<j>>) /\ Ran(m, <<i>> \o <<j>>) = Ran(Ran(m, <<i>>), <<j>>)
  BY <1>2, <1>3, RanConcat
<1> QED BY <1>1, <1>2, <1>3, <1>4

LEMMA RanThree ==
  ASSUME NEW m \in Machines, NEW i, Works(i), NEW j, Works(j), NEW k, Works(k)
  PROVE  /\ Good(<<i, j, k>>) /\ Ran(m, <<i, j, k>>) = Exec(Exec(Exec(m, i), j), k)
         /\ Ran(m, <<i, j, k>>) \in Machines
<1>1. <<i, j, k>> = <<i, j>> \o <<k>>
  OBVIOUS
<1>2. Good(<<i, j>>) /\ Ran(m, <<i, j>>) = Exec(Exec(m, i), j) /\ Exec(Exec(m, i), j) \in Machines
  BY RanTwo
<1>3. /\ Good(<<k>>) /\ Ran(Exec(Exec(m, i), j), <<k>>) = Exec(Exec(Exec(m, i), j), k)
      /\ Exec(Exec(Exec(m, i), j), k) \in Machines
  BY <1>2, RanOne
<1>4. Good(<<i, j>> \o <<k>>) /\ Ran(m, <<i, j>> \o <<k>>) = Ran(Ran(m, <<i, j>>), <<k>>)
  BY <1>2, <1>3, RanConcat
<1> QED BY <1>1, <1>2, <1>3, <1>4

(* What ends up in reg is of Half bits, extended by its sign. *)
StoreSigned(reg, x) ==
  IF Upper(x) = 0 THEN <<<<"ADDIW", reg, "X0", Lower(x)>>>>
  ELSE IF Lower(x) = 0 THEN <<<<"LUI", reg, Upper(x)>>>>
  ELSE <<<<"LUI", reg, Upper(x)>>, <<"ADDIW", reg, reg, Lower(x)>>>>
ClearUpper(reg) ==
  <<<<"ADDI", "T0", "X0", Half>>, <<"SLL", reg, reg, "T0">>, <<"SRL", reg, reg, "T0">>>>

LEMMA SignedStored ==
  ASSUME NEW m \in Machines, NEW reg \in Targets \ {"T0"}, NEW x, Wide(x)
  PROVE  Good(StoreSigned(reg, x)) /\ Kept(m, Ran(m, StoreSigned(reg, x)), reg, AsCell(x))
<1> DEFINE lo == Lower(x)
           up == Upper(x)
           lui == <<"LUI", reg, up>>
           add == <<"ADDIW", reg, "X0", lo>>
           plus == <<"ADDIW", reg, reg, lo>>
<1>1. /\ up \in Int /\ lo \in Int /\ up * 2 ^ Low \in Int /\ x \in Int
      /\ Sext(lo, Low) = lo
      /\ up = 0 => Int32(lo) = x
      /\ lo = 0 => Int32(up * 2 ^ Low) = x
      /\ Int32(AsCell(Int32(up * 2 ^ Low)) + lo) = x
  BY Recombined DEF Wide
<1>2. reg \in Targets /\ reg \in Names /\ "X0" \in Names /\ 4 \in Int /\ m.r["X0"] = 0
  BY RegisterIs DEF Targets, Names
<1> HIDE DEF up, lo
<1>3. Works(lui) /\ Works(add) /\ Works(plus)
  BY <1>1, <1>2, WorkingLUI, WorkingADDIW
<1>4. CASE up = 0
  <2>1. Good(<<add>>) /\ Ran(m, <<add>>) = Exec(m, add) /\ Exec(m, add) \in Machines
    <3> HIDE DEF add
    <3> QED BY <1>3, RanOne
  <2>2. Exec(m, add) = Written(m, 4, reg, x)
    <3>1. Exec(m, add) = Written(m, 4, reg, Int32(m.r["X0"] + Sext(lo, Low)))
      BY <1>2, ExecADDIW
    <3>2. m.r["X0"] + Sext(lo, Low) = lo
      BY <1>1, <1>2
    <3> HIDE DEF add
    <3> QED BY <1>1, <1>4, <3>1, <3>2
  <2>3. Leaves(m, 4, reg, x, Exec(m, add))
    BY <1>1, <1>2, <2>2, WrittenIs
  <2>4. Kept(m, Ran(m, <<add>>), reg, AsCell(x))
    <3> HIDE DEF add
    <3> QED BY <2>1, <2>3 DEF Leaves, Kept
  <2>5. StoreSigned(reg, x) = <<add>>
    BY <1>4 DEF StoreSigned, up, lo
  <2> HIDE DEF add
  <2> QED BY <2>1, <2>4, <2>5
<1> DEFINE y == Int32(up * 2 ^ Low)
           z == Exec(m, lui)
<1>5. z = Written(m, 4, reg, y) /\ y \in Int /\ Leaves(m, 4, reg, y, z)
  <2>1. z = Written(m, 4, reg, y)
    BY <1>1, <1>2, ExecLUI
  <2>2. y \in Int
    BY <1>1, Int32Is
  <2> HIDE DEF z, y
  <2> QED BY <1>2, <2>1, <2>2, WrittenIs
<1>6. CASE up # 0 /\ lo = 0
  <2>1. Good(<<lui>>) /\ Ran(m, <<lui>>) = Exec(m, lui) /\ Exec(m, lui) \in Machines
    <3> HIDE DEF lui
    <3> QED BY <1>3, RanOne
  <2>2. y = x
    BY <1>1, <1>6
  <2>3. StoreSigned(reg, x) = <<lui>>
    BY <1>6 DEF StoreSigned, up, lo
  <2> HIDE DEF lui, y
  <2>4. Kept(m, Ran(m, <<lui>>), reg, AsCell(x))
    BY <1>5, <2>1, <2>2 DEF Leaves, Kept
  <2> QED BY <2>1, <2>3, <2>4
<1>7. CASE up # 0 /\ lo # 0
  <2> DEFINE e == Exec(z, plus)
  <2>1. Good(<<lui, plus>>) /\ Ran(m, <<lui, plus>>) = e /\ e \in Machines
    <3> HIDE DEF lui, plus
    <3> QED BY <1>3, RanTwo
  <2>2. z \in Machines /\ z.r[reg] = AsCell(y) /\ \A n \in Names \ {reg} : z.r[n] = m.r[n]
    <3> HIDE DEF z, y
    <3> QED BY <1>5 DEF Leaves
  <2>3. e = Written(z, 4, reg, x)
    <3>1. e = Written(z, 4, reg, Int32(z.r[reg] + Sext(lo, Low)))
      <4> HIDE DEF z
      <4> QED BY <1>2, <2>2, ExecADDIW
    <3>2. Int32(z.r[reg] + Sext(lo, Low)) = x
      <4>1. z.r[reg] + Sext(lo, Low) = AsCell(Int32(up * 2 ^ Low)) + lo
        <5> HIDE DEF z
        <5> QED BY <1>1, <2>2 DEF y
      <4> QED BY <1>1, <4>1
    <3> HIDE DEF e, z
    <3> QED BY <3>1, <3>2
  <2>4. StoreSigned(reg, x) = <<lui, plus>>
    BY <1>7 DEF StoreSigned, up, lo
  <2> HIDE DEF e, z, lui, plus, y
  <2>5. Leaves(z, 4, reg, x, e)
    BY <1>1, <1>2, <2>2, <2>3, WrittenIs
  <2>6. Kept(m, e, reg, AsCell(x))
    BY <2>2, <2>5 DEF Leaves, Kept
  <2> QED BY <2>1, <2>4, <2>6
<1> QED BY <1>4, <1>6, <1>7

LEMMA UpperCleared ==
  ASSUME NEW m \in Machines, NEW reg \in Targets \ {"T0"}, NEW v \in 0 .. 2 ^ Half - 1,
         NEW j \in Int, m.r[reg] = v + 2 ^ Half * j
  PROVE  /\ Good(ClearUpper(reg)) /\ Kept(m, Ran(m, ClearUpper(reg)), reg, v)
         /\ Ran(m, ClearUpper(reg)).r["T0"] = Half
<1> DEFINE i1 == <<"ADDI", "T0", "X0", Half>>
           i2 == <<"SLL", reg, reg, "T0">>
           i3 == <<"SRL", reg, reg, "T0">>
           m1 == Exec(m, i1)
           m2 == Exec(m1, i2)
           m3 == Exec(m2, i3)
<1>1. reg \in Targets /\ reg \in Names /\ "T0" \in Names /\ reg # "T0"
  BY DEF Targets, Names
<1>2. Works(i1) /\ Works(i2) /\ Works(i3)
  BY <1>1, WorkingShift, WorkingShifts
<1>3. m1 \in Machines /\ m1.r["T0"] = Half /\ \A x \in Names \ {"T0"} : m1.r[x] = m.r[x]
  BY ShiftCount
<1> HIDE DEF m1
<1>4. m1.r[reg] = v + 2 ^ Half * j
  BY <1>1, <1>3
<1>5. Kept(m1, m2, reg, v * 2 ^ Half) /\ m2.r["T0"] = Half
  BY <1>3, <1>4, Lifted
<1> HIDE DEF m2
<1>6. m2 \in Machines /\ m2.r[reg] = v * 2 ^ Half
  BY <1>5 DEF Kept
<1>7. Kept(m2, m3, reg, v) /\ m3.r["T0"] = Half
  BY <1>5, <1>6, Lowered
<1>8. Kept(m, m3, reg, v)
  BY <1>3, <1>5, <1>7 DEF Kept
<1>9. Good(<<i1, i2, i3>>) /\ Ran(m, <<i1, i2, i3>>) = Exec(Exec(Exec(m, i1), i2), i3)
  <2> HIDE DEF i1, i2, i3
  <2> QED BY <1>2, RanThree
<1>10. ClearUpper(reg) = <<i1, i2, i3>>
  BY DEF ClearUpper
<1>11. Exec(Exec(Exec(m, i1), i2), i3) = m3
  BY DEF m3, m2, m1
<1> HIDE DEF i1, i2, i3, m3
<1> QED BY <1>7, <1>8, <1>9, <1>10, <1>11

StoredValue(v) == IF v \div 2 ^ Half = 0 THEN v ELSE AsCell(Int32(v))

LEMMA LowStored ==
  ASSUME NEW m \in Machines, NEW reg \in Targets \ {"T0"}, NEW v \in Values
  PROVE  /\ Good(StoreLow(reg, v)) /\ Kept(m, Ran(m, StoreLow(reg, v)), reg, StoredValue(v))
         /\ v \div 2 ^ Half = 0 => Ran(m, StoreLow(reg, v)).r["T0"] = Half
<1> DEFINE x == Int32(v)
           s == StoreSigned(reg, x)
           t == ClearUpper(reg)
           z == Ran(m, s)
<1>1. v \in Int /\ Wide(x) /\ \E j \in Int : v = x + 2 ^ Half * j
  <2>1. v \in Int
    BY CellIs DEF Values
  <2> QED BY <2>1, Int32Is DEF Wide
<1> HIDE DEF x
<1>2. Good(s) /\ Kept(m, z, reg, AsCell(x)) /\ z \in Machines
  BY <1>1, SignedStored DEF Kept
<1> HIDE DEF s, z
<1>3. CASE v \div 2 ^ Half # 0
  <2>1. StoreLow(reg, v) = s \o <<>>
    BY <1>3 DEF StoreLow, StoreSigned, s, x
  <2>2. Ran(m, s \o <<>>) = Ran(z, <<>>) /\ Good(s \o <<>>) /\ Ran(z, <<>>) = z
    BY <1>2, RanNone, RanConcat DEF z
  <2> QED BY <1>2, <1>3, <2>1, <2>2 DEF StoredValue, x
<1>4. CASE v \div 2 ^ Half = 0
  <2>1. StoreLow(reg, v) = s \o t
    BY <1>4 DEF StoreLow, StoreSigned, ClearUpper, s, t, x
  <2>2. v \in 0 .. 2 ^ Half - 1
    <3> DEFINE w == 2 ^ Half
    <3>1. w \in Nat \ {0}
      BY HalfCell
    <3> HIDE DEF w
    <3>2. v % w \in 0 .. w - 1 /\ v = w * (v \div w) + (v % w)
      BY <1>1, <3>1, Euclid
    <3>3. v = v % w
      BY <1>4, <3>1, <3>2 DEF w
    <3> QED BY <3>2, <3>3 DEF w
  <2>3. \E j \in Int : z.r[reg] = v + 2 ^ Half * j
    <3> DEFINE w == 2 ^ Half
    <3>1. PICK j \in Int : v = x + w * j
      BY <1>1
    <3>2. PICK k \in Int : AsCell(x) \in Int /\ x = AsCell(x) + CellMod * k /\ x \in Int
      <4>1. x \in Int
        BY <1>1 DEF Wide
      <4> DEFINE c == AsCell(x)
      <4>2. c \in 0 .. CellMod - 1 /\ CellMod \in Nat /\ \E k \in Int : x = c + CellMod * k
        BY <4>1, CellIs
      <4> HIDE DEF c
      <4>3. c \in Int /\ \E k \in Int : x = c + CellMod * k
        BY <4>2
      <4> QED BY <4>1, <4>3 DEF c
    <3>3. w \in Nat \ {0} /\ CellMod = w * w
      BY HalfCell
    <3> HIDE DEF w
    <3> DEFINE e == -(j + w * k)
    <3>4. e \in Int /\ AsCell(x) = v + w * e
      <4>1. w * (-(j + w * k)) = -(w * j) - (w * w) * k
        BY <3>1, <3>2, <3>3
      <4>2. CellMod * k = (w * w) * k /\ (w * w) * k \in Int /\ w * j \in Int /\ w * k \in Int
        BY <3>1, <3>2, <3>3
      <4>3. e \in Int
        BY <3>1, <4>2
      <4> DEFINE a == (w * w) * k
                 b == w * j
      <4>4. a \in Int /\ b \in Int /\ v = x + b /\ x = AsCell(x) + a /\ w * e = -b - a
        BY <3>1, <3>2, <4>1, <4>2
      <4> HIDE DEF a, b, e
      <4>5. AsCell(x) = v + w * e
        BY <1>1, <3>2, <4>4
      <4> QED BY <4>3, <4>5
    <3>5. z.r[reg] = AsCell(x)
      BY <1>2 DEF Kept
    <3> HIDE DEF e
    <3> QED BY <3>4, <3>5 DEF w
  <2>4. PICK j \in Int : z.r[reg] = v + 2 ^ Half * j
    BY <2>3
  <2>5. Good(t) /\ Kept(z, Ran(z, t), reg, v) /\ Ran(z, t).r["T0"] = Half
    BY <1>2, <2>2, <2>4, UpperCleared
  <2>6. Good(s \o t) /\ Ran(m, s \o t) = Ran(z, t)
    BY <1>2, <2>5, RanConcat DEF z
  <2>7. Kept(m, Ran(z, t), reg, v)
    <3> HIDE DEF t
    <3> QED BY <1>2, <2>5 DEF Kept
  <2> QED BY <1>4, <2>1, <2>5, <2>6, <2>7 DEF StoredValue
<1> QED BY <1>3, <1>4

LEMMA CellSplit ==
  ASSUME NEW v \in Values
  PROVE  /\ v \div 2 ^ Half \in 0 .. 2 ^ Half - 1 /\ v % 2 ^ Half \in 0 .. 2 ^ Half - 1
         /\ v = (v \div 2 ^ Half) * 2 ^ Half + (v % 2 ^ Half)
<1> DEFINE w == 2 ^ Half
           h == v \div w
           a == v % w
<1>1. w \in Nat \ {0} /\ CellMod = w * w /\ v \in Int /\ 0 <= v /\ v < CellMod
  BY HalfCell DEF Values
<1> HIDE DEF w
<1>2. h \in Int /\ a \in 0 .. w - 1 /\ v = w * h + a
  BY <1>1, Euclid
<1> HIDE DEF h, a
<1>3. h >= 0
  <2>1. CASE h <= -1
    <3>1. w * h <= w * (-1)
      BY <1>1, <1>2, <2>1, Monotonic
    <3>2. w * (-1) = -w /\ w * h \in Int
      BY <1>1, <1>2
    <3> QED BY <1>1, <1>2, <3>1, <3>2
  <2> QED BY <1>2, <2>1
<1>4. h <= w - 1
  <2>1. CASE h >= w
    <3>1. w * w <= w * h
      BY <1>1, <1>2, <2>1, Monotonic
    <3>2. w * w \in Int /\ w * h \in Int
      BY <1>1, <1>2
    <3> QED BY <1>1, <1>2, <3>1, <3>2
  <2> QED BY <1>1, <1>2, <2>1
<1>5. v = h * w + a
  BY <1>1, <1>2
<1> QED BY <1>1, <1>2, <1>3, <1>4, <1>5 DEF h, a, w

(* The test of the upper half. *)
LEMMA NearIs ==
  ASSUME NEW v \in Values
  PROVE  Near(v) <=> v \div 2 ^ Half \in {0, 2 ^ Half - 1}
<1> DEFINE w == 2 ^ Half
           h == v \div w
           a == v % w
<1>1. PICK l, q, b : Sizes(l, q, b)
  BY Widths
<1>2. b \in Nat \ {0} /\ w = 2 * b /\ CellMod = w * w /\ w \in Nat \ {0}
  BY <1>1 DEF Sizes
<1>3. h \in 0 .. w - 1 /\ a \in 0 .. w - 1 /\ v = h * w + a /\ v \in Int
  BY CellSplit DEF Values
<1>4. AsCell(v) = v
  BY CellIs DEF Values
<1>5. CellMod \div 2 = w * b
  <2>1. CellMod = 2 * (w * b) + 0 /\ w * b \in Int /\ CellMod \in Int /\ 2 \in Nat \ {0} /\ 0 \in 0 .. 2 - 1
    <3>1. w * (2 * b) = 2 * (w * b)
      BY <1>2
    <3> QED BY <1>2, <3>1
  <2> HIDE DEF w
  <2>2. CellMod \div 2 = w * b
    BY <2>1, Unique
  <2> QED BY <2>2
<1>6. Near(v) <=> (IF v < w * b THEN v ELSE v - w * w) \div w \in {0, -1}
  BY <1>2, <1>4, <1>5 DEF Near, SignedCell
<1> HIDE DEF w, h, a
<1>7. v \div w = h
  BY DEF h
<1>8. CASE h < b
  <2>1. w * h <= w * (b - 1) /\ w * (b - 1) = w * b - w /\ w * h = h * w /\ h * w \in Int /\ w * b \in Int
    <3>1. h \in Int /\ b - 1 \in Int /\ h <= b - 1 /\ w \in Nat
      BY <1>2, <1>3, <1>8
    <3>2. w * h <= w * (b - 1)
      BY <3>1, Monotonic
    <3> QED BY <1>2, <1>3, <3>2
  <2>2. v < w * b
    BY <1>2, <1>3, <2>1
  <2>3. Near(v) <=> h \in {0, -1}
    BY <1>6, <1>7, <2>2
  <2>4. h # -1 /\ h # w - 1
    BY <1>2, <1>3, <1>8
  <2> QED BY <2>3, <2>4 DEF h, w
<1>9. CASE ~(h < b)
  <2>1. w * b <= w * h /\ w * h = h * w /\ h * w \in Int /\ w * b \in Int
    <3>1. h \in Int /\ b \in Int /\ b <= h /\ w \in Nat
      BY <1>2, <1>3, <1>9
    <3>2. w * b <= w * h
      BY <3>1, Monotonic
    <3> QED BY <1>2, <1>3, <3>2
  <2>2. ~(v < w * b)
    BY <1>2, <1>3, <2>1
  <2>3. (v - w * w) \div w = h - w
    <3> DEFINE u == v - w * w
               k == h - w
    <3>1. u \in Int /\ k \in Int /\ u = w * k + a
      <4>1. w * (h - w) = w * h - w * w /\ w * w \in Int
        BY <1>2, <1>3
      <4> QED BY <1>2, <1>3, <2>1, <4>1
    <3> HIDE DEF u, k
    <3>2. u \div w = k
      BY <1>2, <1>3, <3>1, Unique
    <3> QED BY <3>2 DEF u, k
  <2>4. Near(v) <=> h - w \in {0, -1}
    BY <1>6, <2>2, <2>3
  <2>5. h - w # 0 /\ h # 0 /\ (h - w = -1 <=> h = w - 1)
    BY <1>2, <1>3, <1>9
  <2> QED BY <2>4, <2>5 DEF h, w
<1> QED BY <1>8, <1>9

(* What is left of a number: itself, but for those the test mistakes.      *)
Loaded(v) == IF v \div 2 ^ Half = 2 ^ Half - 1 /\ v % 2 ^ Half < 2 ^ (Half - 1) THEN v % 2 ^ Half ELSE v

LEMMA NearStored ==
  ASSUME NEW v \in Values, Near(v)
  PROVE  StoredValue(v) = Loaded(v)
<1> DEFINE w == 2 ^ Half
           b == 2 ^ (Half - 1)
           h == v \div w
           a == v % w
<1>1. b \in Nat \ {0} /\ w = 2 * b /\ CellMod = w * w /\ w \in Nat \ {0}
  <2>1. PICK l, q, c : Sizes(l, q, c)
    BY Widths
  <2> QED BY <2>1 DEF Sizes
<1>2. h \in 0 .. w - 1 /\ a \in 0 .. w - 1 /\ v = h * w + a /\ v \in Int /\ h \in {0, w - 1}
  BY CellSplit, NearIs DEF Values
<1>3. StoredValue(v) = (IF h = 0 THEN v ELSE AsCell(Int32(v)))
      /\ Loaded(v) = (IF h = w - 1 /\ a < b THEN a ELSE v)
  BY DEF StoredValue, Loaded
<1>4. \A u \in Int, j \in Int : v = u + w * j /\ -b <= u /\ u < b => Int32(v) = u
  BY <1>2, Int32Only
<1> HIDE DEF w, b, h, a
<1>5. CASE h = 0
  <2>1. h # w - 1
    BY <1>1, <1>5
  <2> QED BY <1>3, <1>5, <2>1
<1>6. CASE h = w - 1 /\ a < b
  <2>1. h # 0
    BY <1>1, <1>6
  <2>2. Int32(v) = a
    <3>1. v = a + w * h /\ -b <= a /\ a \in Int /\ h \in Int
      BY <1>1, <1>2
    <3> QED BY <1>4, <1>6, <3>1
  <2>3. AsCell(a) = a
    <3>1. a \in 0 .. CellMod - 1
      <4>1. w <= CellMod /\ CellMod \in Int
        BY HalfCell DEF w
      <4> QED BY <1>1, <1>2, <4>1
    <3> QED BY <3>1, CellIs
  <2> QED BY <1>3, <1>6, <2>1, <2>2, <2>3
<1>7. CASE h = w - 1 /\ ~(a < b)
  <2>1. h # 0
    BY <1>1, <1>7
  <2> DEFINE u == a - w
             k == h + 1
  <2>2. v = u + w * k /\ -b <= u /\ u < b /\ u \in Int /\ k \in Int
    <3>1. w * (h + 1) = h * w + w /\ h * w \in Int
      BY <1>1, <1>2
    <3> QED BY <1>1, <1>2, <1>7, <3>1
  <2>3. v = u + CellMod * 1
    <3>1. k = w /\ w * w \in Int
      BY <1>1, <1>7
    <3> QED BY <1>1, <2>2, <3>1
  <2> HIDE DEF u, k
  <2>4. Int32(v) = u
    BY <1>4, <2>2
  <2>5. AsCell(u) = v
    <3>1. 1 \in Int
      OBVIOUS
    <3>2. AsCell(v) = AsCell(u)
      BY <1>2, <2>2, <2>3, <3>1, SameCell
    <3>3. AsCell(v) = v
      BY CellIs DEF Values
    <3> QED BY <3>2, <3>3
  <2> QED BY <1>3, <1>7, <2>1, <2>4, <2>5
<1> QED BY <1>2, <1>5, <1>6, <1>7

LEMMA United ==
  ASSUME NEW m \in Machines, NEW h \in 0 .. 2 ^ Half - 1, NEW a \in 0 .. 2 ^ Half - 1,
         m.r["A2"] = a, m.r["A3"] = h * 2 ^ Half
  PROVE  /\ Exec(m, <<"OR", "A2", "A2", "A3">>) \in Machines
         /\ Exec(m, <<"OR", "A2", "A2", "A3">>).r["A2"] = h * 2 ^ Half + a
<1> DEFINE z == Exec(m, <<"OR", "A2", "A2", "A3">>)
           v == h * 2 ^ Half + a
<1>1. "A2" \in Targets /\ "A2" \in Names /\ "A3" \in Names /\ 4 \in Int
  BY DEF Targets, Names
<1>2. BitOr(m.r["A2"], m.r["A3"]) = v
  BY BitOrIs
<1>3. z = Written(m, 4, "A2", v)
  <2>1. z = Written(m, 4, "A2", BitOr(m.r["A2"], m.r["A3"]))
    BY <1>1, ExecOR
  <2> HIDE DEF z, v
  <2> QED BY <1>2, <2>1
<1>4. v \in Values
  BY Raised
<1> HIDE DEF v, z
<1>5. v \in Int /\ AsCell(v) = v
  BY <1>4, CellIs DEF Values
<1>6. Leaves(m, 4, "A2", v, z)
  BY <1>1, <1>3, <1>5, WrittenIs
<1> QED BY <1>5, <1>6 DEF Leaves, z, v

LEMMA HalfZero ==
  ASSUME NEW h \in 0 .. 2 ^ Half - 1
  PROVE  h \div 2 ^ Half = 0 /\ StoredValue(h) = h /\ h \in Values /\ h = h + 2 ^ Half * 0
<1>1. h \div 2 ^ Half = 0
  BY HalfCell, Remains
<1>2. h \in Values
  BY HalfCell DEF Values
<1>3. h = h + 2 ^ Half * 0
  BY HalfCell
<1> QED BY <1>1, <1>2, <1>3 DEF StoredValue

(* shift, SLL: a half that was stored is taken up. *)
TakeUp(reg) == <<<<"ADDI", "T0", "X0", Half>>, <<"SLL", reg, reg, "T0">>>>

LEMMA TakenUp ==
  ASSUME NEW m \in Machines, NEW reg \in Targets \ {"T0"}, NEW h \in 0 .. 2 ^ Half - 1, m.r[reg] = h
  PROVE  Good(TakeUp(reg)) /\ Kept(m, Ran(m, TakeUp(reg)), reg, h * 2 ^ Half)
<1> DEFINE i == <<"ADDI", "T0", "X0", Half>>
           j == <<"SLL", reg, reg, "T0">>
           y == Exec(m, i)
<1>1. reg \in Targets /\ reg \in Names /\ "T0" \in Names /\ reg # "T0"
  BY DEF Targets, Names
<1>2. Works(i) /\ Works(j)
  BY <1>1, WorkingShift, WorkingShifts
<1>3. y \in Machines /\ y.r["T0"] = Half /\ \A x \in Names \ {"T0"} : y.r[x] = m.r[x]
  BY ShiftCount
<1>4. Kept(y, Exec(y, j), reg, h * 2 ^ Half)
  <2> HIDE DEF y
  <2>1. y.r[reg] = h + 2 ^ Half * 0 /\ 0 \in Int
    BY <1>1, <1>3, HalfZero
  <2> QED BY <1>3, <2>1, Lifted
<1>5. Good(<<i, j>>) /\ Ran(m, <<i, j>>) = Exec(y, j)
  <2> HIDE DEF i, j
  <2> QED BY <1>2, RanTwo
<1>6. TakeUp(reg) = <<i, j>>
  BY DEF TakeUp
<1> HIDE DEF y, i, j
<1> QED BY <1>3, <1>4, <1>5, <1>6 DEF Kept

(* SLL, SRL, OR: the lower half is cleared above and joined to the upper.  *)
Joined == <<<<"SLL", "A2", "A2", "T0">>, <<"SRL", "A2", "A2", "T0">>, <<"OR", "A2", "A2", "A3">>>>

LEMMA JoinedIs ==
  ASSUME NEW m \in Machines, m.r["T0"] = Half, NEW h \in 0 .. 2 ^ Half - 1, NEW a \in 0 .. 2 ^ Half - 1,
         m.r["A2"] = a, m.r["A3"] = h * 2 ^ Half
  PROVE  /\ Good(Joined) /\ Ran(m, Joined) \in Machines
         /\ Ran(m, Joined).r["A2"] = h * 2 ^ Half + a
<1> DEFINE i == <<"SLL", "A2", "A2", "T0">>
           j == <<"SRL", "A2", "A2", "T0">>
           k == <<"OR", "A2", "A2", "A3">>
           x == Exec(m, i)
           y == Exec(x, j)
<1>1. "A2" \in Targets \ {"T0"} /\ "A2" \in Targets /\ {"A2", "A3", "T0"} \subseteq Names
  BY DEF Targets, Names
<1>2. Works(i) /\ Works(j) /\ Works(k)
  BY <1>1, WorkingShifts
<1>3. Kept(m, x, "A2", a * 2 ^ Half) /\ x.r["T0"] = Half
  <2>1. m.r["A2"] = a + 2 ^ Half * 0 /\ 0 \in Int
    BY HalfZero
  <2> QED BY <1>1, <2>1, Lifted
<1> HIDE DEF x
<1>4. x \in Machines /\ x.r["A2"] = a * 2 ^ Half
  BY <1>3 DEF Kept
<1>5. Kept(x, y, "A2", a)
  BY <1>1, <1>3, <1>4, Lowered
<1> HIDE DEF y
<1>6. y \in Machines /\ y.r["A2"] = a /\ y.r["A3"] = h * 2 ^ Half
  <2>1. "A3" \in Names \ {"A2", "T0"}
    BY DEF Names
  <2> QED BY <1>3, <1>5, <2>1 DEF Kept
<1>7. Exec(y, k) \in Machines /\ Exec(y, k).r["A2"] = h * 2 ^ Half + a
  BY <1>6, United
<1>8. Good(<<i, j, k>>) /\ Ran(m, <<i, j, k>>) = Exec(y, k)
  <2>1. Good(<<i, j, k>>) /\ Ran(m, <<i, j, k>>) = Exec(Exec(Exec(m, i), j), k)
    <3> HIDE DEF i, j, k
    <3> QED BY <1>2, RanThree
  <2>2. Exec(Exec(Exec(m, i), j), k) = Exec(y, k)
    BY DEF x, y
  <2> QED BY <2>1, <2>2
<1>9. Joined = <<i, j, k>>
  BY DEF Joined
<1> HIDE DEF i, j, k
<1> QED BY <1>7, <1>8, <1>9

LEMMA StoredIs ==
  ASSUME NEW m \in Machines, NEW v \in Values
  PROVE  Good(c_store(v)) /\ Ran(m, c_store(v)) \in Machines /\ Ran(m, c_store(v)).r["A2"] = Loaded(v)
<1> DEFINE w == 2 ^ Half
           h == v \div w
           a == v % w
           high == StoreLow("A3", h)
           low == StoreLow("A2", a)
<1>1. h \in 0 .. w - 1 /\ a \in 0 .. w - 1 /\ v = h * w + a
  BY CellSplit
<1>2. "A2" \in Targets \ {"T0"} /\ "A3" \in Targets \ {"T0"} /\ {"A2", "A3", "T0"} \subseteq Names
  BY DEF Targets, Names
<1>3. CASE Near(v)
  <2>1. c_store(v) = StoreLow("A2", v)
    BY <1>3 DEF c_store
  <2>2. Good(StoreLow("A2", v)) /\ Kept(m, Ran(m, StoreLow("A2", v)), "A2", StoredValue(v))
    BY <1>2, LowStored
  <2>3. StoredValue(v) = Loaded(v)
    BY <1>3, NearStored
  <2> QED BY <2>1, <2>2, <2>3 DEF Kept
<1>4. ~Near(v) => Loaded(v) = v
  BY NearIs DEF Loaded
<1>5. h \in 0 .. 2 ^ Half - 1 /\ a \in 0 .. 2 ^ Half - 1
  BY <1>1
<1>6. CASE ~Near(v) /\ a # 0
  <2>1. c_store(v) = ((high \o TakeUp("A3")) \o low) \o Joined
    BY <1>6 DEF c_store, TakeUp, Joined
  <2> HIDE DEF w, h, a, high, low
  <2> DEFINE x == Ran(m, high)
             y == Ran(x, TakeUp("A3"))
             z == Ran(y, low)
  <2>2. Good(high) /\ x \in Machines /\ x.r["A3"] = h
    <3>1. Good(StoreLow("A3", h)) /\ Kept(m, Ran(m, StoreLow("A3", h)), "A3", StoredValue(h))
      BY <1>2, <1>5, HalfZero, LowStored
    <3>2. StoredValue(h) = h
      BY <1>5, HalfZero
    <3> QED BY <3>1, <3>2 DEF Kept, high
  <2>3. Good(TakeUp("A3")) /\ Kept(x, y, "A3", h * 2 ^ Half)
    <3> HIDE DEF x
    <3> QED BY <1>2, <1>5, <2>2, TakenUp
  <2>4. y \in Machines /\ y.r["A3"] = h * 2 ^ Half
    <3> HIDE DEF y
    <3> QED BY <2>3 DEF Kept
  <2>5. Good(low) /\ Kept(y, z, "A2", a) /\ z.r["T0"] = Half
    <3> HIDE DEF y
    <3>1. /\ Good(StoreLow("A2", a)) /\ Kept(y, Ran(y, StoreLow("A2", a)), "A2", StoredValue(a))
          /\ a \div 2 ^ Half = 0 => Ran(y, StoreLow("A2", a)).r["T0"] = Half
      BY <1>2, <1>5, <2>4, HalfZero, LowStored
    <3>2. StoredValue(a) = a /\ a \div 2 ^ Half = 0
      BY <1>5, HalfZero
    <3> QED BY <3>1, <3>2 DEF low
  <2>6. z \in Machines /\ z.r["A2"] = a /\ z.r["A3"] = h * 2 ^ Half
    <3>1. "A3" \in Names \ {"A2", "T0"}
      BY DEF Names
    <3> HIDE DEF y, z
    <3> QED BY <2>4, <2>5, <3>1 DEF Kept
  <2>7. Good(Joined) /\ Ran(z, Joined) \in Machines /\ Ran(z, Joined).r["A2"] = h * 2 ^ Half + a
    <3> HIDE DEF z
    <3> QED BY <1>5, <2>5, <2>6, JoinedIs
  <2>8. Good(high \o TakeUp("A3")) /\ Ran(m, high \o TakeUp("A3")) = y
    BY <2>2, <2>3, RanConcat
  <2>9. Good((high \o TakeUp("A3")) \o low) /\ Ran(m, (high \o TakeUp("A3")) \o low) = z
    BY <2>5, <2>8, RanConcat
  <2>10. Good(((high \o TakeUp("A3")) \o low) \o Joined)
         /\ Ran(m, ((high \o TakeUp("A3")) \o low) \o Joined) = Ran(z, Joined)
    BY <2>7, <2>9, RanConcat
  <2> HIDE DEF x, y, z
  <2>11. h * 2 ^ Half + a = v
    BY <1>1 DEF w
  <2> QED BY <1>4, <1>6, <2>1, <2>7, <2>10, <2>11
<1>7. CASE ~Near(v) /\ a = 0
  <2> DEFINE s == StoreLow("A2", h)
             x == Ran(m, s)
  <2>1. c_store(v) = s \o TakeUp("A2")
    BY <1>7 DEF c_store, TakeUp
  <2>2. Good(s) /\ x \in Machines /\ x.r["A2"] = h
    <3> HIDE DEF h
    <3>1. Good(StoreLow("A2", h)) /\ Kept(m, Ran(m, StoreLow("A2", h)), "A2", StoredValue(h))
      BY <1>2, <1>5, HalfZero, LowStored
    <3>2. StoredValue(h) = h
      BY <1>5, HalfZero
    <3> QED BY <3>1, <3>2 DEF Kept
  <2> HIDE DEF h, s, a, w
  <2>3. Good(TakeUp("A2")) /\ Kept(x, Ran(x, TakeUp("A2")), "A2", h * 2 ^ Half)
    <3> HIDE DEF x
    <3> QED BY <1>2, <1>5, <2>2, TakenUp
  <2>4. Good(s \o TakeUp("A2")) /\ Ran(m, s \o TakeUp("A2")) = Ran(x, TakeUp("A2"))
    BY <2>2, <2>3, RanConcat
  <2>5. h * 2 ^ Half = v
    <3>1. h * w \in Int
      BY <1>1, HalfCell DEF w
    <3> QED BY <1>1, <1>7, <3>1 DEF w
  <2> HIDE DEF x
  <2> QED BY <1>4, <1>7, <2>1, <2>3, <2>4, <2>5 DEF Kept
<1> QED BY <1>3, <1>6, <1>7

-----------------------------------------------------------------------------
(* The code of a number.                                                   *)
Boot(at) == [pc |-> at, r |-> Registers]

LEMMA BootIs ==
  ASSUME NEW at \in Int
  PROVE  Boot(at) \in Machines /\ \A is : Run(is, at) = Ran(Boot(at), is)
<1>1. 0 \in Values
  BY HalfCell DEF Values
<1>2. DOMAIN Registers = Names /\ Registers["X0"] = 0 /\ Registers = [x \in Names |-> 0]
  BY DEF Registers, Names
<1>3. Boot(at) \in Machines
  BY <1>1, <1>2 DEF Boot, Machines, Names
<1> QED BY <1>3 DEF Run, Ran, Boot

LEMMA Idle ==
  ASSUME NEW m \in Machines
  PROVE  /\ Good(PushRV) /\ Ran(m, PushRV) \in Machines /\ Ran(m, PushRV).r = m.r
         /\ Good(PushX86) /\ Ran(m, PushX86) \in Machines /\ Ran(m, PushX86).r = m.r
<1> DEFINE i == <<"SX", "A2", "S0">>
           j == <<"ADDI", "S0", "S0", 1>>
           k == <<"MOV", "RBX", "R15">>
           l == <<"ADD", "R15", 1>>
<1>1. 3 \in Int /\ 4 \in Int
  OBVIOUS
<1>2. ASSUME NEW z \in Machines
      PROVE  /\ Exec(z, i) \in Machines /\ Exec(z, i).r = z.r
             /\ Exec(z, j) \in Machines /\ Exec(z, j).r = z.r
             /\ Exec(z, k) \in Machines /\ Exec(z, k).r = z.r
             /\ Exec(z, l) \in Machines /\ Exec(z, l).r = z.r
  <2>1. Exec(z, i) = Past(z, 4) /\ Exec(z, j) = Past(z, 4) /\ Exec(z, k) = Past(z, 3) /\ Exec(z, l) = Past(z, 4)
    BY ExecSX, ExecS0, ExecMOV, ExecADD
  <2> HIDE DEF i, j, k, l
  <2> QED BY <1>1, <2>1, PastIs
<1>3. PushRV = <<i, j>> /\ PushX86 = <<k, l>>
  BY DEF PushRV, PushX86
<1> HIDE DEF i, j, k, l
<1>4. Works(i) /\ Works(j) /\ Works(k) /\ Works(l)
  BY <1>2 DEF Works
<1>5. /\ Good(<<i, j>>) /\ Ran(m, <<i, j>>) = Exec(Exec(m, i), j)
      /\ Good(<<k, l>>) /\ Ran(m, <<k, l>>) = Exec(Exec(m, k), l)
  BY <1>4, RanTwo
<1>6. /\ Exec(Exec(m, i), j) \in Machines /\ Exec(Exec(m, i), j).r = m.r
      /\ Exec(Exec(m, k), l) \in Machines /\ Exec(Exec(m, k), l).r = m.r
  BY <1>2
<1> QED BY <1>3, <1>5, <1>6

LEMMA NumberCompiled ==
  ASSUME NEW v \in Values, NEW at \in Int
  PROVE  Run(ConstantRV(v), at).r["A2"] = Loaded(v) /\ Run(ConstantX86(v), at).r["RBX"] = v
<1> DEFINE m == Boot(at)
           i == <<"MOV64", "RBX", v>>
<1>1. m \in Machines /\ \A is : Run(is, at) = Ran(m, is)
  BY BootIs
<1> HIDE DEF m
<1>2. Run(ConstantRV(v), at).r["A2"] = Loaded(v)
  <2> DEFINE x == Ran(m, c_store(v))
  <2>1. Good(c_store(v)) /\ x \in Machines /\ x.r["A2"] = Loaded(v)
    BY <1>1, StoredIs
  <2>2. Good(PushRV) /\ Ran(x, PushRV).r = x.r
    <3> HIDE DEF x
    <3> QED BY <2>1, Idle
  <2>3. Ran(m, c_store(v) \o PushRV) = Ran(x, PushRV)
    BY <1>1, <2>1, <2>2, RanConcat
  <2> HIDE DEF x
  <2> QED BY <1>1, <2>1, <2>2, <2>3 DEF ConstantRV
<1>3. Run(ConstantX86(v), at).r["RBX"] = v
  <2>1. "RBX" \in Targets /\ 10 \in Int
    BY DEF Targets, Names
  <2>2. v \in Int /\ AsCell(v) = v
    BY CellIs DEF Values
  <2>3. ASSUME NEW z \in Machines PROVE Exec(z, i) \in Machines /\ Exec(z, i).r["RBX"] = v
    <3>1. Exec(z, i) = Written(z, 10, "RBX", v)
      BY <2>1, ExecMOV64
    <3> HIDE DEF i
    <3>2. Leaves(z, 10, "RBX", v, Exec(z, i))
      BY <2>1, <2>2, <3>1, WrittenIs
    <3> QED BY <2>2, <3>2 DEF Leaves
  <2>4. Works(i)
    BY <2>3 DEF Works
  <2>5. ConstantX86(v) = <<i>> \o PushX86
    BY DEF ConstantX86
  <2> HIDE DEF i
  <2>6. Good(<<i>>) /\ Ran(m, <<i>>) = Exec(m, i) /\ Exec(m, i) \in Machines
    BY <1>1, <2>4, RanOne
  <2>7. Good(PushX86) /\ Ran(Exec(m, i), PushX86).r = Exec(m, i).r
    BY <2>6, Idle
  <2>8. Ran(m, <<i>> \o PushX86) = Ran(Exec(m, i), PushX86)
    BY <1>1, <2>6, <2>7, RanConcat
  <2> QED BY <1>1, <2>3, <2>5, <2>7, <2>8
<1> QED BY <1>2, <1>3

-----------------------------------------------------------------------------
(* The tables.                                                             *)
Entry_ == [addr : Values, body : Values, runs : BOOLEAN, exec : Values]

LEMMA RunsIs == Runs \in Seq(Entry_)
<1> DEFINE n == Len(Exported)
           P == 1 .. n
           S == Seq(Entry_)
           step == [k \in P |-> [z \in S |-> IF Exported[k].runs THEN Append(z, Exported[k]) ELSE z]]
           pick == [s \in SUBSET P |-> Max(s)]
           iter == CHOOSE it : it = [s \in SUBSET P |-> IF s = {} THEN <<>>
                     ELSE IF Exported[Max(s)].runs THEN Append(it[s \ {Max(s)}], Exported[Max(s)])
                          ELSE it[s \ {Max(s)}]]
<1>1. n \in Nat /\ DOMAIN Exported = P /\ \A k \in P : Exported[k] \in Entry_
  BY CellAssumption, LenProperties, ElementOfSeq DEF Entry_
<1>2. Runs = iter[P]
  BY <1>1 DEF Runs, FoldLeft, MapThenFoldSet
<1> HIDE DEF n
<1>3. Picks(P, pick) /\ IsFiniteSet(P)
  <2>1. Picks(P, pick)
    BY <1>1, HasMax DEF Picks
  <2>2. 1 \in Int /\ n \in Int
    BY <1>1
  <2> HIDE DEF pick
  <2> QED BY <2>1, <2>2, FS_Interval
<1>4. \A s \in SUBSET P : s # {} => Max(s) \in P /\ s \ {Max(s)} \in SUBSET P /\ pick[s] = Max(s)
  <2> SUFFICES ASSUME NEW s \in SUBSET P, s # {}
               PROVE  Max(s) \in P /\ s \ {Max(s)} \in SUBSET P /\ pick[s] = Max(s)
    OBVIOUS
  <2>1. Max(s) \in s
    BY <1>1, HasMax
  <2> QED BY <2>1
<1> HIDE DEF P, iter, pick
<1>5. step \in [P -> [S -> S]]
  <2>1. ASSUME NEW k \in P, NEW z \in S PROVE Append(z, Exported[k]) \in S
    <3>1. Exported[k] \in Entry_
      BY <1>1
    <3> QED BY <3>1, AppendProperties
  <2> HIDE DEF S
  <2> QED BY <2>1
<1>6. \A k \in P : \A z \in S : step[k][z] = IF Exported[k].runs THEN Append(z, Exported[k]) ELSE z
  OBVIOUS
<1>7. <<>> \in S
  OBVIOUS
<1> HIDE DEF step, S
<1> DEFINE base == <<>>
<1>70. base \in S
  BY <1>7
<1> HIDE DEF base
<1>8. PICK f \in [SUBSET P -> S] : Folded(f, P, base, step, pick)
  BY <1>3, <1>5, <1>70, Folding
<1>9. f = [s \in SUBSET P |-> IF s = {} THEN <<>>
             ELSE IF Exported[Max(s)].runs THEN Append(f[s \ {Max(s)}], Exported[Max(s)]) ELSE f[s \ {Max(s)}]]
  <2>1. \A s \in SUBSET P : f[s] = IF s = {} THEN base
          ELSE IF Exported[Max(s)].runs THEN Append(f[s \ {Max(s)}], Exported[Max(s)]) ELSE f[s \ {Max(s)}]
    <3> SUFFICES ASSUME NEW s \in SUBSET P
                 PROVE  f[s] = IF s = {} THEN base
                          ELSE IF Exported[Max(s)].runs THEN Append(f[s \ {Max(s)}], Exported[Max(s)])
                               ELSE f[s \ {Max(s)}]
      OBVIOUS
    <3>1. f[s] = IF s = {} THEN base ELSE step[pick[s]][f[s \ {pick[s]}]]
      BY <1>8 DEF Folded
    <3>2. CASE s = {}
      BY <3>1, <3>2
    <3>3. CASE s # {}
      <4> DEFINE k == Max(s)
                 z == f[s \ {k}]
      <4>1. k \in P /\ z \in S /\ pick[s] = k
        BY <1>4, <1>8, <3>3
      <4>2. f[s] = step[k][z]
        BY <3>1, <3>3, <4>1
      <4>3. step[k][z] = IF Exported[k].runs THEN Append(z, Exported[k]) ELSE z
        <5> HIDE DEF k, z
        <5> QED BY <1>6, <4>1
      <4> QED BY <3>3, <4>2, <4>3
    <3> QED BY <3>2, <3>3
  <2> QED BY <2>1 DEF base
<1>10. iter = [s \in SUBSET P |-> IF s = {} THEN <<>>
             ELSE IF Exported[Max(s)].runs THEN Append(iter[s \ {Max(s)}], Exported[Max(s)])
                  ELSE iter[s \ {Max(s)}]]
  BY <1>9, Zenon DEF iter
<1>11. Continues(iter, P, base, S, step, pick)
  <2>1. iter[{}] = base
    <3>1. {} \in SUBSET P
      OBVIOUS
    <3> QED BY <1>10, <3>1 DEF base
  <2>2. ASSUME NEW s \in SUBSET P, s # {}, iter[s \ {pick[s]}] \in S
        PROVE  iter[s] = step[pick[s]][iter[s \ {pick[s]}]]
    <3>1. iter[s] = IF Exported[Max(s)].runs THEN Append(iter[s \ {Max(s)}], Exported[Max(s)])
                    ELSE iter[s \ {Max(s)}]
      BY <1>10, <2>2
    <3> DEFINE k == Max(s)
               z == iter[s \ {k}]
    <3>2. k \in P /\ z \in S /\ pick[s] = k
      BY <1>4, <2>2
    <3>3. step[k][z] = IF Exported[k].runs THEN Append(z, Exported[k]) ELSE z
      <4> HIDE DEF k, z
      <4> QED BY <1>6, <3>2
    <3> QED BY <3>1, <3>2, <3>3
  <2> QED BY <2>1, <2>2 DEF Continues
<1>12. Agrees(iter, f, P)
  BY <1>3, <1>5, <1>70, <1>8, <1>11, FoldAgrees
<1>13. iter[P] = f[P] /\ f[P] \in S
  <2>1. P \in SUBSET P
    OBVIOUS
  <2> QED BY <1>8, <1>12, <2>1 DEF Agrees
<1> QED BY <1>2, <1>13 DEF S

TableFacts(n, r) ==
  /\ n \in Nat /\ r \in Nat /\ WordCount = n /\ PltCount = n + r
  /\ Len(Got) = 2 * n + r /\ DOMAIN Got = 1 .. 2 * n + r
  /\ \A i \in 1 .. 2 * n + r : Got[i] \in Values

LEMMA Tabled == \E n, r : TableFacts(n, r)
<1> DEFINE n == Len(Exported)
           r == Len(Runs)
<1>1. n \in Nat /\ DOMAIN Exported = 1 .. n /\ \A k \in 1 .. n : Exported[k] \in Entry_
  BY CellAssumption, LenProperties, ElementOfSeq DEF Entry_
<1>2. r \in Nat /\ DOMAIN Runs = 1 .. r /\ \A k \in 1 .. r : Runs[k] \in Entry_
  BY RunsIs, LenProperties, ElementOfSeq
<1>3. WordCount = n /\ PltCount = n + r
  BY DEF WordCount, PltCount
<1> HIDE DEF n, r
<1>4. GotWords \in Seq(Values) /\ Len(GotWords) = n
  <2>1. GotWords \in [1 .. n -> Values]
    BY <1>1 DEF GotWords, Fields, Entry_
  <2> QED BY <1>1, <2>1
<1>5. GotBodies \in Seq(Values) /\ Len(GotBodies) = n
  <2>1. GotBodies \in [1 .. n -> Values]
    BY <1>1 DEF GotBodies, Fields, Entry_
  <2> QED BY <1>1, <2>1
<1>6. GotExecs \in Seq(Values) /\ Len(GotExecs) = r
  <2>1. GotExecs \in [1 .. r -> Values]
    BY <1>2 DEF GotExecs, Fields, Entry_
  <2> QED BY <1>2, <2>1
<1>7. GotWords \o GotBodies \in Seq(Values) /\ Len(GotWords \o GotBodies) = n + n
  BY <1>4, <1>5, ConcatProperties
<1>8. Got \in Seq(Values) /\ Len(Got) = (n + n) + r
  BY <1>6, <1>7, ConcatProperties DEF Got
<1>9. (n + n) + r = 2 * n + r
  BY <1>1, <1>2
<1>10. DOMAIN Got = 1 .. Len(Got) /\ \A i \in 1 .. Len(Got) : Got[i] \in Values
  BY <1>8, LenProperties, ElementOfSeq
<1>11. TableFacts(n, r)
  BY <1>1, <1>2, <1>3, <1>8, <1>9, <1>10 DEF TableFacts
<1> QED BY <1>11

LEMMA Least ==
  ASSUME NEW S, S \subseteq Nat, S # {}
  PROVE  Min(S) \in S
<1>1. PICK x \in S : \A y \in S : x <= y
  BY Smallest
<1> QED BY <1>1 DEF Min

LEMMA Only ==
  ASSUME NEW x \in Nat
  PROVE  Min({x}) = x
<1>1. {x} \subseteq Nat /\ {x} # {}
  OBVIOUS
<1>2. Min({x}) \in {x}
  BY <1>1, Least
<1> QED BY <1>2

LEMMA LowIsWide == 2 ^ Low \in Nat /\ 8 <= 2 ^ Low /\ 2 ^ Low < 2 ^ Half /\ 2 ^ Low <= 2 ^ (Half - 1)
<1>1. PICK l, q, b : Sizes(l, q, b)
  BY Widths
<1>2. l \in Nat \ {0} /\ 2 ^ Low = 2 * l /\ 2 ^ (Low - 1) = l /\ Half < l /\ Half \in Nat /\ Low \in Nat \ {0} /\ Low < Half
      /\ 2 ^ Half = 2 * b /\ 2 ^ (Half - 1) = b /\ l < b /\ b \in Nat /\ q \in Nat \ {0} /\ b = (2 * l) * q
  BY <1>1, WidthAssumption DEF Sizes
<1>3. l >= 4
  <2>1. CASE Low = 1
    <3>1. l = 2 ^ 0
      BY <1>2, <2>1
    <3> QED BY <1>2, <2>1, <3>1, Unit
  <2>2. CASE Low # 1
    BY <1>2, <2>2
  <2> QED BY <2>1, <2>2
<1>4. 2 * l <= b
  <2>1. (2 * l) * 1 <= (2 * l) * q
    BY <1>2, Monotonic
  <2> QED BY <1>2, <2>1
<1> QED BY <1>2, <1>3, <1>4

(* The distance of two places of the code and the tables. *)
Placed(x) == x \in Int /\ Start <= x /\ x <= Start + TableBytes(16) + 18
At(h) == h \in {FirstHere, FirstHere + 18}

LEMMA PlacedIs ==
  ASSUME NEW x, Placed(x)
  PROVE  x \in Values /\ AsCell(x) = x /\ x \in Int /\ \A y : Placed(y) => Reached(x - y)
<1>1. Start \in Nat /\ Start + TableBytes(16) + 18 < CellMod
      /\ TableBytes(16) + 18 < 2 ^ (Half - 1) - 2 ^ Low
  BY CellAssumption
<1>2. TableBytes(16) \in Int /\ CellMod \in Int
  <2>1. PICK n, r : TableFacts(n, r)
    BY Tabled
  <2>2. Len(Got) \in Int /\ PltCount \in Int /\ GotBytes \in Int
    BY <2>1, CellAssumption DEF TableFacts
  <2> QED BY <2>2, HalfCell DEF TableBytes
<1>3. x \in Values /\ x \in Int
  BY <1>1, <1>2 DEF Placed, Values
<1>4. AsCell(x) = x
  BY <1>3, CellIs DEF Values
<1>5. ASSUME NEW y, Placed(y) PROVE Reached(x - y)
  <2>1. 2 ^ (Half - 1) \in Int /\ 2 ^ Low \in Int
    <3>1. Half \in Nat \ {0}
      BY HalfCell
    <3> QED BY <3>1, Halves, LowIsWide
  <2> DEFINE t == TableBytes(16)
             b == 2 ^ (Half - 1)
             l == 2 ^ Low
  <2>2. t \in Int /\ b \in Int /\ l \in Int /\ t + 18 < b - l
    BY <1>1, <1>2, <2>1
  <2>3. x \in Int /\ y \in Int /\ Start \in Int /\ Start <= x /\ x <= Start + t + 18 /\ Start <= y /\ y <= Start + t + 18
    BY <1>1, <1>5 DEF Placed
  <2>4. Reached(x - y) <=> (-b + l <= x - y /\ x - y < b - l)
    BY DEF Reached
  <2> HIDE DEF t, b, l
  <2> QED BY <2>2, <2>3, <2>4
<1> QED BY <1>3, <1>4, <1>5

LEMMA TablePlaces ==
  ASSUME NEW n, NEW r, TableFacts(n, r)
  PROVE  /\ \A i \in 1 .. 2 * n + r : Placed(GotAddr(i))
         /\ \A i \in 1 .. n + r : Placed(PltAddr(i)) /\ PltAddr(i) <= FirstHere
         /\ \A h : At(h) => Placed(h)
         /\ \A i, k \in 1 .. 2 * n + r : GotAddr(i) = GotAddr(k) => i = k
         /\ \A i, k \in 1 .. n + r : PltAddr(i) = PltAddr(k) => i = k
         /\ FirstHere \in Int
<1> DEFINE g == GotBytes
           s == PltBytes
           l == 2 * n + r
           p == n + r
           lg == l * g
           t == g * (lg + p * s)
           u == g * (lg + p * 16)
<1>1. n \in Nat /\ r \in Nat /\ Len(Got) = l /\ PltCount = p /\ l \in Nat /\ p \in Nat
  BY DEF TableFacts
<1>2. Start \in Nat /\ g \in Nat \ {0} /\ s \in {9, 16} /\ s \in Nat
  BY CellAssumption DEF PltBytes
<1>3. TableBytes(16) = u /\ FirstHere = Start + t
  BY <1>1 DEF TableBytes, FirstHere
<1>4. PltStart = Start + lg /\ \A i : PltAddr(i) = Start + lg + (i - 1) * s /\ GotAddr(i) = Start + (i - 1) * g
  BY <1>1 DEF PltStart, PltAddr, GotAddr
<1> HIDE DEF g, s, l, p
<1>5. lg \in Nat /\ p * s \in Nat /\ p * 16 \in Nat /\ p * s <= p * 16
  <2>1. lg \in Nat /\ p * s \in Nat /\ p * 16 \in Nat
    BY <1>1, <1>2
  <2>2. p * s <= p * 16
    <3>1. s \in Int /\ 16 \in Int /\ s <= 16
      BY <1>2
    <3> QED BY <1>1, <3>1, Monotonic
  <2> QED BY <2>1, <2>2
<1>6. t \in Nat /\ u \in Nat /\ t <= u /\ lg + p * s <= t
  <2> DEFINE a == lg + p * s
             b == lg + p * 16
  <2>1. a \in Nat /\ b \in Nat /\ a <= b
    BY <1>5
  <2> HIDE DEF a, b
  <2>2. g * a <= g * b /\ g * a \in Nat /\ g * b \in Nat
    BY <1>2, <2>1, Monotonic
  <2>3. a * 1 <= a * g /\ a * g = g * a /\ a * 1 = a
    <3>1. a * 1 <= a * g
      <4>1. 1 \in Int /\ g \in Int /\ 1 <= g
        BY <1>2
      <4> QED BY <2>1, <4>1, Monotonic
    <3> QED BY <1>2, <2>1, <3>1
  <2>4. a <= g * a
    BY <2>3
  <2> QED BY <2>2, <2>4 DEF a, b
<1> HIDE DEF t, u
<1>7. ASSUME NEW i \in 1 .. l PROVE Placed(GotAddr(i))
  <2>1. g * (i - 1) <= g * l /\ g * (i - 1) \in Nat /\ g * l = lg /\ (i - 1) * g = g * (i - 1)
    <3>1. i - 1 \in Nat /\ i - 1 <= l
      BY <1>1
    <3>2. g * (i - 1) <= g * l
      BY <1>1, <1>2, <3>1, Monotonic
    <3>3. g * (i - 1) \in Nat
      BY <1>2, <3>1, Product
    <3> QED BY <1>1, <1>2, <3>1, <3>2, <3>3
  <2> DEFINE e == g * (i - 1)
             f == p * s
  <2>2. e <= lg /\ e \in Nat /\ GotAddr(i) = Start + e /\ f \in Nat /\ lg + f <= t
    BY <1>4, <1>5, <1>6, <2>1
  <2> HIDE DEF e, f, lg
  <2>3. Start + e \in Int /\ Start <= Start + e /\ Start + e <= Start + u + 18
    BY <1>2, <1>5, <1>6, <2>2
  <2> QED BY <1>3, <2>2, <2>3 DEF Placed
<1>8. ASSUME NEW i \in 1 .. p PROVE Placed(PltAddr(i)) /\ PltAddr(i) <= FirstHere
  <2>1. s * (i - 1) <= s * p /\ s * (i - 1) \in Nat /\ s * p = p * s /\ (i - 1) * s = s * (i - 1)
    <3>1. i - 1 \in Nat /\ i - 1 <= p
      BY <1>1
    <3>2. s * (i - 1) <= s * p
      BY <1>1, <1>2, <3>1, Monotonic
    <3>3. s * (i - 1) \in Nat
      BY <1>2, <3>1, Product
    <3> QED BY <1>1, <1>2, <3>1, <3>2, <3>3
  <2> DEFINE e == s * (i - 1)
             f == p * s
  <2>2. e <= f /\ e \in Nat /\ PltAddr(i) = Start + lg + e /\ f \in Nat /\ lg + f <= t
    BY <1>4, <1>5, <1>6, <2>1
  <2> HIDE DEF e, f, lg
  <2>3. Start + lg + e \in Int /\ Start <= Start + lg + e /\ Start + lg + e <= Start + u + 18
        /\ Start + lg + e <= Start + t
    BY <1>2, <1>5, <1>6, <2>2
  <2> QED BY <1>3, <2>2, <2>3 DEF Placed
<1>9. ASSUME NEW h, At(h) PROVE Placed(h)
  <2>1. h \in {Start + t, Start + t + 18}
    BY <1>3, <1>9 DEF At
  <2>2. h \in Int /\ Start <= h /\ h <= Start + u + 18
    BY <1>2, <1>6, <2>1
  <2> QED BY <1>3, <2>2 DEF Placed
<1>10. ASSUME NEW x \in Nat \ {0}, NEW i \in Nat, NEW k \in Nat, (i - 1) * x = (k - 1) * x PROVE i = k
  <2> DEFINE a == i - 1
             c == k - 1
             y == x * a
  <2>1. a \in Int /\ c \in Int /\ x * a = x * c /\ y = x * a + 0 /\ y = x * c + 0 /\ 0 \in 0 .. x - 1 /\ y \in Int
    <3>1. a \in Int /\ c \in Int /\ a * x = c * x
      BY <1>10
    <3> HIDE DEF a, c
    <3>2. x * a = x * c
      BY <3>1
    <3> QED BY <3>1, <3>2
  <2> HIDE DEF a, c, y
  <2>2. y \div x = a /\ y \div x = c
    BY <2>1, Unique
  <2> QED BY <2>2 DEF a, c
<1>11. \A i, k \in 1 .. l : GotAddr(i) = GotAddr(k) => i = k
  <2> SUFFICES ASSUME NEW i \in 1 .. l, NEW k \in 1 .. l, GotAddr(i) = GotAddr(k) PROVE i = k
    OBVIOUS
  <2>1. i \in Nat /\ k \in Nat
    BY <1>1
  <2>2. (i - 1) * g \in Int /\ (k - 1) * g \in Int
    BY <1>2, <2>1
  <2>3. (i - 1) * g = (k - 1) * g
    BY <1>2, <1>4, <2>2
  <2> QED BY <1>2, <1>10, <2>1, <2>3
<1>12. \A i, k \in 1 .. p : PltAddr(i) = PltAddr(k) => i = k
  <2> SUFFICES ASSUME NEW i \in 1 .. p, NEW k \in 1 .. p, PltAddr(i) = PltAddr(k) PROVE i = k
    OBVIOUS
  <2>1. i \in Nat /\ k \in Nat
    BY <1>1
  <2>2. (i - 1) * s \in Int /\ (k - 1) * s \in Int
    BY <1>2, <2>1
  <2>3. (i - 1) * s = (k - 1) * s
    BY <1>2, <1>4, <1>5, <2>2
  <2>4. s \in Nat \ {0}
    BY <1>2
  <2> QED BY <1>10, <2>1, <2>3, <2>4
<1>13. FirstHere \in Int
  BY <1>2, <1>3, <1>6
<1> QED BY <1>7, <1>8, <1>9, <1>11, <1>12, <1>13 DEF l, p

-----------------------------------------------------------------------------
(* Code that is relative to its place.                                     *)
LEMMA WithinReach ==
  ASSUME NEW y \in Int, Reached(y)
  PROVE  /\ Wide(y) /\ Int32(y) = y /\ Int32(y - 7) = y - 7 /\ Int32(y - 5) = y - 5
         /\ Int32(Upper(y) * 2 ^ Low) = y - Lower(y)
         /\ Upper(y) \in Int /\ Lower(y) \in Int /\ Sext(Lower(y), Low) = Lower(y)
<1>1. PICK l, q, b : Sizes(l, q, b)
  BY Widths
<1>2. b \in Nat \ {0} /\ 2 ^ (Half - 1) = b /\ l \in Nat \ {0} /\ 2 ^ Low = 2 * l /\ l < b
  BY <1>1 DEF Sizes
<1>3. -b + 2 * l <= y /\ y < b - 2 * l /\ 8 <= 2 * l
  BY <1>2, LowIsWide DEF Reached
<1>4. -b <= y /\ y < b /\ y < b - l
  BY <1>2, <1>3
<1>5. Wide(y)
  BY <1>2, <1>4 DEF Wide
<1>6. Int32(Upper(y) * 2 ^ Low) = y - Lower(y) /\ Upper(y) \in Int /\ Lower(y) \in Int
      /\ Sext(Lower(y), Low) = Lower(y)
  BY <1>1, <1>4, <1>5, Splits, Recombined
<1>7. ASSUME NEW x \in Int, -b <= x, x < b PROVE Int32(x) = x
  BY <1>2, <1>7, HalfCell, SextKeeps DEF Int32
<1>8. Int32(y) = y
  BY <1>4, <1>7
<1>9. y - 7 \in Int /\ -b <= y - 7 /\ y - 7 < b /\ y - 5 \in Int /\ -b <= y - 5 /\ y - 5 < b
  BY <1>2, <1>3
<1>10. Int32(y - 7) = y - 7 /\ Int32(y - 5) = y - 5
  BY <1>7, <1>9
<1> QED BY <1>5, <1>6, <1>8, <1>10

(* AUIPC and what adds the lower part to its register. *)
Based(m, z, reg, y) ==
  /\ z \in Machines /\ AsCell(z.r[reg] + Lower(y)) = AsCell(m.pc + y)
  /\ Lower(y) = 0 => z.r[reg] = AsCell(m.pc + y)
  /\ z.r["X0"] = 0

LEMMA BasedIs ==
  ASSUME NEW m \in Machines, NEW reg \in Targets, NEW y \in Int, Reached(y)
  PROVE  Works(<<"AUIPC", reg, Upper(y)>>) /\ Based(m, Exec(m, <<"AUIPC", reg, Upper(y)>>), reg, y)
<1> DEFINE i == <<"AUIPC", reg, Upper(y)>>
           e == y - Lower(y)
<1>1. Int32(Upper(y) * 2 ^ Low) = e /\ Lower(y) \in Int /\ e \in Int
  BY WithinReach
<1>2. ASSUME NEW z \in Machines
      PROVE  Leaves(z, 4, reg, z.pc + e, Exec(z, i)) /\ z.pc \in Int
  <2>1. Exec(z, i) = Written(z, 4, reg, z.pc + Int32(Upper(y) * 2 ^ Low))
    BY ExecAUIPC
  <2>2. z.pc \in Int
    BY DEF Machines
  <2> HIDE DEF i, e
  <2>3. z.pc + e \in Int /\ 4 \in Int
    BY <1>1, <2>2
  <2>4. Exec(z, i) = Written(z, 4, reg, z.pc + e)
    BY <1>1, <2>1
  <2> QED BY <2>2, <2>3, <2>4, WrittenIs
<1>3. Works(i)
  BY <1>2 DEF Works, Leaves
<1> DEFINE z == Exec(m, i)
<1>4. z \in Machines /\ z.r[reg] = AsCell(m.pc + e) /\ m.pc \in Int
  BY <1>2 DEF Leaves
<1> HIDE DEF z, i
<1>5. AsCell(z.r[reg] + Lower(y)) = AsCell(m.pc + y)
  <2> DEFINE v == m.pc + e
  <2>1. v \in Int /\ v + Lower(y) = m.pc + y
    BY <1>1, <1>4
  <2> HIDE DEF v
  <2>2. AsCell(AsCell(v) + Lower(y)) = AsCell(v + Lower(y))
    BY <1>1, <2>1, SumCell
  <2> QED BY <1>4, <2>1, <2>2 DEF v
<1>6. Lower(y) = 0 => z.r[reg] = AsCell(m.pc + y)
  <2>1. ASSUME Lower(y) = 0 PROVE m.pc + e = m.pc + y
    BY <1>1, <1>4, <2>1
  <2> QED BY <1>4, <2>1
<1>7. z.r["X0"] = 0
  BY <1>4 DEF Machines
<1> QED BY <1>3, <1>4, <1>5, <1>6, <1>7 DEF Based, z, i

LEMMA WorkingLD ==
  ASSUME NEW reg \in Targets, NEW a \in Names, NEW u \in Int
  PROVE  Works(<<"LD", reg, a, u>>) /\ \A x : Memory(x) \in Int
<1>1. \A x : Memory(x) \in Int
  <2> SUFFICES ASSUME NEW x PROVE Memory(x) \in Int
    OBVIOUS
  <2>1. PICK n, r : TableFacts(n, r)
    BY Tabled
  <2> DEFINE S == {i \in DOMAIN Got : GotAddr(i) = AsCell(x)}
  <2>2. CASE S = {}
    BY <2>2 DEF Memory, Found
  <2>3. CASE S # {}
    <3>1. S \subseteq Nat /\ S \subseteq DOMAIN Got /\ \A k \in DOMAIN Got : Got[k] \in Int
      BY <2>1 DEF TableFacts, Values
    <3>2. Memory(x) = Got[Min(S)]
      BY <2>3 DEF Memory, Found
    <3> HIDE DEF S
    <3>3. Min(S) \in S
      BY <2>3, <3>1, Least
    <3> QED BY <3>1, <3>2, <3>3
  <2> QED BY <2>2, <2>3
<1>2. ASSUME NEW m \in Machines PROVE Exec(m, <<"LD", reg, a, u>>) \in Machines
  <2> DEFINE v == Memory(m.r[a] + Sext(u, Low))
  <2>1. Exec(m, <<"LD", reg, a, u>>) = Written(m, 4, reg, v)
    BY ExecLD
  <2>2. v \in Int /\ 4 \in Int
    BY <1>1
  <2> HIDE DEF v
  <2>3. Leaves(m, 4, reg, v, Written(m, 4, reg, v))
    BY <2>2, WrittenIs
  <2> QED BY <2>1, <2>3 DEF Leaves
<1> QED BY <1>1, <1>2 DEF Works

LEMMA Remembered ==
  ASSUME NEW n, NEW r, TableFacts(n, r), NEW k \in 1 .. 2 * n + r, NEW x, AsCell(x) = GotAddr(k)
  PROVE  Memory(x) = Got[k] /\ Got[k] \in Values /\ AsCell(Got[k]) = Got[k] /\ Got[k] \in Int
<1>1. DOMAIN Got = 1 .. 2 * n + r /\ Got[k] \in Values /\ n \in Nat /\ r \in Nat
  BY DEF TableFacts
<1>2. {i \in DOMAIN Got : GotAddr(i) = AsCell(x)} = {k}
  BY <1>1, TablePlaces
<1>3. k \in Nat
  BY <1>1
<1>4. Min({k}) = k /\ {k} # {}
  BY <1>3, Only
<1>5. Memory(x) = Got[k]
  BY <1>2, <1>4 DEF Memory, Found
<1>6. AsCell(Got[k]) = Got[k] /\ Got[k] \in Int
  BY <1>1, CellIs DEF Values
<1> QED BY <1>1, <1>5, <1>6

LEMMA Pushes ==
  ASSUME NEW at \in Int, NEW s, Good(s)
  PROVE  /\ Run(s \o PushRV, at).r = Ran(Boot(at), s).r
         /\ Run(s \o PushX86, at).r = Ran(Boot(at), s).r
<1> DEFINE m == Boot(at)
           x == Ran(m, s)
<1>1. m \in Machines /\ \A is : Run(is, at) = Ran(m, is)
  BY BootIs
<1> HIDE DEF m
<1>2. x \in Machines
  BY <1>1, RanNone, RanConcat
<1> HIDE DEF x
<1>3. Good(PushRV) /\ Ran(x, PushRV).r = x.r /\ Good(PushX86) /\ Ran(x, PushX86).r = x.r
  BY <1>2, Idle
<1>4. Ran(m, s \o PushRV) = Ran(x, PushRV) /\ Ran(m, s \o PushX86) = Ran(x, PushX86)
  BY <1>1, <1>3, RanConcat DEF x
<1> QED BY <1>1, <1>3, <1>4 DEF x, m

(* The three forms of an address on RISC-V.                                *)
LEMMA AddressLoadsRV ==
  ASSUME NEW at \in Int, NEW y \in Int, Reached(y)
  PROVE  /\ Run(<<<<"AUIPC", "A2", Upper(y)>>>> \o <<<<"ADDI", "A2", "A2", Lower(y)>>>> \o PushRV, at).r["A2"] =
              AsCell(at + y)
         /\ Lower(y) = 0 => Run(<<<<"AUIPC", "A2", Upper(y)>>>> \o PushRV, at).r["A2"] = AsCell(at + y)
         /\ \A n, r : TableFacts(n, r) => \A k \in 1 .. 2 * n + r : AsCell(at + y) = GotAddr(k) =>
              Run(<<<<"AUIPC", "A2", Upper(y)>>>> \o <<<<"LD", "A2", "A2", Lower(y)>>>> \o PushRV, at).r["A2"] =
                Got[k]
<1> DEFINE m == Boot(at)
           i == <<"AUIPC", "A2", Upper(y)>>
           j == <<"ADDI", "A2", "A2", Lower(y)>>
           k == <<"LD", "A2", "A2", Lower(y)>>
           z == Exec(m, i)
<1>1. m \in Machines /\ m.pc = at
  BY BootIs DEF Boot
<1> HIDE DEF m
<1>2. "A2" \in Targets /\ "A2" \in Names /\ 4 \in Int
  BY DEF Targets, Names
<1>3. Lower(y) \in Int /\ Sext(Lower(y), Low) = Lower(y)
  BY WithinReach
<1>4. Works(i) /\ Based(m, z, "A2", y)
  BY <1>1, <1>2, BasedIs
<1>5. Works(j) /\ Works(k)
  BY <1>2, <1>3, WorkingADDI, WorkingLD
<1>6. z \in Machines /\ AsCell(z.r["A2"] + Lower(y)) = AsCell(at + y)
      /\ (Lower(y) = 0 => z.r["A2"] = AsCell(at + y))
  BY <1>1, <1>4 DEF Based
<1> HIDE DEF z
<1>7. z.r["A2"] + Lower(y) \in Int
  BY <1>2, <1>3, <1>6, RegisterIs
<1>8. Exec(z, j).r["A2"] = AsCell(at + y)
  <2> DEFINE v == z.r["A2"] + Lower(y)
  <2>1. Exec(z, j) = Written(z, 4, "A2", v)
    <3>1. Exec(z, j) = Written(z, 4, "A2", z.r["A2"] + Sext(Lower(y), Low))
      BY <1>2, <1>6, ExecADDI
    <3> QED BY <1>3, <3>1
  <2> HIDE DEF j, v
  <2>2. Leaves(z, 4, "A2", v, Exec(z, j))
    BY <1>2, <1>6, <1>7, <2>1, WrittenIs DEF v
  <2> QED BY <1>6, <2>2 DEF Leaves, v
<1>9. ASSUME NEW n, NEW r, TableFacts(n, r), NEW e \in 1 .. 2 * n + r, AsCell(at + y) = GotAddr(e)
      PROVE  Exec(z, k).r["A2"] = Got[e]
  <2> DEFINE v == Memory(z.r["A2"] + Lower(y))
  <2>1. Exec(z, k) = Written(z, 4, "A2", v)
    <3>1. Exec(z, k) = Written(z, 4, "A2", Memory(z.r["A2"] + Sext(Lower(y), Low)))
      BY <1>2, <1>6, ExecLD
    <3> QED BY <1>3, <3>1
  <2>2. v = Got[e] /\ AsCell(v) = Got[e] /\ v \in Int
    <3> DEFINE x == z.r["A2"] + Lower(y)
    <3>1. AsCell(x) = GotAddr(e)
      BY <1>6, <1>9
    <3> HIDE DEF x
    <3>2. Memory(x) = Got[e] /\ AsCell(Got[e]) = Got[e] /\ Got[e] \in Int
      BY <1>9, <3>1, Remembered
    <3> QED BY <3>2 DEF x
  <2> HIDE DEF k, v
  <2>3. Leaves(z, 4, "A2", v, Exec(z, k))
    BY <1>2, <1>6, <2>1, <2>2, WrittenIs
  <2> QED BY <2>2, <2>3 DEF Leaves
<1>10. /\ Good(<<i>>) /\ Ran(m, <<i>>) = z
       /\ Good(<<i>> \o <<j>>) /\ Ran(m, <<i>> \o <<j>>) = Exec(z, j)
       /\ Good(<<i>> \o <<k>>) /\ Ran(m, <<i>> \o <<k>>) = Exec(z, k)
  <2> HIDE DEF i, j, k
  <2>1. Good(<<i>>) /\ Ran(m, <<i>>) = z
    BY <1>1, <1>4, RanOne DEF z
  <2>2. Good(<<j>>) /\ Ran(z, <<j>>) = Exec(z, j) /\ Good(<<k>>) /\ Ran(z, <<k>>) = Exec(z, k)
    BY <1>5, <1>6, RanOne
  <2> QED BY <1>1, <2>1, <2>2, RanConcat
<1>11. /\ Run(<<i>> \o PushRV, at).r = z.r
       /\ Run((<<i>> \o <<j>>) \o PushRV, at).r = Exec(z, j).r
       /\ Run((<<i>> \o <<k>>) \o PushRV, at).r = Exec(z, k).r
  <2> HIDE DEF i, j, k
  <2> QED BY <1>10, Pushes DEF m
<1>12. Run(<<i>> \o <<j>> \o PushRV, at).r["A2"] = AsCell(at + y)
  <2> HIDE DEF i, j, k
  <2> QED BY <1>8, <1>11
<1>13. Lower(y) = 0 => Run(<<i>> \o PushRV, at).r["A2"] = AsCell(at + y)
  <2> HIDE DEF i, j, k
  <2> QED BY <1>6, <1>11
<1>14. \A n, r : TableFacts(n, r) => \A e \in 1 .. 2 * n + r : AsCell(at + y) = GotAddr(e) =>
         Run(<<i>> \o <<k>> \o PushRV, at).r["A2"] = Got[e]
  <2> HIDE DEF i, j, k
  <2> QED BY <1>9, <1>11
<1> QED BY <1>12, <1>13, <1>14

LEMMA AddressLoadsX86 ==
  ASSUME NEW at \in Int, NEW y \in Int, Reached(y)
  PROVE  /\ Run(<<<<"LEA", "RBX", y - 7>>>> \o PushX86, at).r["RBX"] = AsCell(at + y)
         /\ \A n, r : TableFacts(n, r) => \A k \in 1 .. 2 * n + r : AsCell(at + y) = GotAddr(k) =>
              Run(<<<<"TAKE", "RBX", y - 7>>>> \o PushX86, at).r["RBX"] = Got[k]
<1> DEFINE m == Boot(at)
           i == <<"LEA", "RBX", y - 7>>
           j == <<"TAKE", "RBX", y - 7>>
<1>1. m \in Machines /\ m.pc = at
  BY BootIs DEF Boot
<1> HIDE DEF m
<1>2. "RBX" \in Targets /\ "RBX" \in Names /\ 7 \in Int
  BY DEF Targets, Names
<1>3. Int32(y - 7) = y - 7
  BY WithinReach
<1>4. \A z \in Machines : /\ z.pc \in Int /\ (z.pc + 7) + Int32(y - 7) = z.pc + y
                          /\ Exec(z, i) = Written(z, 7, "RBX", z.pc + y)
                          /\ Exec(z, j) = Written(z, 7, "RBX", Memory(z.pc + y))
  <2> SUFFICES ASSUME NEW z \in Machines
               PROVE  /\ z.pc \in Int /\ (z.pc + 7) + Int32(y - 7) = z.pc + y
                      /\ Exec(z, i) = Written(z, 7, "RBX", z.pc + y)
                      /\ Exec(z, j) = Written(z, 7, "RBX", Memory(z.pc + y))
    OBVIOUS
  <2>1. z.pc \in Int
    BY DEF Machines
  <2>2. (z.pc + 7) + Int32(y - 7) = z.pc + y
    BY <1>3, <2>1
  <2>3. /\ Exec(z, i) = Written(z, 7, "RBX", (z.pc + 7) + Int32(y - 7))
        /\ Exec(z, j) = Written(z, 7, "RBX", Memory((z.pc + 7) + Int32(y - 7)))
    BY <1>2, ExecLEA, ExecTAKE
  <2> HIDE DEF i, j
  <2> QED BY <2>1, <2>2, <2>3
<1> HIDE DEF i, j
<1>5. \A z \in Machines : z.pc + y \in Int /\ Memory(z.pc + y) \in Int
  <2>1. \A x : Memory(x) \in Int
    <3> DEFINE u == 0
    <3>1. u \in Int
      OBVIOUS
    <3> HIDE DEF u
    <3> QED BY <1>2, <3>1, WorkingLD
  <2>2. \A z \in Machines : z.pc + y \in Int
    BY <1>4
  <2> QED BY <2>1, <2>2
<1>6. \A z \in Machines : /\ Leaves(z, 7, "RBX", z.pc + y, Exec(z, i))
                          /\ Leaves(z, 7, "RBX", Memory(z.pc + y), Exec(z, j))
  BY <1>2, <1>4, <1>5, WrittenIs
<1>7. Works(i) /\ Works(j)
  BY <1>6 DEF Works, Leaves
<1>8. /\ Good(<<i>>) /\ Ran(m, <<i>>) = Exec(m, i)
      /\ Good(<<j>>) /\ Ran(m, <<j>>) = Exec(m, j)
  BY <1>1, <1>7, RanOne
<1>9. Run(<<i>> \o PushX86, at).r = Exec(m, i).r /\ Run(<<j>> \o PushX86, at).r = Exec(m, j).r
  BY <1>8, Pushes DEF m
<1>10. Exec(m, i).r["RBX"] = AsCell(at + y) /\ Exec(m, j).r["RBX"] = AsCell(Memory(at + y))
  BY <1>1, <1>6 DEF Leaves
<1>11. ASSUME NEW n, NEW r, TableFacts(n, r), NEW k \in 1 .. 2 * n + r, AsCell(at + y) = GotAddr(k)
       PROVE  Run(<<j>> \o PushX86, at).r["RBX"] = Got[k]
  <2> DEFINE x == at + y
  <2>1. AsCell(x) = GotAddr(k)
    BY <1>11
  <2> HIDE DEF x
  <2>2. Memory(x) = Got[k] /\ AsCell(Got[k]) = Got[k]
    BY <1>11, <2>1, Remembered
  <2> QED BY <1>9, <1>10, <2>2 DEF x
<1> QED BY <1>9, <1>10, <1>11 DEF i, j

-----------------------------------------------------------------------------
(* Where a single number, address or call is compiled: right behind the    *)
(* tables, as long as no word of a program has been.                       *)
Place == words \in Nat /\ (words = 0 /\ out.kind = "none" => At(here))

Kinded == out'.kind \notin {"none", "constant", "address", "execute"} /\ UNCHANGED <<arch, here>>

LEMMA AssembledKind ==
  ASSUME Assemble
  PROVE  Kinded
<1> DEFINE Every(k) == \A n, t, ops, w : Assembled(k, n, t, ops, w) => Kinded
<1>1. Every("I") /\ Every("S") /\ Every("B") /\ Every("R") /\ Every("SR") /\ Every("A") /\ Every("U") /\ Every("J")
      /\ Every("x86")
  <2> SUFFICES ASSUME NEW k \in {"I", "S", "B", "R", "SR", "A", "U", "J", "x86"} PROVE Every(k)
    OBVIOUS
  <2> SUFFICES ASSUME NEW n, NEW t, NEW ops, NEW w, Assembled(k, n, t, ops, w) PROVE Kinded
    OBVIOUS
  <2> QED BY DEF Assembled, Kinded
<1>2. CASE AssembleRV
  <2>1. PICK a \in Regs, b \in Regs :
          \/ AssembleI(a, b) \/ AssembleCSR(a, b) \/ AssembleS(a, b) \/ AssembleB(a, b) \/ AssembleR(a, b)
          \/ AssembleUJ(a) \/ AssembleP
    BY <1>2 DEF AssembleRV
  <2>2. CASE AssembleI(a, b) \/ AssembleCSR(a, b)
    <3>1. CASE AssembleI(a, b)
      <4>1. PICK T \in {ITable, ITable64}, imm \in Within(12) :
              \E n \in DOMAIN T : Assembled("I", n, T[n], <<a, b, imm>>, IINSTR(T[n], a, b, imm))
        BY <3>1 DEF AssembleI
      <4> QED BY <1>1, <4>1
    <3>2. CASE AssembleCSR(a, b)
      <4>1. PICK n \in DOMAIN CSRTable, csr \in {1, 2048, 4095} :
              Assembled("I", n, CSRTable[n], <<a, b, SignExtended(csr, 12)>>, CSRINSTR(CSRTable[n], csr, a, b))
        BY <3>2 DEF AssembleCSR
      <4> QED BY <1>1, <4>1
    <3> QED BY <2>2, <3>1, <3>2
  <2>3. CASE AssembleS(a, b) \/ AssembleB(a, b)
    BY <1>1, <2>3 DEF AssembleS, AssembleB
  <2>4. CASE AssembleR(a, b)
    BY <1>1, <2>4 DEF AssembleR
  <2>5. CASE AssembleUJ(a) \/ AssembleP
    BY <1>1, <2>5 DEF AssembleUJ, AssembleP
  <2> QED BY <2>1, <2>2, <2>3, <2>4, <2>5
<1>3. CASE ~AssembleRV
  BY <1>1, <1>3 DEF Assemble
<1> QED BY <1>2, <1>3

LEMMA CompiledKind ==
  ASSUME SYS_COMPILE_CONSTANT \/ SYS_COMPILE_ADDR \/ SYS_COMPILE_EXECUTE
  PROVE  out'.kind \in {"constant", "address", "execute"} /\ out'.arch = arch /\ arch' = arch
BY DEF SYS_COMPILE_CONSTANT, SYS_COMPILE_ADDR, SYS_COMPILE_EXECUTE, Compiled

(* One thing compiled, or nothing but jumps, or nothing at all. *)
One == words = 0 /\ words' = words /\ out.kind = "none" /\ Next
Jumps == /\ UNCHANGED <<arch, out>>
         /\ UNCHANGED <<here, words>> \/ words' = words + 1 \/ (words # 0 /\ words' = words)

LEMMA StepIs ==
  ASSUME CompilerNext \/ UNCHANGED <<vars, flow, optimizer>>
  PROVE  One \/ Jumps
<1>1. CASE UNCHANGED <<vars, flow, optimizer>>
  BY <1>1 DEF vars, flow, Jumps
<1>2. CASE Stack
  BY <1>2 DEF Stack, vars, flow, Jumps
<1>3. CASE Single
  BY <1>3 DEF Single, flow, Next, One
<1>4. CASE FlowNext
  <2>1. ASSUME NEW c, NEW o, NEW js, Word(c, o, js) PROVE Jumps
    BY <2>1 DEF Word, Jumps
  <2>2. CASE Body
    BY <2>2 DEF Body, Jumps
  <2>3. CASE ~Body
    BY <1>4, <2>1, <2>3 DEF FlowNext, IF_, AHEAD_, ELSE_, THEN_, BEGIN_, WHILE_, UNTIL_, AGAIN_, REPEAT_,
             Continue, CASE_, OF_, ENDOF_, ENDCASE_, DO_, QDO_, LEAVE_, LOOP_
  <2> QED BY <2>2, <2>3
<1> QED BY <1>1, <1>2, <1>3, <1>4 DEF CompilerNext, Flow

LEMMA PlaceKept ==
  ASSUME Place, One \/ Jumps
  PROVE  Place' /\ (One => At(here))
<1>1. CASE One
  <2>1. out'.kind # "none"
    BY <1>1, AssembledKind, CompiledKind DEF One, Next, Kinded
  <2> QED BY <1>1, <2>1 DEF Place, One
<1>2. CASE ~One
  <2>1. Jumps
    BY <1>2
  <2>2. At(here)' <=> here' \in {FirstHere, FirstHere + 18}
    BY <2>1 DEF At, Jumps, FirstHere, TableBytes, PltBytes, RV
  <2>3. At(here) <=> here \in {FirstHere, FirstHere + 18}
    BY DEF At
  <2>4. CASE UNCHANGED <<here, words>>
    BY <1>2, <2>1, <2>2, <2>3, <2>4 DEF Place, Jumps
  <2>5. CASE words' = words + 1 \/ (words # 0 /\ words' = words)
    <3>1. words' \in Nat /\ words' # 0
      BY <2>5 DEF Place
    <3> QED BY <1>2, <2>1, <3>1 DEF Place, Jumps
  <2> QED BY <2>1, <2>4, <2>5 DEF Jumps
<1> QED BY <1>1, <1>2

LEMMA PlaceFirst == CompilerInit => Place
BY DEF CompilerInit, Init, FlowInit, Place, At

(* What ConstantLoaded says of one thing that was compiled. *)
RightNumber(o) ==
  o.kind = "constant" =>
    (IF o.arch = "riscv" THEN Run(o.code, o.at).r["A2"] ELSE Run(o.code, o.at).r["RBX"]) =
      IF o.arch = "riscv" THEN Loaded(o.v) ELSE o.v

LEMMA ConstantIs == RightNumber(out) <=> ConstantLoaded
BY DEF RightNumber, ConstantLoaded, Left, Result, Loaded

LEMMA ConstantNext ==
  ASSUME SYS_COMPILE_CONSTANT, here \in Int
  PROVE  RightNumber(out')
<1>1. PICK v \in Numbers : Compiled("constant", v, Emitted(IF RV THEN ConstantRV(v) ELSE ConstantX86(v), "kept"))
  BY DEF SYS_COMPILE_CONSTANT
<1>2. v \in Values
  BY CellAssumption
<1>3. Run(ConstantRV(v), here).r["A2"] = Loaded(v) /\ Run(ConstantX86(v), here).r["RBX"] = v
  BY <1>2, NumberCompiled
<1>4. out' = [kind |-> "constant", arch |-> arch, v |-> v, at |-> here,
              code |-> IF RV THEN ConstantRV(v) ELSE ConstantX86(v), status |-> "kept"]
  BY <1>1 DEF Compiled, Emitted
<1>5. out'.kind = "constant" /\ out'.arch = arch /\ out'.v = v /\ out'.at = here
      /\ out'.code = IF RV THEN ConstantRV(v) ELSE ConstantX86(v)
  BY <1>4
<1>6. CASE RV
  BY <1>3, <1>5, <1>6 DEF RightNumber, RV
<1>7. CASE ~RV
  BY <1>3, <1>5, <1>7 DEF RightNumber, RV
<1> QED BY <1>6, <1>7

(* The code a number is compiled to leaves that number in its register,    *)
(* whatever the widths of cell and immediates, but for the numbers RISC-V  *)
(* loses (compile.c, c_store).                                             *)
THEOREM NumbersLoaded == CompilerSpec => []ConstantLoaded
<1> DEFINE CInv == Place /\ RightNumber(out)
<1>1. CompilerInit => CInv
  BY PlaceFirst DEF CompilerInit, Init, RightNumber
<1>2. CInv /\ [CompilerNext]_<<vars, flow, optimizer>> => CInv'
  <2> SUFFICES ASSUME CInv, CompilerNext \/ UNCHANGED <<vars, flow, optimizer>>
               PROVE  CInv'
    OBVIOUS
  <2>1. One \/ Jumps
    BY StepIs
  <2>2. Place' /\ (One => At(here))
    BY <2>1, PlaceKept
  <2>3. CASE One
    <3>1. here \in Int
      <4>1. PICK n, r : TableFacts(n, r)
        BY Tabled
      <4> QED BY <2>2, <2>3, <4>1, TablePlaces DEF Placed
    <3>2. CASE SYS_COMPILE_CONSTANT
      BY <2>2, <3>1, <3>2, ConstantNext
    <3>3. CASE SYS_COMPILE_ADDR
      <4>1. out'.kind = "address"
        BY <3>3 DEF SYS_COMPILE_ADDR, Compiled
      <4> QED BY <2>2, <4>1 DEF RightNumber
    <3>4. CASE SYS_COMPILE_EXECUTE
      <4>1. out'.kind = "execute"
        BY <3>4 DEF SYS_COMPILE_EXECUTE, Compiled
      <4> QED BY <2>2, <4>1 DEF RightNumber
    <3>5. CASE Assemble
      BY <2>2, <3>5, AssembledKind DEF RightNumber, Kinded
    <3> QED BY <2>3, <3>2, <3>3, <3>4, <3>5 DEF One, Next
  <2>4. CASE Jumps
    BY <2>2, <2>4 DEF Jumps
  <2> QED BY <2>1, <2>3, <2>4
<1>3. CInv => ConstantLoaded
  BY ConstantIs
<1> QED BY <1>1, <1>2, <1>3, PTL DEF CompilerSpec

-----------------------------------------------------------------------------
(* The distance of an address from its code, as the property takes it.     *)
Span(v, h) == SignedCell(AsCell(v - h))

LEMMA SignedIs ==
  ASSUME NEW u \in Int
  PROVE  /\ SignedCell(AsCell(u)) \in Int
         /\ \E k \in Int : u = SignedCell(AsCell(u)) + CellMod * k
         /\ Reached(u) => SignedCell(AsCell(u)) = u /\ Near(u)
<1> DEFINE c == AsCell(u)
           w == 2 ^ Half
           b == 2 ^ (Half - 1)
           half == CellMod \div 2
           s == SignedCell(c)
<1>1. CellMod \in Nat \ {0} /\ c \in 0 .. CellMod - 1 /\ \E k \in Int : u = c + CellMod * k
  BY CellIs
<1>2. PICK k \in Int : u = c + CellMod * k
  BY <1>1
<1>3. b \in Nat \ {0} /\ w = 2 * b /\ CellMod = w * w
  <2>1. PICK l, q, x : Sizes(l, q, x)
    BY Widths
  <2> QED BY <2>1 DEF Sizes
<1>4. s = IF c < half THEN c ELSE c - CellMod
  BY DEF SignedCell
<1> HIDE DEF c, w, b, half, s
<1>5. s \in Int
  BY <1>1, <1>4
<1>6. \E j \in Int : u = s + CellMod * j
  <2>1. CASE c < half
    BY <1>2, <1>4, <2>1
  <2>2. CASE ~(c < half)
    <3> DEFINE x == CellMod * k
               y == CellMod * (k + 1)
    <3>1. y = x + CellMod /\ x \in Int /\ k + 1 \in Int
      BY <1>1, <1>2
    <3>2. u = c + x /\ s = c - CellMod
      BY <1>2, <1>4, <2>2
    <3>3. u = s + y
      <4> HIDE DEF x, y
      <4> QED BY <1>1, <3>1, <3>2
    <3> QED BY <3>1, <3>3
  <2> QED BY <2>1, <2>2
<1>7. ASSUME Reached(u) PROVE s = u /\ Near(u)
  <2>1. -b <= u /\ u < b
    <3>1. -(2 ^ (Half - 1)) + 2 ^ Low <= u /\ u < 2 ^ (Half - 1) - 2 ^ Low /\ 2 ^ Low \in Nat
      BY <1>7, LowIsWide DEF Reached
    <3> QED BY <1>3, <3>1 DEF b
  <2>2. half = w * b /\ b <= w * b /\ w * b \in Int /\ CellMod = 2 * (w * b)
    <3>1. CellMod = 2 * (w * b) /\ w * b \in Int
      BY <1>3
    <3>2. b * 1 <= b * w /\ b * w = w * b /\ b * 1 = b
      <4>1. 1 \in Int /\ w \in Int /\ 1 <= w
        BY <1>3
      <4>2. b * 1 <= b * w
        BY <1>3, <4>1, Monotonic
      <4> QED BY <1>3, <4>2
    <3> DEFINE x == w * b
    <3>3. CellMod = 2 * x + 0 /\ x \in Int /\ 0 \in 0 .. 2 - 1 /\ CellMod \in Int /\ 2 \in Nat \ {0}
      BY <1>1, <3>1
    <3> HIDE DEF x
    <3>4. CellMod \div 2 = x
      BY <3>3, Unique
    <3> QED BY <3>1, <3>2, <3>4 DEF x, half
  <2>3. s = u
    <3>1. CASE u >= 0
      <4>1. u \in 0 .. CellMod - 1
        BY <1>3, <2>1, <2>2, <3>1
      <4>2. c = u
        BY <4>1, CellIs DEF c
      <4>3. u < half
        <5>1. half \in Int /\ b \in Int /\ b <= half
          BY <1>3, <2>2
        <5> QED BY <2>1, <5>1
      <4> QED BY <1>4, <4>2, <4>3
    <3>2. CASE u < 0
      <4> DEFINE x == u + CellMod
      <4>1. x \in 0 .. CellMod - 1 /\ x \in Int /\ x >= half /\ u = x + CellMod * (-1) /\ -1 \in Int
        BY <1>1, <1>3, <2>1, <2>2, <3>2
      <4> HIDE DEF x
      <4>2. AsCell(u) = AsCell(x) /\ AsCell(x) = x
        BY <4>1, SameCell, CellIs
      <4>3. ~(x < half) /\ x - CellMod = u
        <5>1. half \in Int /\ CellMod \in Int
          BY <1>1, <2>2
        <5> QED BY <4>1, <5>1 DEF x
      <4> QED BY <1>4, <4>2, <4>3 DEF c
    <3> QED BY <3>1, <3>2
  <2>4. u \div w \in {0, -1}
    <3>1. w \in Nat \ {0}
      BY <1>3
    <3>2. CASE u >= 0
      <4>1. u = w * 0 + u /\ u \in 0 .. w - 1 /\ 0 \in Int
        BY <1>3, <2>1, <3>2
      <4> QED BY <3>1, <4>1, Unique
    <3>3. CASE u < 0
      <4> DEFINE r == u + w
                 j == -1
      <4>1. u = w * j + r /\ r \in 0 .. w - 1 /\ j \in Int
        BY <1>3, <2>1, <3>3
      <4> HIDE DEF r, j
      <4>2. u \div w = j
        BY <3>1, <4>1, Unique
      <4> QED BY <4>2 DEF j
    <3> QED BY <3>2, <3>3
  <2>5. Near(u) <=> s \div w \in {0, -1}
    BY DEF Near, s, c, w
  <2> QED BY <2>3, <2>4, <2>5
<1> QED BY <1>5, <1>6, <1>7 DEF s, c

LEMMA SpanIs ==
  ASSUME NEW v \in Values, NEW h \in Int
  PROVE  /\ Span(v, h) \in Int /\ AsCell(h + Span(v, h)) = v
         /\ Near(Span(v, h)) <=> Near(v - h)
         /\ Reached(Span(v, h)) => Near(v - h) /\ Int32(v - h) = Span(v, h)
<1> DEFINE u == v - h
           d == Span(v, h)
<1>1. v \in Int /\ u \in Int /\ AsCell(v) = v /\ CellMod \in Nat \ {0}
  BY CellIs DEF Values
<1>2. d = SignedCell(AsCell(u))
  BY DEF Span
<1> HIDE DEF u, d
<1>3. d \in Int /\ \E k \in Int : u = d + CellMod * k
  BY <1>1, <1>2, SignedIs
<1>4. PICK k \in Int : u = d + CellMod * k
  BY <1>3
<1>5. AsCell(h + d) = v
  <2> DEFINE x == h + d
             p == CellMod * k
  <2>1. p \in Int
    BY <1>1, <1>4
  <2>2. x \in Int /\ v = x + p
    <3>1. v = h + u
      BY <1>1 DEF u
    <3> HIDE DEF p
    <3> QED BY <1>1, <1>3, <1>4, <2>1, <3>1 DEF p
  <2> HIDE DEF x
  <2>3. AsCell(v) = AsCell(x)
    BY <1>1, <2>2, SameCell
  <2> QED BY <1>1, <2>3 DEF x
<1>6. AsCell(u) = AsCell(d)
  BY <1>1, <1>3, <1>4, SameCell
<1>7. Near(d) <=> Near(u)
  BY <1>6 DEF Near
<1>8. ASSUME Reached(d) PROVE Near(u) /\ Int32(u) = d
  <2>1. Near(d)
    BY <1>3, <1>8, SignedIs
  <2>2. -(2 ^ (Half - 1)) <= d /\ d < 2 ^ (Half - 1)
    <3>1. -(2 ^ (Half - 1)) + 2 ^ Low <= d /\ d < 2 ^ (Half - 1) - 2 ^ Low /\ 2 ^ Low \in Nat
      BY <1>8, LowIsWide DEF Reached
    <3>2. 2 ^ (Half - 1) \in Int
      <4>1. PICK l, q, x : Sizes(l, q, x)
        BY Widths
      <4> QED BY <4>1 DEF Sizes
    <3> DEFINE b == 2 ^ (Half - 1)
               l == 2 ^ Low
    <3>3. b \in Int /\ l \in Nat /\ -b + l <= d /\ d < b - l
      BY <3>1, <3>2
    <3> HIDE DEF b, l
    <3>4. -b <= d /\ d < b
      BY <1>3, <3>3
    <3> QED BY <3>4 DEF b
  <2>3. CellMod * k = 2 ^ Half * (2 ^ Half * k) /\ 2 ^ Half * k \in Int
    <3>1. CellMod = 2 ^ Half * 2 ^ Half /\ 2 ^ Half \in Int
      BY HalfCell
    <3> DEFINE w == 2 ^ Half
    <3> HIDE DEF w
    <3>2. (w * w) * k = w * (w * k) /\ w * k \in Int
      BY <1>4, <3>1 DEF w
    <3> QED BY <3>1, <3>2 DEF w
  <2> DEFINE j == 2 ^ Half * k
  <2>4. j \in Int /\ u = d + 2 ^ Half * j
    BY <1>4, <2>3
  <2> HIDE DEF j
  <2>5. Int32(u) = d
    BY <1>1, <1>3, <2>2, <2>4, Int32Only
  <2> QED BY <1>7, <2>1, <2>5
<1> QED BY <1>3, <1>5, <1>7, <1>8 DEF u, d

(* What the tables know of an address.                                     *)
LEMMA FoundGot ==
  ASSUME NEW n, NEW r, TableFacts(n, r), NEW v \in ToSet(Got)
  PROVE  \E k \in 1 .. 2 * n + r : find_got(v) = GotAddr(k) /\ Got[k] = v
<1> DEFINE S == {i \in DOMAIN Got : Got[i] = v}
<1>1. DOMAIN Got = 1 .. 2 * n + r /\ n \in Nat /\ r \in Nat
  BY DEF TableFacts
<1>2. S # {}
  BY DEF ToSet
<1>3. S \subseteq Nat
  BY <1>1
<1>4. find_got(v) = GotAddr(Min(S))
  BY <1>2 DEF find_got, Found
<1>5. Min(S) \in S
  <2> HIDE DEF S
  <2> QED BY <1>2, <1>3, Least
<1> QED BY <1>1, <1>4, <1>5

LEMMA FoundPlt ==
  ASSUME NEW n, NEW r, TableFacts(n, r), NEW v
  PROVE  find_plt(v) = v \/ \E i \in 1 .. n + r : find_plt(v) = PltAddr(i) /\ Got[n + i] = v
<1> DEFINE S == {i \in 1 .. PltCount : Got[WordCount + i] = v}
<1>1. n \in Nat /\ r \in Nat /\ PltCount = n + r /\ WordCount = n
  BY DEF TableFacts
<1>2. CASE S = {}
  BY <1>2 DEF find_plt, Found
<1>3. CASE S # {}
  <2>1. S \subseteq Nat
    BY <1>1
  <2>2. find_plt(v) = PltAddr(Min(S))
    BY <1>3 DEF find_plt, Found
  <2>3. Min(S) \in S
    <3> HIDE DEF S
    <3> QED BY <1>3, <2>1, Least
  <2> QED BY <1>1, <2>2, <2>3
<1> QED BY <1>2, <1>3

LEMMA FoundHere ==
  ASSUME At(here)
  PROVE  here \in Int /\ Placed(here)
<1>1. PICK n, r : TableFacts(n, r)
  BY Tabled
<1> QED BY <1>1, TablePlaces DEF Placed

LEMMA AddressesIn ==
  ASSUME here \in Int
  PROVE  Addresses \subseteq Values
<1>1. PICK n, r : TableFacts(n, r)
  BY Tabled
<1>2. ToSet(Got) \subseteq Values
  BY <1>1 DEF TableFacts, ToSet
<1>3. ASSUME NEW d \in Distances PROVE AsCell(here + d) \in Values
  <2>1. d \in Int
    BY CellAssumption
  <2> DEFINE x == here + d
  <2>2. x \in Int
    BY <2>1
  <2> HIDE DEF x
  <2>3. AsCell(x) \in Values
    BY <2>2, CellIs DEF Values
  <2> QED BY <2>3 DEF x
<1> QED BY <1>2, <1>3 DEF Addresses

(* An entry of the tables from here. *)
LEMMA SpanOfEntry ==
  ASSUME At(here), NEW x, Placed(x)
  PROVE  /\ Int32(x - here) \in Int /\ Reached(Int32(x - here)) /\ Int32(x - here) = x - here
         /\ here + Int32(x - here) = x /\ AsCell(here + Int32(x - here)) = x /\ here \in Int /\ x \in Int
<1>1. Placed(here)
  BY FoundHere
<1>2. here \in Int /\ x \in Int /\ AsCell(x) = x /\ Reached(x - here)
  BY <1>1, PlacedIs
<1> DEFINE y == x - here
<1>3. y \in Int /\ here + y = x
  BY <1>2
<1>4. Reached(y)
  BY <1>2
<1> HIDE DEF y
<1>5. Int32(y) = y
  BY <1>3, <1>4, WithinReach
<1> QED BY <1>2, <1>3, <1>4, <1>5 DEF y

(* What AddressesReached says of one address that was compiled. *)
RightAddress(o) ==
  o.kind = "address" /\ (Reached(Span(o.v, o.at)) \/ (~Near(Span(o.v, o.at)) /\ o.v \in ToSet(Got))) =>
    (IF o.arch = "riscv" THEN Run(o.code, o.at).r["A2"] ELSE Run(o.code, o.at).r["RBX"]) = o.v

LEMMA NearAddress ==
  ASSUME At(here), NEW v \in Values, Reached(Span(v, here))
  PROVE  Run(AddressRV(v).code, here).r["A2"] = v /\ Run(AddressX86(v).code, here).r["RBX"] = v
<1> DEFINE d == Span(v, here)
<1>1. here \in Int
  BY FoundHere
<1>2. d \in Int /\ AsCell(here + d) = v /\ Near(v - here) /\ Int32(v - here) = d /\ Reached(d)
  BY <1>1, SpanIs
<1> HIDE DEF d
<1>3. /\ Run(<<<<"AUIPC", "A2", Upper(d)>>>> \o <<<<"ADDI", "A2", "A2", Lower(d)>>>> \o PushRV, here).r["A2"] = v
      /\ Lower(d) = 0 => Run(<<<<"AUIPC", "A2", Upper(d)>>>> \o PushRV, here).r["A2"] = v
      /\ Run(<<<<"LEA", "RBX", d - 7>>>> \o PushX86, here).r["RBX"] = v
  BY <1>1, <1>2, AddressLoadsRV, AddressLoadsX86
<1>4. AddressX86(v).code = <<<<"LEA", "RBX", d - 7>>>> \o PushX86
  BY <1>2 DEF AddressX86, Emitted
<1>5. AddressRV(v).code = IF Lower(d) # 0
        THEN <<<<"AUIPC", "A2", Upper(d)>>>> \o <<<<"ADDI", "A2", "A2", Lower(d)>>>> \o PushRV
        ELSE <<<<"AUIPC", "A2", Upper(d)>>>> \o PushRV
  BY <1>2 DEF AddressRV, Emitted
<1> QED BY <1>3, <1>4, <1>5

LEMMA FarAddress ==
  ASSUME At(here), NEW v \in Values, ~Near(Span(v, here)), v \in ToSet(Got)
  PROVE  Run(AddressRV(v).code, here).r["A2"] = v /\ Run(AddressX86(v).code, here).r["RBX"] = v
<1>1. here \in Int
  BY FoundHere
<1>2. PICK n, r : TableFacts(n, r)
  BY Tabled
<1>3. PICK k \in 1 .. 2 * n + r : find_got(v) = GotAddr(k) /\ Got[k] = v
  BY <1>2, FoundGot
<1> DEFINE d == Int32(find_got(v) - here)
<1>4. d \in Int /\ Reached(d) /\ AsCell(here + d) = GotAddr(k)
  <2>1. Placed(GotAddr(k))
    BY <1>2, TablePlaces
  <2> QED BY <1>3, <2>1, SpanOfEntry
<1>5. ~Near(v - here)
  BY <1>1, SpanIs
<1>6. AddressX86(v).code = <<<<"TAKE", "RBX", d - 7>>>> \o PushX86
  BY <1>5 DEF AddressX86, Emitted
<1>7. AddressRV(v).code = <<<<"AUIPC", "A2", Upper(d)>>>> \o <<<<"LD", "A2", "A2", Lower(d)>>>> \o PushRV
  BY <1>5 DEF AddressRV, Emitted
<1> HIDE DEF d
<1>8. /\ Run(<<<<"AUIPC", "A2", Upper(d)>>>> \o <<<<"LD", "A2", "A2", Lower(d)>>>> \o PushRV, here).r["A2"] = Got[k]
      /\ Run(<<<<"TAKE", "RBX", d - 7>>>> \o PushX86, here).r["RBX"] = Got[k]
  <2> DEFINE i == <<<<"AUIPC", "A2", Upper(d)>>>> \o <<<<"LD", "A2", "A2", Lower(d)>>>> \o PushRV
             j == <<<<"TAKE", "RBX", d - 7>>>> \o PushX86
  <2>1. \A a, b : TableFacts(a, b) => \A e \in 1 .. 2 * a + b :
          AsCell(here + d) = GotAddr(e) => Run(i, here).r["A2"] = Got[e]
    BY <1>1, <1>4, AddressLoadsRV
  <2>2. \A a, b : TableFacts(a, b) => \A e \in 1 .. 2 * a + b :
          AsCell(here + d) = GotAddr(e) => Run(j, here).r["RBX"] = Got[e]
    BY <1>1, <1>4, AddressLoadsX86
  <2> HIDE DEF i, j
  <2>3. Run(i, here).r["A2"] = Got[k]
    BY <1>2, <1>3, <1>4, <2>1
  <2>4. Run(j, here).r["RBX"] = Got[k]
    BY <1>2, <1>3, <1>4, <2>2
  <2> QED BY <2>3, <2>4 DEF i, j
<1> QED BY <1>3, <1>6, <1>7, <1>8

LEMMA AddressNext ==
  ASSUME SYS_COMPILE_ADDR, At(here)
  PROVE  RightAddress(out')
<1>1. PICK v \in Addresses :
        \/ RV /\ Compiled("address", v, AddressRV(v))
        \/ ~RV /\ (Near(v - here) \/ find_got(v) # v) /\ Compiled("address", v, AddressX86(v))
  BY DEF SYS_COMPILE_ADDR
<1>2. v \in Values
  BY FoundHere, AddressesIn
<1>3. Reached(Span(v, here)) \/ (~Near(Span(v, here)) /\ v \in ToSet(Got)) =>
        Run(AddressRV(v).code, here).r["A2"] = v /\ Run(AddressX86(v).code, here).r["RBX"] = v
  BY <1>2, NearAddress, FarAddress
<1>4. out'.kind = "address" /\ out'.arch = arch /\ out'.v = v /\ out'.at = here
      /\ out'.code = IF RV THEN AddressRV(v).code ELSE AddressX86(v).code
  BY <1>1 DEF Compiled
<1>5. CASE RV
  BY <1>3, <1>4, <1>5 DEF RightAddress, RV
<1>6. CASE ~RV
  BY <1>3, <1>4, <1>6 DEF RightAddress, RV
<1> QED BY <1>5, <1>6

-----------------------------------------------------------------------------
(* Calls.                                                                  *)
LEMMA SextWide ==
  ASSUME NEW u \in Int
  PROVE  Sext(u, Low) \in Int /\ Sext(u, Jump + 1) \in Int /\ Int32(u) \in Int
<1>1. Low \in Nat \ {0} /\ Jump + 1 \in Nat \ {0} /\ Half \in Nat \ {0}
  BY WidthAssumption
<1> QED BY <1>1, SextIs DEF Int32

LEMMA WorkingJumps ==
  ASSUME NEW reg, NEW a \in Names, NEW u \in Int
  PROVE  Works(<<"JALR", reg, a, u>>) /\ Works(<<"JAL", reg, u>>) /\ Works(<<"CALL", u>>) /\ Works(<<"JMP", a>>)
<1> SUFFICES ASSUME NEW m \in Machines
             PROVE  /\ Exec(m, <<"JALR", reg, a, u>>) \in Machines /\ Exec(m, <<"JAL", reg, u>>) \in Machines
                    /\ Exec(m, <<"CALL", u>>) \in Machines /\ Exec(m, <<"JMP", a>>) \in Machines
  BY DEF Works
<1>1. m.r[a] \in Int /\ m.pc \in Int /\ Sext(u, Low) \in Int /\ Sext(u, Jump + 1) \in Int /\ Int32(u) \in Int
  BY RegisterIs, SextWide
<1>2. /\ m.r[a] + Sext(u, Low) \in Int /\ m.pc + Sext(u, Jump + 1) \in Int /\ (m.pc + 5) + Int32(u) \in Int
  BY <1>1
<1>3. /\ Exec(m, <<"JALR", reg, a, u>>) = Gone(m, m.r[a] + Sext(u, Low))
      /\ Exec(m, <<"JAL", reg, u>>) = Gone(m, m.pc + Sext(u, Jump + 1))
      /\ Exec(m, <<"CALL", u>>) = Gone(m, (m.pc + 5) + Int32(u))
      /\ Exec(m, <<"JMP", a>>) = Gone(m, m.r[a])
  BY ExecJALR, ExecJAL, ExecCALL, ExecJMP
<1> QED BY <1>1, <1>2, <1>3, GoneIs

LEMMA Calls ==
  ASSUME NEW at \in Int, NEW y \in Int, Reached(y)
  PROVE  /\ Run(<<<<"AUIPC", "RA", Upper(y)>>, <<"JALR", "RA", "RA", Lower(y)>>>>, at).pc = AsCell(at + y)
         /\ -(2 ^ Jump) <= y /\ y < 2 ^ Jump => Run(<<<<"JAL", "RA", y>>>>, at).pc = AsCell(at + y)
         /\ Run(<<<<"CALL", y - 5>>>>, at).pc = AsCell(at + y)
<1> DEFINE m == Boot(at)
           i == <<"AUIPC", "RA", Upper(y)>>
           j == <<"JALR", "RA", "RA", Lower(y)>>
           k == <<"JAL", "RA", y>>
           l == <<"CALL", y - 5>>
           z == Exec(m, i)
<1>1. m \in Machines /\ m.pc = at /\ \A is : Run(is, at) = Ran(m, is)
  BY BootIs DEF Boot
<1> HIDE DEF m
<1>2. "RA" \in Targets /\ "RA" \in Names
  BY DEF Targets, Names
<1>3. Lower(y) \in Int /\ Sext(Lower(y), Low) = Lower(y) /\ Int32(y - 5) = y - 5 /\ y - 5 \in Int
  BY WithinReach
<1>4. Works(i) /\ Based(m, z, "RA", y)
  BY <1>1, <1>2, BasedIs
<1>5. Works(j) /\ Works(k) /\ Works(l)
  BY <1>2, <1>3, WorkingJumps
<1>6. z \in Machines /\ AsCell(z.r["RA"] + Lower(y)) = AsCell(at + y)
  BY <1>1, <1>4 DEF Based
<1>7. Exec(z, j).pc = AsCell(at + y)
  <2> HIDE DEF z
  <2> DEFINE t == z.r["RA"] + Lower(y)
  <2>1. t \in Int
    BY <1>2, <1>3, <1>6, RegisterIs
  <2>2. Exec(z, j) = Gone(z, t)
    <3>1. Exec(z, j) = Gone(z, z.r["RA"] + Sext(Lower(y), Low))
      BY <1>6, ExecJALR
    <3> QED BY <1>3, <3>1
  <2> HIDE DEF t, j
  <2>3. Gone(z, t).pc = AsCell(t)
    BY <1>6, <2>1, GoneIs
  <2> QED BY <1>6, <2>2, <2>3 DEF t
<1>8. ASSUME -(2 ^ Jump) <= y, y < 2 ^ Jump PROVE Exec(m, k).pc = AsCell(at + y)
  <2> DEFINE n == Jump + 1
             t == at + y
  <2>1. n \in Nat \ {0} /\ n - 1 = Jump /\ t \in Int
    BY WidthAssumption
  <2> HIDE DEF n
  <2>2. Sext(y, n) = y
    BY <1>8, <2>1, SextKeeps
  <2>3. Exec(m, k) = Gone(m, at + y)
    <3>1. Exec(m, k) = Gone(m, m.pc + Sext(y, Jump + 1))
      BY <1>1, ExecJAL
    <3> QED BY <1>1, <2>2, <3>1 DEF n
  <2> HIDE DEF t, k
  <2>4. Gone(m, t).pc = AsCell(t)
    BY <1>1, <2>1, GoneIs
  <2> QED BY <2>3, <2>4 DEF t
<1>9. Exec(m, l).pc = AsCell(at + y)
  <2> DEFINE t == at + y
  <2>1. t \in Int /\ (at + 5) + (y - 5) = t
    OBVIOUS
  <2>2. Exec(m, l) = Gone(m, (m.pc + 5) + Int32(y - 5))
    BY <1>1, ExecCALL
  <2> HIDE DEF t, l
  <2>3. Exec(m, l) = Gone(m, t)
    BY <1>1, <1>3, <2>1, <2>2
  <2>4. Gone(m, t).pc = AsCell(t)
    BY <1>1, <2>1, GoneIs
  <2> QED BY <2>3, <2>4 DEF t
<1>10. Ran(m, <<i, j>>) = Exec(z, j) /\ Ran(m, <<k>>) = Exec(m, k) /\ Ran(m, <<l>>) = Exec(m, l)
  <2> HIDE DEF i, j, k, l
  <2> QED BY <1>1, <1>4, <1>5, RanOne, RanTwo DEF z
<1> HIDE DEF i, j, k, l, z
<1>11. Run(<<i, j>>, at).pc = AsCell(at + y) /\ Run(<<l>>, at).pc = AsCell(at + y)
  BY <1>1, <1>7, <1>9, <1>10
<1>12. -(2 ^ Jump) <= y /\ y < 2 ^ Jump => Run(<<k>>, at).pc = AsCell(at + y)
  BY <1>1, <1>8, <1>10
<1> QED BY <1>11, <1>12 DEF i, j, k, l

(* A stub goes where the entry of the tables behind it says.               *)
StubGoes(at, y, g) ==
  /\ Run(<<<<"AUIPC", "T6", Upper(y)>>, <<"LD", "T6", "T6", Lower(y)>>, <<"JALR", "X0", "T6", 0>>>>, at).pc = g
  /\ Run(<<<<"TAKE", "RBX", y - 7>>, <<"JMP", "RBX">>>>, at).pc = g

LEMMA Stubs ==
  ASSUME NEW at \in Int, NEW y \in Int, Reached(y),
         NEW n, NEW r, TableFacts(n, r), NEW e \in 1 .. 2 * n + r, AsCell(at + y) = GotAddr(e)
  PROVE  StubGoes(at, y, Got[e])
<1> DEFINE m == Boot(at)
           i == <<"AUIPC", "T6", Upper(y)>>
           j == <<"LD", "T6", "T6", Lower(y)>>
           k == <<"JALR", "X0", "T6", 0>>
           p == <<"TAKE", "RBX", y - 7>>
           q == <<"JMP", "RBX">>
           z == Exec(m, i)
           g == Got[e]
<1>1. m \in Machines /\ m.pc = at /\ \A is : Run(is, at) = Ran(m, is)
  BY BootIs DEF Boot
<1> HIDE DEF m
<1>2. "T6" \in Targets /\ "T6" \in Names /\ "RBX" \in Targets /\ "RBX" \in Names /\ 4 \in Int /\ 7 \in Int
  BY DEF Targets, Names
<1>3. Lower(y) \in Int /\ Sext(Lower(y), Low) = Lower(y) /\ Int32(y - 7) = y - 7
  BY WithinReach
<1>4. \A x : AsCell(x) = GotAddr(e) => Memory(x) = g /\ AsCell(g) = g /\ g \in Int
  BY Remembered
<1>5. g \in Int /\ AsCell(g) = g
  BY <1>4
<1>6. \A x : Memory(x) \in Int
  <2> DEFINE u == 0
  <2>1. u \in Int
    OBVIOUS
  <2> HIDE DEF u
  <2> QED BY <1>2, <2>1, WorkingLD
<1> HIDE DEF g
<1>7. Sext(0, Low) = 0
  <2>1. Low \in Nat \ {0} /\ -(2 ^ (Low - 1)) <= 0 /\ 0 < 2 ^ (Low - 1)
    <3>1. PICK l, a, b : Sizes(l, a, b)
      BY Widths
    <3> QED BY <3>1 DEF Sizes
  <2> DEFINE u == 0
  <2>2. u \in Int /\ -(2 ^ (Low - 1)) <= u /\ u < 2 ^ (Low - 1)
    BY <2>1
  <2> HIDE DEF u
  <2>3. Sext(u, Low) = u
    BY <2>1, <2>2, SextKeeps
  <2> QED BY <2>3 DEF u
<1>8. Works(i) /\ Based(m, z, "T6", y)
  BY <1>1, <1>2, BasedIs
<1>9. z \in Machines /\ AsCell(z.r["T6"] + Lower(y)) = GotAddr(e)
  BY <1>1, <1>8 DEF Based
<1>10. Works(j) /\ Works(k) /\ Works(q)
  <2> DEFINE u == 0
  <2>1. u \in Int
    OBVIOUS
  <2> HIDE DEF u
  <2>2. Works(<<"JALR", "X0", "T6", u>>) /\ Works(q)
    BY <1>2, <2>1, WorkingJumps
  <2>3. Works(j)
    BY <1>2, <1>3, WorkingLD
  <2> QED BY <2>2, <2>3 DEF u
<1>11. Exec(z, j) \in Machines /\ Exec(z, j).r["T6"] = g
  <2> HIDE DEF z
  <2> DEFINE v == z.r["T6"] + Lower(y)
  <2>1. Exec(z, j) = Written(z, 4, "T6", Memory(z.r["T6"] + Sext(Lower(y), Low)))
    BY <1>2, <1>9, ExecLD
  <2>2. Memory(v) = g
    <3>1. AsCell(v) = GotAddr(e)
      BY <1>9
    <3> HIDE DEF v
    <3> QED BY <1>4, <3>1
  <2>3. Exec(z, j) = Written(z, 4, "T6", g)
    BY <1>3, <2>1, <2>2
  <2> HIDE DEF j
  <2>4. Leaves(z, 4, "T6", g, Exec(z, j))
    BY <1>2, <1>5, <1>9, <2>3, WrittenIs
  <2> QED BY <1>5, <2>4 DEF Leaves
<1> DEFINE x == Exec(z, j)
<1>12. Exec(x, k).pc = g
  <2>1. x \in Machines /\ x.r["T6"] = g
    BY <1>11
  <2> HIDE DEF x
  <2>2. Exec(x, k) = Gone(x, x.r["T6"] + Sext(0, Low))
    BY <2>1, ExecJALR
  <2>3. Exec(x, k) = Gone(x, g)
    BY <1>5, <1>7, <2>1, <2>2
  <2> HIDE DEF k
  <2>4. Gone(x, g).pc = AsCell(g)
    BY <1>5, <2>1, GoneIs
  <2> QED BY <1>5, <2>3, <2>4
<1>13. ASSUME NEW a \in Machines
       PROVE  Exec(a, p) \in Machines /\ (a.pc = at => Exec(a, p).r["RBX"] = g)
  <2> DEFINE v == a.pc + y
  <2>1. Exec(a, p) = Written(a, 7, "RBX", Memory((a.pc + 7) + Int32(y - 7)))
    BY <1>2, ExecTAKE
  <2>2. a.pc \in Int
    BY DEF Machines
  <2>3. (a.pc + 7) + Int32(y - 7) = v
    BY <1>3, <2>2
  <2> HIDE DEF p
  <2>4. a.pc = at => AsCell(v) = GotAddr(e)
    OBVIOUS
  <2> HIDE DEF v
  <2> DEFINE w == Memory(v)
  <2>5. Exec(a, p) = Written(a, 7, "RBX", w) /\ w \in Int
    BY <1>6, <2>1, <2>3
  <2>6. a.pc = at => w = g
    BY <1>4, <2>4
  <2> HIDE DEF w
  <2>7. Leaves(a, 7, "RBX", w, Exec(a, p))
    BY <1>2, <2>5, WrittenIs
  <2> QED BY <1>5, <2>6, <2>7 DEF Leaves
<1>14. Works(p) /\ Exec(m, p) \in Machines /\ Exec(m, p).r["RBX"] = g
  BY <1>1, <1>13 DEF Works
<1> DEFINE b == Exec(m, p)
<1>15. Exec(b, q).pc = g
  <2>1. b \in Machines /\ b.r["RBX"] = g
    BY <1>14
  <2> HIDE DEF b
  <2>2. Exec(b, q) = Gone(b, b.r["RBX"])
    BY <2>1, ExecJMP
  <2> HIDE DEF q
  <2>3. Gone(b, g).pc = AsCell(g)
    BY <1>5, <2>1, GoneIs
  <2> QED BY <1>5, <2>1, <2>2, <2>3
<1>16. Ran(m, <<i, j, k>>) = Exec(x, k) /\ Ran(m, <<p, q>>) = Exec(b, q)
  <2> HIDE DEF i, j, k, p, q
  <2> QED BY <1>1, <1>8, <1>10, <1>14, RanTwo, RanThree DEF x, z, b
<1> HIDE DEF i, j, k, p, q, z, x, b
<1>17. Run(<<i, j, k>>, at).pc = g /\ Run(<<p, q>>, at).pc = g
  BY <1>1, <1>12, <1>15, <1>16
<1> QED BY <1>17 DEF i, j, k, p, q, g, StubGoes

(* init_plt: the stub of a word, where it is put. *)
LEMMA StubIs ==
  ASSUME NEW n, NEW r, TableFacts(n, r), NEW i \in 1 .. n + r
  PROVE  /\ Run(StubRV(i, PltAddr(i)), PltAddr(i)).pc = Got[n + i]
         /\ Run(StubX86(i, PltAddr(i)), PltAddr(i)).pc = Got[n + i]
<1> DEFINE at == PltAddr(i)
           e == n + i
           u == GotAddr(e)
           y == u - at
<1>1. n \in Nat /\ r \in Nat /\ WordCount = n
  BY DEF TableFacts
<1>2. e \in 1 .. 2 * n + r
  BY <1>1
<1>3. Placed(at) /\ Placed(u)
  <2> HIDE DEF e
  <2> QED BY <1>2, TablePlaces
<1>4. StubRV(i, at) = <<<<"AUIPC", "T6", Upper(Int32(y))>>, <<"LD", "T6", "T6", Lower(Int32(y))>>, <<"JALR", "X0", "T6", 0>>>>
      /\ StubX86(i, at) = <<<<"TAKE", "RBX", Int32(y) - 7>>, <<"JMP", "RBX">>>>
  BY <1>1 DEF StubRV, StubX86
<1> HIDE DEF at, e
<1>5. at \in Int /\ u \in Int /\ Reached(y) /\ AsCell(u) = u
  BY <1>3, PlacedIs
<1> HIDE DEF u
<1>6. y \in Int /\ at + y = u
  BY <1>5
<1> HIDE DEF y
<1>7. Int32(y) = y
  BY <1>5, <1>6, WithinReach
<1>8. AsCell(at + y) = GotAddr(e)
  BY <1>5, <1>6 DEF u
<1>9. StubGoes(at, y, Got[e])
  BY <1>2, <1>5, <1>6, <1>8, Stubs
<1> QED BY <1>4, <1>7, <1>9 DEF at, e, StubGoes

(* Where a call goes, and how far that is. *)
Aims(v, t, n, r) ==
  /\ Int32(t - here) \in Int /\ Reached(Int32(t - here)) /\ AsCell(here + Int32(t - here)) = t
  /\ \/ t = v /\ Int32(t - here) = Span(v, here)
     \/ /\ Int32(t - here) <= 0
        /\ \E i \in 1 .. n + r : t = PltAddr(i) /\ Got[n + i] = v

LEMMA Aimed ==
  ASSUME At(here), NEW v \in Values, NEW n, NEW r, TableFacts(n, r), Near(Target(v) - here),
         Reached(Span(v, here)) \/ ~Near(Span(v, here))
  PROVE  Aims(v, Target(v), n, r)
<1>1. here \in Int /\ Placed(here)
  BY FoundHere
<1>2. CASE Near(v - here)
  <2>1. Target(v) = v
    BY <1>2 DEF Target
  <2>2. Span(v, here) \in Int /\ Reached(Span(v, here)) /\ Int32(v - here) = Span(v, here)
        /\ AsCell(here + Span(v, here)) = v
    BY <1>1, <1>2, SpanIs
  <2> QED BY <2>1, <2>2 DEF Aims
<1>3. CASE ~Near(v - here)
  <2>1. Target(v) = find_plt(v)
    BY <1>3 DEF Target
  <2>2. find_plt(v) # v
    BY <1>3, <2>1
  <2>3. PICK i \in 1 .. n + r : find_plt(v) = PltAddr(i) /\ Got[n + i] = v
    BY <2>2, FoundPlt
  <2> DEFINE t == PltAddr(i)
  <2>4. Placed(t) /\ t <= FirstHere /\ FirstHere \in Int /\ here \in {FirstHere, FirstHere + 18}
    BY TablePlaces DEF At
  <2> HIDE DEF t
  <2>5. /\ Int32(t - here) \in Int /\ Reached(Int32(t - here)) /\ Int32(t - here) = t - here
        /\ AsCell(here + Int32(t - here)) = t /\ t \in Int
    BY <2>4, SpanOfEntry
  <2>6. t - here <= 0
    BY <2>4, <2>5
  <2>7. t = PltAddr(i) /\ Target(v) = t
    BY <2>1, <2>3 DEF t
  <2>8. Aims(v, t, n, r)
    BY <2>3, <2>5, <2>6, <2>7 DEF Aims
  <2> QED BY <2>7, <2>8
<1> QED BY <1>2, <1>3

LEMMA Called ==
  ASSUME At(here), NEW v \in Values, NEW n, NEW r, Aims(v, Target(v), n, r)
  PROVE  /\ Span(v, here) # 2 ^ Jump => Run(ExecuteRV(v).code, here).pc = Target(v)
         /\ Run(ExecuteX86(v).code, here).pc = Target(v)
<1> DEFINE t == Target(v)
           y == Int32(t - here)
           rest == t < Start \/ t >= End
<1>1. here \in Int
  BY FoundHere
<1>2. y \in Int /\ Reached(y) /\ AsCell(here + y) = t /\ (y = Span(v, here) \/ y <= 0)
  BY DEF Aims
<1>3. ExecuteX86(v).code = <<<<"CALL", y - 5>>>>
  BY DEF ExecuteX86, Emitted
<1>4. ExecuteRV(v).code = IF y < -(2 ^ Jump) \/ y > 2 ^ Jump \/ rest
        THEN <<<<"AUIPC", "RA", Upper(y)>>, <<"JALR", "RA", "RA", Lower(y)>>>>
        ELSE <<<<"JAL", "RA", y>>>>
  BY DEF ExecuteRV, Emitted
<1> HIDE DEF t, y, rest
<1>5. /\ Run(<<<<"AUIPC", "RA", Upper(y)>>, <<"JALR", "RA", "RA", Lower(y)>>>>, here).pc = t
      /\ -(2 ^ Jump) <= y /\ y < 2 ^ Jump => Run(<<<<"JAL", "RA", y>>>>, here).pc = t
      /\ Run(<<<<"CALL", y - 5>>>>, here).pc = t
  BY <1>1, <1>2, Calls
<1>6. ASSUME Span(v, here) # 2 ^ Jump PROVE Run(ExecuteRV(v).code, here).pc = t
  <2>1. CASE y < -(2 ^ Jump) \/ y > 2 ^ Jump \/ rest
    BY <1>4, <1>5, <2>1
  <2>2. CASE ~(y < -(2 ^ Jump) \/ y > 2 ^ Jump \/ rest)
    <3>1. 2 ^ Jump \in Nat \ {0}
      BY WidthAssumption, Counted
    <3> DEFINE b == 2 ^ Jump
    <3>2. b \in Nat \ {0} /\ ~(y < -b) /\ ~(y > b) /\ (y = Span(v, here) => y # b)
      BY <1>6, <2>2, <3>1
    <3> HIDE DEF b
    <3>3. -b <= y /\ y < b
      BY <1>2, <3>2
    <3>4. ExecuteRV(v).code = <<<<"JAL", "RA", y>>>>
      BY <1>4, <2>2
    <3> QED BY <1>5, <3>3, <3>4 DEF b
  <2> QED BY <2>1, <2>2
<1> QED BY <1>3, <1>5, <1>6 DEF t

(* What AddressesReached says of one call that was compiled. *)
Ends(c, v, at, pc) ==
  LET stub == {i \in 1 .. PltCount : PltAddr(i) = pc}
      Stub(i) == IF c = "riscv" THEN StubRV(i, pc) ELSE StubX86(i, pc)
  IN (IF stub = {} \/ pc = v THEN pc ELSE Run(Stub(Min(stub)), pc).pc) = v

RightCall(o) ==
  o.kind = "execute" /\ (Reached(Span(o.v, o.at)) \/ ~Near(Span(o.v, o.at)))
    /\ (o.arch = "riscv" => Span(o.v, o.at) # 2 ^ Jump)
    => Ends(o.arch, o.v, o.at, Run(o.code, o.at).pc)

LEMMA Ended ==
  ASSUME NEW v, NEW n, NEW r, TableFacts(n, r), NEW t, Aims(v, t, n, r), NEW c, NEW at
  PROVE  Ends(c, v, at, t)
<1>1. CASE t = v
  BY <1>1 DEF Ends
<1>2. CASE t # v
  <2>1. PICK i \in 1 .. n + r : t = PltAddr(i) /\ Got[n + i] = v
    BY <1>2 DEF Aims
  <2>2. n \in Nat /\ r \in Nat /\ PltCount = n + r
    BY DEF TableFacts
  <2>3. {k \in 1 .. PltCount : PltAddr(k) = t} = {i}
    BY <2>1, <2>2, TablePlaces
  <2>4. i \in Nat
    BY <2>2
  <2>5. Min({i}) = i
    BY <2>4, Only
  <2>6. Run(StubRV(i, t), t).pc = v /\ Run(StubX86(i, t), t).pc = v
    BY <2>1, StubIs
  <2> QED BY <2>3, <2>5, <2>6 DEF Ends
<1> QED BY <1>1, <1>2

LEMMA ExecuteNext ==
  ASSUME SYS_COMPILE_EXECUTE, At(here)
  PROVE  RightCall(out')
<1>1. PICK v \in Addresses :
        /\ Near(Target(v) - here)
        /\ \/ RV /\ v % 2 = 0 /\ Compiled("execute", v, ExecuteRV(v))
           \/ ~RV /\ Compiled("execute", v, ExecuteX86(v))
  BY DEF SYS_COMPILE_EXECUTE
<1>2. v \in Values
  BY FoundHere, AddressesIn
<1>3. PICK n, r : TableFacts(n, r)
  BY Tabled
<1> DEFINE text == IF RV THEN ExecuteRV(v).code ELSE ExecuteX86(v).code
<1>4. out'.kind = "execute" /\ out'.arch = arch /\ out'.v = v /\ out'.at = here /\ out'.code = text
  BY <1>1 DEF Compiled
<1>5. ASSUME Reached(Span(v, here)) \/ ~Near(Span(v, here)), arch = "riscv" => Span(v, here) # 2 ^ Jump
      PROVE  Ends(arch, v, here, Run(text, here).pc)
  <2>1. Aims(v, Target(v), n, r)
    BY <1>1, <1>2, <1>3, <1>5, Aimed
  <2>2. Run(text, here).pc = Target(v)
    <3>1. CASE RV
      BY <1>2, <1>5, <2>1, <3>1, Called DEF RV
    <3>2. CASE ~RV
      BY <1>2, <2>1, <3>2, Called
    <3> QED BY <3>1, <3>2
  <2>3. Ends(arch, v, here, Target(v))
    BY <1>3, <2>1, Ended
  <2> QED BY <2>2, <2>3
<1> HIDE DEF text
<1> QED BY <1>4, <1>5 DEF RightCall

LEMMA ReachedIs == AddressesReached <=> RightAddress(out) /\ RightCall(out)
<1>1. ~Near(Distance) <=> ~Near(Span(out.v, out.at))
  BY DEF Distance, Span
<1>2. Distance = Span(out.v, out.at)
  BY DEF Distance, Span
<1>3. RightAddress(out) <=>
        (out.kind = "address" /\ (Reached(Distance) \/ (~Near(Distance) /\ out.v \in ToSet(Got))) => Left = out.v)
  BY <1>2 DEF RightAddress, Left, Result
<1>4. RightCall(out) <=>
        (out.kind = "execute" /\ (Reached(Distance) \/ ~Near(Distance)) /\ (out.arch = "riscv" => Distance # 2 ^ Jump)
           => Arrives = out.v)
  BY <1>2 DEF RightCall, Ends, Arrives, Result
<1> QED BY <1>3, <1>4 DEF AddressesReached

(* The code an address is compiled to leaves that address in its register, *)
(* through the tables when it is far, and a call arrives at the word it    *)
(* names, directly or through the stub of the tables (compile.c, plt.c).   *)
THEOREM WordsReached == CompilerSpec => []AddressesReached
<1> DEFINE AInv == Place /\ RightAddress(out) /\ RightCall(out)
<1>1. CompilerInit => AInv
  BY PlaceFirst DEF CompilerInit, Init, RightAddress, RightCall
<1>2. AInv /\ [CompilerNext]_<<vars, flow, optimizer>> => AInv'
  <2> SUFFICES ASSUME AInv, CompilerNext \/ UNCHANGED <<vars, flow, optimizer>>
               PROVE  AInv'
    OBVIOUS
  <2>1. One \/ Jumps
    BY StepIs
  <2>2. Place' /\ (One => At(here))
    BY <2>1, PlaceKept
  <2>3. arch' = arch
    BY <2>1, AssembledKind, CompiledKind DEF One, Next, Jumps, Kinded
  <2>4. RightCall(out)' <=> RightCall(out')
    BY <2>3 DEF RightCall, Ends, PltAddr, PltBytes, RV
  <2>5. CASE One
    <3>1. CASE SYS_COMPILE_CONSTANT
      <4>1. out'.kind = "constant"
        BY <3>1 DEF SYS_COMPILE_CONSTANT, Compiled
      <4>2. RightAddress(out') /\ RightCall(out')
        BY <4>1 DEF RightAddress, RightCall
      <4> QED BY <2>2, <2>4, <4>2
    <3>2. CASE SYS_COMPILE_ADDR
      <4>1. RightAddress(out') /\ out'.kind = "address"
        BY <2>2, <2>5, <3>2, AddressNext DEF SYS_COMPILE_ADDR, Compiled
      <4>2. RightCall(out')
        BY <4>1 DEF RightCall
      <4> QED BY <2>2, <2>4, <4>1, <4>2
    <3>3. CASE SYS_COMPILE_EXECUTE
      <4>1. RightCall(out') /\ out'.kind = "execute"
        BY <2>2, <2>5, <3>3, ExecuteNext DEF SYS_COMPILE_EXECUTE, Compiled
      <4>2. RightAddress(out')
        BY <4>1 DEF RightAddress
      <4> QED BY <2>2, <2>4, <4>1, <4>2
    <3>4. CASE Assemble
      <4>1. RightAddress(out') /\ RightCall(out')
        BY <3>4, AssembledKind DEF RightAddress, RightCall, Kinded
      <4> QED BY <2>2, <2>4, <4>1
    <3> QED BY <2>5, <3>1, <3>2, <3>3, <3>4 DEF One, Next
  <2>6. CASE Jumps
    BY <2>2, <2>4, <2>6 DEF Jumps
  <2> QED BY <2>1, <2>5, <2>6
<1>3. AInv => AddressesReached
  BY ReachedIs
<1> QED BY <1>1, <1>2, <1>3, PTL DEF CompilerSpec
=============================================================================
