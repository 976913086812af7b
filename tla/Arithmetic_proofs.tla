------------------------- MODULE Arithmetic_proofs -------------------------
(***************************************************************************)
(* The functions of the bignum library compute the integers they stand     *)
(* for, for digits of any width and numbers of any length; and with them   *)
(* the divisions, M*/ and the ends of counted loops are right for cells of *)
(* any width.                                                              *)
(***************************************************************************)
EXTENDS Arithmetic, FiniteSetTheorems, FunctionTheorems, SequenceTheorems,
        WellFoundedInduction, TLAPS

-----------------------------------------------------------------------------
(* Powers of two count the subsets of an interval; with one element more   *)
(* there are the subsets without it and as many with it.                   *)

LEMMA Counted ==
  ASSUME NEW n \in Nat
  PROVE  /\ IsFiniteSet(SUBSET (1 .. n))
         /\ Cardinality(SUBSET (1 .. n)) = 2 ^ n
         /\ 2 ^ n \in Nat \ {0}
<1>1. IsFiniteSet(1 .. n) /\ Cardinality(1 .. n) = n
  BY FS_Interval
<1>2. IsFiniteSet(SUBSET (1 .. n)) /\ Cardinality(SUBSET (1 .. n)) = 2 ^ n
  BY <1>1, FS_SUBSET
<1>3. Cardinality(SUBSET (1 .. n)) \in Nat
  BY <1>2, FS_CardinalityType
<1>4. Cardinality(SUBSET (1 .. n)) # 0
  <2>1. {} \in SUBSET (1 .. n)
    OBVIOUS
  <2> QED BY <1>2, <2>1, FS_EmptySet
<1> QED BY <1>2, <1>3, <1>4

LEMMA Doubles ==
  ASSUME NEW n \in Nat
  PROVE  2 ^ (n + 1) = 2 * 2 ^ n
<1> DEFINE A == SUBSET (1 .. n)
           B == {s \in SUBSET (1 .. n + 1) : n + 1 \in s}
           with == [s \in A |-> s \cup {n + 1}]
<1>1. A \cup B = SUBSET (1 .. n + 1)
  <2>1. 1 .. n + 1 = (1 .. n) \cup {n + 1} /\ n + 1 \notin 1 .. n
    OBVIOUS
  <2> QED BY <2>1
<1>2. A \cap B = {}
  OBVIOUS
<1>3. with \in Bijection(A, B)
  <2>1. 1 .. n + 1 = (1 .. n) \cup {n + 1} /\ n + 1 \notin 1 .. n
    OBVIOUS
  <2>2. \A s \in A : s \cup {n + 1} \in B
    BY <2>1
  <2>3. \A s, t \in A : s \cup {n + 1} = t \cup {n + 1} => s = t
    BY <2>1
  <2>4. ASSUME NEW t \in B PROVE \E s \in A : s \cup {n + 1} = t
    <3>1. t \ {n + 1} \in A /\ (t \ {n + 1}) \cup {n + 1} = t
      BY <2>1
    <3> QED BY <3>1
  <2> HIDE DEF A, B
  <2> QED BY <2>2, <2>3, <2>4, Fun_IsBij
<1>4. IsFiniteSet(A) /\ Cardinality(A) = 2 ^ n /\ 2 ^ n \in Nat
  BY Counted
<1>5. IsFiniteSet(B) /\ Cardinality(B) = 2 ^ n
  <2>1. ExistsBijection(A, B)
    BY <1>3 DEF ExistsBijection
  <2> HIDE DEF A, B
  <2> QED BY <1>4, <2>1, FS_Bijection
<1>6. Cardinality(A \cup B) = 2 ^ (n + 1)
  <2>1. n + 1 \in Nat
    OBVIOUS
  <2> QED BY <1>1, <2>1, Counted
<1>7. Cardinality(A \cup B) = Cardinality(A) + Cardinality(B) - Cardinality(A \cap B)
  <2> HIDE DEF A, B
  <2> QED BY <1>4, <1>5, FS_Union
<1>8. Cardinality(A \cap B) = 0
  BY <1>2, FS_EmptySet
<1> HIDE DEF A, B
<1> QED BY <1>4, <1>5, <1>6, <1>7, <1>8

LEMMA Smallest ==
  ASSUME NEW T, T \subseteq Nat, T # {}
  PROVE  \E x \in T : \A y \in T : x <= y
<1>1. PICK x \in T : \A y \in T : ~(<<y, x>> \in OpToRel(<, Nat))
  BY NatLessThanWellFounded, WFMin
<1>2. \A y \in T : ~(y < x)
  BY <1>1 DEF OpToRel
<1> QED BY <1>2

LEMMA AddsUp ==
  ASSUME NEW a \in Nat, NEW b \in Nat
  PROVE  2 ^ (a + b) = 2 ^ a * 2 ^ b
<1> DEFINE T == {n \in Nat : 2 ^ (a + n) # 2 ^ a * 2 ^ n}
<1> SUFFICES ASSUME T # {} PROVE FALSE
  OBVIOUS
<1>1. PICK n \in T : \A k \in T : n <= k
  BY Smallest
<1>2. CASE n = 0
  <2>1. 2 ^ n = 1 /\ a + n = a /\ 2 ^ a \in Nat
    <3>1. n \in Nat /\ SUBSET (1 .. n) = {{}}
      BY <1>2
    <3>2. Cardinality({{}}) = 1
      BY FS_Singleton
    <3>3. Cardinality(SUBSET (1 .. n)) = 2 ^ n /\ 2 ^ a \in Nat
      BY <3>1, Counted
    <3> QED BY <1>2, <3>1, <3>2, <3>3
  <2>2. 2 ^ (a + n) = 2 ^ a * 2 ^ n
    BY <2>1
  <2> QED BY <2>2
<1>3. CASE n # 0
  <2>1. n - 1 \in Nat /\ n = (n - 1) + 1 /\ a + n = (a + (n - 1)) + 1 /\ a + (n - 1) \in Nat /\ ~(n <= n - 1)
    BY <1>3
  <2>2. 2 ^ (a + (n - 1)) = 2 ^ a * 2 ^ (n - 1)
    BY <1>1, <2>1
  <2>3. 2 ^ n = 2 * 2 ^ (n - 1) /\ 2 ^ (a + n) = 2 * 2 ^ (a + (n - 1))
    <3> DEFINE k == n - 1
    <3>1. k \in Nat /\ a + k \in Nat /\ n = k + 1 /\ a + n = (a + k) + 1
      BY <2>1
    <3> HIDE DEF k, T
    <3>2. 2 ^ (k + 1) = 2 * 2 ^ k /\ 2 ^ ((a + k) + 1) = 2 * 2 ^ (a + k)
      BY <3>1, Doubles
    <3>3. 2 ^ n = 2 * 2 ^ k /\ 2 ^ (a + n) = 2 * 2 ^ (a + k)
      BY <3>1, <3>2
    <3> QED BY <3>3 DEF k
  <2>4. ASSUME NEW x \in Nat, NEW y \in Nat PROVE 2 * (x * y) = x * (2 * y)
    OBVIOUS
  <2>5. 2 ^ a \in Nat /\ 2 ^ (n - 1) \in Nat
    BY <2>1, Counted
  <2>6. 2 ^ (a + n) = 2 ^ a * 2 ^ n
    BY <2>2, <2>3, <2>4, <2>5
  <2> QED BY <2>6
<1> QED BY <1>2, <1>3

-----------------------------------------------------------------------------
(* Folds over a sequence of n elements, as the library defines them: over  *)
(* the sets of places that are left, of which pick takes the next.  When   *)
(* each step stays within S the fold exists and its result is in S.        *)
Places(n) == SUBSET (1 .. n)
Picks(n, pick) == \A s \in Places(n) : s # {} => pick[s] \in s
Folded(f, n, base, step, pick) ==
  \A s \in Places(n) : f[s] = IF s = {} THEN base ELSE step[pick[s]][f[s \ {pick[s]}]]

LEMMA Fewer ==
  ASSUME NEW n \in Nat, NEW s \in Places(n), NEW i \in s
  PROVE  /\ s \ {i} \in Places(n)
         /\ Cardinality(s) \in Nat /\ Cardinality(s \ {i}) \in Nat
         /\ Cardinality(s \ {i}) = Cardinality(s) - 1
         /\ Cardinality(s) <= n
<1>1. IsFiniteSet(1 .. n) /\ Cardinality(1 .. n) = n
  BY FS_Interval
<1>2. IsFiniteSet(s) /\ Cardinality(s) <= n
  BY <1>1, FS_Subset DEF Places
<1>3. IsFiniteSet(s \ {i}) /\ Cardinality(s \ {i}) = Cardinality(s) - 1
  BY <1>2, FS_RemoveElement
<1> QED BY <1>2, <1>3, FS_CardinalityType DEF Places

LEMMA Folding ==
  ASSUME NEW n \in Nat, NEW S, NEW base \in S, NEW step \in [1 .. n -> [S -> S]],
         NEW pick, Picks(n, pick)
  PROVE  \E f \in [Places(n) -> S] : Folded(f, n, base, step, pick)
<1> DEFINE Up(k) == {s \in Places(n) : Cardinality(s) <= k}
           Rec(f, s) == f[s] = IF s = {} THEN base ELSE step[pick[s]][f[s \ {pick[s]}]]
           Done(k) == \E f \in [Up(k) -> S] : \A s \in Up(k) : Rec(f, s)
           T == {k \in Nat : ~Done(k)}
<1>1. \A s \in Places(n) : s # {} => /\ pick[s] \in s /\ pick[s] \in 1 .. n
                                     /\ s \ {pick[s]} \in Places(n)
                                     /\ Cardinality(s) \in Nat
                                     /\ Cardinality(s \ {pick[s]}) = Cardinality(s) - 1
  BY Fewer DEF Picks, Places
<1>2. ASSUME T # {} PROVE FALSE
  <2> HIDE DEF Done
  <2>1. PICK k \in T : \A j \in T : k <= j
    BY <1>2, Smallest
  <2>2. CASE k = 0
    <3>1. \A s \in Up(k) : s = {}
      <4>1. \A s \in Places(n) : s # {} => Cardinality(s) >= 1
        <5> SUFFICES ASSUME NEW s \in Places(n), s # {} PROVE Cardinality(s) >= 1
          OBVIOUS
        <5>1. Cardinality(s) \in Nat /\ Cardinality(s \ {pick[s]}) = Cardinality(s) - 1
          BY <1>1
        <5>2. Cardinality(s \ {pick[s]}) \in Nat
          BY <1>1, Fewer
        <5> QED BY <5>1, <5>2
      <4>2. \A s \in Up(k) : s \in Places(n) /\ Cardinality(s) <= 0
        BY <2>2
      <4>3. \A s \in Up(k) : s # {} => 1 <= Cardinality(s) /\ Cardinality(s) \in Nat
        BY <1>1, <4>1, <4>2
      <4> HIDE DEF Up
      <4> QED BY <4>2, <4>3
    <3> DEFINE f == [s \in Up(k) |-> base]
    <3>2. f \in [Up(k) -> S] /\ \A s \in Up(k) : Rec(f, s)
      <4> HIDE DEF Up
      <4> QED BY <3>1
    <3>3. Done(k)
      <4> HIDE DEF f, Up, Rec
      <4> QED BY <3>2 DEF Done
    <3> QED BY <3>3
  <2>3. CASE k # 0
    <3> DEFINE j == k - 1
    <3>1. j \in Nat /\ ~(k <= j) /\ k = j + 1
      BY <2>3
    <3> HIDE DEF j
    <3>2. Done(j)
      BY <2>1, <3>1
    <3>3. PICK f \in [Up(j) -> S] : \A s \in Up(j) : Rec(f, s)
      <4> HIDE DEF Up, Rec
      <4> QED BY <3>2 DEF Done
    <3> DEFINE g == [s \in Up(k) |-> IF s = {} THEN base ELSE step[pick[s]][f[s \ {pick[s]}]]]
    <3>4. \A s \in Up(k) : s # {} => pick[s] \in 1 .. n /\ s \ {pick[s]} \in Up(j)
      <4> SUFFICES ASSUME NEW s \in Up(k), s # {} PROVE pick[s] \in 1 .. n /\ s \ {pick[s]} \in Up(j)
        OBVIOUS
      <4>1. /\ Cardinality(s) <= k /\ Cardinality(s) \in Nat
            /\ Cardinality(s \ {pick[s]}) = Cardinality(s) - 1
            /\ s \ {pick[s]} \in Places(n) /\ pick[s] \in 1 .. n
        BY <1>1
      <4>2. Cardinality(s \ {pick[s]}) <= j
        BY <3>1, <4>1
      <4> QED BY <4>1, <4>2
    <3>5. Up(j) \subseteq Up(k)
      <4>1. \A s \in Up(j) : s \in Places(n) /\ Cardinality(s) <= j /\ Cardinality(s) \in Nat
        <5> SUFFICES ASSUME NEW s \in Up(j) PROVE Cardinality(s) \in Nat
          OBVIOUS
        <5>1. CASE s = {}
          BY <5>1, FS_EmptySet
        <5>2. CASE s # {}
          BY <1>1, <5>2
        <5> QED BY <5>1, <5>2
      <4>2. \A s \in Up(j) : Cardinality(s) <= k
        BY <3>1, <4>1
      <4> QED BY <4>1, <4>2
    <3> HIDE DEF Up
    <3>6. g \in [Up(k) -> S]
      <4>1. \A s \in Up(k) : s # {} => step[pick[s]][f[s \ {pick[s]}]] \in S
        BY <3>4
      <4> QED BY <4>1
    <3>7. \A s \in Up(j) : g[s] = f[s]
      BY <3>3, <3>5
    <3>8. \A s \in Up(k) : Rec(g, s)
      BY <3>4, <3>7
    <3>9. Done(k)
      <4> HIDE DEF g, Rec
      <4> QED BY <3>6, <3>8 DEF Done
    <3> QED BY <3>9
  <2> QED BY <2>2, <2>3
<1>3. Done(n)
  <2> HIDE DEF Done
  <2> QED BY <1>2
<1>4. Up(n) = Places(n)
  <2>1. \A s \in Places(n) : Cardinality(s) <= n
    <3> SUFFICES ASSUME NEW s \in Places(n) PROVE Cardinality(s) <= n
      OBVIOUS
    <3>1. CASE s = {}
      BY <3>1, FS_EmptySet
    <3>2. CASE s # {}
      BY <1>1, <3>2, Fewer
    <3> QED BY <3>1, <3>2
  <2> QED BY <2>1
<1> HIDE DEF Up
<1> QED BY <1>3, <1>4 DEF Folded

(* f takes the steps wherever it is known to be in S.                      *)
Continues(f, n, S, step, pick) ==
  \A s \in Places(n) : s # {} /\ f[s \ {pick[s]}] \in S => f[s] = step[pick[s]][f[s \ {pick[s]}]]

LEMMA FoldStays ==
  ASSUME NEW n \in Nat, NEW S, NEW base \in S, NEW step \in [1 .. n -> [S -> S]],
         NEW pick, Picks(n, pick),
         NEW f, f[{}] = base, Continues(f, n, S, step, pick)
  PROVE  \A s \in Places(n) : f[s] \in S
<1> DEFINE Bad == {s \in Places(n) : f[s] \notin S}
           T == {Cardinality(s) : s \in Bad}
<1> SUFFICES ASSUME Bad # {} PROVE FALSE
  OBVIOUS
<1>1. \A s \in Places(n) : Cardinality(s) \in Nat
  <2> SUFFICES ASSUME NEW s \in Places(n) PROVE Cardinality(s) \in Nat
    OBVIOUS
  <2>1. IsFiniteSet(1 .. n)
    BY FS_Interval
  <2>2. IsFiniteSet(s)
    BY <2>1, FS_Subset DEF Places
  <2> QED BY <2>2, FS_CardinalityType
<1>3. T # {} /\ T \subseteq Nat
  BY <1>1
<1>4. PICK k \in T : \A j \in T : k <= j
  BY <1>3, Smallest
<1>5. PICK s \in Bad : k = Cardinality(s)
  OBVIOUS
<1>6. s # {}
  OBVIOUS
<1>7. /\ pick[s] \in s /\ pick[s] \in 1 .. n /\ s \ {pick[s]} \in Places(n)
      /\ Cardinality(s \ {pick[s]}) = k - 1 /\ k \in Nat
  BY <1>5, <1>6, Fewer DEF Picks, Places
<1>8. s \ {pick[s]} \notin Bad
  <2>1. ~(k <= Cardinality(s \ {pick[s]}))
    BY <1>7
  <2> HIDE DEF Bad
  <2> QED BY <1>4, <2>1
<1>9. f[s \ {pick[s]}] \in S
  BY <1>7, <1>8
<1>10. f[s] = step[pick[s]][f[s \ {pick[s]}]]
  BY <1>5, <1>6, <1>9 DEF Continues
<1>11. step[pick[s]] \in [S -> S]
  BY <1>7
<1>12. f[s] \in S
  BY <1>9, <1>10, <1>11
<1> QED BY <1>12

(* The places are taken from the lowest or from the highest on.            *)
LEMMA FirstOrLast ==
  ASSUME NEW n \in Nat, NEW s \in Places(n), s # {}
  PROVE  Min(s) \in s /\ Max(s) \in s
<1>1. s \subseteq Nat
  BY DEF Places
<1>2. PICK x \in s : \A y \in s : x <= y
  BY <1>1, Smallest
<1>3. Min(s) \in s
  BY <1>2 DEF Min
<1> DEFINE U == {n - y : y \in s}
<1>4. U \subseteq Nat /\ U # {}
  <2>1. \A y \in s : n - y \in Nat
    BY DEF Places
  <2> QED BY <2>1
<1>5. PICK u \in U : \A v \in U : u <= v
  BY <1>4, Smallest
<1>6. PICK z \in s : u = n - z
  OBVIOUS
<1>7. \A y \in s : z >= y
  <2> SUFFICES ASSUME NEW y \in s PROVE z >= y
    OBVIOUS
  <2>1. n - z <= n - y
    BY <1>5, <1>6
  <2>2. z \in Nat /\ y \in Nat
    BY <1>1
  <2> QED BY <2>1, <2>2
<1>8. Max(s) \in s
  BY <1>7 DEF Max
<1> QED BY <1>3, <1>8

LEMMA LastPlace ==
  ASSUME NEW n \in Nat, NEW i \in 1 .. n
  PROVE  /\ 1 .. i \in Places(n) /\ 1 .. i - 1 \in Places(n) /\ 1 .. i # {}
         /\ Max(1 .. i) = i /\ (1 .. i) \ {i} = 1 .. i - 1
<1>1. i \in 1 .. i /\ \A j \in 1 .. i : i >= j
  OBVIOUS
<1>2. Max(1 .. i) \in 1 .. i /\ \A j \in 1 .. i : Max(1 .. i) >= j
  BY <1>1 DEF Max
<1> QED BY <1>1, <1>2 DEF Places

(* What goes from one place of a number to the next is defined.            *)
Carries(c, n, S, base, step) ==
  c \in [0 .. n -> S] /\ c[0] = base /\ \A i \in 1 .. n : c[i] = step[i][c[i - 1]]

LEMMA Carrying ==
  ASSUME NEW n \in Nat, NEW S, NEW base \in S, NEW step \in [1 .. n -> [S -> S]]
  PROVE  \E c : Carries(c, n, S, base, step)
<1> DEFINE pick == [s \in Places(n) |-> Max(s)]
<1>1. Picks(n, pick)
  BY FirstOrLast DEF Picks
<1>2. PICK f \in [Places(n) -> S] : Folded(f, n, base, step, pick)
  BY <1>1, Folding
<1> DEFINE c == [i \in 0 .. n |-> f[1 .. i]]
<1>3. \A i \in 0 .. n : 1 .. i \in Places(n)
  BY DEF Places
<1>4. c \in [0 .. n -> S]
  BY <1>3
<1>5. c[0] = base
  <2>1. 1 .. 0 = {} /\ 0 \in 0 .. n /\ {} \in Places(n)
    BY DEF Places
  <2>2. f[{}] = base
    BY <1>2, <2>1 DEF Folded
  <2> QED BY <2>1, <2>2
<1>6. ASSUME NEW i \in 1 .. n PROVE c[i] = step[i][c[i - 1]]
  <2>1. i \in 0 .. n /\ i - 1 \in 0 .. n /\ 1 .. i \in Places(n) /\ 1 .. i # {}
    <3>1. i \in 0 .. n /\ i - 1 \in 0 .. n /\ i \in 1 .. i
      OBVIOUS
    <3> QED BY <1>3, <3>1
  <2>2. Max(1 .. i) = i
    <3>1. Max(1 .. i) \in 1 .. i /\ \A j \in 1 .. i : Max(1 .. i) >= j
      <4>1. i \in 1 .. i /\ \A j \in 1 .. i : i >= j
        OBVIOUS
      <4> QED BY <4>1 DEF Max
    <3> QED BY <3>1
  <2>3. (1 .. i) \ {i} = 1 .. i - 1
    OBVIOUS
  <2>4. pick[1 .. i] = i
    BY <2>1, <2>2
  <2>5. f[1 .. i] = step[i][f[1 .. i - 1]]
    <3>1. f[1 .. i] = step[pick[1 .. i]][f[(1 .. i) \ {pick[1 .. i]}]]
      <4> DEFINE s == 1 .. i
      <4>1. s \in Places(n) /\ s # {}
        BY <2>1
      <4> HIDE DEF s, pick
      <4>2. f[s] = step[pick[s]][f[s \ {pick[s]}]]
        BY <1>2, <4>1 DEF Folded
      <4> QED BY <4>2 DEF s
    <3> HIDE DEF pick
    <3> QED BY <2>3, <2>4, <3>1
  <2> QED BY <2>1, <2>5
<1> HIDE DEF c
<1> QED BY <1>4, <1>5, <1>6 DEF Carries

(* A fold from the first place on takes its steps one after the other.     *)
LastPicks(n, pick) == \A s \in Places(n) : s # {} => pick[s] = Max(s)
Traced(f, n) == [i \in 0 .. n |-> f[1 .. i]]

LEMMA FoldCarries ==
  ASSUME NEW n \in Nat, NEW S, NEW base \in S, NEW step \in [1 .. n -> [S -> S]],
         NEW pick, LastPicks(n, pick),
         NEW f, f[{}] = base, Continues(f, n, S, step, pick)
  PROVE  Carries(Traced(f, n), n, S, base, step)
<1> \A s \in Places(n) : s # {} => pick[s] = Max(s)
  BY DEF LastPicks
<1>1. Picks(n, pick)
  BY FirstOrLast DEF Picks
<1>2. \A s \in Places(n) : f[s] \in S
  BY <1>1, FoldStays
<1> DEFINE c == [i \in 0 .. n |-> f[1 .. i]]
<1>3. \A i \in 0 .. n : 1 .. i \in Places(n)
  BY DEF Places
<1>4. c \in [0 .. n -> S] /\ c[0] = base
  <2>1. 1 .. 0 = {} /\ 0 \in 0 .. n
    OBVIOUS
  <2> QED BY <1>2, <1>3, <2>1
<1>5. ASSUME NEW i \in 1 .. n PROVE c[i] = step[i][c[i - 1]]
  <2> DEFINE s == 1 .. i
             t == 1 .. i - 1
  <2>1. s \in Places(n) /\ t \in Places(n) /\ s # {} /\ Max(s) = i /\ s \ {i} = t
    BY LastPlace
  <2>2. i \in 0 .. n /\ i - 1 \in 0 .. n
    OBVIOUS
  <2>3. c[i] = f[s] /\ c[i - 1] = f[t]
    BY <2>2
  <2> HIDE DEF s, t, c
  <2>4. pick[s] = i /\ f[t] \in S
    BY <1>2, <2>1
  <2>5. f[s] = step[i][f[t]]
    BY <2>1, <2>4 DEF Continues
  <2> QED BY <2>3, <2>5
<1> HIDE DEF c
<1>6. Carries(c, n, S, base, step)
  BY <1>4, <1>5 DEF Carries
<1> QED BY <1>6 DEF c, Traced

LEMMA Bases ==
  /\ Base \in Nat \ {0} /\ Base \div 2 \in Nat \ {0}
  /\ \A k \in Nat : 2 ^ k \in Nat \ {0}
<1> DEFINE k == BigBits - 1
<1>1. k \in Nat /\ BigBits = k + 1
  BY BigBitsAssumption
<1> HIDE DEF k
<1>2. 2 ^ (k + 1) = 2 * 2 ^ k /\ 2 ^ k \in Nat \ {0}
  BY <1>1, Doubles, Counted
<1>3. Base = 2 * 2 ^ k
  BY <1>1, <1>2 DEF Base
<1> DEFINE h == 2 ^ k
<1> HIDE DEF h
<1>4. h \in Nat \ {0} /\ Base = 2 * h
  BY <1>2, <1>3 DEF h
<1>5. Base \in Nat \ {0} /\ Base \div 2 \in Nat \ {0}
  BY <1>4
<1> QED BY <1>5, Counted

LEMMA PlacedLength ==
  ASSUME NEW n \in Nat, NEW S, NEW x \in [1 .. n -> S]
  PROVE  /\ x \in Seq(S) /\ Len(x) = n /\ DOMAIN x = 1 .. n
         /\ Fixed(x) = x
<1>1. x \in Seq(S) /\ Len(x) = n /\ DOMAIN x = 1 .. n
  OBVIOUS
<1>2. x \o <<>> = x
  BY <1>1, ConcatEmptySeq
<1> QED BY <1>1, <1>2 DEF Fixed

-----------------------------------------------------------------------------
(* Integers: quotients and remainders, and products that are monotonic.    *)

LEMMA Euclid ==
  ASSUME NEW a \in Int, NEW y \in Nat \ {0}
  PROVE  a \div y \in Int /\ a % y \in 0 .. y - 1 /\ a = y * (a \div y) + (a % y)
OBVIOUS

LEMMA Monotonic ==
  ASSUME NEW a \in Int, NEW b \in Int, NEW c \in Nat, a <= b
  PROVE  c * a <= c * b
<1>1. c * (b - a) >= 0
  OBVIOUS
<1>2. c * (b - a) = c * b - c * a
  OBVIOUS
<1> QED BY <1>1, <1>2

LEMMA Unique ==
  ASSUME NEW y \in Nat \ {0}, NEW k \in Int, NEW r \in 0 .. y - 1, NEW a \in Int, a = y * k + r
  PROVE  a \div y = k /\ a % y = r
<1> DEFINE q == a \div y
           s == a % y
<1>1. q \in Int /\ s \in 0 .. y - 1 /\ a = y * q + s
  BY Euclid
<1> HIDE DEF q, s
<1>2. CASE q > k
  <2>1. y * (k + 1) <= y * q
    BY <1>1, <1>2, Monotonic
  <2>2. y * (k + 1) = y * k + y
    OBVIOUS
  <2> QED BY <1>1, <2>1, <2>2
<1>3. CASE q < k
  <2>1. y * (q + 1) <= y * k
    BY <1>1, <1>3, Monotonic
  <2>2. y * (q + 1) = y * q + y
    BY <1>1
  <2> QED BY <1>1, <2>1, <2>2
<1>4. CASE q = k
  <2>1. s = r
    BY <1>1, <1>4
  <2> QED BY <1>4, <2>1 DEF q, s
<1> QED BY <1>1, <1>2, <1>3, <1>4

LEMMA Product ==
  ASSUME NEW a \in Nat, NEW b \in Nat
  PROVE  a * b \in Nat
OBVIOUS

(* Sums that differ by a multiple of m leave the same remainder.           *)
LEMMA SameRemainder ==
  ASSUME NEW m \in Nat \ {0}, NEW a \in Int, NEW b \in Int, NEW k \in Int, a = b + m * k
  PROVE  a % m = b % m
<1> DEFINE q == b \div m
           s == b % m
<1>1. q \in Int /\ s \in 0 .. m - 1 /\ b = m * q + s
  BY Euclid
<1> HIDE DEF q, s
<1>2. a = m * (q + k) + s
  <2>1. m * (q + k) = m * q + m * k
    BY <1>1
  <2> QED BY <1>1, <2>1
<1>3. a % m = s
  BY <1>1, <1>2, Unique
<1> QED BY <1>3 DEF s

LEMMA Remains ==
  ASSUME NEW m \in Nat \ {0}, NEW a \in 0 .. m - 1
  PROVE  a % m = a /\ a \div m = 0
<1>1. a = m * 0 + a
  OBVIOUS
<1> QED BY <1>1, Unique

LEMMA Residue ==
  ASSUME NEW w \in Nat \ {0}, NEW v \in 0 .. w - 1, NEW k \in Int, NEW t \in Int, t = v + k * w
  PROVE  t % w = v
<1>1. t = w * k + v
  OBVIOUS
<1> QED BY <1>1, Unique

(* Whatever holds at 0 and passes from k to k + 1 holds up to n.           *)
LEMMA Ascends ==
  ASSUME NEW n \in Nat, NEW P, P \subseteq 0 .. n, 0 \in P,
         \A k \in 0 .. n - 1 : k \in P => k + 1 \in P
  PROVE  \A k \in 0 .. n : k \in P
<1> DEFINE T == (0 .. n) \ P
<1> SUFFICES ASSUME T # {} PROVE FALSE
  OBVIOUS
<1>1. PICK k \in T : \A j \in T : k <= j
  <2>1. T \subseteq Nat
    OBVIOUS
  <2> HIDE DEF T
  <2> QED BY <2>1, Smallest
<1>2. k # 0 /\ k \in 0 .. n
  OBVIOUS
<1>3. k - 1 \in 0 .. n - 1 /\ k - 1 \in 0 .. n /\ ~(k <= k - 1) /\ (k - 1) + 1 = k
  BY <1>2
<1>4. k - 1 \in P
  BY <1>1, <1>3
<1>5. k \in P
  BY <1>3, <1>4
<1> QED BY <1>5

-----------------------------------------------------------------------------
(* The weight of a place, in bits and in digits.                           *)
Pow(k) == 2 ^ (BigBits * k)

LEMMA Weights ==
  /\ Pow(0) = 1
  /\ \A k \in Nat : Pow(k) \in Nat \ {0} /\ Pow(k + 1) = Base * Pow(k)
  /\ \A a, b \in Nat : Pow(a + b) = Pow(a) * Pow(b)
<1>1. 2 ^ 0 = 1
  <2>1. SUBSET (1 .. 0) = {{}} /\ 0 \in Nat
    OBVIOUS
  <2>2. Cardinality({{}}) = 1
    BY FS_Singleton
  <2>3. Cardinality(SUBSET (1 .. 0)) = 2 ^ 0
    BY <2>1, Counted
  <2> QED BY <2>1, <2>2, <2>3
<1>2. BigBits * 0 = 0 /\ \A k \in Nat : BigBits * k \in Nat
  BY BigBitsAssumption
<1>3. Pow(0) = 1
  BY <1>1, <1>2 DEF Pow
<1>4. ASSUME NEW a \in Nat, NEW b \in Nat PROVE Pow(a + b) = Pow(a) * Pow(b)
  <2> DEFINE i == BigBits * a
             j == BigBits * b
  <2>1. i \in Nat /\ j \in Nat /\ BigBits * (a + b) = i + j
    BY BigBitsAssumption
  <2> HIDE DEF i, j
  <2>2. 2 ^ (i + j) = 2 ^ i * 2 ^ j
    BY <2>1, AddsUp
  <2> QED BY <2>1, <2>2 DEF Pow, i, j
<1>5. ASSUME NEW k \in Nat PROVE Pow(k) \in Nat \ {0} /\ Pow(k + 1) = Base * Pow(k)
  <2>1. Pow(k) \in Nat \ {0}
    BY <1>2, Counted DEF Pow
  <2>2. Pow(1) = Base
    <3>1. BigBits * 1 = BigBits
      BY BigBitsAssumption
    <3> QED BY <3>1 DEF Pow, Base
  <2>3. Pow(1 + k) = Pow(1) * Pow(k) /\ 1 + k = k + 1
    BY <1>4
  <2> QED BY <2>1, <2>2, <2>3
<1> QED BY <1>3, <1>4, <1>5

-----------------------------------------------------------------------------
(* Numbers whose places hold any integers, not only digits.                *)
Placed(n) == [1 .. n -> Nat]

(* The integer that the k low places of x make up.                         *)
Sums(x, k, p) ==
  /\ p \in [0 .. k -> Nat] /\ p[0] = 0
  /\ \A i \in 1 .. k : p[i] = p[i - 1] + At(x, i) * Pow(i - 1)
Low(x, k) == (CHOOSE p : Sums(x, k, p))[k]
Natural(x) == \A i \in Int : At(x, i) \in Nat

LEMMA SumsExist ==
  ASSUME NEW x, Natural(x), NEW k \in Nat
  PROVE  \E p : Sums(x, k, p)
<1> DEFINE step == [i \in 1 .. k |-> [v \in Nat |-> v + At(x, i) * Pow(i - 1)]]
<1>1. \A i \in 1 .. k : At(x, i) * Pow(i - 1) \in Nat
  <2> SUFFICES ASSUME NEW i \in 1 .. k PROVE At(x, i) * Pow(i - 1) \in Nat
    OBVIOUS
  <2> DEFINE j == i - 1
  <2>1. j \in Nat /\ i \in Int
    OBVIOUS
  <2>2. At(x, i) \in Nat /\ Pow(j) \in Nat
    <3> HIDE DEF j, step
    <3> QED BY <2>1, Weights DEF Natural
  <2> QED BY <2>2, Product
<1>2. step \in [1 .. k -> [Nat -> Nat]]
  BY <1>1
<1>3. PICK p : Carries(p, k, Nat, 0, step)
  <2> HIDE DEF step
  <2>1. 0 \in Nat
    OBVIOUS
  <2> QED BY <1>2, <2>1, Carrying
<1>4. ASSUME NEW i \in 1 .. k PROVE p[i] = p[i - 1] + At(x, i) * Pow(i - 1)
  <2>1. p[i] = step[i][p[i - 1]] /\ p[i - 1] \in Nat
    BY <1>3 DEF Carries
  <2> QED BY <2>1
<1> QED BY <1>3, <1>4 DEF Carries, Sums

LEMMA SumsAgree ==
  ASSUME NEW x, NEW k \in Nat, NEW l \in Nat, k <= l, NEW p, NEW q, Sums(x, k, p), Sums(x, l, q)
  PROVE  p[k] = q[k]
<1> DEFINE P == {i \in 0 .. k : p[i] = q[i]}
<1>1. 0 \in P /\ P \subseteq 0 .. k
  BY DEF Sums
<1>2. ASSUME NEW i \in 0 .. k - 1, i \in P PROVE i + 1 \in P
  <2>1. i + 1 \in 1 .. k /\ i + 1 \in 1 .. l /\ (i + 1) - 1 = i
    OBVIOUS
  <2>2. p[i + 1] = p[i] + At(x, i + 1) * Pow(i) /\ q[i + 1] = q[i] + At(x, i + 1) * Pow(i)
    BY <2>1 DEF Sums
  <2> QED BY <1>2, <2>1, <2>2
<1> HIDE DEF P
<1>3. k \in P
  <2>1. k \in 0 .. k
    OBVIOUS
  <2> QED BY <1>1, <1>2, <2>1, Ascends
<1> QED BY <1>3 DEF P

LEMMA LowIs ==
  ASSUME NEW x, Natural(x)
  PROVE  /\ Low(x, 0) = 0
         /\ \A k \in Nat : Low(x, k) \in Nat /\ Low(x, k + 1) = Low(x, k) + At(x, k + 1) * Pow(k)
<1> DEFINE P(k) == CHOOSE p : Sums(x, k, p)
<1>1. \A k \in Nat : Sums(x, k, P(k))
  BY SumsExist
<1>2. \A k \in Nat : Low(x, k) = P(k)[k]
  BY DEF Low
<1> HIDE DEF P
<1>3. Low(x, 0) = 0
  BY <1>1, <1>2 DEF Sums
<1>4. ASSUME NEW k \in Nat PROVE Low(x, k) \in Nat /\ Low(x, k + 1) = Low(x, k) + At(x, k + 1) * Pow(k)
  <2>1. k + 1 \in Nat /\ k <= k + 1 /\ k + 1 \in 1 .. k + 1 /\ (k + 1) - 1 = k /\ k \in 0 .. k
    OBVIOUS
  <2>2. Sums(x, k, P(k)) /\ Sums(x, k + 1, P(k + 1))
    BY <1>1, <2>1
  <2>3. P(k)[k] = P(k + 1)[k]
    BY <2>1, <2>2, SumsAgree
  <2>4. P(k + 1)[k + 1] = P(k + 1)[k] + At(x, k + 1) * Pow(k) /\ P(k)[k] \in Nat
    BY <2>1, <2>2 DEF Sums
  <2> QED BY <1>2, <2>1, <2>3, <2>4
<1> QED BY <1>3, <1>4

(* Above the places of x nothing is added; a digit is below the base.      *)
LEMMA NumberIsNatural ==
  ASSUME NEW n \in Nat, NEW x \in Placed(n)
  PROVE  /\ Natural(x) /\ Len(x) = n /\ DOMAIN x = 1 .. n /\ x \in Seq(Nat)
         /\ \A i \in 1 .. n : At(x, i) = x[i]
         /\ \A i \in Int : i \notin 1 .. n => At(x, i) = 0
BY PlacedLength DEF Natural, At, Placed

LEMMA LowAbove ==
  ASSUME NEW n \in Nat, NEW x \in Placed(n), NEW k \in Nat, k >= n
  PROVE  Low(x, k) = Low(x, n)
<1> DEFINE P == {i \in 0 .. k - n : Low(x, n + i) = Low(x, n)}
           m == k - n
<1>1. m \in Nat /\ n + m = k
  OBVIOUS
<1>2. P \subseteq 0 .. m /\ 0 \in P
  <2>1. n + 0 = n /\ 0 \in 0 .. m
    BY <1>1
  <2> QED BY <2>1
<1>3. ASSUME NEW i \in 0 .. m - 1, i \in P PROVE i + 1 \in P
  <2>1. n + i \in Nat /\ (n + i) + 1 = n + (i + 1) /\ i + 1 \in 0 .. m /\ (n + i) + 1 \in Int /\ (n + i) + 1 \notin 1 .. n
    BY <1>1
  <2>2. At(x, (n + i) + 1) = 0
    BY <2>1, NumberIsNatural
  <2> DEFINE j == n + i
  <2>3. Low(x, j + 1) = Low(x, j) + 0 * Pow(j) /\ Low(x, j) \in Nat /\ Pow(j) \in Nat
    <3> HIDE DEF m, P
    <3>1. j \in Nat /\ At(x, j + 1) = 0
      BY <2>1, <2>2
    <3>2. Natural(x)
      BY NumberIsNatural
    <3> HIDE DEF j
    <3>3. Low(x, j + 1) = Low(x, j) + At(x, j + 1) * Pow(j) /\ Low(x, j) \in Nat
      BY <3>1, <3>2, LowIs
    <3>4. Pow(j) \in Nat
      BY <3>1, Weights
    <3> QED BY <3>1, <3>3, <3>4
  <2>4. Low(x, (n + i) + 1) = Low(x, n + i)
    BY <2>3
  <2>5. Low(x, n + (i + 1)) = Low(x, n)
    BY <1>3, <2>1, <2>4
  <2> QED BY <2>1, <2>5
<1> HIDE DEF P
<1>4. m \in P
  <2> HIDE DEF m
  <2>1. m \in 0 .. m
    BY <1>1
  <2> QED BY <1>1, <1>2, <1>3, <2>1, Ascends
<1> QED BY <1>1, <1>4 DEF P

LEMMA NumbersPlaced ==
  ASSUME NEW n \in Nat, NEW x \in Numbers(n)
  PROVE  /\ x \in Placed(n) /\ \A i \in 1 .. n : x[i] \in Digit
         /\ \A i \in Int : At(x, i) \in Digit
BY Bases DEF Numbers, Digit, At, Placed

LEMMA LowBelow ==
  ASSUME NEW n \in Nat, NEW x \in Numbers(n), NEW k \in Nat
  PROVE  Low(x, k) \in 0 .. Pow(k) - 1
<1> DEFINE P == {i \in 0 .. k : Low(x, i) \in 0 .. Pow(i) - 1}
<1>1. Natural(x)
  BY NumbersPlaced, NumberIsNatural
<1>2. P \subseteq 0 .. k /\ 0 \in P
  <2>1. Low(x, 0) = 0 /\ Pow(0) = 1 /\ 0 \in 0 .. k
    BY <1>1, LowIs, Weights
  <2> QED BY <2>1
<1>3. ASSUME NEW i \in 0 .. k - 1, i \in P PROVE i + 1 \in P
  <2>1. i \in Nat /\ i + 1 \in Nat /\ i + 1 \in 0 .. k /\ i + 1 \in Int
    OBVIOUS
  <2> DEFINE d == At(x, i + 1)
             w == Pow(i)
             l == Low(x, i)
  <2>2. d \in Nat /\ Base \in Nat \ {0} /\ d <= Base - 1
    BY <2>1, NumbersPlaced, Bases DEF Digit
  <2>3. w \in Nat \ {0} /\ l \in Nat /\ l <= w - 1 /\ Low(x, i + 1) = l + d * w /\ Pow(i + 1) = Base * w
    BY <1>1, <1>3, <2>1, LowIs, Weights
  <2> HIDE DEF d, w, l
  <2>4. w * d <= w * (Base - 1)
    BY <2>2, <2>3, Monotonic
  <2>5. w * (Base - 1) = Base * w - w /\ w * d = d * w /\ d * w \in Nat /\ Base * w \in Nat
    BY <2>2, <2>3
  <2>6. l + d * w >= 0 /\ l + d * w <= Base * w - 1
    BY <2>2, <2>3, <2>4, <2>5
  <2>7. Low(x, i + 1) \in 0 .. Pow(i + 1) - 1
    BY <2>3, <2>5, <2>6
  <2> QED BY <2>1, <2>7
<1> HIDE DEF P
<1>4. k \in P
  <2>1. k \in 0 .. k
    OBVIOUS
  <2> QED BY <1>2, <1>3, <2>1, Ascends
<1> QED BY <1>4 DEF P

(* The places above the k low ones add a multiple of their weight.         *)
LEMMA LowExtends ==
  ASSUME NEW x, Natural(x), NEW k \in Nat, NEW l \in Nat, k <= l
  PROVE  \E h \in Nat : Low(x, l) = Low(x, k) + Pow(k) * h
<1> DEFINE m == l - k
           P == {i \in 0 .. m : \E h \in Nat : Low(x, k + i) = Low(x, k) + Pow(k) * h}
<1>1. m \in Nat /\ k + m = l /\ m \in 0 .. m
  OBVIOUS
<1>2. P \subseteq 0 .. m /\ 0 \in P
  <2>1. k + 0 = k /\ Low(x, k) \in Nat /\ Pow(k) \in Nat
    <3> HIDE DEF P, m
    <3>1. Low(x, k) \in Nat
      BY LowIs
    <3>2. Pow(k) \in Nat
      BY Weights
    <3> QED BY <3>1, <3>2
  <2>2. Low(x, k) = Low(x, k) + Pow(k) * 0
    BY <2>1
  <2> QED BY <1>1, <2>1, <2>2
<1>3. ASSUME NEW i \in 0 .. m - 1, i \in P PROVE i + 1 \in P
  <2>1. i \in Nat /\ k + i \in Nat /\ (k + i) + 1 = k + (i + 1) /\ i + 1 \in 0 .. m /\ (k + i) + 1 \in Int
    BY <1>1
  <2>2. PICK h \in Nat : Low(x, k + i) = Low(x, k) + Pow(k) * h
    BY <1>3
  <2> DEFINE d == At(x, (k + i) + 1)
             w == Pow(k)
             v == Pow(i)
             a == Low(x, k)
  <2>3. d \in Nat
    BY <2>1 DEF Natural
  <2>4. w \in Nat /\ v \in Nat /\ Pow(k + i) = w * v
    BY <2>1, Weights
  <2>5. Low(x, (k + i) + 1) = Low(x, k + i) + d * Pow(k + i) /\ a \in Nat
    <3> DEFINE j == k + i
    <3>1. j \in Nat
      BY <2>1
    <3> HIDE DEF j, m, P
    <3>2. Low(x, j + 1) = Low(x, j) + At(x, j + 1) * Pow(j) /\ Low(x, k) \in Nat
      BY <3>1, LowIs
    <3> QED BY <3>2 DEF j
  <2>6. Low(x, (k + i) + 1) = (a + w * h) + d * (w * v)
    BY <2>2, <2>4, <2>5
  <2> HIDE DEF d, w, v, a, P, m
  <2>7. h + d * v \in Nat /\ (a + w * h) + d * (w * v) = a + w * (h + d * v)
    BY <2>3, <2>4, <2>5
  <2>8. Low(x, k + (i + 1)) = Low(x, k) + Pow(k) * (h + d * v)
    BY <2>1, <2>6, <2>7 DEF a, w
  <2> QED BY <2>1, <2>7, <2>8 DEF P
<1>4. m \in P
  <2> HIDE DEF P, m
  <2> QED BY <1>1, <1>2, <1>3, Ascends
<1> QED BY <1>1, <1>4

(* The fold that computes a number's value, the highest place first.       *)
LEMMA ValueIsLow ==
  ASSUME NEW n \in Nat, NEW x \in Placed(n)
  PROVE  Value(x) = Low(x, n)
<1> DEFINE step == [i \in 1 .. n |-> [v \in Nat |-> x[i] + Base * v]]
           pick == [s \in Places(n) |-> Min(s)]
           iter == CHOOSE it : it = [s \in SUBSET (1 .. n) |->
                                       IF s = {} THEN 0 ELSE x[Min(s)] + Base * it[s \ {Min(s)}]]
<1>1. Len(x) = n /\ DOMAIN x = 1 .. n /\ \A i \in 1 .. n : x[i] \in Nat
  BY NumberIsNatural DEF Placed
<1>2. Base \in Nat
  BY Bases
<1>3. Value(x) = iter[1 .. n]
  BY <1>1 DEF Value, FoldRight, MapThenFoldSet
<1> HIDE DEF iter
<1>4. Picks(n, pick)
  BY <1>1, FirstOrLast DEF Picks
<1>5. step \in [1 .. n -> [Nat -> Nat]]
  BY <1>1, <1>2
<1> HIDE DEF step
<1>6. PICK f \in [Places(n) -> Nat] : Folded(f, n, 0, step, pick)
  BY <1>1, <1>4, <1>5, Folding
<1>7. \A s \in Places(n) : s # {} => /\ pick[s] = Min(s) /\ Min(s) \in 1 .. n /\ s \ {Min(s)} \in Places(n)
                                     /\ \A v \in Nat : step[Min(s)][v] = x[Min(s)] + Base * v
  BY <1>1, FirstOrLast DEF Places, step
<1> HIDE DEF pick
<1>8. f = [s \in SUBSET (1 .. n) |-> IF s = {} THEN 0 ELSE x[Min(s)] + Base * f[s \ {Min(s)}]]
  BY <1>6, <1>7 DEF Folded, Places
<1>9. iter = [s \in SUBSET (1 .. n) |-> IF s = {} THEN 0 ELSE x[Min(s)] + Base * iter[s \ {Min(s)}]]
  BY <1>8 DEF iter
<1>10. iter[{}] = 0
  <2>1. {} \in SUBSET (1 .. n)
    OBVIOUS
  <2> QED BY <1>9, <2>1
<1>11. \A s \in Places(n) : s # {} => iter[s] = x[Min(s)] + Base * iter[s \ {Min(s)}]
  BY <1>9 DEF Places
<1>12. Continues(iter, n, Nat, step, pick)
  <2> SUFFICES ASSUME NEW s \in Places(n), s # {}, iter[s \ {pick[s]}] \in Nat
               PROVE  iter[s] = step[pick[s]][iter[s \ {pick[s]}]]
    BY DEF Continues
  <2> DEFINE v == iter[s \ {Min(s)}]
  <2>1. pick[s] = Min(s) /\ v \in Nat /\ iter[s] = x[Min(s)] + Base * v
    BY <1>7, <1>11
  <2> HIDE DEF v
  <2>2. step[Min(s)][v] = x[Min(s)] + Base * v
    BY <1>7, <2>1
  <2>3. iter[s] = step[Min(s)][v]
    BY <2>1, <2>2
  <2> QED BY <2>1, <2>3 DEF v
<1>13. \A s \in Places(n) : iter[s] \in Nat
  <2>1. 0 \in Nat
    OBVIOUS
  <2> QED BY <1>1, <1>4, <1>5, <1>10, <1>12, <2>1, FoldStays
<1> DEFINE H(j) == iter[j + 1 .. n]
<1>14. \A j \in 0 .. n : H(j) \in Nat
  <2>1. \A j \in 0 .. n : (j + 1 .. n) \in Places(n)
    BY DEF Places
  <2> QED BY <1>13, <2>1
<1>15. ASSUME NEW j \in 0 .. n - 1 PROVE H(j) = x[j + 1] + Base * H(j + 1)
  <2> DEFINE s == j + 1 .. n
  <2>1. s \in Places(n) /\ s # {} /\ (j + 1) + 1 = j + 2
    <3>1. j + 1 \in s /\ s \subseteq 1 .. n /\ (j + 1) + 1 = j + 2
      OBVIOUS
    <3> HIDE DEF s
    <3>2. s \in Places(n) /\ s # {}
      BY <3>1 DEF Places
    <3> QED BY <3>1, <3>2
  <2>2. Min(s) = j + 1
    <3>1. j + 1 \in s /\ \A k \in s : j + 1 <= k
      OBVIOUS
    <3>2. Min(s) \in s /\ \A k \in s : Min(s) <= k
      BY <3>1 DEF Min
    <3> QED BY <3>1, <3>2
  <2>3. s \ {j + 1} = j + 2 .. n
    OBVIOUS
  <2> HIDE DEF s
  <2>4. iter[s] = x[j + 1] + Base * iter[j + 2 .. n]
    BY <1>11, <2>1, <2>2, <2>3
  <2> QED BY <2>1, <2>4 DEF s
<1>16. H(0) = iter[1 .. n] /\ H(n) = 0
  <2>1. 0 + 1 = 1 /\ n + 1 .. n = {}
    OBVIOUS
  <2> QED BY <1>10, <2>1
<1> HIDE DEF H, iter
<1> DEFINE P == {j \in 0 .. n : Low(x, j) + Pow(j) * H(j) = H(0)}
<1>17. Natural(x)
  BY NumberIsNatural
<1>18. P \subseteq 0 .. n /\ 0 \in P
  <2>1. Low(x, 0) = 0 /\ Pow(0) = 1 /\ H(0) \in Nat /\ 0 \in 0 .. n
    BY <1>14, <1>17, LowIs, Weights
  <2>2. Low(x, 0) + Pow(0) * H(0) = H(0)
    BY <2>1
  <2> QED BY <2>1, <2>2
<1>19. ASSUME NEW j \in 0 .. n - 1, j \in P PROVE j + 1 \in P
  <2>1. j \in Nat /\ j + 1 \in 0 .. n /\ j + 1 \in 1 .. n /\ j \in 0 .. n
    OBVIOUS
  <2> DEFINE d == x[j + 1]
             w == Pow(j)
             l == Low(x, j)
             h == H(j + 1)
  <2>2. d \in Nat /\ At(x, j + 1) = d
    BY <1>1, <2>1, NumberIsNatural
  <2>3. w \in Nat /\ Pow(j + 1) = Base * w
    BY <2>1, Weights
  <2>4. l \in Nat /\ Low(x, j + 1) = l + d * w
    BY <1>17, <2>1, <2>2, LowIs
  <2>5. h \in Nat /\ H(j) = d + Base * h /\ l + w * H(j) = H(0)
    BY <1>14, <1>15, <1>19, <2>1
  <2> HIDE DEF d, w, l, h
  <2>6. (l + d * w) + (Base * w) * h = l + w * (d + Base * h)
    BY <1>2, <2>2, <2>3, <2>4, <2>5
  <2>7. Low(x, j + 1) + Pow(j + 1) * h = H(0)
    BY <2>3, <2>4, <2>5, <2>6
  <2> QED BY <2>1, <2>7 DEF h
<1> HIDE DEF P
<1>20. n \in P
  <2>1. n \in 0 .. n
    OBVIOUS
  <2> QED BY <1>18, <1>19, <2>1, Ascends
<1>21. Low(x, n) + Pow(n) * 0 = H(0)
  BY <1>16, <1>20 DEF P
<1>22. Low(x, n) \in Nat /\ Pow(n) \in Nat
  BY <1>17, LowIs, Weights
<1> QED BY <1>3, <1>16, <1>21, <1>22

LEMMA NumberValue ==
  ASSUME NEW n \in Nat, NEW x \in Numbers(n)
  PROVE  /\ Value(x) \in Nat /\ Value(x) \in 0 .. Pow(n) - 1
         /\ \A k \in Nat : k >= n => Low(x, k) = Value(x)
<1>1. x \in Placed(n)
  BY NumbersPlaced
<1>2. Value(x) = Low(x, n)
  BY <1>1, ValueIsLow
<1>3. Low(x, n) \in 0 .. Pow(n) - 1
  BY LowBelow
<1>4. \A k \in Nat : k >= n => Low(x, k) = Low(x, n)
  BY <1>1, LowAbove
<1> QED BY <1>2, <1>3, <1>4

-----------------------------------------------------------------------------
(* Carries.  e says what comes to each place but for the carry, c what a   *)
(* place hands on, s the sum of e up to a place.                           *)
Summed(n, e, s) ==
  /\ e \in [1 .. n -> Int] /\ s \in [0 .. n -> Int] /\ s[0] = 0
  /\ \A k \in 1 .. n : s[k] = s[k - 1] + e[k] * Pow(k - 1)
Rippled(n, e, c) ==
  /\ c \in [0 .. n -> Int]
  /\ \A k \in 1 .. n : c[k] = (e[k] + c[k - 1]) \div Base
Leaves(n, e, c, z) == \A k \in 1 .. n : e[k] + c[k - 1] = At(z, k) + Base * c[k]

LEMMA Telescope ==
  ASSUME NEW n \in Nat, NEW z, Natural(z), NEW e, NEW s, Summed(n, e, s), NEW c \in [0 .. n -> Int],
         Leaves(n, e, c, z)
  PROVE  \A k \in 0 .. n : s[k] + c[0] = Low(z, k) + c[k] * Pow(k)
<1> DEFINE P == {k \in 0 .. n : s[k] + c[0] = Low(z, k) + c[k] * Pow(k)}
<1>1. P \subseteq 0 .. n /\ 0 \in P
  <2>1. s[0] = 0 /\ c[0] \in Int /\ Low(z, 0) = 0 /\ Pow(0) = 1 /\ 0 \in 0 .. n
    BY LowIs, Weights DEF Summed
  <2>2. s[0] + c[0] = Low(z, 0) + c[0] * Pow(0)
    BY <2>1
  <2> QED BY <2>1, <2>2
<1>2. ASSUME NEW j \in 0 .. n - 1, j \in P PROVE j + 1 \in P
  <2>1. j \in Nat /\ j + 1 \in 0 .. n /\ j + 1 \in 1 .. n /\ j \in 0 .. n /\ j + 1 \in Int /\ (j + 1) - 1 = j
    OBVIOUS
  <2> DEFINE a == e[j + 1]
             d == At(z, j + 1)
             w == Pow(j)
             l == Low(z, j)
             u == c[j]
             v == c[j + 1]
             t == s[j]
             b == c[0]
  <2>2. d \in Nat /\ l \in Nat /\ Low(z, j + 1) = l + d * w
    BY <2>1, LowIs DEF Natural
  <2>3. w \in Nat /\ Pow(j + 1) = Base * w /\ Base \in Nat
    BY <2>1, Weights, Bases
  <2>4. a \in Int /\ t \in Int /\ s[j + 1] = t + a * w
    BY <2>1 DEF Summed
  <2>5. u \in Int /\ v \in Int /\ b \in Int /\ a + u = d + Base * v
    BY <2>1 DEF Leaves
  <2>6. t + b = l + u * w
    BY <1>2
  <2> HIDE DEF a, d, w, l, u, v, t, b, P
  <2>7. (a + u) * w = (d + Base * v) * w
    BY <2>5
  <2>8. (a + u) * w = a * w + u * w /\ (d + Base * v) * w = d * w + v * (Base * w)
    BY <2>2, <2>3, <2>4, <2>5
  <2>9. (t + a * w) + b = (l + d * w) + v * (Base * w)
    <3>1. a * w \in Int /\ u * w \in Int /\ d * w \in Int /\ v * (Base * w) \in Int
      BY <2>2, <2>3, <2>4, <2>5
    <3> DEFINE aw == a * w
               uw == u * w
               dw == d * w
               vw == v * (Base * w)
    <3>2. aw \in Int /\ uw \in Int /\ dw \in Int /\ vw \in Int
      BY <3>1
    <3>3. aw + uw = dw + vw /\ t + b = l + uw
      BY <2>6, <2>7, <2>8
    <3> HIDE DEF aw, uw, dw, vw
    <3>4. (t + aw) + b = (l + dw) + vw
      BY <2>2, <2>4, <2>5, <3>2, <3>3
    <3> QED BY <3>4 DEF aw, dw, vw
  <2>10. s[j + 1] + c[0] = Low(z, j + 1) + c[j + 1] * Pow(j + 1)
    BY <2>2, <2>3, <2>4, <2>9 DEF b, v
  <2> QED BY <2>1, <2>10 DEF P
<1>3. \A k \in 0 .. n : k \in P
  <2> HIDE DEF P
  <2> QED BY <1>1, <1>2, Ascends
<1> QED BY <1>3

LEMMA Outcome ==
  ASSUME NEW n \in Nat, NEW z \in Numbers(n), NEW e, NEW s, Summed(n, e, s), NEW c \in [0 .. n -> Int],
         Leaves(n, e, c, z)
  PROVE  Value(z) = (s[n] + c[0]) % Pow(n)
<1>1. Natural(z)
  BY NumbersPlaced, NumberIsNatural
<1>2. s[n] + c[0] = Low(z, n) + c[n] * Pow(n)
  <2>1. n \in 0 .. n
    OBVIOUS
  <2> QED BY <1>1, <2>1, Telescope
<1>3. Value(z) = Low(z, n) /\ Value(z) \in 0 .. Pow(n) - 1
  BY NumberValue
<1> DEFINE v == Value(z)
           w == Pow(n)
           t == s[n] + c[0]
           k == c[n]
<1>4. w \in Nat \ {0} /\ k \in Int /\ t \in Int
  BY Weights DEF Summed
<1>5. v \in 0 .. w - 1 /\ t = v + k * w
  BY <1>2, <1>3
<1> HIDE DEF v, w, t, k
<1>7. t % w = v
  BY <1>4, <1>5, Residue
<1> QED BY <1>7 DEF t, w, v

LEMMA RippleExists ==
  ASSUME NEW n \in Nat, NEW e \in [1 .. n -> Int], NEW d \in Int
  PROVE  \E c : c[0] = d /\ Rippled(n, e, c)
<1> DEFINE step == [k \in 1 .. n |-> [v \in Int |-> (e[k] + v) \div Base]]
<1>1. step \in [1 .. n -> [Int -> Int]]
  BY Bases
<1>2. PICK c : Carries(c, n, Int, d, step)
  <2> HIDE DEF step
  <2> QED BY <1>1, Carrying
<1>3. ASSUME NEW k \in 1 .. n PROVE c[k] = (e[k] + c[k - 1]) \div Base
  <2>1. c[k - 1] \in Int /\ c[k] = step[k][c[k - 1]]
    <3>1. k - 1 \in 0 .. n
      OBVIOUS
    <3> HIDE DEF step
    <3> QED BY <1>2, <3>1 DEF Carries
  <2> QED BY <2>1
<1> QED BY <1>2, <1>3 DEF Carries, Rippled

Recurrent(n, e, d, c) == c = [k \in 0 .. n |-> IF k = 0 THEN d ELSE (e[k] + c[k - 1]) \div Base]

LEMMA RippleIs ==
  ASSUME NEW n \in Nat, NEW e \in [1 .. n -> Int], NEW d \in Int,
         NEW c, Recurrent(n, e, d, c)
  PROVE  c[0] = d /\ Rippled(n, e, c)
<1> DEFINE P == {k \in 0 .. n : c[k] \in Int}
<1>1. c[0] = d /\ \A k \in 1 .. n : c[k] = (e[k] + c[k - 1]) \div Base
  <2>1. \A k \in 1 .. n : k \in 0 .. n /\ k # 0
    OBVIOUS
  <2> QED BY <2>1 DEF Recurrent
<1>2. P \subseteq 0 .. n /\ 0 \in P
  BY <1>1
<1>3. ASSUME NEW k \in 0 .. n - 1, k \in P PROVE k + 1 \in P
  <2>1. k + 1 \in 1 .. n /\ (k + 1) - 1 = k /\ c[k] \in Int /\ e[k + 1] \in Int
    BY <1>3
  <2>2. c[k + 1] = (e[k + 1] + c[k]) \div Base
    BY <1>1, <2>1
  <2>3. c[k + 1] \in Int
    BY <2>1, <2>2, Bases
  <2> QED BY <2>1, <2>3
<1>4. \A k \in 0 .. n : k \in P
  <2> HIDE DEF P
  <2> QED BY <1>2, <1>3, Ascends
<1>5. DOMAIN c = 0 .. n /\ c = [k \in 0 .. n |-> c[k]]
  BY DEF Recurrent
<1> QED BY <1>1, <1>4, <1>5 DEF Rippled

(* The k low places of z lack a multiple of the weight of the next one.    *)
Hands(n, s, d, z) == \E c \in [0 .. n -> Int] : \A k \in 0 .. n : s[k] + d = Low(z, k) + c[k] * Pow(k)

(* Ripple adds up what comes to its places, up to a multiple of the weight *)
(* above them.                                                             *)
LEMMA RippleValue ==
  ASSUME NEW n \in Nat, NEW e, NEW s, Summed(n, e, s), NEW d \in Int
  PROVE  /\ Ripple(e, d) \in Numbers(n)
         /\ Value(Ripple(e, d)) = (s[n] + d) % Pow(n)
         /\ Hands(n, s, d, Ripple(e, d))
<1> DEFINE c == CHOOSE c : c = [k \in 0 .. n |-> IF k = 0 THEN d ELSE (e[k] + c[k - 1]) \div Base]
           z == [k \in 1 .. n |-> (e[k] + c[k - 1]) % Base]
<1>1. e \in [1 .. n -> Int] /\ Len(e) = n /\ DOMAIN e = 1 .. n
  BY PlacedLength DEF Summed
<1>2. Ripple(e, d) = Fixed(z)
  BY <1>1 DEF Ripple
<1> HIDE DEF c
<1>3. PICK g : g[0] = d /\ Rippled(n, e, g)
  BY <1>1, RippleExists
<1>4. \A k \in 0 .. n : k # 0 => k \in 1 .. n
  OBVIOUS
<1>5. g = [k \in 0 .. n |-> IF k = 0 THEN d ELSE (e[k] + g[k - 1]) \div Base]
  BY <1>3, <1>4 DEF Rippled
<1>6. c = [k \in 0 .. n |-> IF k = 0 THEN d ELSE (e[k] + c[k - 1]) \div Base]
  BY <1>5 DEF c
<1>7. c[0] = d /\ Rippled(n, e, c)
  <2>1. Recurrent(n, e, d, c)
    BY <1>6 DEF Recurrent
  <2> HIDE DEF z
  <2> QED BY <1>1, <2>1, RippleIs
<1>8. \A k \in 1 .. n : e[k] \in Int /\ c[k - 1] \in Int /\ c[k] \in Int /\ c[k] = (e[k] + c[k - 1]) \div Base
  <2>1. \A k \in 1 .. n : k - 1 \in 0 .. n /\ k \in 0 .. n
    OBVIOUS
  <2> QED BY <1>1, <1>7, <2>1 DEF Rippled
<1>9. ASSUME NEW k \in 1 .. n
      PROVE (e[k] + c[k - 1]) % Base \in Digit /\ e[k] + c[k - 1] = ((e[k] + c[k - 1]) % Base) + Base * c[k]
  <2> DEFINE a == e[k] + c[k - 1]
  <2>1. a \in Int /\ Base \in Nat \ {0} /\ c[k] = a \div Base
    BY <1>8, Bases
  <2> HIDE DEF a
  <2>2. a % Base \in 0 .. Base - 1 /\ a = Base * c[k] + (a % Base)
    BY <2>1, Euclid
  <2>3. a = (a % Base) + Base * c[k]
    BY <1>8, <2>1, <2>2
  <2> QED BY <2>2, <2>3 DEF a, Digit
<1>10. z \in Numbers(n)
  BY <1>9 DEF Numbers
<1>11. \A k \in 1 .. n : At(z, k) = (e[k] + c[k - 1]) % Base
  BY DEF At
<1> HIDE DEF z
<1>12. Leaves(n, e, c, z)
  BY <1>9, <1>11 DEF Leaves
<1>13. c \in [0 .. n -> Int]
  BY <1>7 DEF Rippled
<1>14. Value(z) = (s[n] + d) % Pow(n)
  BY <1>7, <1>10, <1>12, <1>13, Outcome
<1>15. Fixed(z) = z
  BY <1>10, PlacedLength DEF Numbers
<1>16. \A k \in 0 .. n : s[k] + d = Low(z, k) + c[k] * Pow(k)
  <2>1. Natural(z)
    BY <1>10, NumbersPlaced, NumberIsNatural
  <2> QED BY <1>7, <1>12, <1>13, <2>1, Telescope
<1>17. Hands(n, s, d, z)
  BY <1>13, <1>16 DEF Hands
<1> QED BY <1>2, <1>10, <1>14, <1>15, <1>17

(* Sums of two numbers, each taken so many times.                          *)
Combo(n, a, x, b, y) == [k \in 1 .. n |-> a * At(x, k) + b * At(y, k)]
ComboSum(n, a, x, b, y) == [k \in 0 .. n |-> a * Low(x, k) + b * Low(y, k)]

LEMMA Combined ==
  ASSUME NEW n \in Nat, NEW x, Natural(x), NEW y, Natural(y), NEW a \in Int, NEW b \in Int
  PROVE  Summed(n, Combo(n, a, x, b, y), ComboSum(n, a, x, b, y))
<1> DEFINE e == Combo(n, a, x, b, y)
           s == ComboSum(n, a, x, b, y)
<1>1. \A k \in Nat : Low(x, k) \in Nat /\ Low(y, k) \in Nat
  BY LowIs
<1>2. \A k \in Int : At(x, k) \in Nat /\ At(y, k) \in Nat
  BY DEF Natural
<1>3. e \in [1 .. n -> Int] /\ s \in [0 .. n -> Int]
  BY <1>1, <1>2 DEF Combo, ComboSum
<1>4. s[0] = 0
  BY LowIs DEF ComboSum
<1>5. ASSUME NEW k \in 1 .. n PROVE s[k] = s[k - 1] + e[k] * Pow(k - 1)
  <2> DEFINE j == k - 1
             u == At(x, k)
             v == At(y, k)
             w == Pow(j)
             p == Low(x, j)
             q == Low(y, j)
  <2>1. j \in Nat /\ j + 1 = k /\ k \in 0 .. n /\ j \in 0 .. n /\ k \in Int
    OBVIOUS
  <2>2. u \in Nat /\ v \in Nat /\ p \in Nat /\ q \in Nat
    BY <1>1, <1>2, <2>1
  <2>3. w \in Nat
    BY <2>1, Weights
  <2> HIDE DEF j, e, s
  <2>4. Low(x, j + 1) = p + u * w /\ Low(y, j + 1) = q + v * w
    BY <2>1, LowIs
  <2>5. s[k] = a * Low(x, k) + b * Low(y, k) /\ s[j] = a * p + b * q /\ e[k] = a * u + b * v
    BY <2>1 DEF s, e, ComboSum, Combo
  <2> HIDE DEF u, v, w, p, q
  <2>6. a * (p + u * w) + b * (q + v * w) = (a * p + b * q) + (a * u + b * v) * w
    BY <2>2, <2>3
  <2>7. s[k] = s[j] + e[k] * w
    BY <2>1, <2>4, <2>5, <2>6
  <2> QED BY <2>7 DEF j, w
<1> QED BY <1>3, <1>4, <1>5 DEF Summed

LEMMA DigitsOf ==
  ASSUME NEW n \in Nat, NEW x \in Numbers(n)
  PROVE  /\ Natural(x) /\ Len(x) = n /\ DOMAIN x = 1 .. n
         /\ \A i \in 1 .. n : x[i] \in Nat /\ x[i] \in 0 .. Base - 1 /\ At(x, i) = x[i]
         /\ \A i \in Int : At(x, i) \in Nat /\ At(x, i) \in 0 .. Base - 1
<1>1. x \in Placed(n) /\ (\A i \in 1 .. n : x[i] \in Digit) /\ \A i \in Int : At(x, i) \in Digit
  BY NumbersPlaced
<1>2. Natural(x) /\ Len(x) = n /\ DOMAIN x = 1 .. n /\ \A i \in 1 .. n : At(x, i) = x[i]
  BY <1>1, NumberIsNatural
<1>3. Digit = 0 .. Base - 1 /\ Base \in Nat
  BY Bases DEF Digit
<1>4. \A d \in Digit : d \in Nat
  BY <1>3
<1> QED BY <1>1, <1>2, <1>3, <1>4

(* Ripple of a combination of two numbers.                                 *)
LEMMA RippleCombo ==
  ASSUME NEW n \in Nat, NEW m \in 0 .. n, NEW x \in Numbers(n), NEW y \in Numbers(m),
         NEW a \in Int, NEW b \in Int, NEW d \in Int, NEW e, e = Combo(n, a, x, b, y)
  PROVE  /\ Ripple(e, d) \in Numbers(n)
         /\ Value(Ripple(e, d)) = ((a * Value(x) + b * Value(y)) + d) % Pow(n)
<1> DEFINE s == ComboSum(n, a, x, b, y)
<1>1. m \in Nat /\ n >= m
  OBVIOUS
<1>2. Summed(n, e, s)
  <2>1. Natural(x) /\ Natural(y)
    BY <1>1, DigitsOf
  <2> QED BY <2>1, Combined
<1>3. s[n] = a * Value(x) + b * Value(y)
  <2>1. Low(x, n) = Value(x) /\ Low(y, n) = Value(y)
    BY <1>1, NumberValue
  <2> QED BY <2>1 DEF ComboSum
<1> DEFINE r == Ripple(e, d)
<1>4. r \in Numbers(n) /\ Value(r) = (s[n] + d) % Pow(n)
  <2> HIDE DEF s
  <2> QED BY <1>2, RippleValue
<1> HIDE DEF s, r
<1>5. Value(r) = ((a * Value(x) + b * Value(y)) + d) % Pow(n)
  BY <1>3, <1>4
<1> QED BY <1>4, <1>5 DEF r

LEMMA AddIs ==
  ASSUME NEW n \in Nat, NEW m \in 0 .. n, NEW x \in Numbers(n), NEW y \in Numbers(m)
  PROVE  /\ Add(x, y) \in Numbers(n) /\ Value(Add(x, y)) = (Value(x) + Value(y)) % Pow(n)
         /\ Sub(x, y) \in Numbers(n) /\ Value(Sub(x, y)) = (Value(x) - Value(y)) % Pow(n)
<1>1. m \in Nat /\ DOMAIN x = 1 .. n /\ \A i \in 1 .. n : x[i] \in Nat /\ At(x, i) = x[i] /\ At(y, i) \in Nat
  <2>1. m \in Nat /\ 1 .. n \subseteq Int
    OBVIOUS
  <2> QED BY <2>1, DigitsOf
<1>2. Value(x) \in Nat /\ Value(y) \in Nat
  BY <1>1, NumberValue
<1> DEFINE e == [i \in DOMAIN x |-> x[i] + At(y, i)]
           f == [i \in DOMAIN x |-> x[i] - At(y, i)]
<1>3. e = Combo(n, 1, x, 1, y) /\ f = Combo(n, 1, x, -1, y)
  BY <1>1 DEF Combo
<1>4. Add(x, y) = Ripple(e, 0) /\ Sub(x, y) = Ripple(f, 0)
  BY DEF Add, Sub
<1> HIDE DEF e, f
<1>5. 0 \in Int /\ 1 \in Int /\ -1 \in Int
  OBVIOUS
<1>6. /\ Ripple(e, 0) \in Numbers(n) /\ Value(Ripple(e, 0)) = ((1 * Value(x) + 1 * Value(y)) + 0) % Pow(n)
      /\ Ripple(f, 0) \in Numbers(n) /\ Value(Ripple(f, 0)) = ((1 * Value(x) + (-1) * Value(y)) + 0) % Pow(n)
  BY <1>3, <1>5, RippleCombo
<1>7. (1 * Value(x) + 1 * Value(y)) + 0 = Value(x) + Value(y) /\ (1 * Value(x) + (-1) * Value(y)) + 0 = Value(x) - Value(y)
  BY <1>2
<1> QED BY <1>4, <1>6, <1>7

LEMMA DigitIs ==
  ASSUME NEW n \in Nat, NEW x \in Numbers(n), NEW d \in Digit
  PROVE  /\ AddDigit(x, d) \in Numbers(n) /\ Value(AddDigit(x, d)) = (Value(x) + d) % Pow(n)
         /\ SubDigit(x, d) \in Numbers(n) /\ Value(SubDigit(x, d)) = (Value(x) - d) % Pow(n)
         /\ MulDigit(x, d) \in Numbers(n) /\ Value(MulDigit(x, d)) = (Value(x) * d) % Pow(n)
<1>1. DOMAIN x = 1 .. n /\ \A i \in 1 .. n : x[i] \in Nat /\ At(x, i) = x[i]
  BY DigitsOf
<1>2. Value(x) \in Nat /\ d \in Nat
  BY NumberValue, Bases DEF Digit
<1> DEFINE e == [i \in DOMAIN x |-> x[i] * d]
<1>3. x = Combo(n, 1, x, 0, x) /\ e = Combo(n, d, x, 0, x)
  <2>1. x = [i \in 1 .. n |-> x[i]]
    BY DEF Numbers
  <2>2. \A i \in 1 .. n : x[i] = 1 * At(x, i) + 0 * At(x, i) /\ x[i] * d = d * At(x, i) + 0 * At(x, i)
    BY <1>1, <1>2
  <2> QED BY <1>1, <2>1, <2>2 DEF Combo
<1>4. AddDigit(x, d) = Ripple(x, d) /\ SubDigit(x, d) = Ripple(x, -d) /\ MulDigit(x, d) = Ripple(e, 0)
  BY DEF AddDigit, SubDigit, MulDigit
<1> HIDE DEF e
<1>5. 0 \in Int /\ 1 \in Int /\ d \in Int /\ -d \in Int /\ n \in 0 .. n
  BY <1>2
<1> DEFINE v == Value(x)
<1>6. /\ Ripple(x, d) \in Numbers(n) /\ Value(Ripple(x, d)) = ((1 * v + 0 * v) + d) % Pow(n)
      /\ Ripple(x, -d) \in Numbers(n) /\ Value(Ripple(x, -d)) = ((1 * v + 0 * v) + (-d)) % Pow(n)
      /\ Ripple(e, 0) \in Numbers(n) /\ Value(Ripple(e, 0)) = ((d * v + 0 * v) + 0) % Pow(n)
  BY <1>3, <1>5, RippleCombo
<1>7. (1 * v + 0 * v) + d = v + d /\ (1 * v + 0 * v) + (-d) = v - d /\ (d * v + 0 * v) + 0 = v * d
  BY <1>2
<1> QED BY <1>4, <1>6, <1>7

-----------------------------------------------------------------------------
(* The places of v are those of w from place a + 1 on.                     *)
Shows(v, w, a, j) == \A t \in 1 .. j : At(v, t) = At(w, a + t)

LEMMA LowShift ==
  ASSUME NEW v, Natural(v), NEW w, Natural(w), NEW a \in Nat, NEW j \in Nat, Shows(v, w, a, j)
  PROVE  Low(w, a + j) = Low(w, a) + Pow(a) * Low(v, j)
<1> DEFINE P == {t \in 0 .. j : Low(w, a + t) = Low(w, a) + Pow(a) * Low(v, t)}
<1>1. P \subseteq 0 .. j /\ 0 \in P
  <2>1. a + 0 = a /\ 0 \in 0 .. j
    OBVIOUS
  <2>2. Low(v, 0) = 0 /\ Low(w, a) \in Nat
    BY LowIs
  <2>3. Pow(a) \in Nat
    BY Weights
  <2>4. Low(w, a + 0) = Low(w, a) + Pow(a) * Low(v, 0)
    BY <2>1, <2>2, <2>3
  <2> QED BY <2>1, <2>4
<1>2. ASSUME NEW t \in 0 .. j - 1, t \in P PROVE t + 1 \in P
  <2> DEFINE i == a + t
             d == At(v, t + 1)
             p == Pow(a)
             q == Pow(t)
             l == Low(w, a)
             u == Low(v, t)
  <2>1. t \in Nat /\ t + 1 \in 0 .. j /\ t + 1 \in 1 .. j /\ i \in Nat /\ i + 1 = a + (t + 1) /\ t + 1 \in Int
    OBVIOUS
  <2>2. At(w, i + 1) = d
    BY <2>1 DEF Shows
  <2>3. d \in Nat /\ l \in Nat /\ u \in Nat /\ Low(v, t + 1) = u + d * q
    <3>1. d \in Nat
      BY <2>1 DEF Natural
    <3> QED BY <2>1, <3>1, LowIs
  <2>4. p \in Nat /\ q \in Nat /\ Pow(i) = p * q
    BY <2>1, Weights
  <2>5. Low(w, i) = l + p * u
    BY <1>2
  <2> HIDE DEF i, P
  <2>6. Low(w, i + 1) = Low(w, i) + d * (p * q)
    BY <2>1, <2>2, <2>4, LowIs
  <2> HIDE DEF d, p, q, l, u
  <2>7. (l + p * u) + d * (p * q) = l + p * (u + d * q)
    BY <2>3, <2>4
  <2>8. Low(w, a + (t + 1)) = l + p * Low(v, t + 1)
    BY <2>1, <2>3, <2>5, <2>6, <2>7
  <2> QED BY <2>1, <2>8 DEF P, l, p
<1> HIDE DEF P
<1>3. j \in P
  <2>1. j \in 0 .. j
    OBVIOUS
  <2> QED BY <1>1, <1>2, <2>1, Ascends
<1> QED BY <1>3 DEF P

LEMMA LowSame ==
  ASSUME NEW v, Natural(v), NEW w, Natural(w), NEW j \in Nat, \A t \in 1 .. j : At(v, t) = At(w, t)
  PROVE  Low(v, j) = Low(w, j)
<1>1. Shows(v, w, 0, j)
  <2>1. \A t \in 1 .. j : 0 + t = t
    OBVIOUS
  <2> QED BY <2>1 DEF Shows
<1>2. Low(w, 0 + j) = Low(w, 0) + Pow(0) * Low(v, j)
  <2>1. 0 \in Nat
    OBVIOUS
  <2> QED BY <1>1, <2>1, LowShift
<1>3. Low(w, 0) = 0 /\ Pow(0) = 1 /\ Low(v, j) \in Nat /\ 0 + j = j
  <2>1. Low(w, 0) = 0 /\ Low(v, j) \in Nat
    BY LowIs
  <2>2. Pow(0) = 1
    BY Weights
  <2> QED BY <2>1, <2>2
<1> QED BY <1>2, <1>3

LEMMA LowZero ==
  ASSUME NEW x, Natural(x), NEW k \in Nat, \A i \in 1 .. k : At(x, i) = 0
  PROVE  Low(x, k) = 0
<1> DEFINE v == [i \in 1 .. 0 |-> 0]
<1>1. v \in Placed(0) /\ 0 \in Nat /\ k >= 0
  BY DEF Placed
<1>2. Natural(v) /\ \A i \in Int : At(v, i) = 0
  <2>1. \A i \in Int : i \notin 1 .. 0
    OBVIOUS
  <2> HIDE DEF v
  <2> QED BY <1>1, <2>1, NumberIsNatural
<1> HIDE DEF v
<1>3. Low(v, k) = Low(v, 0)
  BY <1>1, LowAbove
<1>4. Low(v, 0) = 0
  BY <1>2, LowIs
<1>5. Low(v, k) = Low(x, k)
  <2>1. \A i \in 1 .. k : At(v, i) = At(x, i)
    BY <1>2
  <2> QED BY <1>2, <2>1, LowSame
<1> QED BY <1>3, <1>4, <1>5

(* A value and the digits of its number determine each other.              *)
LEMMA ValueSplits ==
  ASSUME NEW n \in Nat, NEW x \in Numbers(n), NEW k \in Nat
  PROVE  \E h \in Nat : Value(x) = Low(x, k) + Pow(k) * h
<1>1. Natural(x)
  BY DigitsOf
<1> DEFINE l == n + k
<1>2. l \in Nat /\ k <= l /\ l >= n
  OBVIOUS
<1> HIDE DEF l
<1>3. Low(x, l) = Value(x)
  BY <1>2, NumberValue
<1> QED BY <1>1, <1>2, <1>3, LowExtends

LEMMA LowIsRemainder ==
  ASSUME NEW n \in Nat, NEW x \in Numbers(n), NEW k \in Nat
  PROVE  Low(x, k) = Value(x) % Pow(k)
<1>1. PICK h \in Nat : Value(x) = Low(x, k) + Pow(k) * h
  BY ValueSplits
<1> DEFINE l == Low(x, k)
           v == Value(x)
           w == Pow(k)
<1>2. l \in 0 .. w - 1
  BY LowBelow
<1>3. w \in Nat \ {0} /\ v \in Nat
  BY Weights, NumberValue
<1>4. v = l + w * h
  BY <1>1
<1> HIDE DEF l, v, w
<1>5. v = w * h + l
  BY <1>2, <1>3, <1>4
<1>6. v % w = l
  BY <1>2, <1>3, <1>5, Unique
<1> QED BY <1>6 DEF l, v, w

LEMMA DigitFrom ==
  ASSUME NEW n \in Nat, NEW x \in Numbers(n), NEW k \in Nat
  PROVE  \E h \in Nat : /\ Value(x) \div Pow(k) = At(x, k + 1) + Base * h
                        /\ (Value(x) \div Pow(k)) % Base = At(x, k + 1)
<1>1. k + 1 \in Nat /\ k + 1 \in Int
  OBVIOUS
<1>2. PICK h \in Nat : Value(x) = Low(x, k + 1) + Pow(k + 1) * h
  BY <1>1, ValueSplits
<1> DEFINE l == Low(x, k)
           d == At(x, k + 1)
           w == Pow(k)
           v == Value(x)
           b == Base
<1>3. l \in Nat /\ l \in 0 .. w - 1
  BY LowBelow, DigitsOf, LowIs
<1>4. Low(x, k + 1) = l + d * w
  BY DigitsOf, LowIs
<1>5. d \in Nat /\ d \in 0 .. b - 1
  BY <1>1, DigitsOf
<1>6. w \in Nat \ {0} /\ Pow(k + 1) = b * w /\ b \in Nat \ {0} /\ v \in Nat
  BY Weights, Bases, NumberValue
<1>7. v = (l + d * w) + (b * w) * h
  BY <1>2, <1>4, <1>6
<1> HIDE DEF l, d, w, v, b
<1>8. v = w * (d + b * h) + l
  <2>1. (l + d * w) + (b * w) * h = w * (d + b * h) + l
    BY <1>3, <1>5, <1>6
  <2> QED BY <1>7, <2>1
<1>9. d + b * h \in Nat
  BY <1>5, <1>6
<1>10. v \div w = d + b * h
  <2> DEFINE u == d + b * h
  <2>1. u \in Int /\ v = w * u + l /\ v \in Int
    BY <1>6, <1>8, <1>9
  <2> HIDE DEF u
  <2>2. v \div w = u
    BY <1>3, <1>6, <2>1, Unique
  <2> QED BY <2>2 DEF u
<1>11. (d + b * h) % b = d
  <2> DEFINE u == d + b * h
  <2>1. u = b * h + d /\ u \in Int
    BY <1>5, <1>6
  <2> HIDE DEF u
  <2>2. u % b = d
    BY <1>5, <1>6, <2>1, Unique
  <2> QED BY <2>2 DEF u
<1> QED BY <1>10, <1>11 DEF v, w, d, b

LEMMA SameNumber ==
  ASSUME NEW n \in Nat, NEW x \in Numbers(n), NEW y \in Numbers(n), Value(x) = Value(y)
  PROVE  x = y
<1>1. ASSUME NEW i \in 1 .. n PROVE x[i] = y[i]
  <2> DEFINE k == i - 1
  <2>1. k \in Nat /\ k + 1 = i
    OBVIOUS
  <2> HIDE DEF k
  <2>2. (Value(x) \div Pow(k)) % Base = At(x, k + 1) /\ (Value(y) \div Pow(k)) % Base = At(y, k + 1)
    BY <2>1, DigitFrom
  <2>3. At(x, i) = x[i] /\ At(y, i) = y[i]
    BY DigitsOf
  <2> QED BY <2>1, <2>2, <2>3
<1> QED BY <1>1 DEF Numbers

LEMMA NextDigit ==
  ASSUME NEW v \in Nat, NEW w \in Nat \ {0}, NEW b \in Nat \ {0}
  PROVE  v % (b * w) = (v % w) + ((v \div w) % b) * w
<1> DEFINE q == v \div w
           r == v % w
           p == q \div b
           d == q % b
<1>1. q \in Int /\ r \in 0 .. w - 1 /\ v = w * q + r
  BY Euclid
<1> HIDE DEF q, r
<1>2. p \in Int /\ d \in 0 .. b - 1 /\ q = b * p + d
  BY <1>1, Euclid
<1> HIDE DEF p, d
<1>3. v = (b * w) * p + (r + d * w)
  <2>1. v = w * (b * p + d) + r
    BY <1>1, <1>2
  <2>2. w * (b * p + d) + r = (b * w) * p + (r + d * w)
    BY <1>1, <1>2
  <2> QED BY <2>1, <2>2
<1>4. r + d * w \in 0 .. b * w - 1
  <2>1. w * d <= w * (b - 1)
    BY <1>2, Monotonic
  <2>2. w * (b - 1) = b * w - w /\ w * d = d * w /\ d * w \in Nat /\ b * w \in Nat
    BY <1>2
  <2> DEFINE dw == d * w
             bw == b * w
  <2>3. dw <= bw - w /\ dw \in Nat /\ bw \in Nat
    BY <2>1, <2>2
  <2> HIDE DEF dw, bw
  <2>4. r + dw \in 0 .. bw - 1
    BY <1>1, <2>3
  <2> QED BY <2>4 DEF dw, bw
<1>5. b * w \in Nat \ {0}
  OBVIOUS
<1> DEFINE m == b * w
           t == r + d * w
<1>6. m \in Nat \ {0} /\ t \in 0 .. m - 1 /\ v = m * p + t
  BY <1>3, <1>4, <1>5
<1> HIDE DEF m, t
<1>7. v % m = t
  BY <1>2, <1>6, Unique
<1> QED BY <1>7 DEF m, t, d, q, r

LEMMA ImportIs ==
  ASSUME NEW n \in Nat, NEW v \in Nat
  PROVE  /\ Import(n, v) \in Numbers(n)
         /\ Value(Import(n, v)) = v % Pow(n)
<1> DEFINE x == Import(n, v)
<1>1. Import(n, v) = [i \in 1 .. n |-> (v \div Pow(i - 1)) % Base]
  BY DEF Import, Pow
<1>2. ASSUME NEW k \in Nat PROVE Pow(k) \in Nat \ {0} /\ v \div Pow(k) \in Nat /\ (v \div Pow(k)) % Base \in Digit
  <2> DEFINE w == Pow(k)
  <2>1. w \in Nat \ {0} /\ Base \in Nat \ {0}
    BY Weights, Bases
  <2> HIDE DEF w
  <2>2. v \div w \in Nat
    BY <2>1
  <2> DEFINE q == v \div w
  <2> HIDE DEF q
  <2>3. q % Base \in 0 .. Base - 1
    BY <2>1, <2>2, Euclid DEF q
  <2> QED BY <2>1, <2>2, <2>3 DEF w, q, Digit
<1>3. \A i \in 1 .. n : i - 1 \in Nat
  OBVIOUS
<1>4. x \in Numbers(n)
  BY <1>1, <1>2, <1>3 DEF Numbers
<1>5. \A i \in 1 .. n : At(x, i) = (v \div Pow(i - 1)) % Base
  BY <1>1 DEF At
<1> HIDE DEF x
<1>6. Natural(x)
  BY <1>4, DigitsOf
<1> DEFINE P == {k \in 0 .. n : Low(x, k) = v % Pow(k)}
<1>7. P \subseteq 0 .. n /\ 0 \in P
  <2>1. Low(x, 0) = 0 /\ 0 \in 0 .. n
    BY <1>6, LowIs
  <2>2. Pow(0) = 1
    BY Weights
  <2>3. v % 1 = 0
    <3>1. v = 1 * v + 0 /\ 0 \in 0 .. 1 - 1 /\ 1 \in Nat \ {0} /\ v \in Int
      OBVIOUS
    <3> QED BY <3>1, Unique
  <2> QED BY <2>1, <2>2, <2>3
<1>8. ASSUME NEW k \in 0 .. n - 1, k \in P PROVE k + 1 \in P
  <2>1. k \in Nat /\ k + 1 \in 1 .. n /\ k + 1 \in 0 .. n /\ (k + 1) - 1 = k
    OBVIOUS
  <2>2. At(x, k + 1) = (v \div Pow(k)) % Base
    BY <1>5, <2>1
  <2>3. Low(x, k + 1) = Low(x, k) + At(x, k + 1) * Pow(k)
    BY <1>6, <2>1, LowIs
  <2>4. Pow(k) \in Nat \ {0} /\ Base \in Nat \ {0} /\ Pow(k + 1) = Base * Pow(k)
    BY <2>1, Weights, Bases
  <2>5. Low(x, k) = v % Pow(k)
    BY <1>8
  <2> DEFINE w == Pow(k)
  <2> HIDE DEF w, P
  <2>6. v % (Base * w) = (v % w) + ((v \div w) % Base) * w
    BY <2>4, NextDigit DEF w
  <2>7. Low(x, k + 1) = v % Pow(k + 1)
    BY <2>2, <2>3, <2>4, <2>5, <2>6 DEF w
  <2> QED BY <2>1, <2>7 DEF P
<1> HIDE DEF P
<1>9. n \in P
  <2>1. n \in 0 .. n
    OBVIOUS
  <2> QED BY <1>7, <1>8, <2>1, Ascends
<1>10. Low(x, n) = v % Pow(n)
  BY <1>9 DEF P
<1>11. Value(x) = Low(x, n)
  BY <1>4, NumberValue
<1> QED BY <1>4, <1>10, <1>11 DEF x

LEMMA SetBignumIs ==
  ASSUME NEW n \in Nat, NEW m \in Nat, NEW y \in Numbers(m)
  PROVE  /\ SetBignum(n, y) \in Numbers(n)
         /\ Value(SetBignum(n, y)) = Value(y) % Pow(n)
<1> DEFINE x == [i \in 1 .. n |-> At(y, i)]
<1>1. x \in Numbers(n)
  <2>1. \A i \in Int : At(y, i) \in Digit
    BY NumbersPlaced
  <2> QED BY <2>1 DEF Numbers
<1>2. SetBignum(n, y) = x
  <2> HIDE DEF x
  <2>1. Fixed(x) = x
    BY <1>1, PlacedLength DEF Numbers
  <2> QED BY <2>1 DEF SetBignum, x
<1>3. \A i \in 1 .. n : At(x, i) = At(y, i)
  BY DEF At
<1> HIDE DEF x
<1>4. Low(x, n) = Low(y, n)
  BY <1>1, <1>3, DigitsOf, LowSame
<1>5. Value(x) = Low(x, n)
  BY <1>1, NumberValue
<1>6. Low(y, n) = Value(y) % Pow(n)
  BY LowIsRemainder
<1> QED BY <1>1, <1>2, <1>4, <1>5, <1>6

(* The second number may have more digits.                                 *)
LEMMA AddLonger ==
  ASSUME NEW n \in Nat, NEW m \in Nat, NEW x \in Numbers(n), NEW y \in Numbers(m)
  PROVE  /\ Add(x, y) \in Numbers(n) /\ Value(Add(x, y)) = (Value(x) + Value(y)) % Pow(n)
         /\ Sub(x, y) \in Numbers(n) /\ Value(Sub(x, y)) = (Value(x) - Value(y)) % Pow(n)
<1> DEFINE z == SetBignum(n, y)
           v == Value(y)
           p == Pow(n)
<1>1. z \in Numbers(n) /\ Value(z) = v % p
  BY SetBignumIs
<1>2. v \in Nat /\ p \in Nat \ {0} /\ Value(x) \in Nat
  BY NumberValue, Weights
<1>3. /\ (Value(x) + Value(z)) % p = (Value(x) + v) % p
      /\ (Value(x) - Value(z)) % p = (Value(x) - v) % p
  <2> DEFINE a == Value(x)
             b == Value(z)
             q == v \div p
             i == a + b
             j == a + v
             k == a - b
             l == a - v
  <2> HIDE DEF a, b, q, v, p, z
  <2>1. q \in Int /\ b \in Int /\ v = p * q + b
    <3>1. v % p \in 0 .. p - 1 /\ v \div p \in Int /\ v = p * (v \div p) + (v % p)
      BY <1>2, Euclid
    <3>2. b = v % p
      BY <1>1 DEF b
    <3> QED BY <1>2, <3>1, <3>2 DEF q
  <2>2. /\ i \in Int /\ j \in Int /\ k \in Int /\ l \in Int /\ q \in Int
        /\ j = i + p * q /\ k = l + p * q
    BY <1>2, <2>1 DEF a
  <2> HIDE DEF i, j, k, l
  <2>3. j % p = i % p /\ k % p = l % p
    BY <1>2, <2>2, SameRemainder
  <2> QED BY <2>3 DEF i, j, k, l, a, b
<1>4. \A i \in 1 .. n : At(z, i) = At(y, i)
  <2> DEFINE w == [i \in 1 .. n |-> At(y, i)]
  <2>1. \A i \in Int : At(y, i) \in Digit
    BY NumbersPlaced
  <2>2. w \in Numbers(n)
    BY <2>1 DEF Numbers
  <2>3. \A i \in 1 .. n : At(w, i) = At(y, i)
    BY DEF At
  <2> HIDE DEF w
  <2>4. Fixed(w) = w
    BY <2>2, PlacedLength DEF Numbers
  <2>5. z = w
    BY <2>4 DEF SetBignum, w
  <2> QED BY <2>3, <2>5
<1>5. DOMAIN x = 1 .. n
  BY DigitsOf
<1> HIDE DEF z
<1>6. Add(x, y) = Add(x, z) /\ Sub(x, y) = Sub(x, z)
  <2>1. [i \in DOMAIN x |-> x[i] + At(y, i)] = [i \in DOMAIN x |-> x[i] + At(z, i)]
    BY <1>4, <1>5
  <2>2. [i \in DOMAIN x |-> x[i] - At(y, i)] = [i \in DOMAIN x |-> x[i] - At(z, i)]
    BY <1>4, <1>5
  <2> QED BY <2>1, <2>2 DEF Add, Sub
<1>7. n \in 0 .. n
  OBVIOUS
<1> QED BY <1>1, <1>3, <1>6, <1>7, AddIs

LEMMA SetDigitIs ==
  ASSUME NEW n \in Nat, NEW d \in Digit
  PROVE  /\ Zero(n) \in Numbers(n) /\ Value(Zero(n)) = 0
         /\ n > 0 => SetDigit(n, d) \in Numbers(n) /\ Value(SetDigit(n, d)) = d
<1>1. 0 \in Digit /\ d \in Nat
  BY Bases DEF Digit
<1>2. Zero(n) \in Numbers(n)
  BY <1>1 DEF Zero, Numbers
<1>3. Value(Zero(n)) = 0
  <2> DEFINE x == Zero(n)
  <2>1. \A i \in 1 .. n : At(x, i) = 0
    BY DEF Zero, At
  <2> HIDE DEF x
  <2>2. x \in Numbers(n)
    BY <1>2 DEF x
  <2>3. Natural(x)
    BY <2>2, DigitsOf
  <2>4. Low(x, n) = 0
    BY <2>1, <2>3, LowZero
  <2>5. Value(x) = Low(x, n)
    BY <2>2, NumberValue
  <2> QED BY <2>4, <2>5 DEF x
<1>4. ASSUME n > 0 PROVE SetDigit(n, d) \in Numbers(n) /\ Value(SetDigit(n, d)) = d
  <2> DEFINE x == SetDigit(n, d)
             z == Zero(n)
  <2>1. x \in Numbers(n)
    BY <1>1 DEF SetDigit, Zero, Numbers
  <2>2. At(x, 1) = d /\ \A i \in 2 .. n : At(x, i) = 0
    BY <1>4 DEF SetDigit, Zero, At
  <2> HIDE DEF x
  <2>3. Natural(x)
    BY <2>1, DigitsOf
  <2> DEFINE m == n - 1
  <2>4. m \in Nat /\ 1 + m = n
    BY <1>4
  <2>5. z \in Numbers(n) /\ Natural(z) /\ \A i \in 1 .. n : At(z, i) = 0
    BY <1>2, DigitsOf DEF Zero, At
  <2> HIDE DEF z
  <2>6. Shows(z, x, 1, m)
    <3>1. \A t \in 1 .. m : t \in 1 .. n /\ 1 + t \in 2 .. n
      BY <2>4
    <3> HIDE DEF m
    <3> QED BY <2>2, <2>5, <3>1 DEF Shows
  <2>7. Low(z, m) = 0
    <3>1. \A t \in 1 .. m : t \in 1 .. n
      BY <2>4
    <3> HIDE DEF m
    <3> QED BY <2>4, <2>5, <3>1, LowZero
  <2> HIDE DEF m
  <2>8. Low(x, 1 + m) = Low(x, 1) + Pow(1) * Low(z, m)
    <3>1. 1 \in Nat
      OBVIOUS
    <3> QED BY <2>3, <2>4, <2>5, <2>6, <3>1, LowShift
  <2>9. Low(x, 1) = d
    <3>1. Low(x, 0) = 0 /\ Low(x, 0 + 1) = Low(x, 0) + At(x, 0 + 1) * Pow(0)
      BY <2>3, LowIs
    <3>2. Pow(0) = 1 /\ 0 + 1 = 1
      BY Weights
    <3> QED BY <1>1, <2>2, <3>1, <3>2
  <2>10. Pow(1) \in Nat
    BY Weights
  <2>11. Low(x, n) = d
    BY <1>1, <2>4, <2>7, <2>8, <2>9, <2>10
  <2>12. Value(x) = Low(x, n)
    BY <2>1, NumberValue
  <2> QED BY <2>1, <2>11, <2>12 DEF x
<1> QED BY <1>2, <1>3, <1>4

(* A number with the digits of x complemented.                             *)
LEMMA NotIs ==
  ASSUME NEW n \in Nat, NEW x \in Numbers(n)
  PROVE  Not(x) \in Numbers(n) /\ Value(Not(x)) = Pow(n) - 1 - Value(x)
<1> DEFINE z == Not(x)
           P == {k \in 0 .. n : Low(z, k) + Low(x, k) = Pow(k) - 1}
<1>1. Natural(x) /\ DOMAIN x = 1 .. n
  BY DigitsOf
<1>2. \A i \in 1 .. n : x[i] \in Nat /\ x[i] \in 0 .. Base - 1 /\ At(x, i) = x[i]
  BY DigitsOf
<1>3. Base \in Nat \ {0}
  BY Bases
<1>4. z \in Numbers(n)
  BY <1>1, <1>2, <1>3 DEF Not, Numbers, Digit
<1>5. \A i \in 1 .. n : At(z, i) = Base - 1 - At(x, i)
  BY <1>1, <1>2 DEF Not, At
<1> HIDE DEF z
<1>6. Natural(z)
  BY <1>4, DigitsOf
<1>7. P \subseteq 0 .. n /\ 0 \in P
  <2>1. Low(x, 0) = 0 /\ Low(z, 0) = 0 /\ 0 \in 0 .. n
    BY <1>1, <1>6, LowIs
  <2>2. Pow(0) = 1
    BY Weights
  <2> QED BY <2>1, <2>2
<1>8. ASSUME NEW k \in 0 .. n - 1, k \in P PROVE k + 1 \in P
  <2> DEFINE d == At(x, k + 1)
             e == At(z, k + 1)
             w == Pow(k)
             l == Low(x, k)
             u == Low(z, k)
             b == Base
  <2>1. k \in Nat /\ k + 1 \in 1 .. n /\ k + 1 \in 0 .. n /\ k + 1 \in Int
    OBVIOUS
  <2>2. d \in Nat /\ e \in Nat /\ e = b - 1 - d
    BY <1>1, <1>5, <1>6, <2>1 DEF Natural
  <2>3. l \in Nat /\ u \in Nat /\ Low(x, k + 1) = l + d * w /\ Low(z, k + 1) = u + e * w
    BY <1>1, <1>6, <2>1, LowIs
  <2>4. w \in Nat /\ Pow(k + 1) = b * w /\ b \in Nat
    BY <1>3, <2>1, Weights
  <2>5. u + l = w - 1
    BY <1>8
  <2> HIDE DEF d, e, w, l, u, b, P
  <2>6. e * w = b * w - w - d * w
    BY <2>2, <2>4
  <2>7. (u + e * w) + (l + d * w) = b * w - 1
    <3> DEFINE ew == e * w
               bw == b * w
               dw == d * w
    <3>1. ew \in Int /\ bw \in Int /\ dw \in Int /\ ew = bw - w - dw
      BY <2>2, <2>4, <2>6
    <3> HIDE DEF ew, bw, dw
    <3>2. (u + ew) + (l + dw) = bw - 1
      BY <2>3, <2>4, <2>5, <3>1
    <3> QED BY <3>2 DEF ew, bw, dw
  <2>8. Low(z, k + 1) + Low(x, k + 1) = Pow(k + 1) - 1
    BY <2>3, <2>4, <2>7
  <2> QED BY <2>1, <2>8 DEF P
<1> HIDE DEF P
<1>9. n \in P
  <2>1. n \in 0 .. n
    OBVIOUS
  <2> QED BY <1>7, <1>8, <2>1, Ascends
<1>10. Low(z, n) + Low(x, n) = Pow(n) - 1
  BY <1>9 DEF P
<1>11. Value(z) = Low(z, n) /\ Value(x) = Low(x, n) /\ Value(x) \in Nat /\ Value(z) \in Nat
  BY <1>4, NumberValue
<1>12. Pow(n) \in Nat
  BY Weights
<1>13. Value(z) = Pow(n) - 1 - Value(x)
  BY <1>10, <1>11, <1>12
<1> QED BY <1>4, <1>13 DEF z

-----------------------------------------------------------------------------
(* Comparisons.                                                            *)
LEMMA MaxIs ==
  ASSUME NEW S, S \subseteq Int, S # {}, NEW top \in Int, \A s \in S : s <= top
  PROVE  Max(S) \in S /\ \A s \in S : Max(S) >= s
<1> DEFINE U == {top - s : s \in S}
<1>1. U \subseteq Nat /\ U # {}
  <2>1. \A s \in S : top - s \in Nat
    OBVIOUS
  <2> QED BY <2>1
<1>2. PICK u \in U : \A v \in U : u <= v
  BY <1>1, Smallest
<1>3. PICK m \in S : u = top - m
  OBVIOUS
<1>4. \A s \in S : m >= s
  <2> SUFFICES ASSUME NEW s \in S PROVE m >= s
    OBVIOUS
  <2>1. top - m <= top - s
    BY <1>2, <1>3
  <2>2. m \in Int /\ s \in Int
    OBVIOUS
  <2> QED BY <2>1, <2>2
<1>5. \E t \in S : \A s \in S : t >= s
  BY <1>4
<1> QED BY <1>5 DEF Max

LEMMA EqZeroIs ==
  ASSUME NEW n \in Nat, NEW x \in Numbers(n)
  PROVE  EqZero(x) <=> Value(x) = 0
<1>1. 0 \in Digit
  BY Bases DEF Digit
<1>2. Zero(n) \in Numbers(n) /\ Value(Zero(n)) = 0
  BY <1>1, SetDigitIs
<1>3. EqZero(x) <=> x = Zero(n)
  BY DEF EqZero, Zero, Numbers
<1>4. Value(x) = 0 => x = Zero(n)
  BY <1>2, SameNumber
<1> QED BY <1>2, <1>3, <1>4

LEMMA EqOneIs ==
  ASSUME NEW n \in Nat \ {0}, NEW x \in Numbers(n)
  PROVE  /\ EqOne(x) <=> Value(x) = 1
         /\ Value(One(n)) = 1
<1>1. 1 \in Digit
  <2>1. Base \in Nat /\ Base \div 2 \in Nat \ {0}
    BY Bases
  <2>2. Base >= 2
    BY <2>1
  <2> QED BY <2>1, <2>2 DEF Digit
<1> DEFINE y == SetDigit(n, 1)
<1>2. y \in Numbers(n) /\ Value(y) = 1
  BY <1>1, SetDigitIs
<1>3. One(n) = y
  BY DEF One, SetDigit
<1>4. EqOne(x) <=> x = y
  <2>1. DOMAIN x = 1 .. n /\ 1 \in 1 .. n
    BY DEF Numbers
  <2>2. y[1] = 1 /\ \A i \in (1 .. n) \ {1} : y[i] = 0
    BY <2>1 DEF SetDigit, Zero
  <2>3. x = y <=> \A i \in 1 .. n : x[i] = y[i]
    <3>1. y = [i \in 1 .. n |-> y[i]]
      BY <1>2 DEF Numbers
    <3> HIDE DEF y
    <3> QED BY <3>1 DEF Numbers
  <2> HIDE DEF y
  <2> QED BY <2>1, <2>2, <2>3 DEF EqOne
<1> HIDE DEF y
<1>5. Value(x) = 1 => x = y
  BY <1>2, SameNumber
<1> QED BY <1>2, <1>3, <1>4, <1>5

LEMMA EqIs ==
  ASSUME NEW n \in Nat, NEW x \in Numbers(n), NEW y \in Numbers(n)
  PROVE  Eq(x, y) <=> Value(x) = Value(y)
<1>1. Len(x) = n /\ Len(y) = n
  BY DigitsOf
<1>2. Min({n, n}) = n /\ Max({n, n}) = n
  <2>1. Max({n}) \in {n}
    <3>1. \A s \in {n} : s <= n
      OBVIOUS
    <3> QED BY <3>1, MaxIs
  <2>2. Min({n}) \in {n}
    <3>1. \E s \in {n} : \A t \in {n} : s <= t
      OBVIOUS
    <3> QED BY <3>1 DEF Min
  <2> QED BY <2>1, <2>2
<1>3. n + 2 .. n = {}
  OBVIOUS
<1>4. Eq(x, y) <=> \A i \in 1 .. n : x[i] = y[i]
  BY <1>1, <1>2, <1>3 DEF Eq
<1>5. Eq(x, y) <=> x = y
  BY <1>4 DEF Numbers
<1>6. Value(x) = Value(y) => x = y
  BY SameNumber
<1> QED BY <1>5, <1>6

LEMMA Heavier ==
  ASSUME NEW a \in Nat, NEW b \in Nat, a <= b
  PROVE  Pow(a) <= Pow(b)
<1> DEFINE k == b - a
<1>1. k \in Nat /\ a + k = b
  OBVIOUS
<1> HIDE DEF k
<1>2. Pow(a) \in Nat /\ Pow(k) \in Nat \ {0} /\ Pow(a + k) = Pow(a) * Pow(k)
  BY <1>1, Weights
<1>3. Pow(a) * 1 <= Pow(a) * Pow(k)
  <2>1. 1 \in Int /\ Pow(k) \in Int /\ 1 <= Pow(k)
    BY <1>2
  <2> QED BY <1>2, <2>1, Monotonic
<1>4. Pow(a) * 1 = Pow(a)
  BY <1>2
<1>5. Pow(b) = Pow(a) * Pow(k)
  BY <1>1, <1>2
<1> QED BY <1>3, <1>4, <1>5

LEMMA Shorter ==
  ASSUME NEW m \in Nat, NEW n \in Nat, m <= n, NEW y \in Numbers(m)
  PROVE  Value(y) < Pow(n)
<1> DEFINE v == Value(y)
           q == Pow(m)
           p == Pow(n)
<1>1. v \in 0 .. q - 1 /\ q \in Nat /\ p \in Nat
  BY NumberValue, Weights
<1>2. q <= p
  BY Heavier
<1> HIDE DEF v, q, p
<1> QED BY <1>1, <1>2 DEF v, p

LEMMA UsedIs ==
  ASSUME NEW n \in Nat, NEW x \in Numbers(n)
  PROVE  /\ Used(x) \in 0 .. n
         /\ \A i \in Int : i > Used(x) => At(x, i) = 0
         /\ Value(x) = Low(x, Used(x))
         /\ Used(x) > 0 => Pow(Used(x) - 1) <= Value(x)
<1> DEFINE S == {0} \cup {i \in 1 .. n : x[i] # 0}
           u == Used(x)
<1>1. u = Max(S)
  BY DigitsOf DEF Used
<1>2. u \in S /\ \A s \in S : u >= s
  <2>1. S \subseteq Int /\ S # {} /\ n \in Int /\ \A s \in S : s <= n
    OBVIOUS
  <2> HIDE DEF S, u
  <2>2. Max(S) \in S /\ \A s \in S : Max(S) >= s
    BY <2>1, MaxIs
  <2> QED BY <1>1, <2>2
<1> HIDE DEF u
<1>3. u \in 0 .. n
  BY <1>2
<1>4. ASSUME NEW i \in Int, i > u PROVE At(x, i) = 0
  <2>1. CASE i \in 1 .. n
    <3>1. i \notin S
      BY <1>2, <1>3, <1>4
    <3>2. x[i] = 0
      BY <2>1, <3>1
    <3> QED BY <2>1, <3>2, DigitsOf
  <2>2. CASE i \notin 1 .. n
    BY <2>2, DigitsOf DEF At
  <2> QED BY <2>1, <2>2
<1> HIDE DEF S
<1>5. Natural(x)
  BY DigitsOf
<1>6. Value(x) = Low(x, u)
  <2> DEFINE j == n - u
             z == [i \in 1 .. n |-> 0]
  <2>1. u \in Nat /\ j \in Nat /\ u + j = n
    BY <1>3
  <2>2. z = Zero(n) /\ z \in Numbers(n) /\ Natural(z) /\ \A i \in Int : At(z, i) = 0
    <3>1. 0 \in Digit
      BY Bases DEF Digit
    <3>2. Zero(n) \in Numbers(n)
      BY <3>1, SetDigitIs
    <3> QED BY <3>2, DigitsOf DEF Zero, At
  <2> HIDE DEF z, j
  <2>3. Shows(z, x, u, j)
    <3>1. \A t \in 1 .. j : u + t \in Int /\ u + t > u /\ t \in Int
      BY <2>1
    <3> QED BY <1>4, <2>2, <3>1 DEF Shows
  <2>4. Low(x, u + j) = Low(x, u) + Pow(u) * Low(z, j)
    BY <1>5, <2>1, <2>2, <2>3, LowShift
  <2>5. Low(z, j) = 0
    <3>1. \A t \in 1 .. j : t \in Int
      OBVIOUS
    <3> QED BY <2>1, <2>2, <3>1, LowZero
  <2>6. Low(x, u) \in Nat /\ Pow(u) \in Nat
    BY <1>5, <2>1, LowIs, Weights
  <2>7. Low(x, n) = Value(x)
    BY NumberValue
  <2> QED BY <2>1, <2>4, <2>5, <2>6, <2>7
<1>7. ASSUME u > 0 PROVE Pow(u - 1) <= Value(x)
  <2> DEFINE k == u - 1
             w == Pow(k)
             d == At(x, u)
             l == Low(x, k)
  <2>1. k \in Nat /\ k + 1 = u /\ u \in 1 .. n
    BY <1>3, <1>7
  <2>2. x[u] # 0
    BY <1>2, <1>7 DEF S
  <2>3. d \in Nat \ {0}
    <3>1. d = x[u] /\ x[u] \in Nat
      BY <2>1, DigitsOf
    <3> QED BY <2>2, <3>1
  <2> HIDE DEF k
  <2>4. Low(x, u) = l + d * w /\ l \in Nat /\ w \in Nat
    BY <1>5, <2>1, LowIs, Weights
  <2> HIDE DEF d, l, w
  <2>5. w * 1 <= w * d
    BY <2>3, <2>4, Monotonic
  <2>6. w <= l + d * w
    <3>1. w * 1 = w /\ w * d = d * w /\ d * w \in Nat
      BY <2>3, <2>4
    <3> QED BY <2>4, <2>5, <3>1
  <2> QED BY <1>6, <2>4, <2>6 DEF k, w
<1> QED BY <1>3, <1>4, <1>6, <1>7 DEF u

(* The highest place where they differ decides.                            *)
LEMMA HigherDigit ==
  ASSUME NEW n \in Nat, NEW x \in Numbers(n), NEW m \in Nat, NEW y \in Numbers(m),
         NEW u \in Nat, NEW k \in 1 .. u, At(x, k) > At(y, k), \A i \in k + 1 .. u : At(x, i) = At(y, i)
  PROVE  Low(x, u) > Low(y, u)
<1> DEFINE h == k - 1
           j == u - k
           w == Pow(h)
           a == At(x, k)
           b == At(y, k)
           p == Low(x, h)
           q == Low(y, h)
<1>1. h \in Nat /\ h + 1 = k /\ j \in Nat /\ k + j = u /\ k \in Nat /\ k \in Int
  OBVIOUS
<1> HIDE DEF h, j
<1>2. Natural(x) /\ Natural(y)
  BY DigitsOf
<1>3. a \in Nat /\ b \in Nat /\ b + 1 <= a
  BY <1>1, <1>2 DEF Natural
<1>4. p \in Nat /\ q \in Nat /\ Low(x, k) = p + a * w /\ Low(y, k) = q + b * w
  BY <1>1, <1>2, LowIs
<1>5. q <= w - 1 /\ w \in Nat
  <2>1. q \in 0 .. w - 1
    BY <1>1, LowBelow
  <2>2. w \in Nat
    BY <1>1, Weights
  <2> QED BY <2>1, <2>2
<1> HIDE DEF w, a, b, p, q
<1>6. p + a * w > q + b * w
  <2>1. w * (b + 1) <= w * a
    BY <1>3, <1>5, Monotonic
  <2>2. w * (b + 1) = b * w + w /\ w * a = a * w /\ a * w \in Nat /\ b * w \in Nat
    BY <1>3, <1>5
  <2> DEFINE aw == a * w
             bw == b * w
  <2>3. bw + w <= aw /\ aw \in Nat /\ bw \in Nat
    BY <2>1, <2>2
  <2> HIDE DEF aw, bw
  <2>4. p + aw > q + bw
    BY <1>4, <1>5, <2>3
  <2> QED BY <2>4 DEF aw, bw
<1> DEFINE v == [t \in 1 .. j |-> At(x, k + t)]
<1>7. v \in Numbers(j)
  <2>1. \A t \in 1 .. j : k + t \in Int
    BY <1>1
  <2>2. \A i \in Int : At(x, i) \in Digit
    BY NumbersPlaced
  <2> QED BY <2>1, <2>2 DEF Numbers
<1>8. Natural(v)
  <2> HIDE DEF v
  <2> QED BY <1>1, <1>7, DigitsOf
<1>9. Shows(v, x, k, j) /\ Shows(v, y, k, j)
  <2>1. \A t \in 1 .. j : At(v, t) = At(x, k + t)
    BY DEF At
  <2>2. \A t \in 1 .. j : k + t \in k + 1 .. u
    BY <1>1
  <2> HIDE DEF v
  <2> QED BY <2>1, <2>2 DEF Shows
<1> HIDE DEF v
<1>10. Low(x, k + j) = Low(x, k) + Pow(k) * Low(v, j) /\ Low(y, k + j) = Low(y, k) + Pow(k) * Low(v, j)
  BY <1>1, <1>2, <1>8, <1>9, LowShift
<1> DEFINE r == Pow(k) * Low(v, j)
<1>11. r \in Nat
  <2>1. Pow(k) \in Nat /\ Low(v, j) \in Nat
    BY <1>1, <1>8, Weights, LowIs
  <2> QED BY <2>1, Product
<1>12. Low(x, k) \in Nat /\ Low(y, k) \in Nat /\ Low(x, k) > Low(y, k)
  BY <1>1, <1>2, <1>4, <1>6, LowIs
<1>13. Low(x, u) = Low(x, k) + r /\ Low(y, u) = Low(y, k) + r
  BY <1>1, <1>10
<1> HIDE DEF r
<1> QED BY <1>11, <1>12, <1>13

LEMMA GteIs ==
  ASSUME NEW n \in Nat, NEW x \in Numbers(n), NEW m \in Nat, NEW y \in Numbers(m)
  PROVE  Gte(x, y) <=> \/ Value(x) > Value(y)
                       \/ Value(x) = Value(y) /\ (Value(x) = 0 \/ n >= m)
<1> DEFINE u == Used(x)
           v == Used(y)
           a == Value(x)
           b == Value(y)
           differ == {k \in 1 .. u : x[k] # y[k]}
<1>1. /\ u \in 0 .. n /\ a = Low(x, u) /\ (u > 0 => Pow(u - 1) <= a)
      /\ v \in 0 .. m /\ b = Low(y, v) /\ (v > 0 => Pow(v - 1) <= b)
  BY UsedIs
<1>2. Natural(x) /\ Natural(y) /\ Len(x) = n /\ Len(y) = m /\ a \in Nat /\ b \in Nat
  BY DigitsOf, NumberValue
<1>3. a \in 0 .. Pow(u) - 1 /\ b \in 0 .. Pow(v) - 1 /\ Pow(u) \in Nat /\ Pow(v) \in Nat
  <2>1. u \in Nat /\ v \in Nat
    BY <1>1
  <2> HIDE DEF u, v
  <2>2. Low(x, u) \in 0 .. Pow(u) - 1 /\ Low(y, v) \in 0 .. Pow(v) - 1
    BY <2>1, LowBelow
  <2> QED BY <1>1, <2>1, <2>2, Weights
<1>4. Gte(x, y) <=> \/ u > v
                    \/ u = 0 /\ v = 0
                    \/ u = v /\ u > 0 /\ IF differ = {} THEN n >= m ELSE x[Max(differ)] > y[Max(differ)]
  BY <1>2 DEF Gte
<1> HIDE DEF u, v, a, b
<1>5. CASE u > v
  <2>1. Pow(v) <= Pow(u - 1)
    <3>1. v \in Nat /\ u - 1 \in Nat /\ v <= u - 1
      BY <1>1, <1>5
    <3> QED BY <3>1, Heavier
  <2>2. Pow(u - 1) \in Nat
    <3>1. u - 1 \in Nat
      BY <1>1, <1>5
    <3> QED BY <3>1, Weights
  <2>3. u > 0
    BY <1>1, <1>5
  <2>4. a > b
    BY <1>1, <1>2, <1>3, <2>1, <2>2, <2>3
  <2> QED BY <1>4, <1>5, <2>4 DEF a, b
<1>6. CASE u < v
  <2>1. Pow(u) <= Pow(v - 1)
    <3>1. u \in Nat /\ v - 1 \in Nat /\ u <= v - 1
      BY <1>1, <1>6
    <3> QED BY <3>1, Heavier
  <2>2. Pow(v - 1) \in Nat
    <3>1. v - 1 \in Nat
      BY <1>1, <1>6
    <3> QED BY <3>1, Weights
  <2>3. v > 0
    BY <1>1, <1>6
  <2>4. a < b
    BY <1>1, <1>2, <1>3, <2>1, <2>2, <2>3
  <2>5. ~(a > b) /\ a # b
    BY <1>2, <2>4
  <2>6. ~(u > v) /\ u # v
    BY <1>1, <1>6
  <2>7. ~(u = 0 /\ v = 0)
    BY <2>6
  <2> QED BY <1>4, <2>5, <2>6, <2>7 DEF a, b
<1>7. CASE u = v /\ u = 0
  <2>1. a = 0 /\ b = 0
    BY <1>1, <1>2, <1>7, LowIs
  <2> QED BY <1>4, <1>7, <2>1 DEF a, b
<1>8. CASE u = v /\ u > 0
  <2>1. u \in Nat /\ 1 .. u \subseteq 1 .. n /\ 1 .. u \subseteq 1 .. m
    BY <1>1, <1>8
  <2>2. \A i \in 1 .. u : x[i] \in Nat /\ y[i] \in Nat /\ At(x, i) = x[i] /\ At(y, i) = y[i]
    BY <2>1, DigitsOf
  <2>3. ~(u > v) /\ ~(u = 0 /\ v = 0) /\ a # 0
    <3>1. u - 1 \in Nat
      BY <1>8, <2>1
    <3>2. Pow(u - 1) \in Nat \ {0}
      BY <3>1, Weights
    <3> QED BY <1>1, <1>2, <1>8, <2>1, <3>2
  <2>4. CASE differ = {}
    <3>1. \A i \in 1 .. u : At(x, i) = At(y, i)
      BY <2>2, <2>4
    <3>2. Low(x, u) = Low(y, u)
      BY <1>2, <2>1, <3>1, LowSame
    <3>3. a = b /\ ~(a > b)
      BY <1>1, <1>2, <1>8, <3>2
    <3> HIDE DEF differ
    <3> QED BY <1>4, <1>8, <2>3, <2>4, <3>3 DEF a, b
  <2>5. CASE differ # {}
    <3> DEFINE k == Max(differ)
    <3>1. k \in differ /\ \A i \in differ : k >= i
      <4>1. differ \subseteq Int /\ u \in Int /\ \A i \in differ : i <= u
        BY <2>1
      <4> HIDE DEF differ
      <4> QED BY <2>5, <4>1, MaxIs
    <3> HIDE DEF k
    <3>2. k \in 1 .. u /\ x[k] # y[k]
      BY <3>1
    <3>3. \A i \in k + 1 .. u : At(x, i) = At(y, i)
      <4>1. \A i \in k + 1 .. u : i \in 1 .. u /\ ~(k >= i)
        BY <3>2
      <4>2. \A i \in k + 1 .. u : i \notin differ
        BY <3>1, <4>1
      <4> QED BY <2>2, <4>1, <4>2
    <3> HIDE DEF differ
    <3>4. Gte(x, y) <=> x[k] > y[k]
      BY <1>4, <1>8, <2>3, <2>5 DEF k
    <3>5. CASE x[k] > y[k]
      <4>1. At(x, k) > At(y, k)
        BY <2>2, <3>2, <3>5
      <4>2. Low(x, u) > Low(y, u)
        BY <2>1, <3>2, <3>3, <4>1, HigherDigit
      <4>3. a > b
        BY <1>1, <1>8, <4>2
      <4> QED BY <3>4, <3>5, <4>3 DEF a, b
    <3>6. CASE x[k] < y[k]
      <4>1. At(y, k) > At(x, k)
        BY <2>2, <3>2, <3>6
      <4>2. \A i \in k + 1 .. u : At(y, i) = At(x, i)
        BY <3>3
      <4>3. Low(y, u) > Low(x, u)
        BY <2>1, <3>2, <4>1, <4>2, HigherDigit
      <4>4. ~(a > b) /\ a # b
        BY <1>1, <1>2, <1>8, <4>3
      <4>5. ~(x[k] > y[k])
        BY <2>2, <3>2, <3>6
      <4> QED BY <3>4, <4>4, <4>5 DEF a, b
    <3> QED BY <2>2, <3>2, <3>5, <3>6
  <2> QED BY <2>4, <2>5
<1>9. u \in Nat /\ v \in Nat
  BY <1>1
<1> QED BY <1>5, <1>6, <1>7, <1>8, <1>9

-----------------------------------------------------------------------------
(* Shifts.                                                                 *)
LEMMA ShiftLeft1Is ==
  ASSUME NEW n \in Nat, NEW x \in Numbers(n)
  PROVE  /\ ShiftLeft1(x) \in Numbers(n)
         /\ Value(ShiftLeft1(x)) = (2 * Value(x)) % Pow(n)
<1>1. DOMAIN x = 1 .. n /\ \A i \in 1 .. n : x[i] \in Nat /\ At(x, i) = x[i]
  BY DigitsOf
<1> DEFINE e == [i \in DOMAIN x |-> x[i] * 2]
           v == Value(x)
<1>2. v \in Nat
  BY NumberValue
<1>3. e = Combo(n, 2, x, 0, x)
  <2>1. \A i \in 1 .. n : x[i] * 2 = 2 * At(x, i) + 0 * At(x, i)
    BY <1>1
  <2> QED BY <1>1, <2>1 DEF Combo
<1>4. ShiftLeft1(x) = Ripple(e, 0)
  BY DEF ShiftLeft1
<1> HIDE DEF e, v
<1>5. Ripple(e, 0) \in Numbers(n) /\ Value(Ripple(e, 0)) = ((2 * v + 0 * v) + 0) % Pow(n)
  <2>1. 0 \in Int /\ 2 \in Int /\ n \in 0 .. n
    OBVIOUS
  <2> QED BY <1>3, <2>1, RippleCombo DEF v
<1>6. (2 * v + 0 * v) + 0 = 2 * v
  BY <1>2
<1> QED BY <1>4, <1>5, <1>6 DEF v

(* Whole digits and bits of a digit: count = BigBits * places + rest.      *)
LEMMA CountIs ==
  ASSUME NEW count \in Nat
  PROVE  /\ count \div BigBits \in Nat /\ count % BigBits \in 0 .. BigBits - 1 /\ BigBits - (count % BigBits) \in Nat \ {0}
         /\ 2 ^ count = Pow(count \div BigBits) * 2 ^ (count % BigBits)
         /\ 2 ^ (count % BigBits) \in Nat \ {0} /\ 2 ^ (BigBits - (count % BigBits)) \in Nat \ {0}
         /\ Base = 2 ^ (count % BigBits) * 2 ^ (BigBits - (count % BigBits))
<1> DEFINE p == count \div BigBits
           r == count % BigBits
           g == BigBits - r
<1>1. p \in Int /\ r \in 0 .. BigBits - 1 /\ count = BigBits * p + r /\ BigBits \in Nat \ {0}
  BY BigBitsAssumption, Euclid
<1>2. p \in Nat
  BY BigBitsAssumption
<1> HIDE DEF p, r
<1>3. g \in Nat \ {0} /\ r \in Nat /\ BigBits * p \in Nat
  BY <1>1, <1>2
<1>4. r + g = BigBits
  BY <1>1
<1> HIDE DEF g
<1>5. 2 ^ (BigBits * p + r) = 2 ^ (BigBits * p) * 2 ^ r /\ 2 ^ (r + g) = 2 ^ r * 2 ^ g
  <2> DEFINE q == BigBits * p
  <2>1. q \in Nat /\ g \in Nat
    BY <1>3
  <2> HIDE DEF q
  <2>2. 2 ^ (q + r) = 2 ^ q * 2 ^ r /\ 2 ^ (r + g) = 2 ^ r * 2 ^ g
    BY <1>3, <2>1, AddsUp
  <2> QED BY <2>2 DEF q
<1>6. 2 ^ count = Pow(p) * 2 ^ r
  BY <1>1, <1>5 DEF Pow
<1>7. Base = 2 ^ r * 2 ^ g
  BY <1>4, <1>5 DEF Base
<1>8. 2 ^ r \in Nat \ {0} /\ 2 ^ g \in Nat \ {0}
  BY <1>3, Counted
<1> QED BY <1>1, <1>2, <1>3, <1>6, <1>7, <1>8 DEF p, r, g

LEMMA ShiftLeftIs ==
  ASSUME NEW n \in Nat, NEW x \in Numbers(n), NEW count \in Nat, count \div BigBits <= n
  PROVE  /\ ShiftLeft(x, count) \in Numbers(n)
         /\ Value(ShiftLeft(x, count)) = (Value(x) * 2 ^ count) % Pow(n)
<1> DEFINE p == count \div BigBits
           f == 2 ^ (count % BigBits)
           e == [i \in 1 .. n |-> At(x, i - p) * f]
           s == [k \in 0 .. n |-> IF k < p THEN 0 ELSE (f * Pow(p)) * Low(x, k - p)]
<1>1. p \in Nat /\ f \in Nat \ {0} /\ 2 ^ count = Pow(p) * f /\ p <= n
  BY CountIs
<1>2. ShiftLeft(x, count) = Ripple(e, 0)
  BY DigitsOf DEF ShiftLeft
<1> HIDE DEF p, f
<1>3. Natural(x) /\ \A i \in Int : At(x, i) \in Nat /\ (i \notin 1 .. n => At(x, i) = 0)
  BY DigitsOf DEF At
<1>4. Pow(p) \in Nat \ {0}
  BY <1>1, Weights
<1>5. e \in [1 .. n -> Int] /\ s \in [0 .. n -> Int]
  <2>1. \A i \in 1 .. n : i - p \in Int
    BY <1>1
  <2>2. \A i \in 1 .. n : At(x, i - p) * f \in Int
    BY <1>1, <1>3, <2>1
  <2>3. ASSUME NEW k \in 0 .. n, ~(k < p) PROVE (f * Pow(p)) * Low(x, k - p) \in Int
    <3> DEFINE j == k - p
    <3>1. j \in Nat
      BY <1>1, <2>3
    <3> HIDE DEF j
    <3>2. Low(x, j) \in Nat
      BY <1>3, <3>1, LowIs
    <3>3. (f * Pow(p)) * Low(x, j) \in Int
      BY <1>1, <1>4, <3>2
    <3> QED BY <3>3 DEF j
  <2> QED BY <2>2, <2>3
<1>6. s[0] = 0
  <2>1. CASE 0 < p
    BY <2>1
  <2>2. CASE ~(0 < p)
    <3>1. p = 0 /\ 0 - p = 0
      BY <1>1, <2>2
    <3>2. Low(x, 0) = 0
      BY <1>3, LowIs
    <3>3. s[0] = (f * Pow(p)) * 0
      BY <3>1, <3>2
    <3> HIDE DEF s
    <3> QED BY <1>1, <1>4, <3>3
  <2> QED BY <2>1, <2>2
<1>7. ASSUME NEW k \in 1 .. n PROVE s[k] = s[k - 1] + e[k] * Pow(k - 1)
  <2> DEFINE j == k - 1
  <2>1. j \in Nat /\ j \in 0 .. n /\ k \in 0 .. n /\ j + 1 = k /\ k \in Int
    OBVIOUS
  <2> HIDE DEF j
  <2>2. Pow(j) \in Nat
    BY <2>1, Weights
  <2>3. CASE k <= p
    <3>1. k - p \in Int /\ k - p \notin 1 .. n /\ j < p
      BY <1>1, <2>1, <2>3
    <3>2. At(x, k - p) = 0
      BY <1>3, <3>1
    <3>3. e[k] = 0 * f /\ s[j] = 0
      BY <2>1, <3>1, <3>2
    <3>4. s[k] = 0
      <4>1. CASE k < p
        BY <2>1, <4>1
      <4>2. CASE ~(k < p)
        <5>1. k - p = 0
          BY <1>1, <2>3, <4>2
        <5>2. Low(x, 0) = 0
          BY <1>3, LowIs
        <5>3. s[k] = (f * Pow(p)) * 0
          BY <2>1, <4>2, <5>1, <5>2
        <5> HIDE DEF s
        <5> QED BY <1>1, <1>4, <5>3
      <4> QED BY <4>1, <4>2
    <3> HIDE DEF s, e
    <3>5. 0 = 0 + (0 * f) * Pow(j)
      BY <1>1, <2>2
    <3> QED BY <3>3, <3>4, <3>5 DEF j
  <2>4. CASE k > p
    <3> DEFINE i == j - p
               d == At(x, k - p)
               l == Low(x, i)
               w == Pow(i)
               v == Pow(p)
    <3>1. i \in Nat /\ i + 1 = k - p /\ p + i = j /\ ~(j < p) /\ ~(k < p) /\ k - p \in Int
      BY <1>1, <2>1, <2>4
    <3>2. d \in Nat
      BY <1>3, <3>1
    <3>3. s[k] = (f * v) * Low(x, k - p) /\ s[j] = (f * v) * l /\ e[k] = d * f
      BY <2>1, <3>1
    <3> HIDE DEF i
    <3>4. Low(x, k - p) = l + d * w /\ l \in Nat
      <4>1. Low(x, i + 1) = Low(x, i) + At(x, i + 1) * Pow(i) /\ Low(x, i) \in Nat
        BY <1>3, <3>1, LowIs
      <4> QED BY <3>1, <4>1
    <3>5. w \in Nat /\ Pow(j) = v * w /\ v \in Nat
      <4>1. Pow(i) \in Nat /\ Pow(p + i) = Pow(p) * Pow(i)
        BY <1>1, <3>1, Weights
      <4> QED BY <1>4, <3>1, <4>1
    <3> HIDE DEF d, l, w, v, s, e
    <3>6. (f * v) * (l + d * w) = (f * v) * l + (d * f) * (v * w)
      BY <1>1, <3>2, <3>4, <3>5
    <3> QED BY <3>3, <3>4, <3>5, <3>6 DEF j
  <2> QED BY <1>1, <2>1, <2>3, <2>4
<1>8. Summed(n, e, s)
  <2> HIDE DEF e, s
  <2> QED BY <1>5, <1>6, <1>7 DEF Summed
<1> DEFINE j == n - p
<1>9. j \in Nat /\ ~(n < p) /\ n \in 0 .. n
  BY <1>1
<1>10. s[n] = (f * Pow(p)) * Low(x, j)
  BY <1>9
<1> HIDE DEF e, s
<1>11. Ripple(e, 0) \in Numbers(n) /\ Value(Ripple(e, 0)) = (s[n] + 0) % Pow(n)
  <2>1. 0 \in Int
    OBVIOUS
  <2> QED BY <1>8, <2>1, RippleValue
<1>12. s[n] + 0 = s[n] /\ s[n] \in Int
  BY <1>5, <1>9
<1>13. PICK h \in Nat : Value(x) = Low(x, j) + Pow(j) * h
  BY <1>9, ValueSplits
<1>14. (Value(x) * 2 ^ count) % Pow(n) = s[n] % Pow(n)
  <2> DEFINE l == Low(x, j)
             w == Pow(j)
             v == Pow(p)
             m == Pow(n)
             t == Value(x) * 2 ^ count
             r == h * f
  <2>1. j + p = n
    BY <1>1, <1>9
  <2>2. l \in Nat /\ w \in Nat
    BY <1>3, <1>9, LowIs, Weights
  <2>3. m = w * v /\ m \in Nat \ {0}
    <3>1. Pow(j + p) = Pow(j) * Pow(p) /\ Pow(n) \in Nat \ {0}
      BY <1>1, <1>9, Weights
    <3> QED BY <2>1, <3>1
  <2>4. t = (l + w * h) * (v * f)
    BY <1>1, <1>13
  <2> HIDE DEF l, w, v, m, t, j
  <2>5. v \in Nat
    BY <1>4 DEF v
  <2>6. (l + w * h) * (v * f) = (f * v) * l + (w * v) * (h * f)
    BY <1>1, <2>2, <2>5
  <2>7. r \in Int
    BY <1>1
  <2>8. s[n] = (f * v) * l
    BY <1>10 DEF v, l
  <2>9. t = s[n] + m * r
    BY <2>3, <2>4, <2>6, <2>8
  <2>10. t \in Int
    <3>1. (l + w * h) * (v * f) \in Int
      BY <1>1, <2>2, <2>5
    <3> QED BY <2>4, <3>1
  <2> HIDE DEF r
  <2>11. t % m = s[n] % m
    BY <1>12, <2>3, <2>7, <2>9, <2>10, SameRemainder
  <2> QED BY <2>11 DEF t, m
<1> QED BY <1>2, <1>11, <1>12, <1>14

LEMMA Nested ==
  ASSUME NEW v \in Nat, NEW a \in Nat \ {0}, NEW b \in Nat \ {0}
  PROVE  (v \div a) \div b = v \div (a * b) /\ v \div a \in Nat
<1> DEFINE q == v \div a
           r == v % a
           s == q \div b
           t == q % b
           m == a * b
           l == a * t + r
<1>1. q \in Nat /\ r \in 0 .. a - 1 /\ v = a * q + r
  <2>1. q \in Int /\ r \in 0 .. a - 1 /\ v = a * q + r
    BY Euclid
  <2>2. q \in Nat
    OBVIOUS
  <2> QED BY <2>1, <2>2
<1> HIDE DEF q, r
<1>2. s \in Int /\ t \in 0 .. b - 1 /\ q = b * s + t
  BY <1>1, Euclid
<1> HIDE DEF s, t
<1>3. m \in Nat \ {0}
  OBVIOUS
<1>4. l \in 0 .. m - 1
  <2>1. a * t <= a * (b - 1)
    BY <1>2, Monotonic
  <2> DEFINE u == a * t
  <2>2. a * (b - 1) = m - a /\ u \in Nat
    BY <1>2
  <2> HIDE DEF m, u
  <2>3. u <= m - a
    BY <2>1, <2>2 DEF u
  <2>4. u + r \in 0 .. m - 1
    BY <1>1, <1>3, <2>2, <2>3
  <2> QED BY <2>4 DEF u
<1>5. v = m * s + l
  <2>1. a * (b * s + t) + r = (a * b) * s + (a * t + r)
    BY <1>1, <1>2
  <2> QED BY <1>1, <1>2, <2>1
<1> HIDE DEF m, l
<1>6. v \div m = s
  BY <1>2, <1>3, <1>4, <1>5, Unique
<1> QED BY <1>1, <1>6 DEF q, s, m

(* A digit that takes its low bits from a and its high ones from c.        *)
Halved(f, g, b, a, c, h, h2) ==
  /\ f \in Nat \ {0} /\ g \in Nat \ {0} /\ b = f * g
  /\ a \in 0 .. b - 1 /\ c \in Nat /\ h2 \in Nat /\ h = c + b * h2

LEMMA ShiftedDigit ==
  ASSUME NEW f, NEW g, NEW b, NEW a, NEW c, NEW h, NEW h2, Halved(f, g, b, a, c, h, h2)
  PROVE  ((a + b * h) \div f) % b = (a \div f) + ((c * g) % b)
<1> USE DEF Halved
<1> h \in Nat
  <2>1. f * g \in Nat
    OBVIOUS
  <2>2. (f * g) * h2 \in Nat
    BY <2>1
  <2> QED BY <2>2
<1> DEFINE q == a \div f
           r == a % f
           m == c \div f
           u == c % f
<1>1. b \in Nat \ {0}
  OBVIOUS
<1>2. q \in Int /\ r \in 0 .. f - 1 /\ a = f * q + r /\ a \in Nat
  <2>1. a \in Nat
    BY <1>1
  <2> QED BY <2>1, Euclid
<1>3. m \in Int /\ u \in 0 .. f - 1 /\ c = f * m + u
  BY Euclid
<1> HIDE DEF q, r, m, u
<1>4. q \in 0 .. g - 1
  <2>1. CASE q >= g
    <3>1. f * g <= f * q
      BY <1>2, <2>1, Monotonic
    <3> DEFINE x == f * q
    <3>2. x \in Int /\ b <= x /\ a = x + r
      BY <1>2, <3>1
    <3> HIDE DEF x
    <3>3. FALSE
      BY <1>1, <1>2, <3>2
    <3> QED BY <3>3
  <2>2. CASE q < 0
    <3>1. q <= -1 /\ -1 \in Int
      BY <1>2, <2>2
    <3>2. f * q <= f * (-1)
      BY <1>2, <3>1, Monotonic
    <3> DEFINE x == f * q
    <3>3. x \in Int /\ x <= -f /\ a = x + r
      BY <1>2, <3>2
    <3> HIDE DEF x
    <3>4. FALSE
      BY <1>1, <1>2, <3>3
    <3> QED BY <3>4
  <2> QED BY <1>2, <2>1, <2>2
<1>5. (a + b * h) \div f = q + g * h
  <2> DEFINE x == a + b * h
             k == q + g * h
  <2>1. x = (f * q + r) + (f * g) * h
    BY <1>2
  <2>2. (f * q + r) + (f * g) * h = f * (q + g * h) + r
    BY <1>2
  <2>3. k \in Int /\ x \in Int
    BY <1>1, <1>2
  <2>4. x = f * k + r
    BY <2>1, <2>2
  <2> HIDE DEF x, k
  <2>5. x \div f = k
    BY <1>2, <2>3, <2>4, Unique
  <2> QED BY <2>5 DEF x, k
<1>6. u * g \in 0 .. b - g
  <2>1. g * u <= g * (f - 1)
    BY <1>3, Monotonic
  <2>2. g * (f - 1) = b - g /\ g * u = u * g /\ u * g \in Nat
    BY <1>3
  <2> DEFINE x == u * g
  <2>3. x \in Nat /\ x <= b - g
    BY <2>1, <2>2
  <2> HIDE DEF x
  <2>4. x \in 0 .. b - g
    BY <1>1, <2>3
  <2> QED BY <2>4 DEF x
<1>7. (c * g) % b = u * g
  <2> DEFINE x == c * g
             y == u * g
  <2>1. x = (f * m + u) * g
    BY <1>3
  <2>2. (f * m + u) * g = (f * g) * m + u * g
    BY <1>3
  <2>3. x = b * m + y /\ x \in Int
    BY <2>1, <2>2
  <2>4. y \in 0 .. b - 1
    <3> HIDE DEF y
    <3>1. y \in 0 .. b - g
      BY <1>6 DEF y
    <3> QED BY <1>1, <3>1
  <2> HIDE DEF x, y
  <2>5. x % b = y
    BY <1>1, <1>3, <2>3, <2>4, Unique
  <2> QED BY <2>5 DEF x, y
<1>8. (q + g * h) % b = q + u * g
  <2> DEFINE x == q + g * h
             k == m + g * h2
             y == u * g
             l == q + y
  <2>1. x = q + g * ((f * m + u) + (f * g) * h2)
    BY <1>3
  <2>2. q + g * ((f * m + u) + (f * g) * h2) = (f * g) * (m + g * h2) + (q + u * g)
    BY <1>2, <1>3
  <2>3. x = b * k + l
    BY <2>1, <2>2
  <2>4. k \in Int /\ x \in Int
    BY <1>2, <1>3
  <2>5. l \in 0 .. b - 1
    <3> HIDE DEF y
    <3>1. y \in 0 .. b - g
      BY <1>6 DEF y
    <3> QED BY <1>1, <1>4, <3>1
  <2> HIDE DEF x, k, l
  <2>6. x % b = l
    BY <1>1, <2>3, <2>4, <2>5, Unique
  <2> QED BY <2>6 DEF x, l, y
<1> QED BY <1>5, <1>7, <1>8 DEF q

(* The digits of a quotient by a power of two are those of x, moved down.  *)
LEMMA ShiftRightIs ==
  ASSUME NEW n \in Nat, NEW x \in Numbers(n), NEW count \in Nat
  PROVE  /\ ShiftRight(x, count) \in Numbers(n)
         /\ Value(ShiftRight(x, count)) = Value(x) \div 2 ^ count
         /\ Value(x) \div 2 ^ count \in Nat
<1> DEFINE p == count \div BigBits
           f == 2 ^ (count % BigBits)
           g == 2 ^ (BigBits - (count % BigBits))
           v == Value(x)
           t == 2 ^ count
           w == v \div t
           z == [i \in 1 .. n |-> (At(x, i + p) \div f) + ((At(x, (i + p) + 1) * g) % Base)]
<1>1. p \in Nat /\ f \in Nat \ {0} /\ g \in Nat \ {0} /\ t = Pow(p) * f /\ Base = f * g
  BY CountIs
<1>2. ShiftRight(x, count) = Fixed(z)
  BY DigitsOf DEF ShiftRight
<1> HIDE DEF p, f, g
<1>3. t \in Nat \ {0}
  BY Counted
<1>4. v \in Nat
  BY NumberValue
<1> HIDE DEF t, v
<1>5. w \in Nat /\ w <= v
  <2>1. w \in Int /\ v % t \in 0 .. t - 1 /\ v = t * w + (v % t)
    BY <1>3, <1>4, Euclid
  <2>2. w \in Nat
    BY <1>3, <1>4
  <2> DEFINE r == v % t
  <2> HIDE DEF w, r
  <2>3. t * w = w + (t - 1) * w /\ (t - 1) * w \in Nat
    BY <1>3, <2>2
  <2> DEFINE y == (t - 1) * w
  <2>4. v = (w + y) + r /\ y \in Nat /\ r \in Nat
    BY <1>3, <2>1, <2>3 DEF r
  <2> HIDE DEF y
  <2> QED BY <1>4, <2>2, <2>4
<1>6. ASSUME NEW i \in 1 .. n PROVE z[i] = (w \div Pow(i - 1)) % Base
  <2> DEFINE j == i - 1
             k == p + j
             a == At(x, k + 1)
             c == At(x, (k + 1) + 1)
  <2>1. j \in Nat /\ k \in Nat /\ k + 1 \in Nat /\ k + 1 = i + p /\ k + 1 \in Int /\ (k + 1) + 1 \in Int
    BY <1>1
  <2>2. z[i] = (a \div f) + ((c * g) % Base)
    BY <2>1
  <2> HIDE DEF j, k
  <2>3. a \in 0 .. Base - 1 /\ c \in Nat /\ a \in Nat
    BY <2>1, DigitsOf
  <2>4. PICK h2 \in Nat : v \div Pow(k + 1) = c + Base * h2
    BY <2>1, DigitFrom DEF v
  <2>5. PICK h \in Nat : v \div Pow(k) = a + Base * h
    BY <2>1, DigitFrom DEF v
  <2>6. Pow(k) \in Nat \ {0} /\ Pow(k + 1) = Base * Pow(k) /\ Pow(j) \in Nat \ {0} /\ Pow(k) = Pow(p) * Pow(j) /\ Pow(p) \in Nat \ {0}
    <3>1. Pow(p + j) = Pow(p) * Pow(j)
      BY <1>1, <2>1, Weights
    <3> QED BY <1>1, <2>1, <3>1, Weights DEF k
  <2> HIDE DEF z, a, c, w
  <2>7. h = c + Base * h2
    <3> DEFINE y == Pow(k)
               b == Base
               q == a + b * h
    <3>1. y \in Nat \ {0} /\ b \in Nat \ {0}
      BY <2>6, Bases
    <3>2. v \div y = q
      BY <2>5
    <3> HIDE DEF y, b
    <3>3. (v \div y) \div b = v \div (y * b)
      BY <1>4, <3>1, Nested
    <3>4. y * b = Pow(k + 1)
      <4>1. y * b = b * y
        BY <3>1
      <4> QED BY <2>6, <4>1 DEF y, b
    <3>5. q = b * h + a /\ q \in Int /\ h \in Int
      BY <2>3, <3>1
    <3> HIDE DEF q
    <3>6. q \div b = h
      BY <2>3, <3>1, <3>5, Unique DEF b
    <3> QED BY <2>4, <3>2, <3>3, <3>4, <3>6
  <2>8. w \div Pow(j) = (a + Base * h) \div f
    <3> DEFINE s == Pow(p)
               y == Pow(j)
    <3>1. s \in Nat \ {0} /\ y \in Nat \ {0} /\ t = s * f /\ Pow(k) = s * y
      BY <1>1, <2>6
    <3> HIDE DEF s, y
    <3>2. (v \div t) \div y = v \div (t * y)
      BY <1>3, <1>4, <3>1, Nested
    <3> DEFINE sy == s * y
    <3>3. sy \in Nat \ {0}
      BY <3>1
    <3>4. t * y = sy * f
      <4>1. (s * f) * y = (s * y) * f
        BY <1>1, <3>1
      <4> QED BY <3>1, <4>1
    <3> HIDE DEF sy
    <3>5. (v \div sy) \div f = v \div (sy * f)
      BY <1>1, <1>4, <3>3, Nested
    <3>6. v \div sy = a + Base * h
      BY <2>5, <3>1 DEF sy
    <3> QED BY <3>2, <3>4, <3>5, <3>6 DEF w, y
  <2>9. ((a + Base * h) \div f) % Base = (a \div f) + ((c * g) % Base)
    <3> DEFINE b == Base
    <3>1. Halved(f, g, b, a, c, h, h2)
      BY <1>1, <2>3, <2>7 DEF Halved
    <3> HIDE DEF b
    <3>2. ((a + b * h) \div f) % b = (a \div f) + ((c * g) % b)
      BY <3>1, ShiftedDigit
    <3> QED BY <3>2 DEF b
  <2> QED BY <2>2, <2>8, <2>9 DEF j
<1> HIDE DEF w
<1>7. z = Import(n, w)
  <2>1. Import(n, w) = [i \in 1 .. n |-> (w \div Pow(i - 1)) % Base]
    BY DEF Import, Pow
  <2>2. \A i \in 1 .. n : z[i] = Import(n, w)[i]
    BY <1>6, <2>1
  <2> QED BY <2>1, <2>2
<1>8. Import(n, w) \in Numbers(n) /\ Value(Import(n, w)) = w % Pow(n)
  BY <1>5, ImportIs
<1>9. Fixed(z) = z
  <2> HIDE DEF z
  <2> QED BY <1>7, <1>8, PlacedLength DEF Numbers
<1>10. w % Pow(n) = w
  <2> DEFINE m == Pow(n)
  <2>1. m \in Nat \ {0} /\ v \in 0 .. m - 1
    BY Weights, NumberValue DEF v
  <2> HIDE DEF m
  <2>2. w \in 0 .. m - 1
    BY <1>4, <1>5, <2>1
  <2>3. w % m = w
    BY <2>1, <2>2, Remains
  <2> QED BY <2>3 DEF m
<1> QED BY <1>2, <1>5, <1>7, <1>8, <1>9, <1>10 DEF w, v, t

-----------------------------------------------------------------------------
(* Bits.                                                                   *)
LEMMA PlaceOf ==
  ASSUME NEW n \in Nat, NEW bit \in Nat
  PROVE  /\ bit < n * BigBits <=> bit \div BigBits + 1 \in 1 .. n
         /\ bit \div BigBits \in Nat
         /\ \E g \in Nat \ {0} : Base = 2 ^ (bit % BigBits) * (2 * g)
<1> DEFINE p == bit \div BigBits
           r == bit % BigBits
           k == BigBits - r
           B == BigBits
<1>1. p \in Nat /\ k \in Nat \ {0} /\ Base = 2 ^ r * 2 ^ k /\ r \in 0 .. B - 1
  BY CountIs
<1>2. bit = B * p + r /\ B \in Nat \ {0}
  BY BigBitsAssumption, Euclid
<1> HIDE DEF p, k, B, r
<1>3. k - 1 \in Nat /\ (k - 1) + 1 = k
  BY <1>1
<1>4. 2 ^ k = 2 * 2 ^ (k - 1) /\ 2 ^ (k - 1) \in Nat \ {0}
  <2> DEFINE j == k - 1
  <2>1. j \in Nat /\ j + 1 = k
    BY <1>3
  <2> HIDE DEF j
  <2>2. 2 ^ (j + 1) = 2 * 2 ^ j /\ 2 ^ j \in Nat \ {0}
    BY <2>1, Doubles, Counted
  <2> QED BY <2>1, <2>2 DEF j
<1>5. bit < n * B <=> p + 1 \in 1 .. n
  <2>1. CASE p + 1 <= n
    <3>1. B * (p + 1) <= B * n
      BY <1>1, <1>2, <2>1, Monotonic
    <3>2. B * (p + 1) = B * p + B /\ B * n = n * B /\ B * p \in Nat /\ n * B \in Nat
      BY <1>1, <1>2
    <3> DEFINE u == B * p
               w == n * B
    <3>3. u + B <= w /\ u \in Nat /\ w \in Nat /\ bit = u + r
      BY <1>2, <3>1, <3>2
    <3> HIDE DEF u, w
    <3>4. bit < w
      BY <1>1, <1>2, <3>3
    <3> QED BY <1>1, <2>1, <3>4 DEF w
  <2>2. CASE p >= n
    <3>1. B * n <= B * p
      BY <1>1, <1>2, <2>2, Monotonic
    <3>2. B * n = n * B /\ B * p \in Nat /\ n * B \in Nat
      BY <1>1, <1>2
    <3> DEFINE u == B * p
               w == n * B
    <3>3. w <= u /\ u \in Nat /\ w \in Nat /\ bit = u + r
      BY <1>2, <3>1, <3>2
    <3> HIDE DEF u, w
    <3>4. ~(bit < w)
      BY <1>1, <1>2, <3>3
    <3> QED BY <1>1, <2>2, <3>4 DEF w
  <2> QED BY <1>1, <2>1, <2>2
<1> QED BY <1>1, <1>4, <1>5 DEF p, r, B

(* An even number of units of f below b = f * (2 * g) leaves room for one. *)
Halves(a, f, g, b) == a \in Nat /\ f \in Nat \ {0} /\ g \in Nat \ {0} /\ b = f * (2 * g)

LEMMA LowestBit ==
  ASSUME NEW a, NEW f, NEW g, NEW b, NEW h \in Nat, Halves(a, f, g, b)
  PROVE  ((a + b * h) \div f) % 2 = (a \div f) % 2
<1> USE DEF Halves
<1> DEFINE q == a \div f
           r == a % f
           d == q % 2
           e == q \div 2
           x == a + b * h
           k == q + 2 * (g * h)
           i == e + g * h
<1>1. q \in Int /\ r \in 0 .. f - 1 /\ a = f * q + r
  BY Euclid
<1> HIDE DEF q, r
<1>2. d \in 0 .. 2 - 1 /\ e \in Int /\ q = 2 * e + d
  BY <1>1, Euclid
<1> HIDE DEF d, e
<1>3. x = f * k + r
  <2>1. (f * q + r) + (f * (2 * g)) * h = f * (q + 2 * (g * h)) + r
    BY <1>1
  <2> QED BY <1>1, <2>1
<1>4. x \in Int /\ k \in Int /\ i \in Int
  <2>1. b \in Int /\ g * h \in Int
    OBVIOUS
  <2> QED BY <1>1, <1>2, <2>1
<1>5. k = 2 * i + d
  BY <1>2
<1> HIDE DEF x, k, i
<1>6. x \div f = k
  BY <1>1, <1>3, <1>4, Unique
<1>7. k % 2 = d
  BY <1>2, <1>4, <1>5, Unique
<1> QED BY <1>6, <1>7 DEF x, d, q

LEMMA BitTestIs ==
  ASSUME NEW n \in Nat, NEW x \in Numbers(n), NEW bit \in Nat
  PROVE  /\ BitTest(x, bit) <=> (Value(x) \div 2 ^ bit) % 2 = 1
         /\ BitTest(x, bit) => bit < n * BigBits
<1> DEFINE p == bit \div BigBits
           f == 2 ^ (bit % BigBits)
           v == Value(x)
           t == 2 ^ bit
           y == Pow(p)
           a == At(x, p + 1)
<1>1. p \in Nat /\ f \in Nat \ {0} /\ t = y * f
  BY CountIs
<1>2. PICK g \in Nat \ {0} : Base = f * (2 * g)
  BY PlaceOf
<1>3. bit < n * BigBits <=> p + 1 \in 1 .. n
  BY PlaceOf
<1>4. BitTest(x, bit) <=> bit < n * BigBits /\ (x[p + 1] \div f) % 2 = 1
  <2>1. n * BigBits \in Int
    BY BigBitsAssumption
  <2>2. bit \in 0 .. n * BigBits - 1 <=> bit < n * BigBits
    <3> DEFINE m == n * BigBits
    <3> HIDE DEF m
    <3>1. bit \in 0 .. m - 1 <=> bit < m
      BY <2>1 DEF m
    <3> QED BY <3>1 DEF m
  <2> QED BY <2>2, DigitsOf DEF BitTest
<1>5. v \in Nat /\ y \in Nat \ {0}
  BY <1>1, NumberValue, Weights
<1>6. a \in Nat /\ (p + 1 \in 1 .. n => a = x[p + 1]) /\ (p + 1 \notin 1 .. n => a = 0)
  <2>1. p + 1 \in Int
    BY <1>1
  <2> QED BY <2>1, DigitsOf DEF At
<1>7. PICK h \in Nat : v \div y = a + Base * h
  BY <1>1, DigitFrom
<1> HIDE DEF p, f, v, t, y, a
<1>8. v \div t = (a + Base * h) \div f
  <2>1. (v \div y) \div f = v \div (y * f)
    BY <1>1, <1>5, Nested
  <2> QED BY <1>1, <1>7, <2>1
<1>9. (v \div t) % 2 = (a \div f) % 2
  <2> DEFINE b == Base
  <2>1. Halves(a, f, g, b)
    BY <1>1, <1>2, <1>6 DEF Halves
  <2> HIDE DEF b
  <2>2. ((a + b * h) \div f) % 2 = (a \div f) % 2
    BY <2>1, LowestBit
  <2> QED BY <1>8, <2>2 DEF b
<1>10. CASE p + 1 \in 1 .. n
  BY <1>3, <1>4, <1>6, <1>9, <1>10 DEF v, t
<1>11. CASE p + 1 \notin 1 .. n
  <2>1. 0 \div f = 0
    <3>1. 0 \in 0 .. f - 1
      BY <1>1
    <3> QED BY <1>1, <3>1, Remains
  <2>2. 0 % 2 = 0
    OBVIOUS
  <2> QED BY <1>3, <1>4, <1>6, <1>9, <1>11, <2>1, <2>2 DEF v, t
<1> QED BY <1>10, <1>11

LEMMA BitSetIs ==
  ASSUME NEW n \in Nat, NEW x \in Numbers(n), NEW bit \in Nat, bit < n * BigBits, ~BitTest(x, bit)
  PROVE  BitSet(x, bit) \in Numbers(n) /\ Value(BitSet(x, bit)) = Value(x) + 2 ^ bit
<1> DEFINE p == bit \div BigBits
           f == 2 ^ (bit % BigBits)
           z == [x EXCEPT ![p + 1] = @ + f]
           y == Pow(p)
<1>1. p \in Nat /\ f \in Nat \ {0} /\ 2 ^ bit = y * f
  BY CountIs
<1>2. PICK g \in Nat \ {0} : Base = f * (2 * g)
  BY PlaceOf
<1>3. p + 1 \in 1 .. n
  BY PlaceOf
<1>4. bit \in 0 .. n * BigBits - 1 /\ ~(bit >= n * BigBits)
  <2> DEFINE m == n * BigBits
  <2>1. m \in Int /\ bit < m
    BY BigBitsAssumption
  <2> HIDE DEF m
  <2>2. bit \in 0 .. m - 1 /\ ~(bit >= m)
    BY <2>1
  <2> QED BY <2>2 DEF m
<1>5. BitSet(x, bit) = z /\ ~((x[p + 1] \div f) % 2 = 1)
  BY <1>4, DigitsOf DEF BitSet, BitTest
<1>6. z = [i \in 1 .. n |-> IF i = p + 1 THEN x[p + 1] + f ELSE x[i]]
  BY DigitsOf DEF z
<1> HIDE DEF z, p, f
<1>7. \A i \in 1 .. n : x[i] \in Nat /\ x[i] \in 0 .. Base - 1 /\ At(x, i) = x[i]
  BY DigitsOf
<1>8. x[p + 1] + f \in 0 .. Base - 1
  <2> DEFINE a == x[p + 1]
             q == a \div f
             r == a % f
             e == q \div 2
             d == q % 2
             b == Base
  <2>1. a \in Nat /\ a \in 0 .. b - 1 /\ d # 1 /\ b = f * (2 * g)
    BY <1>2, <1>3, <1>5, <1>7
  <2> HIDE DEF a, b
  <2>2. q \in Int /\ r \in 0 .. f - 1 /\ a = f * q + r
    <3>1. a \in Int /\ f \in Nat \ {0}
      BY <1>1, <2>1
    <3> QED BY ONLY <3>1, Euclid
  <2> HIDE DEF q, r
  <2>3. d \in 0 .. 2 - 1 /\ e \in Int /\ q = 2 * e + d
    BY <2>2, Euclid
  <2> HIDE DEF d, e
  <2>4. q = 2 * e
    BY <2>1, <2>3
  <2>5. e < g
    <3> SUFFICES ASSUME e >= g PROVE FALSE
      BY <2>3
    <3>1. f * (2 * g) <= f * q
      <4>1. 2 * g <= q /\ 2 * g \in Int
        BY <2>3, <2>4
      <4> DEFINE gg == 2 * g
      <4> HIDE DEF gg
      <4>2. f * gg <= f * q
        BY <1>1, <2>2, <4>1, Monotonic DEF gg
      <4> QED BY <4>2 DEF gg
    <3> DEFINE u == f * q
    <3>2. b <= u /\ u \in Int /\ a = u + r
      BY <1>1, <2>1, <2>2, <3>1
    <3> HIDE DEF u
    <3>3. a \in Nat /\ a <= b - 1 /\ b \in Int
      <4>1. b \in Int
        BY <1>1, <2>1
      <4> QED BY <2>1, <4>1
    <3> QED BY <2>2, <3>2, <3>3
  <2>6. f * q <= b - 2 * f
    <3>1. q <= 2 * g - 2 /\ 2 * g - 2 \in Int
      BY <2>3, <2>4, <2>5
    <3> DEFINE w == 2 * g - 2
    <3>2. f * w = f * (2 * g) - 2 * f
      BY <1>1
    <3> HIDE DEF w
    <3>3. f * q <= f * w
      BY <1>1, <2>2, <3>1, Monotonic DEF w
    <3> QED BY <2>1, <3>2, <3>3
  <2> DEFINE u == f * q
  <2>7. u \in Int /\ u <= b - 2 * f /\ a = u + r /\ b \in Int
    <3>1. b \in Int
      BY <1>1, <2>1
    <3> QED BY <1>1, <2>2, <2>6, <3>1
  <2> HIDE DEF u
  <2>8. a + f \in 0 .. b - 1
    BY <1>1, <2>1, <2>2, <2>7
  <2> QED BY <2>8 DEF a, b
<1>9. z \in Numbers(n)
  <2>1. \A i \in 1 .. n : (IF i = p + 1 THEN x[p + 1] + f ELSE x[i]) \in 0 .. Base - 1
    BY <1>7, <1>8
  <2> QED BY <1>6, <2>1 DEF Numbers, Digit
<1> DEFINE s == [k \in 0 .. n |-> Low(x, k) + (IF k > p THEN y * f ELSE 0)]
           e == [k \in 1 .. n |-> z[k]]
           c == [k \in 0 .. n |-> 0]
<1>10. Natural(x) /\ Natural(z) /\ \A i \in 1 .. n : z[i] \in Nat /\ At(z, i) = z[i]
  BY <1>9, DigitsOf
<1>11. y \in Nat \ {0}
  BY <1>1, Weights
<1>12. Summed(n, e, s)
  <2>1. s[0] = 0
    <3>1. ~(0 > p) /\ Low(x, 0) = 0 /\ 0 \in 0 .. n
      BY <1>1, <1>10, LowIs
    <3> QED BY <3>1
  <2>2. \A k \in 0 .. n : Low(x, k) + (IF k > p THEN y * f ELSE 0) \in Int
    <3>1. \A k \in 0 .. n : Low(x, k) \in Nat
      BY <1>10, LowIs
    <3>2. y * f \in Int
      BY <1>1, <1>11
    <3> HIDE DEF y
    <3> QED BY <3>1, <3>2
  <2>3. ASSUME NEW k \in 1 .. n PROVE s[k] = s[k - 1] + e[k] * Pow(k - 1)
    <3> DEFINE j == k - 1
    <3>1. j \in Nat /\ j \in 0 .. n /\ j + 1 = k /\ k \in 0 .. n
      OBVIOUS
    <3>2. s[k] = Low(x, k) + (IF k > p THEN y * f ELSE 0) /\ s[j] = Low(x, j) + (IF j > p THEN y * f ELSE 0) /\ e[k] = z[k]
      BY <3>1
    <3> HIDE DEF j, s, e
    <3>3. Low(x, k) = Low(x, j) + x[k] * Pow(j) /\ Low(x, j) \in Nat /\ Pow(j) \in Nat /\ x[k] \in Nat
      <4>1. Low(x, j + 1) = Low(x, j) + At(x, j + 1) * Pow(j) /\ Low(x, j) \in Nat
        BY <1>10, <3>1, LowIs
      <4>2. Pow(j) \in Nat
        BY <3>1, Weights
      <4> QED BY <1>7, <3>1, <4>1, <4>2
    <3>4. CASE j = p
      <4>1. z[k] = x[k] + f /\ k > p /\ ~(j > p) /\ Pow(j) = y
        BY <1>1, <1>6, <3>1, <3>4
      <4>2. s[k] = (Low(x, j) + x[k] * y) + y * f /\ s[j] = Low(x, j) + 0
        BY <3>2, <3>3, <4>1
      <4> DEFINE l == Low(x, j)
                 d == x[k]
      <4>3. l \in Nat /\ d \in Nat
        BY <3>3
      <4> HIDE DEF l, d, y
      <4>4. (l + d * y) + y * f = (l + 0) + (d + f) * y
        BY <1>1, <1>11, <4>3
      <4> QED BY <3>2, <4>1, <4>2, <4>4 DEF l, d, j
    <3>5. CASE j # p
      <4>1. z[k] = x[k] /\ (k > p <=> j > p)
        BY <1>1, <1>6, <3>1, <3>5
      <4> DEFINE l == Low(x, j)
                 d == x[k] * Pow(j)
                 t == IF j > p THEN y * f ELSE 0
      <4>2. l \in Int /\ d \in Int /\ t \in Int
        BY <1>1, <1>11, <3>3
      <4>3. s[k] = (l + d) + t /\ s[j] = l + t /\ e[k] * Pow(j) = d
        BY <3>2, <3>3, <4>1
      <4> HIDE DEF l, d, t
      <4>4. s[k] = s[j] + d
        BY <4>2, <4>3
      <4> QED BY <4>3, <4>4 DEF j
    <3> QED BY <3>4, <3>5
  <2>4. e \in [1 .. n -> Int] /\ s \in [0 .. n -> Int]
    BY <1>10, <2>2
  <2> HIDE DEF e, s
  <2> QED BY <2>1, <2>3, <2>4 DEF Summed
<1>13. c \in [0 .. n -> Int] /\ Leaves(n, e, c, z) /\ c[0] = 0 /\ c[n] = 0
  <2>1. \A k \in 1 .. n : e[k] + c[k - 1] = At(z, k) + Base * c[k]
    <3> SUFFICES ASSUME NEW k \in 1 .. n PROVE e[k] + c[k - 1] = At(z, k) + Base * c[k]
      OBVIOUS
    <3>1. e[k] = z[k] /\ c[k - 1] = 0 /\ c[k] = 0 /\ At(z, k) = z[k] /\ z[k] \in Nat /\ Base \in Nat
      BY <1>10, Bases
    <3> HIDE DEF e, c
    <3> QED BY <3>1
  <2> QED BY <2>1 DEF Leaves
<1>14. s[n] = Low(x, n) + y * f
  BY <1>1, <1>3
<1> HIDE DEF s, e, c
<1>15. s[n] + c[0] = Low(z, n) + c[n] * Pow(n)
  <2>1. \A k \in 0 .. n : s[k] + c[0] = Low(z, k) + c[k] * Pow(k)
    BY <1>10, <1>12, <1>13, Telescope
  <2> QED BY <2>1
<1>16. Low(z, n) = Value(z) /\ Low(x, n) = Value(x)
  BY <1>9, NumberValue
<1>17. Value(z) = Value(x) + y * f
  <2> DEFINE lz == Low(z, n)
             lx == Low(x, n)
             t == y * f
             w == Pow(n)
  <2>1. lz \in Nat /\ lx \in Nat /\ t \in Nat /\ w \in Nat
    <3>1. lz \in Nat /\ lx \in Nat
      BY <1>10, LowIs
    <3>2. w \in Nat
      BY Weights
    <3>3. t \in Nat
      <4> HIDE DEF y
      <4> QED BY <1>1, <1>11, Product
    <3> QED BY <3>1, <3>2, <3>3
  <2>2. s[n] = lx + t /\ s[n] + 0 = lz + 0 * w
    BY <1>13, <1>14, <1>15
  <2> HIDE DEF lz, lx, t, w
  <2>3. lz = lx + t
    BY <2>1, <2>2
  <2> QED BY <1>16, <2>3 DEF lz, lx, t
<1> QED BY <1>1, <1>5, <1>9, <1>17

LEMMA NextBit ==
  ASSUME NEW v \in Nat, NEW b \in Nat
  PROVE  /\ v \div 2 ^ b \in Nat /\ v \div 2 ^ (b + 1) \in Nat
         /\ (v \div 2 ^ b) % 2 \in {0, 1}
         /\ v \div 2 ^ b = 2 * (v \div 2 ^ (b + 1)) + ((v \div 2 ^ b) % 2)
<1> DEFINE t == 2 ^ b
           q == v \div t
<1>1. t \in Nat \ {0} /\ 2 ^ (b + 1) = 2 * t
  BY Counted, Doubles
<1> HIDE DEF t
<1>2. q \div 2 = v \div (t * 2) /\ q \in Nat
  <2>1. 2 \in Nat \ {0}
    OBVIOUS
  <2> QED BY <1>1, <2>1, Nested
<1>3. t * 2 = 2 * t
  BY <1>1
<1> HIDE DEF q
<1>4. q \div 2 \in Nat /\ q % 2 \in {0, 1} /\ q = 2 * (q \div 2) + (q % 2)
  BY <1>2
<1> QED BY <1>1, <1>2, <1>3, <1>4 DEF q, t

LEMMA SmallQuotient ==
  ASSUME NEW v \in Nat, NEW t \in Nat \ {0}
  PROVE  v \div t = 0 <=> v < t
<1>1. v \div t \in Int /\ v % t \in 0 .. t - 1 /\ v = t * (v \div t) + (v % t)
  BY Euclid
<1>2. CASE v < t
  <2>1. v \in 0 .. t - 1
    BY <1>2
  <2> QED BY <1>2, <2>1, Remains
<1>3. CASE v \div t = 0
  <2>1. t * (v \div t) = 0
    BY <1>3
  <2> QED BY <1>1, <1>3, <2>1
<1> QED BY <1>2, <1>3

LEMMA BitMsbIs ==
  ASSUME NEW n \in Nat, NEW x \in Numbers(n)
  PROVE  /\ BitMsb(x) \in Int /\ BitMsb(x) >= -1 /\ BitMsb(x) < n * BigBits
         /\ BitMsb(x) = -1 <=> Value(x) = 0
         /\ BitMsb(x) >= 0 => 2 ^ BitMsb(x) <= Value(x)
         /\ Value(x) < 2 ^ (BitMsb(x) + 1)
<1> DEFINE top == n * BigBits
           T == {-1} \cup {b \in 0 .. top - 1 : BitTest(x, b)}
           m == BitMsb(x)
           v == Value(x)
<1>1. top \in Nat /\ top = BigBits * n
  BY BigBitsAssumption
<1>2. m = Max(T)
  BY DigitsOf DEF BitMsb
<1>3. v \in Nat /\ v < 2 ^ top
  <2>1. v \in Nat /\ v \in 0 .. Pow(n) - 1 /\ Pow(n) \in Nat
    BY NumberValue, Weights
  <2> QED BY <1>1, <2>1 DEF Pow
<1>4. \A b \in Nat : BitTest(x, b) <=> (v \div 2 ^ b) % 2 = 1
  BY BitTestIs
<1>5. \A b \in Nat : BitTest(x, b) => b < top
  BY BitTestIs
<1> HIDE DEF top, v
<1>6. T \subseteq Int /\ T # {} /\ top - 1 \in Int /\ \A b \in T : b <= top - 1
  BY <1>1
<1>7. m \in T /\ \A b \in T : b <= m
  <2> HIDE DEF T, m
  <2>1. Max(T) \in T /\ \A b \in T : Max(T) >= b
    <3> DEFINE u == top - 1
    <3>1. u \in Int /\ \A b \in T : b <= u
      BY <1>6
    <3> HIDE DEF u
    <3> QED BY <1>6, <3>1, MaxIs
  <2>2. Max(T) \in Int
    BY <1>6, <2>1
  <2> QED BY <1>2, <1>6, <2>1, <2>2
<1> HIDE DEF m
<1>8. m \in Int /\ m >= -1 /\ m <= top - 1 /\ (m >= 0 => BitTest(x, m))
  BY <1>1, <1>7
<1>9. \A b \in Nat : b > m => ~BitTest(x, b)
  BY <1>1, <1>5, <1>7
<1> DEFINE k == top - (m + 1)
           P == {i \in 0 .. k : v \div 2 ^ (top - i) = 0}
<1>10. k \in Nat /\ top - k = m + 1 /\ top - 0 = top
  BY <1>1, <1>8
<1> HIDE DEF T
<1>11. P \subseteq 0 .. k /\ 0 \in P
  <2>1. v \div 2 ^ top = 0
    <3>1. 2 ^ top \in Nat \ {0}
      BY <1>1, Counted
    <3> QED BY <1>3, <3>1, SmallQuotient
  <2> HIDE DEF k
  <2> QED BY <1>10, <2>1
<1>12. ASSUME NEW i \in 0 .. k - 1, i \in P PROVE i + 1 \in P
  <2> DEFINE b == top - (i + 1)
  <2> HIDE DEF k, P
  <2>1. b \in Nat /\ b + 1 = top - i /\ b > m /\ i + 1 \in 0 .. k
    BY <1>1, <1>8, <1>10
  <2> HIDE DEF b
  <2>2. v \div 2 ^ (b + 1) = 0
    BY <1>12, <2>1 DEF P
  <2>3. (v \div 2 ^ b) % 2 # 1
    BY <1>4, <1>9, <2>1
  <2> DEFINE q == v \div 2 ^ b
             h == v \div 2 ^ (b + 1)
  <2>4. q % 2 \in {0, 1} /\ q = 2 * h + (q % 2)
    BY <1>3, <2>1, NextBit
  <2> HIDE DEF q, h
  <2>5. q = 2 * 0 + 0
    BY <2>2, <2>3, <2>4 DEF q, h
  <2>6. v \div 2 ^ b = 0
    BY <2>5 DEF q
  <2> QED BY <2>1, <2>6 DEF P, b
<1>13. k \in P
  <2>1. k \in 0 .. k
    BY <1>10
  <2> HIDE DEF P, k
  <2> QED BY <1>10, <1>11, <1>12, <2>1, Ascends
<1>14. v \div 2 ^ (m + 1) = 0 /\ m + 1 \in Nat
  BY <1>8, <1>10, <1>13
<1>15. v < 2 ^ (m + 1)
  <2> DEFINE b == m + 1
  <2>1. b \in Nat
    BY <1>14
  <2> HIDE DEF b
  <2>2. 2 ^ b \in Nat \ {0}
    BY <2>1, Counted
  <2>3. v \div 2 ^ b = 0
    BY <1>14 DEF b
  <2> QED BY <1>3, <2>2, <2>3, SmallQuotient DEF b
<1>16. m >= 0 => 2 ^ m <= v
  <2> SUFFICES ASSUME m >= 0 PROVE 2 ^ m <= v
    OBVIOUS
  <2>1. m \in Nat
    BY <1>8
  <2>2. (v \div 2 ^ m) % 2 = 1 /\ 2 ^ m \in Nat \ {0}
    BY <1>4, <1>8, <2>1, Counted
  <2>3. v \div 2 ^ m # 0
    BY <2>2
  <2> QED BY <1>3, <2>2, <2>3, SmallQuotient
<1>17. m = -1 => v = 0
  <2>1. m = -1 => m + 1 = 0
    OBVIOUS
  <2>2. 2 ^ 0 = 1
    <3>1. Pow(0) = 1 /\ BigBits * 0 = 0
      BY Weights, BigBitsAssumption
    <3> QED BY <3>1 DEF Pow
  <2> QED BY <1>3, <1>15, <2>1, <2>2
<1>18. v = 0 => m = -1
  <2> SUFFICES ASSUME v = 0, m >= 0 PROVE FALSE
    BY <1>8
  <2>1. m \in Nat
    BY <1>8
  <2>2. 2 ^ m \in Nat \ {0}
    BY <2>1, Counted
  <2> QED BY <1>16, <2>2
<1> QED BY <1>1, <1>8, <1>15, <1>16, <1>17, <1>18 DEF m, v, top

LEMMA BitSetNumber ==
  ASSUME NEW n \in Nat, NEW x \in Numbers(n), NEW bit \in Nat
  PROVE  BitSet(x, bit) \in Numbers(n)
<1>1. CASE bit < n * BigBits /\ ~BitTest(x, bit)
  BY <1>1, BitSetIs
<1>2. CASE ~(bit < n * BigBits) \/ BitTest(x, bit)
  <2>1. n * BigBits \in Int
    BY BigBitsAssumption
  <2>2. bit >= n * BigBits \/ BitTest(x, bit)
    <3> DEFINE top == n * BigBits
    <3> HIDE DEF top
    <3>1. top \in Int
      BY <2>1 DEF top
    <3> QED BY <1>2, <3>1 DEF top
  <2> QED BY <2>2, DigitsOf DEF BitSet
<1> QED BY <1>1, <1>2

(* The steps of set_part, one for each bit, and the fold over them.         *)
PartStep(n, y, msb, bits) ==
  [i \in 1 .. bits |-> [x \in Numbers(n) |-> IF BitTest(y, msb - bits + i) THEN BitSet(x, i - 1) ELSE x]]

LEMMA PartCarries ==
  ASSUME NEW n \in Nat, NEW m \in Nat, NEW y \in Numbers(m), NEW msb \in Int, NEW bits \in Nat, msb < m * BigBits
  PROVE  \E c : /\ Carries(c, bits, Numbers(n), Zero(n), PartStep(n, y, msb, bits))
                /\ SetPart(n, y, msb, bits) = c[bits]
<1> DEFINE S == Numbers(n)
           seq == [i \in 1 .. bits |-> i]
           step == PartStep(n, y, msb, bits)
           pick == [s \in Places(bits) |-> Max(s)]
           iter == CHOOSE it : it = [s \in SUBSET (1 .. bits) |->
                     IF s = {} THEN Zero(n)
                     ELSE IF BitTest(y, msb - bits + seq[Max(s)])
                          THEN BitSet(it[s \ {Max(s)}], seq[Max(s)] - 1) ELSE it[s \ {Max(s)}]]
<1>1. Zero(n) \in S
  <2>1. 0 \in Digit
    BY Bases DEF Digit
  <2> QED BY <2>1, SetDigitIs
<1>2. step \in [1 .. bits -> [S -> S]]
  <2>1. ASSUME NEW i \in 1 .. bits, NEW x \in S PROVE BitSet(x, i - 1) \in S
    <3>1. i - 1 \in Nat
      OBVIOUS
    <3> QED BY <3>1, BitSetNumber
  <2> HIDE DEF S
  <2> QED BY <2>1 DEF PartStep, S
<1>3. Picks(bits, pick)
  BY FirstOrLast DEF Picks
<1>4. SetPart(n, y, msb, bits) = iter[1 .. bits]
  <2>1. DOMAIN seq = 1 .. bits
    OBVIOUS
  <2>2. ~(msb > Len(y) * BigBits)
    <3> DEFINE top == m * BigBits
    <3>1. top \in Int /\ msb < top
      BY BigBitsAssumption
    <3> HIDE DEF top
    <3>2. ~(msb > top)
      BY <3>1
    <3> QED BY <3>2, DigitsOf DEF top
  <2> QED BY <2>1, <2>2 DEF SetPart, FoldLeft, MapThenFoldSet
<1> HIDE DEF S, iter, step
<1>5. PICK f \in [Places(bits) -> S] : Folded(f, bits, Zero(n), step, pick)
  BY <1>1, <1>2, <1>3, Folding
<1>6. \A s \in Places(bits) : s # {} =>
         /\ pick[s] = Max(s) /\ seq[Max(s)] = Max(s) /\ Max(s) \in 1 .. bits /\ s \ {Max(s)} \in Places(bits)
         /\ \A x \in S : step[Max(s)][x] = IF BitTest(y, msb - bits + seq[Max(s)])
                                           THEN BitSet(x, seq[Max(s)] - 1) ELSE x
  <2> SUFFICES ASSUME NEW s \in Places(bits), s # {}
               PROVE  /\ pick[s] = Max(s) /\ seq[Max(s)] = Max(s) /\ Max(s) \in 1 .. bits /\ s \ {Max(s)} \in Places(bits)
                      /\ \A x \in S : step[Max(s)][x] = IF BitTest(y, msb - bits + seq[Max(s)])
                                           THEN BitSet(x, seq[Max(s)] - 1) ELSE x
    OBVIOUS
  <2>1. Max(s) \in 1 .. bits /\ s \ {Max(s)} \in Places(bits)
    BY FirstOrLast DEF Places
  <2>2. seq[Max(s)] = Max(s)
    BY <2>1
  <2> HIDE DEF seq
  <2>3. \A x \in S : step[Max(s)][x] = IF BitTest(y, msb - bits + Max(s)) THEN BitSet(x, Max(s) - 1) ELSE x
    BY <2>1 DEF step, PartStep, S
  <2> QED BY <2>1, <2>2, <2>3
<1> HIDE DEF pick, seq
<1>7. f = [s \in SUBSET (1 .. bits) |->
             IF s = {} THEN Zero(n)
             ELSE IF BitTest(y, msb - bits + seq[Max(s)])
                  THEN BitSet(f[s \ {Max(s)}], seq[Max(s)] - 1) ELSE f[s \ {Max(s)}]]
  <2>1. \A s \in Places(bits) :
          f[s] = IF s = {} THEN Zero(n)
                 ELSE IF BitTest(y, msb - bits + seq[Max(s)])
                      THEN BitSet(f[s \ {Max(s)}], seq[Max(s)] - 1) ELSE f[s \ {Max(s)}]
    <3> SUFFICES ASSUME NEW s \in Places(bits)
                 PROVE  f[s] = IF s = {} THEN Zero(n)
                               ELSE IF BitTest(y, msb - bits + seq[Max(s)])
                                    THEN BitSet(f[s \ {Max(s)}], seq[Max(s)] - 1) ELSE f[s \ {Max(s)}]
      OBVIOUS
    <3>1. CASE s = {}
      BY <1>5, <3>1 DEF Folded
    <3>2. CASE s # {}
      <4>1. f[s] = step[Max(s)][f[s \ {Max(s)}]] /\ f[s \ {Max(s)}] \in S
        BY <1>5, <1>6, <3>2 DEF Folded
      <4> QED BY <1>6, <3>2, <4>1
    <3> QED BY <3>1, <3>2
  <2> QED BY <2>1 DEF Places
<1>8. iter = [s \in SUBSET (1 .. bits) |->
                IF s = {} THEN Zero(n)
                ELSE IF BitTest(y, msb - bits + seq[Max(s)])
                     THEN BitSet(iter[s \ {Max(s)}], seq[Max(s)] - 1) ELSE iter[s \ {Max(s)}]]
  BY <1>7 DEF iter
<1>9. iter[{}] = Zero(n)
  <2>1. {} \in SUBSET (1 .. bits)
    OBVIOUS
  <2> QED BY <1>8, <2>1
<1>10. Continues(iter, bits, S, step, pick)
  <2> SUFFICES ASSUME NEW s \in Places(bits), s # {}, iter[s \ {pick[s]}] \in S
               PROVE  iter[s] = step[pick[s]][iter[s \ {pick[s]}]]
    BY DEF Continues
  <2> DEFINE x == iter[s \ {Max(s)}]
  <2>1. pick[s] = Max(s) /\ x \in S
    BY <1>6
  <2>2. iter[s] = IF BitTest(y, msb - bits + seq[Max(s)]) THEN BitSet(x, seq[Max(s)] - 1) ELSE x
    BY <1>8 DEF Places
  <2> HIDE DEF x
  <2>3. iter[s] = step[Max(s)][x]
    BY <1>6, <2>1, <2>2
  <2> QED BY <2>1, <2>3 DEF x
<1> DEFINE c == [i \in 0 .. bits |-> iter[1 .. i]]
<1>11. Carries(c, bits, S, Zero(n), step)
  <2>1. LastPicks(bits, pick)
    BY <1>6 DEF LastPicks
  <2> HIDE DEF c
  <2>2. Carries(Traced(iter, bits), bits, S, Zero(n), step)
    BY <1>1, <1>2, <1>9, <1>10, <2>1, FoldCarries
  <2> QED BY <2>2 DEF c, Traced
<1>12. c[bits] = iter[1 .. bits]
  OBVIOUS
<1> QED BY <1>4, <1>11, <1>12 DEF S, step

LEMMA SetPartIs ==
  ASSUME NEW n \in Nat, NEW m \in Nat, NEW y \in Numbers(m), NEW low \in Nat, NEW bits \in Nat,
         NEW msb \in Int, msb + 1 = low + bits, msb < m * BigBits, bits <= n * BigBits
  PROVE  /\ SetPart(n, y, msb, bits) \in Numbers(n)
         /\ Value(SetPart(n, y, msb, bits)) = (Value(y) \div 2 ^ low) % 2 ^ bits
<1> DEFINE S == Numbers(n)
           step == PartStep(n, y, msb, bits)
           v == Value(y)
           t == 2 ^ low
           w == v \div t
           top == n * BigBits
<1>1. PICK c : Carries(c, bits, S, Zero(n), step) /\ SetPart(n, y, msb, bits) = c[bits]
  BY PartCarries
<1>2. v \in Nat /\ t \in Nat \ {0}
  BY NumberValue, Counted
<1>3. w \in Nat
  <2> HIDE DEF v, t
  <2> QED BY <1>2
<1>4. \A i \in Nat : 2 ^ i \in Nat \ {0} /\ 2 ^ (i + 1) = 2 * 2 ^ i
  BY Counted, Doubles
<1>5. ASSUME NEW i \in Nat PROVE BitTest(y, low + i) <=> (w \div 2 ^ i) % 2 = 1
  <2> DEFINE b == low + i
             u == 2 ^ i
  <2>1. b \in Nat /\ 2 ^ b = t * u
    BY AddsUp
  <2>2. u \in Nat \ {0}
    BY <1>4
  <2>3. BitTest(y, b) <=> (v \div 2 ^ b) % 2 = 1
    BY <2>1, BitTestIs
  <2> HIDE DEF b, u, v, t
  <2>4. (v \div t) \div u = v \div (t * u)
    BY <1>2, <2>2, Nested
  <2> QED BY <2>1, <2>3, <2>4 DEF b, u
<1>6. top \in Nat /\ bits <= top
  BY BigBitsAssumption
<1> HIDE DEF v, t, w, top, step
<1>7. \A i \in 0 .. bits : c[i] \in S
  BY <1>1 DEF Carries
<1>8. ASSUME NEW i \in 0 .. bits - 1
      PROVE  c[i + 1] = IF BitTest(y, low + i) THEN BitSet(c[i], i) ELSE c[i]
  <2> DEFINE j == i + 1
  <2>1. j \in 1 .. bits /\ j - 1 = i /\ msb - bits + j = low + i
    OBVIOUS
  <2> HIDE DEF j
  <2>2. c[j] = step[j][c[j - 1]]
    BY <1>1, <2>1 DEF Carries
  <2>3. c[i] \in Numbers(n)
    BY <1>7, <2>1
  <2>4. step[j][c[i]] = IF BitTest(y, low + i) THEN BitSet(c[i], i) ELSE c[i]
    BY <2>1, <2>3 DEF step, PartStep
  <2> QED BY <2>1, <2>2, <2>4 DEF j
<1> DEFINE P == {i \in 0 .. bits : Value(c[i]) = w % 2 ^ i}
<1>9. P \subseteq 0 .. bits /\ 0 \in P
  <2>1. Value(c[0]) = 0
    <3>1. 0 \in Digit /\ c[0] = Zero(n)
      BY <1>1, Bases DEF Digit, Carries
    <3> QED BY <3>1, SetDigitIs
  <2>2. 2 ^ 0 = 1
    <3>1. Pow(0) = 1 /\ BigBits * 0 = 0
      BY Weights, BigBitsAssumption
    <3> QED BY <3>1 DEF Pow
  <2>3. w % 1 = 0
    <3>1. w = 1 * w + 0 /\ 0 \in 0 .. 1 - 1 /\ 1 \in Nat \ {0} /\ w \in Int
      BY <1>3
    <3> QED BY <3>1, Unique
  <2> QED BY <2>1, <2>2, <2>3
<1>10. ASSUME NEW i \in 0 .. bits - 1, i \in P PROVE i + 1 \in P
  <2>1. i \in Nat /\ i + 1 \in 0 .. bits /\ i \in 0 .. bits /\ i < top
    BY <1>6
  <2> DEFINE u == 2 ^ i
             x == c[i]
             d == (w \div u) % 2
  <2>2. u \in Nat \ {0} /\ 2 ^ (i + 1) = 2 * u
    BY <1>4, <2>1
  <2>3. BitTest(y, low + i) <=> d = 1
    BY <1>5, <2>1
  <2>4. Value(x) = w % u /\ x \in Numbers(n)
    BY <1>7, <1>10, <2>1
  <2>5. c[i + 1] = IF BitTest(y, low + i) THEN BitSet(x, i) ELSE x
    BY <1>8
  <2>6. ~BitTest(x, i) <=> ~((Value(x) \div u) % 2 = 1)
    BY <2>1, <2>4, BitTestIs
  <2> HIDE DEF u, x, P
  <2>7. w % u \in 0 .. u - 1 /\ w % u \in Nat
    BY <1>3, <2>2
  <2>8. ~BitTest(x, i)
    <3> DEFINE l == w % u
    <3> HIDE DEF l
    <3>1. l \div u = 0
      BY <2>2, <2>7, Remains DEF l
    <3>2. 0 % 2 = 0
      OBVIOUS
    <3> QED BY <2>4, <2>6, <3>1, <3>2 DEF l
  <2>9. BitTest(y, low + i) => Value(BitSet(x, i)) = Value(x) + u
    BY <2>1, <2>4, <2>8, BitSetIs DEF top, u
  <2>10. w % (2 * u) = (w % u) + d * u
    <3>1. 2 \in Nat \ {0}
      OBVIOUS
    <3> QED BY <1>3, <2>2, <3>1, NextDigit
  <2>11. d \in {0, 1}
    <3> DEFINE q == w \div u
    <3>1. q \in Nat
      BY <1>3, <2>2
    <3> HIDE DEF q
    <3>2. q % 2 \in {0, 1}
      BY <3>1
    <3> QED BY <3>2 DEF q
  <2> HIDE DEF d
  <2>12. Value(c[i + 1]) = w % (2 * u)
    <3>1. CASE d = 1
      <4>1. 1 * u = u
        BY <2>2
      <4> QED BY <2>3, <2>4, <2>5, <2>9, <2>10, <3>1, <4>1
    <3>2. CASE d = 0
      <4>1. (w % u) + 0 * u = w % u
        BY <2>2, <2>7
      <4> QED BY <2>3, <2>4, <2>5, <2>10, <3>2, <4>1
    <3> QED BY <2>11, <3>1, <3>2
  <2> QED BY <2>1, <2>2, <2>12 DEF P
<1> HIDE DEF P
<1>11. bits \in P
  <2>1. bits \in 0 .. bits
    OBVIOUS
  <2> QED BY <1>9, <1>10, <2>1, Ascends
<1>12. bits \in 0 .. bits
  OBVIOUS
<1> QED BY <1>1, <1>7, <1>11, <1>12 DEF P, w, v, t

-----------------------------------------------------------------------------
(* Products.                                                              *)

(* v equals w but for a multiple of m.                                     *)
Congruent(v, w, m) == \E h \in Int : v = w + m * h

(* A row adds d times x, moved up to place i, in the places     *)
(* that are kept.                                                          *)
LEMMA MulRowIs ==
  ASSUME NEW n \in Nat, NEW x \in Numbers(n), NEW size \in Nat, NEW w \in Numbers(size),
         NEW i \in 1 .. n, i + n <= size, NEW d \in Digit
  PROVE  /\ MulRow(w, x, i, d) \in Numbers(size)
         /\ Congruent(Low(MulRow(w, x, i, d), n), Low(w, n) + (d * Pow(i - 1)) * Value(x), Pow(n))
<1> DEFINE N == n + 1
           v == [j \in 1 .. n |-> w[(i + j) - 1]]
           e == [j \in 1 .. N |-> IF j > n THEN 0 ELSE w[(i + j) - 1] + x[j] * d]
           row == Ripple(e, 0)
           z == [k \in 1 .. size |-> IF k \in i .. (i + n) - 1 THEN row[(k - i) + 1]
                                     ELSE IF k = (i + n) + 1 THEN row[N] ELSE w[k]]
<1>1. n \in Nat /\ N \in Nat /\ i \in Nat /\ d \in Nat /\ d \in Int
  BY Bases DEF Digit
<1>2. MulRow(w, x, i, d) = Fixed(z)
  <2> DEFINE l == Len(x)
             e0 == [j \in 1 .. l + 1 |-> IF j > l THEN 0 ELSE w[(i + j) - 1] + x[j] * d]
             row0 == Ripple(e0, 0)
             z0 == [k \in DOMAIN w |-> IF k \in i .. (i + l) - 1 THEN row0[(k - i) + 1]
                                       ELSE IF k = (i + l) + 1 THEN row0[l + 1] ELSE w[k]]
  <2>1. MulRow(w, x, i, d) = Fixed(z0)
    BY DEF MulRow
  <2>2. l = n /\ DOMAIN w = 1 .. size
    BY DigitsOf
  <2> HIDE DEF l
  <2>3. e0 = e
    BY <2>2
  <2> HIDE DEF e0, e
  <2>4. row0 = row
    BY <2>3
  <2> HIDE DEF row0, row
  <2>5. z0 = z
    BY <2>2, <2>4
  <2> QED BY <2>1, <2>5
<1>3. /\ Natural(w) /\ \A k \in 1 .. size : w[k] \in 0 .. Base - 1 /\ w[k] \in Nat /\ At(w, k) = w[k]
      /\ Natural(x) /\ \A k \in 1 .. n : x[k] \in Nat /\ At(x, k) = x[k]
  BY DigitsOf
<1>4. \A k \in Int : k > n => At(x, k) = 0
  BY DigitsOf DEF At
<1>5. v \in Numbers(n)
  <2>1. \A j \in 1 .. n : (i + j) - 1 \in 1 .. size
    BY <1>1
  <2> QED BY <1>3, <2>1 DEF Numbers, Digit
<1>6. \A j \in 1 .. n : v[j] = w[(i + j) - 1] /\ At(v, j) = v[j]
  BY DEF At
<1> HIDE DEF v
<1>7. Natural(v) /\ \A k \in Int : k > n => At(v, k) = 0
  <2>1. Natural(v) /\ DOMAIN v = 1 .. n
    BY <1>5, DigitsOf
  <2> QED BY <2>1 DEF At
<1>8. e = Combo(N, 1, v, d, x)
  <2>1. ASSUME NEW j \in 1 .. N PROVE (IF j > n THEN 0 ELSE w[(i + j) - 1] + x[j] * d) = 1 * At(v, j) + d * At(x, j)
    <3>1. CASE j > n
      <4>1. At(v, j) = 0 /\ At(x, j) = 0
        BY <1>4, <1>7, <3>1
      <4> QED BY <1>1, <3>1, <4>1
    <3>2. CASE ~(j > n)
      <4>1. j \in 1 .. n
        BY <1>1, <3>2
      <4>2. At(v, j) = w[(i + j) - 1] /\ At(x, j) = x[j] /\ x[j] \in Nat /\ At(v, j) \in Nat
        <5>1. At(v, j) \in Nat
          BY <1>7 DEF Natural
        <5> QED BY <1>3, <1>6, <4>1, <5>1
      <4> DEFINE a == At(v, j)
                 b == x[j]
      <4>3. a \in Nat /\ b \in Nat
        BY <4>2
      <4> HIDE DEF a, b
      <4>4. a + b * d = 1 * a + d * b
        BY <1>1, <4>3
      <4> QED BY <3>2, <4>2, <4>4 DEF a, b
    <3> QED BY <3>1, <3>2
  <2> QED BY <2>1 DEF Combo
<1>9. Summed(N, e, ComboSum(N, 1, v, d, x))
  <2>1. 1 \in Int
    OBVIOUS
  <2> QED BY <1>1, <1>3, <1>7, <1>8, <2>1, Combined
<1> HIDE DEF e
<1>10. /\ row \in Numbers(N)
       /\ Hands(N, ComboSum(N, 1, v, d, x), 0, row)
  <2>1. 0 \in Int
    OBVIOUS
  <2> DEFINE s == ComboSum(N, 1, v, d, x)
  <2>2. Summed(N, e, s)
    BY <1>9
  <2> HIDE DEF s, N
  <2>3. /\ Ripple(e, 0) \in Numbers(N)
        /\ Hands(N, s, 0, Ripple(e, 0))
    BY <1>1, <2>1, <2>2, RippleValue
  <2> QED BY <2>3 DEF s
<1> HIDE DEF row
<1>11. Natural(row) /\ \A j \in 1 .. N : row[j] \in 0 .. Base - 1 /\ At(row, j) = row[j]
  BY <1>1, <1>10, DigitsOf
<1>12. z \in Numbers(size)
  <2>1. ASSUME NEW k \in 1 .. size
        PROVE  (IF k \in i .. (i + n) - 1 THEN row[(k - i) + 1]
                ELSE IF k = (i + n) + 1 THEN row[N] ELSE w[k]) \in 0 .. Base - 1
    <3>1. k \in i .. (i + n) - 1 => (k - i) + 1 \in 1 .. N
      BY <1>1
    <3>2. N \in 1 .. N
      BY <1>1
    <3> QED BY <1>3, <1>11, <3>1, <3>2
  <2> QED BY <2>1 DEF Numbers, Digit
<1>13. Fixed(z) = z
  <2> HIDE DEF z
  <2> QED BY <1>12, PlacedLength DEF Numbers
<1> DEFINE a == i - 1
           k == (n - i) + 1
<1>14. a \in Nat /\ k \in Nat /\ a + k = n /\ k \in 0 .. N /\ k <= n
  BY <1>1
<1>15. Natural(z) /\ \A j \in 1 .. size : At(z, j) = z[j]
  <2> HIDE DEF z
  <2> QED BY <1>12, DigitsOf
<1>16. Low(z, a) = Low(w, a)
  <2>1. ASSUME NEW j \in 1 .. a PROVE At(z, j) = At(w, j)
    <3>1. j \in 1 .. size /\ j \notin i .. (i + n) - 1 /\ j # (i + n) + 1
      BY <1>1
    <3> QED BY <1>3, <1>15, <3>1
  <2> HIDE DEF z, a
  <2> QED BY <1>3, <1>14, <1>15, <2>1, LowSame
<1>17. Shows(row, z, a, k)
  <2>1. ASSUME NEW t \in 1 .. k PROVE At(row, t) = At(z, a + t)
    <3>1. a + t \in 1 .. size /\ a + t \in i .. (i + n) - 1 /\ ((a + t) - i) + 1 = t /\ t \in 1 .. N
      BY <1>1
    <3> QED BY <1>11, <1>15, <3>1
  <2> QED BY <2>1 DEF Shows
<1>18. Shows(v, w, a, k)
  <2>1. ASSUME NEW t \in 1 .. k PROVE At(v, t) = At(w, a + t)
    <3>1. a + t \in 1 .. size /\ (i + t) - 1 = a + t /\ t \in 1 .. n
      BY <1>1
    <3> QED BY <1>3, <1>6, <3>1
  <2> QED BY <2>1 DEF Shows
<1> HIDE DEF z, a, k
<1>19. Low(z, n) = Low(z, a) + Pow(a) * Low(row, k)
  <2>1. Low(z, a + k) = Low(z, a) + Pow(a) * Low(row, k)
    BY <1>11, <1>14, <1>15, <1>17, LowShift
  <2> QED BY <1>14, <2>1
<1>20. Low(w, n) = Low(w, a) + Pow(a) * Low(v, k)
  <2>1. Low(w, a + k) = Low(w, a) + Pow(a) * Low(v, k)
    BY <1>3, <1>7, <1>14, <1>18, LowShift
  <2> QED BY <1>14, <2>1
<1>21. PICK c \in [0 .. N -> Int] : \A j \in 0 .. N : ComboSum(N, 1, v, d, x)[j] + 0 = Low(row, j) + c[j] * Pow(j)
  BY <1>10 DEF Hands
<1>22. PICK g \in Nat : Value(x) = Low(x, k) + Pow(k) * g
  BY <1>14, ValueSplits
<1> DEFINE lw == Low(w, a)
           lv == Low(v, k)
           lr == Low(row, k)
           lx == Low(x, k)
           pa == Pow(a)
           pk == Pow(k)
           ck == c[k]
           h == -(ck + d * g)
<1>23. lw \in Nat /\ lv \in Nat /\ lr \in Nat /\ lx \in Nat
  <2>1. lw \in Nat
    BY <1>3, <1>14, LowIs
  <2>2. lv \in Nat
    BY <1>7, <1>14, LowIs
  <2>3. lr \in Nat
    BY <1>11, <1>14, LowIs
  <2>4. lx \in Nat
    BY <1>3, <1>14, LowIs
  <2> QED BY <2>1, <2>2, <2>3, <2>4
<1>24. pa \in Nat /\ pk \in Nat /\ Pow(n) = pa * pk
  <2>1. pa \in Nat /\ pk \in Nat /\ Pow(a + k) = pa * pk
    BY <1>14, Weights
  <2> QED BY <1>14, <2>1
<1>25. ck \in Int
  BY <1>14, <1>21
<1>26. (1 * lv + d * lx) + 0 = lr + ck * pk
  <2>1. ComboSum(N, 1, v, d, x)[k] = 1 * lv + d * lx
    BY <1>14 DEF ComboSum
  <2> QED BY <1>14, <1>21, <2>1
<1>27. h \in Int
  <2> HIDE DEF ck
  <2>1. d * g \in Int
    BY <1>1
  <2> QED BY <1>25, <2>1
<1> HIDE DEF lw, lv, lr, lx, pa, pk, ck
<1>28. lw + pa * lr = ((lw + pa * lv) + (d * pa) * (lx + pk * g)) + (pa * pk) * h
  <2>1. lr = (lv + d * lx) - ck * pk
    <3> DEFINE t == d * lx
               u == ck * pk
    <3>1. t \in Int /\ u \in Int
      BY <1>1, <1>23, <1>24, <1>25
    <3>2. (1 * lv + t) + 0 = lr + u
      BY <1>26
    <3> HIDE DEF t, u
    <3>3. lr = (lv + t) - u
      BY <1>23, <3>1, <3>2
    <3> QED BY <3>3 DEF t, u
  <2>2. lw + pa * ((lv + d * lx) - ck * pk)
          = ((lw + pa * lv) + (d * pa) * (lx + pk * g)) + (pa * pk) * (-(ck + d * g))
    BY <1>1, <1>23, <1>24, <1>25
  <2> QED BY <2>1, <2>2
<1> HIDE DEF h
<1>29. Low(z, n) = (Low(w, n) + (d * Pow(a)) * Value(x)) + Pow(n) * h
  BY <1>16, <1>19, <1>20, <1>22, <1>24, <1>28 DEF lw, lv, lr, lx, pa, pk
<1> QED BY <1>2, <1>12, <1>13, <1>27, <1>29 DEF a, Congruent

(* The rows of mul, one for each digit of y, and the fold over them.       *)
MulStep(x, y, size, m) == [i \in 1 .. m |-> [w \in Numbers(size) |-> MulRow(w, x, i, y[i])]]

LEMMA MulCarries ==
  ASSUME NEW n \in Nat, NEW x \in Numbers(n), NEW m \in Nat, m <= n, NEW y \in Numbers(m),
         NEW size \in Nat, size = (n + m) + 1
  PROVE  \E c : /\ Carries(c, m, Numbers(size), Zero(size), MulStep(x, y, size, m))
                /\ Mul(x, y) = SetBignum(n, c[m])
<1> DEFINE S == Numbers(size)
           seq == [i \in 1 .. m |-> i]
           step == MulStep(x, y, size, m)
           pick == [s \in Places(m) |-> Max(s)]
           base == Zero(size)
           iter == CHOOSE it : it = [s \in SUBSET (1 .. m) |->
                     IF s = {} THEN base
                     ELSE MulRow(it[s \ {Max(s)}], x, seq[Max(s)], y[seq[Max(s)]])]
<1>1. m \in Nat /\ base \in S
  <2>1. 0 \in Digit
    BY Bases DEF Digit
  <2> QED BY <2>1, SetDigitIs
<1>2. step \in [1 .. m -> [S -> S]]
  <2>1. ASSUME NEW i \in 1 .. m, NEW w \in S PROVE MulRow(w, x, i, y[i]) \in S
    <3>1. i \in 1 .. n /\ i + n <= size
      OBVIOUS
    <3>2. y[i] \in Digit
      BY DigitsOf DEF Digit
    <3> QED BY <3>1, <3>2, MulRowIs
  <2> HIDE DEF S
  <2> QED BY <2>1 DEF MulStep, S
<1>3. Picks(m, pick)
  BY <1>1, FirstOrLast DEF Picks
<1>4. Mul(x, y) = SetBignum(n, iter[1 .. m])
  <2>1. DOMAIN seq = 1 .. m
    OBVIOUS
  <2>2. Len(x) = n /\ Len(y) = m
    BY <1>1, DigitsOf
  <2>3. Zero((Len(x) + Len(y)) + 1) = base
    BY <2>2
  <2> DEFINE l == Len(y)
             seq0 == [i \in 1 .. l |-> i]
             base0 == Zero((Len(x) + l) + 1)
  <2>4. Mul(x, y) = SetBignum(Len(x), FoldLeft(LAMBDA w, i : MulRow(w, x, i, y[i]), base0, seq0))
    BY DEF Mul
  <2>5. l = m
    BY <2>2
  <2> HIDE DEF l
  <2>6. seq0 = seq /\ base0 = base
    BY <2>2, <2>3, <2>5
  <2> HIDE DEF seq0, seq, base0, base, iter
  <2>7. Mul(x, y) = SetBignum(n, FoldLeft(LAMBDA w, i : MulRow(w, x, i, y[i]), base, seq))
    BY <2>2, <2>4, <2>6
  <2>8. FoldLeft(LAMBDA w, i : MulRow(w, x, i, y[i]), base, seq) = iter[DOMAIN seq]
    BY <2>1 DEF FoldLeft, MapThenFoldSet, iter
  <2> QED BY <2>1, <2>7, <2>8
<1> HIDE DEF S, iter, step, base
<1>5. PICK f \in [Places(m) -> S] : Folded(f, m, base, step, pick)
  BY <1>1, <1>2, <1>3, Folding
<1>6. \A s \in Places(m) : s # {} =>
         /\ pick[s] = Max(s) /\ s \ {Max(s)} \in Places(m)
         /\ \A w \in S : step[Max(s)][w] = MulRow(w, x, seq[Max(s)], y[seq[Max(s)]])
  <2> SUFFICES ASSUME NEW s \in Places(m), s # {}
               PROVE  /\ pick[s] = Max(s) /\ s \ {Max(s)} \in Places(m)
                      /\ \A w \in S : step[Max(s)][w] = MulRow(w, x, seq[Max(s)], y[seq[Max(s)]])
    OBVIOUS
  <2>1. Max(s) \in 1 .. m /\ s \ {Max(s)} \in Places(m)
    BY <1>1, FirstOrLast DEF Places
  <2>2. seq[Max(s)] = Max(s)
    BY <2>1
  <2> HIDE DEF seq
  <2>3. \A w \in S : step[Max(s)][w] = MulRow(w, x, Max(s), y[Max(s)])
    BY <2>1 DEF step, MulStep, S
  <2> QED BY <2>1, <2>2, <2>3
<1> HIDE DEF pick, seq
<1>7. f = [s \in SUBSET (1 .. m) |->
             IF s = {} THEN base ELSE MulRow(f[s \ {Max(s)}], x, seq[Max(s)], y[seq[Max(s)]])]
  <2>1. \A s \in Places(m) :
          f[s] = IF s = {} THEN base ELSE MulRow(f[s \ {Max(s)}], x, seq[Max(s)], y[seq[Max(s)]])
    <3> SUFFICES ASSUME NEW s \in Places(m)
                 PROVE  f[s] = IF s = {} THEN base ELSE MulRow(f[s \ {Max(s)}], x, seq[Max(s)], y[seq[Max(s)]])
      OBVIOUS
    <3>1. CASE s = {}
      BY <1>5, <3>1 DEF Folded
    <3>2. CASE s # {}
      <4>1. f[s] = step[Max(s)][f[s \ {Max(s)}]] /\ f[s \ {Max(s)}] \in S
        BY <1>5, <1>6, <3>2 DEF Folded
      <4> QED BY <1>6, <3>2, <4>1
    <3> QED BY <3>1, <3>2
  <2> QED BY <2>1 DEF Places
<1>8. iter = [s \in SUBSET (1 .. m) |->
                IF s = {} THEN base ELSE MulRow(iter[s \ {Max(s)}], x, seq[Max(s)], y[seq[Max(s)]])]
  BY <1>7 DEF iter
<1>9. iter[{}] = base
  <2>1. {} \in SUBSET (1 .. m)
    OBVIOUS
  <2> QED BY <1>8, <2>1
<1>10. Continues(iter, m, S, step, pick)
  <2> SUFFICES ASSUME NEW s \in Places(m), s # {}, iter[s \ {pick[s]}] \in S
               PROVE  iter[s] = step[pick[s]][iter[s \ {pick[s]}]]
    BY DEF Continues
  <2> DEFINE w == iter[s \ {Max(s)}]
  <2>1. pick[s] = Max(s) /\ w \in S
    BY <1>6
  <2>2. iter[s] = MulRow(w, x, seq[Max(s)], y[seq[Max(s)]])
    BY <1>8 DEF Places
  <2> HIDE DEF w
  <2>3. iter[s] = step[Max(s)][w]
    BY <1>6, <2>1, <2>2
  <2> QED BY <2>1, <2>3 DEF w
<1> DEFINE c == [i \in 0 .. m |-> iter[1 .. i]]
<1>11. Carries(c, m, S, base, step)
  <2>1. LastPicks(m, pick)
    BY <1>6 DEF LastPicks
  <2> HIDE DEF c
  <2>2. Carries(Traced(iter, m), m, S, base, step)
    BY <1>1, <1>2, <1>9, <1>10, <2>1, FoldCarries
  <2> QED BY <2>2 DEF c, Traced
<1>12. c[m] = iter[1 .. m]
  BY <1>1
<1> QED BY <1>4, <1>11, <1>12 DEF S, step, base

LEMMA CongruentIs ==
  ASSUME NEW m \in Nat \ {0}, NEW v \in 0 .. m - 1, NEW w \in Int, Congruent(v, w, m)
  PROVE  v = w % m
<1>1. PICK h \in Int : v = w + m * h
  BY DEF Congruent
<1>2. -h \in Int /\ v \in Int /\ w = m * (-h) + v
  <2>1. m * (-h) = -(m * h)
    OBVIOUS
  <2> DEFINE t == m * h
  <2>2. t \in Int /\ v = w + t /\ v \in Int
    BY <1>1
  <2> HIDE DEF t
  <2>3. w = -t + v
    BY <2>2
  <2> QED BY <2>1, <2>2, <2>3 DEF t
<1> DEFINE k == -h
<1> HIDE DEF k
<1>3. k \in Int /\ w = m * k + v
  BY <1>2 DEF k
<1> QED BY <1>3, Unique

(* v_bignum_mul: the product of two numbers of any length, cut to the      *)
(* digits of the first, whatever the rows carry into digits written later. *)
THEOREM MulIs ==
  ASSUME NEW n \in Nat, NEW x \in Numbers(n), NEW m \in Nat, m <= n, NEW y \in Numbers(m)
  PROVE  Mul(x, y) \in Numbers(n) /\ Value(Mul(x, y)) = (Value(x) * Value(y)) % Pow(n)
<1> DEFINE size == (n + m) + 1
           S == Numbers(size)
           step == MulStep(x, y, size, m)
           v == Value(x)
           w == Pow(n)
<1>1. m \in Nat /\ size \in Nat
  OBVIOUS
<1>2. PICK c : Carries(c, m, S, Zero(size), step) /\ Mul(x, y) = SetBignum(n, c[m])
  <2> HIDE DEF size
  <2> QED BY <1>1, MulCarries DEF size
<1>3. v \in Nat /\ w \in Nat \ {0}
  BY NumberValue, Weights
<1>4. Natural(y) /\ \A i \in 1 .. m : y[i] \in Digit /\ y[i] \in Nat /\ At(y, i) = y[i]
  BY <1>1, DigitsOf DEF Digit
<1> HIDE DEF v, w, step
<1>5. \A i \in 0 .. m : c[i] \in S
  BY <1>2 DEF Carries
<1>6. ASSUME NEW i \in 0 .. m - 1 PROVE c[i + 1] = MulRow(c[i], x, i + 1, y[i + 1])
  <2> DEFINE j == i + 1
  <2>1. j \in 1 .. m /\ j - 1 = i /\ i \in 0 .. m
    BY <1>1
  <2> HIDE DEF j
  <2>2. c[j] = step[j][c[j - 1]]
    BY <1>2, <2>1 DEF Carries
  <2>3. c[i] \in Numbers(size)
    BY <1>5, <2>1
  <2>4. step[j][c[i]] = MulRow(c[i], x, j, y[j])
    BY <2>1, <2>3 DEF step, MulStep
  <2> QED BY <2>1, <2>2, <2>4 DEF j
<1> DEFINE P == {i \in 0 .. m : Congruent(Low(c[i], n), v * Low(y, i), w)}
<1>7. P \subseteq 0 .. m /\ 0 \in P
  <2>1. c[0] = Zero(size)
    BY <1>2 DEF Carries
  <2>2. Low(c[0], n) = 0
    <3> HIDE DEF size
    <3>1. \A i \in 1 .. n : At(Zero(size), i) = 0
      BY DEF At, Zero
    <3>2. Zero(size) \in Numbers(size)
      <4>1. 0 \in Digit
        BY Bases DEF Digit
      <4> QED BY <1>1, <4>1, SetDigitIs
    <3>3. Natural(Zero(size))
      BY <1>1, <3>2, DigitsOf
    <3>4. Low(Zero(size), n) = 0
      BY <3>1, <3>3, LowZero
    <3> QED BY <2>1, <3>4
  <2>3. Low(y, 0) = 0
    BY <1>4, LowIs
  <2>4. 0 = v * 0 + w * 0 /\ 0 \in Int
    BY <1>3
  <2>5. Congruent(0, v * 0, w)
    BY <2>4 DEF Congruent
  <2> QED BY <1>1, <2>2, <2>3, <2>5
<1>8. ASSUME NEW i \in 0 .. m - 1, i \in P PROVE i + 1 \in P
  <2> DEFINE j == i + 1
             z == MulRow(c[i], x, j, y[j])
             d == y[j]
             u == Pow(i)
             l == Low(y, i)
             a == Low(c[i], n)
  <2>1. j \in 1 .. n /\ j \in 1 .. m /\ i \in Nat /\ i \in 0 .. m /\ j \in 0 .. m /\ j - 1 = i /\ j + n <= size
    BY <1>1
  <2>2. c[j] = z /\ c[i] \in Numbers(size)
    BY <1>5, <1>6, <2>1
  <2>3. PICK h \in Int : a = v * l + w * h
    BY <1>8 DEF Congruent
  <2> HIDE DEF j, size
  <2>4. Congruent(Low(z, n), a + (d * Pow(j - 1)) * Value(x), Pow(n))
    <3> HIDE DEF d, z, a
    <3>1. d \in Digit
      BY <1>4, <2>1 DEF d
    <3>2. Congruent(Low(MulRow(c[i], x, j, d), n), Low(c[i], n) + (d * Pow(j - 1)) * Value(x), Pow(n))
      BY <1>1, <2>1, <2>2, <3>1, MulRowIs
    <3> QED BY <3>2 DEF z, a, d
  <2>5. PICK g \in Int : Low(z, n) = (a + (d * u) * v) + w * g
    BY <2>1, <2>4 DEF v, w, Congruent
  <2>6. Low(y, j) = l + d * u /\ l \in Nat
    <3>1. Low(y, i + 1) = Low(y, i) + At(y, i + 1) * Pow(i) /\ Low(y, i) \in Nat
      BY <1>4, <2>1, LowIs
    <3>2. At(y, j) = y[j]
      BY <1>4, <2>1
    <3> QED BY <3>1, <3>2 DEF j
  <2>7. d \in Nat /\ u \in Nat
    BY <1>4, <2>1, Weights
  <2> HIDE DEF z, d, u, l, a
  <2>8. Low(z, n) = v * Low(y, j) + w * (h + g)
    <3>1. ((v * l + w * h) + (d * u) * v) + w * g = v * (l + d * u) + w * (h + g)
      BY <1>3, <2>6, <2>7
    <3> QED BY <2>3, <2>5, <2>6, <3>1
  <2>9. h + g \in Int
    OBVIOUS
  <2>10. Congruent(Low(c[j], n), v * Low(y, j), w)
    BY <2>2, <2>8, <2>9 DEF Congruent
  <2> QED BY <2>1, <2>10 DEF j
<1> HIDE DEF P
<1>9. m \in P /\ m \in 0 .. m
  <2>1. m \in 0 .. m
    BY <1>1
  <2> QED BY <1>1, <1>7, <1>8, <2>1, Ascends
<1>10. c[m] \in Numbers(size)
  BY <1>5, <1>9
<1> DEFINE lz == Low(c[m], n)
           vy == Value(y)
<1>11. lz \in 0 .. w - 1
  <2> HIDE DEF size
  <2> QED BY <1>1, <1>10, LowBelow DEF w
<1>12. Low(y, m) = vy /\ vy \in Nat
  <2>1. m >= m
    BY <1>1
  <2> QED BY <1>1, <2>1, NumberValue
<1>13. Congruent(lz, v * vy, w)
  BY <1>9, <1>12 DEF P
<1>14. v * vy \in Int
  <2> HIDE DEF vy
  <2> QED BY <1>3, <1>12
<1> HIDE DEF vy, lz
<1>15. lz = (v * vy) % w
  <2> DEFINE t == v * vy
  <2> HIDE DEF t
  <2>1. t \in Int /\ Congruent(lz, t, w)
    BY <1>13, <1>14 DEF t
  <2>2. lz = t % w
    BY <1>3, <1>11, <2>1, CongruentIs
  <2> QED BY <2>2 DEF t
<1>16. SetBignum(n, c[m]) \in Numbers(n) /\ Value(SetBignum(n, c[m])) = lz
  <2> HIDE DEF size
  <2>1. SetBignum(n, c[m]) \in Numbers(n) /\ Value(SetBignum(n, c[m])) = Value(c[m]) % Pow(n)
    BY <1>1, <1>10, SetBignumIs
  <2>2. Low(c[m], n) = Value(c[m]) % Pow(n)
    BY <1>1, <1>10, LowIsRemainder
  <2> QED BY <2>1, <2>2 DEF lz
<1> QED BY <1>2, <1>15, <1>16 DEF v, w, vy

-----------------------------------------------------------------------------
(* Division.                                                               *)
LEMMA Longer ==
  ASSUME NEW a \in Nat, NEW b \in Nat, a <= b
  PROVE  2 ^ a <= 2 ^ b
<1> DEFINE c == b - a
           u == 2 ^ a
           w == 2 ^ c
<1>1. c \in Nat /\ a + c = b
  OBVIOUS
<1> HIDE DEF c
<1>2. 2 ^ (a + c) = u * w /\ u \in Nat /\ w \in Nat \ {0}
  BY <1>1, AddsUp, Counted
<1> HIDE DEF u, w
<1>3. u * 1 <= u * w
  BY <1>2, Monotonic
<1> QED BY <1>1, <1>2, <1>3 DEF u

LEMMA Unit == 2 ^ 0 = 1 /\ 2 ^ 1 = 2
<1>1. 2 ^ 0 = 1
  <2>1. Pow(0) = 1 /\ BigBits * 0 = 0
    BY Weights, BigBitsAssumption
  <2> QED BY <2>1 DEF Pow
<1>2. 2 ^ (0 + 1) = 2 * 2 ^ 0
  <2>1. 0 \in Nat
    OBVIOUS
  <2> QED BY <2>1, Doubles
<1> QED BY <1>1, <1>2

LEMMA WholeQuotient ==
  ASSUME NEW v \in Int
  PROVE  v \div 1 = v /\ v % 1 = 0
<1>1. v = 1 * v + 0 /\ 0 \in 0 .. 1 - 1 /\ 1 \in Nat \ {0}
  OBVIOUS
<1> QED BY <1>1, Unique

(* A number is moved up by a bit, and a bit comes in at the low end.       *)
Brought(x, low) == LET w == ShiftLeft1(x) IN [w EXCEPT ![1] = @ + low]

LEMMA BroughtIs ==
  ASSUME NEW n \in Nat \ {0}, NEW x \in Numbers(n), NEW low \in {0, 1}
  PROVE  Brought(x, low) \in Numbers(n) /\ Value(Brought(x, low)) = ((2 * Value(x)) % Pow(n)) + low
<1> DEFINE w == ShiftLeft1(x)
           p == Pow(n)
           v == 2 * Value(x)
           r == v % p
<1>1. w \in Numbers(n) /\ Value(w) = r
  <2>1. n \in Nat
    OBVIOUS
  <2> QED BY <2>1, ShiftLeft1Is
<1>2. DOMAIN w = 1 .. n /\ \A i \in 1 .. n : w[i] \in Nat
  <2> HIDE DEF w
  <2> QED BY <1>1, DigitsOf
<1>3. Value(x) \in Nat
  BY NumberValue
<1>4. r \in Nat
  <2>1. p \in Nat \ {0}
    BY Weights
  <2> HIDE DEF p
  <2>2. v \in Int
    BY <1>3
  <2> HIDE DEF v
  <2>3. v % p \in 0 .. p - 1
    BY <2>1, <2>2, Euclid
  <2> QED BY <2>1, <2>3
<1>5. 1 \in 1 .. n
  OBVIOUS
<1>6. CASE low = 0
  <2> HIDE DEF w, r
  <2>1. [w EXCEPT ![1] = @ + 0] = w
    <3>1. w = [i \in 1 .. n |-> w[i]]
      BY <1>1 DEF Numbers
    <3>2. w[1] + 0 = w[1]
      BY <1>2, <1>5
    <3> QED BY <3>1, <3>2
  <2> QED BY <1>1, <1>4, <1>6, <2>1 DEF Brought, w, r
<1>7. CASE low = 1
  <2>1. r % 2 = 0
    <3> DEFINE B == BigBits
               q == v \div p
    <3>1. PICK g \in Nat : p = 2 * g /\ g # 0
      <4>1. n - 1 \in Nat /\ (n - 1) + 1 = n /\ B - 1 \in Nat /\ (B - 1) + 1 = B
        BY BigBitsAssumption
      <4> DEFINE a == 2 ^ (B - 1)
                 b == Pow(n - 1)
      <4>2. Base = 2 * a /\ a \in Nat \ {0}
        <5> DEFINE j == B - 1
        <5>1. j \in Nat /\ j + 1 = B
          BY <4>1
        <5> HIDE DEF j
        <5>2. 2 ^ (j + 1) = 2 * 2 ^ j /\ 2 ^ j \in Nat \ {0}
          BY <5>1, Doubles, Counted
        <5> QED BY <5>1, <5>2 DEF Base, j
      <4>3. p = Base * b /\ b \in Nat \ {0}
        <5> DEFINE j == n - 1
        <5>1. j \in Nat /\ j + 1 = n
          BY <4>1
        <5> HIDE DEF j
        <5>2. Pow(j + 1) = Base * Pow(j) /\ Pow(j) \in Nat \ {0}
          BY <5>1, Weights
        <5> QED BY <5>1, <5>2 DEF j
      <4> HIDE DEF a, b, p
      <4>4. p = 2 * (a * b) /\ a * b \in Nat /\ a * b # 0
        BY <4>2, <4>3
      <4> QED BY <4>4
    <3>2. p \in Nat \ {0} /\ v \in Int
      BY <1>3, Weights
    <3> DEFINE V == Value(x)
    <3> HIDE DEF p
    <3>3. q \in Int /\ v = p * q + r
      <4> HIDE DEF v
      <4> QED BY <3>2, Euclid
    <3> HIDE DEF q, r
    <3>4. r = 2 * (V - g * q)
      <4>1. V \in Int
        BY <1>3
      <4>2. 2 * V = (2 * g) * q + r
        BY <3>1, <3>3
      <4> HIDE DEF V, v
      <4>3. (2 * g) * q = 2 * (g * q) /\ g * q \in Int
        BY <3>3
      <4> DEFINE t == g * q
      <4> HIDE DEF t
      <4>4. 2 * V = 2 * t + r /\ t \in Int
        BY <4>2, <4>3 DEF t
      <4>5. r = 2 * (V - t)
        BY <1>4, <4>1, <4>4
      <4> QED BY <4>5 DEF t
    <3> DEFINE i == V - g * q
    <3>5. i \in Int
      <4>1. V \in Int
        BY <1>3
      <4> HIDE DEF V
      <4> QED BY <3>3, <4>1
    <3> HIDE DEF i
    <3>6. r = 2 * i + 0 /\ 0 \in 0 .. 2 - 1 /\ 2 \in Nat \ {0} /\ r \in Int
      BY <1>4, <3>4, <3>5 DEF i
    <3> QED BY <3>5, <3>6, Unique
  <2> HIDE DEF w, r
  <2>2. ~BitTest(w, 0)
    <3>1. n \in Nat /\ 0 \in Nat
      OBVIOUS
    <3>2. BitTest(w, 0) <=> (r \div 2 ^ 0) % 2 = 1
      BY <1>1, <3>1, BitTestIs
    <3>3. r \div 1 = r
      BY <1>4, WholeQuotient
    <3> QED BY <2>1, <3>2, <3>3, Unit
  <2>3. 0 < n * BigBits
    <3>1. \A a \in Nat \ {0} : n * a > 0
      OBVIOUS
    <3> QED BY <3>1, BigBitsAssumption
  <2>4. 0 \div BigBits + 1 = 1 /\ 0 % BigBits = 0
    <3>1. 0 \div BigBits = 0 /\ 0 % BigBits = 0
      BY BigBitsAssumption
    <3> QED BY <3>1
  <2>5. BitSet(w, 0) = [w EXCEPT ![1] = @ + 1]
    <3>1. Len(w) = n
      BY <1>1, DigitsOf
    <3> DEFINE top == n * BigBits
    <3>2. top \in Int /\ 0 < top
      BY <2>3, BigBitsAssumption
    <3> HIDE DEF top
    <3>3. ~(0 >= top)
      BY <3>2
    <3> QED BY <2>2, <2>4, <3>1, <3>3, Unit DEF BitSet, top
  <2>6. BitSet(w, 0) \in Numbers(n) /\ Value(BitSet(w, 0)) = r + 2 ^ 0
    <3>1. n \in Nat /\ 0 \in Nat
      OBVIOUS
    <3> QED BY <1>1, <2>2, <2>3, <3>1, BitSetIs
  <2> QED BY <1>7, <2>5, <2>6, Unit DEF Brought, w, r
<1> QED BY <1>6, <1>7

Dividend(n) == [q : Numbers(n), work : Numbers(n)]

(* A divisor of more digits than the dividend is left alone when the work  *)
(* is equal to it: gte says no then.                                       *)
LEMMA DivStepNear ==
  ASSUME NEW n \in Nat \ {0}, NEW m \in Nat, NEW y \in Numbers(m), Value(y) < Pow(n),
         NEW s \in Dividend(n), NEW bit \in BOOLEAN
  PROVE  /\ DivStep(y, s, bit) \in Dividend(n)
         /\ \E fit \in {0, 1} :
              /\ fit = 1 => Value(s.work) >= Value(y)
              /\ fit = 0 => Value(s.work) <= Value(y) /\ (n >= m => Value(s.work) < Value(y))
              /\ Value(DivStep(y, s, bit).q) = ((2 * Value(s.q)) % Pow(n)) + fit
              /\ Value(DivStep(y, s, bit).work)
                   = ((2 * (Value(s.work) - fit * Value(y))) % Pow(n)) + (IF bit THEN 1 ELSE 0)
<1> DEFINE fits == Gte(s.work, y)
           low == IF bit THEN 1 ELSE 0
           fit == IF fits THEN 1 ELSE 0
           w == IF fits THEN Sub(s.work, y) ELSE s.work
           z == DivStep(y, s, bit)
           vw == Value(s.work)
           vy == Value(y)
           p == Pow(n)
<1>1. s.q \in Numbers(n) /\ s.work \in Numbers(n) /\ n \in Nat
  BY DEF Dividend
<1>2. fits <=> vw > vy \/ (vw = vy /\ (vw = 0 \/ n >= m))
  BY <1>1, GteIs
<1>3. vw \in Nat /\ vy \in Nat /\ vw \in 0 .. p - 1 /\ p \in Nat \ {0}
  BY <1>1, NumberValue, Weights
<1>4. /\ fits => vw >= vy
      /\ ~fits => vw <= vy /\ (n >= m => vw < vy)
  <2> HIDE DEF fits, vw, vy
  <2> QED BY <1>1, <1>2, <1>3
<1>5. w \in Numbers(n) /\ Value(w) = vw - fit * vy
  <2>1. Sub(s.work, y) \in Numbers(n) /\ Value(Sub(s.work, y)) = (vw - vy) % p
    BY <1>1, AddLonger
  <2>2. CASE fits
    <3> DEFINE d == vw - vy
    <3>1. d \in 0 .. p - 1 /\ d = vw - 1 * vy
      <4> HIDE DEF fits, vw, vy, p
      <4> QED BY <1>3, <1>4, <2>2
    <3> HIDE DEF d, p
    <3>2. d % p = d
      BY <1>3, <3>1, Remains
    <3> QED BY <2>1, <2>2, <3>1, <3>2 DEF d, p
  <2>3. CASE ~fits
    <3>1. vw = vw - 0 * vy
      <4> HIDE DEF vw, vy
      <4> QED BY <1>3
    <3> QED BY <1>1, <2>3, <3>1
  <2> QED BY <2>2, <2>3
<1>6. z.work = Brought(w, low)
  BY DEF DivStep, Brought
<1>7. z.q = Brought(s.q, fit)
  <2> DEFINE u == ShiftLeft1(s.q)
  <2>1. z.q = IF fits THEN [u EXCEPT ![1] = @ + 1] ELSE u
    BY DEF DivStep
  <2>2. u \in Numbers(n)
    BY <1>1, ShiftLeft1Is
  <2> HIDE DEF u
  <2>3. [u EXCEPT ![1] = @ + 0] = u
    <3>1. u = [i \in 1 .. n |-> u[i]]
      BY <2>2 DEF Numbers
    <3>2. u[1] \in Nat /\ 1 \in 1 .. n
      <4>1. \A i \in 1 .. n : u[i] \in Nat
        BY <2>2, DigitsOf
      <4>2. 1 \in 1 .. n
        BY <1>1
      <4> QED BY <4>1, <4>2
    <3>3. u[1] + 0 = u[1]
      BY <3>2
    <3> QED BY <3>1, <3>3
  <2> QED BY <2>1, <2>3 DEF Brought, u
<1>8. z = [q |-> z.q, work |-> z.work]
  BY DEF DivStep
<1>9. low \in {0, 1} /\ fit \in {0, 1}
  OBVIOUS
<1> HIDE DEF low, fit, w, z, fits
<1>10. z.work \in Numbers(n) /\ Value(z.work) = ((2 * Value(w)) % p) + low
  BY <1>1, <1>5, <1>6, <1>9, BroughtIs
<1>11. z.q \in Numbers(n) /\ Value(z.q) = ((2 * Value(s.q)) % p) + fit
  BY <1>1, <1>7, <1>9, BroughtIs
<1>12. z \in Dividend(n)
  BY <1>8, <1>10, <1>11 DEF Dividend
<1>13. /\ fit = 1 => vw >= vy
       /\ fit = 0 => vw <= vy /\ (n >= m => vw < vy)
  BY <1>4 DEF fit
<1> QED BY <1>5, <1>9, <1>10, <1>11, <1>12, <1>13 DEF low, z

LEMMA DivStepIs ==
  ASSUME NEW n \in Nat \ {0}, NEW m \in Nat, m <= n, NEW y \in Numbers(m), NEW s \in Dividend(n), NEW bit \in BOOLEAN
  PROVE  /\ DivStep(y, s, bit) \in Dividend(n)
         /\ \E fit \in {0, 1} :
              /\ fit = 1 <=> Value(s.work) >= Value(y)
              /\ Value(DivStep(y, s, bit).q) = ((2 * Value(s.q)) % Pow(n)) + fit
              /\ Value(DivStep(y, s, bit).work)
                   = ((2 * (Value(s.work) - fit * Value(y))) % Pow(n)) + (IF bit THEN 1 ELSE 0)
<1>1. n \in Nat \ {0} /\ n >= m /\ Value(y) < Pow(n)
  BY Shorter
<1>2. Value(s.work) \in Nat /\ Value(y) \in Nat
  BY NumberValue DEF Dividend
<1>3. DivStep(y, s, bit) \in Dividend(n)
  BY <1>1, DivStepNear
<1>4. PICK fit \in {0, 1} :
        /\ fit = 1 => Value(s.work) >= Value(y)
        /\ fit = 0 => Value(s.work) <= Value(y) /\ (n >= m => Value(s.work) < Value(y))
        /\ Value(DivStep(y, s, bit).q) = ((2 * Value(s.q)) % Pow(n)) + fit
        /\ Value(DivStep(y, s, bit).work)
             = ((2 * (Value(s.work) - fit * Value(y))) % Pow(n)) + (IF bit THEN 1 ELSE 0)
  BY <1>1, DivStepNear
<1> DEFINE vw == Value(s.work)
           vy == Value(y)
<1>5. fit = 1 <=> vw >= vy
  <2>1. (fit = 1 => vw >= vy) /\ (fit = 0 => vw < vy) /\ vw \in Nat /\ vy \in Nat
    BY <1>1, <1>2, <1>4
  <2> HIDE DEF vw, vy
  <2> QED BY <2>1
<1> QED BY <1>3, <1>4, <1>5

(* The steps of div, one for each bit of the quotient, and the fold.       *)
DivideStep(x, y, n, first, bits) ==
  [i \in 1 .. bits |-> [s \in Dividend(n) |-> DivStep(y, s, BitTest(x, first - i))]]

LEMMA DivCarries ==
  ASSUME NEW n \in Nat \ {0}, NEW x \in Numbers(n), NEW m \in Nat, NEW y \in Numbers(m), Value(y) < Pow(n), NEW rem,
         NEW first \in Nat, NEW bits \in Nat, first = BitMsb(x) - BitMsb(y), bits = first + 1, BitMsb(y) >= 0,
         NEW part, part = SetPart(n, x, BitMsb(x), BitMsb(y) + 1), part \in Numbers(n)
  PROVE  \E c : /\ Carries(c, bits, Dividend(n), [q |-> Zero(n), work |-> part], DivideStep(x, y, n, first, bits))
                /\ Div(x, y, rem).x = c[bits].q
                /\ Div(x, y, rem).rem = SetBignum(Len(rem), ShiftRight(c[bits].work, 1))
<1> DEFINE S == Dividend(n)
           seq == [i \in 1 .. bits |-> i]
           step == DivideStep(x, y, n, first, bits)
           pick == [s \in Places(bits) |-> Max(s)]
           base == [q |-> Zero(n), work |-> part]
           iter == CHOOSE it : it = [s \in SUBSET (1 .. bits) |->
                     IF s = {} THEN base
                     ELSE DivStep(y, it[s \ {Max(s)}], BitTest(x, first - seq[Max(s)]))]
<1>1. base \in S
  <2>1. 0 \in Digit
    BY Bases DEF Digit
  <2>2. Zero(n) \in Numbers(n)
    BY <2>1, SetDigitIs
  <2> QED BY <2>2 DEF Dividend
<1>2. step \in [1 .. bits -> [S -> S]]
  <2>1. ASSUME NEW i \in 1 .. bits, NEW s \in S PROVE DivStep(y, s, BitTest(x, first - i)) \in S
    <3> DEFINE b == BitTest(x, first - i)
    <3>1. b \in BOOLEAN
      BY DEF BitTest
    <3> HIDE DEF b
    <3>2. DivStep(y, s, b) \in Dividend(n)
      BY <3>1, DivStepNear
    <3> QED BY <3>2 DEF b
  <2> HIDE DEF S
  <2> QED BY <2>1 DEF DivideStep, S
<1>3. Picks(bits, pick)
  BY FirstOrLast DEF Picks
<1>4. /\ Div(x, y, rem).x = iter[1 .. bits].q
      /\ Div(x, y, rem).rem = SetBignum(Len(rem), ShiftRight(iter[1 .. bits].work, 1))
  <2> DEFINE a == BitMsb(x)
             b == BitMsb(y)
             l == Len(x)
             base0 == [q |-> Zero(l), work |-> SetPart(l, x, a, b + 1)]
             seq0 == [i \in 1 .. (a - b) + 1 |-> i]
             iter0 == CHOOSE it : it = [s \in SUBSET (1 .. (a - b) + 1) |->
                     IF s = {} THEN base0
                     ELSE DivStep(y, it[s \ {Max(s)}], BitTest(x, (a - b) - seq0[Max(s)]))]
  <2>1. DOMAIN seq0 = 1 .. (a - b) + 1
    OBVIOUS
  <2>2. l = n /\ a \in Int /\ b \in Int
    BY DigitsOf, BitMsbIs
  <2>3. a - b = first /\ (a - b) + 1 = bits /\ ~(b > a) /\ ~(b < 0)
    BY <2>2
  <2>4. ~(BitMsb(y) > BitMsb(x)) /\ ~(BitMsb(y) < 0)
    BY <2>3
  <2> HIDE DEF base0
  <2>5. /\ Div(x, y, rem).x = iter0[1 .. (a - b) + 1].q
        /\ Div(x, y, rem).rem = SetBignum(Len(rem), ShiftRight(iter0[1 .. (a - b) + 1].work, 1))
    BY <2>1, <2>4 DEF Div, FoldLeft, MapThenFoldSet, base0
  <2>6. base0 = base
    BY <2>2 DEF base0
  <2> HIDE DEF a, b, base
  <2>7. seq0 = seq
    BY <2>3
  <2> HIDE DEF seq0, seq
  <2>8. iter0 = iter
    BY <2>3, <2>6, <2>7
  <2> HIDE DEF iter0, iter
  <2> QED BY <2>3, <2>5, <2>8
<1> HIDE DEF S, iter, step, base
<1>5. PICK f \in [Places(bits) -> S] : Folded(f, bits, base, step, pick)
  <2>1. bits \in Nat
    OBVIOUS
  <2> QED BY ONLY <1>1, <1>2, <1>3, <2>1, Folding
<1>6. \A s \in Places(bits) : s # {} =>
         /\ pick[s] = Max(s) /\ s \ {Max(s)} \in Places(bits)
         /\ \A w \in S : step[Max(s)][w] = DivStep(y, w, BitTest(x, first - seq[Max(s)]))
  <2> SUFFICES ASSUME NEW s \in Places(bits), s # {}
               PROVE  /\ pick[s] = Max(s) /\ s \ {Max(s)} \in Places(bits)
                      /\ \A w \in S : step[Max(s)][w] = DivStep(y, w, BitTest(x, first - seq[Max(s)]))
    OBVIOUS
  <2>1. Max(s) \in 1 .. bits /\ s \ {Max(s)} \in Places(bits)
    BY FirstOrLast DEF Places
  <2>2. seq[Max(s)] = Max(s)
    BY <2>1
  <2> HIDE DEF seq
  <2>3. \A w \in S : step[Max(s)][w] = DivStep(y, w, BitTest(x, first - Max(s)))
    BY <2>1 DEF step, DivideStep, S
  <2> QED BY <2>1, <2>2, <2>3
<1> HIDE DEF pick, seq
<1>7. f = [s \in SUBSET (1 .. bits) |->
             IF s = {} THEN base ELSE DivStep(y, f[s \ {Max(s)}], BitTest(x, first - seq[Max(s)]))]
  <2>1. \A s \in Places(bits) :
          f[s] = IF s = {} THEN base ELSE DivStep(y, f[s \ {Max(s)}], BitTest(x, first - seq[Max(s)]))
    <3> SUFFICES ASSUME NEW s \in Places(bits)
                 PROVE  f[s] = IF s = {} THEN base ELSE DivStep(y, f[s \ {Max(s)}], BitTest(x, first - seq[Max(s)]))
      OBVIOUS
    <3>1. CASE s = {}
      BY <1>5, <3>1 DEF Folded
    <3>2. CASE s # {}
      <4>1. f[s] = step[Max(s)][f[s \ {Max(s)}]] /\ f[s \ {Max(s)}] \in S
        BY <1>5, <1>6, <3>2 DEF Folded
      <4> QED BY <1>6, <3>2, <4>1
    <3> QED BY <3>1, <3>2
  <2> QED BY <2>1 DEF Places
<1>8. iter = [s \in SUBSET (1 .. bits) |->
                IF s = {} THEN base ELSE DivStep(y, iter[s \ {Max(s)}], BitTest(x, first - seq[Max(s)]))]
  BY <1>7 DEF iter
<1>9. iter[{}] = base
  <2>1. {} \in SUBSET (1 .. bits)
    OBVIOUS
  <2> QED BY <1>8, <2>1
<1>10. Continues(iter, bits, S, step, pick)
  <2> SUFFICES ASSUME NEW s \in Places(bits), s # {}, iter[s \ {pick[s]}] \in S
               PROVE  iter[s] = step[pick[s]][iter[s \ {pick[s]}]]
    BY DEF Continues
  <2> DEFINE w == iter[s \ {Max(s)}]
  <2>1. pick[s] = Max(s) /\ w \in S
    BY <1>6
  <2>2. iter[s] = DivStep(y, w, BitTest(x, first - seq[Max(s)]))
    BY <1>8 DEF Places
  <2> HIDE DEF w
  <2>3. iter[s] = step[Max(s)][w]
    BY <1>6, <2>1, <2>2
  <2> QED BY <2>1, <2>3 DEF w
<1> DEFINE c == [i \in 0 .. bits |-> iter[1 .. i]]
<1>11. Carries(c, bits, S, base, step)
  <2>1. LastPicks(bits, pick)
    BY <1>6 DEF LastPicks
  <2> HIDE DEF c
  <2>2. Carries(Traced(iter, bits), bits, S, base, step)
    BY <1>1, <1>2, <1>9, <1>10, <2>1, FoldCarries
  <2> QED BY <2>2 DEF c, Traced
<1>12. c[bits] = iter[1 .. bits]
  OBVIOUS
<1> QED BY <1>4, <1>11, <1>12 DEF S, step, base

(* Bits of twice x: those of x moved up, and a zero that comes in below.   *)
LEMMA DoubledBit ==
  ASSUME NEW n \in Nat, NEW x \in Numbers(n), NEW j \in Nat
  PROVE  BitTest(x, j - 1) <=> ((2 * Value(x)) \div 2 ^ j) % 2 = 1
<1> DEFINE v == Value(x)
           t == 2 * v
<1>1. v \in Nat /\ t \in Nat
  <2>1. v \in Nat
    BY NumberValue
  <2> HIDE DEF v
  <2> QED BY <2>1
<1>2. CASE j = 0
  <2>1. ~BitTest(x, j - 1)
    <3>1. j - 1 \notin 0 .. Len(x) * BigBits - 1
      BY <1>2
    <3> QED BY <3>1 DEF BitTest
  <2>2. t \div 1 = t
    BY <1>1, WholeQuotient
  <2>3. t % 2 = 0
    <3> HIDE DEF v
    <3>1. t = 2 * v + 0 /\ 0 \in 0 .. 2 - 1 /\ 2 \in Nat \ {0} /\ t \in Int /\ v \in Int
      BY <1>1
    <3> HIDE DEF t
    <3> QED BY <3>1, Unique
  <2> QED BY <1>2, <2>1, <2>2, <2>3, Unit
<1>3. CASE j # 0
  <2> DEFINE k == j - 1
             u == 2 ^ k
  <2>1. k \in Nat /\ k + 1 = j
    BY <1>3
  <2> HIDE DEF k
  <2>2. BitTest(x, k) <=> (v \div u) % 2 = 1
    BY <2>1, BitTestIs
  <2>3. u \in Nat \ {0} /\ 2 ^ (k + 1) = 2 * u
    BY <2>1, Counted, Doubles
  <2> HIDE DEF v, u
  <2>4. (t \div 2) \div u = t \div (2 * u)
    <3>1. 2 \in Nat \ {0}
      OBVIOUS
    <3> HIDE DEF t
    <3> QED BY <1>1, <2>3, <3>1, Nested
  <2>5. t \div 2 = v
    <3>1. t = 2 * v + 0 /\ 0 \in 0 .. 2 - 1 /\ 2 \in Nat \ {0} /\ t \in Int /\ v \in Int
      BY <1>1
    <3> HIDE DEF t
    <3> QED BY <3>1, Unique
  <2> QED BY <2>1, <2>2, <2>3, <2>4, <2>5 DEF k, v
<1> QED BY <1>2, <1>3

(* The bits of twice the dividend that are brought down make up quotient   *)
(* and rest, the rest below twice the divisor.                             *)
Brings(a, y, q, w) == a = (2 * y) * q + w /\ w \in 0 .. 2 * y - 1

(* One step, on the values of quotient and rest.                           *)
Steps(y, p, q, w, low, q2, w2) ==
  \E fit \in {0, 1} :
    /\ fit = 1 <=> w >= y
    /\ q2 = ((2 * q) % p) + fit
    /\ w2 = ((2 * (w - fit * y)) % p) + low

LEMMA DivideStepIs ==
  ASSUME NEW y \in Nat \ {0}, NEW p \in Nat \ {0}, 2 * y <= p, NEW q \in Nat, NEW w \in Nat,
         NEW low \in {0, 1}, NEW q2, NEW w2, Steps(y, p, q, w, low, q2, w2),
         NEW a \in 0 .. p - 1, Brings(a, y, q, w)
  PROVE  Brings(2 * a + low, y, q2, w2) /\ q2 \in Nat
<1>1. PICK fit \in {0, 1} : /\ fit = 1 <=> w >= y
                            /\ q2 = ((2 * q) % p) + fit
                            /\ w2 = ((2 * (w - fit * y)) % p) + low
  BY DEF Steps
<1>2. a = (2 * y) * q + w /\ w <= 2 * y - 1
  BY DEF Brings
<1> DEFINE d == w - fit * y
           dd == 2 * d
           qq == 2 * q
<1>3. d \in 0 .. y - 1
  <2>1. CASE fit = 1
    <3>1. d = w - y
      BY <2>1
    <3> QED BY <1>1, <1>2, <2>1, <3>1
  <2>2. CASE fit = 0
    <3>1. d = w
      BY <2>2
    <3> QED BY <1>1, <1>2, <2>2, <3>1
  <2> QED BY <2>1, <2>2
<1>4. dd \in 0 .. 2 * y - 2 /\ dd \in 0 .. p - 1
  <2> HIDE DEF d
  <2> QED BY <1>3
<1>5. qq \in 0 .. p - 1
  <2>1. qq * 1 <= qq * y
    <3>1. qq \in Nat /\ 1 <= y
      OBVIOUS
    <3> HIDE DEF qq
    <3> QED BY <3>1, Monotonic
  <2>2. qq * y = (2 * y) * q
    OBVIOUS
  <2> DEFINE t == (2 * y) * q
  <2>3. t \in Nat /\ a = t + w /\ qq <= t /\ qq \in Nat
    BY <1>2, <2>1, <2>2
  <2> HIDE DEF t, qq
  <2> QED BY <2>3
<1>6. dd % p = dd /\ qq % p = qq
  <2> HIDE DEF dd, qq
  <2> QED BY <1>4, <1>5, Remains
<1>7. q2 = qq + fit /\ w2 = dd + low
  BY <1>1, <1>6
<1>8. w2 \in 0 .. 2 * y - 1 /\ q2 \in Nat
  <2> HIDE DEF dd
  <2>1. w2 \in 0 .. 2 * y - 1
    BY <1>4, <1>7
  <2> QED BY <1>7, <2>1
<1>9. 2 * a + low = (2 * y) * q2 + w2
  <2>1. 2 * ((2 * y) * q + w) + low = (2 * y) * (2 * q + fit) + (2 * (w - fit * y) + low)
    BY <1>1
  <2> QED BY <1>2, <1>7, <2>1
<1> QED BY <1>8, <1>9 DEF Brings

LEMMA QuotientBelow ==
  ASSUME NEW v \in Nat, NEW t \in Nat \ {0}
  PROVE  v \div t \in Nat /\ v \div t <= v
<1> DEFINE w == v \div t
           r == v % t
<1>1. w \in Int /\ r \in 0 .. t - 1 /\ v = t * w + r
  BY Euclid
<1>2. w \in Nat
  OBVIOUS
<1> HIDE DEF w, r
<1>3. w * 1 <= w * t
  <2>1. 1 <= t /\ 1 \in Int /\ t \in Int
    OBVIOUS
  <2> QED BY <1>2, <2>1, Monotonic
<1> DEFINE y == w * t
<1>4. y = t * w /\ y \in Nat
  BY <1>2
<1>5. v = y + r /\ w <= y /\ y \in Nat /\ r \in Nat
  BY <1>1, <1>2, <1>3, <1>4
<1> HIDE DEF y
<1>6. w <= v
  BY <1>2, <1>5
<1> QED BY <1>2, <1>6 DEF w

(* A number of fewer digits has a bit to spare. *)
LEMMA SpareBit ==
  ASSUME NEW n \in Nat, NEW m \in Nat, m < n, NEW y \in Numbers(m)
  PROVE  2 * Value(y) <= Pow(n)
<1> DEFINE vy == Value(y)
           p == Pow(n)
<1>0. vy \in Nat /\ p \in Nat \ {0}
  BY NumberValue, Weights
<1> DEFINE k == n - 1
           u == Pow(k)
<1>1. k \in Nat /\ k + 1 = n /\ m <= k
  OBVIOUS
<1> HIDE DEF k
<1>2. Pow(m) <= u
  BY <1>1, Heavier
<1>3. u \in Nat \ {0} /\ p = Base * u
  BY <1>1, Weights
<1>4. 2 <= Base /\ Base \in Nat
  <2>1. Base \in Nat \ {0} /\ Base \div 2 \in Nat \ {0}
    BY Bases
  <2>2. Base # 1
    BY <2>1
  <2> QED BY <2>1, <2>2
<1>5. vy < Pow(m) /\ Pow(m) \in Nat
  <2>1. vy \in 0 .. Pow(m) - 1 /\ Pow(m) \in Nat
    BY NumberValue, Weights
  <2> HIDE DEF vy
  <2> QED BY <2>1
<1> HIDE DEF u, vy, p
<1>6. u * 2 <= u * Base
  BY <1>3, <1>4, Monotonic
<1>7. u * Base = Base * u
  BY <1>3, <1>4
<1>8. 2 * vy <= u * 2
  BY <1>0, <1>2, <1>3, <1>5
<1> DEFINE w == u * Base
<1>9. w = p /\ u * 2 <= w
  BY <1>3, <1>6, <1>7
<1> HIDE DEF w
<1>10. 2 * vy <= p
  BY <1>0, <1>3, <1>8, <1>9
<1> QED BY <1>10 DEF vy, p

LEMMA DivLoop ==
  ASSUME NEW n \in Nat \ {0}, NEW x \in Numbers(n), NEW m \in Nat, m <= n, NEW y \in Numbers(m), Value(y) # 0,
         2 * Value(y) <= Pow(n),
         NEW first \in Nat, NEW bits \in Nat, bits = first + 1,
         NEW base, base.q = Zero(n), Brings((2 * Value(x)) \div 2 ^ bits, Value(y), 0, Value(base.work)),
         NEW c, Carries(c, bits, Dividend(n), base, DivideStep(x, y, n, first, bits))
  PROVE  Brings(2 * Value(x), Value(y), Value(c[bits].q), Value(c[bits].work))
<1> DEFINE v == Value(x)
           vy == Value(y)
           p == Pow(n)
           step == DivideStep(x, y, n, first, bits)
           t == 2 * v
           P == {k \in 0 .. bits : Brings(t \div 2 ^ (bits - k), vy, Value(c[k].q), Value(c[k].work))}
<1>1. v \in Nat /\ v \in 0 .. p - 1 /\ vy \in Nat \ {0} /\ p \in Nat \ {0}
  BY NumberValue, Weights
<1>2. 2 * vy <= p
  OBVIOUS
<1> HIDE DEF v, vy, p, step
<1>3. t \in Nat
  BY <1>1
<1>4. \A k \in 0 .. bits : c[k] \in Dividend(n)
  BY DEF Carries
<1>5. \A k \in 0 .. bits : Value(c[k].q) \in Nat /\ Value(c[k].work) \in Nat
  <2>1. \A k \in 0 .. bits : c[k].q \in Numbers(n) /\ c[k].work \in Numbers(n)
    BY <1>4 DEF Dividend
  <2> QED BY <2>1, NumberValue
<1> HIDE DEF t
<1>6. P \subseteq 0 .. bits /\ 0 \in P
  <2>1. c[0] = base /\ bits - 0 = bits
    BY DEF Carries
  <2>2. Value(Zero(n)) = 0
    <3>1. 0 \in Digit
      BY Bases DEF Digit
    <3> QED BY <3>1, SetDigitIs
  <2> QED BY <2>1, <2>2 DEF t, v, vy
<1>7. ASSUME NEW k \in 0 .. bits - 1, k \in P PROVE k + 1 \in P
  <2> DEFINE i == k + 1
             j == first - k
             a == t \div 2 ^ (j + 1)
             bit == BitTest(x, j - 1)
             low == IF bit THEN 1 ELSE 0
             q == Value(c[k].q)
             w == Value(c[k].work)
             q2 == Value(c[i].q)
             w2 == Value(c[i].work)
  <2>1. i \in 1 .. bits /\ i - 1 = k /\ j \in Nat /\ j + 1 = bits - k /\ j = bits - i /\ first - i = j - 1
        /\ k \in 0 .. bits /\ i \in 0 .. bits
    OBVIOUS
  <2>2. Brings(a, vy, q, w)
    BY <1>7, <2>1
  <2> HIDE DEF i, j
  <2>3. c[i] = DivStep(y, c[k], bit)
    <3>1. c[i] = step[i][c[i - 1]]
      BY <2>1 DEF Carries, step
    <3>2. c[k] \in Dividend(n)
      BY <1>4, <2>1
    <3>3. step[i][c[k]] = DivStep(y, c[k], BitTest(x, first - i))
      BY <2>1, <3>2 DEF step, DivideStep
    <3> QED BY <2>1, <3>1, <3>3
  <2>4. low \in {0, 1} /\ bit \in BOOLEAN
    BY DEF BitTest
  <2>5. Steps(vy, p, q, w, low, q2, w2)
    <3> HIDE DEF bit
    <3>1. c[k] \in Dividend(n)
      BY <1>4, <2>1
    <3>2. \E fit \in {0, 1} :
              /\ fit = 1 <=> Value(c[k].work) >= Value(y)
              /\ Value(DivStep(y, c[k], bit).q) = ((2 * Value(c[k].q)) % Pow(n)) + fit
              /\ Value(DivStep(y, c[k], bit).work)
                   = ((2 * (Value(c[k].work) - fit * Value(y))) % Pow(n)) + (IF bit THEN 1 ELSE 0)
      BY <2>4, <3>1, DivStepIs
    <3> QED BY <2>3, <3>2 DEF Steps, vy, p
  <2>6. q \in Nat /\ w \in Nat
    BY <1>5, <2>1
  <2>7. a \in 0 .. p - 1
    <3> DEFINE u == 2 ^ j
    <3>1. u \in Nat \ {0} /\ 2 ^ (j + 1) = 2 * u
      BY <2>1, Counted, Doubles
    <3> HIDE DEF u
    <3>2. (t \div 2) \div u = t \div (2 * u)
      <4>1. 2 \in Nat \ {0}
        OBVIOUS
      <4> QED BY <1>3, <3>1, <4>1, Nested
    <3>3. t \div 2 = v
      <4>1. t = 2 * v + 0 /\ 0 \in 0 .. 2 - 1 /\ 2 \in Nat \ {0} /\ t \in Int /\ v \in Int
        BY <1>1, <1>3 DEF t
      <4> QED BY <4>1, Unique
    <3>4. v \div u \in Nat /\ v \div u <= v
      BY <1>1, <3>1, QuotientBelow
    <3>5. a = v \div u
      BY <3>1, <3>2, <3>3
    <3> HIDE DEF a
    <3> QED BY <1>1, <3>4, <3>5
  <2>8. 2 * a + low = t \div 2 ^ j
    <3> DEFINE b == t \div 2 ^ j
    <3>1. b % 2 \in {0, 1} /\ b = 2 * a + (b % 2)
      BY <1>3, <2>1, NextBit
    <3>2. bit <=> b % 2 = 1
      BY <2>1, DoubledBit DEF t, v
    <3>3. low = b % 2
      <4> HIDE DEF b, bit
      <4> QED BY <3>1, <3>2
    <3> QED BY <3>1, <3>3
  <2> HIDE DEF a, low, q, w, q2, w2, bit, P
  <2>9. Brings(2 * a + low, vy, q2, w2)
    BY <1>1, <1>2, <2>2, <2>4, <2>5, <2>6, <2>7, DivideStepIs
  <2>10. Brings(t \div 2 ^ (bits - i), vy, Value(c[i].q), Value(c[i].work))
    BY <2>1, <2>8, <2>9 DEF q2, w2
  <2> QED BY <2>1, <2>10 DEF P, i
<1> HIDE DEF P
<1>8. bits \in P
  <2>1. bits \in 0 .. bits
    OBVIOUS
  <2> QED BY <1>6, <1>7, <2>1, Ascends
<1>9. bits - bits = 0 /\ t \div 1 = t
  BY <1>3, WholeQuotient
<1>10. Brings(t \div 2 ^ 0, vy, Value(c[bits].q), Value(c[bits].work))
  BY <1>8, <1>9 DEF P
<1> QED BY <1>9, <1>10, Unit DEF t, v, vy

LEMMA HalfRest ==
  ASSUME NEW v \in Nat, NEW y \in Nat \ {0}, NEW q \in Nat, NEW w \in Nat, Brings(2 * v, y, q, w)
  PROVE  v \div y = q /\ v % y = w \div 2
<1> DEFINE t == y * q
           r == v - t
<1>1. 2 * v = (2 * y) * q + w /\ w \in 0 .. 2 * y - 1
  BY DEF Brings
<1>2. (2 * y) * q = 2 * t /\ t \in Nat
  OBVIOUS
<1> HIDE DEF t
<1>3. w = 2 * r /\ r \in Int
  BY <1>1, <1>2
<1>4. r \in 0 .. y - 1
  <2> HIDE DEF r
  <2> QED BY <1>1, <1>3
<1>5. v = t + r
  BY <1>2
<1> HIDE DEF r
<1>6. w \div 2 = r
  <2>1. w = 2 * r + 0 /\ 0 \in 0 .. 2 - 1 /\ 2 \in Nat \ {0} /\ w \in Int
    BY <1>3
  <2> QED BY <1>3, <2>1, Unique
<1>7. v \div y = q /\ v % y = r
  <2>1. v = y * q + r /\ v \in Int /\ q \in Int
    BY <1>5 DEF t
  <2> QED BY <1>4, <2>1, Unique
<1> QED BY <1>6, <1>7

LastStep(y, s, z) == \E bit \in BOOLEAN : ~bit /\ z = DivStep(y, s, bit)

(* A divisor with the top bit of the dividend is subtracted at most once.  *)
LEMMA DivOnce ==
  ASSUME NEW n \in Nat, n # 0, NEW x \in Numbers(n), NEW m \in Nat, m <= n, NEW y \in Numbers(m),
         2 * Value(y) > Pow(n),
         NEW s \in Dividend(n), Value(s.q) = 0, Value(s.work) = Value(x),
         NEW z, LastStep(y, s, z)
  PROVE  /\ Value(x) \div Value(y) = Value(z.q)
         /\ Value(x) >= Value(y) \/ 2 * Value(x) < Pow(n) => Value(x) % Value(y) = Value(z.work) \div 2
<1> DEFINE v == Value(x)
           vy == Value(y)
           p == Pow(n)
           zq == Value(z.q)
           zw == Value(z.work)
<1>1. v \in 0 .. p - 1 /\ vy \in Nat /\ p \in Nat \ {0} /\ vy < p
  BY NumberValue, Weights, Shorter
<1>2. PICK fit \in {0, 1} :
        /\ fit = 1 <=> v >= vy
        /\ zq = ((2 * 0) % p) + fit
        /\ zw = ((2 * (v - fit * vy)) % p) + 0
  <2>6. PICK bit \in BOOLEAN : ~bit /\ z = DivStep(y, s, bit)
    BY DEF LastStep
  <2>1. bit \in BOOLEAN /\ n \in Nat \ {0}
    OBVIOUS
  <2> DEFINE t == DivStep(y, s, bit)
  <2>4. \E fit \in {0, 1} :
          /\ fit = 1 <=> Value(s.work) >= Value(y)
          /\ Value(t.q) = ((2 * Value(s.q)) % Pow(n)) + fit
          /\ Value(t.work) = ((2 * (Value(s.work) - fit * Value(y))) % Pow(n)) + (IF bit THEN 1 ELSE 0)
    BY <2>1, DivStepIs
  <2>5. z = t
    BY <2>6
  <2> HIDE DEF t
  <2>2. \E fit \in {0, 1} :
          /\ fit = 1 <=> Value(s.work) >= vy
          /\ zq = ((2 * Value(s.q)) % p) + fit
          /\ zw = ((2 * (Value(s.work) - fit * vy)) % p) + (IF bit THEN 1 ELSE 0)
    BY <2>4, <2>5
  <2>3. Value(s.work) = v /\ Value(s.q) = 0
    OBVIOUS
  <2> HIDE DEF v, vy, p, zq, zw
  <2> QED BY <2>2, <2>3, <2>6
<1>3. 2 * vy > p
  OBVIOUS
<1> HIDE DEF v, vy, p, zq, zw
<1>4. (2 * 0) % p = 0
  <2>1. 2 * 0 = 0 /\ 0 \in 0 .. p - 1
    BY <1>1
  <2> QED BY <1>1, <2>1, Remains
<1>5. CASE v >= vy
  <2> DEFINE d == v - vy
             dd == 2 * d
  <2>1. fit = 1 /\ v - fit * vy = d
    BY <1>1, <1>2, <1>5
  <2>2. dd \in 0 .. p - 1 /\ d \in 0 .. vy - 1 /\ dd \in Int /\ d \in Int
    BY <1>1, <1>3, <1>5
  <2>3. v = vy * 1 + d
    BY <1>1
  <2> HIDE DEF d
  <2>4. v \div vy = 1 /\ v % vy = d
    <3>1. vy \in Nat \ {0} /\ v \in Int /\ 1 \in Int
      BY <1>1, <2>2
    <3> QED BY <2>2, <2>3, <3>1, Unique
  <2>5. dd \div 2 = d
    <3>1. dd = 2 * d + 0 /\ 0 \in 0 .. 2 - 1 /\ 2 \in Nat \ {0}
      BY <2>2
    <3> QED BY <2>2, <3>1, Unique
  <2> HIDE DEF dd
  <2>6. dd % p = dd
    BY <1>1, <2>2, Remains
  <2>7. zw = dd /\ zq = 1
    BY <1>2, <1>4, <2>1, <2>2, <2>6 DEF dd
  <2> QED BY <2>4, <2>5, <2>7 DEF v, vy, zq, zw
<1>6. CASE ~(v >= vy)
  <2>1. fit = 0 /\ v - fit * vy = v /\ v \in 0 .. vy - 1
    BY <1>1, <1>2, <1>6
  <2>2. v \div vy = 0 /\ v % vy = v
    <3>1. vy \in Nat \ {0}
      BY <1>1, <2>1
    <3> QED BY <2>1, <3>1, Remains
  <2>3. zq = 0
    BY <1>2, <1>4, <2>1
  <2>4. ASSUME 2 * v < p PROVE v = zw \div 2
    <3> DEFINE dd == 2 * v
    <3>1. dd \in 0 .. p - 1 /\ dd \in Int
      BY <1>1, <2>4
    <3>2. dd \div 2 = v
      <4>1. dd = 2 * v + 0 /\ 0 \in 0 .. 2 - 1 /\ 2 \in Nat \ {0} /\ v \in Int
        BY <1>1
      <4> QED BY <3>1, <4>1, Unique
    <3> HIDE DEF dd
    <3>3. dd % p = dd
      BY <1>1, <3>1, Remains
    <3>4. zw = dd
      BY <1>2, <2>1, <3>1, <3>3 DEF dd
    <3> QED BY <3>2, <3>4
  <2>5. v >= vy \/ 2 * v < p => v % vy = zw \div 2
    BY <1>6, <2>2, <2>4
  <2> QED BY <2>2, <2>3, <2>5 DEF v, vy, p, zq, zw
<1> QED BY <1>5, <1>6

RestKept(n, x, y) == 2 * Value(y) <= Pow(n) \/ Value(x) >= Value(y) \/ 2 * Value(x) < Pow(n)

(* v_bignum_div: long division bit by bit gives the quotient, and the      *)
(* remainder when rem has room for it, for any divisor but zero that has   *)
(* no more digits than the dividend; except that a dividend with its top   *)
(* bit set and below the divisor does not keep that bit in the remainder.  *)
THEOREM DivIs ==
  ASSUME NEW n \in Nat, n # 0, NEW x \in Numbers(n), NEW m \in Nat, m <= n, NEW y \in Numbers(m), Value(y) # 0,
         NEW r \in Nat, NEW rem, Len(rem) = r
  PROVE  /\ Div(x, y, rem).x \in Numbers(n) /\ Value(Div(x, y, rem).x) = Value(x) \div Value(y)
         /\ Div(x, y, rem).rem \in Numbers(r)
         /\ r >= m /\ RestKept(n, x, y) => Value(Div(x, y, rem).rem) = Value(x) % Value(y)
<1> DEFINE v == Value(x)
           vy == Value(y)
           a == BitMsb(x)
           b == BitMsb(y)
<1>1. v \in Nat /\ vy \in Nat \ {0}
  BY NumberValue
<1>2. a \in Int /\ a >= -1 /\ a < n * BigBits /\ v < 2 ^ (a + 1)
  BY BitMsbIs
<1>3. b \in Int /\ b >= 0 /\ 2 ^ b <= vy
  <2>1. b \in Int /\ b >= -1 /\ (b = -1 <=> vy = 0) /\ (b >= 0 => 2 ^ b <= vy)
    BY BitMsbIs
  <2> HIDE DEF b, vy
  <2>2. b >= 0
    BY <1>1, <2>1
  <2> QED BY <2>1, <2>2
<1>4. b \in Nat
  BY <1>3
<1>5. r >= m => vy \in 0 .. Pow(r) - 1
  <2> SUFFICES ASSUME r >= m PROVE vy \in 0 .. Pow(r) - 1
    OBVIOUS
  <2>1. vy \in 0 .. Pow(m) - 1 /\ Pow(m) \in Nat /\ Pow(r) \in Nat
    BY NumberValue, Weights
  <2>2. Pow(m) <= Pow(r)
    BY Heavier
  <2> DEFINE pm == Pow(m)
             pr == Pow(r)
  <2> HIDE DEF vy, pm, pr
  <2>3. vy \in 0 .. pr - 1
    BY <2>1, <2>2 DEF pm, pr
  <2> QED BY <2>3 DEF pr
<1> HIDE DEF v, vy, a, b
<1>6. CASE b > a
  <2>1. v < vy
    <3> DEFINE k == a + 1
    <3>1. k \in Nat /\ k <= b
      BY <1>2, <1>4, <1>6
    <3> HIDE DEF k
    <3>2. 2 ^ k <= 2 ^ b /\ 2 ^ k \in Nat /\ 2 ^ b \in Nat
      BY <1>4, <3>1, Longer, Counted
    <3>3. v < 2 ^ k
      BY <1>2 DEF k
    <3> QED BY <1>1, <1>3, <3>2, <3>3
  <2>2. Div(x, y, rem).x = Zero(n) /\ Div(x, y, rem).rem = SetBignum(r, x)
    <3>1. Len(x) = n
      BY DigitsOf
    <3> QED BY <1>6, <3>1 DEF Div, a, b
  <2>3. v \in 0 .. vy - 1
    BY <1>1, <2>1
  <2>4. v % vy = v /\ v \div vy = 0
    BY <1>1, <2>3, Remains
  <2>5. Zero(n) \in Numbers(n) /\ Value(Zero(n)) = 0
    <3>1. 0 \in Digit
      BY Bases DEF Digit
    <3> QED BY <3>1, SetDigitIs
  <2>6. SetBignum(r, x) \in Numbers(r) /\ Value(SetBignum(r, x)) = v % Pow(r)
    BY SetBignumIs DEF v
  <2>7. r >= m => v % Pow(r) = v
    <3> SUFFICES ASSUME r >= m PROVE v % Pow(r) = v
      OBVIOUS
    <3> DEFINE pr == Pow(r)
    <3>1. pr \in Nat \ {0}
      BY Weights
    <3> HIDE DEF pr
    <3>2. v \in 0 .. pr - 1
      BY <1>1, <1>5, <2>1, <3>1 DEF pr
    <3>3. v % pr = v
      BY <3>1, <3>2, Remains
    <3> QED BY <3>3 DEF pr
  <2> QED BY <2>2, <2>4, <2>5, <2>6, <2>7 DEF v, vy
<1>7. CASE ~(b > a)
  <2> DEFINE first == a - b
             bits == first + 1
             len == b + 1
             part == SetPart(n, x, a, len)
             t == 2 ^ first
             w == v \div t
             base == [q |-> Zero(n), work |-> part]
  <2>1. first \in Nat /\ bits \in Nat /\ len \in Nat /\ a + 1 = first + len
    BY <1>2, <1>4, <1>7
  <2>2. len <= n * BigBits
    <3> DEFINE top == n * BigBits
    <3>1. top \in Int /\ a < top
      BY <1>2, BigBitsAssumption
    <3> HIDE DEF top
    <3>2. len <= top
      BY <1>2, <1>4, <1>7, <3>1
    <3> QED BY <3>2 DEF top
  <2>3. t \in Nat \ {0} /\ 2 ^ bits = 2 * t
    <3> HIDE DEF first
    <3> QED BY <2>1, Counted, Doubles
  <2>4. 2 ^ len = 2 * 2 ^ b /\ 2 ^ b \in Nat \ {0} /\ 2 ^ len \in Nat \ {0}
    <3>1. 2 ^ (b + 1) = 2 * 2 ^ b /\ 2 ^ b \in Nat \ {0}
      BY <1>4, Doubles, Counted
    <3>2. 2 ^ len \in Nat \ {0}
      BY <2>1, Counted
    <3> QED BY <3>1, <3>2
  <2>5. 2 ^ (a + 1) = t * 2 ^ len
    <3>1. 2 ^ (first + len) = 2 ^ first * 2 ^ len
      <4> HIDE DEF first, len
      <4> QED BY <2>1, AddsUp
    <3> QED BY <2>1, <3>1
  <2> HIDE DEF first, bits, len, t
  <2>6. w \in Nat /\ w < 2 ^ len
    <3> DEFINE u == 2 ^ len
    <3> HIDE DEF u
    <3>1. (v \div t) \div u = v \div (t * u) /\ v \div t \in Nat
      BY <1>1, <2>3, <2>4, Nested DEF u
    <3>2. v < t * u /\ t * u \in Nat \ {0}
      BY <1>2, <2>3, <2>4, <2>5 DEF u
    <3> DEFINE tu == t * u
    <3> HIDE DEF tu
    <3>3. v \div tu = 0
      BY <1>1, <3>2, SmallQuotient DEF tu
    <3> HIDE DEF w
    <3>4. w \div u = 0 /\ w \in Nat
      BY <3>1, <3>3 DEF tu, w
    <3>5. w < u
      BY <2>4, <3>4, SmallQuotient DEF u
    <3> QED BY <3>4, <3>5 DEF u
  <2>7. part \in Numbers(n) /\ Value(part) = w
    <3>1. part \in Numbers(n) /\ Value(part) = (Value(x) \div 2 ^ first) % 2 ^ len
      <4>1. a \in Int /\ a < n * BigBits
        BY <1>2
      <4>2. n \in Nat /\ x \in Numbers(n)
        OBVIOUS
      <4> QED BY ONLY <2>1, <2>2, <4>1, <4>2, SetPartIs DEF part
    <3> DEFINE u == 2 ^ len
    <3> HIDE DEF u, w
    <3>2. u \in Nat \ {0} /\ w \in 0 .. u - 1
      BY <2>4, <2>6 DEF u
    <3>3. w % u = w
      BY <3>2, Remains
    <3> QED BY <3>1, <3>3 DEF w, u, v, t
  <2>8. Brings((2 * v) \div 2 ^ bits, vy, 0, w)
    <3> DEFINE vv == 2 * v
    <3>1. vv \in Nat
      BY <1>1
    <3>2. vv \div 2 = v
      <4>1. vv = 2 * v + 0 /\ 0 \in 0 .. 2 - 1 /\ 2 \in Nat \ {0} /\ vv \in Int /\ v \in Int
        BY <1>1
      <4> HIDE DEF vv
      <4> QED BY <4>1, Unique
    <3> HIDE DEF vv
    <3>3. (vv \div 2) \div t = vv \div (2 * t)
      <4>1. 2 \in Nat \ {0}
        OBVIOUS
      <4> QED BY <2>3, <3>1, <4>1, Nested
    <3>4. vv \div 2 ^ bits = w
      BY <2>3, <3>2, <3>3
    <3> HIDE DEF w
    <3>5. w = (2 * vy) * 0 + w /\ w \in 0 .. 2 * vy - 1
      <4> DEFINE u == 2 ^ b
      <4> HIDE DEF u
      <4>1. u \in Nat /\ w < 2 * u /\ u <= vy
        BY <1>3, <2>4, <2>6 DEF u
      <4>2. (2 * vy) * 0 = 0
        BY <1>1
      <4> QED BY <1>1, <2>6, <4>1, <4>2
    <3> QED BY <3>4, <3>5 DEF Brings, vv
  <2>9. base.q = Zero(n) /\ base.work = part
    OBVIOUS
  <2> HIDE DEF w, part
  <2>10. PICK c : /\ Carries(c, bits, Dividend(n), base, DivideStep(x, y, n, first, bits))
                  /\ Div(x, y, rem).x = c[bits].q
                  /\ Div(x, y, rem).rem = SetBignum(r, ShiftRight(c[bits].work, 1))
    <3>1. first = BitMsb(x) - BitMsb(y) /\ bits = first + 1 /\ BitMsb(y) >= 0
      BY <1>3 DEF first, bits, a, b
    <3>2. part = SetPart(n, x, BitMsb(x), BitMsb(y) + 1)
      BY DEF part, len, a, b
    <3>3. n \in Nat \ {0} /\ Value(y) < Pow(n)
      <4>1. n \in Nat \ {0} /\ m <= n
        OBVIOUS
      <4> QED BY <4>1, Shorter
    <3> QED BY <2>1, <2>7, <3>1, <3>2, <3>3, DivCarries
  <2> DEFINE q == c[bits].q
             work == c[bits].work
  <2>20. base \in Dividend(n)
    <3>1. Zero(n) \in Numbers(n)
      <4>1. 0 \in Digit
        BY Bases DEF Digit
      <4> QED BY <4>1, SetDigitIs
    <3> QED BY <2>7, <3>1 DEF Dividend
  <2> HIDE DEF base
  <2>11. ASSUME 2 * Value(y) <= Pow(n) PROVE Brings(2 * v, vy, Value(q), Value(work))
    <3>1. bits = first + 1 /\ Value(y) # 0
      BY DEF bits
    <3>2. Brings((2 * Value(x)) \div 2 ^ bits, Value(y), 0, Value(base.work))
      BY <2>7, <2>8, <2>9 DEF v, vy
    <3>3. n \in Nat \ {0}
      OBVIOUS
    <3> QED BY <2>1, <2>9, <2>10, <2>11, <3>1, <3>2, <3>3, DivLoop DEF v, vy
  <2>12. q \in Numbers(n) /\ work \in Numbers(n)
    <3>1. bits \in 0 .. bits
      BY <2>1
    <3> QED BY <2>10, <3>1 DEF Carries, Dividend
  <2> HIDE DEF q, work
  <2>13. Value(q) \in Nat /\ Value(work) \in Nat
    BY <2>12, NumberValue
  <2>21. ASSUME 2 * Value(y) <= Pow(n)
         PROVE  v \div vy = Value(q) /\ v % vy = Value(work) \div 2
    <3>1. v \div vy = Value(q) /\ v % vy = Value(work) \div 2
      BY <1>1, <2>11, <2>13, <2>21, HalfRest
    <3> QED BY <3>1
  <2>22. ASSUME ~(2 * Value(y) <= Pow(n))
         PROVE  v \div vy = Value(q) /\ (RestKept(n, x, y) => v % vy = Value(work) \div 2)
    <3> DEFINE p == Pow(n)
               top == n * BigBits
    <3>1. vy \in Nat /\ p \in Nat /\ 2 * vy > p /\ p = 2 ^ top /\ top \in Nat /\ a < top
      <4>1. n * BigBits \in Nat /\ n * BigBits = BigBits * n
        BY BigBitsAssumption
      <4>2. ~(2 * vy <= p) /\ p \in Nat
        BY <2>22, Weights DEF vy
      <4> HIDE DEF p
      <4>3. 2 * vy > p
        BY <1>1, <4>2
      <4> QED BY <1>1, <1>2, <4>1, <4>2, <4>3 DEF Pow, p
    <3> HIDE DEF p, top
    <3>2. b + 2 > top
      <4> SUFFICES ASSUME ~(b + 2 > top) PROVE FALSE
        OBVIOUS
      <4> DEFINE l == b + 1
                 k == b + 2
      <4>1. k \in Nat /\ l \in Nat /\ k = l + 1 /\ k <= top
        BY <1>4, <3>1
      <4> HIDE DEF k, l
      <4>2. 2 ^ k = 2 * 2 ^ l /\ 2 ^ l \in Nat /\ 2 ^ k <= 2 ^ top /\ 2 ^ top \in Nat
        BY <3>1, <4>1, Doubles, Counted, Longer
      <4>3. vy < 2 ^ l
        BY BitMsbIs DEF vy, l, b
      <4> QED BY <3>1, <4>2, <4>3
    <3>3. first = 0 /\ bits = 1
      <4>1. first = 0
        BY <1>2, <1>4, <1>7, <3>1, <3>2 DEF first
      <4> QED BY <4>1 DEF bits
    <3>4. w = v /\ Value(base.work) = v /\ Value(base.q) = 0
      <4>1. t = 1
        BY <3>3, Unit DEF t
      <4>2. w = v
        BY <1>1, <4>1, WholeQuotient DEF w
      <4>3. Value(Zero(n)) = 0
        <5>1. 0 \in Digit
          BY Bases DEF Digit
        <5> QED BY <5>1, SetDigitIs
      <4> QED BY <2>7, <2>9, <4>2, <4>3
    <3>5. c[1] = DivStep(y, base, FALSE)
      <4>1. c[0] = base /\ c[1] = DivideStep(x, y, n, first, bits)[1][c[0]]
        <5>1. 1 \in 1 .. bits /\ 1 - 1 = 0
          BY <3>3
        <5> QED BY <2>10, <5>1 DEF Carries
      <4>2. DivideStep(x, y, n, first, bits)[1][base] = DivStep(y, base, BitTest(x, first - 1))
        BY <2>20, <3>3 DEF DivideStep
      <4>3. BitTest(x, first - 1) = FALSE
        <5>1. first - 1 \notin 0 .. Len(x) * BigBits - 1
          BY <3>3
        <5> QED BY <5>1 DEF BitTest
      <4> QED BY <4>1, <4>2, <4>3
    <3>6. /\ Value(x) \div Value(y) = Value(c[1].q)
          /\ Value(x) >= Value(y) \/ 2 * Value(x) < Pow(n) => Value(x) % Value(y) = Value(c[1].work) \div 2
      <4>1. 2 * Value(y) > Pow(n)
        BY <3>1 DEF p, vy
      <4>2. Value(base.work) = Value(x) /\ Value(base.q) = 0
        BY <3>4 DEF v
      <4> DEFINE z1 == c[1]
      <4>3. LastStep(y, base, z1)
        BY <3>5 DEF LastStep
      <4> HIDE DEF z1
      <4>4. n \in Nat /\ n # 0 /\ x \in Numbers(n) /\ m \in Nat /\ m <= n /\ y \in Numbers(m)
        OBVIOUS
      <4>5. /\ Value(x) \div Value(y) = Value(z1.q)
            /\ Value(x) >= Value(y) \/ 2 * Value(x) < Pow(n) => Value(x) % Value(y) = Value(z1.work) \div 2
        BY ONLY <2>20, <4>1, <4>2, <4>3, <4>4, DivOnce
      <4> QED BY <4>5 DEF z1
    <3> QED BY <2>22, <3>3, <3>6 DEF RestKept, v, vy, q, work
  <2>14. v \div vy = Value(q) /\ (RestKept(n, x, y) => v % vy = Value(work) \div 2)
    BY <2>21, <2>22
  <2> DEFINE z == ShiftRight(work, 1)
  <2>15. z \in Numbers(n) /\ (RestKept(n, x, y) => Value(z) = v % vy)
    <3>1. 1 \in Nat
      OBVIOUS
    <3>2. z \in Numbers(n) /\ Value(z) = Value(work) \div 2 ^ 1
      BY <2>12, <3>1, ShiftRightIs
    <3> QED BY <2>14, <3>2, Unit
  <2> HIDE DEF z
  <2>16. SetBignum(r, z) \in Numbers(r) /\ (RestKept(n, x, y) => Value(SetBignum(r, z)) = (v % vy) % Pow(r))
    BY <2>15, SetBignumIs
  <2>17. r >= m => (v % vy) % Pow(r) = v % vy
    <3> SUFFICES ASSUME r >= m PROVE (v % vy) % Pow(r) = v % vy
      OBVIOUS
    <3> DEFINE pr == Pow(r)
               l == v % vy
    <3>1. pr \in Nat \ {0}
      BY Weights
    <3>2. l \in 0 .. vy - 1
      <4>1. v \in Int /\ vy \in Nat \ {0}
        BY <1>1
      <4> QED BY ONLY <4>1, Euclid DEF l
    <3> HIDE DEF pr, l
    <3>3. l \in 0 .. pr - 1
      BY <1>1, <1>5, <3>1, <3>2 DEF pr
    <3>4. l % pr = l
      BY <3>1, <3>3, Remains
    <3> QED BY <3>4 DEF pr, l
  <2> QED BY <2>10, <2>12, <2>14, <2>16, <2>17 DEF q, work, z, v, vy
<1> QED BY <1>6, <1>7

(* A divisor of fewer digits. *)
LEMMA DivShorter ==
  ASSUME NEW n \in Nat, NEW x \in Numbers(n), NEW m \in Nat, m < n, NEW y \in Numbers(m), Value(y) # 0,
         NEW r \in Nat, NEW rem, Len(rem) = r
  PROVE  /\ Div(x, y, rem).x \in Numbers(n) /\ Value(Div(x, y, rem).x) = Value(x) \div Value(y)
         /\ Div(x, y, rem).rem \in Numbers(r)
         /\ r >= m => Value(Div(x, y, rem).rem) = Value(x) % Value(y)
<1>1. n # 0 /\ m <= n
  OBVIOUS
<1>2. RestKept(n, x, y)
  BY SpareBit DEF RestKept
<1> QED BY <1>1, <1>2, DivIs

LEMMA DivByZero ==
  ASSUME NEW n \in Nat, NEW x \in Numbers(n), NEW m \in Nat, NEW y \in Numbers(m), Value(y) = 0, NEW rem
  PROVE  Div(x, y, rem).x = Zero(n)
<1>1. BitMsb(y) = -1
  BY BitMsbIs
<1>2. Len(x) = n
  BY DigitsOf
<1> QED BY <1>1, <1>2 DEF Div

LEMMA ModIs ==
  ASSUME NEW n \in Nat, NEW x \in Numbers(n), NEW m \in Nat, m < n, NEW y \in Numbers(m), Value(y) # 0
  PROVE  Mod(x, y) \in Numbers(n) /\ Value(Mod(x, y)) = Value(x) % Value(y)
<1> DEFINE S == {n, m}
           rem == Zero(Max(S))
           v == Value(x)
           vy == Value(y)
           z == Div(x, y, rem).rem
<1>1. Max(S) = n
  <2>1. S \subseteq Int /\ S # {} /\ n \in Int /\ \A s \in S : s <= n
    OBVIOUS
  <2> HIDE DEF S
  <2>2. Max(S) \in S /\ \A s \in S : Max(S) >= s
    BY <2>1, MaxIs
  <2> QED BY <2>2 DEF S
<1>2. Len(rem) = n
  <2>1. Zero(n) \in Numbers(n)
    <3>1. 0 \in Digit
      BY Bases DEF Digit
    <3> QED BY <3>1, SetDigitIs
  <2> QED BY <1>1, <2>1, DigitsOf
<1>3. Mod(x, y) = SetBignum(n, z)
  <2>1. Len(x) = n /\ Len(y) = m
    BY DigitsOf
  <2> QED BY <2>1 DEF Mod
<1> HIDE DEF rem
<1>4. z \in Numbers(n) /\ Value(z) = v % vy
  <2>1. n >= m
    OBVIOUS
  <2> QED BY <1>2, <2>1, DivShorter
<1> HIDE DEF z
<1>5. SetBignum(n, z) \in Numbers(n) /\ Value(SetBignum(n, z)) = Value(z) % Pow(n)
  BY <1>4, SetBignumIs
<1>6. Value(z) % Pow(n) = Value(z)
  <2> DEFINE p == Pow(n)
             l == Value(z)
  <2>1. p \in Nat \ {0} /\ l \in 0 .. p - 1
    BY <1>4, NumberValue, Weights
  <2> HIDE DEF p, l
  <2>2. l % p = l
    BY <2>1, Remains
  <2> QED BY <2>2 DEF p, l
<1> QED BY <1>3, <1>4, <1>5, <1>6

-----------------------------------------------------------------------------
(* A cell holds twice as many values as there are below its sign bit.      *)
CellSizes(M, Half) ==
  /\ M \in Nat /\ Half \in Nat \ {0} /\ M = 2 * Half
  /\ 2 ^ Width = M /\ 2 ^ (Width - 1) = Half
  /\ 2 ^ (2 * Width) = M * M /\ 2 ^ (2 * Width - 1) = M * Half

LEMMA Sizes ==
  /\ Width \in Nat \ {0}
  /\ \E M, Half : CellSizes(M, Half)
<1>1. Width \in Nat \ {0}
  <2>1. ASSUME NEW x \in Nat \ {0}, NEW y \in Nat \ {0} PROVE x * y \in Nat \ {0}
    OBVIOUS
  <2> QED BY <2>1, BigBitsAssumption, DigitsAssumption DEF Width
<1> DEFINE w == Width
           v == w - 1
<1>2. w \in Nat /\ v \in Nat /\ w = v + 1 /\ 2 * w = w + w /\ 2 * w - 1 = w + v
  BY <1>1
<1> HIDE DEF v, w
<1>3. 2 ^ (v + 1) = 2 * 2 ^ v /\ 2 ^ (w + w) = 2 ^ w * 2 ^ w /\ 2 ^ (w + v) = 2 ^ w * 2 ^ v
  BY <1>2, Doubles, AddsUp
<1>4. 2 ^ w \in Nat /\ 2 ^ v \in Nat \ {0}
  BY <1>2, Counted
<1>5. 2 ^ w = 2 * 2 ^ v /\ 2 ^ (2 * w) = 2 ^ w * 2 ^ w /\ 2 ^ (2 * w - 1) = 2 ^ w * 2 ^ v
  BY <1>2, <1>3
<1>6. CellSizes(2 ^ w, 2 ^ v)
  BY <1>4, <1>5 DEF CellSizes, v, w
<1> QED BY <1>1, <1>6

-----------------------------------------------------------------------------
(* Cells and the integers they stand for.                                  *)

LEMMA Wrap ==
  ASSUME NEW v \in Int
  PROVE  /\ ToCell(v) \in Cell
         /\ v \in Cell => ToCell(v) = v
         /\ InCell(v) => Signed(ToCell(v), Width) = v
<1>1. PICK M, Half : CellSizes(M, Half)
  BY Sizes
<1>2. /\ v % M \in 0 .. M - 1
      /\ v \in 0 .. M - 1 => v % M = v
      /\ v < 0 /\ -M <= v => v % M = v + M
  <2>1. M \in Nat \ {0}
    BY <1>1 DEF CellSizes
  <2>2. v % M \in 0 .. M - 1 /\ (v \in 0 .. M - 1 => v % M = v)
    BY <2>1
  <2>3. ASSUME v < 0, -M <= v PROVE v % M = v + M
    <3>1. v = M * (v \div M) + (v % M) /\ v \div M \in Int /\ v % M \in 0 .. M - 1
      BY <2>1
    <3>2. ASSUME NEW k \in Int, NEW r \in 0 .. M - 1, v = M * k + r PROVE k = -1
      <4>1. CASE k >= 0
        <5>1. M * k >= 0
          BY <2>1, <4>1
        <5> QED BY <2>1, <2>3, <3>2, <5>1
      <4>2. CASE k <= -2
        <5>1. M * k <= M * (-2)
          <6>1. M * (-2 - k) >= 0 /\ M * (-2 - k) = M * (-2) - M * k
            BY <2>1, <4>2
          <6> QED BY <6>1, <2>1
        <5> QED BY <2>1, <2>3, <3>2, <5>1
      <4> QED BY <4>1, <4>2
    <3>3. v \div M = -1
      BY <3>1, <3>2
    <3> QED BY <2>1, <3>1, <3>3
  <2> QED BY <2>2, <2>3
<1>3. ToCell(v) = v % M /\ Cell = 0 .. M - 1
  BY <1>1 DEF CellSizes, ToCell, Cell
<1>4. ASSUME InCell(v) PROVE Signed(ToCell(v), Width) = v
  <2>1. -Half <= v /\ v < Half
    BY <1>1, <1>4 DEF CellSizes, InCell
  <2>2. M = 2 * Half /\ Half \in Nat \ {0} /\ 2 ^ (Width - 1) = Half /\ 2 ^ Width = M
    BY <1>1 DEF CellSizes
  <2>3. Signed(ToCell(v), Width) = IF v % M < Half THEN v % M ELSE (v % M) - M
    BY <1>3, <2>2 DEF Signed
  <2>4. v % M = IF v < 0 THEN v + M ELSE v
    BY <1>2, <2>1, <2>2
  <2> QED BY <2>1, <2>2, <2>3, <2>4
<1> QED BY <1>2, <1>3, <1>4

LEMMA CellIsSigned ==
  ASSUME NEW c \in Cell
  PROVE  /\ c \in Nat
         /\ Signed(c, Width) \in Int /\ InCell(Signed(c, Width))
<1>1. PICK M, Half : CellSizes(M, Half)
  BY Sizes
<1>2. c \in 0 .. 2 * Half - 1 /\ Half \in Nat \ {0} /\ 2 ^ (Width - 1) = Half /\ 2 ^ Width = 2 * Half
  BY <1>1 DEF CellSizes, Cell
<1> QED BY <1>2 DEF Signed, InCell

LEMMA DoubleIsSigned ==
  ASSUME NEW c \in Cell, NEW d \in Cell
  PROVE  /\ c * 2 ^ Width + d \in Nat
         /\ Signed(c * 2 ^ Width + d, 2 * Width) \in Int
<1>1. PICK M, Half : CellSizes(M, Half)
  BY Sizes
<1>2. M \in Nat /\ M * M \in Nat /\ M * Half \in Nat /\ c \in Nat /\ d \in Nat
  <2>1. M \in Nat /\ Half \in Nat
    BY <1>1 DEF CellSizes
  <2> QED BY <2>1, CellIsSigned
<1>3. c * M + d \in Nat
  BY <1>2
<1>4. Signed(c * M + d, 2 * Width) = IF c * M + d < M * Half THEN c * M + d ELSE c * M + d - M * M
  <2> DEFINE v == c * M + d
  <2>1. 2 ^ (2 * Width) = M * M /\ 2 ^ (2 * Width - 1) = M * Half
    BY <1>1 DEF CellSizes
  <2>2. Signed(v, 2 * Width) = IF v < 2 ^ (2 * Width - 1) THEN v ELSE v - 2 ^ (2 * Width)
    BY DEF Signed
  <2> HIDE DEF v
  <2>3. Signed(v, 2 * Width) = IF v < M * Half THEN v ELSE v - M * M
    BY <2>1, <2>2
  <2> QED BY <1>2, <2>3 DEF v
<1>5. 2 ^ Width = M
  BY <1>1 DEF CellSizes
<1> QED BY <1>2, <1>3, <1>4, <1>5

-----------------------------------------------------------------------------
(* Quotients that round to zero and that round down.                       *)

Floor(a, b) == IF b > 0 THEN a \div b ELSE (-a) \div (-b)

LEMMA Quotient ==
  ASSUME NEW a \in Int, NEW b \in Int, b # 0
  PROVE  /\ Quot(a, b) \in Int /\ Rem(a, b) \in Int
         /\ Rem(a, b) = a - b * Quot(a, b)
         /\ Abs(Rem(a, b)) < Abs(b)
         /\ (a < 0 => Rem(a, b) <= 0) /\ (a >= 0 => Rem(a, b) >= 0)
<1> DEFINE x == Abs(a)
           y == Abs(b)
           k == x \div y
           r == x % y
<1>1. x \in Nat /\ y \in Nat \ {0} /\ (x = a \/ x = -a) /\ (y = b \/ y = -b)
  BY DEF Abs
<1> HIDE DEF x, y
<1>2. k \in Int /\ r \in 0 .. y - 1 /\ x = y * k + r
  BY <1>1
<1> HIDE DEF k, r
<1>3. Quot(a, b) = IF (a < 0) = (b < 0) THEN k ELSE -k
  BY DEF Quot, x, y, k
<1>4. Rem(a, b) = a - b * Quot(a, b) /\ Quot(a, b) \in Int /\ b * Quot(a, b) \in Int
  <2>1. Quot(a, b) \in Int
    BY <1>2, <1>3
  <2> QED BY <2>1 DEF Rem
<1>5. y * k \in Int
  BY <1>1, <1>2
<1>6. Rem(a, b) = IF a < 0 THEN -r ELSE r
  <2>1. CASE a < 0 /\ b < 0
    <3>1. b * k = -(y * k) /\ Quot(a, b) = k /\ x = -a
      BY <2>1, <1>1, <1>2, <1>3 DEF x, y, Abs
    <3> QED BY <1>1, <1>2, <1>4, <1>5, <2>1, <3>1
  <2>2. CASE a < 0 /\ b > 0
    <3>1. b * (-k) = -(y * k) /\ Quot(a, b) = -k /\ x = -a
      BY <2>2, <1>1, <1>2, <1>3 DEF x, y, Abs
    <3> QED BY <1>1, <1>2, <1>4, <1>5, <2>2, <3>1
  <2>3. CASE a >= 0 /\ b < 0
    <3>1. b * (-k) = y * k /\ Quot(a, b) = -k /\ x = a
      BY <2>3, <1>1, <1>2, <1>3 DEF x, y, Abs
    <3> QED BY <1>1, <1>2, <1>4, <1>5, <2>3, <3>1
  <2>4. CASE a >= 0 /\ b > 0
    <3>1. b * k = y * k /\ Quot(a, b) = k /\ x = a
      BY <2>4, <1>1, <1>2, <1>3 DEF x, y, Abs
    <3> QED BY <1>1, <1>2, <1>4, <1>5, <2>4, <3>1
  <2> QED BY <2>1, <2>2, <2>3, <2>4
<1>7. Abs(Rem(a, b)) = r /\ y = Abs(b)
  BY <1>1, <1>2, <1>6 DEF Abs, y
<1>8. (a < 0 => Rem(a, b) <= 0) /\ (a >= 0 => Rem(a, b) >= 0)
  BY <1>2, <1>6
<1>9. Rem(a, b) \in Int /\ Abs(Rem(a, b)) < Abs(b)
  BY <1>1, <1>2, <1>6, <1>7
<1> QED BY <1>4, <1>8, <1>9

(* Rounding down takes one from the quotient when a remainder is left and  *)
(* the signs differ.                                                       *)
LEMMA FloorIs ==
  ASSUME NEW a \in Int, NEW b \in Int, b # 0
  PROVE  /\ Floor(a, b) \in Int
         /\ Floor(a, b) = Quot(a, b) - IF Rem(a, b) # 0 /\ (a < 0) # (b < 0) THEN 1 ELSE 0
<1> DEFINE q == Quot(a, b)
           r == Rem(a, b)
           y == Abs(b)
           c == IF b > 0 THEN a ELSE -a
           f == c \div y
           m == c % y
<1>1. y \in Nat \ {0} /\ c \in Int /\ (b > 0 => y = b) /\ (b < 0 => y = -b)
  BY DEF Abs
<1>2. Floor(a, b) = f
  BY <1>1 DEF Floor
<1>3. q \in Int /\ r \in Int /\ r = a - b * q /\ Abs(r) < y /\ (a < 0 => r <= 0) /\ (a >= 0 => r >= 0)
  BY Quotient
<1> HIDE DEF y, q, r, c
<1>4. f \in Int /\ m \in 0 .. y - 1 /\ c = y * f + m
  BY <1>1
<1> HIDE DEF f, m
<1> DEFINE s == IF b > 0 THEN r ELSE -r
           g == IF s < 0 THEN q - 1 ELSE q
           t == IF s < 0 THEN s + y ELSE s
<1>5. s \in Int /\ g \in Int /\ t \in 0 .. y - 1 /\ s < y /\ -y < s
  BY <1>1, <1>3 DEF Abs
<1>6. c = y * q + s
  <2>1. CASE b > 0
    <3>1. y = b /\ c = a
      BY <1>1, <2>1 DEF c
    <3> QED BY <1>3, <2>1, <3>1
  <2>2. CASE b < 0
    <3>1. y = -b /\ c = -a /\ y * q = -(b * q)
      BY <1>1, <1>3, <2>2 DEF c
    <3>2. b * q \in Int
      BY <1>3
    <3> QED BY <1>3, <2>2, <3>1, <3>2
  <2> QED BY <2>1, <2>2
<1>7. c = y * g + t
  <2>1. y * (q - 1) = y * q - y /\ y * q \in Int
    BY <1>1, <1>3
  <2> HIDE DEF s
  <2> QED BY <1>1, <1>3, <1>5, <1>6, <2>1
<1> HIDE DEF s, g, t
<1>8. ASSUME NEW i \in Int, NEW j \in Int, NEW u \in 0 .. y - 1, NEW v \in 0 .. y - 1, y * i + u = y * j + v
      PROVE  i = j
  <2>1. y * (i - j) = v - u
    <3>1. y * (i - j) = y * i - y * j /\ y * i \in Int /\ y * j \in Int
      BY <1>1
    <3> QED BY <1>1, <1>8, <3>1
  <2>2. CASE i > j
    <3>1. y * (i - j) >= y
      <4>1. y * (i - j - 1) >= 0 /\ y * (i - j - 1) = y * (i - j) - y
        BY <1>1, <2>2
      <4> QED BY <1>1, <4>1
    <3> QED BY <1>1, <2>1, <3>1
  <2>3. CASE i < j
    <3>1. y * (i - j) <= -y
      <4>1. y * (j - i - 1) >= 0 /\ y * (j - i - 1) = -(y * (i - j)) - y
        BY <1>1, <2>3
      <4> QED BY <1>1, <4>1
    <3> QED BY <1>1, <2>1, <3>1
  <2> QED BY <2>2, <2>3
<1>9. f = g
  BY <1>4, <1>5, <1>7, <1>8
<1>10. s < 0 <=> r # 0 /\ (a < 0) # (b < 0)
  BY <1>3 DEF s
<1>11. g = q - IF s < 0 THEN 1 ELSE 0
  BY <1>3 DEF g
<1>12. Floor(a, b) \in Int
  BY <1>2, <1>4
<1> QED BY <1>2, <1>9, <1>10, <1>11, <1>12 DEF q, r

(* A double cell on the stack is the integer it was pushed for.            *)
LEMMA DoubleInRange ==
  ASSUME NEW c \in Cell, NEW d \in Cell
  PROVE  InDCell(Signed(c * 2 ^ Width + d, 2 * Width))
<1>1. PICK M, Half : CellSizes(M, Half)
  BY Sizes
<1> DEFINE v == c * M + d
           h == M * Half
           mm == M * M
<1>2. /\ 2 ^ Width = M /\ 2 ^ (2 * Width) = mm /\ 2 ^ (2 * Width - 1) = h
      /\ M \in Nat /\ Half \in Nat \ {0} /\ M = 2 * Half /\ Cell = 0 .. M - 1
  BY <1>1 DEF CellSizes, Cell
<1>3. c \in Nat /\ d \in Nat /\ c < M /\ d < M
  BY <1>2
<1>4. v \in Nat /\ v < mm /\ mm = 2 * h /\ h \in Nat
  <2>1. (M - 1 - c) * M >= 0 /\ (M - 1 - c) * M = M * M - M - c * M /\ c * M \in Nat
    BY <1>2, <1>3
  <2>2. M * M = 2 * (M * Half) /\ M * Half \in Nat
    BY <1>2
  <2> DEFINE e == c * M
             s == (M - 1 - c) * M
  <2>3. s >= 0 /\ s = mm - M - e /\ e \in Nat /\ v = e + d /\ mm \in Nat
    BY <1>2, <2>1
  <2> HIDE DEF e, s, mm, v
  <2>4. v \in Nat /\ v < mm
    BY <1>2, <1>3, <2>3
  <2> QED BY <2>2, <2>4 DEF mm
<1> HIDE DEF v, h, mm
<1>5. Signed(v, 2 * Width) = IF v < h THEN v ELSE v - mm
  BY <1>2 DEF Signed
<1>6. -h <= Signed(v, 2 * Width) /\ Signed(v, 2 * Width) < h
  BY <1>4, <1>5
<1>7. InDCell(Signed(v, 2 * Width))
  BY <1>2, <1>6 DEF InDCell
<1> QED BY <1>2, <1>7 DEF v

LEMMA DoubleKept ==
  ASSUME NEW v \in Int, InDCell(v)
  PROVE  Signed(ToCell(v \div 2 ^ Width) * 2 ^ Width + ToCell(v), 2 * Width) = v
<1>1. PICK M, Half : CellSizes(M, Half)
  BY Sizes
<1> DEFINE k == v \div M
           r == v % M
           j == k \div M
           t == k % M
           e == t * M + r
           h == M * Half
           mm == M * M
<1>2. /\ 2 ^ Width = M /\ 2 ^ (2 * Width) = mm /\ 2 ^ (2 * Width - 1) = h
      /\ M \in Nat \ {0} /\ Half \in Nat \ {0} /\ M = 2 * Half
  BY <1>1 DEF CellSizes
<1>3. k \in Int /\ r \in 0 .. M - 1 /\ v = M * k + r
  BY <1>2, Euclid
<1>4. ToCell(v \div 2 ^ Width) = t /\ ToCell(v) = r
  BY <1>2 DEF ToCell
<1> HIDE DEF k, r
<1>5. j \in Int /\ t \in 0 .. M - 1 /\ k = M * j + t
  BY <1>2, <1>3, Euclid
<1> HIDE DEF j, t
<1>6. mm \in Nat \ {0} /\ mm = 2 * h /\ h \in Nat \ {0}
  BY <1>2
<1>7. e \in 0 .. mm - 1 /\ v = mm * j + e
  <2>1. t \in Nat /\ r \in Nat /\ t < M /\ r < M
    BY <1>2, <1>3, <1>5
  <2>2. (M - 1 - t) * M >= 0 /\ (M - 1 - t) * M = M * M - M - t * M /\ t * M \in Nat
    BY <1>2, <2>1
  <2>3. M * (M * j + t) = (M * M) * j + t * M
    BY <1>2, <1>5, <2>1
  <2> DEFINE x == t * M
             s == (M - 1 - t) * M
             y == mm * j
  <2>4. s >= 0 /\ s = mm - M - x /\ x \in Nat /\ v = (y + x) + r /\ y \in Int
    BY <1>2, <1>3, <1>5, <1>6, <2>2, <2>3
  <2>5. e = x + r
    OBVIOUS
  <2> HIDE DEF x, s, y, mm, e
  <2>6. e \in Nat /\ e < mm /\ v = y + e
    BY <1>2, <1>6, <2>1, <2>4, <2>5
  <2> QED BY <1>6, <2>6 DEF y
<1>8. -h <= v /\ v < h
  BY <1>2 DEF InDCell
<1> HIDE DEF e, h, mm
<1>9. e = IF v < 0 THEN v + mm ELSE v
  <2>1. CASE v < 0
    <3>1. v + mm \in 0 .. mm - 1 /\ v = mm * (-1) + (v + mm) /\ -1 \in Int
      BY <1>6, <1>8, <2>1
    <3>2. v % mm = v + mm
      BY <1>6, <3>1, Unique
    <3>3. v % mm = e
      BY <1>5, <1>6, <1>7, Unique
    <3> QED BY <2>1, <3>2, <3>3
  <2>2. CASE v >= 0
    <3>1. v \in 0 .. mm - 1
      BY <1>6, <1>8, <2>2
    <3>2. v % mm = v
      BY <1>6, <3>1, Remains
    <3>3. v % mm = e
      BY <1>5, <1>6, <1>7, Unique
    <3> QED BY <2>2, <3>2, <3>3
  <2> QED BY <2>1, <2>2
<1>10. Signed(e, 2 * Width) = IF e < h THEN e ELSE e - mm
  BY <1>2 DEF Signed
<1>11. Signed(e, 2 * Width) = v
  BY <1>6, <1>8, <1>9, <1>10
<1> QED BY <1>2, <1>4, <1>11 DEF e

-----------------------------------------------------------------------------
(* The stacks: operands are cells, and a word leaves cells.                *)

LEMMA Operand ==
  ASSUME NEW s \in Seq(Cell), NEW i \in Nat, i < Len(s)
  PROVE  /\ UPop(s, i) \in Cell /\ UPop(s, i) \in Nat
         /\ Pop(s, i) \in Int /\ InCell(Pop(s, i))
<1>1. Len(s) - i \in 1 .. Len(s)
  BY LenProperties
<1>2. s[Len(s) - i] \in Cell
  BY <1>1, ElementOfSeq
<1> QED BY <1>2, CellIsSigned DEF UPop, Pop, Top

LEMMA DoubleOperand ==
  ASSUME NEW s \in Seq(Cell), NEW i \in Nat, i + 1 < Len(s)
  PROVE  UDPop(s, i) \in Nat /\ DPop(s, i) \in Int /\ InDCell(DPop(s, i))
<1>1. i + 1 \in Nat /\ i < Len(s)
  BY LenProperties
<1>2. Top(s, i) \in Cell /\ Top(s, i + 1) \in Cell
  BY <1>1, Operand DEF UPop
<1>3. Top(s, i) * 2 ^ Width + Top(s, i + 1) \in Nat
      /\ Signed(Top(s, i) * 2 ^ Width + Top(s, i + 1), 2 * Width) \in Int
  BY <1>2, DoubleIsSigned
<1>4. InDCell(Signed(Top(s, i) * 2 ^ Width + Top(s, i + 1), 2 * Width))
  BY <1>2, DoubleInRange
<1> QED BY <1>3, <1>4 DEF UDPop, DPop

LEMMA Dropped ==
  ASSUME NEW S, NEW s \in Seq(S), NEW n \in 0 .. Len(s)
  PROVE  Below(s, n) \in Seq(S) /\ Len(Below(s, n)) = Len(s) - n
<1>1. Len(s) \in Nat /\ Len(s) - n \in 0 .. Len(s)
  BY LenProperties
<1>2. \A i \in 1 .. Len(s) - n : s[i] \in S
  BY <1>1, ElementOfSeq
<1> QED BY <1>1, <1>2, SubSeqProperties DEF Below

LEMMA Pushed ==
  ASSUME NEW s \in Seq(Cell), NEW n \in 0 .. Len(s), NEW a \in Cell, NEW b \in Cell
  PROVE  LET r == Below(s, n) \o <<a, b>>
         IN r \in Seq(Cell) /\ Top(r, 0) = b /\ Top(r, 1) = a
<1> DEFINE r == Below(s, n) \o <<a, b>>
           t == Below(s, n)
           u == <<a, b>>
<1>1. t \in Seq(Cell) /\ Len(t) \in Nat
  BY Dropped, LenProperties
<1>2. u \in Seq(Cell) /\ Len(u) = 2 /\ u[1] = a /\ u[2] = b
  OBVIOUS
<1> HIDE DEF t, u, r
<1>3. /\ t \o u \in Seq(Cell) /\ Len(t \o u) = Len(t) + 2
      /\ \A i \in 1 .. Len(t) + 2 : (t \o u)[i] = IF i <= Len(t) THEN t[i] ELSE u[i - Len(t)]
  <2>1. /\ t \o u \in Seq(Cell) /\ Len(t \o u) = Len(t) + Len(u)
        /\ \A i \in 1 .. Len(t) + Len(u) : (t \o u)[i] = IF i <= Len(t) THEN t[i] ELSE u[i - Len(t)]
    BY <1>1, <1>2, ConcatProperties
  <2> QED BY <1>2, <2>1
<1>4. (t \o u)[Len(t) + 2] = u[2] /\ (t \o u)[Len(t) + 1] = u[1]
  BY <1>1, <1>3
<1>5. r = t \o u
  BY DEF r, t, u
<1>6. Len(r) - 0 = Len(t) + 2 /\ Len(r) - 1 = Len(t) + 1
  BY <1>1, <1>3, <1>5
<1>7. r \in Seq(Cell) /\ Top(r, 0) = b /\ Top(r, 1) = a
  BY <1>2, <1>3, <1>4, <1>5, <1>6 DEF Top
<1> QED BY <1>7 DEF r

LEMMA PushedOne ==
  ASSUME NEW s \in Seq(Cell), NEW n \in 0 .. Len(s), NEW a \in Cell
  PROVE  LET r == Append(Below(s, n), a)
         IN r \in Seq(Cell) /\ Top(r, 0) = a
<1> DEFINE t == Below(s, n)
           r == Append(t, a)
<1>1. t \in Seq(Cell) /\ Len(t) \in Nat
  BY Dropped, LenProperties
<1> HIDE DEF t, r
<1>2. Append(t, a) \in Seq(Cell) /\ Len(Append(t, a)) = Len(t) + 1 /\ Append(t, a)[Len(t) + 1] = a
  BY <1>1, AppendProperties
<1>3. r = Append(t, a)
  BY DEF r
<1>4. Len(r) - 0 = Len(t) + 1
  BY <1>1, <1>2, <1>3
<1>5. r \in Seq(Cell) /\ Top(r, 0) = a
  BY <1>2, <1>3, <1>4 DEF Top
<1> QED BY <1>5 DEF r, t

-----------------------------------------------------------------------------
(* The bignum library.                                                     *)

LEMMA ShiftsAre ==
  ASSUME NEW n \in Nat, NEW x \in Numbers(n), NEW k \in 0 .. n * BigBits
  PROVE  /\ Value(ShiftLeft(x, k)) = (Value(x) * 2 ^ k) % Pow(n)
         /\ Value(ShiftRight(x, k)) = Value(x) \div 2 ^ k
<1>1. k \in Nat
  OBVIOUS
<1>2. k \div BigBits <= n
  <2> DEFINE q == k \div BigBits
             r == k % BigBits
  <2>1. q \in Int /\ r \in 0 .. BigBits - 1 /\ k = BigBits * q + r
    BY <1>1, BigBitsAssumption, Euclid
  <2> HIDE DEF q, r
  <2>2. BigBits \in Nat \ {0} /\ k <= n * BigBits
    BY BigBitsAssumption
  <2>3. ASSUME q > n PROVE FALSE
    <3> DEFINE c == q - n
    <3>1. c \in Nat \ {0} /\ q = n + c
      BY <2>1, <2>3
    <3> HIDE DEF c
    <3>2. BigBits * q = n * BigBits + BigBits * c
      BY <2>2, <3>1
    <3>3. BigBits * c > 0 /\ BigBits * c \in Nat
      BY <2>2, <3>1
    <3> DEFINE t == BigBits * c
               u == n * BigBits
    <3>4. u \in Nat
      BY <2>2
    <3> HIDE DEF t, u
    <3>5. k = u + t + r /\ t > 0 /\ t \in Nat /\ k <= u
      BY <2>1, <2>2, <3>2, <3>3 DEF t, u
    <3>6. r \in Nat
      BY <2>1, <2>2
    <3> QED BY <1>1, <3>4, <3>5, <3>6
  <2>4. q <= n
    BY <2>1, <2>3
  <2> QED BY <2>4 DEF q
<1>3. Value(ShiftLeft(x, k)) = (Value(x) * 2 ^ k) % Pow(n)
  BY <1>1, <1>2, ShiftLeftIs
<1>4. Value(ShiftRight(x, k)) = Value(x) \div 2 ^ k
  BY <1>1, ShiftRightIs
<1> QED BY <1>3, <1>4

LEMMA Joined ==
  ASSUME NEW n \in Nat, NEW x \in Numbers(n), NEW y \in Numbers(n)
  PROVE  x \o y \in Numbers(2 * n)
<1>1. x \in Seq(Digit) /\ Len(x) = n /\ y \in Seq(Digit) /\ Len(y) = n
  BY PlacedLength DEF Numbers
<1>2. x \o y \in Seq(Digit) /\ Len(x \o y) = n + n
  BY <1>1, ConcatProperties
<1>3. 2 * n = n + n
  OBVIOUS
<1>4. x \o y \in [1 .. Len(x \o y) -> Digit]
  BY <1>2, LenProperties
<1> QED BY <1>2, <1>3, <1>4 DEF Numbers

(* An operand of no more digits. *)
LEMMA ComputesIs ==
  ASSUME NEW n \in Nat, n # 0, NEW m \in Nat, m <= n, NEW x \in Numbers(n), NEW y \in Numbers(m)
  PROVE  Computes(x, y)
<1> DEFINE vx == Value(x)
           vy == Value(y)
           limit == Pow(n)
<1>1. Len(x) = n /\ Len(y) = m /\ 2 ^ (BigBits * n) = limit
  BY DigitsOf DEF Pow
<1>2. vx \in Nat /\ vy \in Nat
  BY NumberValue
<1>3. Value(Add(x, y)) = (vx + vy) % limit /\ Value(Sub(x, y)) = (vx - vy) % limit
  <2>1. m \in 0 .. n
    OBVIOUS
  <2> QED BY <2>1, AddIs
<1>4. Value(Mul(x, y)) = (vx * vy) % limit
  BY MulIs
<1>5. ASSUME vy # 0
      PROVE  /\ Value(Div(x, y, y).x) = vx \div vy
             /\ RestKept(n, x, y) => Value(Div(x, y, y).rem) = vx % vy
  <2>1. m >= m
    OBVIOUS
  <2> QED BY <1>1, <1>5, <2>1, DivIs
<1>6. Gte(x, y) <=> vx >= vy
  <2>1. Gte(x, y) <=> vx > vy \/ (vx = vy /\ (vx = 0 \/ n >= m))
    BY GteIs
  <2> HIDE DEF vx, vy
  <2>2. n >= m
    OBVIOUS
  <2> QED BY <1>2, <2>1, <2>2
<1>7. RestKept(n, x, y) <=> 2 * vy <= limit \/ vx >= vy \/ 2 * vx < limit
  BY DEF RestKept
<1> HIDE DEF vx, vy, limit
<1> QED BY <1>1, <1>3, <1>4, <1>5, <1>6, <1>7 DEF Computes, vx, vy

(* A number against one of half its digits, and two of those together.     *)
LEMMA DigitalIs ==
  ASSUME NEW n \in Nat, NEW m \in Nat \ {0}, m < n, n = 2 * m,
         NEW x \in Numbers(n), NEW y \in Numbers(m), NEW z \in Numbers(m)
  PROVE  Digital(x, y, z)
<1> DEFINE vx == Value(x)
           vy == Value(y)
           limit == Pow(n)
<1>1. Len(x) = n /\ Len(y) = m
  BY DigitsOf
<1>2. vx \in Nat /\ vy \in Nat /\ limit \in Nat \ {0} /\ vx \in 0 .. limit - 1
  BY NumberValue, Weights
<1>3. Computes(x, y)
  <2>1. m \in Nat /\ m <= n /\ n # 0
    OBVIOUS
  <2> QED BY <2>1, ComputesIs
<1>4. Computes(x, y \o z)
  <2>1. y \o z \in Numbers(n) /\ n <= n /\ n # 0
    BY Joined
  <2> QED BY <2>1, ComputesIs
<1>5. vy # 0 => Value(Mod(x, y)) = vx % vy
  <2>1. m \in Nat
    OBVIOUS
  <2> QED BY <2>1, ModIs
<1>6. Gte(y, x) <=> vy >= vx /\ ~(vx = vy /\ vx # 0)
  <2>1. Gte(y, x) <=> vy > vx \/ (vy = vx /\ (vy = 0 \/ m >= n))
    BY GteIs
  <2> HIDE DEF vx, vy
  <2>2. ~(m >= n)
    OBVIOUS
  <2> QED BY <1>2, <2>1, <2>2
<1>7. \A k \in 0 .. n * BigBits :
        /\ Value(ShiftLeft(x, k)) = (vx * 2 ^ k) % limit
        /\ Value(ShiftRight(x, k)) = vx \div 2 ^ k
  BY ShiftsAre
<1>8. ShiftLeft1(x) = ShiftLeft(x, 1)
  <2>1. 1 \in Nat /\ 1 \div BigBits <= n
    <3>1. 1 \in Nat /\ BigBits \in Nat \ {0} /\ n >= 1
      BY BigBitsAssumption
    <3>2. 1 \div BigBits <= 1 /\ 1 \div BigBits \in Nat
      BY <3>1, QuotientBelow
    <3> QED BY <3>1, <3>2
  <2>2. ShiftLeft1(x) \in Numbers(n) /\ Value(ShiftLeft1(x)) = (2 * vx) % limit
    BY ShiftLeft1Is
  <2>3. ShiftLeft(x, 1) \in Numbers(n) /\ Value(ShiftLeft(x, 1)) = (vx * 2 ^ 1) % limit
    BY <2>1, ShiftLeftIs
  <2>4. vx * 2 ^ 1 = 2 * vx
    BY <1>2, Unit
  <2> HIDE DEF vx, limit
  <2>5. Value(ShiftLeft1(x)) = Value(ShiftLeft(x, 1))
    BY <2>2, <2>3, <2>4
  <2> QED BY <2>2, <2>3, <2>5, SameNumber
<1>9. (EqZero(x) <=> vx = 0) /\ (EqOne(x) <=> vx = 1) /\ Value(One(n)) = 1
  <2>1. n \in Nat \ {0}
    OBVIOUS
  <2>2. EqZero(x) <=> vx = 0
    BY EqZeroIs
  <2>3. (EqOne(x) <=> vx = 1) /\ Value(One(n)) = 1
    BY <2>1, EqOneIs
  <2> QED BY <2>2, <2>3
<1>10. Eq(y, z) <=> vy = Value(z)
  BY EqIs
<1>11. Value(Not(x)) = limit - 1 - vx
  BY NotIs
<1>12. \A digit \in Digit :
          /\ Value(AddDigit(x, digit)) = (vx + digit) % limit
          /\ Value(SubDigit(x, digit)) = (vx - digit) % limit
          /\ Value(MulDigit(x, digit)) = (vx * digit) % limit
          /\ Value(SetDigit(n, digit)) = Value(One(n)) * digit
  <2> SUFFICES ASSUME NEW d \in Digit
               PROVE  /\ Value(AddDigit(x, d)) = (vx + d) % limit
                      /\ Value(SubDigit(x, d)) = (vx - d) % limit
                      /\ Value(MulDigit(x, d)) = (vx * d) % limit
                      /\ Value(SetDigit(n, d)) = Value(One(n)) * d
    OBVIOUS
  <2>1. /\ Value(AddDigit(x, d)) = (vx + d) % limit
        /\ Value(SubDigit(x, d)) = (vx - d) % limit
        /\ Value(MulDigit(x, d)) = (vx * d) % limit
    BY DigitIs
  <2>2. Value(SetDigit(n, d)) = d
    <3>1. n > 0
      OBVIOUS
    <3> QED BY <3>1, SetDigitIs
  <2>3. Value(One(n)) * d = d
    <3>1. d \in Int
      BY Bases DEF Digit
    <3> QED BY <1>9, <3>1
  <2> QED BY <2>1, <2>2, <2>3
<1>13. 2 ^ (BigBits * Len(x)) = limit
  BY <1>1 DEF Pow
<1> HIDE DEF limit, vx, vy
<1>14. Digital(x, y, z)
  BY <1>1, <1>3, <1>4, <1>5, <1>6, <1>7, <1>8, <1>9, <1>10, <1>11, <1>12, <1>13 DEF Digital, vx, vy
<1> QED BY <1>14

LEMMA LibraryIs == st \in Seq(Cell) => LibraryRight
<1> SUFFICES ASSUME st \in Seq(Cell), Len(st) = 4
             PROVE  Digital(Import(Digits, Top(st, 1)) \o Import(Digits, Top(st, 0)),
                            Import(Digits, Top(st, 2)), Import(Digits, Top(st, 3)))
  BY DEF LibraryRight
<1>1. Digits \in Nat \ {0} /\ Digits \in Nat /\ 2 * Digits \in Nat /\ Digits < 2 * Digits
  BY DigitsAssumption
<1>2. \A i \in 0 .. 3 : Import(Digits, Top(st, i)) \in Numbers(Digits)
  <2> SUFFICES ASSUME NEW i \in 0 .. 3 PROVE Import(Digits, Top(st, i)) \in Numbers(Digits)
    OBVIOUS
  <2>1. i \in Nat /\ i < Len(st)
    OBVIOUS
  <2>2. Top(st, i) \in Nat
    BY <2>1, Operand DEF UPop
  <2> QED BY <1>1, <2>2, ImportIs
<1> DEFINE X(i) == Import(Digits, Top(st, i))
<1>3. X(0) \in Numbers(Digits) /\ X(1) \in Numbers(Digits) /\ X(2) \in Numbers(Digits) /\ X(3) \in Numbers(Digits)
  BY <1>2
<1> HIDE DEF X
<1>4. X(1) \o X(0) \in Numbers(2 * Digits)
  BY <1>1, <1>3, Joined
<1>5. Digital(X(1) \o X(0), X(2), X(3))
  <2> DEFINE a == X(1) \o X(0)
             k == 2 * Digits
  <2>1. a \in Numbers(k) /\ k \in Nat /\ Digits < k /\ k = 2 * Digits
    BY <1>1, <1>4
  <2> HIDE DEF a, k
  <2>2. Digital(a, X(2), X(3))
    BY <1>1, <1>3, <2>1, DigitalIs
  <2> QED BY <2>2 DEF a
<1> QED BY <1>5 DEF X

-----------------------------------------------------------------------------
(* The product of M*/ has three cells and its quotient two.                *)

LEMMA CellWeights ==
  ASSUME NEW M, NEW Half, CellSizes(M, Half)
  PROVE  Pow(Digits) = M /\ Pow(2 * Digits) = M * M /\ Pow(3 * Digits) = (M * M) * M
<1>1. M \in Nat /\ Half \in Nat \ {0} /\ 2 ^ Width = M
  BY DEF CellSizes
<1>2. Digits \in Nat /\ 2 * Digits = Digits + Digits /\ 3 * Digits = (Digits + Digits) + Digits
  BY DigitsAssumption
<1>3. Pow(Digits) = M
  BY <1>1 DEF Pow, Width
<1>4. Pow(Digits + Digits) = Pow(Digits) * Pow(Digits)
  BY <1>2, Weights
<1>5. Pow((Digits + Digits) + Digits) = Pow(Digits + Digits) * Pow(Digits)
  <2>1. Digits + Digits \in Nat
    BY <1>2
  <2> QED BY <1>2, <2>1, Weights
<1> QED BY <1>2, <1>3, <1>4, <1>5

LEMMA Imported ==
  ASSUME NEW n \in Nat, NEW v \in Nat, v < Pow(n)
  PROVE  Import(n, v) \in Numbers(n) /\ Value(Import(n, v)) = v
<1> DEFINE p == Pow(n)
<1>1. p \in Nat \ {0} /\ v < p
  BY Weights
<1>2. Import(n, v) \in Numbers(n) /\ Value(Import(n, v)) = v % p
  BY ImportIs
<1> HIDE DEF p
<1>3. v \in 0 .. p - 1
  BY <1>1
<1>4. v % p = v
  BY <1>1, <1>3, Remains
<1> QED BY <1>2, <1>4

LEMMA Extended ==
  ASSUME NEW n \in Nat, NEW m \in Nat, n <= m, NEW x \in Numbers(n)
  PROVE  SetBignum(m, x) \in Numbers(m) /\ Value(SetBignum(m, x)) = Value(x)
<1> DEFINE p == Pow(m)
           q == Pow(n)
           v == Value(x)
<1>1. p \in Nat \ {0} /\ q \in Nat /\ v \in 0 .. q - 1
  BY NumberValue, Weights
<1>2. SetBignum(m, x) \in Numbers(m) /\ Value(SetBignum(m, x)) = v % p
  BY SetBignumIs
<1>3. q <= p
  BY Heavier
<1> HIDE DEF p, q, v
<1>4. v \in 0 .. p - 1
  BY <1>1, <1>3
<1>5. v % p = v
  BY <1>1, <1>4, Remains
<1> QED BY <1>2, <1>5 DEF v

LEMMA ProductBelow ==
  ASSUME NEW p \in Nat, NEW q \in Nat, NEW a \in Nat, NEW b \in Nat, a < p, b < q
  PROVE  a * b \in Nat /\ a * b < p * q
<1> DEFINE i == p - a - 1
           j == q - b - 1
<1>1. i \in Nat /\ j \in Nat /\ p = (a + i) + 1 /\ q = (b + j) + 1
  OBVIOUS
<1> HIDE DEF i, j
<1>2. p * q = a * b + (a * (j + 1)) + ((i + 1) * q)
  BY <1>1
<1>3. a * b \in Nat /\ a * (j + 1) \in Nat /\ (i + 1) * q \in Nat \ {0}
  BY <1>1
<1> QED BY <1>2, <1>3

Tripled(a, b) == Mul(SetBignum(3 * Digits, Import(2 * Digits, a)), Import(Digits, b))
Shared(a, b, d) == SetBignum(2 * Digits, Div(Tripled(a, b), Import(Digits, d), <<>>).x)

LEMMA SharedIs ==
  ASSUME NEW a \in Nat, a < Pow(2 * Digits), NEW b \in Nat, b < Pow(Digits),
         NEW d \in Nat, d < Pow(Digits)
  PROVE  /\ Value(Shared(a, b, d)) \in Nat
         /\ d # 0 => Value(Shared(a, b, d)) = ((a * b) \div d) % Pow(2 * Digits)
<1> DEFINE one == Digits
           two == 2 * Digits
           three == 3 * Digits
           x == SetBignum(three, Import(two, a))
           y == Import(one, b)
           z == Import(one, d)
           tv == Mul(x, y)
           dv == Div(tv, z, <<>>).x
<1>1. /\ one \in Nat /\ two \in Nat /\ three \in Nat /\ one <= three /\ one < three /\ two <= three
      /\ three = two + one
  BY DigitsAssumption
<1>2. Pow(one) \in Nat /\ Pow(two) \in Nat /\ Pow(three) = Pow(two) * Pow(one)
  <2> HIDE DEF one, two, three
  <2> QED BY <1>1, Weights
<1>3. Shared(a, b, d) = SetBignum(two, dv) /\ a < Pow(two) /\ b < Pow(one) /\ d < Pow(one)
  BY DEF Shared, Tripled
<1> HIDE DEF one, two, three
<1>4. x \in Numbers(three) /\ Value(x) = a
  <2>1. Import(two, a) \in Numbers(two) /\ Value(Import(two, a)) = a
    BY <1>1, <1>3, Imported
  <2> QED BY <1>1, <2>1, Extended
<1>5. y \in Numbers(one) /\ Value(y) = b
  BY <1>1, <1>3, Imported
<1>6. z \in Numbers(one) /\ Value(z) = d
  BY <1>1, <1>3, Imported
<1> HIDE DEF x, y, z
<1>7. tv \in Numbers(three) /\ Value(tv) = a * b
  <2>1. tv \in Numbers(three) /\ Value(tv) = (Value(x) * Value(y)) % Pow(three)
    BY <1>1, <1>4, <1>5, MulIs
  <2> DEFINE p == Pow(three)
             ab == a * b
  <2>2. ab \in Nat /\ ab < Pow(two) * Pow(one)
    BY <1>2, <1>3, ProductBelow
  <2>3. p \in Nat \ {0}
    BY <1>1, Weights
  <2>4. ab < p
    BY <1>2, <2>2
  <2>5. Value(tv) = ab % p
    BY <1>4, <1>5, <2>1
  <2> HIDE DEF p, ab
  <2>6. ab \in 0 .. p - 1
    BY <2>2, <2>3, <2>4
  <2>7. ab % p = ab
    BY <2>3, <2>6, Remains
  <2> QED BY <2>1, <2>5, <2>7 DEF ab
<1> HIDE DEF tv
<1>8. dv \in Numbers(three) /\ (d # 0 => Value(dv) = (a * b) \div d)
  <2>1. CASE d = 0
    <3>1. dv = Zero(three)
      BY <1>1, <1>6, <1>7, <2>1, DivByZero
    <3>2. 0 \in Digit
      BY Bases DEF Digit
    <3> QED BY <1>1, <2>1, <3>1, <3>2, SetDigitIs
  <2>2. CASE d # 0
    <3>1. Len(<<>>) = 0 /\ 0 \in Nat
      OBVIOUS
    <3>2. Value(z) # 0
      BY <1>6, <2>2
    <3>3. dv \in Numbers(three) /\ Value(dv) = Value(tv) \div Value(z)
      BY <1>1, <1>6, <1>7, <3>1, <3>2, DivShorter
    <3> QED BY <1>6, <1>7, <3>3
  <2> QED BY <2>1, <2>2
<1> HIDE DEF dv
<1>9. SetBignum(two, dv) \in Numbers(two) /\ Value(SetBignum(two, dv)) = Value(dv) % Pow(two)
  BY <1>1, <1>8, SetBignumIs
<1>10. Value(SetBignum(two, dv)) \in Nat
  BY <1>1, <1>9, NumberValue
<1> QED BY <1>3, <1>8, <1>9, <1>10 DEF two

(* A product of integers, and its quotient by the cell d, from magnitudes. *)
LEMMA SignedQuotient ==
  ASSUME NEW u \in Int, NEW n \in Int, NEW d \in Nat \ {0}
  PROVE  LET k == (Abs(u) * Abs(n)) \div d
         IN /\ u * n \in Int /\ k \in Nat
            /\ u * n < 0 => Quot(u * n, d) = -k /\ (u < 0) # (n < 0) /\ u # 0 /\ n # 0
            /\ u * n >= 0 => Quot(u * n, d) = k /\ ((u < 0) # (n < 0) => k = 0 /\ (u = 0 \/ n = 0))
<1> DEFINE a == Abs(u)
           b == Abs(n)
           p == u * n
           ab == a * b
           k == ab \div d
<1>1. /\ a \in Nat /\ b \in Nat /\ (u < 0 => a = -u) /\ (u >= 0 => a = u)
      /\ (n < 0 => b = -n) /\ (n >= 0 => b = n)
  BY DEF Abs
<1>2. p \in Int /\ ab \in Nat
  BY <1>1
<1>3. /\ p < 0 => ab = -p /\ (u < 0) # (n < 0) /\ u # 0 /\ n # 0
      /\ p >= 0 => ab = p /\ ((u < 0) # (n < 0) => p = 0 /\ (u = 0 \/ n = 0))
  <2>1. CASE u < 0 /\ n < 0
    <3>1. a = -u /\ b = -n /\ (-u) * (-n) = u * n
      BY <1>1, <2>1
    <3>2. (-u) * (-n) >= 0
      BY <2>1
    <3> QED BY <2>1, <3>1, <3>2
  <2>2. CASE u < 0 /\ n >= 0
    <3>1. a = -u /\ b = n /\ (-u) * n = -(u * n)
      BY <1>1, <2>2
    <3>2. (-u) * n >= 0 /\ (n > 0 => (-u) * n > 0)
      BY <2>2
    <3>3. n = 0 => p = 0
      OBVIOUS
    <3> QED BY <1>2, <2>2, <3>1, <3>2, <3>3
  <2>3. CASE u >= 0 /\ n < 0
    <3>1. a = u /\ b = -n /\ u * (-n) = -(u * n)
      BY <1>1, <2>3
    <3>2. u * (-n) >= 0 /\ (u > 0 => u * (-n) > 0)
      BY <2>3
    <3>3. u = 0 => p = 0
      OBVIOUS
    <3> QED BY <1>2, <2>3, <3>1, <3>2, <3>3
  <2>4. CASE u >= 0 /\ n >= 0
    <3>1. a = u /\ b = n
      BY <1>1, <2>4
    <3>2. u * n >= 0
      BY <2>4
    <3> QED BY <2>4, <3>1, <3>2
  <2> QED BY <2>1, <2>2, <2>3, <2>4
<1>4. k \in Nat
  <2> HIDE DEF ab
  <2> QED BY <1>2, QuotientBelow
<1>5. ab = 0 => k = 0
  <2> HIDE DEF ab
  <2> QED BY <1>2, SmallQuotient
<1> HIDE DEF p, ab
<1>6. Abs(p) = ab /\ Abs(d) = d
  BY <1>2, <1>3 DEF Abs
<1>7. Quot(p, d) = IF p < 0 THEN -k ELSE k
  BY <1>2, <1>6 DEF Quot
<1> HIDE DEF k
<1>8. /\ p < 0 => Quot(p, d) = -k /\ (u < 0) # (n < 0) /\ u # 0 /\ n # 0
      /\ p >= 0 => Quot(p, d) = k /\ ((u < 0) # (n < 0) => k = 0 /\ (u = 0 \/ n = 0))
  BY <1>2, <1>3, <1>5, <1>7
<1> QED BY <1>2, <1>4, <1>8 DEF p, k, ab, a, b

LEMMA ScaledIs ==
  ASSUME NEW u \in Int, InDCell(u), NEW n \in Int, InCell(n), NEW d \in Cell
  PROVE  /\ Scaled(u, n, d) \in Int
         /\ d # 0 /\ InDCell(Quot(u * n, d)) =>
              Scaled(u, n, d) = IF u * n < 0 /\ Quot(u * n, d) = 0 THEN -(2 ^ (2 * Width - 1))
                                ELSE Quot(u * n, d)
<1> DEFINE a == Abs(u)
           b == Abs(n)
           h == 2 ^ (2 * Width - 1)
           w == Value(Shared(a, b, d))
           q == w % h
           p == u * n
           k == (a * b) \div d
           z == Quot(p, d)
           pp == Pow(2 * Digits)
<1>1. PICK M, Half : CellSizes(M, Half)
  BY Sizes
<1>2. /\ M \in Nat /\ Half \in Nat \ {0} /\ M = 2 * Half /\ h = M * Half /\ 2 ^ (Width - 1) = Half
      /\ Pow(Digits) = M /\ pp = M * M
  BY <1>1, CellWeights DEF CellSizes
<1>3. d \in Nat /\ d < M
  BY <1>1 DEF CellSizes, Cell
<1>4. h \in Nat \ {0} /\ pp = 2 * h
  <2>1. M * M = 2 * (M * Half) /\ M * Half \in Nat \ {0}
    BY <1>2
  <2> HIDE DEF h, pp
  <2> QED BY <1>2, <2>1
<1>5. -h <= u /\ u < h /\ -Half <= n /\ n < Half
  BY <1>2 DEF InDCell, InCell
<1>6. Scaled(u, n, d) = IF (u < 0) = (n < 0) THEN q
                        ELSE IF q = 0 /\ u # 0 /\ n # 0 THEN -h ELSE -q
  BY DEF Scaled, Shared, Tripled
<1> HIDE DEF h, pp
<1>7. a \in Nat /\ a < pp /\ b \in Nat /\ b < M
  BY <1>2, <1>4, <1>5 DEF Abs
<1>8. w \in Nat /\ (d # 0 => w = k % pp)
  <2> HIDE DEF a, b
  <2>1. a < Pow(2 * Digits) /\ b < Pow(Digits) /\ d < Pow(Digits)
    BY <1>2, <1>3, <1>7 DEF pp
  <2>2. Value(Shared(a, b, d)) \in Nat /\ (d # 0 => Value(Shared(a, b, d)) = ((a * b) \div d) % Pow(2 * Digits))
    BY <1>3, <1>7, <2>1, SharedIs
  <2> QED BY <2>2 DEF pp
<1> HIDE DEF w
<1>9. q \in Nat
  BY <1>4, <1>8
<1>10. Scaled(u, n, d) \in Int
  <2> HIDE DEF q
  <2> QED BY <1>4, <1>6, <1>9
<1>11. ASSUME d # 0, InDCell(z)
       PROVE  Scaled(u, n, d) = IF p < 0 /\ z = 0 THEN -h ELSE z
  <2>1. -h <= z /\ z < h
    BY <1>11 DEF InDCell, h
  <2>2. d \in Nat \ {0}
    BY <1>3, <1>11
  <2>3. /\ p \in Int /\ k \in Nat
        /\ p < 0 => z = -k /\ (u < 0) # (n < 0) /\ u # 0 /\ n # 0
        /\ p >= 0 => z = k /\ ((u < 0) # (n < 0) => k = 0 /\ (u = 0 \/ n = 0))
    BY <2>2, SignedQuotient
  <2> HIDE DEF p, k, z, q
  <2>4. k <= h
    BY <1>4, <2>1, <2>3
  <2>5. w = k
    <3>1. pp \in Nat \ {0} /\ k \in 0 .. pp - 1
      BY <1>4, <2>3, <2>4
    <3>2. k % pp = k
      BY <3>1, Remains
    <3> QED BY <1>8, <1>11, <3>2
  <2>6. k < h => q = k
    <3> SUFFICES ASSUME k < h PROVE q = k
      OBVIOUS
    <3>1. k \in 0 .. h - 1
      BY <1>4, <2>3
    <3>2. k % h = k
      BY <1>4, <3>1, Remains
    <3> QED BY <2>5, <3>2 DEF q
  <2>7. k = h => q = 0
    <3> SUFFICES ASSUME k = h PROVE q = 0
      OBVIOUS
    <3>1. h = h * 1 + 0 /\ 0 \in 0 .. h - 1 /\ 1 \in Int /\ h \in Int
      BY <1>4
    <3>2. h % h = 0
      BY <1>4, <3>1, Unique
    <3> QED BY <2>5, <3>2 DEF q
  <2>8. CASE p >= 0
    <3>1. z = k /\ k < h /\ q = k
      BY <2>1, <2>3, <2>6, <2>8
    <3>2. CASE (u < 0) = (n < 0)
      <4>1. Scaled(u, n, d) = q
        BY <1>6, <3>2
      <4> QED BY <2>3, <2>8, <3>1, <4>1
    <3>3. CASE (u < 0) # (n < 0)
      <4>1. k = 0 /\ (u = 0 \/ n = 0)
        BY <2>3, <2>8, <3>3
      <4>2. Scaled(u, n, d) = -q
        BY <1>6, <3>3, <4>1
      <4>3. z = 0 /\ q = 0 /\ ~(p < 0)
        BY <2>3, <2>8, <3>1, <4>1
      <4>4. \A i \in Int : i >= 0 /\ 0 >= i => -i = i
        OBVIOUS
      <4>5. 0 \in Int /\ 0 >= 0
        OBVIOUS
      <4>6. -q = q
        BY <4>3, <4>4, <4>5
      <4> QED BY <4>2, <4>3, <4>6
    <3> QED BY <3>2, <3>3
  <2>9. CASE p < 0
    <3>1. z = -k /\ (u < 0) # (n < 0) /\ u # 0 /\ n # 0
      BY <2>3, <2>9
    <3>2. Scaled(u, n, d) = IF q = 0 THEN -h ELSE -q
      BY <1>6, <3>1
    <3>3. CASE k = h
      BY <1>4, <2>3, <2>7, <2>9, <3>1, <3>2, <3>3
    <3>4. CASE k < h
      BY <1>4, <2>3, <2>6, <2>9, <3>1, <3>2, <3>4
    <3> QED BY <1>4, <2>3, <2>4, <3>3, <3>4
  <2> QED BY <2>3, <2>8, <2>9
<1> QED BY <1>10, <1>11 DEF h, p, z

-----------------------------------------------------------------------------
(* The stacks of a program: the data stack holds cells, the return stack   *)
(* the return address, below it the limit and the index while a loop runs. *)
Loop(r) == Len(r) = 3 /\ r[1] \in Cell /\ r[2] \in Cell /\ r = <<r[1], r[2], Return>>
StacksOK == st \in Seq(Cell) /\ (rst = <<Return>> \/ Loop(rst))

LEMMA LeavesCells ==
  ASSUME StacksOK, NEW n \in 1 .. 4, n <= Len(st), NEW a \in Int, NEW b \in Int,
         st' = Below(st, n) \o <<ToCell(a), ToCell(b)>>, rst' = rst
  PROVE  /\ StacksOK'
         /\ UPop(st', 0) = ToCell(b) /\ UPop(st', 1) = ToCell(a)
         /\ InCell(b) => Pop(st', 0) = b
         /\ InCell(a) => Pop(st', 1) = a
<1>1. ToCell(a) \in Cell /\ ToCell(b) \in Cell
  BY Wrap
<1>2. st \in Seq(Cell) /\ n \in 0 .. Len(st)
  BY LenProperties DEF StacksOK
<1>3. st' \in Seq(Cell) /\ Top(st', 0) = ToCell(b) /\ Top(st', 1) = ToCell(a)
  <2> DEFINE x == ToCell(a)
             y == ToCell(b)
  <2>1. x \in Cell /\ y \in Cell
    BY <1>1
  <2> HIDE DEF x, y
  <2> DEFINE r == Below(st, n) \o <<x, y>>
  <2>2. r \in Seq(Cell) /\ Top(r, 0) = y /\ Top(r, 1) = x
    BY <1>2, <2>1, Pushed
  <2>3. st' = r
    BY DEF x, y
  <2> HIDE DEF r
  <2> QED BY <2>2, <2>3 DEF x, y
<1>4. (InCell(b) => Signed(ToCell(b), Width) = b) /\ (InCell(a) => Signed(ToCell(a), Width) = a)
  BY Wrap
<1> QED BY <1>3, <1>4 DEF StacksOK, UPop, Pop, Loop

LEMMA LeavesCell ==
  ASSUME StacksOK, NEW n \in 0 .. 4, n <= Len(st), NEW a \in Int,
         st' = Append(Below(st, n), ToCell(a))
  PROVE  /\ st' \in Seq(Cell) /\ Top(st', 0) = ToCell(a)
         /\ InCell(a) => Pop(st', 0) = a
<1>1. ToCell(a) \in Cell
  BY Wrap
<1>2. st \in Seq(Cell) /\ n \in 0 .. Len(st)
  BY LenProperties DEF StacksOK
<1>3. st' \in Seq(Cell) /\ Top(st', 0) = ToCell(a)
  <2> DEFINE x == ToCell(a)
  <2>1. x \in Cell
    BY <1>1
  <2> HIDE DEF x
  <2> DEFINE r == Append(Below(st, n), x)
  <2>2. r \in Seq(Cell) /\ Top(r, 0) = x
    BY <1>2, <2>1, PushedOne
  <2>3. st' = r
    BY DEF x
  <2> HIDE DEF r
  <2> QED BY <2>2, <2>3 DEF x
<1>4. InCell(a) => Signed(ToCell(a), Width) = a
  BY Wrap
<1> QED BY <1>3, <1>4 DEF Pop

-----------------------------------------------------------------------------
(* Divisions.                                                              *)

(* An integer as small as one that stands for a cell stands for a cell.    *)
LEMMA RemainderFits ==
  ASSUME NEW b \in Int, InCell(b), NEW r \in Int, Abs(r) < Abs(b)
  PROVE  InCell(r)
<1>1. PICK M, Half : CellSizes(M, Half)
  BY Sizes
<1>2. Half \in Nat /\ 2 ^ (Width - 1) = Half
  BY <1>1 DEF CellSizes
<1> QED BY <1>2 DEF InCell, Abs

LEMMA UnsignedDivision ==
  ASSUME StacksOK, UM_slash_MOD
  PROVE  StacksOK' /\ DivisionsRight'
<1> DEFINE n == UPop(st, 0)
           d == UDPop(st, 1)
<1>1. Len(st) >= 3 /\ n # 0 /\ st \in Seq(Cell) /\ Len(st) \in Nat
  BY LenProperties DEF UM_slash_MOD, StacksOK
<1>2. n \in Cell /\ n \in Nat /\ d \in Nat
  BY <1>1, Operand, DoubleOperand
<1> HIDE DEF n, d
<1>3. d % n \in 0 .. n - 1 /\ d \div n \in Int /\ n * (d \div n) + (d % n) = d
  BY <1>1, <1>2
<1>4. st' = Below(st, 3) \o <<ToCell(d % n), ToCell(d \div n)>> /\ rst' = rst
  BY DEF UM_slash_MOD, n, d
<1>5. d % n \in Int
  BY <1>1, <1>2, <1>3
<1>6. StacksOK' /\ UPop(st', 0) = ToCell(d \div n) /\ UPop(st', 1) = ToCell(d % n)
  <2> DEFINE a == d % n
             b == d \div n
  <2>1. a \in Int /\ b \in Int /\ 3 \in 1 .. 4 /\ 3 <= Len(st)
    BY <1>1, <1>3, <1>5
  <2> HIDE DEF a, b
  <2>2. st' = Below(st, 3) \o <<ToCell(a), ToCell(b)>> /\ rst' = rst
    BY <1>4 DEF a, b
  <2>3. StacksOK' /\ UPop(st', 0) = ToCell(b) /\ UPop(st', 1) = ToCell(a)
    BY <2>1, <2>2, LeavesCells
  <2> QED BY <2>3 DEF a, b
<1>7. d % n \in Cell
  <2>1. PICK M, Half : CellSizes(M, Half)
    BY Sizes
  <2>2. Cell = 0 .. M - 1 /\ M \in Nat
    BY <2>1 DEF CellSizes, Cell
  <2> QED BY <1>1, <1>2, <1>3, <2>2
<1>8. ToCell(d % n) = d % n /\ (d \div n \in Cell => ToCell(d \div n) = d \div n)
  BY <1>3, <1>5, <1>7, Wrap
<1>9. d \div n \in Cell => UPop(st', 0) * n + UPop(st', 1) = d /\ UPop(st', 1) < n
  <2> DEFINE k == d \div n
             r == d % n
  <2>1. k \in Int /\ r \in 0 .. n - 1 /\ n * k + r = d /\ n \in Nat
    BY <1>2, <1>3
  <2>2. k \in Cell => UPop(st', 0) = k /\ UPop(st', 1) = r
    BY <1>6, <1>8
  <2> HIDE DEF k, r
  <2>3. k * n + r = d /\ r < n
    BY <2>1
  <2>4. k \in Cell => UPop(st', 0) * n + UPop(st', 1) = d /\ UPop(st', 1) < n
    BY <2>2, <2>3
  <2> QED BY <2>4 DEF k
<1>10. call' = [word |-> "UM/MOD", st |-> st, rst |-> rst]
  BY DEF UM_slash_MOD, Called
<1>11. call'.word = "UM/MOD" /\ call'.st = st
  BY <1>10
<1>12. DivisionsRight'
  BY <1>9, <1>11 DEF DivisionsRight, Did, n, d
<1> QED BY <1>6, <1>12

(* A quotient rounded to zero over its remainder.                          *)
LEMMA RoundsToZero ==
  ASSUME StacksOK, 3 <= Len(st), NEW d \in Int, NEW n \in Int, n # 0, InCell(n), rst' = rst,
         st' = Below(st, 3) \o <<ToCell(Rem(d, n)), ToCell(Quot(d, n))>>
  PROVE  /\ StacksOK'
         /\ InCell(Quot(d, n)) => /\ Pop(st', 0) = Quot(d, n) /\ Pop(st', 1) = Rem(d, n)
                                  /\ d = Quot(d, n) * n + Rem(d, n)
<1> DEFINE a == Rem(d, n)
           b == Quot(d, n)
<1>1. a \in Int /\ b \in Int /\ a = d - n * b /\ Abs(a) < Abs(n)
  BY Quotient
<1>2. InCell(a)
  BY <1>1, RemainderFits
<1> HIDE DEF a, b
<1>3. st' = Below(st, 3) \o <<ToCell(a), ToCell(b)>> /\ 3 \in 1 .. 4
  BY DEF a, b
<1>4. StacksOK' /\ (InCell(b) => Pop(st', 0) = b) /\ (InCell(a) => Pop(st', 1) = a)
  BY <1>1, <1>3, LeavesCells
<1>5. d = b * n + a
  <2>1. n * b = b * n /\ n * b \in Int
    BY <1>1
  <2> QED BY <1>1, <2>1
<1> QED BY <1>2, <1>4, <1>5 DEF a, b

LEMMA SymmetricDivision ==
  ASSUME StacksOK, SM_slash_REM
  PROVE  StacksOK' /\ DivisionsRight'
<1> DEFINE n == Pop(st, 0)
           d == DPop(st, 1)
<1>1. Len(st) >= 3 /\ n # 0 /\ st \in Seq(Cell) /\ Len(st) \in Nat
  BY LenProperties DEF SM_slash_REM, StacksOK, Divides
<1>2. n \in Int /\ InCell(n) /\ d \in Int
  BY <1>1, Operand, DoubleOperand
<1>3. st' = Below(st, 3) \o <<ToCell(Rem(d, n)), ToCell(Quot(d, n))>> /\ rst' = rst
  BY DEF SM_slash_REM
<1> HIDE DEF n, d
<1>4. /\ StacksOK'
      /\ InCell(Quot(d, n)) => /\ Pop(st', 0) = Quot(d, n) /\ Pop(st', 1) = Rem(d, n)
                               /\ d = Quot(d, n) * n + Rem(d, n)
  BY <1>1, <1>2, <1>3, RoundsToZero
<1>5. call'.word = "SM/REM" /\ call'.st = st
  BY DEF SM_slash_REM, Called
<1>6. DivisionsRight'
  BY <1>4, <1>5 DEF DivisionsRight, Did, Divided, n, d
<1> QED BY <1>4, <1>6

LEMMA ProductDivision ==
  ASSUME StacksOK, star_slash_MOD
  PROVE  StacksOK' /\ DivisionsRight'
<1> DEFINE n == Pop(st, 0)
           d == Pop(st, 2) * Pop(st, 1)
<1>1. Len(st) >= 3 /\ n # 0 /\ st \in Seq(Cell) /\ Len(st) \in Nat
  BY LenProperties DEF star_slash_MOD, StacksOK
<1>2. n \in Int /\ InCell(n) /\ d \in Int
  <2>1. Pop(st, 2) \in Int /\ Pop(st, 1) \in Int /\ n \in Int /\ InCell(n)
    BY <1>1, Operand
  <2> QED BY <2>1
<1>3. st' = Below(st, 3) \o <<ToCell(Rem(d, n)), ToCell(Quot(d, n))>> /\ rst' = rst
  BY DEF star_slash_MOD
<1> HIDE DEF n, d
<1>4. /\ StacksOK'
      /\ InCell(Quot(d, n)) => /\ Pop(st', 0) = Quot(d, n) /\ Pop(st', 1) = Rem(d, n)
                               /\ d = Quot(d, n) * n + Rem(d, n)
  BY <1>1, <1>2, <1>3, RoundsToZero
<1>5. call'.word = "*/MOD" /\ call'.st = st
  BY DEF star_slash_MOD, Called
<1>6. DivisionsRight'
  BY <1>4, <1>5 DEF DivisionsRight, Did, Divided, n, d
<1> QED BY <1>4, <1>6

LEMMA ProductQuotient ==
  ASSUME StacksOK, star_slash
  PROVE  StacksOK' /\ DivisionsRight'
<1> DEFINE n == Pop(st, 0)
           d == Pop(st, 2) * Pop(st, 1)
           q == Quot(d, n)
<1>1. Len(st) >= 3 /\ n # 0 /\ st \in Seq(Cell) /\ Len(st) \in Nat
  BY LenProperties DEF star_slash, StacksOK
<1>2. n \in Int /\ d \in Int
  <2>1. Pop(st, 2) \in Int /\ Pop(st, 1) \in Int /\ n \in Int
    BY <1>1, Operand
  <2> QED BY <2>1
<1>3. st' = Append(Below(st, 3), ToCell(q)) /\ rst' = rst
  BY DEF star_slash
<1> HIDE DEF n, d
<1>4. q \in Int
  BY <1>1, <1>2, Quotient
<1> HIDE DEF q
<1>5. st' \in Seq(Cell) /\ (InCell(q) => Pop(st', 0) = q)
  <2>1. 3 \in 0 .. 4 /\ 3 <= Len(st)
    BY <1>1
  <2> QED BY <1>3, <1>4, <2>1, LeavesCell
<1>6. call'.word = "*/" /\ call'.st = st
  BY DEF star_slash, Called
<1>7. DivisionsRight'
  BY <1>5, <1>6 DEF DivisionsRight, Did, Divided, n, d, q
<1> QED BY <1>3, <1>5, <1>7 DEF StacksOK, Loop

(* The remainder cut to a cell is zero when the remainder is, so that the  *)
(* correction is made exactly when rounding down asks for it.              *)
LEMMA FlooredDivision ==
  ASSUME StacksOK, FM_slash_MOD
  PROVE  StacksOK' /\ DivisionsRight'
<1> DEFINE n == Pop(st, 0)
           d == DPop(st, 1)
           fix == IF FMCorrects(d, n) THEN 1 ELSE 0
           a == Rem(d, n) + fix * n
           b == Quot(d, n) - fix
<1>1. Len(st) >= 3 /\ n # 0 /\ st \in Seq(Cell) /\ Len(st) \in Nat
  BY LenProperties DEF FM_slash_MOD, StacksOK, Divides
<1>2. n \in Int /\ InCell(n) /\ d \in Int
  BY <1>1, Operand, DoubleOperand
<1>3. st' = Below(st, 3) \o <<ToCell(a), ToCell(b)>> /\ rst' = rst
  BY DEF FM_slash_MOD
<1>4. call'.word = "FM/MOD" /\ call'.st = st
  BY DEF FM_slash_MOD, Called
<1> HIDE DEF n, d
<1> DEFINE r == Rem(d, n)
           q == Quot(d, n)
<1>5. /\ r \in Int /\ q \in Int /\ r = d - n * q /\ Abs(r) < Abs(n)
      /\ (d < 0 => r <= 0) /\ (d >= 0 => r >= 0)
  BY <1>1, <1>2, Quotient
<1>6. Floor(d, n) \in Int /\ Floor(d, n) = q - IF r # 0 /\ (d < 0) # (n < 0) THEN 1 ELSE 0
  BY <1>1, <1>2, FloorIs
<1>7. ToCell(r) # 0 <=> r # 0
  <2>1. InCell(r)
    BY <1>2, <1>5, RemainderFits
  <2>2. Signed(ToCell(r), Width) = r
    BY <1>5, <2>1, Wrap
  <2>3. 0 \in Int /\ InCell(0) /\ Signed(0, Width) = 0 /\ 0 \in Cell
    <3>1. PICK M, Half : CellSizes(M, Half)
      BY Sizes
    <3>2. Half \in Nat \ {0} /\ 2 ^ (Width - 1) = Half /\ Cell = 0 .. 2 * Half - 1
      BY <3>1 DEF CellSizes, Cell
    <3> QED BY <3>2 DEF InCell, Signed
  <2>4. ToCell(0) = 0
    BY <2>3, Wrap
  <2> QED BY <2>2, <2>3, <2>4
<1>8. fix = IF r # 0 /\ (d < 0) # (n < 0) THEN 1 ELSE 0
  BY <1>7 DEF FMCorrects
<1>9. a = r + fix * n /\ b = q - fix /\ (fix = 0 \/ fix = 1)
  OBVIOUS
<1> HIDE DEF fix, a, b, r, q
<1>10. b = Floor(d, n) /\ b \in Int
  BY <1>6, <1>8, <1>9
<1>11. a = d - n * b /\ a \in Int
  <2>1. n * q \in Int /\ n * (q - 1) = n * q - n
    BY <1>2, <1>5
  <2>2. CASE fix = 0
    <3>1. a = r /\ b = q
      BY <1>2, <1>5, <1>9, <2>2
    <3> QED BY <1>5, <3>1
  <2>3. CASE fix = 1
    <3>1. a = r + n /\ b = q - 1
      BY <1>2, <1>5, <1>9, <2>3
    <3>2. n * b = n * q - n
      BY <2>1, <3>1
    <3> QED BY <1>2, <1>5, <2>1, <3>1, <3>2
  <2> QED BY <1>9, <2>2, <2>3
<1>12. Abs(a) < Abs(n)
  <2>1. CASE fix = 0
    <3>1. a = r
      BY <1>2, <1>5, <1>9, <2>1
    <3> QED BY <1>5, <3>1
  <2>2. CASE fix = 1
    <3>1. a = r + n /\ r # 0 /\ (d < 0) # (n < 0)
      BY <1>2, <1>5, <1>8, <1>9, <2>2
    <3> QED BY <1>2, <1>5, <3>1 DEF Abs
  <2> QED BY <1>9, <2>1, <2>2
<1>13. InCell(a)
  BY <1>2, <1>11, <1>12, RemainderFits
<1>14. StacksOK' /\ (InCell(b) => Pop(st', 0) = b) /\ (InCell(a) => Pop(st', 1) = a)
  <2>1. 3 \in 1 .. 4 /\ 3 <= Len(st)
    BY <1>1
  <2> QED BY <1>3, <1>10, <1>11, <2>1, LeavesCells
<1>15. d = b * n + a
  <2>1. b * n = n * b /\ n * b \in Int
    BY <1>2, <1>10
  <2> QED BY <1>2, <1>11, <2>1
<1>16. InCell(Floor(d, n)) => Pop(st', 0) = Floor(d, n) /\ Pop(st', 1) = d - n * Floor(d, n)
                              /\ d = Floor(d, n) * n + (d - n * Floor(d, n))
  BY <1>10, <1>11, <1>13, <1>14, <1>15
<1>17. DivisionsRight'
  BY <1>4, <1>16 DEF DivisionsRight, Did, Divided, Floor, n, d
<1> QED BY <1>14, <1>17

LEMMA Scaling ==
  ASSUME StacksOK, M_star_slash
  PROVE  StacksOK' /\ DivisionsRight' /\ ScaledRight'
<1> DEFINE v == Scaled(DPop(st, 2), Pop(st, 1), UPop(st, 0))
           d == UPop(st, 0)
           p == DPop(st, 2) * Pop(st, 1)
           q == Quot(p, d)
<1>1. Len(st) >= 4 /\ st \in Seq(Cell) /\ Len(st) \in Nat
  BY LenProperties DEF M_star_slash, StacksOK
<1>2. /\ v \in Int
      /\ d # 0 /\ InDCell(q) => v = IF p < 0 /\ q = 0 THEN -(2 ^ (2 * Width - 1)) ELSE q
  <2>1. DPop(st, 2) \in Int /\ InDCell(DPop(st, 2))
    BY <1>1, DoubleOperand
  <2>2. Pop(st, 1) \in Int /\ InCell(Pop(st, 1)) /\ d \in Cell
    BY <1>1, Operand
  <2> QED BY <2>1, <2>2, ScaledIs
<1>3. st' = Below(st, 4) \o <<ToCell(v), ToCell(v \div 2 ^ Width)>> /\ rst' = rst
  BY DEF M_star_slash, DPush
<1> HIDE DEF v, p, q
<1>4. v \div 2 ^ Width \in Int
  <2>1. 2 ^ Width \in Nat \ {0}
    BY Sizes, Counted
  <2> DEFINE m == 2 ^ Width
  <2> HIDE DEF m
  <2>2. m \in Nat \ {0}
    BY <2>1 DEF m
  <2>3. v \div m \in Int
    BY <1>2, <2>2
  <2> QED BY <2>3 DEF m
<1>5. StacksOK' /\ UPop(st', 0) = ToCell(v \div 2 ^ Width) /\ UPop(st', 1) = ToCell(v)
  <2> DEFINE b == v \div 2 ^ Width
  <2>1. 4 \in 1 .. 4 /\ 4 <= Len(st) /\ b \in Int
    BY <1>1, <1>4
  <2> HIDE DEF b
  <2>2. st' = Below(st, 4) \o <<ToCell(v), ToCell(b)>> /\ rst' = rst
    BY <1>3 DEF b
  <2>3. StacksOK' /\ UPop(st', 0) = ToCell(b) /\ UPop(st', 1) = ToCell(v)
    BY <1>2, <2>1, <2>2, LeavesCells
  <2> QED BY <2>3 DEF b
<1>6. call'.word = "M*/" /\ call'.st = st
  BY DEF M_star_slash, Called
<1>7. DPop(st', 0) = Signed(ToCell(v \div 2 ^ Width) * 2 ^ Width + ToCell(v), 2 * Width)
  <2>1. 0 + 1 = 1
    OBVIOUS
  <2> QED BY <1>5, <2>1 DEF DPop, UDPop, UPop
<1>8. d # 0 /\ InDCell(q) => DPop(st', 0) = IF p < 0 /\ q = 0 THEN -(2 ^ (2 * Width - 1)) ELSE q
  <2> SUFFICES ASSUME d # 0, InDCell(q)
               PROVE  DPop(st', 0) = IF p < 0 /\ q = 0 THEN -(2 ^ (2 * Width - 1)) ELSE q
    OBVIOUS
  <2>1. v = IF p < 0 /\ q = 0 THEN -(2 ^ (2 * Width - 1)) ELSE q
    BY <1>2
  <2>2. InDCell(v)
    <3> DEFINE h == 2 ^ (2 * Width - 1)
    <3>1. h \in Nat \ {0}
      <4>1. 2 * Width - 1 \in Nat
        BY Sizes
      <4> QED BY <4>1, Counted
    <3> HIDE DEF h
    <3>2. v = (IF p < 0 /\ q = 0 THEN -h ELSE q) /\ -h <= q /\ q < h
      BY <2>1 DEF InDCell, h
    <3>3. -h <= v /\ v < h
      <4>1. CASE p < 0 /\ q = 0
        <5>1. v = -h
          BY <3>2, <4>1
        <5> QED BY <3>1, <5>1
      <4>2. CASE ~(p < 0 /\ q = 0)
        <5>1. v = q
          BY <3>2, <4>2
        <5> QED BY <3>2, <5>1
      <4> QED BY <4>1, <4>2
    <3> QED BY <3>3 DEF InDCell, h
  <2>3. DPop(st', 0) = v
    BY <1>2, <1>7, <2>2, DoubleKept
  <2> QED BY <2>1, <2>3
<1>9. ScaledRight'
  BY <1>6, <1>8 DEF ScaledRight, Did, p, q
<1> QED BY <1>5, <1>6, <1>9 DEF DivisionsRight, Did

-----------------------------------------------------------------------------
(* Loops.                                                                  *)

(* One turn around the circle of cells at most, either way.                *)
LEMMA Around ==
  ASSUME NEW Half, CellSizes(2 * Half, Half), NEW v \in Int, -2 * Half <= v, v < 4 * Half
  PROVE  ToCell(v) = IF v < 0 THEN v + 2 * Half ELSE IF v < 2 * Half THEN v ELSE v - 2 * Half
<1> DEFINE M == 2 * Half
           k == v \div M
           r == v % M
<1>1. Half \in Nat \ {0} /\ 2 ^ Width = M
  BY DEF CellSizes
<1>2. k \in Int /\ r \in 0 .. M - 1 /\ v = M * k + r
  BY <1>1
<1>3. ToCell(v) = r
  BY <1>1 DEF ToCell
<1> HIDE DEF k, r
<1>4. CASE k >= 2
  <2>1. Half * (k - 2) >= 0 /\ M * k = 2 * (Half * (k - 2)) + 4 * Half /\ Half * (k - 2) \in Int
    BY <1>1, <1>2, <1>4
  <2> QED BY <1>1, <1>2, <2>1
<1>5. CASE k = 1
  BY <1>1, <1>2, <1>3, <1>5
<1>6. CASE k = 0
  BY <1>1, <1>2, <1>3, <1>6
<1>7. CASE k = -1
  BY <1>1, <1>2, <1>3, <1>7
<1>8. CASE k <= -2
  <2>1. Half * (-2 - k) >= 0 /\ M * k = -4 * Half - 2 * (Half * (-2 - k)) /\ Half * (-2 - k) \in Int
    BY <1>1, <1>2, <1>8
  <2> QED BY <1>1, <1>2, <2>1
<1> QED BY <1>2, <1>4, <1>5, <1>6, <1>7, <1>8

LEMMA CrossesIsCrossed ==
  ASSUME NEW i \in Cell, NEW l \in Cell, NEW s \in Cell
  PROVE  /\ Crosses(ToCell(i - l), s) <=> Crossed(i, l, Signed(s, Width))
         /\ ToCell(i + s) = ToCell(i + Signed(s, Width))
         /\ Crossed(i, l, 1) <=> ToCell(i + 1) = l
<1>1. PICK M, H : CellSizes(M, H)
  BY Sizes
<1>2. /\ H \in Nat \ {0} /\ M = 2 * H /\ Cell = 0 .. 2 * H - 1 /\ CellSizes(2 * H, H)
      /\ 2 ^ (Width - 1) = H /\ 2 ^ Width = 2 * H
  BY <1>1 DEF CellSizes, Cell
<1>3. i \in 0 .. 2 * H - 1 /\ l \in 0 .. 2 * H - 1 /\ s \in 0 .. 2 * H - 1
  BY <1>2
<1> DEFINE inc == Signed(s, Width)
           o == ToCell(i - l)
           sum == ToCell(o + s)
           Turned(v) == IF v < 0 THEN v + 2 * H ELSE IF v < 2 * H THEN v ELSE v - 2 * H
<1>4. \A v \in Int : -2 * H <= v /\ v < 4 * H => ToCell(v) = Turned(v)
  BY <1>2, Around
<1>5. inc = IF s < H THEN s ELSE s - 2 * H
  BY <1>2 DEF Signed
<1>6. o = Turned(i - l) /\ o \in 0 .. 2 * H - 1
  <2>1. i - l \in Int /\ -2 * H <= i - l /\ i - l < 4 * H
    BY <1>2, <1>3
  <2>2. o = Turned(i - l)
    BY <1>4, <2>1
  <2> QED BY <1>2, <1>3, <2>2
<1>7. sum = Turned(o + s) /\ sum \in 0 .. 2 * H - 1
  <2> HIDE DEF o
  <2>1. o + s \in Int /\ -2 * H <= o + s /\ o + s < 4 * H
    BY <1>2, <1>3, <1>6
  <2>2. sum = Turned(o + s)
    BY <1>4, <2>1
  <2> QED BY <1>2, <1>3, <1>6, <2>2
<1>8. \A c \in 0 .. 2 * H - 1 : IsNegative(c) <=> c >= H
  BY <1>2 DEF IsNegative, Signed
<1>9. Crosses(o, s) <=> \/ o >= H /\ sum < H /\ s < H
                        \/ o < H /\ sum >= H /\ s >= H
  <2> DEFINE a == IsNegative(o)
             b == IsNegative(sum)
             c == IsNegative(s)
  <2>1. (a <=> o >= H) /\ (b <=> sum >= H) /\ (c <=> s >= H)
    <3> HIDE DEF o, sum
    <3> QED BY <1>3, <1>6, <1>7, <1>8
  <2>2. Crosses(o, s) <=> a # b /\ a # c
    <3> HIDE DEF o
    <3> QED BY DEF Crosses, SignsDiffer
  <2>3. a \in BOOLEAN /\ b \in BOOLEAN /\ c \in BOOLEAN
    BY DEF IsNegative
  <2> HIDE DEF a, b, c
  <2>4. Crosses(o, s) <=> (a /\ ~b /\ ~c) \/ (~a /\ b /\ c)
    BY <2>2, <2>3
  <2>5. (~b <=> sum < H) /\ (~c <=> s < H) /\ (~a <=> o < H)
    <3> HIDE DEF o, sum
    <3> QED BY <1>2, <1>3, <1>6, <1>7, <2>1
  <2> QED BY <2>1, <2>4, <2>5
<1> HIDE DEF inc, o, sum
<1>10. \A k \in 1 .. 2 * H : ToCell(i + k) = Turned(i + k) /\ ToCell(i - k) = Turned(i - k)
  <2> SUFFICES ASSUME NEW k \in 1 .. 2 * H PROVE ToCell(i + k) = Turned(i + k) /\ ToCell(i - k) = Turned(i - k)
    OBVIOUS
  <2>1. /\ i + k \in Int /\ -2 * H <= i + k /\ i + k < 4 * H
        /\ i - k \in Int /\ -2 * H <= i - k /\ i - k < 4 * H
    BY <1>2, <1>3
  <2> HIDE DEF Turned
  <2> QED BY <1>4, <2>1
<1>11. ToCell(l - 1) = IF l = 0 THEN 2 * H - 1 ELSE l - 1
  <2>1. l - 1 \in Int /\ -2 * H <= l - 1 /\ l - 1 < 4 * H
    BY <1>2, <1>3
  <2>2. ToCell(l - 1) = Turned(l - 1)
    BY <1>4, <2>1
  <2> QED BY <1>2, <1>3, <2>2
<1>12. ASSUME s < H PROVE Crosses(o, s) <=> Crossed(i, l, inc)
  <2>1. inc = s /\ (Crosses(o, s) <=> o >= H /\ o + s >= 2 * H)
    BY <1>2, <1>3, <1>5, <1>6, <1>7, <1>9, <1>12
  <2>2. ASSUME o >= H, o + s >= 2 * H PROVE \E k \in 1 .. s : ToCell(i + k) = l
    <3>1. 2 * H - o \in 1 .. s /\ 2 * H - o \in 1 .. 2 * H /\ Turned(i + (2 * H - o)) = l
      BY <1>2, <1>3, <1>6, <1>12, <2>2
    <3> QED BY <1>10, <3>1
  <2>3. ASSUME NEW k \in 1 .. s, ToCell(i + k) = l PROVE o >= H /\ o + s >= 2 * H
    <3>1. k \in 1 .. 2 * H /\ k \in 1 .. s
      BY <1>2, <1>3
    <3>2. Turned(i + k) = l
      BY <1>10, <2>3, <3>1
    <3> QED BY <1>2, <1>3, <1>6, <1>12, <3>1, <3>2
  <2>4. Crossed(i, l, inc) <=> s > 0 /\ \E k \in 1 .. s : ToCell(i + k) = l
    BY <1>3, <2>1 DEF Crossed
  <2>5. (\E k \in 1 .. s : ToCell(i + k) = l) => s > 0
    BY <1>3
  <2> QED BY <2>1, <2>2, <2>3, <2>4, <2>5
<1>13. ASSUME s >= H PROVE Crosses(o, s) <=> Crossed(i, l, inc)
  <2> DEFINE back == 2 * H - s
  <2>1. inc = -back /\ back \in 1 .. H /\ (Crosses(o, s) <=> o < H /\ o < back)
    BY <1>2, <1>3, <1>5, <1>6, <1>7, <1>9, <1>13
  <2>2. ASSUME o < H, o < back PROVE \E k \in 1 .. back : ToCell(i - k) = ToCell(l - 1)
    <3>1. o + 1 \in 1 .. back /\ o + 1 \in 1 .. 2 * H
      BY <1>2, <1>6, <2>1, <2>2
    <3>2. Turned(i - (o + 1)) = IF l = 0 THEN 2 * H - 1 ELSE l - 1
      BY <1>2, <1>3, <1>6, <2>2
    <3> QED BY <1>10, <1>11, <3>1, <3>2
  <2>3. ASSUME NEW k \in 1 .. back, ToCell(i - k) = ToCell(l - 1) PROVE o < H /\ o < back
    <3>1. k \in 1 .. 2 * H /\ k \in 1 .. back
      BY <1>2, <2>1
    <3>2. Turned(i - k) = IF l = 0 THEN 2 * H - 1 ELSE l - 1
      BY <1>10, <1>11, <2>3, <3>1
    <3> HIDE DEF back
    <3> QED BY <1>2, <1>3, <1>6, <2>1, <3>1, <3>2
  <2>4. Crossed(i, l, inc) <=> \E k \in 1 .. back : ToCell(i - k) = ToCell(l - 1)
    <3> HIDE DEF back
    <3>1. ~(inc > 0) /\ inc < 0 /\ -inc = back
      BY <1>2, <2>1
    <3> QED BY <3>1 DEF Crossed
  <2> QED BY <2>1, <2>2, <2>3, <2>4
<1>14. Crosses(o, s) <=> Crossed(i, l, inc)
  BY <1>2, <1>3, <1>12, <1>13
<1>15. ToCell(i + s) = ToCell(i + inc)
  <2>1. CASE s < H
    BY <1>5, <2>1
  <2>2. CASE s >= H
    <3>1. i + inc \in Int /\ -2 * H <= i + inc /\ i + inc < 4 * H
      BY <1>2, <1>3, <1>5, <2>2
    <3>2. i + s \in Int /\ -2 * H <= i + s /\ i + s < 4 * H
      BY <1>2, <1>3
    <3>3. ToCell(i + inc) = Turned(i + inc) /\ ToCell(i + s) = Turned(i + s)
      <4> HIDE DEF Turned
      <4> QED BY <1>4, <3>1, <3>2
    <3>4. Turned(i + inc) = Turned(i + s)
      BY <1>2, <1>3, <1>5, <2>2
    <3> QED BY <3>3, <3>4
  <2> QED BY <1>2, <1>3, <2>1, <2>2
<1>16. Crossed(i, l, 1) <=> ToCell(i + 1) = l
  BY DEF Crossed
<1> QED BY <1>14, <1>15, <1>16 DEF o, inc

LEMMA LoopStack ==
  ASSUME StacksOK, Len(rst) >= 3
  PROVE  /\ Index \in Cell /\ Limit \in Cell
         /\ Append(Below(rst, 3), Top(rst, 0)) = <<Return>>
         /\ \A i \in Cell : Loop(Below(rst, 3) \o <<i, Limit, Top(rst, 0)>>)
<1>1. Loop(rst)
  <2>1. Len(<<Return>>) = 1
    OBVIOUS
  <2> QED BY <2>1 DEF StacksOK
<1>2. Len(rst) = 3 /\ rst[1] \in Cell /\ rst[2] \in Cell /\ rst[3] = Return
  BY <1>1 DEF Loop
<1>3. Index = rst[1] /\ Limit = rst[2] /\ Top(rst, 0) = Return
  BY <1>2 DEF Index, Limit, Top
<1>4. Below(rst, 3) = <<>>
  <2>1. SubSeq(rst, 1, 0) = <<>>
    OBVIOUS
  <2> QED BY <1>2, <2>1 DEF Below
<1>5. Append(<<>>, Return) = <<Return>>
  OBVIOUS
<1>6. ASSUME NEW i \in Cell PROVE Loop(<<>> \o <<i, rst[2], Return>>)
  <2> DEFINE t == <<i, rst[2], Return>>
  <2>1. t \in Seq({i, rst[2], Return}) /\ Len(t) = 3 /\ t[1] = i /\ t[2] = rst[2] /\ t[3] = Return
    OBVIOUS
  <2>2. <<>> \o t = t
    <3> HIDE DEF t
    <3> QED BY <2>1, ConcatEmptySeq
  <2> QED BY <1>2, <2>1, <2>2 DEF Loop
<1> QED BY <1>2, <1>3, <1>4, <1>5, <1>6

LEMMA LoopSteps ==
  ASSUME StacksOK, SYS_LOOP
  PROVE  StacksOK' /\ LoopEnds'
<1> DEFINE index == ToCell(Index + 1)
<1>1. Len(rst) >= 3 /\ st \in Seq(Cell)
  BY DEF SYS_LOOP, StacksOK
<1>2. /\ Index \in Cell /\ Limit \in Cell /\ Append(Below(rst, 3), Top(rst, 0)) = <<Return>>
      /\ \A i \in Cell : Loop(Below(rst, 3) \o <<i, Limit, Top(rst, 0)>>)
  BY <1>1, LoopStack
<1>3. index \in Cell /\ True \in Cell /\ 0 \in Cell
  <2>1. Index + 1 \in Int
    BY <1>2, CellIsSigned
  <2>2. PICK M, Half : CellSizes(M, Half)
    BY Sizes
  <2>3. 0 \in Cell
    BY <2>2 DEF CellSizes, Cell
  <2> QED BY <2>1, <2>3, Wrap DEF True
<1> HIDE DEF index
<1>4. Crossed(Index, Limit, 1) <=> index = Limit
  <2>1. 0 \in Cell
    BY <1>3
  <2> QED BY <1>2, <2>1, CrossesIsCrossed DEF index
<1>5. IF index = Limit THEN Ends ELSE Repeats(st, index)
  BY DEF SYS_LOOP, index
<1>6. call'.word = "LOOP" /\ call'.st = st /\ call'.rst = rst
  BY DEF SYS_LOOP, Called
<1>7. \A c \in Cell : Append(st, c) \in Seq(Cell) /\ Top(Append(st, c), 0) = c
  <2> SUFFICES ASSUME NEW c \in Cell PROVE Append(st, c) \in Seq(Cell) /\ Top(Append(st, c), 0) = c
    OBVIOUS
  <2>1. /\ Append(st, c) \in Seq(Cell) /\ Len(Append(st, c)) = Len(st) + 1
        /\ Append(st, c)[Len(st) + 1] = c /\ Len(st) \in Nat
    BY <1>1, AppendProperties, LenProperties
  <2>2. Len(Append(st, c)) - 0 = Len(st) + 1
    BY <2>1
  <2> QED BY <2>1, <2>2 DEF Top
<1>8. /\ index = Limit => Top(st', 0) = True /\ rst' = Append(Below(rst, 3), Top(rst, 0))
      /\ index # Limit => /\ Top(st', 0) = 0
                          /\ rst' = Below(rst, 3) \o <<index, Limit, Top(rst, 0)>>
      /\ st' \in Seq(Cell)
  BY <1>3, <1>5, <1>7 DEF Ends, Repeats
<1>9. StacksOK'
  <2>1. rst' = <<Return>> \/ Loop(rst')
    BY <1>2, <1>3, <1>8
  <2> QED BY <1>8, <2>1 DEF StacksOK, Loop
<1>10. LoopEnds'
  BY <1>4, <1>6, <1>8 DEF LoopEnds, Index, Limit, index
<1> QED BY <1>9, <1>10

LEMMA PlusLoopSteps ==
  ASSUME StacksOK, SYS_plus_LOOP
  PROVE  StacksOK' /\ LoopEnds'
<1> DEFINE s == UPop(st, 0)
           inc == Pop(st, 0)
<1>1. Len(rst) >= 3 /\ st \in Seq(Cell) /\ Len(st) \in Nat /\ Len(st) >= 1
  BY LenProperties DEF SYS_plus_LOOP, StacksOK
<1>2. /\ Index \in Cell /\ Limit \in Cell /\ Append(Below(rst, 3), Top(rst, 0)) = <<Return>>
      /\ \A i \in Cell : Loop(Below(rst, 3) \o <<i, Limit, Top(rst, 0)>>)
  BY <1>1, LoopStack
<1>3. s \in Cell /\ inc = Signed(s, Width)
  BY <1>1, Operand DEF Pop, UPop
<1>4. IF Crosses(ToCell(Index - Limit), s)
      THEN st' = Append(Below(st, 1), True) /\ rst' = Append(Below(rst, 3), Top(rst, 0))
      ELSE /\ st' = Append(Below(st, 1), 0)
           /\ rst' = Below(rst, 3) \o <<ToCell(Index + s), Limit, Top(rst, 0)>>
  BY DEF SYS_plus_LOOP, Repeats
<1> HIDE DEF s, inc
<1>5. /\ Crosses(ToCell(Index - Limit), s) <=> Crossed(Index, Limit, inc)
      /\ ToCell(Index + s) = ToCell(Index + inc)
  BY <1>2, <1>3, CrossesIsCrossed
<1>6. call'.word = "+LOOP" /\ call'.st = st /\ call'.rst = rst
  BY DEF SYS_plus_LOOP, Called
<1>7. \A c \in Cell : Append(Below(st, 1), c) \in Seq(Cell) /\ Top(Append(Below(st, 1), c), 0) = c
  <2>1. 1 \in 0 .. Len(st)
    BY <1>1
  <2> QED BY <1>1, <2>1, PushedOne
<1>8. ToCell(Index + s) \in Cell /\ True \in Cell /\ 0 \in Cell
  <2>1. Index + s \in Int
    BY <1>2, <1>3, CellIsSigned
  <2>2. PICK M, Half : CellSizes(M, Half)
    BY Sizes
  <2>3. 0 \in Cell
    BY <2>2 DEF CellSizes, Cell
  <2> QED BY <2>1, <2>3, Wrap DEF True
<1>9. /\ Crossed(Index, Limit, inc) => Top(st', 0) = True /\ rst' = Append(Below(rst, 3), Top(rst, 0))
      /\ ~Crossed(Index, Limit, inc) => /\ Top(st', 0) = 0
                                        /\ rst' = Below(rst, 3) \o <<ToCell(Index + inc), Limit, Top(rst, 0)>>
      /\ st' \in Seq(Cell)
  BY <1>4, <1>5, <1>7, <1>8
<1>10. StacksOK'
  <2>1. rst' = <<Return>> \/ Loop(rst')
    BY <1>2, <1>5, <1>8, <1>9
  <2> QED BY <1>9, <2>1 DEF StacksOK, Loop
<1>11. LoopEnds'
  BY <1>6, <1>9 DEF LoopEnds, Index, Limit, inc
<1> QED BY <1>10, <1>11

LEMMA LeaveSteps ==
  ASSUME StacksOK, SYS_LEAVE
  PROVE  StacksOK' /\ LoopEnds'
<1>1. /\ Len(rst) >= 3 /\ rst' = Append(Below(rst, 3), Top(rst, 0)) /\ st' = st
      /\ call' = [word |-> "LEAVE", st |-> st, rst |-> rst]
  BY DEF SYS_LEAVE, Called
<1>2. rst' = <<Return>>
  BY <1>1, LoopStack
<1>3. LoopEnds'
  <2>1. call'.word = "LEAVE" /\ call'.st = st /\ call'.rst = rst
    BY <1>1
  <2> QED BY <1>1, <2>1 DEF LoopEnds
<1> QED BY <1>1, <1>2, <1>3 DEF StacksOK, Loop

-----------------------------------------------------------------------------
(* The words of loops divide nothing, the others end no loop, and the      *)
(* library is right whatever cells are on the stack.                       *)
OtherWords == {"none", "LOOP", "+LOOP", "LEAVE"}
Divisions == {"none", "UM/MOD", "SM/REM", "FM/MOD", "*/", "*/MOD", "M*/"}

CallRight == StacksOK /\ DivisionsRight /\ ScaledRight /\ LoopEnds

LEMMA CallStart == Init => CallRight
<1> SUFFICES ASSUME Init PROVE CallRight
  OBVIOUS
<1>1. /\ st \in [1 .. 4 -> Operands] /\ rst = <<ToCell(st[1] + st[2]), st[2], Return>>
      /\ call.word = "none"
  BY DEF Init
<1>2. st \in [1 .. 4 -> Cell]
  BY <1>1, OperandsAssumption
<1>3. st \in Seq(Cell)
  <2>1. 4 \in Nat
    OBVIOUS
  <2> QED BY <1>2, <2>1, PlacedLength
<1>4. st[1] \in Cell /\ st[2] \in Cell
  <2>1. 1 \in 1 .. 4 /\ 2 \in 1 .. 4
    OBVIOUS
  <2> QED BY <1>2, <2>1
<1>5. ToCell(st[1] + st[2]) \in Cell
  <2>1. st[1] + st[2] \in Int
    BY <1>4, CellIsSigned
  <2> QED BY <2>1, Wrap
<1>6. Loop(rst)
  <2> DEFINE a == ToCell(st[1] + st[2])
             b == st[2]
  <2>1. a \in Cell /\ b \in Cell
    BY <1>4, <1>5
  <2>2. rst = <<a, b, Return>>
    BY <1>1
  <2> HIDE DEF a, b
  <2>3. Len(rst) = 3 /\ rst[1] = a /\ rst[2] = b
    BY <2>2
  <2> QED BY <2>1, <2>2, <2>3 DEF Loop
<1>7. DivisionsRight /\ ScaledRight /\ LoopEnds
  BY <1>1 DEF DivisionsRight, ScaledRight, Did, LoopEnds
<1> QED BY <1>3, <1>6, <1>7 DEF CallRight, StacksOK

LEMMA CallStep == CallRight /\ [Next]_vars => CallRight'
<1> SUFFICES ASSUME CallRight, [Next]_vars PROVE CallRight'
  OBVIOUS
<1>0. StacksOK
  BY DEF CallRight
<1>d. call'.word \in OtherWords => DivisionsRight'
  BY DEF OtherWords, DivisionsRight, Did
<1>l. call'.word \in Divisions => LoopEnds'
  BY DEF Divisions, LoopEnds
<1>s. call'.word # "M*/" => ScaledRight'
  BY DEF ScaledRight, Did
<1>1. CASE UM_slash_MOD
  <2>1. call'.word = "UM/MOD"
    BY <1>1 DEF UM_slash_MOD, Called
  <2> QED BY <1>0, <1>1, <1>l, <1>s, <2>1, UnsignedDivision DEF CallRight, Divisions
<1>2. CASE SM_slash_REM
  <2>1. call'.word = "SM/REM"
    BY <1>2 DEF SM_slash_REM, Called
  <2> QED BY <1>0, <1>2, <1>l, <1>s, <2>1, SymmetricDivision DEF CallRight, Divisions
<1>3. CASE FM_slash_MOD
  <2>1. call'.word = "FM/MOD"
    BY <1>3 DEF FM_slash_MOD, Called
  <2> QED BY <1>0, <1>3, <1>l, <1>s, <2>1, FlooredDivision DEF CallRight, Divisions
<1>4. CASE star_slash
  <2>1. call'.word = "*/"
    BY <1>4 DEF star_slash, Called
  <2> QED BY <1>0, <1>4, <1>l, <1>s, <2>1, ProductQuotient DEF CallRight, Divisions
<1>5. CASE star_slash_MOD
  <2>1. call'.word = "*/MOD"
    BY <1>5 DEF star_slash_MOD, Called
  <2> QED BY <1>0, <1>5, <1>l, <1>s, <2>1, ProductDivision DEF CallRight, Divisions
<1>6. CASE M_star_slash
  <2>1. call'.word = "M*/"
    BY <1>6 DEF M_star_slash, Called
  <2> QED BY <1>0, <1>6, <1>l, <2>1, Scaling DEF CallRight, Divisions
<1>7. CASE SYS_LOOP
  <2>1. call'.word = "LOOP"
    BY <1>7 DEF SYS_LOOP, Called
  <2> QED BY <1>0, <1>7, <1>d, <1>s, <2>1, LoopSteps DEF CallRight, OtherWords
<1>8. CASE SYS_plus_LOOP
  <2>1. call'.word = "+LOOP"
    BY <1>8 DEF SYS_plus_LOOP, Called
  <2> QED BY <1>0, <1>8, <1>d, <1>s, <2>1, PlusLoopSteps DEF CallRight, OtherWords
<1>9. CASE SYS_LEAVE
  <2>1. call'.word = "LEAVE"
    BY <1>9 DEF SYS_LEAVE, Called
  <2> QED BY <1>0, <1>9, <1>d, <1>s, <2>1, LeaveSteps DEF CallRight, OtherWords
<1>10. CASE UNCHANGED vars
  <2>1. st' = st /\ rst' = rst /\ call' = call
    BY <1>10 DEF vars
  <2>2. StacksOK'
    BY <1>0, <2>1 DEF StacksOK, Loop
  <2>3. LoopEnds'
    BY <2>1 DEF CallRight, LoopEnds
  <2>4. DivisionsRight'
    BY <2>1 DEF CallRight, DivisionsRight, Did, Divided
  <2>5. ScaledRight'
    BY <2>1 DEF CallRight, ScaledRight, Did
  <2> QED BY <2>2, <2>3, <2>4, <2>5 DEF CallRight
<1> QED BY <1>1, <1>2, <1>3, <1>4, <1>5, <1>6, <1>7, <1>8, <1>9, <1>10 DEF Next

(* Whatever words a program calls, in any order and with cells of any      *)
(* number of digits of any width, the stacks hold cells, a loop's limit    *)
(* and index stay under its return address, and every division and every   *)
(* end of a loop came out right (UM_slash_MOD.c, FM_slash_MOD.c, cs.c).    *)
THEOREM CallsAreRight == Spec => []CallRight
BY CallStart, CallStep, PTL DEF Spec

(* UM/MOD, FM/MOD, SM/REM, */ and */MOD give the quotient and remainder    *)
(* they promise whenever the quotient fits a cell.                         *)
THEOREM DivisionsAreRight == Spec => []DivisionsRight
<1>1. CallRight => DivisionsRight
  BY DEF CallRight
<1> QED BY <1>1, CallsAreRight, PTL

(* LOOP and +LOOP end a loop exactly when the index crosses the boundary   *)
(* below the limit, around the circle of cells too; LEAVE drops the loop.  *)
THEOREM LoopsEndAtTheLimit == Spec => []LoopEnds
<1>1. CallRight => LoopEnds
  BY DEF CallRight
<1> QED BY <1>1, CallsAreRight, PTL

(* M*/ (M_star_slash.c) gives the quotient of its three-cell product,      *)
(* rounded to zero, whenever it fits two cells, and the lowest double cell *)
(* for a negative product that is nearer to zero than the divisor.         *)
THEOREM ScalingIsRight == Spec => []ScaledRight
<1>1. CallRight => ScaledRight
  BY DEF CallRight
<1> QED BY <1>1, CallsAreRight, PTL

(* Every function of v_bignum.c.c that Digital names computes, on every    *)
(* stack a program can have, the integer it stands for, cut to its digits. *)
THEOREM LibraryComputes == Spec => []LibraryRight
<1>1. CallRight => LibraryRight
  BY LibraryIs DEF CallRight, StacksOK
<1> QED BY <1>1, CallsAreRight, PTL
=============================================================================
