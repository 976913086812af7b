-------------------------- MODULE Dictionary_proofs --------------------------
(***************************************************************************)
(* Theorems about the search order and the links between words, for every  *)
(* number of cells, places and names.                                      *)
(***************************************************************************)
EXTENDS Dictionary, SequenceTheorems, WellFoundedInduction, TLAPS

Entries == [name : Names \cup {NoName, "FORTH"}, kind : {"free", "word", "list", "marker"},
            link : 0 .. Top, newest : 0 .. Top]

(* The shape of the state. *)
DTypeOK ==
  /\ wl_search_order \in [Cells -> 0 .. Top]
  /\ mem \in [1 .. Top -> Entries]
  /\ mem[FORTH].kind = "list"
  /\ here \in 1 .. Top
  /\ next_word \in 0 .. Top
  /\ state \in {0, 1}

(* No wordlist hides behind the null the search stops at.                  *)
Packed ==
  "overrun" \notin spoilt =>
    /\ wl_search_order[Listed] = 0
    /\ \A i, j \in 0 .. Listed : i < j /\ wl_search_order[i] = 0 => wl_search_order[j] = 0

(* What the search order, CURRENT and an unended definition lead to.       *)
InUse ==
  spoilt \cap {"marker", "overrun"} = {} =>
    /\ CURRENT # 0
    /\ \A i \in Cells : wl_search_order[i] # 0 => wl_search_order[i] \in Lists
    /\ state = 1 => next_word \in Alive

DInv == DTypeOK /\ Packed /\ InUse /\ SearchEnds
-----------------------------------------------------------------------------
LEMMA Sizes == WL_SO_MAX \in Nat /\ WL_SO_MAX >= 4 /\ Listed = WL_SO_MAX - 2 /\ Top \in Nat /\ 1 \in 1 .. Top
BY SizesAssumption DEF Listed

(* A set of naturals has a smallest element. *)
LEMMA Smallest ==
  ASSUME NEW T, T \subseteq Nat, T # {}
  PROVE  \E x \in T : \A y \in T : x <= y
<1>1. PICK x \in T : \A y \in T : ~(<<y, x>> \in OpToRel(<, Nat))
  BY NatLessThanWellFounded, WFMin
<1>2. \A y \in T : ~(y < x)
  BY <1>1 DEF OpToRel
<1> QED BY <1>2

(* What the walk along the links of a list meets next. *)
Places == 1 .. Top
NextWord(m, l, words) == IF words = <<>> THEN m[l].newest ELSE m[words[Len(words)]].link
Further(m, l, words) == IF NextWord(m, l, words) = 0 THEN words ELSE Append(words, NextWord(m, l, words))
Walked(f, n, m, l) == \A k \in 0 .. n : f[k] = IF k = 0 THEN <<>> ELSE Further(m, l, f[k - 1])

LEMMA FurtherType ==
  ASSUME NEW m \in [Places -> Entries], NEW l \in Places, NEW words \in Seq(Places)
  PROVE  Further(m, l, words) \in Seq(Places)
<1>1. NextWord(m, l, words) \in 0 .. Top
  <2>1. CASE words = <<>>
    BY <2>1 DEF NextWord, Entries
  <2>2. CASE words # <<>>
    <3>1. words[Len(words)] \in Places
      BY <2>2, EmptySeq
    <3>2. m[words[Len(words)]] \in Entries
      BY <3>1
    <3> QED BY <2>2, <3>2 DEF NextWord, Entries
  <2> QED BY <2>1, <2>2
<1>2. CASE NextWord(m, l, words) = 0
  BY <1>2 DEF Further
<1>3. CASE NextWord(m, l, words) # 0
  <2>1. NextWord(m, l, words) \in Places
    BY <1>1, <1>3, Sizes DEF Places
  <2> QED BY <1>3, <2>1, AppendProperties DEF Further
<1> QED BY <1>2, <1>3

LEMMA WalkExists ==
  ASSUME NEW m \in [Places -> Entries], NEW l \in Places, NEW n \in Nat
  PROVE  \E f \in [0 .. n -> Seq(Places)] : Walked(f, n, m, l)
<1> DEFINE Done(k) == \E f \in [0 .. k -> Seq(Places)] : Walked(f, k, m, l)
           T == {k \in Nat : ~Done(k)}
<1>1. ASSUME T # {} PROVE FALSE
  <2> HIDE DEF Done
  <2>1. PICK k \in T : \A j \in T : k <= j
    BY <1>1, Smallest
  <2>2. CASE k = 0
    <3> DEFINE f == [j \in 0 .. 0 |-> <<>>]
    <3>1. f \in [0 .. 0 -> Seq(Places)] /\ Walked(f, 0, m, l)
      BY EmptySeq DEF Walked
    <3> HIDE DEF f
    <3>2. Done(0)
      BY <3>1 DEF Done
    <3> QED BY <2>1, <2>2, <3>2
  <2>3. CASE k # 0
    <3> DEFINE j == k - 1
    <3>1. j \in Nat /\ ~(k <= j) /\ k = j + 1
      BY <2>3
    <3> HIDE DEF j
    <3>2. Done(j)
      BY <2>1, <3>1
    <3>3. PICK f \in [0 .. j -> Seq(Places)] : Walked(f, j, m, l)
      BY <3>2 DEF Done
    <3> DEFINE g == [i \in 0 .. k |-> IF i = k THEN Further(m, l, f[j]) ELSE f[i]]
    <3>4. \A i \in 0 .. k : i = k \/ i \in 0 .. j
      BY <3>1
    <3>5. Further(m, l, f[j]) \in Seq(Places)
      <4>1. f[j] \in Seq(Places)
        BY <3>1
      <4> QED BY <4>1, FurtherType
    <3>6. g \in [0 .. k -> Seq(Places)]
      BY <3>4, <3>5
    <3>7. ASSUME NEW i \in 0 .. k
          PROVE  g[i] = IF i = 0 THEN <<>> ELSE Further(m, l, g[i - 1])
      <4>1. CASE i = k
        <5>1. i # 0 /\ i - 1 = j /\ j \in 0 .. k /\ j # k
          BY <3>1, <4>1
        <5> QED BY <4>1, <5>1
      <4>2. CASE i # k
        <5>1. i \in 0 .. j
          BY <3>4, <4>2
        <5>2. i # 0 => i - 1 \in 0 .. j /\ i - 1 \in 0 .. k /\ i - 1 # k
          BY <3>1, <5>1
        <5> QED BY <3>3, <4>2, <5>1, <5>2 DEF Walked
      <4> QED BY <4>1, <4>2
    <3> HIDE DEF g
    <3>8. Walked(g, k, m, l)
      BY <3>7 DEF Walked
    <3>9. Done(k)
      BY <3>6, <3>8 DEF Done
    <3> QED BY <2>1, <3>9
  <2> QED BY <2>2, <2>3
<1> HIDE DEF Done
<1>2. Done(n)
  BY <1>1
<1> QED BY <1>2 DEF Done

(* Chain is the end of such a walk. *)
LEMMA ChainWalked ==
  ASSUME NEW m \in [Places -> Entries], NEW l \in Places
  PROVE  \E f : /\ Walked(f, Top + 1, m, l)
                /\ \A k \in 0 .. Top + 1 : f[k] \in Seq(Places)
                /\ Chain(m, l) = f[Top + 1]
<1> DEFINE word(words) == IF words = <<>> THEN m[l].newest ELSE m[Last(words)].link
           walk == CHOOSE f : f = [n \in 0 .. Top + 1 |->
                     IF n = 0 THEN <<>>
                     ELSE IF word(f[n - 1]) = 0 THEN f[n - 1]
                     ELSE Append(f[n - 1], word(f[n - 1]))]
<1>1. Chain(m, l) = walk[Top + 1]
  BY DEF Chain
<1>2. Top + 1 \in Nat
  BY Sizes
<1>3. PICK g \in [0 .. Top + 1 -> Seq(Places)] : Walked(g, Top + 1, m, l)
  BY <1>2, WalkExists
<1>4. g = [n \in 0 .. Top + 1 |-> IF n = 0 THEN <<>>
                     ELSE IF word(g[n - 1]) = 0 THEN g[n - 1]
                     ELSE Append(g[n - 1], word(g[n - 1]))]
  BY <1>3 DEF Walked, Further, NextWord, Last
<1>5. walk = [n \in 0 .. Top + 1 |-> IF n = 0 THEN <<>>
                     ELSE IF word(walk[n - 1]) = 0 THEN walk[n - 1]
                     ELSE Append(walk[n - 1], word(walk[n - 1]))]
  BY <1>4
<1> HIDE DEF walk
<1>6. Walked(walk, Top + 1, m, l)
  BY <1>5 DEF Walked, Further, NextWord, Last
<1>7. ASSUME NEW k \in 0 .. Top + 1 PROVE walk[k] \in Seq(Places)
  <2> DEFINE T == {i \in 0 .. Top + 1 : walk[i] \notin Seq(Places)}
  <2>1. ASSUME T # {} PROVE FALSE
    <3>1. T \subseteq Nat
      OBVIOUS
    <3>2. PICK i \in T : \A j \in T : i <= j
      BY <2>1, <3>1, Smallest
    <3>3. i \in 0 .. Top + 1 /\ walk[i] \notin Seq(Places)
      OBVIOUS
    <3>4. i # 0
      BY <1>6, <3>3, EmptySeq DEF Walked
    <3>5. i - 1 \in 0 .. Top + 1 /\ ~(i <= i - 1)
      BY <3>3, <3>4, Sizes
    <3>6. walk[i - 1] \in Seq(Places)
      BY <3>2, <3>5
    <3>7. walk[i] = Further(m, l, walk[i - 1])
      BY <1>6, <3>3, <3>4 DEF Walked
    <3> QED BY <3>3, <3>6, <3>7, FurtherType
  <2> QED BY <2>1
<1> QED BY <1>1, <1>6, <1>7

LEMMA ChainType ==
  ASSUME NEW m \in [Places -> Entries], NEW l \in Places
  PROVE  Chain(m, l) \in Seq(Places)
<1>1. Top + 1 \in 0 .. Top + 1
  BY Sizes
<1> QED BY <1>1, ChainWalked

(* x is the greatest of S, or 0 when there is none. *)
Tops(x, S) == IF S = {} THEN x = 0 ELSE x \in S /\ \A y \in S : y <= x
(* The list at l leads to the words of S, the last made first. *)
Threads(m, l, S) ==
  /\ S \subseteq Places
  /\ Tops(m[l].newest, S)
  /\ \A w \in S : Tops(m[w].link, {v \in S : v < w})
Descends(c, S) ==
  /\ c \in Seq(Places)
  /\ \A i \in 1 .. Len(c) : c[i] \in S
  /\ \A i, j \in 1 .. Len(c) : i < j => c[j] < c[i]

(* After k steps the walk met the last k words of S, or all. *)
Met(c, k, S) ==
  /\ Descends(c, S)
  /\ \A i \in 1 .. Len(c) : c[i] + i <= Top + 1
  /\ \A w \in S : (\E i \in 1 .. Len(c) : c[i] = w) \/ (\A i \in 1 .. Len(c) : w < c[i])
  /\ Len(c) = k \/ \A w \in S : \E i \in 1 .. Len(c) : c[i] = w

LEMMA MeetsNext ==
  ASSUME NEW m \in [Places -> Entries], NEW l \in Places, NEW S, Threads(m, l, S),
         NEW k \in Nat, NEW c, Met(c, k, S)
  PROVE  Met(Further(m, l, c), k + 1, S)
<1> DEFINE x == NextWord(m, l, c)
           n == Len(c)
           R == {w \in S : \A i \in 1 .. n : w < c[i]}
<1>1. c \in Seq(Places) /\ n \in Nat
  BY DEF Met, Descends
<1>2. S \subseteq Places /\ \A w \in S : w \in Nat /\ w >= 1 /\ w <= Top
  BY Sizes DEF Threads, Places
<1>3. \A i \in 1 .. n : c[i] \in S /\ c[i] \in Nat
  BY <1>2 DEF Met, Descends
<1>4. Tops(x, R)
  <2>1. CASE c = <<>>
    <3>1. n = 0 /\ R = S
      BY <2>1, EmptySeq
    <3> QED BY <2>1, <3>1 DEF NextWord, Threads
  <2>2. CASE c # <<>>
    <3>1. n \in 1 .. n /\ x = m[c[n]].link
      BY <1>1, <2>2, EmptySeq DEF NextWord
    <3>2. R = {v \in S : v < c[n]}
      <4>1. R \subseteq {v \in S : v < c[n]}
        BY <3>1
      <4>2. ASSUME NEW v \in S, v < c[n], NEW i \in 1 .. n PROVE v < c[i]
        <5>1. i = n \/ (i < n /\ c[n] < c[i])
          BY <1>1, <3>1 DEF Met, Descends
        <5>2. v \in Nat /\ c[i] \in Nat /\ c[n] \in Nat
          BY <1>2, <1>3, <3>1
        <5> QED BY <4>2, <5>1, <5>2
      <4> QED BY <4>1, <4>2
    <3> QED BY <1>3, <3>1, <3>2 DEF Threads
  <2> QED BY <2>1, <2>2
<1>5. CASE R = {}
  <2>1. x = 0 /\ Further(m, l, c) = c
    BY <1>4, <1>5 DEF Tops, Further
  <2>2. \A w \in S : \E i \in 1 .. n : c[i] = w
    BY <1>5 DEF Met
  <2> QED BY <2>1, <2>2 DEF Met
<1>6. CASE R # {}
  <2>1. x \in R /\ \A y \in R : y <= x
    BY <1>4, <1>6 DEF Tops
  <2>2. x \in S /\ x \in Places /\ x \in Nat /\ x # 0 /\ x <= Top /\ \A i \in 1 .. n : x < c[i]
    BY <1>2, <2>1
  <2> HIDE DEF x, n
  <2> DEFINE d == Append(c, x)
  <2>3. Further(m, l, c) = d
    BY <2>2 DEF Further, x
  <2>4. d \in Seq(Places) /\ Len(d) = n + 1 /\ d[n + 1] = x /\ \A i \in 1 .. n : d[i] = c[i]
    BY <1>1, <2>2, AppendProperties DEF n
  <2> HIDE DEF d
  <2>5. \A i \in 1 .. n + 1 : i \in 1 .. n \/ i = n + 1
    BY <1>1
  <2>6. Descends(d, S)
    <3>1. \A i \in 1 .. n + 1 : d[i] \in S
      BY <1>3, <2>2, <2>4, <2>5
    <3>2. ASSUME NEW i \in 1 .. n + 1, NEW j \in 1 .. n + 1, i < j PROVE d[j] < d[i]
      <4>1. CASE j \in 1 .. n
        <5>1. i \in 1 .. n
          BY <1>1, <3>2, <4>1
        <5>2. c[j] < c[i]
          BY <3>2, <4>1, <5>1 DEF Met, Descends, n
        <5> QED BY <2>4, <4>1, <5>1, <5>2
      <4>2. CASE j = n + 1
        <5>1. i \in 1 .. n
          BY <1>1, <3>2, <4>2
        <5> QED BY <2>2, <2>4, <4>2, <5>1
      <4> QED BY <2>5, <4>1, <4>2
    <3> QED BY <2>4, <3>1, <3>2 DEF Descends
  <2>7. ASSUME NEW i \in 1 .. n + 1 PROVE d[i] + i <= Top + 1
    <3>1. CASE i \in 1 .. n
      BY <2>4, <3>1 DEF Met, n
    <3>2. CASE i = n + 1
      <4>1. CASE n = 0
        BY <2>2, <2>4, <3>2, <4>1, Sizes
      <4>2. CASE n # 0
        <5>1. n \in 1 .. n
          BY <1>1, <4>2
        <5>2. c[n] + n <= Top + 1 /\ x < c[n] /\ c[n] \in Nat
          BY <1>3, <2>2, <5>1 DEF Met, n
        <5>3. x + (n + 1) <= Top + 1
          BY <1>1, <2>2, <5>2, Sizes
        <5> QED BY <2>4, <3>2, <5>3
      <4> QED BY <4>1, <4>2
    <3> QED BY <2>5, <3>1, <3>2
  <2>8. n + 1 \in 1 .. n + 1 /\ \A i \in 1 .. n : i \in 1 .. n + 1
    BY <1>1
  <2>9. ASSUME NEW w \in S
        PROVE  (\E i \in 1 .. n + 1 : d[i] = w) \/ (\A i \in 1 .. n + 1 : w < d[i])
    <3>1. CASE \E i \in 1 .. n : c[i] = w
      BY <2>4, <2>8, <3>1
    <3>2. CASE ~\E i \in 1 .. n : c[i] = w
      <4>1. w \in R
        BY <3>2 DEF Met, n
      <4>2. w <= x /\ w \in Nat
        BY <1>2, <2>1, <4>1
      <4>3. w = x \/ w < x
        BY <2>2, <4>2
      <4>4. CASE w = x
        BY <2>4, <2>8, <4>4
      <4>5. CASE w < x
        <5>1. \A i \in 1 .. n : w < c[i]
          BY <4>1
        <5> QED BY <2>4, <2>5, <4>5, <5>1
      <4> QED BY <4>3, <4>4, <4>5
    <3> QED BY <3>1, <3>2
  <2>10. Len(d) = k + 1 \/ \A w \in S : \E i \in 1 .. Len(d) : d[i] = w
    <3>1. CASE n = k
      BY <2>4, <3>1
    <3>2. CASE n # k
      <4>1. \A w \in S : \E i \in 1 .. n : c[i] = w
        BY <3>2 DEF Met, n
      <4> QED BY <2>4, <2>8, <4>1
    <3> QED BY <3>1, <3>2
  <2> QED BY <2>3, <2>4, <2>6, <2>7, <2>9, <2>10 DEF Met
<1> QED BY <1>5, <1>6

LEMMA ChainIs ==
  ASSUME NEW m \in [Places -> Entries], NEW l \in Places, NEW S, Threads(m, l, S)
  PROVE  /\ Descends(Chain(m, l), S)
         /\ \A w \in S : \E i \in 1 .. Len(Chain(m, l)) : Chain(m, l)[i] = w
<1>1. PICK f : /\ Walked(f, Top + 1, m, l)
               /\ \A k \in 0 .. Top + 1 : f[k] \in Seq(Places)
               /\ Chain(m, l) = f[Top + 1]
  BY ChainWalked
<1> DEFINE T == {k \in 0 .. Top + 1 : ~Met(f[k], k, S)}
<1>2. ASSUME T # {} PROVE FALSE
  <2>1. T \subseteq Nat
    OBVIOUS
  <2>2. PICK k \in T : \A j \in T : k <= j
    BY <1>2, <2>1, Smallest
  <2>3. k \in 0 .. Top + 1 /\ ~Met(f[k], k, S)
    OBVIOUS
  <2>4. CASE k = 0
    <3>1. f[k] = <<>>
      BY <1>1, <2>3, <2>4 DEF Walked
    <3>2. Met(<<>>, 0, S)
      <4>1. Len(<<>>) = 0 /\ <<>> \in Seq(Places) /\ 1 .. 0 = {}
        BY EmptySeq
      <4> QED BY <4>1 DEF Met, Descends
    <3> QED BY <2>3, <2>4, <3>1, <3>2
  <2>5. CASE k # 0
    <3> DEFINE j == k - 1
    <3>1. j \in 0 .. Top + 1 /\ ~(k <= j) /\ j \in Nat /\ k = j + 1
      BY <2>3, <2>5, Sizes
    <3>2. f[k] = Further(m, l, f[j])
      BY <1>1, <2>3, <2>5 DEF Walked
    <3> HIDE DEF j
    <3>3. Met(f[j], j, S)
      BY <2>2, <3>1
    <3>4. Met(Further(m, l, f[j]), j + 1, S)
      BY <3>1, <3>3, MeetsNext
    <3> QED BY <2>3, <3>1, <3>2, <3>4
  <2> QED BY <2>4, <2>5
<1> DEFINE c == Chain(m, l)
<1>3. Top + 1 \in 0 .. Top + 1
  BY Sizes
<1>4. Met(c, Top + 1, S)
  BY <1>1, <1>2, <1>3
<1> HIDE DEF c
<1>5. Len(c) # Top + 1
  <2> SUFFICES ASSUME Len(c) = Top + 1 PROVE FALSE
    OBVIOUS
  <2>1. Top + 1 \in 1 .. Len(c)
    BY Sizes
  <2>2. c[Top + 1] + (Top + 1) <= Top + 1 /\ c[Top + 1] \in Places
    BY <1>4, <2>1 DEF Met, Descends
  <2> QED BY <2>2, Sizes DEF Places
<1>6. Descends(c, S) /\ \A w \in S : \E i \in 1 .. Len(c) : c[i] = w
  BY <1>4, <1>5 DEF Met
<1> QED BY <1>6 DEF c

(* The first of the sequence that is in T is the greatest in T. *)
LEMMA FirstIsNewest ==
  ASSUME NEW S, NEW T, T \subseteq S, S \subseteq Places,
         NEW c, Descends(c, S), \A w \in S : \E i \in 1 .. Len(c) : c[i] = w,
         NEW at, at = {i \in DOMAIN c : c[i] \in T}
  PROVE  Tops(IF at = {} THEN 0 ELSE c[Min(at)], T)
<1>1. DOMAIN c = 1 .. Len(c) /\ Len(c) \in Nat
  BY DEF Descends
<1>2. \A w \in T : \E i \in at : c[i] = w
  BY <1>1
<1>3. CASE at = {}
  BY <1>2, <1>3 DEF Tops
<1>4. CASE at # {}
  <2>1. at \subseteq Nat
    BY <1>1
  <2>2. \E x \in at : \A y \in at : x <= y
    BY <1>4, <2>1, Smallest
  <2>3. Min(at) \in at /\ \A y \in at : Min(at) <= y
    BY <2>2 DEF Min
  <2> DEFINE k == Min(at)
  <2> HIDE DEF k
  <2>4. k \in at /\ k \in 1 .. Len(c) /\ c[k] \in T /\ \A y \in at : k <= y
    BY <1>1, <2>3 DEF k
  <2>5. ASSUME NEW w \in T PROVE w <= c[k]
    <3>1. PICK i \in at : c[i] = w
      BY <1>2
    <3>2. i \in 1 .. Len(c) /\ k <= i
      BY <1>1, <2>4
    <3>3. i = k \/ k < i
      BY <2>4, <3>2
    <3>4. c[i] \in Nat /\ c[k] \in Nat
      <4>1. c[i] \in Places /\ c[k] \in Places
        BY <2>4, <3>1
      <4>2. \A v \in Places : v \in Nat
        BY Sizes DEF Places
      <4> QED BY <4>1, <4>2
    <3>5. k < i => c[i] < c[k]
      BY <2>4, <3>2 DEF Descends
    <3> QED BY <3>1, <3>3, <3>4, <3>5
  <2> QED BY <1>4, <2>4, <2>5 DEF Tops, k
<1> QED BY <1>3, <1>4
-----------------------------------------------------------------------------
(* What the search walks along, of any array. *)
Upto(w) ==
  LET n == CHOOSE k \in 0 .. WL_SO_MAX - 1 :
             /\ k = WL_SO_MAX - 1 \/ w[k] = 0
             /\ \A i \in 0 .. k - 1 : w[i] # 0
  IN [i \in 1 .. n |-> w[i - 1]]

LEMMA SearchedIs == Searched = Upto(wl_search_order) /\ Searched' = Upto(wl_search_order')
BY DEF Searched, Upto

(* The search goes on to the first null. *)
LEMMA UptoIs ==
  ASSUME NEW w \in [Cells -> Nat], NEW n \in 0 .. WL_SO_MAX - 1,
         n = WL_SO_MAX - 1 \/ w[n] = 0,
         \A i \in 0 .. n - 1 : w[i] # 0
  PROVE  /\ Upto(w) = [i \in 1 .. n |-> w[i - 1]]
         /\ Upto(w) \in Seq(Nat) /\ Len(Upto(w)) = n
<1> DEFINE Stops(k) == /\ k = WL_SO_MAX - 1 \/ w[k] = 0
                       /\ \A i \in 0 .. k - 1 : w[i] # 0
           m == CHOOSE k \in 0 .. WL_SO_MAX - 1 : Stops(k)
<1>1. m \in 0 .. WL_SO_MAX - 1 /\ Stops(m)
  BY DEF Stops
<1>2. m = n
  <2> HIDE DEF m
  <2>1. ~(m < n)
    <3> SUFFICES ASSUME m < n PROVE FALSE
      OBVIOUS
    <3>1. m \in 0 .. n - 1 /\ m # WL_SO_MAX - 1
      BY <1>1, Sizes
    <3> QED BY <1>1, <3>1
  <2>2. ~(n < m)
    <3> SUFFICES ASSUME n < m PROVE FALSE
      OBVIOUS
    <3>1. n \in 0 .. m - 1 /\ n # WL_SO_MAX - 1
      BY <1>1, Sizes
    <3> QED BY <1>1, <3>1
  <2> QED BY <1>1, <2>1, <2>2, Sizes
<1>3. Upto(w) = [i \in 1 .. n |-> w[i - 1]]
  BY <1>2 DEF Upto
<1>4. [i \in 1 .. n |-> w[i - 1]] \in [1 .. n -> Nat]
  BY Sizes DEF Cells
<1> QED BY <1>3, <1>4

LEMMA UptoExists ==
  ASSUME NEW w \in [Cells -> Nat]
  PROVE  \E n \in 0 .. WL_SO_MAX - 1 :
           /\ n = WL_SO_MAX - 1 \/ w[n] = 0
           /\ \A i \in 0 .. n - 1 : w[i] # 0
           /\ Upto(w) = [i \in 1 .. n |-> w[i - 1]]
           /\ Upto(w) \in Seq(Nat) /\ Len(Upto(w)) = n
<1> DEFINE T == {k \in 0 .. WL_SO_MAX - 1 : k = WL_SO_MAX - 1 \/ w[k] = 0}
<1>1. T \subseteq Nat /\ WL_SO_MAX - 1 \in T
  BY Sizes
<1>2. PICK n \in T : \A y \in T : n <= y
  BY <1>1, Smallest
<1>3. \A i \in 0 .. n - 1 : w[i] # 0
  <2> SUFFICES ASSUME NEW i \in 0 .. n - 1, w[i] = 0 PROVE FALSE
    OBVIOUS
  <2>1. i \in T
    BY <1>2, Sizes
  <2> QED BY <1>2, <2>1
<1> QED BY <1>2, <1>3, UptoIs
-----------------------------------------------------------------------------
(* As long as SET-ORDER overran nothing, the search stops before CURRENT,  *)
(* where WL:COUNT stops.                                                   *)
Sound == DTypeOK /\ Packed /\ "overrun" \notin spoilt

LEMMA SearchedSound ==
  ASSUME Sound
  PROVE  /\ Searched \in Seq(Nat) /\ Len(Searched) \in 0 .. Listed
         /\ \A i \in 1 .. Len(Searched) : Searched[i] = wl_search_order[i - 1] /\ Searched[i] # 0
         /\ \A i \in Len(Searched) .. Listed : wl_search_order[i] = 0
         /\ WLCOUNT = Len(Searched) /\ GET_ORDER = Searched
<1>1. wl_search_order \in [Cells -> Nat]
  BY Sizes DEF Sound, DTypeOK
<1>2. PICK n \in 0 .. WL_SO_MAX - 1 :
           /\ n = WL_SO_MAX - 1 \/ wl_search_order[n] = 0
           /\ \A i \in 0 .. n - 1 : wl_search_order[i] # 0
           /\ Searched = [i \in 1 .. n |-> wl_search_order[i - 1]]
           /\ Searched \in Seq(Nat) /\ Len(Searched) = n
  BY <1>1, UptoExists, SearchedIs
<1>3. n <= Listed
  BY <1>2, Sizes DEF Sound, Packed
<1>4. \A i \in 1 .. n : i - 1 \in 0 .. n - 1
  BY <1>2, Sizes
<1>5. \A i \in n .. Listed : wl_search_order[i] = 0
  <2>1. wl_search_order[n] = 0
    BY <1>2, <1>3, Sizes
  <2> SUFFICES ASSUME NEW i \in n .. Listed PROVE wl_search_order[i] = 0
    OBVIOUS
  <2>2. n \in 0 .. Listed /\ i \in 0 .. Listed /\ (i = n \/ n < i)
    BY <1>2, <1>3, Sizes
  <2> QED BY <2>1, <2>2 DEF Sound, Packed
<1>6. WLCOUNT = n
  BY <1>2, <1>3, Sizes DEF WLCOUNT
<1>7. GET_ORDER = Searched
  BY <1>2, <1>6, SubSeqFull DEF GET_ORDER
<1> QED BY <1>2, <1>3, <1>4, <1>5, <1>6, <1>7, Sizes

(* SET-ORDER and what is built on it: the array is the sequence stored.    *)
LEMMA StoredSearched ==
  ASSUME Sound, NEW s \in Seq(Nat), Len(s) <= Listed, \A i \in 1 .. Len(s) : s[i] # 0,
         wl_search_order' = Stored(s)
  PROVE  Searched' = s /\ CURRENT' = CURRENT
<1> DEFINE w == wl_search_order'
           n == Len(s)
<1>1. n \in 0 .. Listed /\ s \in [1 .. n -> Nat]
  BY LenProperties, Sizes
<1>2. w = [i \in Cells |-> IF i < n THEN s[i + 1] ELSE IF i < Listed THEN 0 ELSE wl_search_order[i]]
  BY DEF Stored
<1> HIDE DEF w, n
<1>3. w \in [Cells -> Nat]
  <2>1. wl_search_order \in [Cells -> Nat]
    BY Sizes DEF Sound, DTypeOK
  <2>2. \A i \in Cells : i < n => s[i + 1] \in Nat
    BY <1>1, Sizes DEF Cells
  <2> QED BY <1>2, <2>1, <2>2
<1>4. \A i \in 0 .. n - 1 : w[i] = s[i + 1] /\ w[i] # 0
  <2> SUFFICES ASSUME NEW i \in 0 .. n - 1 PROVE w[i] = s[i + 1] /\ w[i] # 0
    OBVIOUS
  <2>1. i \in Cells /\ i < n /\ i + 1 \in 1 .. n
    BY <1>1, Sizes DEF Cells
  <2> QED BY <1>2, <2>1 DEF n
<1>5. w[n] = 0
  <2>1. n \in Cells /\ ~(n < n)
    BY <1>1, Sizes DEF Cells
  <2>2. n < Listed \/ n = Listed
    BY <1>1, Sizes
  <2> QED BY <1>2, <2>1, <2>2 DEF Sound, Packed
<1>6. n \in 0 .. WL_SO_MAX - 1
  BY <1>1, Sizes
<1>7. Upto(w) = [i \in 1 .. n |-> w[i - 1]]
  <2>1. \A i \in 0 .. n - 1 : w[i] # 0
    BY <1>4
  <2> QED BY <1>3, <1>5, <1>6, <2>1, UptoIs
<1>8. \A i \in 1 .. n : w[i - 1] = s[i]
  <2> SUFFICES ASSUME NEW i \in 1 .. n PROVE w[i - 1] = s[i]
    OBVIOUS
  <2>1. i - 1 \in 0 .. n - 1 /\ (i - 1) + 1 = i
    BY <1>1, Sizes
  <2> QED BY <1>4, <2>1
<1>9. Upto(w) = s
  BY <1>1, <1>7, <1>8
<1>10. CURRENT' = CURRENT
  <2>1. WL_SO_MAX - 1 \in Cells /\ ~(WL_SO_MAX - 1 < n) /\ ~(WL_SO_MAX - 1 < Listed)
    BY <1>1, Sizes DEF Cells
  <2> QED BY <1>2, <2>1 DEF CURRENT, w
<1> QED BY <1>9, <1>10, SearchedIs DEF w
(* A step that leaves the last cell and gives the array n lists to search. *)
LEMMA SearchedNext ==
  ASSUME NEW n \in 0 .. Listed, wl_search_order' \in [Cells -> Nat],
         wl_search_order'[n] = 0, \A i \in 0 .. n - 1 : wl_search_order'[i] # 0
  PROVE  /\ Searched' \in Seq(Nat) /\ Len(Searched') = n
         /\ \A i \in 1 .. n : Searched'[i] = wl_search_order'[i - 1]
<1>1. n \in 0 .. WL_SO_MAX - 1
  BY Sizes
<1>2. /\ Upto(wl_search_order') = [i \in 1 .. n |-> wl_search_order'[i - 1]]
      /\ Upto(wl_search_order') \in Seq(Nat) /\ Len(Upto(wl_search_order')) = n
  BY <1>1, UptoIs
<1> QED BY <1>2, SearchedIs

LEMMA AlsoPromised ==
  ASSUME Sound, ALSO
  PROVE  Order!Also
<1> DEFINE n == Len(Searched)
           t == <<Searched[1]>> \o Searched
           w == wl_search_order'
<1>1. n \in 1 .. Listed - 1 /\ WLCOUNT = n
  BY SearchedSound DEF ALSO
<1>2. w = [i \in Cells |-> IF i \in 1 .. n THEN wl_search_order[i - 1] ELSE wl_search_order[i]]
  BY <1>1 DEF ALSO, Moved
<1>3. /\ Searched \in Seq(Nat) /\ \A i \in 1 .. n : Searched[i] = wl_search_order[i - 1] /\ Searched[i] # 0
      /\ \A i \in n .. Listed : wl_search_order[i] = 0
      /\ wl_search_order \in [Cells -> Nat]
  BY SearchedSound, Sizes DEF Sound, DTypeOK
<1>4. /\ t \in Seq(Nat) /\ Len(t) = n + 1
      /\ \A i \in 1 .. n + 1 : t[i] = IF i = 1 THEN Searched[1] ELSE Searched[i - 1]
  <2>1. <<Searched[1]>> \in Seq(Nat) /\ Len(<<Searched[1]>>) = 1 /\ <<Searched[1]>>[1] = Searched[1]
    BY <1>1, <1>3, ElementOfSeq, Sizes
  <2>2. /\ t \in Seq(Nat) /\ Len(t) = 1 + n
        /\ \A i \in 1 .. 1 + n : t[i] = IF i <= 1 THEN <<Searched[1]>>[i] ELSE Searched[i - 1]
    BY <1>3, <2>1, ConcatProperties
  <2> HIDE DEF t, n
  <2> QED BY <1>1, <2>1, <2>2, Sizes
<1> HIDE DEF t, n, w
<1>5. w \in [Cells -> Nat]
  <2>1. \A i \in Cells : i \in 1 .. n => i - 1 \in Cells
    BY Sizes DEF Cells
  <2> QED BY <1>2, <1>3, <2>1
<1>6. w[n + 1] = 0
  <2>1. n + 1 \in Cells /\ n + 1 \notin 1 .. n /\ n + 1 \in n .. Listed
    BY <1>1, Sizes DEF Cells
  <2> QED BY <1>2, <1>3, <2>1
<1>7. \A i \in 0 .. n : w[i] = t[i + 1] /\ w[i] # 0
  <2> SUFFICES ASSUME NEW i \in 0 .. n PROVE w[i] = t[i + 1] /\ w[i] # 0
    OBVIOUS
  <2>1. i \in Cells /\ i + 1 \in 1 .. n + 1
    BY <1>1, Sizes DEF Cells
  <2>2. CASE i = 0
    <3>1. w[0] = wl_search_order[0] /\ 1 \in 1 .. n /\ 1 - 1 = 0 /\ i + 1 = 1
      BY <1>1, <1>2, <2>1, <2>2
    <3>2. t[1] = Searched[1] /\ Searched[1] = wl_search_order[1 - 1] /\ Searched[1] # 0
      BY <1>3, <1>4, <2>1, <3>1
    <3> QED BY <2>2, <3>1, <3>2
  <2>3. CASE i # 0
    <3>1. i \in 1 .. n /\ (i + 1) - 1 = i /\ i + 1 # 1
      BY <1>1, <2>3, Sizes
    <3>2. w[i] = wl_search_order[i - 1] /\ t[i + 1] = Searched[i]
      BY <1>2, <1>4, <2>1, <3>1
    <3> QED BY <1>3, <3>1, <3>2
  <2> QED BY <2>2, <2>3
<1>8. n + 1 \in 0 .. Listed /\ 0 .. (n + 1) - 1 = 0 .. n
  BY <1>1, Sizes
<1>9. Searched' \in Seq(Nat) /\ Len(Searched') = n + 1 /\ \A i \in 1 .. n + 1 : Searched'[i] = w[i - 1]
  BY <1>5, <1>6, <1>7, <1>8, SearchedNext DEF w
<1>10. ASSUME NEW i \in 1 .. n + 1 PROVE Searched'[i] = t[i]
  <2>1. i - 1 \in 0 .. n /\ (i - 1) + 1 = i
    BY <1>1, Sizes
  <2> QED BY <1>7, <1>9, <2>1
<1>11. Searched' = t
  BY <1>4, <1>9, <1>10, SeqEqual
<1>12. CURRENT' = CURRENT
  <2>1. WL_SO_MAX - 1 \in Cells /\ WL_SO_MAX - 1 \notin 1 .. n
    BY <1>1, Sizes DEF Cells
  <2> QED BY <1>2, <2>1 DEF CURRENT, w
<1>13. Searched # <<>>
  BY <1>1, <1>3, EmptySeq, Sizes DEF n
<1> QED BY <1>4, <1>8, <1>11, <1>12, <1>13 DEF t, Order!Also, Order!SetOrder

LEMMA PreviousPromised ==
  ASSUME Sound, PREVIOUS
  PROVE  Order!Previous
<1> DEFINE n == Len(Searched)
           w == wl_search_order'
<1>1. n \in 2 .. Listed /\ WLCOUNT = n
  BY SearchedSound, Sizes DEF PREVIOUS
<1>2. w = [i \in Cells |-> IF i < n - 1 THEN wl_search_order[i + 1]
                            ELSE IF i = n - 1 THEN 0 ELSE wl_search_order[i]]
  BY <1>1 DEF PREVIOUS
<1>3. /\ Searched \in Seq(Nat) /\ \A i \in 1 .. n : Searched[i] = wl_search_order[i - 1] /\ Searched[i] # 0
      /\ wl_search_order \in [Cells -> Nat]
  BY SearchedSound, Sizes DEF Sound, DTypeOK
<1>4. /\ Tail(Searched) \in Seq(Nat) /\ Len(Tail(Searched)) = n - 1 /\ Searched # <<>>
      /\ \A i \in 1 .. n - 1 : Tail(Searched)[i] = Searched[i + 1]
  <2>1. Searched # <<>>
    BY <1>1, EmptySeq, Sizes
  <2> QED BY <1>3, <2>1, HeadTailProperties
<1> HIDE DEF n, w
<1>5. w \in [Cells -> Nat]
  <2>1. \A i \in Cells : i < n - 1 => i + 1 \in Cells
    BY <1>1, Sizes DEF Cells
  <2> QED BY <1>2, <1>3, <2>1
<1>6. w[n - 1] = 0
  <2>1. n - 1 \in Cells /\ ~(n - 1 < n - 1)
    BY <1>1, Sizes DEF Cells
  <2> QED BY <1>2, <2>1
<1>7. \A i \in 0 .. (n - 1) - 1 : w[i] = Searched[i + 2] /\ w[i] # 0
  <2> SUFFICES ASSUME NEW i \in 0 .. (n - 1) - 1 PROVE w[i] = Searched[i + 2] /\ w[i] # 0
    OBVIOUS
  <2>1. i \in Cells /\ i < n - 1 /\ i + 2 \in 1 .. n /\ (i + 2) - 1 = i + 1
    BY <1>1, Sizes DEF Cells
  <2> QED BY <1>2, <1>3, <2>1
<1>8. n - 1 \in 0 .. Listed
  BY <1>1, Sizes
<1>9. Searched' \in Seq(Nat) /\ Len(Searched') = n - 1 /\ \A i \in 1 .. n - 1 : Searched'[i] = w[i - 1]
  BY <1>5, <1>6, <1>7, <1>8, SearchedNext DEF w
<1>10. ASSUME NEW i \in 1 .. n - 1 PROVE Searched'[i] = Tail(Searched)[i]
  <2>1. i - 1 \in 0 .. (n - 1) - 1 /\ (i - 1) + 2 = i + 1
    BY <1>1, Sizes
  <2> QED BY <1>4, <1>7, <1>9, <2>1
<1>11. Searched' = Tail(Searched)
  BY <1>4, <1>9, <1>10, SeqEqual
<1>12. CURRENT' = CURRENT
  <2>1. WL_SO_MAX - 1 \in Cells /\ ~(WL_SO_MAX - 1 < n - 1) /\ WL_SO_MAX - 1 # n - 1
    BY <1>1, Sizes DEF Cells
  <2> QED BY <1>2, <2>1 DEF CURRENT, w
<1>13. n > 1 /\ n - 1 <= Listed
  BY <1>1, Sizes
<1> QED BY <1>4, <1>11, <1>12, <1>13 DEF n, Order!Previous, Order!SetOrder

(* FORTH takes the first place; an order that was empty has no list behind *)
(* it that would come to be searched.                                      *)
LEMMA ForthPromised ==
  ASSUME Sound, WL_SET
  PROVE  Order!Forth_
<1> DEFINE n == Len(Searched)
           m == IF n = 0 THEN 1 ELSE n
           t == <<FORTH>> \o (IF Searched = <<>> THEN Searched ELSE Tail(Searched))
           w == wl_search_order'
<1>1. n \in 0 .. Listed
  BY SearchedSound
<1>2. w = [wl_search_order EXCEPT ![0] = FORTH]
  BY DEF WL_SET, Cell
<1>3. /\ Searched \in Seq(Nat) /\ \A i \in 1 .. n : Searched[i] = wl_search_order[i - 1] /\ Searched[i] # 0
      /\ \A i \in n .. Listed : wl_search_order[i] = 0
      /\ wl_search_order \in [Cells -> Nat]
  BY SearchedSound, Sizes DEF Sound, DTypeOK
<1>4. /\ t \in Seq(Nat) /\ Len(t) = m
      /\ \A i \in 1 .. m : t[i] = IF i = 1 THEN FORTH ELSE Searched[i]
  <2> DEFINE r == IF Searched = <<>> THEN Searched ELSE Tail(Searched)
  <2>1. FORTH \in Nat /\ <<FORTH>> \in Seq(Nat) /\ Len(<<FORTH>>) = 1 /\ <<FORTH>>[1] = FORTH
    BY DEF FORTH
  <2>2. r \in Seq(Nat) /\ Len(r) = m - 1 /\ \A i \in 1 .. m - 1 : r[i] = Searched[i + 1]
    <3>1. CASE Searched = <<>>
      BY <1>3, <3>1, EmptySeq
    <3>2. CASE Searched # <<>>
      BY <1>1, <1>3, <3>2, HeadTailProperties, EmptySeq
    <3> QED BY <3>1, <3>2
  <2> HIDE DEF r, n
  <2>3. /\ t \in Seq(Nat) /\ Len(t) = 1 + Len(r)
        /\ \A i \in 1 .. 1 + Len(r) : t[i] = IF i <= 1 THEN <<FORTH>>[i] ELSE r[i - 1]
    BY <2>1, <2>2, ConcatProperties DEF r
  <2>4. ASSUME NEW i \in 1 .. m PROVE t[i] = IF i = 1 THEN FORTH ELSE Searched[i]
    <3>1. i \in 1 .. 1 + Len(r) /\ (i = 1 \/ (i - 1 \in 1 .. m - 1 /\ (i - 1) + 1 = i /\ ~(i <= 1)))
      BY <1>1, <2>2, Sizes
    <3> QED BY <2>1, <2>2, <2>3, <3>1
  <2> QED BY <1>1, <2>2, <2>3, <2>4, Sizes
<1>m. (n = 0 /\ m = 1) \/ (n # 0 /\ m = n)
  OBVIOUS
<1> HIDE DEF t, n, w, m
<1>5. w \in [Cells -> Nat]
  BY <1>2, <1>3 DEF FORTH
<1>6. w[m] = 0 /\ m \in 1 .. Listed /\ m \in Nat
  <2>1. m \in Cells /\ m # 0 /\ m \in n .. Listed /\ m \in 1 .. Listed
    BY <1>1, <1>m, Sizes DEF Cells
  <2> QED BY <1>2, <1>3, <2>1, Sizes
<1>7. \A i \in 0 .. m - 1 : w[i] = t[i + 1] /\ w[i] # 0
  <2> SUFFICES ASSUME NEW i \in 0 .. m - 1 PROVE w[i] = t[i + 1] /\ w[i] # 0
    OBVIOUS
  <2>1. i \in Cells /\ i + 1 \in 1 .. m
    BY <1>6, Sizes DEF Cells
  <2>2. CASE i = 0
    BY <1>2, <1>3, <1>4, <2>1, <2>2 DEF FORTH
  <2>3. CASE i # 0
    <3>1. i + 1 \in 1 .. n /\ (i + 1) - 1 = i /\ i + 1 # 1
      BY <1>1, <1>6, <1>m, <2>1, <2>3, Sizes
    <3>2. w[i] = wl_search_order[i] /\ t[i + 1] = Searched[i + 1]
      BY <1>2, <1>3, <1>4, <2>1, <2>3, <3>1
    <3> QED BY <1>3, <3>1, <3>2
  <2> QED BY <2>2, <2>3
<1>9. Searched' \in Seq(Nat) /\ Len(Searched') = m /\ \A i \in 1 .. m : Searched'[i] = w[i - 1]
  <2>1. m \in 0 .. Listed
    BY <1>6, Sizes
  <2> QED BY <1>5, <1>6, <1>7, <2>1, SearchedNext DEF w
<1>10. ASSUME NEW i \in 1 .. m PROVE Searched'[i] = t[i]
  <2>1. i - 1 \in 0 .. m - 1 /\ (i - 1) + 1 = i
    BY <1>6, Sizes
  <2> QED BY <1>7, <1>9, <2>1
<1>11. Searched' = t
  BY <1>4, <1>9, <1>10, SeqEqual
<1>12. CURRENT' = CURRENT
  <2>1. WL_SO_MAX - 1 \in Cells /\ WL_SO_MAX - 1 # 0
    BY Sizes DEF Cells
  <2> QED BY <1>2, <1>3, <2>1 DEF CURRENT, w
<1>13. Len(t) <= Listed
  BY <1>4, <1>6, Sizes
<1> QED BY <1>11, <1>12, <1>13 DEF t, Order!Forth_, Order!SetOrder
(* SET-ORDER of at most as many wordlists as WL:COUNT counts.              *)
LEMMA SetOrderPromised ==
  ASSUME Sound, NEW s \in Seq(Nat), Len(s) <= Listed, \A i \in 1 .. Len(s) : s[i] # 0,
         wl_search_order' = Stored(s)
  PROVE  Order!SetOrder(s)
BY StoredSearched DEF Order!SetOrder

LEMMA ExecutePromised ==
  ASSUME Sound, NEW l \in Nat \ {0}, Execute(l)
  PROVE  Order!Vocabulary(l)
<1> DEFINE n == Len(Searched)
           r == Tail(Searched)
           t == <<l>> \o r
<1>1. /\ Searched \in Seq(Nat) /\ n \in 0 .. Listed /\ GET_ORDER = Searched
      /\ \A i \in 1 .. n : Searched[i] # 0
  BY SearchedSound
<1>2. Searched # <<>> /\ wl_search_order' = Stored(t)
  BY <1>1 DEF Execute
<1>3. /\ n \in 1 .. Listed /\ r \in Seq(Nat) /\ Len(r) = n - 1
      /\ \A i \in 1 .. n - 1 : r[i] = Searched[i + 1]
  BY <1>1, <1>2, HeadTailProperties, EmptySeq, Sizes
<1>4. <<l>> \in Seq(Nat) /\ Len(<<l>>) = 1 /\ <<l>>[1] = l
  OBVIOUS
<1> HIDE DEF r
<1>5. /\ t \in Seq(Nat) /\ Len(t) = 1 + Len(r)
      /\ \A i \in 1 .. 1 + Len(r) : t[i] = IF i <= 1 THEN <<l>>[i] ELSE r[i - 1]
  BY <1>3, <1>4, ConcatProperties
<1> HIDE DEF t, n
<1>6. Len(t) = n /\ Len(t) <= Listed
  BY <1>3, <1>5, Sizes
<1>7. ASSUME NEW i \in 1 .. n PROVE t[i] # 0
  <2>1. CASE i = 1
    BY <1>3, <1>4, <1>5, <2>1
  <2>2. CASE i # 1
    <3>1. i - 1 \in 1 .. n - 1 /\ (i - 1) + 1 = i /\ ~(i <= 1) /\ i \in 1 .. 1 + Len(r)
      BY <1>3, <2>2, Sizes
    <3> QED BY <1>1, <1>3, <1>5, <3>1 DEF n
  <2> QED BY <2>1, <2>2
<1>8. Order!SetOrder(t)
  BY <1>2, <1>5, <1>6, <1>7, SetOrderPromised
<1> QED BY <1>2, <1>8 DEF t, r, Order!Vocabulary

(* CURRENT lies behind what is searched. *)
LEMMA CurrentKeepsOrder ==
  ASSUME Sound, NEW l \in 0 .. Top, Cell(WL_SO_MAX - 1, l)
  PROVE  Searched' = Searched /\ CURRENT' = l
<1> DEFINE n == Len(Searched)
<1>1. /\ Searched \in Seq(Nat) /\ n \in 0 .. Listed
      /\ \A i \in 1 .. n : Searched[i] = wl_search_order[i - 1] /\ Searched[i] # 0
      /\ \A i \in n .. Listed : wl_search_order[i] = 0
  BY SearchedSound
<1>2. wl_search_order \in [Cells -> Nat] /\ l \in Nat
  BY Sizes DEF Sound, DTypeOK
<1>3. wl_search_order' = [wl_search_order EXCEPT ![WL_SO_MAX - 1] = l]
  BY DEF Cell
<1> HIDE DEF n
<1>4. \A i \in 0 .. n : i \in Cells /\ wl_search_order'[i] = wl_search_order[i]
  <2>1. \A i \in 0 .. n : i \in Cells /\ i # WL_SO_MAX - 1
    BY <1>1, Sizes DEF Cells
  <2> QED BY <1>2, <1>3, <2>1
<1>5. wl_search_order'[n] = 0 /\ \A i \in 0 .. n - 1 : wl_search_order'[i] # 0
  <2>1. wl_search_order'[n] = 0
    BY <1>1, <1>4, Sizes
  <2>2. ASSUME NEW i \in 0 .. n - 1 PROVE wl_search_order'[i] # 0
    <3>1. i + 1 \in 1 .. n /\ (i + 1) - 1 = i /\ i \in 0 .. n
      BY <1>1, Sizes
    <3> QED BY <1>1, <1>4, <3>1
  <2> QED BY <2>1, <2>2
<1>6. wl_search_order' \in [Cells -> Nat]
  BY <1>2, <1>3
<1>7. /\ Searched' \in Seq(Nat) /\ Len(Searched') = n
      /\ \A i \in 1 .. n : Searched'[i] = wl_search_order'[i - 1]
  BY <1>1, <1>5, <1>6, SearchedNext
<1>8. ASSUME NEW i \in 1 .. n PROVE Searched'[i] = Searched[i]
  <2>1. i - 1 \in 0 .. n
    BY <1>1, Sizes
  <2> QED BY <1>1, <1>4, <1>7, <2>1
<1>9. Searched' = Searched
  BY <1>1, <1>7, <1>8, SeqEqual DEF n
<1>10. CURRENT' = l
  <2>1. WL_SO_MAX - 1 \in Cells
    BY Sizes DEF Cells
  <2> QED BY <1>2, <1>3, <2>1 DEF CURRENT
<1> QED BY <1>9, <1>10

LEMMA DefinitionsPromised ==
  ASSUME Sound, DEFINITIONS
  PROVE  Order!Definitions
<1>1. /\ Searched \in Seq(Nat) /\ Len(Searched) \in 0 .. Listed
      /\ \A i \in 1 .. Len(Searched) : Searched[i] = wl_search_order[i - 1]
      /\ \A i \in Len(Searched) .. Listed : wl_search_order[i] = 0
  BY SearchedSound
<1>2. wl_search_order[0] # 0 /\ Cell(WL_SO_MAX - 1, wl_search_order[0]) /\ wl_search_order[0] \in 0 .. Top
  BY Sizes DEF DEFINITIONS, Sound, DTypeOK, Cells
<1>3. Len(Searched) # 0
  BY <1>1, <1>2, Sizes
<1>4. 1 \in 1 .. Len(Searched) /\ 1 - 1 = 0
  BY <1>1, <1>3, Sizes
<1>5. Searched[1] = wl_search_order[0] /\ Searched # <<>>
  BY <1>1, <1>3, <1>4, EmptySeq
<1> QED BY <1>2, <1>5, CurrentKeepsOrder DEF Order!Definitions

(* Every word of the search order does to the sequence what it promises.   *)
LEMMA WordsPromised ==
  ASSUME Sound, UNCHANGED <<mem, here, state>>
  PROVE  Promised
<1>1. FORTH \in Nat /\ FORTH # 0 /\ <<FORTH>> \in Seq(Nat) /\ Len(<<FORTH>>) = 1 /\ <<FORTH>>[1] = FORTH
  BY DEF FORTH
<1>2. ONLY_ => Order!Only
  <2>1. Len(<<FORTH>>) <= Listed /\ \A i \in 1 .. Len(<<FORTH>>) : <<FORTH>>[i] # 0
    BY <1>1, Sizes
  <2>2. ONLY_ => wl_search_order' = Stored(<<FORTH>>)
    BY DEF ONLY_
  <2>3. ONLY_ => Order!SetOrder(<<FORTH>>)
    BY <1>1, <2>1, <2>2, SetOrderPromised
  <2> QED BY <2>3 DEF Order!Only
<1>3. ASSUME NEW l \in Lists
      PROVE  /\ Execute(l) => Order!Vocabulary(l)
             /\ SetCurrent(l) => Order!SetCurrent(l)
             /\ \A s \in {<<>>, <<l>>, <<l, FORTH>>} : SetOrder(s) => Order!SetOrder(s)
  <2>1. l \in Nat \ {0} /\ l \in 0 .. Top
    BY Sizes DEF Lists, Alive, Sound, DTypeOK
  <2>2. Execute(l) => Order!Vocabulary(l)
    BY <2>1, ExecutePromised
  <2>3. SetCurrent(l) => Order!SetCurrent(l)
    BY <2>1, CurrentKeepsOrder DEF SetCurrent, Order!SetCurrent
  <2>4. ASSUME NEW s \in {<<>>, <<l>>, <<l, FORTH>>}
        PROVE  SetOrder(s) => Order!SetOrder(s)
    <3>1. s \in Seq(Nat) /\ Len(s) <= 2 /\ Len(s) \in Nat /\ \A i \in 1 .. Len(s) : s[i] # 0
      <4>1. CASE s = <<>>
        BY <4>1, EmptySeq
      <4>2. CASE s = <<l>>
        BY <2>1, <4>2
      <4>3. CASE s = <<l, FORTH>>
        BY <1>1, <2>1, <4>3
      <4> QED BY <4>1, <4>2, <4>3
    <3>2. Len(s) <= Listed
      BY <3>1, Sizes
    <3> QED BY <3>1, <3>2, SetOrderPromised DEF SetOrder
  <2> QED BY <2>2, <2>3, <2>4
<1> QED BY <1>2, <1>3, AlsoPromised, PreviousPromised, DefinitionsPromised, ForthPromised DEF Promised
-----------------------------------------------------------------------------
(* The invariant, step by step: first the words of the search order.       *)
Known == {0} \cup Lists \cup {wl_search_order[j] : j \in Cells}

LEMMA KnownType ==
  ASSUME DTypeOK
  PROVE  Known \subseteq 0 .. Top /\ FORTH \in Known /\ FORTH # 0 /\ 0 \in Known
BY Sizes DEF DTypeOK, Known, Lists, Alive, FORTH

(* A word that gives the array known wordlists and leaves no gap in it.    *)
LEMMA OrderWord ==
  ASSUME DInv, Followed, Rest, wl_search_order' \in [Cells -> Known], spoilt \subseteq spoilt', Packed',
         "overrun" \notin spoilt' => CURRENT' # 0 \/ CURRENT' = CURRENT
  PROVE  DInv'
<1>1. UNCHANGED <<mem, here, next_word, state>>
  BY DEF Rest
<1>2. DTypeOK'
  BY <1>1, KnownType DEF DInv, DTypeOK
<1>3. Lists' = Lists /\ Alive' = Alive
  BY <1>1 DEF Lists, Alive
<1>4. InUse'
  <2> SUFFICES ASSUME (spoilt \cap {"marker", "overrun"})' = {}
               PROVE  /\ CURRENT' # 0
                      /\ \A i \in Cells : wl_search_order'[i] # 0 => wl_search_order'[i] \in Lists'
                      /\ state' = 1 => next_word' \in Alive'
    BY DEF InUse
  <2>1. spoilt \cap {"marker", "overrun"} = {} /\ "overrun" \notin spoilt'
    OBVIOUS
  <2>2. /\ CURRENT # 0
        /\ \A i \in Cells : wl_search_order[i] # 0 => wl_search_order[i] \in Lists
        /\ state = 1 => next_word \in Alive
    BY <2>1 DEF DInv, InUse
  <2>3. \A i \in Cells : wl_search_order'[i] # 0 => wl_search_order'[i] \in Lists
    BY <2>2 DEF Known
  <2> QED BY <1>1, <1>3, <2>1, <2>2, <2>3
<1>5. SearchEnds'
  <2>1. (spoilt \cap {"marker", "overrun"})' = {} => spoilt \cap {"marker", "overrun"} = {}
    OBVIOUS
  <2> QED BY <1>1, <1>3, <2>1 DEF DInv, SearchEnds
<1> QED BY <1>2, <1>4, <1>5 DEF DInv

LEMMA PackedNext ==
  ASSUME NEW n \in 0 .. Listed, \A i \in 0 .. n - 1 : wl_search_order'[i] # 0,
         \A i \in n .. Listed : wl_search_order'[i] = 0
  PROVE  Packed'
<1>1. Listed \in n .. Listed
  BY Sizes
<1>2. ASSUME NEW i \in 0 .. Listed, NEW j \in 0 .. Listed, i < j, wl_search_order'[i] = 0
      PROVE  wl_search_order'[j] = 0
  <2>1. i \notin 0 .. n - 1
    BY <1>2
  <2>2. j \in n .. Listed
    BY <1>2, <2>1, Sizes
  <2> QED BY <2>2
<1> QED BY <1>1, <1>2 DEF Packed

LEMMA StoredWord ==
  ASSUME DInv, Followed, Rest, NEW s \in Seq(Known), \A i \in 1 .. Len(s) : s[i] # 0,
         wl_search_order' = Stored(s), spoilt \subseteq spoilt',
         Len(s) > Listed => "overrun" \in spoilt'
  PROVE  DInv'
<1> DEFINE n == Len(s)
<1>1. n \in Nat /\ s \in [1 .. n -> Known]
  BY LenProperties
<1>2. wl_search_order' = [i \in Cells |-> IF i < n THEN s[i + 1] ELSE IF i < Listed THEN 0 ELSE wl_search_order[i]]
  BY DEF Stored
<1>3. DTypeOK /\ Packed /\ "overrun" \notin spoilt
  BY DEF DInv, Followed
<1> HIDE DEF n
<1>4. wl_search_order' \in [Cells -> Known]
  <2>1. \A i \in Cells : i < n => i + 1 \in 1 .. n
    BY <1>1, Sizes DEF Cells
  <2>2. \A i \in Cells : wl_search_order[i] \in Known
    BY DEF Known
  <2>3. \A i \in Cells : wl_search_order'[i] \in Known
    BY <1>1, <1>2, <1>3, <2>1, <2>2, KnownType
  <2> QED BY <1>2, <2>3
<1>5. CASE n <= Listed
  <2>1. \A i \in 0 .. n - 1 : wl_search_order'[i] # 0
    <3> SUFFICES ASSUME NEW i \in 0 .. n - 1 PROVE wl_search_order'[i] # 0
      OBVIOUS
    <3>1. i \in Cells /\ i < n /\ i + 1 \in 1 .. n
      BY <1>1, <1>5, Sizes DEF Cells
    <3> QED BY <1>2, <3>1 DEF n
  <2>2. \A i \in n .. Listed : wl_search_order'[i] = 0
    <3> SUFFICES ASSUME NEW i \in n .. Listed PROVE wl_search_order'[i] = 0
      OBVIOUS
    <3>1. i \in Cells /\ ~(i < n) /\ (i < Listed \/ i = Listed)
      BY <1>1, <1>5, Sizes DEF Cells
    <3> QED BY <1>2, <1>3, <3>1 DEF Packed
  <2>3. Packed'
    <3>1. n \in 0 .. Listed
      BY <1>1, <1>5, Sizes
    <3> QED BY <2>1, <2>2, <3>1, PackedNext
  <2>4. CURRENT' = CURRENT
    <3>1. WL_SO_MAX - 1 \in Cells /\ ~(WL_SO_MAX - 1 < n) /\ ~(WL_SO_MAX - 1 < Listed)
      BY <1>1, <1>5, Sizes DEF Cells
    <3> QED BY <1>2, <3>1 DEF CURRENT
  <2> QED BY <1>4, <2>3, <2>4, OrderWord
<1>6. CASE n > Listed
  <2>1. "overrun" \in spoilt'
    BY <1>6 DEF n
  <2>2. Packed'
    BY <2>1 DEF Packed
  <2> QED BY <1>4, <2>1, <2>2, OrderWord
<1> QED BY <1>1, <1>5, <1>6, Sizes
LEMMA FollowedSound == DInv /\ Followed => Sound /\ spoilt \cap {"marker", "overrun"} = {}
BY DEF DInv, Followed, Sound

(* SET-ORDER, ONLY, and a wordlist executed. *)
LEMMA StoringStep ==
  ASSUME DInv, Followed, SET_ORDER \/ DoVocabulary \/ ONLY_
  PROVE  DInv'
<1>1. Known \subseteq 0 .. Top /\ FORTH \in Known /\ FORTH # 0
  BY KnownType DEF DInv
<1>2. \A l \in Lists : l \in Known /\ l # 0
  <2>1. 0 \notin Lists
    BY DEF Lists, Alive, DInv, DTypeOK
  <2> QED BY <2>1 DEF Known
<1>3. CASE SET_ORDER
  <2>1. PICK s \in Orders : SetOrder(s)
    BY <1>3 DEF SET_ORDER
  <2>2. s \in Seq(Known) /\ \A i \in 1 .. Len(s) : s[i] # 0
    <3>1. CASE s = <<>>
      BY <3>1, EmptySeq
    <3>2. CASE s # <<>>
      <4>1. PICK n \in 1 .. WL_SO_MAX, l \in Lists : s = [i \in 1 .. n |-> IF i = 1 THEN l ELSE FORTH]
        BY <2>1, <3>2 DEF Orders
      <4>2. s \in [1 .. n -> Known] /\ n \in Nat /\ \A i \in 1 .. n : s[i] # 0
        BY <1>1, <1>2, <4>1, Sizes
      <4>3. s \in Seq(Known) /\ Len(s) = n
        BY <4>2
      <4> QED BY <4>2, <4>3
    <3> QED BY <3>1, <3>2
  <2>3. /\ Rest /\ wl_search_order' = Stored(s) /\ spoilt \subseteq spoilt'
        /\ Len(s) > Listed => "overrun" \in spoilt'
    BY <2>1 DEF SetOrder
  <2> QED BY <2>2, <2>3, StoredWord
<1>4. CASE ONLY_
  <2>1. <<FORTH>> \in Seq(Known) /\ Len(<<FORTH>>) = 1 /\ \A i \in 1 .. 1 : <<FORTH>>[i] # 0
    BY <1>1
  <2>2. Rest /\ wl_search_order' = Stored(<<FORTH>>) /\ spoilt \subseteq spoilt' /\ ~(Len(<<FORTH>>) > Listed)
    BY <1>4, <2>1, Sizes DEF ONLY_
  <2> QED BY <2>1, <2>2, StoredWord
<1>5. CASE DoVocabulary
  <2>1. PICK l \in Lists \ {FORTH} : Execute(l)
    BY <1>5 DEF DoVocabulary
  <2> DEFINE n == Len(Searched)
             r == Tail(Searched)
             t == <<l>> \o r
  <2>2. Sound
    BY FollowedSound
  <2>3. /\ Searched \in Seq(Nat) /\ n \in 0 .. Listed /\ GET_ORDER = Searched
        /\ \A i \in 1 .. n : Searched[i] = wl_search_order[i - 1] /\ Searched[i] # 0
    BY <2>2, SearchedSound
  <2>4. GET_ORDER # <<>> /\ wl_search_order' = Stored(t) /\ spoilt' = spoilt /\ Rest
    BY <2>1, <2>3 DEF Execute
  <2>5. n \in 1 .. Listed /\ r \in Seq(Nat) /\ Len(r) = n - 1 /\ \A i \in 1 .. n - 1 : r[i] = Searched[i + 1]
    BY <2>3, <2>4, HeadTailProperties, EmptySeq, Sizes
  <2> HIDE DEF r, n
  <2>6. ASSUME NEW i \in 1 .. n - 1 PROVE r[i] \in Known /\ r[i] # 0
    <3>1. i + 1 \in 1 .. n /\ (i + 1) - 1 = i /\ i \in Cells
      BY <2>5, Sizes DEF Cells
    <3> QED BY <2>3, <2>5, <3>1 DEF Known
  <2>7. r \in Seq(Known)
    <3>1. r \in [1 .. n - 1 -> Known]
      BY <2>5, <2>6, LenProperties
    <3> QED BY <2>5, <3>1
  <2>8. <<l>> \in Seq(Known) /\ Len(<<l>>) = 1 /\ <<l>>[1] = l /\ l # 0
    BY <1>2, <2>1
  <2>9. /\ t \in Seq(Known) /\ Len(t) = 1 + Len(r)
        /\ \A i \in 1 .. 1 + Len(r) : t[i] = IF i <= 1 THEN <<l>>[i] ELSE r[i - 1]
    BY <2>7, <2>8, ConcatProperties
  <2> HIDE DEF t
  <2>10. ASSUME NEW i \in 1 .. Len(t) PROVE t[i] # 0
    <3>1. i = 1 \/ (i - 1 \in 1 .. n - 1 /\ ~(i <= 1))
      BY <2>5, <2>9, Sizes
    <3> QED BY <2>6, <2>8, <2>9, <3>1
  <2>11. ~(Len(t) > Listed)
    BY <2>5, <2>9, Sizes
  <2> QED BY <2>4, <2>9, <2>10, <2>11, StoredWord
<1> QED BY <1>3, <1>4, <1>5

(* The words that change single cells. *)
LEMMA CellStep ==
  ASSUME DInv, Followed, WL_SET \/ DEFINITIONS \/ SET_CURRENT
  PROVE  DInv'
<1> DEFINE n == Len(Searched)
<1>1. Sound /\ Packed /\ DTypeOK
  BY FollowedSound DEF DInv
<1>2. /\ n \in 0 .. Listed /\ \A i \in n .. Listed : wl_search_order[i] = 0
      /\ \A i \in 1 .. n : Searched[i] = wl_search_order[i - 1] /\ Searched[i] # 0
  BY <1>1, SearchedSound
<1>3. \A i \in Cells : wl_search_order[i] \in Known
  BY DEF Known
<1>4. 0 \in Cells /\ WL_SO_MAX - 1 \in Cells /\ WL_SO_MAX - 1 # 0
  BY Sizes DEF Cells
<1>5. CASE DEFINITIONS \/ SET_CURRENT
  <2>1. PICK l \in Known : l # 0 /\ Cell(WL_SO_MAX - 1, l) /\ Rest /\ spoilt \subseteq spoilt'
    <3>1. CASE DEFINITIONS
      BY <1>3, <1>4, <3>1 DEF DEFINITIONS, Ordered
    <3>2. CASE SET_CURRENT
      <4>1. PICK k \in Lists : SetCurrent(k)
        BY <3>2 DEF SET_CURRENT
      <4>2. k \in Known /\ k # 0
        BY <1>1 DEF Known, Lists, Alive, DTypeOK
      <4> QED BY <4>1, <4>2 DEF SetCurrent, Ordered
    <3> QED BY <1>5, <3>1, <3>2
  <2>2. wl_search_order' = [wl_search_order EXCEPT ![WL_SO_MAX - 1] = l]
    BY <2>1 DEF Cell
  <2>3. wl_search_order' \in [Cells -> Known]
    BY <1>1, <1>3, <2>2 DEF DTypeOK
  <2>4. CURRENT' # 0
    BY <1>1, <1>4, <2>1, <2>2 DEF CURRENT, DTypeOK
  <2>5. \A i \in 0 .. Listed : wl_search_order'[i] = wl_search_order[i]
    <3>1. \A i \in 0 .. Listed : i \in Cells /\ i # WL_SO_MAX - 1
      BY Sizes DEF Cells
    <3> QED BY <1>1, <2>2, <3>1 DEF DTypeOK
  <2>6. Listed \in 0 .. Listed
    BY Sizes
  <2>7. Packed'
    <3> SUFFICES ASSUME "overrun" \notin spoilt'
                 PROVE  /\ wl_search_order'[Listed] = 0
                        /\ \A i, j \in 0 .. Listed : i < j /\ wl_search_order'[i] = 0 => wl_search_order'[j] = 0
      BY DEF Packed
    <3> QED BY <1>1, <2>5, <2>6 DEF Packed, Sound
  <2> QED BY <2>1, <2>3, <2>4, <2>7, OrderWord
<1>6. CASE WL_SET
  <2>1. wl_search_order' = [wl_search_order EXCEPT ![0] = FORTH] /\ Rest /\ spoilt \subseteq spoilt'
    BY <1>6 DEF WL_SET, Cell
  <2>2. FORTH \in Known /\ FORTH # 0
    BY <1>1, KnownType
  <2>3. wl_search_order' \in [Cells -> Known]
    BY <1>1, <1>3, <2>1, <2>2 DEF DTypeOK
  <2>4. CURRENT' = CURRENT
    BY <1>1, <1>4, <2>1 DEF CURRENT, DTypeOK
  <2> DEFINE m == IF n = 0 THEN 1 ELSE n
  <2>5. m \in 0 .. Listed /\ ((n = 0 /\ m = 1) \/ (n # 0 /\ m = n))
    BY <1>2, Sizes
  <2> HIDE DEF m, n
  <2>6. ASSUME NEW i \in 0 .. m - 1 PROVE wl_search_order'[i] # 0
    <3>1. i \in Cells /\ (i = 0 \/ (i # 0 /\ i + 1 \in 1 .. n /\ (i + 1) - 1 = i))
      BY <1>2, <2>5, Sizes DEF Cells
    <3> QED BY <1>1, <1>2, <2>1, <2>2, <3>1 DEF DTypeOK
  <2>7. ASSUME NEW i \in m .. Listed PROVE wl_search_order'[i] = 0
    <3>1. i \in Cells /\ i # 0 /\ i \in n .. Listed
      BY <1>2, <2>5, Sizes DEF Cells
    <3> QED BY <1>1, <1>2, <2>1, <3>1 DEF DTypeOK
  <2>8. Packed'
    BY <2>5, <2>6, <2>7, PackedNext
  <2> QED BY <2>1, <2>3, <2>4, <2>8, OrderWord
<1> QED BY <1>5, <1>6

LEMMA MovingStep ==
  ASSUME DInv, Followed, ALSO \/ PREVIOUS
  PROVE  DInv'
<1> DEFINE n == Len(Searched)
<1>1. Sound /\ Packed /\ DTypeOK
  BY FollowedSound DEF DInv
<1>2. /\ n \in 0 .. Listed /\ WLCOUNT = n /\ \A i \in n .. Listed : wl_search_order[i] = 0
      /\ \A i \in 1 .. n : Searched[i] = wl_search_order[i - 1] /\ Searched[i] # 0
  BY <1>1, SearchedSound
<1>3. \A i \in Cells : wl_search_order[i] \in Known
  BY DEF Known
<1>4. 0 \in Cells /\ WL_SO_MAX - 1 \in Cells /\ 0 \in Known
  BY <1>1, KnownType, Sizes DEF Cells
<1>5. ASSUME NEW i \in 0 .. n - 1 PROVE wl_search_order[i] # 0
  <2>1. i + 1 \in 1 .. n /\ (i + 1) - 1 = i
    BY <1>2, Sizes
  <2> QED BY <1>2, <2>1
<1> HIDE DEF n
<1>6. CASE ALSO
  <2>1. /\ n \in 1 .. Listed - 1 /\ Rest /\ spoilt \subseteq spoilt'
        /\ wl_search_order' = [i \in Cells |-> IF i \in 1 .. n THEN wl_search_order[i - 1] ELSE wl_search_order[i]]
    BY <1>2, <1>6 DEF ALSO, Moved
  <2>2. wl_search_order' \in [Cells -> Known]
    <3>1. \A i \in Cells : i \in 1 .. n => i - 1 \in Cells
      BY Sizes DEF Cells
    <3> QED BY <1>3, <2>1, <3>1
  <2>3. CURRENT' = CURRENT
    <3>1. WL_SO_MAX - 1 \notin 1 .. n
      BY <2>1, Sizes
    <3> QED BY <1>4, <2>1, <3>1 DEF CURRENT
  <2>4. ASSUME NEW i \in 0 .. (n + 1) - 1 PROVE wl_search_order'[i] # 0
    <3>1. i \in Cells /\ ((i \in 1 .. n /\ i - 1 \in 0 .. n - 1) \/ (i \notin 1 .. n /\ i \in 0 .. n - 1))
      BY <2>1, Sizes DEF Cells
    <3> QED BY <1>5, <2>1, <3>1
  <2>5. ASSUME NEW i \in n + 1 .. Listed PROVE wl_search_order'[i] = 0
    <3>1. i \in Cells /\ i \notin 1 .. n /\ i \in n .. Listed
      BY <2>1, Sizes DEF Cells
    <3> QED BY <1>2, <2>1, <3>1
  <2>6. n + 1 \in 0 .. Listed
    BY <2>1, Sizes
  <2>7. Packed'
    BY <2>4, <2>5, <2>6, PackedNext
  <2> QED BY <2>1, <2>2, <2>3, <2>7, OrderWord
<1>7. CASE PREVIOUS
  <2>1. /\ n \in 2 .. Listed /\ Rest /\ spoilt \subseteq spoilt'
        /\ wl_search_order' = [i \in Cells |-> IF i < n - 1 THEN wl_search_order[i + 1]
                                               ELSE IF i = n - 1 THEN 0 ELSE wl_search_order[i]]
    BY <1>2, <1>7, Sizes DEF PREVIOUS
  <2>2. wl_search_order' \in [Cells -> Known]
    <3>1. \A i \in Cells : i < n - 1 => i + 1 \in Cells
      BY <2>1, Sizes DEF Cells
    <3> QED BY <1>3, <1>4, <2>1, <3>1
  <2>3. CURRENT' = CURRENT
    <3>1. ~(WL_SO_MAX - 1 < n - 1) /\ WL_SO_MAX - 1 # n - 1
      BY <2>1, Sizes
    <3> QED BY <1>4, <2>1, <3>1 DEF CURRENT
  <2>4. ASSUME NEW i \in 0 .. (n - 1) - 1 PROVE wl_search_order'[i] # 0
    <3>1. i \in Cells /\ i < n - 1 /\ i + 1 \in 0 .. n - 1
      BY <2>1, Sizes DEF Cells
    <3> QED BY <1>5, <2>1, <3>1
  <2>5. ASSUME NEW i \in n - 1 .. Listed PROVE wl_search_order'[i] = 0
    <3>1. i \in Cells /\ ~(i < n - 1) /\ (i = n - 1 \/ i \in n .. Listed)
      BY <2>1, Sizes DEF Cells
    <3> QED BY <1>2, <2>1, <3>1
  <2>6. n - 1 \in 0 .. Listed
    BY <2>1, Sizes
  <2>7. Packed'
    BY <2>4, <2>5, <2>6, PackedNext
  <2> QED BY <2>1, <2>2, <2>3, <2>7, OrderWord
<1> QED BY <1>6, <1>7
(* Memory in which the words up to h link to words made earlier.           *)
Linked(m, h) ==
  /\ m \in [1 .. Top -> Entries]
  /\ \A a \in 1 .. here : m[a].kind = mem[a].kind
  /\ \A a \in 1 .. h : m[a].link < a /\ (m[a].kind = "list" => m[a].newest <= h)

(* Words that make or end a definition leave such memory, and the order.   *)
LEMMA LinkedStep ==
  ASSUME DInv, Followed, UNCHANGED wl_search_order, here' \in here .. Top, Linked(mem', here'),
         next_word' \in 0 .. Top, state' \in {0, 1}, state' = 1 => next_word' \in 1 .. here',
         spoilt \subseteq spoilt'
  PROVE  DInv'
<1>1. DTypeOK /\ Packed /\ InUse /\ spoilt \cap {"marker", "overrun"} = {}
  BY FollowedSound DEF DInv
<1>2. here' \in 1 .. Top /\ FORTH \in 1 .. here
  BY <1>1, Sizes DEF DTypeOK, FORTH
<1>3. DTypeOK'
  BY <1>1, <1>2 DEF DTypeOK, Linked
<1>4. Packed'
  BY <1>1 DEF Packed
<1>5. \A l \in Lists : l \in Lists'
  <2> SUFFICES ASSUME NEW l \in Lists PROVE l \in Lists'
    OBVIOUS
  <2>1. l \in 1 .. here /\ mem[l].kind = "list"
    BY DEF Lists, Alive
  <2>2. l \in 1 .. here'
    BY <1>1, <2>1, Sizes DEF DTypeOK
  <2> QED BY <2>1, <2>2 DEF Lists, Alive, Linked
<1>6. InUse'
  BY <1>1, <1>5 DEF InUse, CURRENT, Alive
<1>7. SearchEnds'
  BY DEF SearchEnds, Linked, Lists, Alive
<1> QED BY <1>3, <1>4, <1>6, <1>7 DEF DInv

(* What a definition is made in: CURRENT is a wordlist, and leads to words *)
(* in use.                                                                 *)
LEMMA LinkedNow ==
  ASSUME DInv, Followed
  PROVE  /\ CURRENT \in Lists /\ CURRENT \in 1 .. here /\ CURRENT \in 1 .. Top
         /\ here \in 1 .. Top /\ Linked(mem, here) /\ LinkOf \in 0 .. here
         /\ \A i \in Cells : wl_search_order[i] # 0 => wl_search_order[i] \in Lists
<1>1. DTypeOK /\ InUse /\ SearchEnds /\ spoilt \cap {"marker", "overrun"} = {}
  BY FollowedSound DEF DInv
<1>2. /\ CURRENT # 0
      /\ \A i \in Cells : wl_search_order[i] # 0 => wl_search_order[i] \in Lists
      /\ \A l \in Lists : mem[l].newest <= here
      /\ \A w \in 1 .. here : mem[w].link < w
  BY <1>1 DEF InUse, SearchEnds, Alive
<1>3. here \in 1 .. Top /\ mem \in [1 .. Top -> Entries]
  BY <1>1 DEF DTypeOK
<1>4. CURRENT \in Lists
  <2>1. WL_SO_MAX - 1 \in Cells
    BY Sizes DEF Cells
  <2> QED BY <1>2, <2>1 DEF CURRENT
<1>5. CURRENT \in 1 .. here /\ CURRENT \in 1 .. Top
  BY <1>3, <1>4, Sizes DEF Lists, Alive
<1>6. Linked(mem, here)
  BY <1>2, <1>3 DEF Linked, Lists, Alive
<1>7. LinkOf \in 0 .. here
  <2>1. mem[CURRENT] \in Entries /\ mem[CURRENT].newest \in 0 .. Top
    BY <1>3, <1>5 DEF Entries
  <2>2. mem[CURRENT].newest <= here
    BY <1>2, <1>4
  <2> QED BY <1>3, <2>1, <2>2, Sizes DEF LinkOf
<1> QED BY <1>2, <1>3, <1>4, <1>5, <1>6, <1>7

LEMMA MadeLinked ==
  ASSUME DInv, Followed, here < Top,
         NEW name \in Names \cup {NoName}, NEW kind \in {"word", "list", "marker"}
  PROVE  Linked(Made(name, kind), here + 1)
<1> DEFINE m == Made(name, kind)
           e == Word(name, kind, LinkOf)
<1>1. here \in 1 .. Top /\ Linked(mem, here) /\ LinkOf \in 0 .. here
  BY LinkedNow
<1>2. here + 1 \in 1 .. Top /\ LinkOf \in 0 .. Top /\ 0 \in 0 .. Top
  BY <1>1, Sizes
<1>3. e \in Entries /\ e.link = LinkOf /\ e.newest = 0 /\ e.kind = kind
  BY <1>2 DEF Word, Entries
<1>4. m = [mem EXCEPT ![here + 1] = e]
  BY DEF Made
<1> HIDE DEF m, e
<1>5. m \in [1 .. Top -> Entries] /\ m[here + 1] = e
  BY <1>1, <1>2, <1>3, <1>4 DEF Linked
<1>6. \A a \in 1 .. here : m[a] = mem[a]
  <2>1. \A a \in 1 .. here : a \in 1 .. Top /\ a # here + 1
    BY <1>1, Sizes
  <2> QED BY <1>1, <1>4, <2>1 DEF Linked
<1>7. ASSUME NEW a \in 1 .. here + 1
      PROVE  m[a].link < a /\ (m[a].kind = "list" => m[a].newest <= here + 1)
  <2>1. CASE a = here + 1
    BY <1>1, <1>3, <1>5, <2>1, Sizes
  <2>2. CASE a # here + 1
    <3>1. a \in 1 .. here /\ a \in 1 .. Top
      BY <1>1, <2>2, Sizes
    <3>2. mem[a].link < a /\ (mem[a].kind = "list" => mem[a].newest <= here)
      BY <1>1, <3>1 DEF Linked
    <3>3. mem[a].newest \in 0 .. Top
      BY <1>1, <3>1 DEF Linked, Entries
    <3> QED BY <1>1, <1>6, <3>1, <3>2, <3>3, Sizes
  <2> QED BY <2>1, <2>2
<1> QED BY <1>5, <1>6, <1>7 DEF Linked, m

(* A list may come to lead to any word in use. *)
LEMMA NewestLinked ==
  ASSUME NEW h \in 1 .. Top, NEW m, Linked(m, h), NEW l \in 1 .. Top, NEW w \in 0 .. h
  PROVE  Linked([m EXCEPT ![l].newest = w], h)
<1> DEFINE k == [m EXCEPT ![l].newest = w]
<1>1. m \in [1 .. Top -> Entries] /\ m[l] \in Entries /\ w \in 0 .. Top
  BY Sizes DEF Linked
<1>2. k = [m EXCEPT ![l] = [m[l] EXCEPT !.newest = w]]
  BY <1>1
<1>3. /\ [m[l] EXCEPT !.newest = w] \in Entries
      /\ [m[l] EXCEPT !.newest = w].newest = w /\ [m[l] EXCEPT !.newest = w].link = m[l].link
      /\ [m[l] EXCEPT !.newest = w].kind = m[l].kind
  BY <1>1 DEF Entries
<1> HIDE DEF k
<1>4. k \in [1 .. Top -> Entries]
  BY <1>1, <1>2, <1>3
<1>5. \A a \in 1 .. Top : k[a].kind = m[a].kind /\ k[a].link = m[a].link /\ (k[a].newest = m[a].newest \/ k[a].newest = w)
  BY <1>1, <1>2, <1>3
<1>6. ASSUME NEW a \in 1 .. here PROVE k[a].kind = mem[a].kind
  BY <1>1, <1>2, <1>3 DEF Linked
<1>7. ASSUME NEW a \in 1 .. h
      PROVE  k[a].link < a /\ (k[a].kind = "list" => k[a].newest <= h)
  <2>1. a \in 1 .. Top /\ w <= h
    BY Sizes
  <2>2. m[a].link < a /\ (m[a].kind = "list" => m[a].newest <= h)
    BY DEF Linked
  <2> QED BY <1>5, <2>1, <2>2
<1> QED BY <1>4, <1>6, <1>7 DEF Linked, k

(* CREATE, VOCABULARY and MARKER. *)
LEMMA CreateStep ==
  ASSUME DInv, Followed, NEW name \in Names, NEW kind \in {"word", "list", "marker"}, create(name, kind)
  PROVE  /\ Linked(Forwarded(Made(name, kind), here'), here')
         /\ DInv'
<1>1. /\ here < Top /\ here' = here + 1 /\ next_word' = here' /\ UNCHANGED <<wl_search_order, state>>
      /\ mem' = Forwarded(Made(name, kind), here') /\ spoilt \subseteq spoilt'
  BY DEF create, make_word
<1>2. here \in 1 .. Top /\ CURRENT \in 1 .. Top /\ DTypeOK
  BY LinkedNow DEF DInv
<1>3. here' \in 1 .. Top /\ here' \in here .. Top /\ here' \in 0 .. here' /\ here' \in 1 .. here' /\ here' \in 0 .. Top
  BY <1>1, <1>2, Sizes
<1>4. Linked(Made(name, kind), here')
  BY <1>1, MadeLinked
<1>5. Linked(Forwarded(Made(name, kind), here'), here')
  BY <1>2, <1>3, <1>4, NewestLinked DEF Forwarded
<1>6. state' \in {0, 1}
  BY <1>1, <1>2 DEF DTypeOK
<1> QED BY <1>1, <1>3, <1>5, <1>6, LinkedStep

LEMMA ColonStep ==
  ASSUME DInv, Followed, colon
  PROVE  DInv'
<1>1. PICK n \in Names \cup {NoName} :
        /\ here < Top /\ here' = here + 1 /\ next_word' = here' /\ UNCHANGED wl_search_order
        /\ mem' = Made(n, "word") /\ state' = 1 /\ spoilt \subseteq spoilt'
  BY DEF colon, make_word
<1>2. here \in 1 .. Top
  BY LinkedNow
<1>3. here' \in here .. Top /\ here' \in 1 .. here' /\ here' \in 0 .. Top
  BY <1>1, <1>2, Sizes
<1>4. Linked(mem', here')
  BY <1>1, MadeLinked
<1> QED BY <1>1, <1>3, <1>4, LinkedStep

LEMMA SemiColonStep ==
  ASSUME DInv, Followed, semi_colon
  PROVE  DInv'
<1>1. /\ state = 1 /\ mem' = Forwarded(mem, next_word) /\ state' = 0
      /\ UNCHANGED <<wl_search_order, here, next_word, spoilt>>
  BY DEF semi_colon
<1>2. here \in 1 .. Top /\ CURRENT \in 1 .. Top /\ Linked(mem, here) /\ DTypeOK
  BY LinkedNow DEF DInv
<1>3. next_word \in 1 .. here
  BY <1>1, FollowedSound DEF DInv, InUse, Alive
<1>4. here' \in here .. Top /\ next_word \in 0 .. here /\ next_word' \in 0 .. Top
  BY <1>1, <1>2, <1>3, Sizes
<1>5. Linked(mem', here')
  BY <1>1, <1>2, <1>4, NewestLinked DEF Forwarded
<1> QED BY <1>1, <1>4, <1>5, LinkedStep

(* SYNONYM: what HIDE leaves the list is a word made earlier still.        *)
LEMMA SynonymStep ==
  ASSUME DInv, Followed, SYNONYM
  PROVE  DInv'
<1>1. PICK n \in Names :
        /\ state = 0 /\ wl_search_order[0] # 0 /\ UNCHANGED <<wl_search_order, state>>
        /\ here < Top /\ here' = here + 1 /\ next_word' = here' /\ spoilt \subseteq spoilt'
        /\ Forwarded(Made(n, "word"), here')[wl_search_order[0]].newest # 0
        /\ \/ mem' = Hidden(Forwarded(Made(n, "word"), here'))
           \/ mem' = Forwarded(Made(n, "word"), here')
  BY DEF SYNONYM, make_word
<1> DEFINE m == Forwarded(Made(n, "word"), here')
           l == wl_search_order[0]
           w == m[l].newest
<1>2. here \in 1 .. Top /\ CURRENT \in 1 .. Top /\ DTypeOK /\ l \in Lists
  <2>1. 0 \in Cells
    BY Sizes DEF Cells
  <2> QED BY <1>1, <2>1, LinkedNow DEF DInv
<1>3. here' \in 1 .. Top /\ here' \in here .. Top /\ here' \in 0 .. here' /\ here' \in 0 .. Top
  BY <1>1, <1>2, Sizes
<1>4. Linked(Made(n, "word"), here')
  BY <1>1, MadeLinked
<1>5. Linked(m, here')
  BY <1>2, <1>3, <1>4, NewestLinked DEF Forwarded
<1>6. l \in 1 .. here /\ mem[l].kind = "list"
  BY <1>2 DEF Lists, Alive
<1> HIDE DEF m
<1>7. /\ m \in [1 .. Top -> Entries] /\ m[l].kind = "list"
      /\ \A a \in 1 .. here' : m[a].link < a /\ (m[a].kind = "list" => m[a].newest <= here')
  BY <1>5, <1>6 DEF Linked
<1>8. l \in 1 .. Top /\ l \in 1 .. here'
  BY <1>2, <1>3, <1>6, Sizes
<1>9. w \in 1 .. here'
  <2>1. m[l] \in Entries
    BY <1>7, <1>8
  <2>2. w \in 0 .. Top /\ w <= here'
    BY <1>7, <1>8, <2>1 DEF Entries
  <2>3. w # 0
    BY <1>1 DEF m
  <2> QED BY <1>3, <2>2, <2>3, Sizes
<1>10. m[w].link \in 0 .. here'
  <2>1. w \in 1 .. Top
    BY <1>3, <1>9, Sizes
  <2>2. m[w] \in Entries
    BY <1>7, <2>1
  <2>3. m[w].link \in 0 .. Top /\ m[w].link < w
    BY <1>7, <1>9, <2>2 DEF Entries
  <2> QED BY <1>3, <1>9, <2>3, Sizes
<1>11. Hidden(m) = [m EXCEPT ![l].newest = m[w].link]
  <2>1. w # 0
    BY <1>9
  <2> QED BY <2>1 DEF Hidden
<1>12. Linked(Hidden(m), here')
  <2> DEFINE v == m[w].link
  <2>1. v \in 0 .. here' /\ Hidden(m) = [m EXCEPT ![l].newest = v]
    BY <1>10, <1>11
  <2> HIDE DEF v, w, l
  <2>2. Linked([m EXCEPT ![l].newest = v], here')
    BY <1>3, <1>5, <1>8, <2>1, NewestLinked
  <2> QED BY <2>1, <2>2
<1>13. Linked(mem', here')
  BY <1>1, <1>5, <1>12 DEF m
<1> QED BY <1>1, <1>3, <1>13, LinkedStep

(* MARKER's word: what a list that is cut leads to is a word that is kept. *)
LEMMA CutIs ==
  ASSUME NEW l \in Places, NEW mark \in Nat, DTypeOK
  PROVE  Cut(l, mark) \in 0 .. mark
<1> DEFINE c == Chain(mem, l)
           kept == {i \in DOMAIN c : c[i] \in 1 .. mark}
<1>1. Cut(l, mark) = IF kept = {} THEN 0 ELSE c[Min(kept)]
  BY DEF Cut
<1>2. c \in Seq(Places)
  BY ChainType DEF DTypeOK, Places
<1> HIDE DEF c
<1>3. CASE kept = {}
  BY <1>1, <1>3
<1>4. CASE kept # {}
  <2>1. kept \subseteq Nat
    BY <1>2
  <2>2. \E x \in kept : \A y \in kept : x <= y
    BY <1>4, <2>1, Smallest
  <2>3. Min(kept) \in kept
    BY <2>2 DEF Min
  <2>4. c[Min(kept)] \in 1 .. mark
    BY <2>3
  <2> QED BY <1>1, <1>4, <2>4
<1> QED BY <1>3, <1>4

LEMMA MarkerStep ==
  ASSUME DInv, Followed, DoMarker
  PROVE  DInv'
<1> DEFINE cut == ToSet(GET_ORDER)
<1>1. PICK a \in Markers :
        LET mark == a - 1
            keeps == {l \in Lists : l <= mark /\ l \notin cut /\ mem[l].newest > mark}
            gone == {l \in Lists : l > mark /\ l \in ToSet(Searched) \cup {CURRENT}}
        IN /\ here' = mark
           /\ spoilt' = spoilt \cup (IF keeps \cup gone # {} \/ (state = 1 /\ next_word > mark) THEN {"marker"} ELSE {})
           /\ mem' = [l \in DOMAIN mem |-> IF l \in cut /\ l <= mark THEN [mem[l] EXCEPT !.newest = Cut(l, mark)]
                                            ELSE IF l > mark /\ spoilt' = {} THEN Free ELSE mem[l]]
           /\ UNCHANGED <<wl_search_order, next_word, state>>
  BY DEF DoMarker
<1> DEFINE mark == a - 1
<1>2. /\ here' = mark /\ UNCHANGED <<wl_search_order, next_word, state>> /\ spoilt \subseteq spoilt'
      /\ mem' = [l \in DOMAIN mem |-> IF l \in cut /\ l <= mark THEN [mem[l] EXCEPT !.newest = Cut(l, mark)]
                                       ELSE IF l > mark /\ spoilt' = {} THEN Free ELSE mem[l]]
  BY <1>1
<1>3. "marker" \notin spoilt' =>
        /\ \A l \in Lists : l <= mark => l \in cut \/ ~(mem[l].newest > mark)
        /\ \A l \in Lists : l \in ToSet(Searched) \cup {CURRENT} => ~(l > mark)
        /\ ~(state = 1 /\ next_word > mark)
  BY <1>1
<1>4. DTypeOK /\ Packed /\ InUse /\ SearchEnds /\ Sound /\ spoilt \cap {"marker", "overrun"} = {}
  BY FollowedSound DEF DInv
<1>5. a \in 1 .. here /\ mem[a].kind = "marker" /\ here \in 1 .. Top /\ mem[FORTH].kind = "list"
  BY <1>4 DEF Markers, Alive, DTypeOK
<1>6. mark \in 1 .. here /\ mark < here /\ mark \in 1 .. Top /\ mark \in Nat /\ a # FORTH
  BY <1>5, Sizes DEF FORTH
<1>7. mem \in [1 .. Top -> Entries]
  BY <1>4 DEF DTypeOK
<1> HIDE DEF cut, mark
<1>8. /\ mem' = [l \in 1 .. Top |-> IF l \in cut /\ l <= mark THEN [mem[l] EXCEPT !.newest = Cut(l, mark)]
                                     ELSE IF l > mark /\ spoilt' = {} THEN Free ELSE mem[l]]
  BY <1>2, <1>7
<1>9. ASSUME NEW l \in 1 .. Top
      PROVE  /\ mem'[l] \in Entries
             /\ l <= mark => /\ mem'[l].kind = mem[l].kind /\ mem'[l].link = mem[l].link
                             /\ l \in cut => mem'[l].newest <= mark
                             /\ l \notin cut => mem'[l].newest = mem[l].newest
  <2>1. CASE l \in cut /\ l <= mark
    <3>1. Cut(l, mark) \in 0 .. mark
      BY <1>4, <1>6, CutIs DEF Places
    <3>2. Cut(l, mark) \in 0 .. Top /\ Cut(l, mark) <= mark
      BY <1>6, <3>1, Sizes
    <3>3. mem'[l] = [mem[l] EXCEPT !.newest = Cut(l, mark)] /\ mem[l] \in Entries
      BY <1>7, <1>8, <2>1
    <3> QED BY <2>1, <3>2, <3>3 DEF Entries
  <2>2. CASE ~(l \in cut /\ l <= mark)
    <3>1. mem'[l] = Free \/ mem'[l] = mem[l]
      BY <1>8, <2>2
    <3>2. l <= mark => mem'[l] = mem[l] /\ l \notin cut
      <4>1. l <= mark => ~(l > mark)
        BY <1>6, Sizes
      <4> QED BY <1>8, <2>2, <4>1
    <3>3. Free \in Entries
      BY Sizes DEF Free, Entries
    <3> QED BY <1>7, <3>1, <3>2, <3>3
  <2> QED BY <2>1, <2>2
<1>10. mem' \in [1 .. Top -> Entries]
  BY <1>8, <1>9
<1>11. DTypeOK'
  <2>1. FORTH \in 1 .. Top /\ FORTH <= mark
    BY <1>6, Sizes DEF FORTH
  <2> QED BY <1>2, <1>4, <1>5, <1>6, <1>9, <1>10, <2>1 DEF DTypeOK
<1>12. Packed'
  BY <1>2, <1>4 DEF Packed
<1>13. \A l \in 1 .. mark : l \in 1 .. Top /\ l \in Alive /\ l <= mark
  BY <1>5, <1>6, Sizes DEF Alive
<1>14. InUse'
  <2> SUFFICES ASSUME "marker" \notin spoilt'
               PROVE  /\ CURRENT' # 0
                      /\ \A i \in Cells : wl_search_order'[i] # 0 => wl_search_order'[i] \in Lists'
                      /\ state' = 1 => next_word' \in Alive'
    BY DEF InUse
  <2>1. /\ CURRENT # 0 /\ CURRENT' = CURRENT
        /\ \A i \in Cells : wl_search_order[i] # 0 => wl_search_order[i] \in Lists
        /\ state = 1 => next_word \in Alive
    BY <1>2, <1>4 DEF InUse, CURRENT
  <2>2. ASSUME NEW i \in Cells, wl_search_order[i] # 0
        PROVE  wl_search_order[i] \in ToSet(Searched) \cup {CURRENT}
    <3>1. CASE i = WL_SO_MAX - 1
      BY <3>1 DEF CURRENT
    <3>2. CASE i # WL_SO_MAX - 1
      <4>1. i \in 0 .. Listed
        BY <3>2, Sizes DEF Cells
      <4>2. /\ Searched \in Seq(Nat) /\ Len(Searched) \in 0 .. Listed
            /\ \A j \in 1 .. Len(Searched) : Searched[j] = wl_search_order[j - 1]
            /\ \A j \in Len(Searched) .. Listed : wl_search_order[j] = 0
        BY <1>4, SearchedSound
      <4>3. i + 1 \in 1 .. Len(Searched) /\ (i + 1) - 1 = i
        BY <2>2, <4>1, <4>2, Sizes
      <4>4. wl_search_order[i] = Searched[i + 1] /\ i + 1 \in DOMAIN Searched
        BY <4>2, <4>3
      <4> QED BY <4>4 DEF ToSet
    <3> QED BY <3>1, <3>2
  <2>3. ASSUME NEW l \in Lists, l \in ToSet(Searched) \cup {CURRENT}
        PROVE  l \in Lists'
    <3>1. l \in 1 .. here /\ mem[l].kind = "list" /\ ~(l > mark)
      BY <1>3, <2>3 DEF Lists, Alive
    <3>2. l \in 1 .. mark
      BY <1>5, <1>6, <3>1, Sizes
    <3>3. mem'[l].kind = "list"
      BY <1>9, <1>13, <3>1, <3>2
    <3> QED BY <1>2, <3>2, <3>3 DEF Lists, Alive, mark
  <2>4. state = 1 => next_word \in 1 .. mark
    BY <1>3, <1>5, <1>6, <2>1 DEF Alive
  <2> QED BY <1>2, <2>1, <2>2, <2>3, <2>4 DEF Alive, mark
<1>15. SearchEnds'
  <2> SUFFICES ASSUME "marker" \notin spoilt'
               PROVE  /\ \A l \in Lists' : mem'[l].newest <= here'
                      /\ \A w \in Alive' : mem'[w].link < w
    BY DEF SearchEnds
  <2>1. /\ \A l \in Lists : mem[l].newest <= here
        /\ \A w \in Alive : mem[w].link < w
    BY <1>4 DEF SearchEnds
  <2>2. ASSUME NEW w \in 1 .. mark PROVE mem'[w].link < w
    BY <1>9, <1>13, <2>1
  <2>3. ASSUME NEW l \in 1 .. mark, mem'[l].kind = "list" PROVE mem'[l].newest <= mark
    <3>1. l \in Lists /\ l \in 1 .. Top /\ l <= mark
      BY <1>9, <1>13, <2>3 DEF Lists
    <3>2. mem[l].newest \in 0 .. Top
      BY <1>7, <3>1 DEF Entries
    <3>3. l \in cut \/ mem[l].newest <= mark
      BY <1>3, <1>6, <3>1, <3>2, Sizes
    <3> QED BY <1>9, <3>1, <3>3
  <2> QED BY <1>2, <2>2, <2>3 DEF Lists, Alive, mark
<1> QED BY <1>11, <1>12, <1>14, <1>15 DEF DInv
-----------------------------------------------------------------------------
LEMMA InitInv == Init => DInv
<1> SUFFICES ASSUME Init PROVE DInv
  OBVIOUS
<1>1. /\ wl_search_order = [i \in Cells |-> IF i \in {0, WL_SO_MAX - 1} THEN FORTH ELSE 0]
      /\ mem = [[a \in 1 .. Top |-> Free] EXCEPT ![FORTH] = [Word("FORTH", "list", 0) EXCEPT !.newest = FORTH]]
      /\ here = FORTH /\ next_word = 0 /\ state = 0 /\ spoilt = {}
  BY DEF Init
<1> DEFINE e == [Word("FORTH", "list", 0) EXCEPT !.newest = FORTH]
<1>2. e \in Entries /\ Free \in Entries /\ e.kind = "list" /\ e.newest = 1 /\ e.link = 0
  BY Sizes DEF Word, Entries, Free, FORTH
<1> HIDE DEF e
<1>3. FORTH \in 1 .. Top /\ FORTH \in 0 .. Top /\ 0 \in 0 .. Top /\ FORTH = 1
  BY Sizes DEF FORTH
<1>4. mem \in [1 .. Top -> Entries] /\ mem[FORTH] = e
  BY <1>1, <1>2, <1>3 DEF e
<1>5. wl_search_order \in [Cells -> 0 .. Top]
  BY <1>1, <1>3
<1>6. DTypeOK
  BY <1>1, <1>2, <1>3, <1>4, <1>5 DEF DTypeOK
<1>7. \A i \in 0 .. Listed : i \in Cells /\ i # WL_SO_MAX - 1
  BY Sizes DEF Cells
<1>8. Listed \in 0 .. Listed /\ Listed # 0
  BY Sizes
<1>9. \A i \in 0 .. Listed : wl_search_order[i] = IF i = 0 THEN FORTH ELSE 0
  BY <1>1, <1>7
<1>10. \A i, j \in 0 .. Listed : i < j => j # 0
  BY Sizes
<1>11. Packed
  BY <1>8, <1>9, <1>10 DEF Packed
<1>12. Alive = {1}
  BY <1>1, <1>3 DEF Alive
<1>13. InUse
  <2>1. CURRENT = FORTH
    <3>1. WL_SO_MAX - 1 \in Cells
      BY Sizes DEF Cells
    <3> QED BY <1>1, <3>1 DEF CURRENT
  <2>2. FORTH \in Lists
    BY <1>2, <1>3, <1>4, <1>12 DEF Lists
  <2> QED BY <1>1, <1>3, <2>1, <2>2 DEF InUse
<1>14. SearchEnds
  <2>1. here = 1 /\ mem[1] = e
    BY <1>1, <1>3, <1>4
  <2>2. mem[1].newest <= here /\ mem[1].link < 1
    BY <1>2, <2>1
  <2> QED BY <1>12, <2>2 DEF SearchEnds, Lists
<1> QED BY <1>6, <1>11, <1>13, <1>14 DEF DInv

LEMMA NextInv == DInv /\ [Next]_vars => DInv'
<1> SUFFICES ASSUME DInv, [Next]_vars PROVE DInv'
  OBVIOUS
<1>1. CASE UNCHANGED vars
  BY <1>1 DEF vars, DInv, DTypeOK, Packed, InUse, SearchEnds, Lists, Alive, CURRENT
<1>2. CASE Next
  <2>1. Followed
    BY <1>2 DEF Next
  <2>2. CASE CREATE
    BY <2>1, <2>2, CreateStep DEF CREATE
  <2>3. CASE VOCABULARY
    BY <2>1, <2>3, CreateStep DEF VOCABULARY
  <2>4. CASE MARKER
    BY <2>1, <2>4, CreateStep DEF MARKER
  <2> QED
    BY <1>2, <2>1, <2>2, <2>3, <2>4, ColonStep, SemiColonStep, SynonymStep, StoringStep, CellStep, MovingStep,
       MarkerStep DEF Next
<1> QED BY <1>1, <1>2

(* Everywhere in a run: the shape of the state, an order without gaps, and *)
(* links that lead to words made earlier.                                  *)
THEOREM DictionaryInvariant == Spec => []DInv
BY InitInv, NextInv, PTL DEF Spec

(* The variables stay in their domains and FORTH stays a wordlist: no word *)
(* of search.fth, make_word.c or semicolon.c writes anything else there.   *)
THEOREM DictionaryTypeCorrect == Spec => []DTypeOK
BY DictionaryInvariant, PTL DEF DInv

(* Every search ends, and in words in use: as long as no marker ran while  *)
(* a wordlist outside the search order held words it forgets.              *)
THEOREM EverySearchEnds == Spec => []SearchEnds
BY DictionaryInvariant, PTL DEF DInv

(* The array does what the sequence promises. *)
LEMMA OrderBegins == Init => Order!Init
<1> SUFFICES ASSUME Init PROVE Order!Init
  OBVIOUS
<1>1. /\ wl_search_order = [i \in Cells |-> IF i \in {0, WL_SO_MAX - 1} THEN FORTH ELSE 0]
      /\ FORTH \in Nat /\ FORTH # 0
  BY DEF Init, FORTH
<1>2. {0, 1, WL_SO_MAX - 1} \subseteq Cells /\ 1 \notin {0, WL_SO_MAX - 1} /\ 1 \in 0 .. WL_SO_MAX - 1
  BY Sizes DEF Cells
<1>3. wl_search_order \in [Cells -> Nat] /\ wl_search_order[1] = 0 /\ wl_search_order[0] = FORTH /\ CURRENT = FORTH
  BY <1>1, <1>2 DEF CURRENT
<1>4. \A i \in 0 .. 1 - 1 : wl_search_order[i] # 0
  BY <1>1, <1>3
<1>5. Searched = [i \in 1 .. 1 |-> wl_search_order[i - 1]] /\ Searched \in Seq(Nat) /\ Len(Searched) = 1
  BY <1>2, <1>3, <1>4, UptoIs, SearchedIs
<1>6. Searched[1] = FORTH
  BY <1>3, <1>5
<1>7. Searched = <<FORTH>>
  BY <1>5, <1>6
<1> QED BY <1>3, <1>7 DEF Order!Init

LEMMA OrderSteps == DInv /\ [Next]_vars => [Promised \/ "overrun" \in spoilt']_<<Searched, CURRENT>>
<1> SUFFICES ASSUME DInv, [Next]_vars, ~(UNCHANGED <<Searched, CURRENT>>) PROVE Promised
  OBVIOUS
<1>1. ~(UNCHANGED wl_search_order)
  BY SearchedIs DEF CURRENT
<1>2. Followed /\ Rest
  <2>1. Next
    BY <1>1 DEF vars
  <2>2. ~(CREATE \/ VOCABULARY \/ MARKER \/ colon \/ semi_colon \/ SYNONYM \/ DoMarker)
    BY <1>1 DEF CREATE, VOCABULARY, MARKER, create, colon, semi_colon, SYNONYM, make_word, DoMarker
  <2>3. SET_ORDER \/ DoVocabulary \/ WL_SET \/ ONLY_ \/ ALSO \/ PREVIOUS \/ DEFINITIONS \/ SET_CURRENT
    BY <2>1, <2>2 DEF Next
  <2> QED
    BY <2>1, <2>3 DEF Next, SET_ORDER, SetOrder, DoVocabulary, Execute, WL_SET, ONLY_, ALSO, PREVIOUS,
       DEFINITIONS, SET_CURRENT, SetCurrent
<1> QED BY <1>2, FollowedSound, WordsPromised DEF Rest

(* The words of search.fth do to the sequence of searched wordlists and to *)
(* CURRENT what the standard's words promise, and no other word changes    *)
(* either, for every number of cells; until SET-ORDER was given more       *)
(* wordlists than WL:COUNT counts.                                         *)
THEOREM OrderIsImplemented == Spec => OrderImplemented
<1>1. DInv /\ [Next]_vars => [Promised \/ "overrun" \in spoilt']_<<Searched, CURRENT>>
  BY OrderSteps
<1> QED BY <1>1, DictionaryInvariant, OrderBegins, PTL DEF Spec, OrderImplemented
-----------------------------------------------------------------------------
(* While no contract is broken, a list leads to the words entered into it, *)
(* the one made last first, and an unended definition is linked to them.   *)
Threaded ==
  spoilt = {} =>
    /\ DOMAIN entered = Places /\ \A a \in Places \ Lists : entered[a] = {}
    /\ \A l \in Lists : entered[l] \subseteq Alive /\ Threads(mem, l, entered[l])
    /\ state = 1 => /\ Tops(mem[next_word].link, entered[CURRENT])
                    /\ \A w \in entered[CURRENT] : w < next_word

(* A list with the same newest word and the same links. *)
LEMMA ThreadsKept ==
  ASSUME NEW m, NEW k, NEW l, NEW S, Threads(m, l, S),
         k[l].newest = m[l].newest, \A w \in S : k[w].link = m[w].link
  PROVE  Threads(k, l, S)
BY DEF Threads

(* A list with one more word, made later than the others. *)
LEMMA ThreadsMore ==
  ASSUME NEW m, NEW k, NEW l, NEW S, Threads(m, l, S), NEW w \in Places,
         \A v \in S : v < w, k[l].newest = w, Tops(k[w].link, S), \A v \in S : k[v].link = m[v].link
  PROVE  Threads(k, l, S \cup {w})
<1> DEFINE R == S \cup {w}
<1>1. S \subseteq Places /\ \A v \in Places : v \in Nat
  BY Sizes DEF Threads, Places
<1>2. R \subseteq Places /\ w \in R
  BY <1>1
<1>3. Tops(k[l].newest, R)
  <2>1. \A v \in R : v <= w
    BY <1>1
  <2> QED BY <1>2, <2>1 DEF Tops
<1>4. ASSUME NEW v \in R PROVE Tops(k[v].link, {u \in R : u < v})
  <2>1. CASE v = w
    <3>1. {u \in R : u < v} = S
      BY <1>1, <2>1
    <3> QED BY <2>1, <3>1
  <2>2. CASE v # w
    <3>1. v \in S /\ v < w
      BY <2>2
    <3>2. {u \in R : u < v} = {u \in S : u < v}
      BY <1>1, <3>1
    <3> QED BY <3>1, <3>2 DEF Threads
  <2> QED BY <2>1, <2>2
<1> QED BY <1>2, <1>3, <1>4 DEF Threads

(* A list without the words made later than a mark. *)
LEMMA ThreadsCut ==
  ASSUME NEW m, NEW k, NEW l, NEW S, Threads(m, l, S), NEW mark \in Nat,
         Tops(k[l].newest, {v \in S : v <= mark}),
         \A v \in S : v <= mark => k[v].link = m[v].link
  PROVE  Threads(k, l, {v \in S : v <= mark})
<1> DEFINE R == {v \in S : v <= mark}
<1>1. S \subseteq Places /\ \A v \in Places : v \in Nat
  BY Sizes DEF Threads, Places
<1>2. R \subseteq Places
  BY <1>1
<1>3. ASSUME NEW v \in R PROVE Tops(k[v].link, {u \in R : u < v})
  <2>1. {u \in R : u < v} = {u \in S : u < v}
    <3>1. \A u \in S : u < v => u <= mark
      BY <1>1
    <3> QED BY <3>1
  <2> QED BY <2>1 DEF Threads
<1> QED BY <1>2, <1>3 DEF Threads

(* What Cut leaves of a list is its words up to the mark. *)
LEMMA CutTops ==
  ASSUME DTypeOK, NEW l \in Places, NEW S, Threads(mem, l, S), NEW mark \in Nat
  PROVE  Tops(Cut(l, mark), {v \in S : v <= mark})
<1> DEFINE c == Chain(mem, l)
           T == {v \in S : v <= mark}
           at == {i \in DOMAIN c : c[i] \in T}
<1>1. mem \in [Places -> Entries]
  BY DEF DTypeOK, Places
<1>2. Descends(c, S) /\ \A w \in S : \E i \in 1 .. Len(c) : c[i] = w
  BY <1>1, ChainIs
<1>3. Cut(l, mark) = IF {i \in DOMAIN c : c[i] \in 1 .. mark} = {} THEN 0
                     ELSE c[Min({i \in DOMAIN c : c[i] \in 1 .. mark})]
  BY DEF Cut
<1>4. S \subseteq Places
  BY DEF Threads
<1> HIDE DEF c
<1>5. DOMAIN c = 1 .. Len(c) /\ \A i \in DOMAIN c : c[i] \in S
  BY <1>2 DEF Descends
<1>6. {i \in DOMAIN c : c[i] \in 1 .. mark} = at
  <2>1. \A v \in S : v \in 1 .. mark <=> v <= mark
    BY <1>4, Sizes DEF Places
  <2> QED BY <1>5, <2>1
<1>7. Tops(IF at = {} THEN 0 ELSE c[Min(at)], T)
  <2>1. T \subseteq S
    OBVIOUS
  <2> HIDE DEF T, at
  <2> QED BY <1>2, <1>4, <2>1, FirstIsNewest DEF at
<1> HIDE DEF at, T
<1>8. Cut(l, mark) = IF at = {} THEN 0 ELSE c[Min(at)]
  BY <1>3, <1>6
<1>9. Tops(Cut(l, mark), T)
  BY <1>7, <1>8
<1> QED BY <1>9 DEF T

-----------------------------------------------------------------------------
(* A word made and entered at once. *)
LEMMA EnteredThreaded ==
  ASSUME DInv, Followed, Threaded, spoilt = {}, state' = 0, here < Top, here' = here + 1,
         UNCHANGED wl_search_order,
         NEW name \in Names, NEW kind \in {"word", "list", "marker"},
         mem' = Forwarded(Made(name, kind), here'), Enter(here')
  PROVE  Threaded'
<1> DEFINE w == here'
           c == CURRENT
<1>1. /\ c \in Lists /\ c \in 1 .. here /\ here \in 1 .. Top
      /\ mem \in [1 .. Top -> Entries]
  BY LinkedNow DEF Linked
<1>2. w \in 1 .. Top /\ w \in Places /\ w = here + 1 /\ w \notin 1 .. here /\ w \in 1 .. w
  BY <1>1, Sizes DEF Places
<1>3. /\ DOMAIN entered = Places /\ \A a \in Places \ Lists : entered[a] = {}
      /\ \A l \in Lists : entered[l] \subseteq 1 .. here /\ Threads(mem, l, entered[l])
  BY DEF Threaded, Alive
<1>4. \A l \in Lists : l \in 1 .. here /\ l \in 1 .. Top /\ l \in Places /\ mem[l].kind = "list"
  BY <1>1, Sizes DEF Lists, Alive, Places
<1> HIDE DEF w, c
<1> DEFINE e == Word(name, kind, mem[c].newest)
           f == [mem EXCEPT ![w] = e]
<1>5. mem' = [f EXCEPT ![c] = [f[c] EXCEPT !.newest = w]]
  <2>1. Made(name, kind) = f
    BY <1>2 DEF Made, LinkOf, c, w
  <2>2. f[w].name = name
    BY <1>1, <1>2 DEF Word
  <2>3. name # NoName
    BY NamesAssumption
  <2> HIDE DEF f
  <2> QED BY <2>1, <2>2, <2>3 DEF Forwarded, c, w
<1>6. c # w /\ c \in 1 .. Top
  BY <1>1, <1>2, <1>4
<1>7. /\ mem'[w] = e
      /\ mem'[c].newest = w /\ mem'[c].link = mem[c].link /\ mem'[c].kind = mem[c].kind
      /\ \A a \in 1 .. Top : a # w /\ a # c => mem'[a] = mem[a]
  <2>1. mem[c] \in Entries
    BY <1>1, <1>6
  <2>2. DOMAIN f = 1 .. Top /\ f[c] = mem[c] /\ f[w] = e /\ \A a \in 1 .. Top : a # w => f[a] = mem[a]
    BY <1>1, <1>2, <1>6
  <2> DEFINE r == [f[c] EXCEPT !.newest = w]
  <2>3. r.newest = w /\ r.link = mem[c].link /\ r.kind = mem[c].kind
    BY <2>1, <2>2 DEF Entries
  <2>4. mem' = [f EXCEPT ![c] = r]
    BY <1>5
  <2> HIDE DEF r, f, e
  <2> QED BY <1>2, <1>6, <2>2, <2>3, <2>4
<1>8. mem'[w].link = mem[c].newest /\ mem'[w].newest = 0 /\ mem'[w].kind = kind
  BY <1>7 DEF Word
<1> HIDE DEF e, f
<1>9. \A v \in 1 .. here : v \in 1 .. Top /\ mem'[v].link = mem[v].link /\ mem'[v].kind = mem[v].kind
  <2>1. \A v \in 1 .. here : v \in 1 .. Top /\ v # w
    BY <1>1, <1>2, Sizes
  <2> QED BY <1>7, <2>1
<1>10. Lists' = IF kind = "list" THEN Lists \cup {w} ELSE Lists
  <2>1. \A a \in 1 .. w : a \in 1 .. here \/ a = w
    BY <1>1, <1>2
  <2>2. \A a \in 1 .. here : a \in 1 .. w
    BY <1>1, <1>2
  <2>3. Alive' = 1 .. w /\ Alive = 1 .. here
    BY DEF Alive, w
  <2>4. Lists' = {a \in 1 .. w : mem'[a].kind = "list"} /\ Lists = {a \in 1 .. here : mem[a].kind = "list"}
    BY <2>3 DEF Lists
  <2> QED BY <1>2, <1>8, <1>9, <2>1, <2>2, <2>4
<1>11. w \notin Lists
  BY <1>2, <1>4
<1>12. /\ DOMAIN entered' = Places
       /\ entered'[c] = entered[c] \cup {w}
       /\ \A a \in Places : a # c => entered'[a] = entered[a]
  BY <1>1, <1>3, <1>4 DEF Enter, c, w
<1>13. \A a \in Places \ Lists' : entered'[a] = {}
  BY <1>1, <1>3, <1>10, <1>12
<1>14. ASSUME NEW l \in Lists'
       PROVE  entered'[l] \subseteq Alive' /\ Threads(mem', l, entered'[l])
  <2>0. 1 .. here \subseteq 1 .. w /\ Alive' = 1 .. w
    BY <1>1, <1>2 DEF Alive, w
  <2>1. CASE l = c
    <3>1. \A v \in entered[c] : v < w
      BY <1>1, <1>2, <1>3
    <3>2. Threads(mem, c, entered[c]) /\ entered[c] \subseteq 1 .. here
      BY <1>1, <1>3
    <3>3. Tops(mem'[w].link, entered[c])
      BY <1>8, <3>2 DEF Threads
    <3>4. \A v \in entered[c] : mem'[v].link = mem[v].link
      BY <1>9, <3>2
    <3> DEFINE S == entered[c]
               m == mem'
    <3> HIDE DEF S, m
    <3>5. Threads(m, c, S \cup {w})
      BY <1>2, <1>7, <3>1, <3>2, <3>3, <3>4, ThreadsMore DEF S, m
    <3>6. entered'[l] = S \cup {w} /\ S \subseteq 1 .. w /\ w \in 1 .. w
      BY <1>2, <1>12, <2>0, <2>1, <3>2 DEF S
    <3> QED BY <2>0, <2>1, <3>5, <3>6 DEF m
  <2>2. CASE l # c /\ l \in Lists
    <3>1. entered'[l] = entered[l] /\ Threads(mem, l, entered[l]) /\ entered[l] \subseteq 1 .. here
      BY <1>3, <1>4, <1>12, <2>2
    <3>2. mem'[l].newest = mem[l].newest
      BY <1>4, <1>7, <1>11, <2>2
    <3>3. \A v \in entered[l] : mem'[v].link = mem[v].link
      BY <1>9, <3>1
    <3> DEFINE S == entered[l]
               m == mem'
    <3> HIDE DEF S, m
    <3>4. Threads(m, l, S)
      BY <3>1, <3>2, <3>3, ThreadsKept DEF S, m
    <3> QED BY <2>0, <3>1, <3>4 DEF S, m
  <2>3. CASE l \notin Lists
    <3>1. l = w /\ kind = "list"
      BY <1>10, <2>3
    <3>2. entered'[l] = {} /\ mem'[l].newest = 0
      BY <1>2, <1>3, <1>6, <1>8, <1>11, <1>12, <3>1
    <3> QED BY <3>2 DEF Threads, Tops
  <2> QED BY <1>11, <2>1, <2>2, <2>3
<1>15. state' # 1
  OBVIOUS
<1> QED BY <1>12, <1>13, <1>14, <1>15 DEF Threaded

LEMMA CreateThreaded ==
  ASSUME DInv, Followed, Threaded, NEW name \in Names, NEW kind \in {"word", "list", "marker"}, create(name, kind)
  PROVE  Threaded'
<1> SUFFICES ASSUME spoilt' = {} PROVE Threaded'
  BY DEF Threaded
<1>1. /\ here < Top /\ here' = here + 1 /\ UNCHANGED <<wl_search_order, state>>
      /\ mem' = Forwarded(Made(name, kind), here') /\ Enter(here')
      /\ spoilt = {} /\ state # 1
  BY DEF create, make_word
<1>2. state' = 0
  BY <1>1 DEF DInv, DTypeOK
<1> QED BY <1>1, <1>2, EnteredThreaded

LEMMA SynonymThreaded ==
  ASSUME DInv, Followed, Threaded, SYNONYM
  PROVE  Threaded'
<1> SUFFICES ASSUME spoilt' = {} PROVE Threaded'
  BY DEF Threaded
<1>1. PICK n \in Names :
        /\ state = 0 /\ UNCHANGED <<wl_search_order, state>>
        /\ here < Top /\ here' = here + 1
        /\ mem' = Forwarded(Made(n, "word"), here') /\ Enter(here')
        /\ spoilt = {}
  BY DEF SYNONYM, make_word
<1> QED BY <1>1, EnteredThreaded

(* A definition begun: it is linked, and no list leads to it. *)
LEMMA ColonThreaded ==
  ASSUME DInv, Followed, Threaded, colon
  PROVE  Threaded'
<1> SUFFICES ASSUME spoilt' = {} PROVE Threaded'
  BY DEF Threaded
<1>1. PICK n \in Names \cup {NoName} :
        /\ here < Top /\ here' = here + 1 /\ next_word' = here' /\ UNCHANGED <<wl_search_order, entered>>
        /\ mem' = Made(n, "word") /\ spoilt = {}
  BY DEF colon, make_word
<1> DEFINE w == here'
           c == CURRENT
           e == Word(n, "word", mem[c].newest)
<1>2. /\ c \in Lists /\ c \in 1 .. here /\ here \in 1 .. Top
      /\ mem \in [1 .. Top -> Entries]
  BY LinkedNow DEF Linked
<1>3. w \in 1 .. Top /\ w = here + 1 /\ w \notin 1 .. here
  BY <1>1, <1>2, Sizes
<1>4. /\ DOMAIN entered = Places /\ \A a \in Places \ Lists : entered[a] = {}
      /\ \A l \in Lists : entered[l] \subseteq 1 .. here /\ Threads(mem, l, entered[l])
  BY <1>1 DEF Threaded, Alive
<1>5. mem' = [mem EXCEPT ![w] = e] /\ c' = c
  BY <1>1 DEF Made, LinkOf, CURRENT
<1>6. e.link = mem[c].newest /\ e.kind = "word"
  BY DEF Word
<1> HIDE DEF w, c, e
<1>7. mem'[w] = e /\ \A a \in 1 .. here : mem'[a] = mem[a]
  <2>1. \A a \in 1 .. here : a \in 1 .. Top /\ a # w
    BY <1>2, <1>3, Sizes
  <2> QED BY <1>2, <1>3, <1>5, <2>1
<1>8. Lists' = Lists
  <2>1. \A a \in 1 .. w : a \in 1 .. here \/ a = w
    BY <1>2, <1>3
  <2>2. \A a \in 1 .. here : a \in 1 .. w
    BY <1>2, <1>3
  <2>3. Alive' = 1 .. w /\ Alive = 1 .. here
    BY DEF Alive, w
  <2>4. Lists' = {a \in 1 .. w : mem'[a].kind = "list"} /\ Lists = {a \in 1 .. here : mem[a].kind = "list"}
    BY <2>3 DEF Lists
  <2> QED BY <1>6, <1>7, <2>1, <2>2, <2>4
<1>9. ASSUME NEW l \in Lists
      PROVE  entered'[l] \subseteq Alive' /\ Threads(mem', l, entered'[l])
  <2>1. entered'[l] = entered[l] /\ entered[l] \subseteq 1 .. here /\ Threads(mem, l, entered[l])
    BY <1>1, <1>4
  <2>2. l \in 1 .. here
    BY DEF Lists, Alive
  <2>3. 1 .. here \subseteq Alive'
    BY <1>2, <1>3 DEF Alive, w
  <2> DEFINE S == entered[l]
             m == mem'
  <2>4. m[l].newest = mem[l].newest /\ \A v \in S : m[v].link = mem[v].link
    BY <1>7, <2>1, <2>2
  <2> HIDE DEF S, m
  <2>5. Threads(m, l, S)
    BY <2>1, <2>4, ThreadsKept DEF S
  <2> QED BY <2>1, <2>3, <2>5 DEF S, m
<1>10. Tops(mem'[next_word'].link, entered'[CURRENT']) /\ \A v \in entered'[CURRENT'] : v < next_word'
  <2>1. next_word' = w /\ CURRENT' = c /\ entered' = entered
    BY <1>1, <1>5 DEF c, w
  <2>2. Tops(mem[c].newest, entered[c]) /\ entered[c] \subseteq 1 .. here
    BY <1>2, <1>4 DEF Threads
  <2>3. \A v \in entered[c] : v < w
    BY <1>2, <1>3, <2>2
  <2> QED BY <1>6, <1>7, <2>1, <2>2, <2>3
<1> QED BY <1>1, <1>4, <1>8, <1>9, <1>10 DEF Threaded

(* A definition ended: the list it was linked to leads to it. *)
LEMMA SemiColonThreaded ==
  ASSUME DInv, Followed, Threaded, semi_colon
  PROVE  Threaded'
<1> SUFFICES ASSUME spoilt' = {} PROVE Threaded'
  BY DEF Threaded
<1> DEFINE w == next_word
           c == CURRENT
<1>1. /\ state = 1 /\ mem' = Forwarded(mem, w) /\ state' = 0 /\ spoilt = {}
      /\ UNCHANGED <<wl_search_order, here, next_word, spoilt>>
      /\ IF mem[w].name = NoName THEN UNCHANGED entered ELSE Enter(w)
  BY DEF semi_colon
<1>2. /\ c \in Lists /\ c \in 1 .. here /\ c \in 1 .. Top /\ here \in 1 .. Top
      /\ mem \in [1 .. Top -> Entries]
  BY LinkedNow DEF Linked
<1>3. w \in 1 .. here
  BY <1>1, FollowedSound DEF DInv, InUse, Alive
<1>4. /\ DOMAIN entered = Places /\ \A a \in Places \ Lists : entered[a] = {}
      /\ \A l \in Lists : entered[l] \subseteq 1 .. here /\ Threads(mem, l, entered[l])
      /\ Tops(mem[w].link, entered[c]) /\ \A v \in entered[c] : v < w
  BY <1>1 DEF Threaded, Alive
<1>5. Alive' = 1 .. here /\ Alive = 1 .. here /\ state' # 1
  BY <1>1 DEF Alive
<1>6. CASE mem[w].name = NoName
  <2>1. mem' = mem /\ entered' = entered
    BY <1>1, <1>6 DEF Forwarded
  <2>2. Lists' = Lists
    BY <1>5, <2>1 DEF Lists
  <2> QED BY <1>4, <1>5, <2>1, <2>2 DEF Threaded
<1>7. CASE mem[w].name # NoName
  <2> DEFINE r == [mem[c] EXCEPT !.newest = w]
  <2>1. mem' = [mem EXCEPT ![c] = r]
    BY <1>1, <1>2, <1>7 DEF Forwarded
  <2>2. r.newest = w /\ r.link = mem[c].link /\ r.kind = mem[c].kind
    <3>1. mem[c] \in Entries
      BY <1>2
    <3> QED BY <3>1 DEF Entries
  <2> HIDE DEF r
  <2>3. mem'[c] = r /\ \A a \in 1 .. Top : a # c => mem'[a] = mem[a]
    BY <1>2, <2>1
  <2>4. \A a \in 1 .. here : a \in 1 .. Top /\ mem'[a].link = mem[a].link /\ mem'[a].kind = mem[a].kind
    <3>1. \A a \in 1 .. here : a \in 1 .. Top
      BY <1>2, Sizes
    <3> QED BY <2>2, <2>3, <3>1
  <2>5. Lists' = Lists
    BY <1>5, <2>4 DEF Lists
  <2>6. \A l \in Lists : l \in 1 .. here /\ l \in 1 .. Top /\ l \in Places
    BY <1>5, <2>4 DEF Lists, Places
  <2>7. /\ DOMAIN entered' = Places
        /\ entered'[c] = entered[c] \cup {w}
        /\ \A a \in Places : a # c => entered'[a] = entered[a]
    BY <1>1, <1>2, <1>4, <1>7, <2>6 DEF Enter
  <2>8. \A a \in Places \ Lists : entered'[a] = {}
    BY <1>2, <1>4, <2>7
  <2> HIDE DEF w, c
  <2>9. ASSUME NEW l \in Lists
        PROVE  entered'[l] \subseteq 1 .. here /\ Threads(mem', l, entered'[l])
    <3>1. entered[l] \subseteq 1 .. here /\ Threads(mem, l, entered[l])
      BY <1>4
    <3> DEFINE S == entered[l]
               m == mem'
    <3>2. \A v \in S : m[v].link = mem[v].link
      BY <2>4, <3>1
    <3>3. CASE l = c
      <4>1. m[w].link = mem[w].link /\ m[l].newest = w /\ w \in Places
        BY <1>3, <2>2, <2>3, <2>4, <3>3 DEF Places
      <4>2. Tops(m[w].link, S) /\ \A v \in S : v < w
        BY <1>4, <3>3, <4>1
      <4> HIDE DEF S, m
      <4>3. Threads(m, l, S \cup {w})
        BY <3>1, <3>2, <4>1, <4>2, ThreadsMore DEF S
      <4>4. S \subseteq 1 .. here
        BY <3>1 DEF S
      <4> QED BY <1>3, <2>7, <3>3, <4>3, <4>4 DEF S, m
    <3>4. CASE l # c
      <4>1. m[l].newest = mem[l].newest /\ entered'[l] = S
        BY <2>3, <2>6, <2>7, <3>4
      <4> HIDE DEF S, m
      <4>2. Threads(m, l, S)
        BY <3>1, <3>2, <4>1, ThreadsKept DEF S
      <4> QED BY <3>1, <4>1, <4>2 DEF S, m
    <3> QED BY <3>3, <3>4
  <2> QED BY <1>5, <2>5, <2>7, <2>8, <2>9 DEF Threaded
<1> QED BY <1>6, <1>7

(* The words of the search order leave the lists alone, and CURRENT while  *)
(* a definition is not ended.                                              *)
LEMMA OrderThreaded ==
  ASSUME DInv, Followed, Threaded, Rest, spoilt \subseteq spoilt',
         spoilt' = {} /\ state = 1 => CURRENT' = CURRENT
  PROVE  Threaded'
<1> SUFFICES ASSUME spoilt' = {} PROVE Threaded'
  BY DEF Threaded
<1>1. UNCHANGED <<mem, here, next_word, state, entered>> /\ spoilt = {}
  BY DEF Rest
<1>2. Lists' = Lists /\ Alive' = Alive
  BY <1>1 DEF Lists, Alive
<1> QED BY <1>1, <1>2 DEF Threaded

LEMMA SearchWordsThreaded ==
  ASSUME DInv, Followed, Threaded,
         SET_ORDER \/ DoVocabulary \/ WL_SET \/ ONLY_ \/ ALSO \/ PREVIOUS \/ DEFINITIONS \/ SET_CURRENT
  PROVE  Threaded'
<1> DEFINE last == WL_SO_MAX - 1
<1>1. last \in Cells /\ last > Listed /\ last # 0 /\ 0 \in Cells /\ ~(last < Listed) /\ last \in Nat /\ last = Listed + 1
  BY Sizes DEF Cells
<1>2. DTypeOK /\ DOMAIN wl_search_order = Cells
  BY DEF DInv, DTypeOK
<1>3. Sound /\ WLCOUNT = Len(Searched) /\ GET_ORDER = Searched /\ Searched \in Seq(Nat) /\ Len(Searched) \in 0 .. Listed
  BY FollowedSound, SearchedSound
<1>4. CURRENT = wl_search_order[last] /\ CURRENT' = wl_search_order'[last]
  BY DEF CURRENT
<1> HIDE DEF last
<1>5. ASSUME NEW s, Len(s) \in Nat, ~(Len(s) > Listed), wl_search_order' = Stored(s)
      PROVE  CURRENT' = CURRENT
  <2>1. ~(last < Len(s))
    BY <1>1, <1>5, Sizes
  <2> QED BY <1>1, <1>2, <1>4, <1>5, <2>1 DEF Stored
<1>6. CASE SET_ORDER
  <2>1. PICK s \in Orders : SetOrder(s)
    BY <1>6 DEF SET_ORDER
  <2>2. Len(s) \in Nat
    <3>1. CASE s = <<>>
      BY <3>1
    <3>2. CASE s # <<>>
      <4>1. PICK n \in 1 .. WL_SO_MAX, l \in Lists : s = [i \in 1 .. n |-> IF i = 1 THEN l ELSE FORTH]
        BY <2>1, <3>2 DEF Orders
      <4>2. s \in [1 .. n -> Lists \cup {FORTH}] /\ n \in Nat
        BY <4>1, Sizes
      <4>3. s \in Seq(Lists \cup {FORTH})
        BY <4>2
      <4> QED BY <4>3
    <3> QED BY <3>1, <3>2
  <2>3. Rest /\ spoilt \subseteq spoilt' /\ wl_search_order' = Stored(s) /\ (Len(s) > Listed => spoilt' # {})
    BY <2>1 DEF SetOrder
  <2> QED BY <1>5, <2>2, <2>3, OrderThreaded
<1>7. CASE DoVocabulary
  <2>1. PICK l \in Lists : Execute(l)
    BY <1>7 DEF DoVocabulary
  <2>2. Rest /\ spoilt' = spoilt /\ Searched # <<>> /\ wl_search_order' = Stored(<<l>> \o Tail(Searched))
    BY <1>3, <2>1 DEF Execute
  <2>3. Tail(Searched) \in Seq(Nat) /\ Len(Tail(Searched)) = Len(Searched) - 1 /\ Len(Searched) \in 1 .. Listed
    BY <1>3, <2>2, EmptySeq, HeadTailProperties, Sizes
  <2>4. l \in Nat
    BY <1>2 DEF Lists, Alive
  <2>5. <<l>> \in Seq(Nat) /\ Len(<<l>>) = 1
    BY <2>4
  <2> DEFINE t == <<l>> \o Tail(Searched)
  <2>6. Len(t) = 1 + Len(Tail(Searched))
    BY <2>3, <2>5, ConcatProperties
  <2>7. Len(t) \in Nat /\ ~(Len(t) > Listed)
    BY <2>3, <2>6, Sizes
  <2> QED BY <1>5, <2>2, <2>7, OrderThreaded
<1>8. CASE ONLY_
  <2>1. Len(<<FORTH>>) = 1 /\ ~(1 > Listed)
    BY Sizes
  <2>2. Rest /\ spoilt' = spoilt /\ wl_search_order' = Stored(<<FORTH>>)
    BY <1>8 DEF ONLY_
  <2> QED BY <1>5, <2>1, <2>2, OrderThreaded
<1>9. CASE WL_SET
  <2>1. Rest /\ spoilt' = spoilt /\ wl_search_order' = [wl_search_order EXCEPT ![0] = FORTH]
    BY <1>9 DEF WL_SET, Cell
  <2>2. CURRENT' = CURRENT
    BY <1>1, <1>2, <1>4, <2>1
  <2> QED BY <2>1, <2>2, OrderThreaded
<1>10. CASE ALSO
  <2>1. Rest /\ spoilt' = spoilt /\ wl_search_order' = Moved(wl_search_order) /\ WLCOUNT \in 1 .. Listed - 1
    BY <1>10 DEF ALSO
  <2>2. last \notin 1 .. WLCOUNT
    BY <1>1, <2>1, Sizes
  <2>3. CURRENT' = CURRENT
    BY <1>1, <1>2, <1>4, <2>1, <2>2 DEF Moved
  <2> QED BY <2>1, <2>3, OrderThreaded
<1>11. CASE PREVIOUS
  <2>1. /\ Rest /\ spoilt' = spoilt /\ WLCOUNT > 1
        /\ wl_search_order' = [i \in Cells |-> IF i < WLCOUNT - 1 THEN wl_search_order[i + 1]
                                         ELSE IF i = WLCOUNT - 1 THEN 0 ELSE wl_search_order[i]]
    BY <1>11 DEF PREVIOUS
  <2>2. ~(last < WLCOUNT - 1) /\ last # WLCOUNT - 1
    BY <1>1, <1>3, Sizes
  <2>3. CURRENT' = CURRENT
    BY <1>1, <1>4, <2>1, <2>2
  <2> QED BY <2>1, <2>3, OrderThreaded
<1>12. ASSUME NEW l, Cell(last, l), Ordered(l), Rest
       PROVE  Threaded'
  <2>1. CURRENT' = l
    BY <1>1, <1>2, <1>4, <1>12 DEF Cell
  <2>2. spoilt \subseteq spoilt' /\ (state = 1 /\ l # CURRENT => spoilt' # {})
    BY <1>12 DEF Ordered
  <2> QED BY <1>12, <2>1, <2>2, OrderThreaded
<1>13. CASE DEFINITIONS
  BY <1>12, <1>13 DEF DEFINITIONS, last
<1>14. CASE SET_CURRENT
  BY <1>12, <1>14 DEF SET_CURRENT, SetCurrent, last
<1> QED BY <1>6, <1>7, <1>8, <1>9, <1>10, <1>11, <1>13, <1>14

(* A marker that breaks no contract cuts every list where it has to.       *)
LEMMA MarkerThreaded ==
  ASSUME DInv, Followed, Threaded, DoMarker
  PROVE  Threaded'
<1> SUFFICES ASSUME spoilt' = {} PROVE Threaded'
  BY DEF Threaded
<1> DEFINE cut == ToSet(GET_ORDER)
<1>1. PICK a \in Markers :
        LET mark == a - 1
            keeps == {l \in Lists : l <= mark /\ l \notin cut /\ mem[l].newest > mark}
            gone == {l \in Lists : l > mark /\ l \in ToSet(Searched) \cup {CURRENT}}
        IN /\ here' = mark
           /\ spoilt' = spoilt \cup (IF keeps \cup gone # {} \/ (state = 1 /\ next_word > mark) THEN {"marker"} ELSE {})
           /\ mem' = [l \in DOMAIN mem |-> IF l \in cut /\ l <= mark THEN [mem[l] EXCEPT !.newest = Cut(l, mark)]
                                            ELSE IF l > mark /\ spoilt' = {} THEN Free ELSE mem[l]]
           /\ entered' = [l \in 1 .. Top |-> IF l <= mark THEN {w \in entered[l] : w <= mark} ELSE {}]
           /\ UNCHANGED <<wl_search_order, next_word, state>>
  BY DEF DoMarker
<1> DEFINE mark == a - 1
<1>2. /\ here' = mark /\ UNCHANGED <<wl_search_order, next_word, state>> /\ spoilt = {}
      /\ mem' = [l \in DOMAIN mem |-> IF l \in cut /\ l <= mark THEN [mem[l] EXCEPT !.newest = Cut(l, mark)]
                                       ELSE IF l > mark THEN Free ELSE mem[l]]
      /\ entered' = [l \in 1 .. Top |-> IF l <= mark THEN {w \in entered[l] : w <= mark} ELSE {}]
  BY <1>1
<1>3. /\ \A l \in Lists : l <= mark => l \in cut \/ ~(mem[l].newest > mark)
      /\ \A l \in Lists : l \in ToSet(Searched) \cup {CURRENT} => ~(l > mark)
      /\ ~(state = 1 /\ next_word > mark)
  BY <1>1
<1>4. DTypeOK /\ InUse
  BY DEF DInv
<1>5. a \in 1 .. here /\ here \in 1 .. Top
  BY <1>4 DEF Markers, Alive, DTypeOK
<1>6. mark \in 0 .. here /\ mark < here /\ mark \in 0 .. Top /\ mark \in Nat
  BY <1>5, Sizes
<1>7. mem \in [1 .. Top -> Entries] /\ mem \in [Places -> Entries]
  BY <1>4 DEF DTypeOK, Places
<1>8. /\ DOMAIN entered = Places /\ \A l \in Places \ Lists : entered[l] = {}
      /\ \A l \in Lists : entered[l] \subseteq 1 .. here /\ Threads(mem, l, entered[l])
  BY <1>2 DEF Threaded, Alive
<1> HIDE DEF cut, mark
<1>9. ASSUME NEW l \in 1 .. Top, l <= mark
      PROVE  /\ mem'[l].kind = mem[l].kind /\ mem'[l].link = mem[l].link
             /\ l \in cut => mem'[l].newest = Cut(l, mark)
             /\ l \notin cut => mem'[l].newest = mem[l].newest
  <2>1. ~(l > mark) /\ mem[l] \in Entries
    BY <1>6, <1>7, <1>9
  <2>2. mem'[l] = IF l \in cut THEN [mem[l] EXCEPT !.newest = Cut(l, mark)] ELSE mem[l]
    BY <1>2, <1>7, <1>9, <2>1
  <2> QED BY <2>1, <2>2 DEF Entries
<1>10. \A l \in 1 .. mark : l \in 1 .. here /\ l \in 1 .. Top /\ l <= mark
  <2> SUFFICES ASSUME NEW l \in 1 .. mark PROVE l \in 1 .. here /\ l \in 1 .. Top /\ l <= mark
    OBVIOUS
  <2> QED BY <1>5, <1>6, Sizes
<1>11. Lists' = {l \in Lists : l <= mark}
  <2>1. Alive' = 1 .. mark /\ Alive = 1 .. here
    BY <1>2 DEF Alive
  <2>2. Lists' = {l \in 1 .. mark : mem'[l].kind = "list"} /\ Lists = {l \in 1 .. here : mem[l].kind = "list"}
    BY <2>1 DEF Lists
  <2>3. \A l \in 1 .. here : l <= mark => l \in 1 .. mark
    BY <1>6
  <2> QED BY <1>9, <1>10, <2>2, <2>3
<1>12. \A l \in Lists : l \in 1 .. here /\ l \in Places /\ l \in 1 .. Top
  BY <1>5, Sizes DEF Lists, Alive, Places
<1>13. DOMAIN entered' = Places /\ \A l \in Places \ Lists' : entered'[l] = {}
  <2>1. DOMAIN entered' = Places
    BY <1>2 DEF Places
  <2>2. ASSUME NEW l \in Places, l \notin Lists' PROVE entered'[l] = {}
    <3>1. entered'[l] = IF l <= mark THEN {w \in entered[l] : w <= mark} ELSE {}
      BY <1>2 DEF Places
    <3>2. l <= mark => entered[l] = {}
      BY <1>8, <1>11, <2>2
    <3> QED BY <3>1, <3>2
  <2> QED BY <2>1, <2>2
<1>14. ASSUME NEW l \in Lists'
       PROVE  entered'[l] \subseteq Alive' /\ Threads(mem', l, entered'[l])
  <2> DEFINE S == entered[l]
             m == mem'
             R == {v \in S : v <= mark}
  <2>1. l \in Lists /\ l <= mark /\ l \in Places /\ l \in 1 .. Top
    BY <1>11, <1>12
  <2>2. entered'[l] = R /\ S \subseteq 1 .. here /\ Threads(mem, l, S)
    BY <1>2, <1>8, <2>1
  <2>3. R \subseteq Alive'
    BY <1>2, <1>5, <1>6, <2>2 DEF Alive
  <2>4. \A v \in S : v <= mark => m[v].link = mem[v].link
    <3>1. \A v \in S : v \in 1 .. Top
      BY <1>5, <2>2, Sizes
    <3> QED BY <1>9, <3>1
  <2>5. Tops(m[l].newest, R)
    <3>1. CASE l \in cut
      <4>1. m[l].newest = Cut(l, mark)
        BY <1>9, <2>1, <3>1
      <4> HIDE DEF S
      <4>2. Tops(Cut(l, mark), {v \in S : v <= mark})
        BY <1>4, <1>6, <2>1, <2>2, CutTops
      <4> QED BY <4>1, <4>2
    <3>2. CASE l \notin cut
      <4>1. m[l].newest = mem[l].newest /\ ~(mem[l].newest > mark) /\ mem[l].newest \in 0 .. Top
        BY <1>3, <1>7, <1>9, <2>1, <3>2 DEF Entries
      <4>2. Tops(mem[l].newest, S)
        BY <2>2 DEF Threads
      <4>3. \A v \in S : v \in Nat
        BY <2>2
      <4>4. R = S
        BY <1>6, <4>1, <4>2, <4>3, Sizes DEF Tops
      <4> QED BY <4>1, <4>2, <4>4
    <3> QED BY <3>1, <3>2
  <2> HIDE DEF S, m
  <2>6. Threads(m, l, R)
    <3>1. Threads(mem, l, S) /\ mark \in Nat
      BY <1>6, <2>2
    <3>2. Tops(m[l].newest, {v \in S : v <= mark})
      BY <2>5
    <3>3. Threads(m, l, {v \in S : v <= mark})
      BY <2>4, <3>1, <3>2, ThreadsCut
    <3> QED BY <3>3
  <2> HIDE DEF R
  <2> QED BY <2>2, <2>3, <2>6 DEF m
<1>15. ASSUME state' = 1
       PROVE  Tops(mem'[next_word'].link, entered'[CURRENT']) /\ \A w \in entered'[CURRENT'] : w < next_word'
  <2>1. state = 1 /\ next_word' = next_word /\ CURRENT' = CURRENT
    BY <1>2, <1>15 DEF CURRENT
  <2>2. next_word \in 1 .. here /\ CURRENT \in Lists /\ CURRENT <= mark /\ CURRENT \in 1 .. Top
    <3>1. next_word \in 1 .. here
      BY <1>2, <1>4, <2>1 DEF InUse, Alive
    <3>2. CURRENT \in Lists
      BY LinkedNow
    <3>3. ~(CURRENT > mark)
      BY <1>3, <3>2
    <3>4. CURRENT \in 1 .. here /\ CURRENT \in 1 .. Top
      BY <1>12, <3>2
    <3> QED BY <1>5, <1>6, <3>1, <3>2, <3>3, <3>4
  <2>3. next_word <= mark /\ next_word \in 1 .. Top
    BY <1>3, <1>5, <1>6, <2>1, <2>2, Sizes
  <2>4. Tops(mem[next_word].link, entered[CURRENT]) /\ \A w \in entered[CURRENT] : w < next_word
    BY <1>2, <2>1 DEF Threaded
  <2>5. \A w \in entered[CURRENT] : w <= mark
    <3>1. \A w \in entered[CURRENT] : w \in 1 .. here /\ w < next_word
      BY <1>8, <2>2, <2>4
    <3> QED BY <1>6, <2>2, <2>3, <3>1
  <2>6. entered'[CURRENT] = entered[CURRENT]
    BY <1>2, <2>2, <2>5
  <2>7. mem'[next_word].link = mem[next_word].link
    BY <1>9, <2>3
  <2> QED BY <2>1, <2>4, <2>6, <2>7
<1> QED BY <1>13, <1>14, <1>15 DEF Threaded

LEMMA ThreadedNext == DInv /\ Threaded /\ [Next]_vars => Threaded'
<1> SUFFICES ASSUME DInv, Threaded, [Next]_vars PROVE Threaded'
  OBVIOUS
<1>1. CASE UNCHANGED vars
  <2>1. Lists' = Lists /\ Alive' = Alive /\ CURRENT' = CURRENT
    BY <1>1 DEF vars, Lists, Alive, CURRENT
  <2> QED BY <1>1, <2>1 DEF vars, Threaded
<1>2. CASE Next
  <2>1. Followed
    BY <1>2 DEF Next
  <2>2. CASE CREATE
    BY <2>1, <2>2, CreateThreaded DEF CREATE
  <2>3. CASE VOCABULARY
    BY <2>1, <2>3, CreateThreaded DEF VOCABULARY
  <2>4. CASE MARKER
    BY <2>1, <2>4, CreateThreaded DEF MARKER
  <2> QED
    BY <1>2, <2>1, <2>2, <2>3, <2>4, ColonThreaded, SemiColonThreaded, SynonymThreaded, SearchWordsThreaded,
       MarkerThreaded DEF Next
<1> QED BY <1>1, <1>2

LEMMA ThreadedInit == Init => Threaded
<1> SUFFICES ASSUME Init PROVE Threaded
  OBVIOUS
<1>1. /\ mem = [[a \in 1 .. Top |-> Free] EXCEPT ![FORTH] = [Word("FORTH", "list", 0) EXCEPT !.newest = FORTH]]
      /\ here = 1 /\ state = 0 /\ FORTH = 1
      /\ entered = [l \in 1 .. Top |-> IF l = FORTH THEN {FORTH} ELSE {}]
  BY DEF Init, FORTH
<1> DEFINE e == [Word("FORTH", "list", 0) EXCEPT !.newest = FORTH]
<1>2. e.kind = "list" /\ e.newest = 1 /\ e.link = 0
  BY <1>1 DEF Word
<1> HIDE DEF e
<1>3. 1 \in 1 .. Top /\ 1 .. 1 = {1}
  BY Sizes
<1>4. mem[1] = e
  BY <1>1, <1>3 DEF e
<1>5. Alive = {1} /\ Lists = {1}
  BY <1>1, <1>2, <1>3, <1>4 DEF Alive, Lists
<1>6. DOMAIN entered = Places /\ entered[1] = {1} /\ \A l \in Places : l # 1 => entered[l] = {}
  BY <1>1, <1>3 DEF Places
<1>7. Threads(mem, 1, {1})
  <2>1. {v \in {1} : v < 1} = {}
    OBVIOUS
  <2> QED BY <1>2, <1>3, <1>4, <2>1 DEF Threads, Tops, Places
<1>8. entered[1] \subseteq Alive /\ Threads(mem, 1, entered[1])
  BY <1>5, <1>6, <1>7
<1>9. \A l \in Lists : entered[l] \subseteq Alive /\ Threads(mem, l, entered[l])
  BY <1>5, <1>8
<1>10. \A a \in Places \ Lists : entered[a] = {}
  BY <1>5, <1>6
<1>11. state # 1
  BY <1>1
<1> QED BY <1>6, <1>9, <1>10, <1>11 DEF Threaded

(* The first match in a list is the newest of its words with the name. *)
LEMMA MatchIs ==
  ASSUME NEW m \in [Places -> Entries], NEW l \in Places, NEW S, Threads(m, l, S), NEW name
  PROVE  Tops(Match(m, l, name), {w \in S : m[w].name = name})
<1> DEFINE c == Chain(m, l)
           T == {w \in S : m[w].name = name}
           at == {i \in DOMAIN c : c[i] \in T}
<1>1. Descends(c, S) /\ \A w \in S : \E i \in 1 .. Len(c) : c[i] = w
  BY ChainIs
<1>2. Match(m, l, name) = IF Named(m, c, name) = {} THEN 0 ELSE c[Min(Named(m, c, name))]
  BY DEF Match
<1>3. S \subseteq Places /\ T \subseteq S
  BY DEF Threads
<1> HIDE DEF c
<1>4. Named(m, c, name) = at
  BY <1>1 DEF Named, Descends
<1> HIDE DEF at, T
<1>5. Tops(IF at = {} THEN 0 ELSE c[Min(at)], T)
  BY <1>1, <1>3, FirstIsNewest DEF at
<1>6. Tops(Match(m, l, name), T)
  BY <1>2, <1>4, <1>5
<1> QED BY <1>6 DEF T

LEMMA FoundIsNewest == DInv /\ Threaded => FindsNewest
<1> SUFFICES ASSUME DInv, Threaded, spoilt = {}, NEW name PROVE FIND(name) = Expected(name)
  BY DEF FindsNewest
<1> DEFINE of(l) == {w \in entered[l] : mem[w].name = name}
           found == {i \in DOMAIN Searched : Match(mem, Searched[i], name) # 0}
           has == {i \in DOMAIN Searched : of(Searched[i]) # {}}
<1>1. DTypeOK /\ InUse /\ Sound
  BY DEF DInv, Sound
<1>2. mem \in [Places -> Entries] /\ here \in 1 .. Top
  BY <1>1 DEF DTypeOK, Places
<1>3. /\ Searched \in Seq(Nat) /\ Len(Searched) \in 0 .. Listed
      /\ \A i \in 1 .. Len(Searched) : Searched[i] = wl_search_order[i - 1] /\ Searched[i] # 0
  BY <1>1, SearchedSound
<1>4. ASSUME NEW i \in DOMAIN Searched
      PROVE  Searched[i] \in Lists
  <2>1. i \in 1 .. Len(Searched) /\ i - 1 \in Cells
    BY <1>3, Sizes DEF Cells
  <2> QED BY <1>1, <1>3, <2>1 DEF InUse
<1>5. ASSUME NEW l \in Lists
      PROVE  Tops(Match(mem, l, name), of(l)) /\ of(l) \subseteq Places
  <2>1. l \in Places
    BY <1>2, Sizes DEF Lists, Alive, Places
  <2>2. Threads(mem, l, entered[l])
    BY DEF Threaded
  <2>3. entered[l] \subseteq Places
    BY <2>2 DEF Threads
  <2> QED BY <1>2, <2>1, <2>2, <2>3, MatchIs
<1> HIDE DEF of
<1>6. ASSUME NEW l \in Lists
      PROVE  /\ Match(mem, l, name) # 0 <=> of(l) # {}
             /\ of(l) # {} => Match(mem, l, name) = Max(of(l))
  <2>1. Tops(Match(mem, l, name), of(l)) /\ of(l) \subseteq Places
    BY <1>5
  <2>2. \A w \in of(l) : w \in Nat /\ w # 0
    BY <2>1, Sizes DEF Places
  <2>3. CASE of(l) = {}
    BY <2>1, <2>3 DEF Tops
  <2>4. CASE of(l) # {}
    <3> DEFINE x == Match(mem, l, name)
               y == Max(of(l))
    <3>1. x \in of(l) /\ \A w \in of(l) : w <= x
      BY <2>1, <2>4 DEF Tops
    <3>2. \A w \in of(l) : x >= w
      BY <2>2, <3>1
    <3>3. y \in of(l) /\ \A w \in of(l) : y >= w
      BY <3>1, <3>2 DEF Max
    <3> HIDE DEF x, y
    <3>4. x = y
      BY <2>2, <3>1, <3>3
    <3> QED BY <2>2, <2>4, <3>1, <3>4 DEF x, y
  <2> QED BY <2>3, <2>4
<1>7. found = has
  BY <1>4, <1>6
<1>8. FIND(name) = IF found = {} THEN 0 ELSE Match(mem, Searched[Min(found)], name)
  BY DEF FIND, FINDIn
<1>9. Expected(name) = IF has = {} THEN 0 ELSE Max(of(Searched[Min(has)]))
  BY DEF Expected, of
<1>10. has # {} => Min(has) \in has
  <2>1. has \subseteq Nat
    BY <1>3
  <2>2. has # {} => \E x \in has : \A y \in has : x <= y
    BY <2>1, Smallest
  <2> HIDE DEF has
  <2> QED BY <2>2 DEF Min
<1>11. has # {} => Min(has) \in DOMAIN Searched /\ of(Searched[Min(has)]) # {}
  BY <1>10
<1> HIDE DEF has, found
<1> QED BY <1>4, <1>6, <1>7, <1>8, <1>9, <1>11

(* FIND gives the newest word of a name in the first list that has one, as *)
(* long as the program keeps the contracts that make_word.c, search.fth    *)
(* and tools.fth rest on, however many words, lists and markers it makes.  *)
THEOREM NewestIsFound == Spec => []FindsNewest
<1>1. DInv /\ Threaded => FindsNewest
  BY FoundIsNewest
<1> QED BY <1>1, ThreadedInit, ThreadedNext, DictionaryInvariant, PTL DEF Spec
=============================================================================
