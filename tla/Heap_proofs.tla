----------------------------- MODULE Heap_proofs -----------------------------
(***************************************************************************)
(* Theorems about the heap, for every size of the area and of a header and *)
(* any number of blocks.                                                   *)
(***************************************************************************)
EXTENDS Heap, SequenceTheorems, FiniteSetTheorems, WellFoundedInduction, TLAPS

LEMMA Sizes ==
  /\ H \in Nat /\ H > 0 /\ HeapSize \in Nat /\ HeapSize > H + 1 /\ Word \in Nat /\ Word > HeapSize + H
  /\ Requests \subseteq 0 .. Word
  /\ Base = 1 /\ Cells = 1 .. HeapSize - 1
BY HeapAssumption DEF Base, Cells

(* A set of naturals has a smallest element, and one below a bound a       *)
(* largest.                                                                *)
LEMMA Smallest ==
  ASSUME NEW T, T \subseteq Nat, T # {}
  PROVE  \E x \in T : \A y \in T : x <= y
<1>1. PICK x \in T : \A y \in T : ~(<<y, x>> \in OpToRel(<, Nat))
  BY NatLessThanWellFounded, WFMin
<1>2. \A y \in T : ~(y < x)
  BY <1>1 DEF OpToRel
<1> QED BY <1>2

LEMMA Largest ==
  ASSUME NEW T, NEW n \in Nat, T \subseteq 0 .. n, T # {}
  PROVE  \E x \in T : \A y \in T : y <= x
<1> DEFINE U == {n - x : x \in T}
<1>1. U \subseteq Nat /\ U # {}
  <2>1. \A x \in T : n - x \in Nat
    OBVIOUS
  <2> QED BY <2>1
<1>2. PICK y \in U : \A z \in U : y <= z
  BY <1>1, Smallest
<1>3. PICK x \in T : y = n - x
  OBVIOUS
<1>4. \A z \in T : n - z \in U
  OBVIOUS
<1>5. \A z \in T : n - x <= n - z
  BY <1>2, <1>3, <1>4
<1> QED BY <1>5

(* A function that follows links forward through the area, to where they   *)
(* end, is defined everywhere.                                             *)
Leading(next) == next \in [Cells -> Cells \cup {0}] /\ \A c \in Cells : next[c] = 0 \/ next[c] > c
Follows(f, S, next, base, step) ==
  f \in [Cells -> S] /\ \A c \in Cells : f[c] = IF next[c] = 0 THEN base[c] ELSE step[c][f[next[c]]]

LEMMA Following ==
  ASSUME NEW S, NEW next, Leading(next), NEW base \in [Cells -> S], NEW step \in [Cells -> [S -> S]]
  PROVE  \E f : Follows(f, S, next, base, step)
<1> DEFINE From(k) == k .. HeapSize - 1
           Right(f, c) == f[c] = IF next[c] = 0 THEN base[c] ELSE step[c][f[next[c]]]
           T == {k \in 1 .. HeapSize : \E f \in [From(k) -> S] : \A c \in From(k) : Right(f, c)}
<1>0. next \in [Cells -> Cells \cup {0}] /\ \A c \in Cells : next[c] = 0 \/ next[c] > c
  BY DEF Leading
<1>1. HeapSize \in T
  <2>1. From(HeapSize) = {} /\ HeapSize \in 1 .. HeapSize
    BY Sizes
  <2>2. [c \in From(HeapSize) |-> base[c]] \in [From(HeapSize) -> S]
    BY <2>1
  <2> HIDE DEF From, Right
  <2> QED BY <2>1, <2>2
<1>2. T \subseteq Nat
  OBVIOUS
<1> HIDE DEF Right
<1>3. PICK m \in T : \A k \in T : m <= k
  BY <1>1, <1>2, Smallest
<1>4. ASSUME m # 1 PROVE FALSE
  <2>1. m \in 2 .. HeapSize /\ m - 1 \in 1 .. HeapSize /\ m - 1 \in Cells
    BY <1>3, <1>4, Sizes
  <2>2. PICK f \in [From(m) -> S] : \A c \in From(m) : Right(f, c)
    OBVIOUS
  <2> DEFINE new == IF next[m - 1] = 0 THEN base[m - 1] ELSE step[m - 1][f[next[m - 1]]]
             g == [c \in From(m - 1) |-> IF c = m - 1 THEN new ELSE f[c]]
  <2>3. next[m - 1] # 0 => next[m - 1] \in From(m)
    BY <1>0, <2>1, Sizes
  <2>4. new \in S
    BY <2>1, <2>3
  <2>5. \A c \in From(m - 1) : c = m - 1 \/ (c # m - 1 /\ c \in From(m))
    BY <2>1, Sizes
  <2>6. g \in [From(m - 1) -> S]
    <3> HIDE DEF From, new
    <3> QED BY <2>4, <2>5
  <2>7. \A c \in From(m) : c \in From(m - 1) /\ c # m - 1 /\ c \in Cells /\ (next[c] # 0 => next[c] \in From(m))
    BY <1>0, <2>1, Sizes
  <2>8. \A c \in From(m) : g[c] = f[c]
    <3> HIDE DEF From, new
    <3> QED BY <2>7
  <2>9. m - 1 \in From(m - 1)
    BY <2>1, Sizes
  <2>10. g[m - 1] = new
    <3> HIDE DEF From, new
    <3> QED BY <2>9
  <2> HIDE DEF g
  <2>11. ASSUME NEW c \in From(m - 1) PROVE Right(g, c)
    <3>1. CASE c = m - 1
      <4>1. next[m - 1] # 0 => g[next[m - 1]] = f[next[m - 1]]
        BY <2>3, <2>8
      <4> QED BY <2>10, <3>1, <4>1 DEF Right
    <3>2. CASE c # m - 1
      <4>1. c \in From(m) /\ Right(f, c) /\ g[c] = f[c] /\ (next[c] # 0 => g[next[c]] = f[next[c]])
        BY <2>2, <2>5, <2>7, <2>8, <3>2
      <4> QED BY <4>1 DEF Right
    <3> QED BY <3>1, <3>2
  <2>12. m - 1 \in T
    <3> HIDE DEF From
    <3> QED BY <2>1, <2>6, <2>11
  <2>13. ~(m <= m - 1)
    BY <2>1
  <2> HIDE DEF T
  <2> QED BY <1>3, <2>12, <2>13
<1>5. 1 \in T
  BY <1>4
<1>6. From(1) = Cells
  BY Sizes
<1> QED BY <1>5, <1>6 DEF Right, Follows

-----------------------------------------------------------------------------
(* The blocks of the list, with their headers at B: they lie one after the *)
(* other from the first cell of the area to its end.                       *)
End(b, h) == h + H + b[h].size
InList(b, B, h) ==
  /\ End(b, h) <= HeapSize
  /\ b[h].next = 0 => End(b, h) = HeapSize
  /\ b[h].next # 0 => b[h].next \in B /\ b[h].next = End(b, h) /\ b[b[h].next].prev = h
  /\ h # Base => b[h].prev \in B /\ b[b[h].prev].next = h
  /\ \A g \in B : g > h => g >= End(b, h)
Linked(b, B) ==
  /\ b \in [Cells -> Headers]
  /\ B \subseteq Cells /\ Base \in B /\ b[Base].prev = 0
  /\ \A h \in B : InList(b, B, h)
(* Every link, also one in a header of old, leads on. *)
Forward(b) == \A c \in Cells : b[c].next = 0 \/ b[c].next > c
Fitting(b, h, u) == ~b[h].used /\ b[h].size > u + H

LEMMA HeaderType ==
  ASSUME NEW b \in [Cells -> Headers], NEW h \in Cells
  PROVE  /\ b[h] \in Headers
         /\ b[h].size \in 0 .. HeapSize /\ b[h].size \in Nat /\ b[h].used \in BOOLEAN
         /\ b[h].prev \in Cells \cup {0} /\ b[h].next \in Cells \cup {0}
BY Sizes DEF Headers

(* A search that did not wrap finds a free block that is large enough, or  *)
(* there is none.                                                          *)
LEMMA FindIs ==
  ASSUME NEW b, NEW B, Linked(b, B), Forward(b), NEW u \in Nat, u + H < Word
  PROVE  LET h == FIND_FREE_AREA(b, u)
         IN \/ h \in B /\ Fitting(b, h, u)
            \/ h = 0 /\ \A g \in B : ~Fitting(b, g, u)
<1> DEFINE F == CHOOSE f : f = [h \in Cells |-> IF ~b[h].used /\ b[h].size > (u + H) % Word THEN h
                                                ELSE IF b[h].next # 0 THEN f[b[h].next]
                                                ELSE 0]
           nx == [h \in Cells |-> IF Fitting(b, h, u) THEN 0 ELSE b[h].next]
           bs == [h \in Cells |-> IF Fitting(b, h, u) THEN h ELSE 0]
           S == Cells \cup {0}
           st == [h \in Cells |-> [x \in S |-> x]]
<1>1. b \in [Cells -> Headers] /\ B \subseteq Cells /\ Base \in B
  BY DEF Linked
<1>2. (u + H) % Word = u + H
  BY Sizes
<1>3. FIND_FREE_AREA(b, u) = F[Base]
  BY DEF FIND_FREE_AREA
<1>4. nx \in [Cells -> Cells \cup {0}] /\ bs \in [Cells -> S] /\ st \in [Cells -> [S -> S]]
  BY <1>1, HeaderType
<1>5. \A c \in Cells : nx[c] = 0 \/ nx[c] > c
  BY DEF Forward
<1>6. PICK f : Follows(f, S, nx, bs, st)
  <2> HIDE DEF nx, bs, st, S, F
  <2>1. Leading(nx)
    BY <1>4, <1>5 DEF Leading
  <2>3. bs \in [Cells -> S]
    BY <1>4
  <2>4. st \in [Cells -> [S -> S]]
    BY <1>4
  <2> QED BY <2>1, <2>3, <2>4, Following
<1>7. \A c \in Cells : f[c] = IF Fitting(b, c, u) THEN c ELSE IF b[c].next # 0 THEN f[b[c].next] ELSE 0
  <2> SUFFICES ASSUME NEW c \in Cells
               PROVE  f[c] = IF Fitting(b, c, u) THEN c ELSE IF b[c].next # 0 THEN f[b[c].next] ELSE 0
    OBVIOUS
  <2>1. b[c].next # 0 => b[c].next \in Cells /\ f[b[c].next] \in S
    BY <1>1, <1>6, HeaderType DEF Follows
  <2> QED BY <1>6, <2>1, Sizes DEF Follows
<1>8. f = [h \in Cells |-> IF ~b[h].used /\ b[h].size > (u + H) % Word THEN h
                           ELSE IF b[h].next # 0 THEN f[b[h].next]
                           ELSE 0]
  BY <1>2, <1>6, <1>7 DEF Fitting, Follows
<1>9. F = [h \in Cells |-> IF ~b[h].used /\ b[h].size > (u + H) % Word THEN h
                           ELSE IF b[h].next # 0 THEN F[b[h].next]
                           ELSE 0]
  BY <1>8
<1> HIDE DEF F
<1>10. \A c \in Cells : F[c] = IF Fitting(b, c, u) THEN c ELSE IF b[c].next # 0 THEN F[b[c].next] ELSE 0
  BY <1>2, <1>9 DEF Fitting
<1> DEFINE Good(g) == \/ F[g] \in B /\ Fitting(b, F[g], u)
                      \/ F[g] = 0 /\ \A h \in B : h >= g => ~Fitting(b, h, u)
           Bad == {g \in B : ~Good(g)}
<1>11. Bad = {}
  <2> SUFFICES ASSUME Bad # {} PROVE FALSE
    OBVIOUS
  <2> HIDE DEF Good
  <2>1. Bad \subseteq 0 .. HeapSize
    <3>1. \A c \in Cells : c \in 0 .. HeapSize
      BY Sizes
    <3> QED BY <1>1, <3>1
  <2>2. PICK g \in Bad : \A h \in Bad : h <= g
    BY <2>1, Largest, Sizes
  <2>3. g \in B /\ g \in Cells /\ ~Good(g)
    BY <1>1
  <2>4. ~Fitting(b, g, u)
    BY <1>10, <2>3 DEF Good
  <2>5. CASE b[g].next = 0
    <3>1. F[g] = 0
      BY <1>10, <2>3, <2>4, <2>5
    <3>2. \A h \in B : h > g => h >= HeapSize
      BY <2>3, <2>5 DEF Linked, InList
    <3>3. \A h \in B : h >= g => h = g
      BY <1>1, <2>3, <3>2, Sizes
    <3> QED BY <2>3, <2>4, <3>1, <3>3 DEF Good
  <2>6. CASE b[g].next # 0
    <3>1. F[g] = F[b[g].next] /\ b[g].next \in B /\ b[g].next > g
      BY <1>10, <2>3, <2>4, <2>6 DEF Linked, InList, Forward
    <3>2. Good(b[g].next)
      <4>1. ~(b[g].next <= g)
        <5>1. b[g].next \in Nat /\ g \in Nat
          <6> HIDE DEF nx, bs, st, S, Bad
          <6>1. \A c \in B : c \in Nat
            BY <1>1, Sizes
          <6> QED BY <2>3, <3>1, <6>1
        <5> QED BY <3>1, <5>1
      <4> QED BY <2>2, <3>1, <4>1
    <3>3. \A h \in B : h >= g => h = g \/ h >= b[g].next
      BY <1>1, <2>3, <2>6, Sizes DEF Linked, InList
    <3> QED BY <2>3, <2>4, <3>1, <3>2, <3>3 DEF Good
  <2> QED BY <2>5, <2>6
<1>12. \A h \in B : h >= Base
  BY <1>1, Sizes
<1> QED BY <1>1, <1>3, <1>11, <1>12

(* The chain is the headers of the list, each after the one that links to  *)
(* it.                                                                     *)
Walks(c, b, B) ==
  /\ c \in Seq(Cells) /\ Len(c) > 0
  /\ \A i \in 1 .. Len(c) - 1 : b[c[i]].next # 0 /\ c[i + 1] = b[c[i]].next
  /\ b[c[Len(c)]].next = 0
  /\ \A i \in 1 .. Len(c) : c[i] \in B

LEMMA ChainIs ==
  ASSUME NEW b, NEW B, Linked(b, B), Forward(b)
  PROVE  LET c == Chain(b)
         IN /\ Walks(c, b, B) /\ c[1] = Base
            /\ ToSet(c) = B
<1> DEFINE F == CHOOSE f : f = [h \in Cells |-> IF b[h].next = 0 THEN <<h>> ELSE <<h>> \o f[b[h].next]]
           nx == [h \in Cells |-> b[h].next]
           bs == [h \in Cells |-> <<h>>]
           S == Seq(Cells)
           st == [h \in Cells |-> [s \in S |-> <<h>> \o s]]
<1>1. b \in [Cells -> Headers] /\ B \subseteq Cells /\ Base \in B
  BY DEF Linked
<1>2. Chain(b) = F[Base]
  BY DEF Chain
<1>3. \A h \in Cells : <<h>> \in S
  OBVIOUS
<1>4. bs \in [Cells -> S] /\ st \in [Cells -> [S -> S]]
  <2>1. \A h \in Cells, s \in S : <<h>> \o s \in S
    BY <1>3, ConcatProperties
  <2> HIDE DEF S
  <2> QED BY <1>3, <2>1
<1>5. Leading(nx)
  BY <1>1, HeaderType DEF Leading, Forward
<1>6. PICK f : Follows(f, S, nx, bs, st)
  <2> HIDE DEF nx, bs, st, S, F
  <2> QED BY <1>4, <1>5, Following
<1>7. \A c \in Cells : f[c] = IF b[c].next = 0 THEN <<c>> ELSE <<c>> \o f[b[c].next]
  <2> SUFFICES ASSUME NEW c \in Cells
               PROVE  f[c] = IF b[c].next = 0 THEN <<c>> ELSE <<c>> \o f[b[c].next]
    OBVIOUS
  <2>1. b[c].next # 0 => b[c].next \in Cells /\ f[b[c].next] \in S
    BY <1>1, <1>6, HeaderType DEF Follows
  <2>2. f[c] = IF nx[c] = 0 THEN bs[c] ELSE st[c][f[nx[c]]]
    BY <1>6 DEF Follows
  <2> QED BY <2>1, <2>2
<1>8. f = [h \in Cells |-> IF b[h].next = 0 THEN <<h>> ELSE <<h>> \o f[b[h].next]]
  BY <1>6, <1>7 DEF Follows
<1>9. F = [h \in Cells |-> IF b[h].next = 0 THEN <<h>> ELSE <<h>> \o F[b[h].next]]
  BY <1>8
<1> HIDE DEF F, nx, bs, st, S
<1>10. \A c \in Cells : F[c] = IF b[c].next = 0 THEN <<c>> ELSE <<c>> \o F[b[c].next]
  BY <1>9
<1> DEFINE Good(g) == /\ Walks(F[g], b, B) /\ F[g][1] = g
                      /\ \A h \in B : h >= g => \E i \in 1 .. Len(F[g]) : F[g][i] = h
           Bad == {g \in B : ~Good(g)}
<1>11. Bad = {}
  <2> SUFFICES ASSUME Bad # {} PROVE FALSE
    OBVIOUS
  <2> HIDE DEF Good
  <2>1. Bad \subseteq 0 .. HeapSize
    <3>1. \A c \in Cells : c \in 0 .. HeapSize
      BY Sizes
    <3> QED BY <1>1, <3>1
  <2>2. PICK g \in Bad : \A h \in Bad : h <= g
    BY <2>1, Largest, Sizes
  <2>3. g \in B /\ g \in Cells /\ ~Good(g)
    BY <1>1
  <2>4. \A c \in B : c \in Nat
    BY <1>1, Sizes
  <2> HIDE DEF Bad
  <2>5. CASE b[g].next = 0
    <3>1. F[g] = <<g>>
      BY <1>10, <2>3, <2>5
    <3>2. F[g] \in Seq(Cells) /\ Len(F[g]) = 1 /\ F[g][1] = g
      BY <2>3, <3>1
    <3>3. \A h \in B : h > g => h >= HeapSize
      BY <2>3, <2>5 DEF Linked, InList
    <3>4. \A h \in B : h >= g => h = g
      BY <1>1, <2>3, <3>3, Sizes
    <3>5. Walks(F[g], b, B)
      BY <2>3, <2>5, <3>2 DEF Walks
    <3> QED BY <2>3, <3>2, <3>4, <3>5 DEF Good
  <2>6. CASE b[g].next # 0
    <3> DEFINE n == b[g].next
               t == F[n]
               c == F[g]
    <3>1. c = <<g>> \o t /\ n \in B /\ n > g
      BY <1>10, <2>3, <2>6 DEF Linked, InList, Forward
    <3>2. Good(n)
      BY <2>2, <2>3, <2>4, <3>1 DEF Bad
    <3>3. /\ t \in Seq(Cells) /\ Len(t) > 0 /\ Len(t) \in Nat
          /\ \A i \in 1 .. Len(t) - 1 : b[t[i]].next # 0 /\ t[i + 1] = b[t[i]].next
          /\ b[t[Len(t)]].next = 0 /\ t[1] = n
          /\ \A i \in 1 .. Len(t) : t[i] \in B
          /\ \A h \in B : h >= n => \E i \in 1 .. Len(t) : t[i] = h
      BY <3>2, LenProperties DEF Good, Walks
    <3>4. <<g>> \in Seq(Cells) /\ Len(<<g>>) = 1 /\ <<g>>[1] = g
      BY <2>3
    <3> HIDE DEF t, c, n
    <3>5. /\ c \in Seq(Cells) /\ Len(c) = 1 + Len(t)
          /\ \A i \in 1 .. 1 + Len(t) : c[i] = IF i <= 1 THEN <<g>>[i] ELSE t[i - 1]
      BY <3>1, <3>3, <3>4, ConcatProperties
    <3>6. c[1] = g
      <4>1. 1 \in 1 .. 1 + Len(t)
        BY <3>3
      <4> QED BY <3>4, <3>5, <4>1
    <3>7. \A i \in 1 .. Len(t) : c[i + 1] = t[i]
      <4> SUFFICES ASSUME NEW i \in 1 .. Len(t) PROVE c[i + 1] = t[i]
        OBVIOUS
      <4>1. i + 1 \in 1 .. 1 + Len(t) /\ ~(i + 1 <= 1) /\ (i + 1) - 1 = i
        BY <3>3
      <4> QED BY <3>5, <4>1
    <3>8. \A i \in 1 .. Len(c) : i = 1 \/ (i - 1 \in 1 .. Len(t) /\ (i - 1) + 1 = i)
      BY <3>3, <3>5
    <3>9. ASSUME NEW i \in 1 .. Len(c) - 1 PROVE b[c[i]].next # 0 /\ c[i + 1] = b[c[i]].next
      <4>1. i \in 1 .. Len(t) /\ (i = 1 \/ (i - 1 \in 1 .. Len(t) - 1 /\ i - 1 \in 1 .. Len(t) /\ (i - 1) + 1 = i))
        BY <3>3, <3>5
      <4>2. CASE i = 1
        BY <2>6, <3>3, <3>6, <3>7, <4>1, <4>2 DEF n
      <4>3. CASE i # 1
        <5>1. c[i] = t[i - 1] /\ c[i + 1] = t[i] /\ b[t[i - 1]].next # 0 /\ t[(i - 1) + 1] = b[t[i - 1]].next
          BY <3>3, <3>7, <4>1, <4>3
        <5> QED BY <4>1, <4>3, <5>1
      <4> QED BY <4>2, <4>3
    <3>10. b[c[Len(c)]].next = 0
      <4>1. Len(t) \in 1 .. Len(t) /\ Len(c) = Len(t) + 1
        BY <3>3, <3>5
      <4> QED BY <3>3, <3>7, <4>1
    <3>11. ASSUME NEW i \in 1 .. Len(c) PROVE c[i] \in B
      <4>1. CASE i = 1
        BY <2>3, <3>6, <4>1
      <4>2. CASE i # 1
        <5>1. i - 1 \in 1 .. Len(t) /\ (i - 1) + 1 = i
          BY <3>8, <4>2
        <5>2. c[(i - 1) + 1] = t[i - 1]
          BY <3>7, <5>1
        <5> QED BY <3>3, <5>1, <5>2
      <4> QED BY <4>1, <4>2
    <3>12. Walks(c, b, B)
      BY <3>3, <3>5, <3>9, <3>10, <3>11 DEF Walks
    <3>13. ASSUME NEW h \in B, h >= g PROVE \E i \in 1 .. Len(c) : c[i] = h
      <4>1. CASE h = g
        <5>1. 1 \in 1 .. Len(c)
          BY <3>3, <3>5
        <5> QED BY <3>6, <4>1, <5>1
      <4>2. CASE h # g
        <5>1. h >= n
          <6>1. h > g
            BY <2>3, <2>4, <3>13, <4>2
          <6>2. h >= End(b, g) /\ n = End(b, g)
            BY <2>3, <2>6, <6>1 DEF Linked, InList, n
          <6> QED BY <6>2
        <5>2. PICK i \in 1 .. Len(t) : t[i] = h
          BY <3>3, <5>1
        <5>3. i + 1 \in 1 .. Len(c)
          BY <3>3, <3>5
        <5> QED BY <3>7, <5>2, <5>3
      <4> QED BY <4>1, <4>2
    <3> QED BY <2>3, <3>6, <3>12, <3>13 DEF Good, c
  <2> QED BY <2>5, <2>6
<1>12. Good(Base)
  BY <1>1, <1>11
<1>13. \A h \in B : h >= Base
  BY <1>1, Sizes
<1> HIDE DEF F
<1>14. ToSet(F[Base]) = B
  <2>1. DOMAIN F[Base] = 1 .. Len(F[Base])
    BY <1>12 DEF Walks
  <2> QED BY <1>12, <1>13, <2>1 DEF ToSet, Walks
<1> QED BY <1>2, <1>12, <1>14
-----------------------------------------------------------------------------
(* Of two neighbours one is used. *)
Bounded(b, h) == b[h].next # 0 => b[h].used \/ b[b[h].next].used
NoTwoFree(b, B) == \A h \in B : Bounded(b, h)

(* What Linked says of a block, with the numbers it is about.              *)
LEMMA InListIs ==
  ASSUME NEW b, NEW B, Linked(b, B), Forward(b), NEW h \in B
  PROVE  /\ h \in Nat /\ h >= 1 /\ h \in Cells /\ b[h].size \in Nat /\ b[h].used \in BOOLEAN
         /\ b[h] \in Headers /\ b[h].next \in Nat /\ b[h].prev \in Nat
         /\ h + H + b[h].size <= HeapSize /\ End(b, h) = h + H + b[h].size
         /\ b[h].next = 0 => h + H + b[h].size = HeapSize
         /\ b[h].next # 0 => /\ b[h].next \in B /\ b[h].next = h + H + b[h].size
                             /\ b[b[h].next].prev = h
         /\ h # 1 => b[h].prev \in B /\ b[b[h].prev].next = h /\ b[h].prev < h
         /\ \A g \in B : g > h => g >= h + H + b[h].size
<1>1. b \in [Cells -> Headers] /\ h \in Cells /\ InList(b, B, h) /\ B \subseteq Cells
  BY DEF Linked
<1>2. /\ b[h] \in Headers
      /\ b[h].size \in Nat /\ b[h].used \in BOOLEAN
      /\ b[h].prev \in Cells \cup {0} /\ b[h].next \in Cells \cup {0}
  BY <1>1, HeaderType
<1>3. h \in Nat /\ h >= 1 /\ b[h].next \in Nat /\ b[h].prev \in Nat
  BY <1>1, <1>2, Sizes
<1>4. h # 1 => b[h].prev < h
  BY <1>1, <1>3, Sizes DEF InList, Forward
<1> QED BY <1>1, <1>2, <1>3, <1>4, Sizes DEF InList, End

(* SPLIT-ALLOCATE takes a block of u cells from the front of a free one;   *)
(* what it leaves is never empty.                                          *)
IsSplit(b, B, u, h, w, d) ==
  /\ w \in Cells /\ w \notin B /\ w + H < h + H + b[h].size
  /\ Linked(d, B \cup {w}) /\ Forward(d)
  /\ d[h].used /\ d[h].size = u /\ ~d[w].used
  /\ \A g \in B : g # h => d[g].used = b[g].used /\ d[g].size = b[g].size
  /\ NoTwoFree(b, B) => NoTwoFree(d, B \cup {w})
  /\ SplitHeader(b, u, h) = HeaderCells(w)

LEMMA SplitLinked ==
  ASSUME NEW b, NEW B, Linked(b, B), Forward(b), NEW u \in Nat, NEW h \in B, Fitting(b, h, u)
  PROVE  IsSplit(b, B, u, h, h + u + H, Split(b, u, h))
<1> DEFINE d == Split(b, u, h)
           w == h + u + H
           n == b[h].next
           e == h + H + b[h].size
           rest == [size |-> (h + b[h].size) - w, used |-> FALSE, prev |-> h, next |-> n]
<1>1. /\ h \in Nat /\ h >= 1 /\ h \in Cells /\ b[h].size \in Nat /\ b[h].used = FALSE /\ b[h] \in Headers
      /\ n \in Nat /\ e <= HeapSize /\ b[h].size > u + H
      /\ n = 0 => e = HeapSize
      /\ n # 0 => n \in B /\ n = e /\ b[n].prev = h
      /\ h # 1 => b[h].prev \in B /\ b[b[h].prev].next = h /\ b[h].prev < h
      /\ \A g \in B : g > h => g >= e
  BY InListIs DEF Fitting
<1>2. b \in [Cells -> Headers] /\ B \subseteq Cells /\ Base \in B /\ b[Base].prev = 0 /\ Base = 1
  BY Sizes DEF Linked
<1>3. /\ w \in Nat /\ w + H < e /\ w > h /\ (h + b[h].size) - w \in Nat /\ (h + b[h].size) - w <= HeapSize
      /\ w + H + ((h + b[h].size) - w) = e /\ u <= HeapSize
  <2>1. ASSUME NEW x \in Nat, NEW s \in Nat, s > u + H, x + H + s <= HeapSize
        PROVE  /\ x + u + H \in Nat /\ x + u + H + H < x + H + s /\ x + u + H > x
               /\ (x + s) - (x + u + H) \in Nat /\ (x + s) - (x + u + H) <= HeapSize
               /\ x + u + H + H + ((x + s) - (x + u + H)) = x + H + s /\ u <= HeapSize
    BY <2>1, Sizes
  <2> QED BY <1>1, <2>1
<1>4. w \in Cells /\ w \notin B /\ w # 1 /\ h # w /\ n # w /\ n # h
  BY <1>1, <1>3, Sizes
<1>5. ~IsPerfectFit(u, b[h].size)
  BY <1>1, Sizes DEF IsPerfectFit
<1>6. d = [c \in Cells |->
               CASE c = h -> [b[h] EXCEPT !.used = TRUE, !.size = u, !.next = w]
                 [] c = w -> rest
                 [] c = n -> [b[c] EXCEPT !.prev = w]
                 [] OTHER -> b[c]]
  BY <1>5 DEF Split
<1> HIDE DEF w, n, d, e
<1>7. /\ d[h].size = u /\ d[h].used = TRUE /\ d[h].prev = b[h].prev /\ d[h].next = w /\ d[h] \in Headers
  <2>1. d[h] = [b[h] EXCEPT !.used = TRUE, !.size = u, !.next = w]
    BY <1>1, <1>4, <1>6
  <2>2. u \in 0 .. HeapSize
    BY <1>3, Sizes
  <2> QED BY <1>1, <1>4, <2>1, <2>2 DEF Headers
<1>8. /\ d[w].size = (h + b[h].size) - w /\ d[w].used = FALSE /\ d[w].prev = h /\ d[w].next = n /\ d[w] \in Headers
  <2>1. d[w] = rest
    BY <1>4, <1>6
  <2>2. (h + b[h].size) - w \in 0 .. HeapSize /\ n \in Cells \cup {0}
    BY <1>1, <1>2, <1>3, Sizes
  <2> QED BY <1>1, <2>1, <2>2 DEF Headers
<1>9. ASSUME NEW c \in Cells, c # h, c # w
      PROVE  /\ d[c].size = b[c].size /\ d[c].used = b[c].used /\ d[c].next = b[c].next /\ d[c] \in Headers
             /\ d[c].prev = IF c = n THEN w ELSE b[c].prev
  <2>1. b[c] \in Headers
    BY <1>2
  <2>2. CASE c = n
    <3>1. d[c] = [b[c] EXCEPT !.prev = w]
      BY <1>6, <1>9, <2>2
    <3> QED BY <1>4, <2>1, <2>2, <3>1 DEF Headers
  <2>3. CASE c # n
    <3>1. d[c] = b[c]
      BY <1>6, <1>9, <2>3
    <3> QED BY <2>1, <2>3, <3>1
  <2> QED BY <2>2, <2>3
<1>10. d \in [Cells -> Headers]
  BY <1>6, <1>7, <1>8, <1>9
<1>11. \A g \in B : g \in Cells /\ g # w
  BY <1>2, <1>4
<1>12. d[Base].prev = 0
  <2>1. n # Base
    BY <1>1, <1>2, Sizes DEF e
  <2> QED BY <1>2, <1>7, <1>9, <1>11, <2>1
<1>13. InList(d, B \cup {w}, h)
  <2>1. End(d, h) = w
    BY <1>1, <1>7, Sizes DEF End, w
  <2>2. w <= HeapSize /\ w # 0 /\ w <= e
    BY <1>1, <1>3, Sizes
  <2>3. h # Base => d[h].prev \in B /\ d[d[h].prev].next = h
    <3> SUFFICES ASSUME h # 1 PROVE b[h].prev \in B /\ d[b[h].prev].next = h
      BY <1>2, <1>7
    <3>1. b[h].prev \in B /\ b[b[h].prev].next = h /\ b[h].prev # h
      BY <1>1
    <3> QED BY <1>9, <1>11, <3>1
  <2>4. \A g \in B : g > h => g >= w
    BY <1>1, <1>2, <1>3, Sizes
  <2>5. d[h].next = w /\ d[w].prev = h
    BY <1>7, <1>8
  <2>6. w > h => w >= w
    BY <1>3
  <2> QED BY <2>1, <2>2, <2>3, <2>4, <2>5, <2>6 DEF InList
<1>14. InList(d, B \cup {w}, w)
  <2>1. End(d, w) = e
    BY <1>3, <1>8 DEF End
  <2>2. n # 0 => d[n].prev = w
    BY <1>1, <1>4, <1>9, <1>11
  <2>3. \A g \in B : g > w => g >= e
    BY <1>1, <1>2, <1>3, Sizes
  <2>4. ~(w > w)
    BY <1>3
  <2> QED BY <1>1, <1>7, <1>8, <2>1, <2>2, <2>3, <2>4 DEF InList
<1>15. ASSUME NEW g \in B, g # h PROVE InList(d, B \cup {w}, g)
  <2>1. /\ g \in Nat /\ g \in Cells /\ g # w /\ b[g].size \in Nat /\ g + H + b[g].size <= HeapSize
        /\ b[g].next = 0 => g + H + b[g].size = HeapSize
        /\ b[g].next # 0 => b[g].next \in B /\ b[g].next = g + H + b[g].size /\ b[b[g].next].prev = g
        /\ g # 1 => b[g].prev \in B /\ b[b[g].prev].next = g
        /\ \A k \in B : k > g => k >= g + H + b[g].size
    BY <1>11, InListIs
  <2>2. End(d, g) = g + H + b[g].size /\ d[g].next = b[g].next
    BY <1>9, <1>15, <2>1 DEF End
  <2>3. ASSUME b[g].next # 0 PROVE d[b[g].next].prev = g
    <3>1. b[g].next # n /\ b[g].next \in Cells /\ b[g].next # w
      BY <1>1, <1>11, <1>15, <2>1, <2>3
    <3> QED BY <1>7, <1>9, <2>1, <2>3, <3>1
  <2>4. ASSUME g # 1 PROVE d[g].prev \in B \cup {w} /\ d[d[g].prev].next = g
    <3>1. CASE g = n
      BY <1>8, <1>9, <1>15, <2>1, <3>1
    <3>2. CASE g # n
      <4>1. d[g].prev = b[g].prev
        BY <1>9, <1>15, <2>1, <3>2
      <4>2. b[g].prev \in B /\ b[b[g].prev].next = g /\ b[g].prev # h
        BY <2>1, <2>4, <3>2 DEF n
      <4> QED BY <1>9, <1>11, <4>1, <4>2
    <3> QED BY <3>1, <3>2
  <2>5. w > g => w >= g + H + b[g].size
    <3>1. g < h \/ g > h
      BY <1>1, <1>15, <2>1
    <3>2. g < h => h >= g + H + b[g].size
      BY <2>1
    <3>3. g > h => g > w
      BY <1>1, <1>3, <2>1, Sizes
    <3> QED BY <1>1, <1>3, <2>1, <3>1, <3>2, <3>3, Sizes
  <2> QED BY <1>2, <2>1, <2>2, <2>3, <2>4, <2>5 DEF InList
<1>16. Linked(d, B \cup {w})
  BY <1>2, <1>4, <1>10, <1>12, <1>13, <1>14, <1>15 DEF Linked
<1>17. Forward(d)
  <2>1. n # 0 => n > w
    BY <1>1, <1>3, Sizes
  <2> QED BY <1>3, <1>7, <1>8, <1>9, <2>1 DEF Forward
<1>18. ASSUME NoTwoFree(b, B) PROVE NoTwoFree(d, B \cup {w})
  <2>1. Bounded(d, h)
    BY <1>7 DEF Bounded
  <2>2. Bounded(d, w)
    <3>1. n # 0 => b[n].used
      BY <1>1, <1>18 DEF NoTwoFree, Bounded, n
    <3>2. n # 0 => d[n].used = b[n].used
      BY <1>1, <1>4, <1>9, <1>11
    <3> QED BY <1>8, <3>1, <3>2 DEF Bounded
  <2>3. ASSUME NEW g \in B, g # h PROVE Bounded(d, g)
    <3>1. d[g].next = b[g].next /\ d[g].used = b[g].used
      BY <1>9, <1>11, <2>3
    <3>2. ASSUME b[g].next # 0 PROVE b[g].used \/ d[b[g].next].used
      <4>1. b[g].next \in B /\ (b[g].used \/ b[b[g].next].used)
        BY <1>18, <3>2, InListIs DEF NoTwoFree, Bounded
      <4> QED BY <1>7, <1>9, <1>11, <4>1
    <3> QED BY <3>1, <3>2 DEF Bounded
  <2> QED BY <2>1, <2>2, <2>3 DEF NoTwoFree
<1>19. \A g \in B : g # h => d[g].used = b[g].used /\ d[g].size = b[g].size
  BY <1>9, <1>11
<1>20. SplitHeader(b, u, h) = HeaderCells(w)
  BY <1>5 DEF SplitHeader, w
<1> QED BY <1>3, <1>4, <1>7, <1>8, <1>16, <1>17, <1>18, <1>19, <1>20 DEF d, w, e, IsSplit

(* MERGE-RIGHT takes the block behind, at n, out of the list.              *)
Merged(b, B, h, n, d) ==
  /\ Linked(d, B \ {n}) /\ Forward(d) /\ n \in B /\ h \in B \ {n} /\ b[n].prev = h
  /\ \A g \in B \ {n} : d[g].used = b[g].used /\ (g # h => d[g].size = b[g].size /\ d[g].next = b[g].next)
  /\ d[h].next = b[n].next /\ d[h].prev = b[h].prev
  /\ \A g \in B \ {h} : d[g].next # n /\ b[g].next # n

LEMMA MergeLinked ==
  ASSUME NEW b, NEW B, Linked(b, B), Forward(b), NEW h \in B, b[h].next # 0
  PROVE  Merged(b, B, h, b[h].next, MergeRight(b, h))
<1> DEFINE d == MergeRight(b, h)
           n == b[h].next
           m == b[n].next
           e == n + H + b[n].size
           C == B \ {n}
<1>1. /\ h \in Nat /\ h >= 1 /\ h \in Cells /\ b[h].size \in Nat /\ b[h] \in Headers
      /\ n \in B /\ n = h + H + b[h].size /\ b[n].prev = h
      /\ h # 1 => b[h].prev \in B /\ b[b[h].prev].next = h /\ b[h].prev < h
      /\ \A g \in B : g > h => g >= n
  BY InListIs
<1>2. /\ n \in Nat /\ n \in Cells /\ b[n].size \in Nat /\ b[n] \in Headers
      /\ m \in Nat /\ e <= HeapSize
      /\ m = 0 => e = HeapSize
      /\ m # 0 => m \in B /\ m = e /\ b[m].prev = n
      /\ \A g \in B : g > n => g >= e
  BY <1>1, InListIs
<1>3. b \in [Cells -> Headers] /\ B \subseteq Cells /\ Base \in B /\ b[Base].prev = 0 /\ Base = 1
  BY Sizes DEF Linked
<1>4. d = [c \in Cells |->
        CASE c = h -> [b[h] EXCEPT !.size = @ + b[n].size + H, !.next = m]
          [] c = m -> [b[c] EXCEPT !.prev = h]
          [] OTHER -> b[c]]
  BY DEF MergeRight
<1>5. n > h /\ n # 1 /\ (m # 0 => m > n) /\ m # h /\ m # n /\ e > n
  <2>1. ASSUME NEW x \in Nat, NEW s \in Nat, NEW t \in Nat, x >= 1
        PROVE  x + H + s > x /\ x + H + s # 1 /\ (x + H + s) + H + t > x + H + s
    BY <2>1, Sizes
  <2>2. n > h /\ n # 1 /\ e > n
    BY <1>1, <1>2, <2>1
  <2>3. m # 0 => m = e /\ m > n /\ m > h
    BY <1>1, <1>2, <2>2
  <2> HIDE DEF n, m, e
  <2> QED BY <1>1, <1>2, <2>2, <2>3
<1>6. h + H + (b[h].size + b[n].size + H) = e /\ b[h].size + b[n].size + H \in 0 .. HeapSize
  <2>1. ASSUME NEW x \in Nat, NEW s \in Nat, NEW t \in Nat, (x + H + s) + H + t <= HeapSize
        PROVE  x + H + (s + t + H) = (x + H + s) + H + t /\ s + t + H \in 0 .. HeapSize
    BY <2>1, Sizes
  <2> QED BY <1>1, <1>2, <2>1
<1> HIDE DEF d, n, m, e
<1>7. /\ d[h].size = b[h].size + b[n].size + H /\ d[h].used = b[h].used /\ d[h].prev = b[h].prev
      /\ d[h].next = m /\ d[h] \in Headers
  <2>1. d[h] = [b[h] EXCEPT !.size = @ + b[n].size + H, !.next = m]
    BY <1>1, <1>4, <1>5
  <2>2. m \in Cells \cup {0}
    BY <1>2, <1>3
  <2> QED BY <1>1, <1>6, <2>1, <2>2 DEF Headers
<1>8. ASSUME NEW c \in Cells, c # h
      PROVE  /\ d[c].size = b[c].size /\ d[c].used = b[c].used /\ d[c].next = b[c].next /\ d[c] \in Headers
             /\ d[c].prev = IF c = m THEN h ELSE b[c].prev
  <2>1. b[c] \in Headers
    BY <1>3
  <2>2. CASE c = m
    <3>1. d[c] = [b[c] EXCEPT !.prev = h]
      BY <1>4, <1>8, <2>2
    <3> QED BY <1>1, <2>1, <2>2, <3>1 DEF Headers
  <2>3. CASE c # m
    <3>1. d[c] = b[c]
      BY <1>4, <1>8, <2>3
    <3> QED BY <2>1, <2>3, <3>1
  <2> QED BY <2>2, <2>3
<1>9. d \in [Cells -> Headers]
  BY <1>4, <1>7, <1>8
<1>10. \A g \in B : g \in Cells
  BY <1>3
<1>11. d[Base].prev = 0
  <2>1. m # Base
    BY <1>2, <1>3, <1>5, Sizes
  <2> QED BY <1>3, <1>7, <1>8, <1>10, <2>1
<1>12. InList(d, C, h)
  <2>1. End(d, h) = e
    BY <1>6, <1>7 DEF End
  <2>2. m # 0 => d[m].prev = h
    BY <1>2, <1>5, <1>8, <1>10
  <2>3. ASSUME h # 1 PROVE d[h].prev \in C /\ d[d[h].prev].next = h
    <3>1. b[h].prev \in B /\ b[b[h].prev].next = h /\ b[h].prev < h
      BY <1>1, <2>3
    <3>2. b[h].prev # n /\ b[h].prev # h
      BY <1>1, <1>5, <3>1, <1>10, Sizes
    <3> QED BY <1>7, <1>8, <1>10, <3>1, <3>2
  <2>4. \A g \in C : g > h => g >= e
    <3> SUFFICES ASSUME NEW g \in C, g > h PROVE g >= e
      OBVIOUS
    <3>1. g >= n /\ g # n /\ g \in B /\ g \in Nat
      BY <1>1, <1>3, Sizes
    <3>2. g > n
      BY <1>2, <3>1
    <3> QED BY <1>2, <3>1, <3>2
  <2> QED BY <1>2, <1>3, <1>5, <1>7, <2>1, <2>2, <2>3, <2>4 DEF InList
<1>13. ASSUME NEW g \in C, g # h PROVE InList(d, C, g)
  <2>1. /\ g \in Nat /\ g \in B /\ g \in Cells /\ g # n /\ b[g].size \in Nat /\ g + H + b[g].size <= HeapSize
        /\ b[g].next = 0 => g + H + b[g].size = HeapSize
        /\ b[g].next # 0 => b[g].next \in B /\ b[g].next = g + H + b[g].size /\ b[b[g].next].prev = g
        /\ g # 1 => b[g].prev \in B /\ b[b[g].prev].next = g
        /\ \A k \in B : k > g => k >= g + H + b[g].size
    BY InListIs
  <2>2. End(d, g) = g + H + b[g].size /\ d[g].next = b[g].next
    BY <1>8, <1>13, <2>1 DEF End
  <2>3. ASSUME b[g].next # 0 PROVE b[g].next \in C /\ d[b[g].next].prev = g
    <3>1. b[g].next # n /\ b[g].next \in Cells /\ b[g].next \in B
      BY <1>1, <1>10, <1>13, <2>1, <2>3
    <3>2. m # 0 => b[g].next # m
      BY <1>2, <2>1, <2>3
    <3> QED BY <1>7, <1>8, <2>1, <2>3, <3>1, <3>2
  <2>4. ASSUME g # 1 PROVE d[g].prev \in C /\ d[d[g].prev].next = g
    <3>1. CASE g = m
      BY <1>1, <1>5, <1>7, <1>8, <1>13, <2>1, <3>1
    <3>2. CASE g # m
      <4>1. d[g].prev = b[g].prev
        BY <1>8, <1>13, <2>1, <3>2
      <4>2. b[g].prev \in B /\ b[b[g].prev].next = g /\ b[g].prev # h /\ b[g].prev # n
        BY <2>1, <2>4, <3>2 DEF n, m
      <4> QED BY <1>8, <1>10, <4>1, <4>2
    <3> QED BY <3>1, <3>2
  <2> QED BY <1>3, <2>1, <2>2, <2>3, <2>4 DEF InList
<1>14. Linked(d, C)
  BY <1>3, <1>5, <1>9, <1>11, <1>12, <1>13 DEF Linked
<1>15. Forward(d)
  <2>1. m # 0 => m > h
    BY <1>1, <1>2, <1>5
  <2> QED BY <1>7, <1>8, <2>1 DEF Forward
<1>16. \A g \in C : d[g].used = b[g].used /\ (g # h => d[g].size = b[g].size /\ d[g].next = b[g].next)
  BY <1>7, <1>8, <1>10
<1>17. ASSUME NEW g \in B \ {h} PROVE d[g].next # n /\ b[g].next # n
  <2>1. b[g].next # 0 => b[b[g].next].prev = g
    BY InListIs
  <2>2. b[g].next # n
    BY <1>1, <1>5, <2>1, <1>2, <1>17, Sizes
  <2> QED BY <1>8, <1>10, <2>2
<1>18. h \in C /\ n \in B /\ b[n].prev = h
  BY <1>1, <1>5
<1> QED BY <1>7, <1>14, <1>15, <1>16, <1>17, <1>18 DEF d, n, m, Merged

(* FREE merges the block with its free neighbours: the used blocks left    *)
(* are those there were but the one freed, each of its size.               *)
Rid(b, B, h, d, C) ==
  /\ Linked(d, C) /\ Forward(d) /\ NoTwoFree(d, C)
  /\ C \subseteq B
  /\ \A g \in B : (g \in C /\ d[g].used) <=> (b[g].used /\ g # h)
  /\ \A g \in C : d[g].used => d[g].size = b[g].size

LEMMA Released ==
  ASSUME NEW b, NEW B, Linked(b, B), Forward(b), NEW h \in B
  PROVE  LET d == [b EXCEPT ![h].used = FALSE]
         IN /\ Linked(d, B) /\ Forward(d) /\ ~d[h].used
            /\ \A g \in Cells : d[g].size = b[g].size /\ d[g].prev = b[g].prev /\ d[g].next = b[g].next
            /\ \A g \in Cells : g # h => d[g].used = b[g].used
<1> DEFINE d == [b EXCEPT ![h].used = FALSE]
<1>1. b \in [Cells -> Headers] /\ h \in Cells /\ B \subseteq Cells /\ b[h] \in Headers
  BY InListIs DEF Linked
<1>2. ASSUME NEW g \in Cells
      PROVE  /\ d[g].size = b[g].size /\ d[g].prev = b[g].prev /\ d[g].next = b[g].next /\ d[g] \in Headers
             /\ g # h => d[g].used = b[g].used
             /\ g = h => d[g].used = FALSE
  <2>1. CASE g = h
    <3>1. d[g] = [b[h] EXCEPT !.used = FALSE]
      BY <1>1, <2>1
    <3> QED BY <1>1, <2>1, <3>1 DEF Headers
  <2>2. CASE g # h
    <3>1. d[g] = b[g]
      BY <1>1, <2>2
    <3> QED BY <1>1, <2>2, <3>1
  <2> QED BY <2>1, <2>2
<1>3. d \in [Cells -> Headers]
  BY <1>1, <1>2
<1> HIDE DEF d
<1>4. ASSUME NEW g \in B PROVE InList(d, B, g)
  <2>1. InList(b, B, g) /\ g \in Cells /\ b[g].prev \in Cells \cup {0} /\ b[g].next \in Cells \cup {0}
    BY <1>1, HeaderType DEF Linked
  <2>2. End(d, g) = End(b, g)
    BY <1>2, <2>1 DEF End
  <2> QED BY <1>1, <1>2, <2>1, <2>2 DEF InList
<1>5. Linked(d, B)
  BY <1>1, <1>2, <1>3, <1>4, Sizes DEF Linked
<1>6. Forward(d)
  BY <1>2 DEF Forward
<1> QED BY <1>1, <1>2, <1>5, <1>6 DEF d

LEMMA FreedIs ==
  ASSUME NEW b0, NEW B, Linked(b0, B), Forward(b0), NoTwoFree(b0, B), NEW h \in B, b0[h].used
  PROVE  \E C : Rid(b0, B, h, Freed(b0, h), C)
<1> DEFINE b == [b0 EXCEPT ![h].used = FALSE]
           n == b[h].next
           p == b[h].prev
           right == n # 0 /\ ~b[n].used
           left == p # 0 /\ ~b[p].used
<1>1. /\ Linked(b, B) /\ Forward(b) /\ ~b[h].used
      /\ \A g \in Cells : b[g].size = b0[g].size /\ b[g].prev = b0[g].prev /\ b[g].next = b0[g].next
      /\ \A g \in Cells : g # h => b[g].used = b0[g].used
  BY Released
<1>2. /\ right /\ left => Freed(b0, h) = MergeLeft(MergeRight(b, h), h)
      /\ right /\ ~left => Freed(b0, h) = MergeRight(b, h)
      /\ left /\ ~right => Freed(b0, h) = MergeLeft(b, h)
      /\ ~right /\ ~left => Freed(b0, h) = b
  BY DEF Freed
<1> HIDE DEF b
<1>3. B \subseteq Cells /\ h \in Cells
  BY DEF Linked
<1>4. /\ n # 0 => n \in B /\ n # h /\ b[n].prev = h
      /\ p # 0 => p \in B /\ p # h /\ b[p].next = h /\ h # 1
      /\ h # 1 => p \in B /\ b[p].next = h
  <2>1. /\ h \in Nat /\ b[h].size \in Nat
        /\ n # 0 => n \in B /\ n = h + H + b[h].size /\ b[n].prev = h
        /\ h # 1 => p \in B /\ b[p].next = h /\ p < h
    BY <1>1, InListIs
  <2>2. h = 1 => p = 0
    BY <1>1, Sizes DEF Linked
  <2>3. n # 0 => n # h
    BY <2>1, Sizes
  <2>4. h # 1 => p # h
    BY <1>3, <2>1, Sizes
  <2> QED BY <2>1, <2>2, <2>3, <2>4
<1>5. ASSUME NEW g \in B
      PROVE  /\ b[g].next # 0 => b[g].next \in B /\ b[b[g].next].prev = g
             /\ b[g].next # 0 => b0[g].used \/ b0[b[g].next].used
  <2>1. b[g].next # 0 => b[g].next \in B /\ b[b[g].next].prev = g
    BY <1>1, InListIs
  <2> QED BY <1>1, <1>3, <2>1 DEF NoTwoFree, Bounded
<1>6. \A g \in B : g \in Cells
  BY <1>3
<1>7. CASE right /\ left
  <2> DEFINE d1 == MergeRight(b, h)
             d == MergeRight(d1, p)
             C1 == B \ {n}
             C == C1 \ {h}
             m == b[n].next
  <2>1. /\ Linked(d1, C1) /\ Forward(d1) /\ n \in B /\ h \in C1 /\ b[n].prev = h
        /\ \A g \in C1 : d1[g].used = b[g].used /\ (g # h => d1[g].size = b[g].size /\ d1[g].next = b[g].next)
        /\ d1[h].next = m /\ d1[h].prev = p
        /\ \A g \in B \ {h} : d1[g].next # n /\ b[g].next # n
    <3>1. Merged(b, B, h, n, d1)
      BY <1>1, <1>7, MergeLinked
    <3> HIDE DEF d1
    <3> QED BY <3>1 DEF Merged
  <2>2. p \in C1 /\ d1[p].next = h /\ h # 0 /\ p # h
    <3>1. p \in B /\ p # h /\ b[p].next = h /\ h # 0
      BY <1>3, <1>4, <1>7, Sizes
    <3>2. p # n
      <4>1. d1[p].next # n
        BY <2>1, <3>1
      <4>2. h # 1
        BY <1>4, <1>7
      <4>3. d1[h].prev \in C1
        BY <2>1, <4>2, InListIs
      <4> QED BY <2>1, <4>3
    <3> QED BY <2>1, <3>1, <3>2
  <2>3. Freed(b0, h) = d
    BY <1>2, <1>7, <2>1 DEF MergeLeft
  <2> HIDE DEF d1
  <2>4. /\ Linked(d, C) /\ Forward(d)
        /\ \A g \in C : d[g].used = d1[g].used /\ (g # p => d[g].size = d1[g].size /\ d[g].next = d1[g].next)
        /\ d[p].next = d1[h].next
        /\ \A g \in C1 \ {p} : d[g].next # h /\ d1[g].next # h
    <3>1. Merged(d1, C1, p, h, d)
      <4> HIDE DEF C1, p
      <4> QED BY <2>1, <2>2, MergeLinked
    <3> HIDE DEF d
    <3> QED BY <3>1 DEF Merged
  <2> HIDE DEF d
  <2>5. ASSUME NEW g \in C PROVE Bounded(d, g)
    <3>1. d[g].used = b0[g].used /\ g \in B /\ g # h /\ g # n
      BY <1>1, <1>6, <2>1, <2>4
    <3>2. \A k \in C : d[k].used = b0[k].used
      BY <1>1, <1>6, <2>1, <2>4
    <3>3. d[g].next # 0 => d[g].next \in C
      BY <2>4, InListIs
    <3>4. CASE g = p
      <4>1. d[g].next = m
        BY <2>1, <2>4, <3>4
      <4>2. ~b0[n].used
        BY <1>1, <1>4, <1>6, <1>7
      <4>3. m # 0 => b0[m].used
        BY <1>5, <2>1, <4>2
      <4> QED BY <3>2, <3>3, <4>1, <4>3 DEF Bounded
    <3>5. CASE g # p
      <4>1. d[g].next = b[g].next
        BY <2>1, <2>4, <3>1, <3>5
      <4> QED BY <1>5, <3>1, <3>2, <3>3, <4>1 DEF Bounded
    <3> QED BY <3>4, <3>5
  <2>6. \A g \in B : (g \in C /\ d[g].used) <=> (b0[g].used /\ g # h)
    <3>1. ~b0[n].used
      BY <1>1, <1>4, <1>6, <1>7
    <3> QED BY <1>1, <1>6, <2>1, <2>4, <3>1
  <2>7. \A g \in C : d[g].used => d[g].size = b0[g].size
    <3>1. ~d[p].used
      BY <1>7, <2>1, <2>2, <2>4
    <3> QED BY <1>1, <1>6, <2>1, <2>4, <3>1
  <2> QED BY <2>3, <2>4, <2>5, <2>6, <2>7 DEF Rid, NoTwoFree
<1>8. CASE right /\ ~left
  <2> DEFINE d == MergeRight(b, h)
             C == B \ {n}
             m == b[n].next
  <2>1. /\ Linked(d, C) /\ Forward(d) /\ n \in B /\ h \in C
        /\ \A g \in C : d[g].used = b[g].used /\ (g # h => d[g].size = b[g].size /\ d[g].next = b[g].next)
        /\ d[h].next = m
    <3>1. Merged(b, B, h, n, d)
      BY <1>1, <1>8, MergeLinked
    <3> HIDE DEF d
    <3> QED BY <3>1 DEF Merged
  <2>2. Freed(b0, h) = d
    BY <1>2, <1>8
  <2> HIDE DEF d
  <2>3. ASSUME NEW g \in C PROVE Bounded(d, g)
    <3>1. d[g].next # 0 => d[g].next \in C
      BY <2>1, InListIs
    <3>2. CASE g = h
      <4>1. ~b0[n].used
        BY <1>1, <1>4, <1>6, <1>8
      <4>2. m # 0 => b0[m].used /\ m # h
        <5>1. m # 0 => b[m].prev = n
          BY <1>5, <2>1
        <5>2. n # p
          BY <1>8
        <5> QED BY <1>5, <2>1, <4>1, <5>1, <5>2
      <4>3. m # 0 => d[m].used
        BY <1>1, <1>6, <2>1, <3>1, <3>2, <4>2
      <4> QED BY <2>1, <3>2, <4>3 DEF Bounded
    <3>3. CASE g # h
      <4>1. d[g].next = b[g].next /\ d[g].used = b0[g].used
        BY <1>1, <1>6, <2>1, <3>3
      <4>2. CASE b[g].next = h
        <5>1. g = p /\ p # 0
          <6>1. h # 0 /\ g # 0
            BY <1>3, Sizes
          <6> QED BY <1>5, <4>2, <6>1
        <5> QED BY <1>8, <2>1, <5>1 DEF Bounded
      <4>3. CASE b[g].next # h
        <5>1. b[g].next # 0 => d[b[g].next].used = b0[b[g].next].used
          BY <1>1, <1>6, <2>1, <3>1, <4>1, <4>3
        <5> QED BY <1>5, <4>1, <5>1 DEF Bounded
      <4> QED BY <4>2, <4>3
    <3> QED BY <3>2, <3>3
  <2>4. \A g \in B : (g \in C /\ d[g].used) <=> (b0[g].used /\ g # h)
    <3>1. ~b0[n].used
      BY <1>1, <1>4, <1>6, <1>8
    <3> QED BY <1>1, <1>6, <2>1, <3>1
  <2>5. \A g \in C : d[g].used => d[g].size = b0[g].size
    <3>1. ~d[h].used
      BY <1>1, <2>1
    <3> QED BY <1>1, <1>6, <2>1, <3>1
  <2> QED BY <2>1, <2>2, <2>3, <2>4, <2>5 DEF Rid, NoTwoFree
<1>9. CASE left /\ ~right
  <2> DEFINE d == MergeRight(b, p)
             C == B \ {h}
  <2>1. p \in B /\ p # h /\ b[p].next = h /\ h # 0
    BY <1>3, <1>4, <1>9, Sizes
  <2>2. /\ Linked(d, C) /\ Forward(d) /\ p \in C
        /\ \A g \in C : d[g].used = b[g].used /\ (g # p => d[g].size = b[g].size /\ d[g].next = b[g].next)
        /\ d[p].next = n
    <3>1. Merged(b, B, p, h, d)
      <4> HIDE DEF p
      <4> QED BY <1>1, <2>1, MergeLinked
    <3> HIDE DEF d
    <3> QED BY <3>1 DEF Merged
  <2>3. Freed(b0, h) = d
    BY <1>2, <1>9 DEF MergeLeft
  <2> HIDE DEF d
  <2>4. ASSUME NEW g \in C PROVE Bounded(d, g)
    <3>1. d[g].next # 0 => d[g].next \in C
      BY <2>2, InListIs
    <3>2. \A k \in C : d[k].used = b0[k].used /\ d[k].used = b[k].used
      BY <1>1, <1>6, <2>2
    <3>3. CASE g = p
      BY <1>9, <2>2, <3>1, <3>2, <3>3 DEF Bounded
    <3>4. CASE g # p
      BY <1>5, <2>2, <3>1, <3>2, <3>4 DEF Bounded
    <3> QED BY <3>3, <3>4
  <2>5. \A g \in B : (g \in C /\ d[g].used) <=> (b0[g].used /\ g # h)
    BY <1>1, <1>6, <2>2
  <2>6. \A g \in C : d[g].used => d[g].size = b0[g].size
    <3>1. ~d[p].used
      BY <1>9, <2>2
    <3> QED BY <1>1, <1>6, <2>2, <3>1
  <2> QED BY <2>2, <2>3, <2>4, <2>5, <2>6 DEF Rid, NoTwoFree
<1>10. CASE ~right /\ ~left
  <2>1. ASSUME NEW g \in B PROVE Bounded(b, g)
    <3>1. CASE g = h
      BY <1>10, <3>1 DEF Bounded
    <3>2. CASE b[g].next = h
      <4>1. h # 0 /\ g # 0
        BY <1>3, Sizes
      <4> QED BY <1>5, <1>10, <3>2, <4>1 DEF Bounded
    <3>3. CASE g # h /\ b[g].next # h
      <4>1. b[g].used = b0[g].used /\ (b[g].next # 0 => b[b[g].next].used = b0[b[g].next].used)
        BY <1>1, <1>5, <1>6, <3>3
      <4> QED BY <1>5, <4>1 DEF Bounded
    <3> QED BY <3>1, <3>2, <3>3
  <2> QED BY <1>1, <1>2, <1>6, <1>10, <2>1 DEF Rid, NoTwoFree
<1> QED BY <1>7, <1>8, <1>9, <1>10
-----------------------------------------------------------------------------
(* The invariant.  Each block held is a used block of the list, each used  *)
(* block of the list is held, and by one tag, whose writing is in it.      *)
Has(a, t) == a[t] # NoBlock
HeaderOf(a, t) == a[t].addr - H
Owned(b, a, B) ==
  /\ \A t \in Tags : Has(a, t) =>
       HeaderOf(a, t) \in B /\ b[HeaderOf(a, t)].used /\ b[HeaderOf(a, t)].size = a[t].size
  /\ \A g \in B : b[g].used => \E t \in Tags : Has(a, t) /\ HeaderOf(a, t) = g
  /\ \A s, t \in Tags : Has(a, s) /\ Has(a, t) /\ HeaderOf(a, s) = HeaderOf(a, t) => s = t
InTheirs(m, a) == \A t \in Tags : Has(a, t) => \A c \in Payload(a[t]) : m[c] = t
Sane(b, a, m, B) == Linked(b, B) /\ NoTwoFree(b, B) /\ Owned(b, a, B) /\ InTheirs(m, a)
HeldOK == held \in [Tags -> [addr : Cells, size : Requests] \cup {NoBlock}]
HeapInv ==
  /\ HeapTypeOK /\ HeldOK /\ Forward(blk)
  /\ area => \E B : Sane(blk, held, mem, B)
  /\ ~area => \A t \in Tags : ~Has(held, t)

(* The requests whose sum with a header does not wrap, or that ALIGNED     *)
(* has already overflowed.                                                 *)
Tame == \A u \in Requests : u = Word \/ u + H < Word

LEMMA WrittenIs ==
  ASSUME NEW V, NEW m \in [Cells -> V], NEW S, NEW v \in V
  PROVE  /\ Written(m, S, v) \in [Cells -> V]
         /\ \A c \in Cells : Written(m, S, v)[c] = IF c \in S THEN v ELSE m[c]
BY DEF Written

WroteTwice(n, V, m, S, v, T, w) ==
  n \in [Cells -> V] /\ \A c \in Cells : n[c] = IF c \in T THEN w ELSE IF c \in S THEN v ELSE m[c]

LEMMA WrittenTwice ==
  ASSUME NEW V, NEW m \in [Cells -> V], NEW S, NEW v \in V, NEW T, NEW w \in V
  PROVE  WroteTwice(Written(Written(m, S, v), T, w), V, m, S, v, T, w)
BY DEF Written, WroteTwice

(* Two blocks of the list do not overlap.                                  *)
LEMMA Apart ==
  ASSUME NEW b, NEW B, Linked(b, B), Forward(b), NEW g \in B, NEW h \in B, g # h
  PROVE  g + H + b[g].size <= h \/ h + H + b[h].size <= g
<1>1. g \in Nat /\ h \in Nat
  BY InListIs
<1>2. CASE g < h
  BY <1>1, <1>2, InListIs
<1>3. CASE g > h
  BY <1>1, <1>3, InListIs
<1> QED BY <1>1, <1>2, <1>3

(* What the program holds, with the numbers it is about.                   *)
LEMMA HeldIs ==
  ASSUME NEW b, NEW B, Linked(b, B), Forward(b), NEW a, Owned(b, a, B),
         a \in [Tags -> [addr : Cells, size : Requests] \cup {NoBlock}],
         NEW t \in Tags, Has(a, t)
  PROVE  LET g == HeaderOf(a, t)
         IN /\ g \in B /\ g \in Nat /\ g >= 1 /\ b[g].used /\ b[g].size = a[t].size
            /\ a[t].addr \in Cells /\ a[t].addr \in Nat /\ a[t].size \in Requests /\ a[t].size \in Nat
            /\ a[t].addr = g + H /\ g + H + a[t].size <= HeapSize
            /\ Payload(a[t]) = g + H .. g + H + a[t].size - 1
<1>1. a[t] \in [addr : Cells, size : Requests]
  BY DEF Has
<1>2. a[t].addr \in Cells /\ a[t].size \in Requests
  BY <1>1
<1>3. HeaderOf(a, t) \in B /\ b[HeaderOf(a, t)].used /\ b[HeaderOf(a, t)].size = a[t].size
  BY DEF Owned
<1>4. a[t].addr \in Nat /\ a[t].size \in Nat /\ a[t].addr = HeaderOf(a, t) + H
  <2>1. ASSUME NEW x \in Cells, NEW u \in Requests PROVE x \in Nat /\ u \in Nat /\ x = x - H + H
    BY Sizes
  <2> QED BY <1>2, <2>1 DEF HeaderOf
<1> DEFINE g == HeaderOf(a, t)
<1>5. g \in Nat /\ g >= 1 /\ g + H + b[g].size <= HeapSize
  BY <1>3, InListIs
<1> HIDE DEF g
<1>6. Payload(a[t]) = g + H .. g + H + a[t].size - 1
  BY <1>4 DEF Payload, g
<1> QED BY <1>2, <1>3, <1>4, <1>5, <1>6 DEF g

LEMMA StartsTrue == Init => HeapInv
<1> SUFFICES ASSUME Init PROVE HeapInv
  OBVIOUS
<1>1. blk \in [Cells -> Headers]
  BY Sizes DEF Init, Headers
<1>2. mem \in [Cells -> Tags \cup {"header", "junk"}]
  BY DEF Init
<1>3. result \in [addr : Cells \cup {0}, ior : {0, NoMemory}]
  BY DEF Init
<1>4. Forward(blk)
  BY DEF Init, Forward
<1>5. HeldOK /\ \A t \in Tags : held[t] = NoBlock
  BY DEF Init, HeldOK
<1> QED BY <1>1, <1>2, <1>3, <1>4, <1>5 DEF Init, HeapInv, HeapTypeOK, Has

LEMMA StartedTrue == HeapInv /\ INIT_ALLOCATION_AREA => HeapInv'
<1> SUFFICES ASSUME HeapInv, INIT_ALLOCATION_AREA PROVE HeapInv'
  OBVIOUS
<1> DEFINE first == [size |-> HeapSize - Base - H, used |-> FALSE, prev |-> 0, next |-> 0]
<1>1. first \in Headers /\ Base \in Cells /\ Base + H + first.size = HeapSize
  BY Sizes DEF Headers
<1>2. blk \in [Cells -> Headers] /\ blk' = [blk EXCEPT ![Base] = first]
  BY DEF HeapInv, HeapTypeOK, INIT_ALLOCATION_AREA
<1>3. blk' \in [Cells -> Headers]
  BY <1>1, <1>2
<1>4. blk'[Base] = first
  BY <1>1, <1>2
<1> HIDE DEF first
<1>5. first.next = 0 /\ first.prev = 0 /\ first.used = FALSE
  BY DEF first
<1>6. Forward(blk')
  BY <1>1, <1>2, <1>4, <1>5 DEF HeapInv, Forward
<1>7. InList(blk', {Base}, Base)
  BY <1>1, <1>4, <1>5, Sizes DEF InList, End
<1>8. Linked(blk', {Base})
  BY <1>1, <1>3, <1>4, <1>5, <1>7 DEF Linked
<1>9. NoTwoFree(blk', {Base})
  BY <1>4, <1>5 DEF NoTwoFree, Bounded
<1>10. held' \in [Tags -> [addr : Cells, size : Requests] \cup {NoBlock}] /\ \A t \in Tags : ~Has(held', t)
  BY DEF INIT_ALLOCATION_AREA, Has
<1>11. Sane(blk', held', mem', {Base})
  BY <1>4, <1>5, <1>8, <1>9, <1>10 DEF Sane, Owned, InTheirs
<1>12. mem' \in [Cells -> Tags \cup {"header", "junk"}]
  BY WrittenIs DEF HeapInv, HeapTypeOK, INIT_ALLOCATION_AREA
<1>13. HeapTypeOK'
  BY <1>3, <1>10, <1>12 DEF HeapInv, HeapTypeOK, INIT_ALLOCATION_AREA, Has
<1> QED BY <1>6, <1>10, <1>11, <1>13 DEF HeapInv, HeldOK, INIT_ALLOCATION_AREA

Holdings == [Tags -> [addr : Cells, size : Requests] \cup {NoBlock}]

LEMMA NoBlockIs ==
  ASSUME NEW x \in [addr : Cells, size : Requests]
  PROVE  x # NoBlock
<1>1. x \in [addr : Nat, size : Requests]
  BY Sizes
<1> QED BY <1>1, HeapAssumption

(* A free block and what the program holds lie apart. *)
LEMMA Aside ==
  ASSUME NEW b, NEW B, Linked(b, B), Forward(b), NEW a \in Holdings, Owned(b, a, B),
         NEW h \in B, ~b[h].used, NEW t \in Tags, Has(a, t), NEW c \in Payload(a[t])
  PROVE  c \in Cells /\ (c < h \/ c >= h + H + b[h].size)
<1> DEFINE g == HeaderOf(a, t)
<1>1. /\ g \in B /\ g \in Nat /\ g >= 1 /\ b[g].used /\ b[g].size = a[t].size /\ a[t].size \in Nat
      /\ g + H + a[t].size <= HeapSize
      /\ c \in g + H .. g + H + a[t].size - 1
  BY HeldIs DEF Holdings
<1>2. g # h
  BY <1>1
<1>3. g + H + b[g].size <= h \/ h + H + b[h].size <= g
  BY <1>1, <1>2, Apart
<1>4. h \in Nat /\ b[h].size \in Nat
  BY InListIs
<1>5. ASSUME NEW x \in Nat, NEW n \in Nat, x >= 1, x + H + n <= HeapSize, NEW y \in x + H .. x + H + n - 1,
             NEW e \in Nat, x + H + n <= h \/ e <= x
      PROVE  y \in Cells /\ (y < h \/ y >= e)
  BY <1>4, <1>5, Sizes
<1> HIDE DEF g
<1>6. h + H + b[h].size \in Nat
  BY <1>4, Sizes
<1> QED BY <1>1, <1>3, <1>5, <1>6

(* The block split off is held by the tag it is for.                       *)
LEMMA SplitOwned ==
  ASSUME NEW b, NEW B, Linked(b, B), Forward(b), NEW a \in Holdings, Owned(b, a, B),
         NEW u \in Requests, u \in Nat, NEW h \in B, Fitting(b, h, u), NEW t \in Tags, ~Has(a, t),
         NEW d, d = [a EXCEPT ![t] = [addr |-> h + H, size |-> u]]
  PROVE  d \in Holdings /\ Owned(Split(b, u, h), d, B \cup {h + u + H})
<1> DEFINE w == h + u + H
           sp == Split(b, u, h)
<1>1. /\ w \in Cells /\ w \notin B /\ w + H < h + H + b[h].size
      /\ sp[h].used /\ sp[h].size = u /\ ~sp[w].used
      /\ \A g \in B : g # h => sp[g].used = b[g].used /\ sp[g].size = b[g].size
  <2>1. IsSplit(b, B, u, h, w, sp)
    BY SplitLinked
  <2> HIDE DEF w, sp
  <2> QED BY <2>1 DEF IsSplit
<1> HIDE DEF sp
<1>2. ~b[h].used /\ h \in Nat /\ b[h].size \in Nat /\ h >= 1
  BY InListIs DEF Fitting
<1>3. h + H \in Cells
  BY <1>1, <1>2, Sizes
<1>4. [addr |-> h + H, size |-> u] \in [addr : Cells, size : Requests]
  BY <1>3
<1>5. d \in Holdings /\ Has(d, t) /\ d[t] = [addr |-> h + H, size |-> u]
  <2>1. d[t] = [addr |-> h + H, size |-> u]
    BY DEF Holdings
  <2> QED BY <1>4, <2>1, NoBlockIs DEF Holdings, Has
<1>6. HeaderOf(d, t) = h /\ d[t].size = u
  <2>1. d[t].addr = h + H /\ d[t].size = u
    BY <1>5
  <2> QED BY <1>2, <2>1, Sizes DEF HeaderOf
<1>7. ASSUME NEW s \in Tags, s # t
      PROVE  /\ Has(d, s) <=> Has(a, s)
             /\ HeaderOf(d, s) = HeaderOf(a, s) /\ d[s].size = a[s].size
             /\ Has(a, s) => /\ HeaderOf(a, s) \in B /\ HeaderOf(a, s) # h /\ b[HeaderOf(a, s)].used
                             /\ b[HeaderOf(a, s)].size = a[s].size
  <2>1. d[s] = a[s]
    BY <1>7 DEF Holdings
  <2> QED BY <1>2, <2>1 DEF Owned, Has, HeaderOf
<1> HIDE DEF w
<1>8. ASSUME NEW s \in Tags, Has(d, s)
      PROVE  HeaderOf(d, s) \in B \cup {w} /\ sp[HeaderOf(d, s)].used /\ sp[HeaderOf(d, s)].size = d[s].size
  <2>1. CASE s = t
    BY <1>1, <1>6, <2>1
  <2>2. CASE s # t
    <3> DEFINE g == HeaderOf(a, s)
    <3>1. HeaderOf(d, s) = g /\ g \in B /\ g # h /\ b[g].used /\ b[g].size = d[s].size
      BY <1>7, <1>8, <2>2
    <3> HIDE DEF g
    <3> QED BY <1>1, <3>1
  <2> QED BY <2>1, <2>2
<1>9. ASSUME NEW g \in B \cup {w}, sp[g].used
      PROVE  \E s \in Tags : Has(d, s) /\ HeaderOf(d, s) = g
  <2>1. CASE g = h
    BY <1>5, <1>6, <2>1
  <2>2. CASE g # h
    <3>1. g \in B /\ b[g].used
      BY <1>1, <1>9, <2>2
    <3>2. PICK s \in Tags : Has(a, s) /\ HeaderOf(a, s) = g
      BY <3>1 DEF Owned
    <3> QED BY <1>7, <3>2
  <2> QED BY <2>1, <2>2
<1>10. ASSUME NEW r \in Tags, NEW s \in Tags, Has(d, r), Has(d, s), HeaderOf(d, r) = HeaderOf(d, s)
       PROVE  r = s
  <2>1. CASE r # t /\ s # t
    BY <1>7, <1>10, <2>1 DEF Owned
  <2>2. CASE r = t \/ s = t
    BY <1>6, <1>7, <1>10, <2>2
  <2> QED BY <2>1, <2>2
<1> QED BY <1>5, <1>8, <1>9, <1>10 DEF Owned, sp, w

(* The block freed is held no longer. *)
LEMMA FreedOwned ==
  ASSUME NEW b, NEW B, NEW a \in Holdings, Owned(b, a, B), NEW t \in Tags, Has(a, t),
         NEW d, NEW C, Rid(b, B, HeaderOf(a, t), d, C),
         NEW e, e = [a EXCEPT ![t] = NoBlock]
  PROVE  e \in Holdings /\ ~Has(e, t) /\ Owned(d, e, C)
<1>1. e \in Holdings /\ e[t] = NoBlock /\ \A s \in Tags : s # t => e[s] = a[s]
  BY DEF Holdings
<1>2. ~Has(e, t)
  BY <1>1 DEF Has
<1>3. ASSUME NEW s \in Tags, Has(e, s)
      PROVE  /\ s # t /\ Has(a, s) /\ HeaderOf(e, s) = HeaderOf(a, s) /\ e[s].size = a[s].size
             /\ HeaderOf(a, s) # HeaderOf(a, t)
  <2>1. s # t /\ e[s] = a[s] /\ Has(a, s)
    BY <1>1, <1>3 DEF Has
  <2> QED BY <2>1 DEF HeaderOf, Owned
<1>4. ASSUME NEW s \in Tags, Has(e, s)
      PROVE  HeaderOf(e, s) \in C /\ d[HeaderOf(e, s)].used /\ d[HeaderOf(e, s)].size = e[s].size
  <2> DEFINE g == HeaderOf(a, s)
  <2>1. HeaderOf(e, s) = g /\ g \in B /\ g # HeaderOf(a, t) /\ b[g].used /\ b[g].size = e[s].size
    BY <1>3, <1>4 DEF Owned
  <2> HIDE DEF g
  <2> QED BY <2>1 DEF Rid
<1>5. ASSUME NEW g \in C, d[g].used
      PROVE  \E s \in Tags : Has(e, s) /\ HeaderOf(e, s) = g
  <2>1. g \in B /\ b[g].used /\ g # HeaderOf(a, t)
    BY <1>5 DEF Rid
  <2>2. PICK s \in Tags : Has(a, s) /\ HeaderOf(a, s) = g
    BY <2>1 DEF Owned
  <2>3. e[s] = a[s]
    BY <1>1, <2>1, <2>2
  <2> QED BY <2>2, <2>3 DEF Has, HeaderOf
<1>6. ASSUME NEW r \in Tags, NEW s \in Tags, Has(e, r), Has(e, s), HeaderOf(e, r) = HeaderOf(e, s)
      PROVE  r = s
  BY <1>3, <1>6 DEF Owned
<1> QED BY <1>1, <1>2, <1>4, <1>5, <1>6 DEF Owned
-----------------------------------------------------------------------------
(* The steps. *)

LEMMA AllocatedTrue ==
  ASSUME Tame, HeapInv, NEW t \in Tags, NEW u \in Requests, ALLOCATE(t, u)
  PROVE  HeapInv'
<1>1. /\ blk \in [Cells -> Headers] /\ held \in Holdings /\ Forward(blk)
      /\ mem \in [Cells -> Tags \cup {"header", "junk"}] /\ u \in Nat /\ area \in BOOLEAN
  BY Sizes DEF HeapInv, HeapTypeOK, HeldOK, Holdings
<1> DEFINE h == Found(blk, u)
           got == [addr |-> h + H, size |-> u]
<1>2. CASE ~(area /\ h # 0)
  <2>1. result' = [addr |-> 0, ior |-> NoMemory] /\ UNCHANGED <<area, blk, mem, held>>
    BY <1>2 DEF ALLOCATE
  <2>2. HeapTypeOK'
    BY <2>1 DEF HeapInv, HeapTypeOK
  <2> QED BY <2>1, <2>2 DEF HeapInv, HeldOK
<1>3. CASE area /\ h # 0
  <2>1. /\ blk' = Split(blk, u, h) /\ area' = area
        /\ mem' = Written(Written(mem, SplitHeader(blk, u, h), "header"), Payload(got), t)
        /\ held' = [held EXCEPT ![t] = got]
        /\ result' = [addr |-> got.addr, ior |-> 0]
        /\ ~Has(held, t)
    BY <1>3 DEF ALLOCATE, Has
  <2>2. PICK B : Sane(blk, held, mem, B)
    BY <1>3 DEF HeapInv
  <2>3. Linked(blk, B) /\ NoTwoFree(blk, B) /\ Owned(blk, held, B) /\ InTheirs(mem, held)
    BY <2>2 DEF Sane
  <2>4. h \in B /\ Fitting(blk, h, u)
    <3>1. h = FIND_FREE_AREA(blk, u) /\ u # Word
      BY <1>3 DEF Found
    <3>2. u + H < Word
      BY <3>1 DEF Tame
    <3> HIDE DEF h
    <3> QED BY <1>1, <1>3, <2>3, <3>1, <3>2, FindIs
  <2> HIDE DEF h
  <2> DEFINE w == h + u + H
             d == Split(blk, u, h)
             e == [held EXCEPT ![t] = got]
             C == B \cup {w}
  <2>5. IsSplit(blk, B, u, h, w, d)
    BY <1>1, <2>3, <2>4, SplitLinked
  <2>6. e \in Holdings /\ Owned(d, e, C)
    BY <1>1, <2>1, <2>3, <2>4, SplitOwned
  <2>7. h \in Nat /\ h >= 1 /\ blk[h].size \in Nat /\ ~blk[h].used
    BY <1>1, <2>3, <2>4, InListIs DEF Fitting
  <2>8. Payload(got) = h + H .. h + H + u - 1
    BY DEF Payload
  <2> HIDE DEF d, C
  <2>9. /\ w \in Cells /\ w \in Nat /\ w + H < h + H + blk[h].size
        /\ Linked(d, C) /\ Forward(d) /\ NoTwoFree(d, C)
        /\ SplitHeader(blk, u, h) = w .. w + H - 1
    <3>1. \A c \in Cells : c \in Nat
      BY Sizes
    <3> HIDE DEF w
    <3> QED BY <2>3, <2>5, <3>1 DEF IsSplit, HeaderCells, C
  <2>10. /\ mem' \in [Cells -> Tags \cup {"header", "junk"}]
         /\ \A c \in Cells : mem'[c] = IF c \in Payload(got) THEN t
                                       ELSE IF c \in SplitHeader(blk, u, h) THEN "header" ELSE mem[c]
    <3> DEFINE V == Tags \cup {"header", "junk"}
    <3>1. t \in V /\ "header" \in V /\ mem \in [Cells -> V]
      BY <1>1
    <3> HIDE DEF V, got
    <3>2. WroteTwice(mem', V, mem, SplitHeader(blk, u, h), "header", Payload(got), t)
      BY <2>1, <3>1, WrittenTwice
    <3> QED BY <3>2 DEF V, WroteTwice
  <2>11. ASSUME NEW s \in Tags, Has(e, s), NEW c \in Payload(e[s])
         PROVE  mem'[c] = s
    <3>1. CASE s = t
      <4>1. e[s] = got
        BY <1>1, <3>1 DEF Holdings
      <4>2. c \in Payload(got)
        BY <2>11, <4>1
      <4>3. c \in Cells
        <5> HIDE DEF w
        <5>1. w = h + u + H
          BY DEF w
        <5> QED BY <1>1, <2>7, <2>8, <2>9, <4>2, <5>1, Sizes
      <4> QED BY <2>10, <3>1, <4>2, <4>3
    <3>2. CASE s # t
      <4>1. Has(held, s) /\ c \in Payload(held[s])
        BY <1>1, <2>11, <3>2 DEF Holdings, Has
      <4>2. c \in Cells /\ (c < h \/ c >= h + H + blk[h].size)
        BY <1>1, <2>3, <2>4, <2>7, <4>1, Aside
      <4>3. mem[c] = s
        BY <2>3, <4>1 DEF InTheirs
      <4>4. c \notin Payload(got) /\ c \notin SplitHeader(blk, u, h)
        <5>1. ASSUME NEW x \in Nat, NEW y \in Nat, x + u + H + H < x + H + y, c < x \/ c >= x + H + y
              PROVE  c \notin x + H .. x + H + u - 1 /\ c \notin x + u + H .. x + u + H + H - 1
          BY <1>1, <4>2, <5>1, Sizes
        <5> QED BY <2>7, <2>8, <2>9, <4>2, <5>1 DEF w
      <4> QED BY <2>10, <4>2, <4>3, <4>4
    <3> QED BY <3>1, <3>2
  <2>12. Sane(d, e, mem', C)
    BY <2>6, <2>9, <2>11 DEF Sane, InTheirs
  <2>13. result' \in [addr : Cells \cup {0}, ior : {0, NoMemory}]
    <3>1. h + H \in Cells
      <4> HIDE DEF w
      <4>1. w = h + u + H
        BY DEF w
      <4> QED BY <1>1, <2>7, <2>9, <4>1, Sizes
    <3> QED BY <2>1, <3>1
  <2> HIDE DEF e
  <2>14. blk' = d /\ held' = e /\ area' = area
    BY <2>1 DEF d, e
  <2>15. blk' \in [Cells -> Headers]
    BY <2>9, <2>14 DEF Linked
  <2>16. \A s \in Tags : held'[s] # NoBlock => held'[s] \in [addr : Cells, size : Requests]
    BY <2>6, <2>14 DEF Holdings
  <2>17. HeapTypeOK'
    BY <1>1, <2>10, <2>13, <2>14, <2>15, <2>16 DEF HeapTypeOK
  <2> QED BY <1>3, <2>6, <2>9, <2>12, <2>14, <2>17 DEF HeapInv, HeldOK, Holdings
<1> QED BY <1>2, <1>3

(* What is held is in a list of blocks. *)
LEMMA HeldInArea ==
  ASSUME HeapInv, NEW t \in Tags, held[t] # NoBlock
  PROVE  area /\ Has(held, t) /\ \E B : Sane(blk, held, mem, B)
BY DEF HeapInv, Has

LEMMA FreedTrue ==
  ASSUME HeapInv, NEW t \in Tags, FREE(t)
  PROVE  HeapInv'
<1>1. /\ blk \in [Cells -> Headers] /\ held \in Holdings /\ Forward(blk)
      /\ mem \in [Cells -> Tags \cup {"header", "junk"}] /\ area \in BOOLEAN
  BY Sizes DEF HeapInv, HeapTypeOK, HeldOK, Holdings
<1> DEFINE h == HeaderOf(held, t)
           d == Freed(blk, h)
           e == [held EXCEPT ![t] = NoBlock]
<1>2. /\ held[t] # NoBlock /\ blk' = d /\ held' = e /\ UNCHANGED <<area, mem>>
      /\ result' = [addr |-> 0, ior |-> 0]
  BY DEF FREE, HeaderOf
<1>3. area /\ Has(held, t)
  BY <1>2, HeldInArea
<1>4. PICK B : Sane(blk, held, mem, B)
  BY <1>2, HeldInArea
<1>5. Linked(blk, B) /\ NoTwoFree(blk, B) /\ Owned(blk, held, B) /\ InTheirs(mem, held)
  BY <1>4 DEF Sane
<1>6. h \in B /\ blk[h].used
  BY <1>3, <1>5 DEF Owned
<1> HIDE DEF d, h
<1>7. PICK C : Rid(blk, B, h, d, C)
  BY <1>1, <1>5, <1>6, FreedIs DEF d
<1>8. e \in Holdings /\ ~Has(e, t) /\ Owned(d, e, C)
  BY <1>1, <1>3, <1>5, <1>7, FreedOwned DEF h
<1>9. InTheirs(mem, e)
  BY <1>1, <1>5, <1>8 DEF InTheirs, Holdings, Has
<1> HIDE DEF e
<1>10. Sane(d, e, mem, C) /\ Forward(d) /\ d \in [Cells -> Headers]
  BY <1>7, <1>8, <1>9 DEF Sane, Rid, Linked
<1>11. HeapTypeOK'
  BY <1>1, <1>2, <1>8, <1>10 DEF HeapTypeOK, Holdings
<1> QED BY <1>2, <1>3, <1>8, <1>10, <1>11 DEF HeapInv, HeldOK, Holdings

(* A block resized in place is not moved. *)
LEMMA MovedInPlace ==
  ASSUME NEW V, NEW m \in [Cells -> V], NEW x \in Nat, NEW u \in Nat
  PROVE  Moved(m, x, x, u) = m
<1>1. \A c \in Cells : x + c - x = c
  BY Sizes
<1>2. Moved(m, x, x, u) = [c \in Cells |-> m[c]]
  BY <1>1 DEF Moved
<1> QED BY <1>2

LEMMA ResizedTrue ==
  ASSUME Tame, AnyResize = FALSE, HeapInv, NEW t \in Tags, NEW u \in Requests, RESIZE(t, u)
  PROVE  HeapInv'
<1> DEFINE g == HeaderOf(held, t)
           freed == Freed(blk, g)
           h == Found(freed, u)
           d == Split(freed, u, h)
           old == held[t]
           gained == (old.addr + old.size) .. (old.addr + u - 1)
           split == Written(mem, SplitHeader(freed, u, h), "header")
           e0 == [held EXCEPT ![t] = NoBlock]
           got == [addr |-> h + H, size |-> u]
           e == [e0 EXCEPT ![t] = got]
           w == h + u + H
<1>1. /\ blk \in [Cells -> Headers] /\ held \in Holdings /\ Forward(blk)
      /\ mem \in [Cells -> Tags \cup {"header", "junk"}] /\ area \in BOOLEAN /\ u \in Nat
  BY Sizes DEF HeapInv, HeapTypeOK, HeldOK, Holdings
<1>2. held[t] # NoBlock
  BY DEF RESIZE
<1>3. area /\ Has(held, t)
  BY <1>2, HeldInArea
<1>4. PICK B : Sane(blk, held, mem, B)
  BY <1>2, HeldInArea
<1>5. Linked(blk, B) /\ NoTwoFree(blk, B) /\ Owned(blk, held, B) /\ InTheirs(mem, held)
  BY <1>4 DEF Sane
<1>6. /\ g \in B /\ g \in Nat /\ g >= 1 /\ blk[g].used /\ blk[g].size = old.size /\ old.size \in Nat
      /\ old.addr \in Cells /\ old.addr \in Nat /\ old.addr = g + H /\ g + H + old.size <= HeapSize
      /\ Payload(old) = g + H .. g + H + old.size - 1 /\ old.size \in Requests
  BY <1>1, <1>3, <1>5, HeldIs DEF Holdings
<1>7. /\ area' = area /\ h + H = old.addr
      /\ h # 0 => /\ blk' = d
                  /\ mem' = Written(Moved(split, old.addr, h + H, u), gained, t)
                  /\ held' = [held EXCEPT ![t].size = u]
                  /\ result' = [addr |-> old.addr, ior |-> 0]
  BY DEF RESIZE, HeaderOf
<1> HIDE DEF g, h, freed, d, old, gained, split, e0
<1>8. PICK C : Rid(blk, B, g, freed, C)
  BY <1>1, <1>5, <1>6, FreedIs DEF freed
<1>9. e0 \in Holdings /\ ~Has(e0, t) /\ Owned(freed, e0, C)
  BY <1>1, <1>3, <1>5, <1>8, FreedOwned DEF g, e0
<1>10. Linked(freed, C) /\ Forward(freed) /\ NoTwoFree(freed, C)
  BY <1>8 DEF Rid
<1>11. h \in C /\ Fitting(freed, h, u)
  <2>1. h # 0
    <3>1. h = 0 => old.addr = H
      BY <1>7, Sizes
    <3> QED BY <1>6, <3>1, Sizes
  <2>2. u # Word /\ h = FIND_FREE_AREA(freed, u)
    BY <2>1 DEF Found, h
  <2>3. u + H < Word
    BY <2>2 DEF Tame
  <2> QED BY <1>1, <1>10, <2>1, <2>2, <2>3, FindIs
<1>12. h \in Nat /\ h >= 1 /\ h = g /\ h # 0 /\ ~freed[h].used /\ freed[h].size \in Nat
  <2>1. h \in Nat /\ h >= 1 /\ ~freed[h].used /\ freed[h].size \in Nat
    BY <1>10, <1>11, InListIs DEF Fitting
  <2>2. h + H = g + H
    BY <1>6, <1>7
  <2> QED BY <1>6, <2>1, <2>2, Sizes
<1>13. IsSplit(freed, C, u, h, w, d)
  BY <1>1, <1>10, <1>11, SplitLinked DEF d
<1>14. e \in Holdings /\ Owned(d, e, C \cup {w})
  BY <1>1, <1>9, <1>10, <1>11, SplitOwned DEF d
<1>15. held' = e
  <2>1. held[t] \in [addr : Cells, size : Requests]
    BY <1>1, <1>2 DEF Holdings
  <2>2. [held[t] EXCEPT !.size = u] = got
    <3>1. held[t].addr = h + H
      BY <1>7 DEF old
    <3> QED BY <2>1, <3>1
  <2> HIDE DEF got
  <2>3. held' = [held EXCEPT ![t] = got]
    BY <1>7, <1>12, <2>2
  <2> QED BY <1>1, <2>3 DEF e0, Holdings
<1>16. /\ w \in Cells /\ w \in Nat /\ w + H < h + H + freed[h].size
       /\ Linked(d, C \cup {w}) /\ Forward(d) /\ NoTwoFree(d, C \cup {w})
       /\ SplitHeader(freed, u, h) = w .. w + H - 1
  <2>1. \A c \in Cells : c \in Nat
    BY Sizes
  <2> HIDE DEF w
  <2> QED BY <1>10, <1>13, <2>1 DEF IsSplit, HeaderCells
<1>17. /\ mem' \in [Cells -> Tags \cup {"header", "junk"}]
       /\ \A c \in Cells : mem'[c] = IF c \in gained THEN t
                                     ELSE IF c \in SplitHeader(freed, u, h) THEN "header" ELSE mem[c]
  <2> DEFINE V == Tags \cup {"header", "junk"}
  <2>1. t \in V /\ "header" \in V /\ mem \in [Cells -> V]
    BY <1>1
  <2> HIDE DEF V
  <2>2. split \in [Cells -> V]
    BY <2>1 DEF Written, split
  <2>3. Moved(split, old.addr, h + H, u) = split
    BY <1>1, <1>6, <1>7, <2>2, MovedInPlace
  <2>4. mem' = Written(Written(mem, SplitHeader(freed, u, h), "header"), gained, t)
    BY <1>7, <1>12, <2>3 DEF split
  <2>5. WroteTwice(mem', V, mem, SplitHeader(freed, u, h), "header", gained, t)
    BY <2>1, <2>4, WrittenTwice
  <2> QED BY <2>5 DEF V, WroteTwice
<1>18. gained = h + H + old.size .. h + H + u - 1 /\ Payload(got) = h + H .. h + H + u - 1
  BY <1>7 DEF gained, Payload
<1>19. ASSUME NEW s \in Tags, Has(e, s), NEW c \in Payload(e[s])
       PROVE  mem'[c] = s
  <2>1. CASE s = t
    <3>1. e[s] = got
      BY <1>9, <2>1 DEF Holdings
    <3>2. c \in h + H .. h + H + u - 1
      BY <1>18, <1>19, <3>1
    <3>3. ASSUME NEW x \in Nat, NEW y \in Nat, x >= 1, x + u + H \in Cells, c \in x + H .. x + H + u - 1
          PROVE  /\ c \in Cells /\ c \notin x + u + H .. x + u + H + H - 1
                 /\ c \in x + H .. x + H + y - 1 \/ c \in x + H + y .. x + H + u - 1
      BY <1>1, <3>3, Sizes
    <3>4. /\ c \in Cells /\ c \notin SplitHeader(freed, u, h)
          /\ c \in Payload(old) \/ c \in gained
      BY <1>6, <1>12, <1>16, <1>18, <3>2, <3>3 DEF w
    <3>5. c \in Payload(old) => mem[c] = t
      BY <1>3, <1>5 DEF InTheirs, old
    <3> QED BY <1>17, <2>1, <3>4, <3>5
  <2>2. CASE s # t
    <3>1. e[s] = e0[s] /\ e0[s] = held[s]
      BY <1>1, <1>9, <2>2 DEF Holdings, e0
    <3>2. Has(e0, s) /\ Has(held, s) /\ c \in Payload(e0[s]) /\ c \in Payload(held[s])
      BY <1>19, <3>1 DEF Has
    <3>3. c \in Cells /\ (c < h \/ c >= h + H + freed[h].size)
      BY <1>9, <1>10, <1>11, <1>12, <3>2, Aside
    <3>4. mem[c] = s
      BY <1>5, <3>2 DEF InTheirs
    <3>5. c \notin gained /\ c \notin SplitHeader(freed, u, h)
      <4>1. ASSUME NEW x \in Nat, NEW y \in Nat, NEW z \in Nat, x + u + H + H < x + H + y, c < x \/ c >= x + H + y
            PROVE  c \notin x + H + z .. x + H + u - 1 /\ c \notin x + u + H .. x + u + H + H - 1
        <5>1. c \in Nat
          BY <3>3, Sizes
        <5>2. CASE c < x
          BY <1>1, <5>1, <5>2, Sizes
        <5>3. CASE c >= x + H + y
          <6>1. c > x + u + H + H - 1
            BY <1>1, <4>1, <5>1, <5>3, Sizes
          <6>2. c > x + H + u - 1
            BY <1>1, <5>1, <6>1, Sizes
          <6> QED BY <1>1, <5>1, <6>1, <6>2, Sizes
        <5> QED BY <4>1, <5>2, <5>3
      <4> QED BY <1>6, <1>12, <1>16, <1>18, <3>3, <4>1 DEF w
    <3> QED BY <1>17, <3>3, <3>4, <3>5
  <2> QED BY <2>1, <2>2
<1> HIDE DEF e, w
<1>20. Sane(d, e, mem', C \cup {w})
  BY <1>14, <1>16, <1>19 DEF Sane, InTheirs
<1>21. blk' = d /\ result' = [addr |-> old.addr, ior |-> 0]
  BY <1>7, <1>12
<1>22. \A s \in Tags : held'[s] # NoBlock => held'[s] \in [addr : Cells, size : Requests]
  BY <1>14, <1>15 DEF Holdings
<1>23. result' \in [addr : Cells \cup {0}, ior : {0, NoMemory}]
  BY <1>6, <1>21
<1>24. HeapTypeOK'
  BY <1>1, <1>7, <1>16, <1>17, <1>21, <1>22, <1>23 DEF HeapTypeOK, Linked
<1> QED BY <1>3, <1>7, <1>14, <1>15, <1>16, <1>20, <1>21, <1>24 DEF HeapInv, HeldOK, Holdings

(* The invariant holds in every state of a program that resizes blocks     *)
(* only where they can stay.                                               *)
THEOREM HeapInvariant ==
  ASSUME Tame, AnyResize = FALSE
  PROVE  Spec => []HeapInv
<1>1. Init => HeapInv
  BY StartsTrue
<1>2. HeapInv /\ [Next]_vars => HeapInv'
  <2> SUFFICES ASSUME HeapInv, [Next]_vars PROVE HeapInv'
    OBVIOUS
  <2>1. CASE INIT_ALLOCATION_AREA
    BY <2>1, StartedTrue
  <2>2. ASSUME NEW t \in Tags, NEW u \in Requests, ALLOCATE(t, u) PROVE HeapInv'
    BY <2>2, AllocatedTrue
  <2>3. ASSUME NEW t \in Tags, FREE(t) PROVE HeapInv'
    BY <2>3, FreedTrue
  <2>4. ASSUME NEW t \in Tags, NEW u \in Requests, RESIZE(t, u) PROVE HeapInv'
    BY <2>4, ResizedTrue
  <2>5. CASE UNCHANGED vars
    BY <2>5 DEF vars, HeapInv, HeapTypeOK, HeldOK
  <2> QED BY <2>1, <2>2, <2>3, <2>4, <2>5 DEF Next
<1> QED BY <1>1, <1>2, PTL DEF Spec

(* Each variable keeps to its type.                                        *)
THEOREM HeapTypeCorrect ==
  ASSUME Tame, AnyResize = FALSE
  PROVE  Spec => []HeapTypeOK
<1>1. HeapInv => HeapTypeOK
  BY DEF HeapInv
<1> QED BY <1>1, HeapInvariant, PTL

(* The list covers the area without gap or overlap, is linked both ways,   *)
(* and its used blocks are those the program holds.                        *)
LEMMA SoundIs == HeapInv => ListSound /\ NoFreeNeighbours
<1> SUFFICES ASSUME HeapInv, area PROVE ListSound /\ NoFreeNeighbours
  BY DEF ListSound, NoFreeNeighbours
<1> DEFINE c == Chain(blk)
           end(h) == h + H + blk[h].size
<1>1. PICK B : Sane(blk, held, mem, B)
  BY DEF HeapInv
<1>2. Linked(blk, B) /\ NoTwoFree(blk, B) /\ Owned(blk, held, B) /\ Forward(blk)
  BY <1>1 DEF Sane, HeapInv
<1>3. Walks(c, blk, B) /\ c[1] = Base /\ ToSet(c) = B
  BY <1>2, ChainIs
<1> HIDE DEF c
<1>4. Len(c) \in Nat /\ Len(c) > 0
  BY <1>3, LenProperties DEF Walks
<1>5. ASSUME NEW i \in 1 .. Len(c) - 1
      PROVE  /\ c[i + 1] = end(c[i]) /\ blk[c[i + 1]].prev = c[i]
             /\ blk[c[i]].used \/ blk[c[i + 1]].used
  <2>1. c[i] \in B /\ blk[c[i]].next # 0 /\ c[i + 1] = blk[c[i]].next
    BY <1>3, <1>4 DEF Walks
  <2>2. c[i + 1] = end(c[i]) /\ blk[c[i + 1]].prev = c[i]
    BY <1>2, <2>1, InListIs
  <2> QED BY <1>2, <2>1, <2>2 DEF NoTwoFree, Bounded
<1>6. end(c[Len(c)]) = HeapSize
  <2>1. c[Len(c)] \in B /\ blk[c[Len(c)]].next = 0
    BY <1>3, <1>4 DEF Walks
  <2> QED BY <1>2, <2>1, InListIs
<1>7. UsedBlocks = {held[t].addr - H : t \in {s \in Tags : held[s] # NoBlock}}
  <2>1. UsedBlocks = {h \in B : blk[h].used}
    BY <1>3 DEF UsedBlocks, c
  <2> QED BY <1>2, <2>1 DEF Owned, Has, HeaderOf
<1>8. blk[Base].prev = 0
  BY <1>2 DEF Linked
<1>9. ListSound
  BY <1>5, <1>6, <1>7, <1>8 DEF ListSound, c
<1>10. NoFreeNeighbours
  BY <1>5 DEF NoFreeNeighbours, c
<1> QED BY <1>9, <1>10

THEOREM ListStaysSound ==
  ASSUME Tame, AnyResize = FALSE
  PROVE  Spec => []ListSound
BY SoundIs, HeapInvariant, PTL

(* Of two neighbours one is used: what is freed is merged at once.         *)
THEOREM FreeBlocksMerge ==
  ASSUME Tame, AnyResize = FALSE
  PROVE  Spec => []NoFreeNeighbours
BY SoundIs, HeapInvariant, PTL

LEMMA InvIntact == HeapInv => ContentsIntact
<1> SUFFICES ASSUME HeapInv, NEW t \in Tags, held[t] # NoBlock, NEW c \in Payload(held[t])
             PROVE  c \in Cells /\ mem[c] = t
  BY DEF ContentsIntact
<1>1. PICK B : Sane(blk, held, mem, B)
  BY HeldInArea
<1>2. Has(held, t) /\ held \in Holdings /\ Forward(blk)
  BY DEF Has, HeapInv, HeldOK, Holdings
<1>3. mem[c] = t
  BY <1>1, <1>2 DEF Sane, InTheirs
<1>4. /\ HeaderOf(held, t) \in Nat /\ HeaderOf(held, t) >= 1 /\ held[t].size \in Nat
      /\ HeaderOf(held, t) + H + held[t].size <= HeapSize
      /\ Payload(held[t]) = HeaderOf(held, t) + H .. HeaderOf(held, t) + H + held[t].size - 1
  BY <1>1, <1>2, HeldIs DEF Sane, Holdings
<1>5. c \in Cells
  BY <1>4, Sizes
<1> QED BY <1>3, <1>5

(* What a program wrote into a block it holds stays there, whatever is     *)
(* allocated, resized or freed around it.                                  *)
THEOREM ContentsStay ==
  ASSUME Tame, AnyResize = FALSE
  PROVE  Spec => []ContentsIntact
BY InvIntact, HeapInvariant, PTL

(* A block given to a tag touches no other: a cell has one writing.        *)
LEMMA GivenIs ==
  ASSUME HeldOK', ContentsIntact', held \in Holdings, NEW t \in Tags, NEW b, b # NoBlock,
         held' = [held EXCEPT ![t] = b]
  PROVE  b \in Promise!Block /\ Promise!Fits(b, t)
<1>1. held'[t] = b /\ \A s \in Tags \ {t} : held'[s] = held[s]
  BY DEF Holdings
<1>2. /\ held'[t] \in Promise!Block
      /\ Payload(held'[t]) \subseteq Cells
      /\ \A s \in Tags \ {t} : held'[s] # NoBlock => Payload(held'[t]) \cap Payload(held'[s]) = {}
  <2>1. held'[t] \in [addr : Cells, size : Requests]
    BY <1>1 DEF HeldOK
  <2> QED BY <1>1, <2>1 DEF ContentsIntact, Promise!Block
<1> QED BY <1>1, <1>2 DEF Promise!Fits, Promise!CellsOf, Promise!Holds, Payload

(* The words keep the promise of Allocator: each step is a step of it or   *)
(* changes nothing the program holds.                                      *)
THEOREM PromiseIsKept ==
  ASSUME Tame, AnyResize = FALSE
  PROVE  Spec => ImplementsAllocator
<1>1. Init => Promise!Init
  BY DEF Init, Promise!Init
<1>2. HeapInv /\ HeldOK' /\ ContentsIntact' /\ [Next]_vars => [Promise!Next]_held
  <2> SUFFICES ASSUME HeapInv, HeldOK', ContentsIntact', [Next]_vars PROVE [Promise!Next]_held
    OBVIOUS
  <2>0. held \in Holdings
    BY DEF HeapInv, HeldOK, Holdings
  <2>1. CASE INIT_ALLOCATION_AREA
    BY <2>1 DEF INIT_ALLOCATION_AREA, Promise!Next, Promise!Reset
  <2>2. ASSUME NEW t \in Tags, NEW u \in Requests, ALLOCATE(t, u) PROVE [Promise!Next]_held
    <3> DEFINE b == [addr |-> Found(blk, u) + H, size |-> u]
    <3>1. CASE UNCHANGED held
      BY <3>1
    <3>2. CASE ~UNCHANGED held
      <4>1. held[t] = NoBlock /\ held' = [held EXCEPT ![t] = b]
        BY <2>2, <3>2 DEF ALLOCATE
      <4> HIDE DEF b
      <4>2. b # NoBlock
        BY <2>0, <3>2, <4>1 DEF Holdings
      <4>3. Promise!Allocate(t)
        BY <2>0, <4>1, <4>2, GivenIs DEF Promise!Allocate, Promise!Holds
      <4> QED BY <4>3 DEF Promise!Next
    <3> QED BY <3>1, <3>2
  <2>3. ASSUME NEW t \in Tags, FREE(t) PROVE [Promise!Next]_held
    BY <2>3 DEF FREE, Promise!Next, Promise!Free, Promise!Holds
  <2>4. ASSUME NEW t \in Tags, NEW u \in Requests, RESIZE(t, u) PROVE [Promise!Next]_held
    <3> DEFINE b == [held[t] EXCEPT !.size = u]
    <3>1. CASE UNCHANGED held
      BY <3>1
    <3>2. CASE ~UNCHANGED held
      <4>1. held[t] # NoBlock /\ held' = [held EXCEPT ![t] = b]
        BY <2>4, <3>2 DEF RESIZE
      <4>2. b # NoBlock
        <5>1. held[t] \in [addr : Cells, size : Requests]
          BY <2>0, <4>1 DEF Holdings
        <5>2. b \in [addr : Cells, size : Requests]
          BY <5>1
        <5> QED BY <5>2, NoBlockIs
      <4> HIDE DEF b
      <4>3. Promise!Resize(t)
        BY <2>0, <4>1, <4>2, GivenIs DEF Promise!Resize, Promise!Holds
      <4> QED BY <4>3 DEF Promise!Next
    <3> QED BY <3>1, <3>2
  <2>5. CASE UNCHANGED vars
    BY <2>5 DEF vars
  <2> QED BY <2>1, <2>2, <2>3, <2>4, <2>5 DEF Next
<1>3. HeapInv => HeldOK
  BY DEF HeapInv
<1> QED BY <1>1, <1>2, <1>3, InvIntact, HeapInvariant, PTL DEF Spec, ImplementsAllocator, Promise!Spec

(* A stretch that touches no block held lies in one free block.            *)
LEMMA StretchIs ==
  ASSUME NEW b, NEW B, Linked(b, B), Forward(b), NoTwoFree(b, B),
         NEW a \in Holdings, Owned(b, a, B), NEW i \in Cells, NEW j \in Cells, i <= j,
         \A t \in Tags : Has(a, t) => (a[t].addr - H .. a[t].addr + a[t].size - 1) \cap (i .. j) = {}
  PROVE  \E g \in B : ~b[g].used /\ g <= i /\ j < g + H + b[g].size
<1> DEFINE L == {g \in B : g <= i}
<1>1. B \subseteq Cells /\ 1 \in B /\ i \in Nat /\ j \in Nat /\ i >= 1 /\ j < HeapSize
  BY Sizes DEF Linked
<1>2. L \subseteq 0 .. HeapSize /\ L # {}
  <2>1. \A c \in Cells : c \in 0 .. HeapSize
    BY Sizes
  <2>2. 1 \in L
    BY <1>1
  <2> QED BY <1>1, <2>1, <2>2
<1>3. PICK g \in L : \A k \in L : k <= g
  BY <1>2, Largest, Sizes
<1>4. /\ g \in B /\ g <= i /\ g \in Nat /\ b[g].size \in Nat /\ b[g].used \in BOOLEAN
      /\ b[g].next = 0 => g + H + b[g].size = HeapSize
      /\ b[g].next # 0 => /\ b[g].next \in B /\ b[g].next = g + H + b[g].size
                          /\ b[b[g].next].prev = g
  BY InListIs
<1> DEFINE n == g + H + b[g].size
<1>5. n \in Nat /\ n > g
  BY <1>4, Sizes
<1> HIDE DEF n, L
<1>6. i < n
  <2>1. CASE b[g].next = 0
    BY <1>1, <1>4, <2>1, Sizes DEF n
  <2>2. CASE b[g].next # 0
    <3>1. n \in B /\ ~(n <= g)
      BY <1>4, <1>5, <2>2 DEF n
    <3>2. ~(n <= i)
      BY <1>3, <3>1 DEF L
    <3> QED BY <1>1, <1>5, <3>2
  <2> QED BY <2>1, <2>2
<1>7. ASSUME NEW k \in B, b[k].used, NEW x \in i .. j, k <= x, x < k + H + b[k].size PROVE FALSE
  <2>1. PICK t \in Tags : Has(a, t) /\ HeaderOf(a, t) = k
    BY <1>7 DEF Owned
  <2>2. a[t].addr = k + H /\ a[t].size = b[k].size /\ k \in Nat /\ a[t].size \in Nat
    BY <2>1, HeldIs DEF Holdings
  <2>3. x \in a[t].addr - H .. a[t].addr + a[t].size - 1
    <3>1. ASSUME NEW y \in Nat, NEW z \in Nat, NEW ad, ad = y + H, y <= x, x < y + H + z
          PROVE  x \in ad - H .. ad + z - 1
      BY <1>1, <3>1, Sizes
    <3>2. b[k].size = a[t].size /\ x < k + H + a[t].size
      BY <1>7, <2>2
    <3> QED BY <1>7, <2>2, <3>1, <3>2
  <2> QED BY <2>1, <2>3
<1>8. ~b[g].used
  <2>1. i \in i .. j
    BY <1>1
  <2> QED BY <1>4, <1>6, <1>7, <2>1 DEF n
<1>9. j < n
  <2> SUFFICES ASSUME n <= j PROVE FALSE
    BY <1>1, <1>5
  <2>1. b[g].next # 0
    BY <1>1, <1>4, Sizes DEF n
  <2>2. n \in B /\ b[n].used
    BY <1>4, <1>8, <2>1 DEF NoTwoFree, Bounded, n
  <2>3. n \in i .. j
    BY <1>1, <1>5, <1>6
  <2>4. n < n + H + b[n].size
    <3>1. b[n].size \in Nat
      BY <2>2, InListIs
    <3> QED BY <1>5, <3>1, Sizes
  <2> QED BY <1>5, <1>7, <2>2, <2>3, <2>4
<1> QED BY <1>4, <1>8, <1>9 DEF n

(* ALLOCATE fails only when no stretch between the blocks held has room    *)
(* for the request and two headers.                                        *)
THEOREM FailureMeansNoRoom ==
  ASSUME Tame, AnyResize = FALSE
  PROVE  Spec => FailsOnlyWithoutRoom
<1>1. ASSUME HeapInv, NEW t \in Tags, NEW u \in Requests, ALLOCATE(t, u), area, result'.ior # 0, NEW S \in Stretches
      PROVE  Cardinality(S) <= u + 2 * H
  <2>1. PICK i \in Cells, j \in Cells : S = i .. j
    BY DEF Stretches
  <2>2. i \in Nat /\ j \in Nat /\ i >= 1 /\ j < HeapSize /\ u \in Nat
    BY Sizes
  <2>3. Cardinality(S) = IF i > j THEN 0 ELSE j - i + 1
    BY <2>1, <2>2, FS_Interval
  <2>4. CASE i > j
    BY <2>2, <2>3, <2>4, Sizes
  <2>5. CASE i <= j /\ u = Word
    BY <2>2, <2>3, <2>5, Sizes
  <2>6. CASE i <= j /\ u # Word
    <3>1. Found(blk, u) = 0
      BY <1>1 DEF ALLOCATE
    <3>2. FIND_FREE_AREA(blk, u) = 0 /\ u + H < Word
      BY <2>6, <3>1 DEF Found, Tame
    <3>3. PICK B : Sane(blk, held, mem, B)
      BY <1>1 DEF HeapInv
    <3>4. Linked(blk, B) /\ Forward(blk) /\ NoTwoFree(blk, B) /\ Owned(blk, held, B) /\ held \in Holdings
      BY <1>1, <3>3 DEF Sane, HeapInv, HeldOK, Holdings
    <3>5. \A g \in B : ~Fitting(blk, g, u)
      <4>1. 0 \notin B
        BY <3>4, Sizes DEF Linked
      <4> QED BY <2>2, <3>2, <3>4, <4>1, FindIs
    <3>6. \A s \in Tags : Has(held, s) => (held[s].addr - H .. held[s].addr + held[s].size - 1) \cap (i .. j) = {}
      BY <2>1 DEF Stretches, Has
    <3>7. PICK g \in B : ~blk[g].used /\ g <= i /\ j < g + H + blk[g].size
      BY <2>6, <3>4, <3>6, StretchIs
    <3>8. blk[g].size \in Nat /\ g \in Nat /\ blk[g].size <= u + H
      <4>1. blk[g].size \in Nat /\ g \in Nat
        BY <3>4, InListIs
      <4>2. ~(blk[g].size > u + H)
        BY <3>5, <3>7 DEF Fitting
      <4> QED BY <2>2, <4>1, <4>2, Sizes
    <3> QED BY <2>2, <2>3, <2>6, <3>7, <3>8, Sizes
  <2> QED BY <2>2, <2>4, <2>5, <2>6
<1>2. HeapInv /\ [Next]_vars =>
        [\A t \in Tags, u \in Requests : ALLOCATE(t, u) /\ area /\ result'.ior # 0 =>
           \A S \in Stretches : Cardinality(S) <= u + 2 * H]_vars
  BY <1>1
<1> QED BY <1>2, HeapInvariant, PTL DEF Spec, FailsOnlyWithoutRoom
-----------------------------------------------------------------------------
(* What the promise of Allocator means for a program. *)

(* A block that fits, given to t, touches no other block held. *)
LEMMA FittingKeepsDisjoint ==
  ASSUME Promise!Disjoint, NEW t \in Tags, NEW b, Promise!Fits(b, t),
         \A s \in Tags \ {t} : held'[s] = held[s],
         held'[t] = b
  PROVE  Promise!Disjoint'
<1> SUFFICES ASSUME NEW r \in Tags, NEW s \in Tags, r # s, Promise!Holds(r)', Promise!Holds(s)'
             PROVE  Promise!CellsOf(held'[r]) \cap Promise!CellsOf(held'[s]) = {}
  BY DEF Promise!Disjoint, Promise!CellsOf
<1>1. CASE r = t
  BY <1>1 DEF Promise!Fits, Promise!Holds
<1>2. CASE s = t
  <2>1. Promise!CellsOf(b) \cap Promise!CellsOf(held[r]) = {}
    BY <1>2 DEF Promise!Fits, Promise!Holds
  <2> QED BY <1>2, <2>1
<1>3. CASE r # t /\ s # t
  BY <1>3 DEF Promise!Disjoint, Promise!Holds
<1> QED BY <1>1, <1>2, <1>3

(* A block taken away leaves the others where they are. *)
LEMMA FreeingKeepsDisjoint ==
  ASSUME Promise!Disjoint, NEW t \in Tags,
         \A s \in Tags \ {t} : held'[s] = held[s],
         held'[t] = NoBlock
  PROVE  Promise!Disjoint'
BY DEF Promise!Disjoint, Promise!Holds, Promise!CellsOf

(* A step of the promise keeps the blocks apart, whatever the list is. *)
LEMMA PromiseKeepsDisjoint ==
  ASSUME DOMAIN held = Tags, Promise!Disjoint, [Promise!Next]_held
  PROVE  DOMAIN held' = Tags /\ Promise!Disjoint'
<1>1. CASE UNCHANGED held
  BY <1>1 DEF Promise!Disjoint, Promise!Holds
<1>2. CASE Promise!Reset
  BY <1>2 DEF Promise!Reset, Promise!Disjoint, Promise!Holds
<1>3. ASSUME NEW t \in Tags, Promise!Allocate(t) \/ Promise!Resize(t)
      PROVE  DOMAIN held' = Tags /\ Promise!Disjoint'
  <2>1. PICK b \in Promise!Block : Promise!Fits(b, t) /\ held' = [held EXCEPT ![t] = b]
    BY <1>3 DEF Promise!Allocate, Promise!Resize
  <2>2. held'[t] = b /\ \A s \in Tags \ {t} : held'[s] = held[s]
    BY <2>1
  <2>3. DOMAIN held' = Tags
    BY <2>1
  <2> QED BY <2>1, <2>2, <2>3, FittingKeepsDisjoint
<1>4. ASSUME NEW t \in Tags, Promise!Free(t)
      PROVE  DOMAIN held' = Tags /\ Promise!Disjoint'
  <2>1. held'[t] = NoBlock /\ \A s \in Tags \ {t} : held'[s] = held[s]
    BY <1>4 DEF Promise!Free
  <2>2. DOMAIN held' = Tags
    BY <1>4 DEF Promise!Free
  <2> QED BY <2>1, <2>2, FreeingKeepsDisjoint
<1> QED BY <1>1, <1>2, <1>3, <1>4 DEF Promise!Next

(* Blocks a program holds at the same time share no cell                   *)
(* (example/os2/memory.fth, as far as it keeps the promise).               *)
THEOREM BlocksDisjoint == Promise!Spec => []Promise!Disjoint
<1>1. Promise!Init => DOMAIN held = Tags /\ Promise!Disjoint
  BY DEF Promise!Init, Promise!Disjoint, Promise!Holds
<1>2. DOMAIN held = Tags /\ Promise!Disjoint /\ [Promise!Next]_held => (DOMAIN held = Tags)' /\ Promise!Disjoint'
  BY PromiseKeepsDisjoint
<1> QED BY <1>1, <1>2, PTL DEF Promise!Spec

(* The heap itself never lets two blocks held at the same time share a     *)
(* cell, as long as no request wraps and RESIZE stays in place.            *)
THEOREM HeapBlocksDisjoint ==
  ASSUME Tame, AnyResize = FALSE
  PROVE  Spec => []Promise!Disjoint
<1>1. Spec => Promise!Spec
  BY PromiseIsKept DEF ImplementsAllocator
<1> QED BY <1>1, BlocksDisjoint, PTL
=============================================================================
