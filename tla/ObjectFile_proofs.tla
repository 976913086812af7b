------------------------- MODULE ObjectFile_proofs --------------------------
(***************************************************************************)
(* Theorems about make-elf-writable, for every program that is linked,     *)
(* every layout of the file and every list of names.                       *)
(***************************************************************************)
EXTENDS ObjectFile, SequenceTheorems, FiniteSetTheorems, TLAPS

-----------------------------------------------------------------------------
(* A file as a linker writes it, and the file with the sections S and the  *)
(* segments that hold them writable.                                       *)
FileOf(file, sections, segments) ==
  [kind |-> file.kind, phEnd |-> file.phEnd, shEnd |-> file.shEnd, shstr |-> file.shstr, strEnd |-> file.strEnd,
   size |-> file.size, sections |-> sections, segments |-> segments]
Section(file, i) ==
  [name |-> file.sections[i].name, nameAt |-> file.sections[i].nameAt, off |-> 100 * i, size |-> 50, w |-> file.sections[i].w]
Segment(file, j) ==
  [off |-> 100 * j, filesz |-> file.segments[j].filesz, w |-> file.segments[j].w]
WellMade(file) ==
  /\ file = FileOf(file, file.sections, file.segments)
  /\ Len(file.sections) \in Nat
  /\ DOMAIN file.sections = 1 .. Len(file.sections)
  /\ file.sections = [i \in 1 .. Len(file.sections) |-> Section(file, i)]
  /\ \A i \in 1 .. Len(file.sections) : file.sections[i].w \in BOOLEAN
  /\ DOMAIN file.segments = DOMAIN file.sections
  /\ file.segments = [j \in 1 .. Len(file.sections) |-> Segment(file, j)]
  /\ \A j \in 1 .. Len(file.sections) : file.segments[j].filesz \in Nat /\ file.segments[j].w \in BOOLEAN

HeldBy(file, j, i) == 100 * j <= 100 * i /\ 100 * j + file.segments[j].filesz >= 100 * i + 51
Writable(file, S) ==
  FileOf(file,
    [i \in 1 .. Len(file.sections) |->
      [name |-> file.sections[i].name, nameAt |-> file.sections[i].nameAt, off |-> 100 * i, size |-> 50,
       w |-> file.sections[i].w \/ i \in S]],
    [j \in 1 .. Len(file.sections) |->
      [off |-> 100 * j, filesz |-> file.segments[j].filesz,
       w |-> file.segments[j].w \/ \E i \in S : HeldBy(file, j, i)]])

(* The sections of a file by their fields. *)
LEMMA SectionIs ==
  ASSUME NEW file, WellMade(file), NEW i \in 1 .. Len(file.sections)
  PROVE  /\ file.sections[i] = Section(file, i)
         /\ file.sections[i].off = 100 * i /\ file.sections[i].size = 50
         /\ file.segments[i] = Segment(file, i) /\ file.segments[i].off = 100 * i
         /\ file.sections[i].w \in BOOLEAN /\ file.segments[i].w \in BOOLEAN
<1>1. file.sections[i] = Section(file, i) /\ file.segments[i] = Segment(file, i)
  <2>1. /\ file.sections = [k \in 1 .. Len(file.sections) |-> Section(file, k)]
        /\ file.segments = [k \in 1 .. Len(file.sections) |-> Segment(file, k)]
    BY DEF WellMade
  <2>2. \A f : f = [k \in 1 .. Len(file.sections) |-> Section(file, k)] => f[i] = Section(file, i)
    OBVIOUS
  <2>3. \A f : f = [k \in 1 .. Len(file.sections) |-> Segment(file, k)] => f[i] = Segment(file, i)
    OBVIOUS
  <2> QED BY <2>1, <2>2, <2>3
<1>2. file.sections[i].w \in BOOLEAN /\ file.segments[i].w \in BOOLEAN
  BY DEF WellMade
<1>3. /\ file.sections[i].off = 100 * i /\ file.sections[i].size = 50
      /\ file.segments[i].off = 100 * i
  BY <1>1 DEF Section, Segment
<1> QED BY <1>1, <1>2, <1>3

(* The sequence of a function on the first n numbers. *)
LEMMA LenOfFunction ==
  ASSUME NEW n \in Nat, NEW f, DOMAIN f = 1 .. n, f = [i \in 1 .. n |-> f[i]]
  PROVE  Len(f) = n
<1> DEFINE S == {f[i] : i \in 1 .. n}
<1>1. f \in [1 .. n -> S]
  OBVIOUS
<1>2. f \in Seq(S)
  BY <1>1, SeqDef
<1>3. DOMAIN f = 1 .. Len(f) /\ Len(f) \in Nat
  BY <1>2, LenProperties
<1>4. 1 .. n = 1 .. Len(f)
  BY <1>3
<1> HIDE DEF S
<1> QED BY <1>3, <1>4

(* A file made writable is still well made, and its sections and segments  *)
(* are where they were.                                                    *)
LEMMA WritableIs ==
  ASSUME NEW file, WellMade(file), NEW S
  PROVE  /\ WellMade(Writable(file, S))
         /\ Len(Writable(file, S).sections) = Len(file.sections)
         /\ \A i \in 1 .. Len(file.sections) :
              /\ Writable(file, S).sections[i].name = file.sections[i].name
              /\ Writable(file, S).sections[i].nameAt = file.sections[i].nameAt
              /\ (Writable(file, S).sections[i].w <=> file.sections[i].w \/ i \in S)
              /\ Writable(file, S).segments[i].filesz = file.segments[i].filesz
              /\ (Writable(file, S).segments[i].w <=> file.segments[i].w \/ \E k \in S : HeldBy(file, i, k))
<1> DEFINE n == Len(file.sections)
           g == Writable(file, S)
<1>1. n \in Nat
  BY DEF WellMade
<1>2. /\ DOMAIN g.sections = 1 .. n /\ DOMAIN g.segments = 1 .. n
      /\ g.sections = [i \in 1 .. n |-> g.sections[i]]
  BY DEF Writable, FileOf
<1>3. Len(g.sections) = n
  <2> DEFINE f == g.sections
  <2>1. DOMAIN f = 1 .. n /\ f = [i \in 1 .. n |-> f[i]]
    BY <1>2
  <2> HIDE DEF f, n, g
  <2>2. Len(f) = n
    BY <1>1, <2>1, LenOfFunction
  <2> QED BY <2>2 DEF f
<1>4. ASSUME NEW i \in 1 .. n
      PROVE  /\ g.sections[i] = [name |-> file.sections[i].name, nameAt |-> file.sections[i].nameAt, off |-> 100 * i, size |-> 50,
                                 w |-> file.sections[i].w \/ i \in S]
             /\ g.segments[i] = [off |-> 100 * i, filesz |-> file.segments[i].filesz,
                                 w |-> file.segments[i].w \/ \E k \in S : HeldBy(file, i, k)]
  BY DEF Writable, FileOf
<1>5. ASSUME NEW i \in 1 .. n
      PROVE  /\ g.sections[i].name = file.sections[i].name
             /\ g.sections[i].nameAt = file.sections[i].nameAt
             /\ g.sections[i].w = (file.sections[i].w \/ i \in S)
             /\ g.segments[i].filesz = file.segments[i].filesz
             /\ g.segments[i].w = (file.segments[i].w \/ \E k \in S : HeldBy(file, i, k))
  <2> DEFINE r == g.sections[i]
             s == g.segments[i]
             v == file.sections[i].w \/ i \in S
             w == file.segments[i].w \/ \E k \in S : HeldBy(file, i, k)
  <2>1. /\ r = [name |-> file.sections[i].name, nameAt |-> file.sections[i].nameAt, off |-> 100 * i, size |-> 50, w |-> v]
        /\ s = [off |-> 100 * i, filesz |-> file.segments[i].filesz, w |-> w]
    BY <1>4
  <2>2. r.name = file.sections[i].name /\ r.nameAt = file.sections[i].nameAt /\ r.w = v /\ s.filesz = file.segments[i].filesz /\ s.w = w
    <3> HIDE DEF r, s, v, w
    <3> QED BY <2>1
  <2> QED BY <2>2
<1>6. ASSUME NEW i \in 1 .. n
      PROVE  /\ g.sections[i] = Section(g, i)
             /\ g.segments[i] = Segment(g, i)
             /\ g.sections[i].w \in BOOLEAN /\ g.segments[i].w \in BOOLEAN
             /\ g.segments[i].filesz \in Nat
  <2>1. file.segments[i].filesz \in Nat
    BY DEF WellMade
  <2> QED BY <1>4, <1>5, <2>1, Zenon DEF Section, Segment
<1>7. g = FileOf(g, g.sections, g.segments)
  BY DEF Writable, FileOf
<1>9. /\ g.sections = [i \in 1 .. n |-> Section(g, i)]
      /\ g.segments = [i \in 1 .. n |-> Segment(g, i)]
  <2> HIDE DEF g, n
  <2>1. g.segments = [i \in 1 .. n |-> g.segments[i]]
    BY DEF g, n, Writable, FileOf
  <2> QED BY <1>2, <1>6, <2>1
<1>10. WellMade(g)
  <2> HIDE DEF g, n
  <2> QED BY <1>1, <1>2, <1>3, <1>6, <1>7, <1>9 DEF WellMade
<1> HIDE DEF g
<1>11. g = Writable(file, S)
  BY DEF g
<1> QED BY <1>3, <1>5, <1>10, <1>11

(* Made writable twice is made writable once, for both.                    *)
LEMMA WritableTwice ==
  ASSUME NEW file, WellMade(file), NEW S, NEW T
  PROVE  Writable(Writable(file, S), T) = Writable(file, S \cup T)
<1> DEFINE n == Len(file.sections)
           g == Writable(file, S)
           h == Writable(file, S \cup T)
           k == Writable(g, T)
<1>1. /\ WellMade(g) /\ Len(g.sections) = n
      /\ \A i \in 1 .. n :
           /\ g.sections[i].name = file.sections[i].name
           /\ g.sections[i].nameAt = file.sections[i].nameAt
           /\ (g.sections[i].w <=> file.sections[i].w \/ i \in S)
           /\ g.segments[i].filesz = file.segments[i].filesz
           /\ (g.segments[i].w <=> file.segments[i].w \/ \E m \in S : HeldBy(file, i, m))
  BY WritableIs
<1>2. /\ g.kind = file.kind /\ g.phEnd = file.phEnd /\ g.shEnd = file.shEnd
      /\ g.shstr = file.shstr /\ g.strEnd = file.strEnd /\ g.size = file.size
  BY DEF Writable, FileOf
<1>3. \A j \in 1 .. n : \A i \in T : HeldBy(g, j, i) <=> HeldBy(file, j, i)
  <2> HIDE DEF g
  <2> QED BY <1>1 DEF HeldBy
<1>4. ASSUME NEW i \in 1 .. n
      PROVE  [name |-> g.sections[i].name, nameAt |-> g.sections[i].nameAt, off |-> 100 * i, size |-> 50,
              w |-> g.sections[i].w \/ i \in T]
           = [name |-> file.sections[i].name, nameAt |-> file.sections[i].nameAt, off |-> 100 * i, size |-> 50,
              w |-> file.sections[i].w \/ i \in S \cup T]
  <2>1. (g.sections[i].w \/ i \in T) = (file.sections[i].w \/ i \in S \cup T)
    BY <1>1, Zenon
  <2> HIDE DEF g
  <2> QED BY <1>1, <2>1
<1>5. ASSUME NEW j \in 1 .. n
      PROVE  [off |-> 100 * j, filesz |-> g.segments[j].filesz,
              w |-> g.segments[j].w \/ \E i \in T : HeldBy(g, j, i)]
           = [off |-> 100 * j, filesz |-> file.segments[j].filesz,
              w |-> file.segments[j].w \/ \E i \in S \cup T : HeldBy(file, j, i)]
  <2>1. (g.segments[j].w \/ \E i \in T : HeldBy(g, j, i))
        = (file.segments[j].w \/ \E i \in S \cup T : HeldBy(file, j, i))
    <3> HIDE DEF g
    <3> QED BY <1>1, <1>3, Zenon
  <2> HIDE DEF g
  <2> QED BY <1>1, <2>1
<1>6. /\ [i \in 1 .. n |-> [name |-> g.sections[i].name, nameAt |-> g.sections[i].nameAt, off |-> 100 * i, size |-> 50,
                            w |-> g.sections[i].w \/ i \in T]]
         = [i \in 1 .. n |-> [name |-> file.sections[i].name, nameAt |-> file.sections[i].nameAt, off |-> 100 * i, size |-> 50,
                              w |-> file.sections[i].w \/ i \in S \cup T]]
      /\ [j \in 1 .. n |-> [off |-> 100 * j, filesz |-> g.segments[j].filesz,
                            w |-> g.segments[j].w \/ \E i \in T : HeldBy(g, j, i)]]
         = [j \in 1 .. n |-> [off |-> 100 * j, filesz |-> file.segments[j].filesz,
                              w |-> file.segments[j].w \/ \E i \in S \cup T : HeldBy(file, j, i)]]
  <2> HIDE DEF g
  <2> QED BY <1>4, <1>5, Zenon
<1>7. Len(g.sections) = n
  BY <1>1
<1> HIDE DEF g
<1>8. Writable(g, T) = Writable(file, S \cup T)
  BY <1>2, <1>6, <1>7, Zenon DEF Writable, FileOf
<1> QED BY <1>8 DEF g

(* Nothing made writable, a file stays what it is.                         *)
LEMMA WritableNone ==
  ASSUME NEW file, WellMade(file)
  PROVE  Writable(file, {}) = file
<1> DEFINE n == Len(file.sections)
<1>1. ASSUME NEW i \in 1 .. n
      PROVE  /\ [name |-> file.sections[i].name, nameAt |-> file.sections[i].nameAt, off |-> 100 * i, size |-> 50,
                 w |-> file.sections[i].w \/ i \in {}] = Section(file, i)
             /\ [off |-> 100 * i, filesz |-> file.segments[i].filesz,
                 w |-> file.segments[i].w \/ \E m \in {} : HeldBy(file, i, m)] = Segment(file, i)
  <2>1. /\ (file.sections[i].w \/ i \in {}) = file.sections[i].w
        /\ (file.segments[i].w \/ \E m \in {} : HeldBy(file, i, m)) = file.segments[i].w
    <3>1. file.sections[i].w \in BOOLEAN /\ file.segments[i].w \in BOOLEAN
      BY SectionIs
    <3> QED BY <3>1, Zenon
  <2> QED BY <2>1, Zenon DEF Section, Segment
<1>2. /\ [i \in 1 .. n |-> [name |-> file.sections[i].name, nameAt |-> file.sections[i].nameAt, off |-> 100 * i, size |-> 50,
                            w |-> file.sections[i].w \/ i \in {}]] = file.sections
      /\ [j \in 1 .. n |-> [off |-> 100 * j, filesz |-> file.segments[j].filesz,
                            w |-> file.segments[j].w \/ \E m \in {} : HeldBy(file, j, m)]] = file.segments
  <2>1. /\ file.sections = [k \in 1 .. n |-> Section(file, k)]
        /\ file.segments = [k \in 1 .. n |-> Segment(file, k)]
    BY DEF WellMade
  <2> QED BY <1>1, <2>1, Zenon
<1>3. file = FileOf(file, file.sections, file.segments)
  BY DEF WellMade
<1> QED BY <1>2, <1>3, Zenon DEF Writable, FileOf

(* What setting the flags of some sections and segments makes of a file.   *)
LEMMA FlagsSet ==
  ASSUME NEW file, WellMade(file), NEW S, NEW J,
         \A j \in 1 .. Len(file.sections) : j \in J <=> \E i \in S : HeldBy(file, j, i)
  PROVE  [file EXCEPT !.sections = MadeWritable(@, S), !.segments = MadeWritable(@, J)] = Writable(file, S)
<1> DEFINE n == Len(file.sections)
           sections == MadeWritable(file.sections, S)
           segments == MadeWritable(file.segments, J)
<1>1. DOMAIN file.sections = 1 .. n /\ DOMAIN file.segments = 1 .. n
  BY DEF WellMade
<1>2. ASSUME NEW i \in 1 .. n
      PROVE  [file.sections[i] EXCEPT !.w = file.sections[i].w \/ i \in S]
             = [name |-> file.sections[i].name, nameAt |-> file.sections[i].nameAt, off |-> 100 * i, size |-> 50,
                w |-> file.sections[i].w \/ i \in S]
  <2> DEFINE r == file.sections[i]
             v == r.w \/ i \in S
  <2>1. r = [name |-> r.name, nameAt |-> r.nameAt, off |-> 100 * i, size |-> 50, w |-> r.w]
    BY SectionIs DEF Section
  <2>2. [r EXCEPT !.w = v] = [name |-> r.name, nameAt |-> r.nameAt, off |-> 100 * i, size |-> 50, w |-> v]
    <3> HIDE DEF r, v
    <3> QED BY <2>1
  <2> QED BY <2>2
<1>3. ASSUME NEW j \in 1 .. n
      PROVE  [file.segments[j] EXCEPT !.w = file.segments[j].w \/ j \in J]
             = [off |-> 100 * j, filesz |-> file.segments[j].filesz,
                w |-> file.segments[j].w \/ \E i \in S : HeldBy(file, j, i)]
  <2> DEFINE r == file.segments[j]
             v == r.w \/ j \in J
             u == r.w \/ \E i \in S : HeldBy(file, j, i)
  <2>1. r = [off |-> 100 * j, filesz |-> r.filesz, w |-> r.w]
    BY SectionIs DEF Segment
  <2>2. [r EXCEPT !.w = v] = [off |-> 100 * j, filesz |-> r.filesz, w |-> v]
    <3> HIDE DEF r, v
    <3> QED BY <2>1
  <2>3. v = u
    OBVIOUS
  <2> HIDE DEF v, u
  <2>4. [r EXCEPT !.w = v] = [off |-> 100 * j, filesz |-> r.filesz, w |-> u]
    BY <2>2, <2>3
  <2> QED BY <2>4 DEF v, u
<1>4. /\ sections = [i \in 1 .. n |-> [name |-> file.sections[i].name, nameAt |-> file.sections[i].nameAt, off |-> 100 * i, size |-> 50,
                                       w |-> file.sections[i].w \/ i \in S]]
      /\ segments = [j \in 1 .. n |-> [off |-> 100 * j, filesz |-> file.segments[j].filesz,
                                       w |-> file.segments[j].w \/ \E i \in S : HeldBy(file, j, i)]]
  BY <1>1, <1>2, <1>3, Zenon DEF MadeWritable
<1> HIDE DEF sections, segments
<1>5. file = FileOf(file, file.sections, file.segments)
  BY DEF WellMade
<1>6. [file EXCEPT !.sections = sections, !.segments = segments]
      = FileOf(file, sections, segments)
  <2> DEFINE one == [file EXCEPT !.sections = sections]
             two == [one EXCEPT !.segments = segments]
  <2>1. one = FileOf(file, sections, file.segments)
    BY <1>5 DEF FileOf
  <2>2. two = FileOf(file, sections, segments)
    <3> HIDE DEF one
    <3> QED BY <2>1 DEF FileOf
  <2>3. \A f, x, y : [f EXCEPT !.sections = x, !.segments = y] = [[f EXCEPT !.sections = x] EXCEPT !.segments = y]
    OBVIOUS
  <2>4. [file EXCEPT !.sections = sections, !.segments = segments] = two
    BY <2>3, Zenon
  <2> HIDE DEF two
  <2> QED BY <2>2, <2>4
<1>7. [file EXCEPT !.sections = sections, !.segments = segments] = Writable(file, S)
  BY <1>4, <1>6, Zenon DEF Writable
<1> QED BY <1>7 DEF sections, segments

-----------------------------------------------------------------------------
(* A finite set has a sequence of its elements. *)
LEMMA SequenceOfSet ==
  ASSUME NEW S, IsFiniteSet(S)
  PROVE  SetToSeq(S) \in Seq(S)
<1>1. PICK n \in Nat : ExistsBijection(1 .. n, S)
  BY FS_NatBijection
<1>2. Cardinality(S) = n
  BY <1>1, FS_CountingElements
<1>3. \E f \in [1 .. Cardinality(S) -> S] : IsInjective(f)
  BY <1>1, <1>2 DEF ExistsBijection, Bijection, Injection
<1>4. SetToSeq(S) \in [1 .. Cardinality(S) -> S]
  BY <1>3 DEF SetToSeq
<1>5. Cardinality(S) \in Nat
  BY <1>2
<1> QED BY <1>4, <1>5, SeqDef

(* The file a linker writes is well made. *)
LEMMA LinkedWellMade ==
  ASSUME NEW o, IsFiniteSet(o.sections), NEW layout \in Layouts
  PROVE  WellMade(Linked(o, layout))
<1> DEFINE init == [name |-> "INIT", type |-> "PROGBITS"]
           in == <<init>> \o SetToSeq(o.sections)
           n == Len(in)
           name(k) == IF layout.merge THEN <<Kind(in[k])>> ELSE <<Kind(in[k]), in[k].name>>
           f == Linked(o, layout)
           S == o.sections \cup {init}
<1>1. in \in Seq(S)
  <2>1. SetToSeq(o.sections) \in Seq(o.sections)
    BY SequenceOfSet
  <2>2. SetToSeq(o.sections) \in Seq(S)
    BY <2>1, SeqMonotonic
  <2>3. <<init>> \in Seq(S)
    OBVIOUS
  <2> HIDE DEF S, init
  <2> QED BY <2>2, <2>3, ConcatProperties
<1>2. n \in Nat /\ DOMAIN in = 1 .. n
  <2> HIDE DEF in, S
  <2> QED BY <1>1, LenProperties
<1> DEFINE at(k) == 1 + (IF layout.merge THEN 2 ELSE 3) * (k - 1)
<1>3. /\ f = FileOf(f, f.sections, f.segments)
      /\ f.sections = [k \in DOMAIN in |->
           [name |-> name(k), nameAt |-> at(k), off |-> 100 * k, size |-> 50, w |-> Kind(in[k]) # "text"]]
      /\ f.segments = [k \in DOMAIN in |->
           [off |-> 100 * k, filesz |-> 50 + layout.spare, w |-> Kind(in[k]) # "text"]]
  <2> DEFINE sections == [k \in DOMAIN in |->
               [name |-> name(k), nameAt |-> at(k), off |-> 100 * k, size |-> 50, w |-> Kind(in[k]) # "text"]]
             segments == [k \in DOMAIN in |->
               [off |-> 100 * k, filesz |-> 50 + layout.spare, w |-> Kind(in[k]) # "text"]]
             nameTable == 100 * Len(in) + 100
             length == IF layout.merge THEN 2 ELSE 3
             end == nameTable + 1 + length * Len(in)
             shEnd == IF layout.names \in {"inside", "cut"} THEN end + 10 * Len(in) ELSE nameTable
             shstr == IF layout.names = "none" THEN 0 ELSE nameTable
             strEnd == IF layout.names = "none" THEN 0 ELSE end
             size == CASE layout.names = "inside" -> end + 10 * Len(in)
                       [] layout.names = "cut" -> end + 10 * Len(in) - 1
                       [] layout.names = "last" -> end
                       [] layout.names = "padded" -> end + 1
                       [] layout.names = "none" -> nameTable
  <2>1. f = [kind |-> layout.kind, phEnd |-> 100, shEnd |-> shEnd, shstr |-> shstr, strEnd |-> strEnd, size |-> size,
             sections |-> sections, segments |-> segments]
    BY Zenon DEF Linked
  <2> HIDE DEF f, sections, segments, shEnd, shstr, strEnd, size
  <2>2. f = FileOf(f, f.sections, f.segments) /\ f.sections = sections /\ f.segments = segments
    BY <2>1 DEF FileOf
  <2> QED BY <2>2 DEF sections, segments
<1> HIDE DEF in, f, at
<1>4. /\ f.sections = [k \in 1 .. n |->
             [name |-> name(k), nameAt |-> at(k), off |-> 100 * k, size |-> 50, w |-> Kind(in[k]) # "text"]]
      /\ f.segments = [k \in 1 .. n |->
             [off |-> 100 * k, filesz |-> 50 + layout.spare, w |-> Kind(in[k]) # "text"]]
  <2> HIDE DEF n, name
  <2> QED BY <1>2, <1>3
<1>5. ASSUME NEW k \in 1 .. n
      PROVE  /\ f.sections[k] = [name |-> name(k), nameAt |-> at(k), off |-> 100 * k, size |-> 50, w |-> Kind(in[k]) # "text"]
             /\ f.segments[k] = [off |-> 100 * k, filesz |-> 50 + layout.spare, w |-> Kind(in[k]) # "text"]
  <2> HIDE DEF n, name
  <2> QED BY <1>4
<1>6. ASSUME NEW k \in 1 .. n
      PROVE  /\ f.sections[k] = Section(f, k) /\ f.segments[k] = Segment(f, k)
             /\ f.sections[k].w \in BOOLEAN /\ f.segments[k].w \in BOOLEAN
             /\ f.segments[k].filesz \in Nat
  <2> DEFINE w == Kind(in[k]) # "text"
             r == f.sections[k]
             t == f.segments[k]
  <2>1. r = [name |-> name(k), nameAt |-> at(k), off |-> 100 * k, size |-> 50, w |-> w]
    BY <1>5
  <2>2. t = [off |-> 100 * k, filesz |-> 50 + layout.spare, w |-> w]
    BY <1>5
  <2>3. w \in BOOLEAN /\ 50 + layout.spare \in Nat
    BY LayoutsAssumption
  <2> HIDE DEF w, r, t, name, n
  <2>4. r.name = name(k) /\ r.nameAt = at(k) /\ r.w = w /\ t.w = w /\ t.filesz = 50 + layout.spare
    BY <2>1, <2>2
  <2>5. r = [name |-> r.name, nameAt |-> r.nameAt, off |-> 100 * k, size |-> 50, w |-> r.w]
    BY <2>1, <2>4
  <2>6. t = [off |-> 100 * k, filesz |-> t.filesz, w |-> t.w]
    BY <2>2, <2>4
  <2> QED BY <2>3, <2>4, <2>5, <2>6 DEF Section, Segment, r, t
<1>7. Len(f.sections) = n
  <2> DEFINE g == f.sections
  <2>1. DOMAIN g = 1 .. n /\ g = [k \in 1 .. n |-> g[k]]
    <3> HIDE DEF n, name
    <3> QED BY <1>4
  <2> HIDE DEF g, n
  <2>2. Len(g) = n
    BY <1>2, <2>1, LenOfFunction
  <2> QED BY <2>2 DEF g
<1>8. /\ DOMAIN f.sections = 1 .. n /\ DOMAIN f.segments = 1 .. n
      /\ f.sections = [k \in 1 .. n |-> Section(f, k)]
      /\ f.segments = [k \in 1 .. n |-> Segment(f, k)]
  <2> HIDE DEF n, name
  <2>1. /\ DOMAIN f.sections = 1 .. n /\ DOMAIN f.segments = 1 .. n
        /\ f.sections = [k \in 1 .. n |-> f.sections[k]]
        /\ f.segments = [k \in 1 .. n |-> f.segments[k]]
    BY <1>4
  <2> QED BY <1>6, <2>1
<1>9. WellMade(f)
  <2> HIDE DEF n, name
  <2> DEFINE l == Len(f.sections)
  <2>1. /\ l \in Nat /\ DOMAIN f.sections = 1 .. l /\ DOMAIN f.segments = 1 .. l
    BY <1>2, <1>4, <1>7, <1>8
  <2>2. /\ f.sections = [k \in 1 .. l |-> Section(f, k)]
        /\ f.segments = [k \in 1 .. l |-> Segment(f, k)]
    BY <1>7, <1>8, Zenon
  <2>3. \A k \in 1 .. l : /\ f.sections[k].w \in BOOLEAN /\ f.segments[k].w \in BOOLEAN
                          /\ f.segments[k].filesz \in Nat
    BY <1>6, <1>7, Zenon
  <2>4. f = FileOf(f, f.sections, f.segments)
    BY <1>3
  <2> QED BY <2>1, <2>2, <2>3, <2>4, Zenon DEF WellMade
<1> QED BY <1>9 DEF f

-----------------------------------------------------------------------------
(* obj.cpp has read of finitely many sections, and writes no others.       *)
FiniteSections ==
  /\ "section_limits" \in DOMAIN tables
  /\ IsFiniteSet(DOMAIN tables.section_limits)
  /\ object.kind = "object" => IsFiniteSet(object.sections)

(* A step of obj.cpp that leaves the sections alone. *)
LEMMA TablesKept ==
  ASSUME FiniteSections, object' = object,
         DOMAIN tables' = DOMAIN tables,
         tables'.section_limits = tables.section_limits
  PROVE  FiniteSections'
BY DEF FiniteSections

LEMMA GiveKeeps ==
  ASSUME FiniteSections, NEW at, NEW r, NEW t,
         DOMAIN t = DOMAIN tables, t.section_limits = tables.section_limits,
         Give(at, r, t)
  PROVE  FiniteSections'
<1>1. CASE Mismatch(tables, at, r)
  <2>1. object'.kind = "failed" /\ tables' = tables
    BY <1>1 DEF Give
  <2> QED BY <2>1 DEF FiniteSections
<1>2. CASE ~Mismatch(tables, at, r)
  <2>1. tables' = add_relocation(t, at, r) /\ object' = object
    BY <1>2 DEF Give, Read
  <2>2. \A u, x : DOMAIN [u EXCEPT !.relocations = x] = DOMAIN u
    OBVIOUS
  <2>3. \A u, x : "section_limits" \in DOMAIN u => [u EXCEPT !.relocations = x].section_limits = u.section_limits
    OBVIOUS
  <2>4. DOMAIN tables' = DOMAIN tables /\ tables'.section_limits = tables.section_limits
    BY <2>1, <2>2, <2>3 DEF add_relocation, FiniteSections
  <2> QED BY <2>1, <2>4, TablesKept
<1> QED BY <1>1, <1>2

(* The same of the labels of AUIPC. *)
LEMMA LabelKeeps ==
  ASSUME FiniteSections, NEW at
  PROVE  DOMAIN lnext(tables, at) = DOMAIN tables /\ lnext(tables, at).section_limits = tables.section_limits
<1>1. \A u, x : /\ DOMAIN [u EXCEPT !.relocations = x] = DOMAIN u
                /\ DOMAIN [u EXCEPT !.local_symbols = x] = DOMAIN u
                /\ "section_limits" \in DOMAIN u =>
                     /\ [u EXCEPT !.relocations = x].section_limits = u.section_limits
                     /\ [u EXCEPT !.local_symbols = x].section_limits = u.section_limits
  OBVIOUS
<1>2. PICK x, y : lnext(tables, at) = [[tables EXCEPT !.local_symbols = x] EXCEPT !.relocations = y]
  BY DEF lnext, add_relocation
<1> QED BY <1>1, <1>2 DEF FiniteSections

LEMMA LinkerKeepsFinite ==
  ASSUME FiniteSections, LinkerNext
  PROVE  FiniteSections'
<1>1. CASE reloc_execute
  <2>1. PICK at, r : Give(at, r, tables)
    BY <1>1 DEF reloc_execute
  <2> QED BY <2>1, GiveKeeps
<1>2. CASE reloc_addr
  <2>1. PICK at, r, t : Give(at, r, t) /\ t \in {tables, lnext(tables, line.at)}
    BY <1>2 DEF reloc_addr
  <2>2. DOMAIN t = DOMAIN tables /\ t.section_limits = tables.section_limits
    BY <2>1, LabelKeeps
  <2> QED BY <2>1, <2>2, GiveKeeps
<1>3. CASE reloc
  <2>1. PICK at, r : Give(at, r, tables)
    BY <1>3 DEF reloc
  <2> QED BY <2>1, GiveKeeps
<1>4. CASE symbol \/ wl_assoc_symbol \/ wl_assoc_wordlist \/ wordlist_end \/ wordlist
  <2>1. object' = object
    BY <1>4 DEF symbol, wl_assoc_symbol, wl_assoc_wordlist, wordlist_end, wordlist, Read
  <2>2. DOMAIN tables' = DOMAIN tables /\ tables'.section_limits = tables.section_limits
    <3>1. \A u, x : "section_limits" \in DOMAIN u =>
            /\ DOMAIN [u EXCEPT !.dup_symbols = x] = DOMAIN u
            /\ [u EXCEPT !.dup_symbols = x].section_limits = u.section_limits
            /\ DOMAIN [u EXCEPT !.wl_assocs = x] = DOMAIN u
            /\ [u EXCEPT !.wl_assocs = x].section_limits = u.section_limits
            /\ DOMAIN [u EXCEPT !.wl_end = x] = DOMAIN u
            /\ [u EXCEPT !.wl_end = x].section_limits = u.section_limits
      OBVIOUS
    <3>2. \A u, x, y : "section_limits" \in DOMAIN u =>
            /\ DOMAIN [u EXCEPT !.names_export = x, !.wl_end = y] = DOMAIN u
            /\ [u EXCEPT !.names_export = x, !.wl_end = y].section_limits = u.section_limits
      OBVIOUS
    <3>3. \A u, x, y, z, v : "section_limits" \in DOMAIN u =>
            LET w == [u EXCEPT !.wordlist_names = x, !.global_symbol_assoc = y, !.wordlist_assoc = z, !.wl_assocs = v]
            IN DOMAIN w = DOMAIN u /\ w.section_limits = u.section_limits
      OBVIOUS
    <3>4. CASE symbol \/ wl_assoc_symbol \/ wordlist_end
      BY <3>1, <3>4 DEF FiniteSections, symbol, wl_assoc_symbol, wordlist_end, Read
    <3>5. CASE wordlist
      BY <3>2, <3>5 DEF FiniteSections, wordlist, Read
    <3>6. CASE wl_assoc_wordlist
      BY <3>3, <3>6 DEF FiniteSections, wl_assoc_wordlist, Read
    <3> QED BY <1>4, <3>4, <3>5, <3>6
  <2> QED BY <2>1, <2>2, TablesKept
<1>5. CASE section
  <2> DEFINE new == [x \in DOMAIN tables.section_limits \cup {line.name} |->
                       IF x = line.name THEN [flags |-> line.flags, start |-> 0, end |-> 0]
                       ELSE tables.section_limits[x]]
  <2>1. tables' = [tables EXCEPT !.csection = line.name, !.section_limits = new] /\ object' = object
    BY <1>5 DEF section, Read
  <2>2. DOMAIN new = DOMAIN tables.section_limits \cup {line.name}
    OBVIOUS
  <2> HIDE DEF new
  <2>3. DOMAIN tables' = DOMAIN tables /\ tables'.section_limits = new
    BY <2>1 DEF FiniteSections
  <2>4. IsFiniteSet(DOMAIN tables.section_limits \cup {line.name})
    BY FS_AddElement DEF FiniteSections
  <2> QED BY <2>1, <2>2, <2>3, <2>4 DEF FiniteSections
<1>6. CASE limit
  <2>1. object' = object
    BY <1>6 DEF limit, Read
  <2>2. DOMAIN tables' = DOMAIN tables /\ DOMAIN tables'.section_limits = DOMAIN tables.section_limits
    BY <1>6 DEF limit, Read, FiniteSections
  <2> QED BY <2>1, <2>2 DEF FiniteSections
<1>7. CASE save_obj
  <2>1. tables' = tables
    BY <1>7 DEF save_obj
  <2>2. object'.kind = "failed" \/ object'.sections = SectionHeaders
    BY <1>7 DEF save_obj
  <2>3. IsFiniteSet(SectionHeaders)
    <3> DEFINE D == DOMAIN tables.section_limits
               header(x) == [name |-> x,
                             type |-> IF (tables.section_limits[x].flags % 4) # 0 THEN "PROGBITS" ELSE "NOBITS",
                             size |-> tables.section_limits[x].end - tables.section_limits[x].start]
               f == [x \in D |-> header(x)]
    <3>1. SectionHeaders = {header(x) : x \in D}
      BY DEF SectionHeaders
    <3> HIDE DEF header, D
    <3>2. f \in Surjection(D, {header(x) : x \in D})
      BY DEF Surjection
    <3>3. IsFiniteSet(D)
      BY DEF D, FiniteSections
    <3> HIDE DEF f
    <3> QED BY <3>1, <3>2, <3>3, FS_Surjection
  <2> QED BY <2>1, <2>2, <2>3 DEF FiniteSections
<1>8. CASE DO_RELOC
  BY <1>8 DEF DO_RELOC, FiniteSections
<1> QED BY <1>1, <1>2, <1>3, <1>4, <1>5, <1>6, <1>7, <1>8 DEF LinkerNext

-----------------------------------------------------------------------------
(* make-elf-writable at work: of the names asked for, those before asked   *)
(* are done.                                                               *)
Elf == {"ELF32", "ELF64"}
Names(k) == SubSeq(linked.asked, 1, k)
Processed ==
  Len(linked.asked) - Len(asked) - (IF exit = 1 /\ linked.file.kind \in Elf THEN 1 ELSE 0)
Done == IF linked.file.shstr = 0 THEN {} ELSE Requested(Names(Processed))
Reported ==
  /\ exit = 0 => Processed = Len(linked.asked) \/ linked.file.kind = "other class"
  /\ exit = 1 => \/ linked.file.kind \notin Elf \cup {"other class"}
                 \/ Cut(linked.file) \/ NamesLast(linked.file) \/ TooLong(linked.file, linked.asked)
WritableInv ==
  exit # NotRun =>
    /\ exit \in {Running, 0, 1}
    /\ WellMade(linked.file)
    /\ linked.asked \in Asked
    /\ asked \in Seq(Seq(STRING))
    /\ Len(asked) <= Len(linked.asked)
    /\ \A i \in 1 .. Len(asked) : asked[i] = linked.asked[Len(linked.asked) - Len(asked) + i]
    /\ elf = Writable(linked.file, Done)
    /\ Reported

(* The sections asked for by one name more. *)
FirstNamed(name) ==
  {i \in DOMAIN linked.file.sections :
     /\ IsPrefix(name, linked.file.sections[i].name)
     /\ \A j \in 1 .. i - 1 : ~IsPrefix(name, linked.file.sections[j].name)}

LEMMA OneNameMore ==
  ASSUME linked.asked \in Asked, NEW k \in Nat, k < Len(linked.asked)
  PROVE  Requested(Names(k + 1)) = Requested(Names(k)) \cup FirstNamed(linked.asked[k + 1])
<1> DEFINE all == linked.asked
<1>1. all \in Seq(Seq(STRING))
  BY AskedAssumption
<1> HIDE DEF all
<1>2. ASSUME NEW m \in Nat, m <= Len(all)
      PROVE  ToSet(SubSeq(all, 1, m)) = {all[i] : i \in 1 .. m}
  <2>1. \A i \in 1 .. m : all[i] \in Seq(STRING)
    BY <1>1, <1>2, ElementOfSeq, LenProperties
  <2>2. /\ SubSeq(all, 1, m) \in Seq(Seq(STRING)) /\ Len(SubSeq(all, 1, m)) = m
        /\ \A i \in 1 .. m : SubSeq(all, 1, m)[i] = all[i]
    <3>1. /\ SubSeq(all, 1, m) \in Seq(Seq(STRING))
          /\ Len(SubSeq(all, 1, m)) = IF 1 <= m THEN m - 1 + 1 ELSE 0
          /\ \A i \in 1 .. m - 1 + 1 : SubSeq(all, 1, m)[i] = all[1 + i - 1]
      BY <1>2, <2>1, SubSeqProperties
    <3> QED BY <1>2, <3>1
  <2>3. DOMAIN SubSeq(all, 1, m) = 1 .. m
    BY <2>2, LenProperties
  <2> QED BY <2>2, <2>3 DEF ToSet
<1>3. /\ ToSet(Names(k)) = {all[i] : i \in 1 .. k}
      /\ ToSet(Names(k + 1)) = {all[i] : i \in 1 .. k + 1}
  <2>1. k + 1 \in Nat /\ k + 1 <= Len(all) /\ k <= Len(all)
    BY <1>1, LenProperties DEF all
  <2> QED BY <1>2, <2>1 DEF Names, all
<1>4. ToSet(Names(k + 1)) = ToSet(Names(k)) \cup {all[k + 1]}
  BY <1>3
<1> QED BY <1>4, Zenon DEF Requested, FirstNamed, all

(* The size of a section is the same in a word. *)
LEMMA SizeFits == 50 % Elf_Words = 50
BY WordsAssumption

(* process32l: one name of those asked for.                                *)
LEMMA NameProcessed ==
  ASSUME WritableInv, exit = Running, asked # <<>>, elf.kind \in Elf,
         process32l(asked[1]), asked' = Tail(asked), linked' = linked
  PROVE  WritableInv'
<1> DEFINE file == linked.file
           n == Len(file.sections)
           all == linked.asked
           k == Len(all) - Len(asked)
           S == Done
           F == FirstNamed(all[k + 1])
<1>1. exit # NotRun /\ exit # 1
  BY DEF Running, NotRun
<1>2. /\ WellMade(file) /\ n \in Nat /\ all \in Asked /\ asked \in Seq(Seq(STRING))
      /\ Len(asked) <= Len(all) /\ elf = Writable(file, S)
      /\ \A i \in 1 .. Len(asked) : asked[i] = all[k + i]
  BY <1>1 DEF WritableInv, WellMade
<1>3. all \in Seq(Seq(STRING)) /\ Len(all) \in Nat
  BY <1>2, AskedAssumption, LenProperties
<1>4. /\ Len(asked) \in Nat \ {0} /\ asked' \in Seq(Seq(STRING)) /\ Len(asked') = Len(asked) - 1
      /\ \A i \in 1 .. Len(asked') : asked'[i] = asked[i + 1]
  BY <1>2, EmptySeq, HeadTailProperties
<1>5. k \in Nat /\ k < Len(all) /\ k + 1 \in 1 .. Len(all) /\ asked[1] = all[k + 1]
  <2>1. k \in Nat /\ k < Len(all) /\ k + 1 \in 1 .. Len(all) /\ 1 \in 1 .. Len(asked)
    BY <1>2, <1>3, <1>4
  <2> HIDE DEF k
  <2> QED BY <1>2, <2>1
<1>6. /\ Len(asked') <= Len(all)
      /\ \A i \in 1 .. Len(asked') : asked'[i] = all[Len(all) - Len(asked') + i]
  <2>1. Len(all) - Len(asked') = k + 1 /\ Len(asked') <= Len(all)
    BY <1>2, <1>3, <1>4
  <2>2. ASSUME NEW i \in 1 .. Len(asked')
        PROVE  asked'[i] = all[k + 1 + i]
    <3> DEFINE l == Len(asked)
    <3>1. i \in Int /\ 1 <= i /\ i <= l - 1 /\ l \in Nat /\ k \in Nat
      BY <1>4, <1>5
    <3> HIDE DEF k, l
    <3>3. i + 1 \in 1 .. l /\ k + (i + 1) = k + 1 + i
      BY <3>1
    <3>2. asked'[i] = asked[i + 1]
      BY <1>4
    <3> QED BY <1>2, <3>2, <3>3 DEF l
  <2> QED BY <2>1, <2>2
<1>7. Processed = k
  BY <1>1, <1>3, <1>4 DEF Processed
<1>8. S = IF file.shstr = 0 THEN {} ELSE Requested(Names(k))
  BY <1>7 DEF Done
<1>9. /\ elf.kind = file.kind /\ elf.shstr = file.shstr /\ elf.size = file.size
      /\ elf.phEnd = file.phEnd /\ elf.shEnd = file.shEnd /\ elf.strEnd = file.strEnd
      /\ WellMade(elf) /\ Len(elf.sections) = n
      /\ DOMAIN elf.sections = 1 .. n /\ DOMAIN elf.segments = 1 .. n
      /\ \A i \in 1 .. n : /\ elf.sections[i].name = file.sections[i].name
                           /\ elf.sections[i].nameAt = file.sections[i].nameAt
                           /\ elf.segments[i].filesz = file.segments[i].filesz
  <2>1. /\ elf.kind = file.kind /\ elf.shstr = file.shstr /\ elf.size = file.size
        /\ elf.phEnd = file.phEnd /\ elf.shEnd = file.shEnd /\ elf.strEnd = file.strEnd
    BY <1>2 DEF Writable, FileOf
  <2>2. /\ WellMade(Writable(file, S)) /\ Len(Writable(file, S).sections) = n
        /\ \A i \in 1 .. n : /\ Writable(file, S).sections[i].name = file.sections[i].name
                             /\ Writable(file, S).sections[i].nameAt = file.sections[i].nameAt
                             /\ Writable(file, S).segments[i].filesz = file.segments[i].filesz
    <3>1. WellMade(file)
      BY <1>2
    <3> HIDE DEF S, file, all, k, F
    <3> QED BY <3>1, WritableIs
  <2> HIDE DEF S, file, n
  <2>3. /\ WellMade(elf) /\ Len(elf.sections) = n
        /\ \A i \in 1 .. n : /\ elf.sections[i].name = file.sections[i].name
                             /\ elf.sections[i].nameAt = file.sections[i].nameAt
                             /\ elf.segments[i].filesz = file.segments[i].filesz
    BY <1>2, <2>2
  <2>4. DOMAIN elf.sections = 1 .. n /\ DOMAIN elf.segments = 1 .. n
    BY <2>3 DEF WellMade
  <2> QED BY <2>1, <2>3, <2>4
<1>10. DOMAIN file.sections = 1 .. n
  BY <1>2 DEF WellMade
<1>11. Matching(asked[1]) = F
  <2> DEFINE name == all[k + 1]
             M == {i \in 1 .. n : IsPrefix(name, file.sections[i].name)}
  <2>1. Matching(name) = {i \in M : \A j \in M : i <= j}
    <3> HIDE DEF name, file, n
    <3>1. M = {i \in DOMAIN elf.sections : IsPrefix(name, elf.sections[i].name)}
      BY <1>9
    <3> QED BY <3>1, Zenon DEF Matching
  <2>2. F = {i \in 1 .. n : IsPrefix(name, file.sections[i].name)
                            /\ \A j \in 1 .. i - 1 : ~IsPrefix(name, file.sections[j].name)}
    BY <1>10 DEF FirstNamed
  <2> HIDE DEF name, n, F
  <2>3. {i \in M : \A j \in M : i <= j} = F
    <3>1. ASSUME NEW i \in 1 .. n, IsPrefix(name, file.sections[i].name)
          PROVE  (\A j \in M : i <= j) <=> \A j \in 1 .. i - 1 : ~IsPrefix(name, file.sections[j].name)
      <4>1. ASSUME \A j \in M : i <= j, NEW j \in 1 .. i - 1
            PROVE  ~IsPrefix(name, file.sections[j].name)
        <5>1. j \in 1 .. n /\ ~(i <= j)
          BY <1>2
        <5> QED BY <4>1, <5>1
      <4>2. ASSUME \A j \in 1 .. i - 1 : ~IsPrefix(name, file.sections[j].name), NEW j \in M
            PROVE  i <= j
        <5>1. j \notin 1 .. i - 1 /\ j \in 1 .. n
          BY <4>2
        <5> QED BY <1>2, <5>1
      <4> QED BY <4>1, <4>2
    <3> QED BY <2>2, <3>1
  <2> QED BY <1>5, <2>1, <2>3, Zenon DEF name
<1>12. (IF file.shstr = 0 THEN {} ELSE Requested(Names(k + 1))) = IF file.shstr = 0 THEN {} ELSE S \cup F
  BY <1>2, <1>5, <1>8, OneNameMore
<1>13. /\ linked'.file = file /\ linked'.asked = all
       /\ Done' = IF file.shstr = 0 THEN {} ELSE Requested(Names(Processed'))
  BY DEF Done, Requested, Names
<1>14. Processed' = IF exit' = 1 THEN k ELSE k + 1
  <2>1. file.kind \in Elf
    BY <1>9
  <2>2. Processed' = Len(all) - Len(asked') - (IF exit' = 1 THEN 1 ELSE 0)
    BY <1>13, <2>1 DEF Processed
  <2>3. Len(all) - Len(asked') = k + 1
    BY <1>2, <1>3, <1>4
  <2> HIDE DEF k
  <2> QED BY <1>5, <2>2, <2>3
<1>15. ASSUME exit' = 1, elf' = elf, Cut(file) \/ NamesLast(file) \/ TooLong(file, all)
       PROVE  WritableInv'
  <2>1. Done' = S
    BY <1>8, <1>13, <1>14, <1>15
  <2>2. elf' = Writable(linked'.file, Done')
    BY <1>2, <1>13, <1>15, <2>1
  <2>3. Reported'
    <3>1. exit' # 0
      BY <1>15
    <3>2. Cut(linked'.file) \/ NamesLast(linked'.file) \/ TooLong(linked'.file, linked'.asked)
      BY <1>13, <1>15
    <3> QED BY <3>1, <3>2, Zenon DEF Reported, Cut, NamesLast, TooLong
  <2> HIDE DEF S, k
  <2> QED BY <1>2, <1>4, <1>6, <1>13, <1>15, <2>2, <2>3 DEF WritableInv
<1>16. CASE Truncated(elf.phEnd) \/ Truncated(elf.shEnd)
  <2>1. elf' = elf /\ exit' = 1
    BY <1>16 DEF process32l
  <2>2. Cut(file)
    BY <1>9, <1>16 DEF Truncated, Cut
  <2> HIDE DEF S, k
  <2> QED BY <2>1, <2>2, <1>15
<1>17. ASSUME elf.shstr # 0, NamesCut(asked[1])
       PROVE  Cut(file) \/ NamesLast(file) \/ TooLong(file, all)
  <2>1. CASE Truncated(elf.strEnd + 1)
    BY <1>9, <1>17, <2>1 DEF Truncated, NamesLast
  <2>2. CASE ~Truncated(elf.strEnd + 1)
    <3>1. PICK i \in DOMAIN elf.sections : Truncated(elf.shstr + elf.sections[i].nameAt + Len(asked[1]) + 1)
      BY <1>17, <2>2 DEF NamesCut
    <3>2. i \in DOMAIN file.sections /\ elf.sections[i].nameAt = file.sections[i].nameAt
      BY <1>9, <1>10
    <3>3. k + 1 \in DOMAIN all
      BY <1>3, <1>5, LenProperties
    <3> DEFINE m == k + 1
    <3>4. file.shstr # 0 /\ file.shstr + file.sections[i].nameAt + Len(all[m]) + 1 > file.size
      BY <1>5, <1>9, <1>17, <3>1, <3>2 DEF Truncated
    <3>5. m \in DOMAIN all
      BY <3>3
    <3> HIDE DEF m, file, all
    <3> QED BY <3>2, <3>4, <3>5 DEF TooLong
  <2> QED BY <2>1, <2>2
<1>18. CASE ~(Truncated(elf.phEnd) \/ Truncated(elf.shEnd)) /\ elf.shstr = 0
  <2>1. elf' = elf /\ exit' = exit
    BY <1>18 DEF process32l
  <2>2. elf' = Writable(linked'.file, Done')
    BY <1>2, <1>8, <1>9, <1>13, <1>18, <2>1
  <2>3. Reported'
    BY <1>1, <2>1 DEF Reported, Running
  <2> HIDE DEF S, k
  <2> QED BY <1>2, <1>4, <1>6, <1>13, <2>1, <2>2, <2>3 DEF WritableInv
<1>19. CASE ~(Truncated(elf.phEnd) \/ Truncated(elf.shEnd)) /\ elf.shstr # 0 /\ NamesCut(asked[1])
  <2>1. elf' = elf /\ exit' = 1
    BY <1>19 DEF process32l
  <2> HIDE DEF S, k
  <2> QED BY <1>17, <1>19, <1>15, <2>1
<1>20. ASSUME elf.shstr # 0, exit' = exit,
              elf' = [elf EXCEPT !.sections = MadeWritable(@, F), !.segments = MadeWritable(@, SegmentsAround(F))]
       PROVE  WritableInv'
  <2>1. F \subseteq 1 .. n
    BY <1>10 DEF FirstNamed
  <2>2. \A j \in 1 .. n : j \in SegmentsAround(F) <=> \E i \in F : HeldBy(elf, j, i)
    <3>1. ASSUME NEW j \in 1 .. n, NEW i \in 1 .. n
          PROVE  Around(elf.segments[j], elf.sections[i]) <=> HeldBy(elf, j, i)
      <4>1. /\ elf.sections[i].off = 100 * i /\ elf.sections[i].size = 50 /\ elf.segments[j].off = 100 * j
        <5> HIDE DEF n, S, F, k, all, file
        <5>1. WellMade(elf) /\ i \in 1 .. Len(elf.sections) /\ j \in 1 .. Len(elf.sections)
          BY <1>9
        <5>2. elf.sections[i].off = 100 * i /\ elf.sections[i].size = 50
          BY <5>1, SectionIs
        <5>3. elf.segments[j].off = 100 * j
          BY <5>1, SectionIs
        <5> QED BY <5>2, <5>3
      <4>2. elf.segments[j].filesz \in Nat
        BY <1>9 DEF WellMade
      <4> DEFINE size == elf.segments[j].filesz
      <4>3. n \in Nat
        BY <1>2
      <4> HIDE DEF n, size
      <4>4. i \in Int /\ j \in Int /\ size \in Int
        BY <4>2, <4>3 DEF size
      <4>5. 100 * j + size > 100 * i + 50 <=> 100 * j + size >= 100 * i + 51
        BY <4>4
      <4>6. elf.sections[i].size % Elf_Words = 50
        BY <4>1, SizeFits
      <4> QED BY <4>1, <4>5, <4>6 DEF Around, HeldBy, size
    <3> HIDE DEF n, F
    <3> QED BY <1>9, <2>1, <3>1 DEF SegmentsAround
  <2>3. elf' = Writable(elf, F)
    <3> HIDE DEF n, F
    <3>1. \A j \in 1 .. Len(elf.sections) : j \in SegmentsAround(F) <=> \E i \in F : HeldBy(elf, j, i)
      BY <1>9, <2>2
    <3> QED BY <1>9, <1>20, <3>1, FlagsSet
  <2>4. elf' = Writable(file, S \cup F)
    <3> HIDE DEF S, F, file
    <3> QED BY <1>2, <2>3, WritableTwice
  <2>5. Done' = S \cup F
    BY <1>1, <1>9, <1>12, <1>13, <1>14, <1>20
  <2>6. Reported'
    BY <1>1, <1>20 DEF Reported, Running
  <2> HIDE DEF S, k, F
  <2> QED BY <1>2, <1>4, <1>6, <1>13, <1>20, <2>4, <2>5, <2>6 DEF WritableInv
<1> HIDE DEF F
<1>21. CASE ~(Truncated(elf.phEnd) \/ Truncated(elf.shEnd)) /\ elf.shstr # 0 /\ ~NamesCut(asked[1])
  <2>1. /\ exit' = exit
        /\ elf' = [elf EXCEPT !.sections = MadeWritable(@, F), !.segments = MadeWritable(@, SegmentsAround(F))]
    BY <1>11, <1>21, Zenon DEF process32l
  <2> QED BY <1>20, <1>21, <2>1
<1> QED BY <1>16, <1>18, <1>19, <1>21

(* The linker's step leaves a file with nothing done.                      *)
LEMMA FileLinked ==
  ASSUME FiniteSections, ld
  PROVE  WritableInv' /\ FiniteSections'
<1>1. PICK layout \in Layouts, names \in Asked :
        elf' = Linked(object, layout) /\ linked' = [file |-> elf', asked |-> names] /\ asked' = names
  BY DEF ld
<1>2. WellMade(elf')
  BY <1>1, LinkedWellMade DEF ld, FiniteSections
<1>3. exit' = Running /\ exit' # 1 /\ exit' # 0 /\ linked'.file = elf' /\ linked'.asked = names
  BY <1>1 DEF ld, Running
<1>4. names \in Seq(Seq(STRING)) /\ Len(names) \in Nat
  BY AskedAssumption, LenProperties
<1>5. Processed' = 0
  BY <1>1, <1>3, <1>4 DEF Processed
<1>6. Done' = {}
  <2>1. Names(0)' = <<>>
    BY <1>3, SubSeqEmpty DEF Names
  <2>2. Names(Processed)' = <<>>
    BY <1>5, <2>1 DEF Names
  <2>3. ToSet(<<>>) = {}
    BY DEF ToSet
  <2>4. Requested(Names(Processed))' = {}
    BY <2>2, <2>3 DEF Requested
  <2> QED BY <2>4 DEF Done
<1>7. elf' = Writable(linked'.file, Done')
  BY <1>2, <1>3, <1>6, WritableNone
<1>8. Reported'
  BY <1>3 DEF Reported
<1>9. \A i \in 1 .. Len(asked') : asked'[i] = linked'.asked[Len(linked'.asked) - Len(asked') + i]
  <2> DEFINE l == Len(names)
  <2>1. ASSUME NEW i \in 1 .. l PROVE l - l + i = i
    <3> HIDE DEF l
    <3> QED BY <1>4 DEF l
  <2> QED BY <1>1, <1>3, <2>1
<1>10. Len(asked') <= Len(linked'.asked) /\ asked' \in Seq(Seq(STRING))
  BY <1>1, <1>3, <1>4
<1>11. WritableInv'
  BY <1>1, <1>2, <1>3, <1>7, <1>8, <1>9, <1>10 DEF WritableInv
<1>12. FiniteSections'
  <2>1. object'.kind = "linked" /\ tables' = NoTables
    BY DEF ld
  <2>2. DOMAIN NoTables.section_limits = {} /\ "section_limits" \in DOMAIN NoTables
    BY DEF NoTables
  <2> QED BY <2>1, <2>2, FS_EmptySet DEF FiniteSections
<1> QED BY <1>11, <1>12

(* The end of main.                                                        *)
LEMMA MainEnds ==
  ASSUME WritableInv, main, linked' = linked
  PROVE  WritableInv'
<1>1. exit = Running /\ exit # NotRun /\ exit # 1 /\ exit # 0
  <2>1. exit = Running
    BY DEF main
  <2> QED BY <2>1 DEF Running, NotRun
<1>2. elf' = elf /\ asked' = asked
  BY DEF main
<1>3. elf.kind = linked.file.kind
  BY <1>1 DEF WritableInv, Writable, FileOf
<1>4. \/ linked.file.kind \notin Elf \cup {"other class"} /\ exit' = 1
      \/ linked.file.kind \in Elf /\ asked = <<>> /\ exit' = 0
      \/ linked.file.kind = "other class" /\ exit' = 0
  BY <1>3 DEF main, Elf
<1>5. Processed' = Processed
  BY <1>1, <1>2, <1>4 DEF Processed, Elf
<1>6. Done' = Done
  BY <1>5 DEF Done, Requested, Names
<1>7. Reported'
  <2>1. asked = <<>> => Processed = Len(linked.asked)
    <3>1. Len(linked.asked) \in Nat
      BY <1>1, AskedAssumption, LenProperties DEF WritableInv
    <3> QED BY <1>1, <3>1 DEF Processed
  <2> DEFINE kind == linked.file.kind
  <2>4. exit' # 0 \/ exit' # 1
    OBVIOUS
  <2>5. /\ exit' = 0 => asked = <<>> \/ kind = "other class"
        /\ exit' = 1 => kind \notin Elf \cup {"other class"}
    <3> HIDE DEF kind
    <3>1. \/ kind \notin Elf \cup {"other class"} /\ exit' = 1
          \/ kind \in Elf /\ asked = <<>> /\ exit' = 0
          \/ kind = "other class" /\ exit' = 0
      BY <1>4 DEF kind
    <3> QED BY <2>4, <3>1, Zenon
  <2>2. exit' = 0 => Processed' = Len(linked'.asked) \/ linked'.file.kind = "other class"
    BY <1>5, <2>1, <2>5, Zenon
  <2>3. exit' = 1 => linked'.file.kind \notin Elf \cup {"other class"}
    BY <2>5, Zenon
  <2> QED BY <2>2, <2>3, Zenon DEF Reported
<1> QED BY <1>1, <1>2, <1>4, <1>6, <1>7 DEF WritableInv

(* Every step keeps both. *)
LEMMA WritableStep ==
  ASSUME WritableInv, FiniteSections, [Next]_vars
  PROVE  WritableInv' /\ FiniteSections'
<1>1. ASSUME linked' = linked, elfVars' = elfVars
      PROVE  WritableInv'
  <2>1. elf' = elf /\ asked' = asked /\ exit' = exit
    BY <1>1 DEF elfVars
  <2>2. Processed' = Processed
    BY <1>1, <2>1 DEF Processed
  <2>3. Done' = Done /\ (Reported <=> Reported')
    BY <1>1, <2>1, <2>2 DEF Done, Requested, Names, Reported
  <2> QED BY <1>1, <2>1, <2>3 DEF WritableInv
<1>2. ASSUME linkVars' = linkVars
      PROVE  FiniteSections'
  BY <1>2 DEF FiniteSections, linkVars
<1>3. CASE LinkerNext /\ UNCHANGED <<elfVars, linked>>
  BY <1>1, <1>3, LinkerKeepsFinite
<1>4. CASE ld
  BY <1>4, FileLinked
<1>5. CASE process32 /\ UNCHANGED <<linkVars, linked>>
  <2>1. exit = Running /\ asked # <<>> /\ elf.kind \in Elf /\ process32l(asked[1]) /\ asked' = Tail(asked)
    BY <1>5 DEF process32, Elf
  <2> QED BY <1>2, <1>5, <2>1, NameProcessed
<1>6. CASE process64 /\ UNCHANGED <<linkVars, linked>>
  <2>1. exit = Running /\ asked # <<>> /\ elf.kind \in Elf /\ process32l(asked[1]) /\ asked' = Tail(asked)
    BY <1>6 DEF process64, process64l, Elf
  <2> QED BY <1>2, <1>6, <2>1, NameProcessed
<1>7. CASE main /\ UNCHANGED <<linkVars, linked>>
  BY <1>2, <1>7, MainEnds
<1>8. CASE UNCHANGED vars
  BY <1>1, <1>2, <1>8 DEF vars
<1> QED BY <1>3, <1>4, <1>5, <1>6, <1>7, <1>8 DEF Next

(* The invariant says of the file what the property does. *)
LEMMA WritableImplies ==
  ASSUME WritableInv
  PROVE  WritableRight
<1> SUFFICES ASSUME exit # NotRun PROVE WritableRight
  BY DEF WritableRight
<1> DEFINE file == linked.file
           n == Len(file.sections)
           S == Done
           J == {j \in DOMAIN file.segments : \E i \in S : Holds(j, i)}
<1>1. WellMade(file) /\ n \in Nat /\ elf = Writable(file, S) /\ Reported
  BY DEF WritableInv, WellMade
<1>2. S \subseteq 1 .. n
  BY <1>1 DEF Done, Requested, WellMade
<1>3. ASSUME NEW j \in 1 .. n, NEW i \in 1 .. n
      PROVE  Holds(j, i) <=> HeldBy(file, j, i)
  <2>1. /\ file.sections[i].off = 100 * i /\ file.sections[i].size = 50 /\ file.segments[j].off = 100 * j
    BY <1>1, SectionIs
  <2>2. file.segments[j].filesz \in Nat
    BY <1>1 DEF WellMade
  <2> DEFINE size == file.segments[j].filesz
  <2>3. i \in Nat /\ j \in Nat /\ size \in Nat
    BY <1>1, <2>2
  <2> HIDE DEF size
  <2>4. /\ 100 * j \in 0 .. 100 * i <=> 100 * j <= 100 * i
        /\ 100 * i + 50 + 1 = 100 * i + 51
    BY <2>3
  <2> QED BY <2>1, <2>4 DEF Holds, HeldBy, size
<1>4. \A j \in 1 .. n : j \in J <=> \E i \in S : HeldBy(file, j, i)
  <2>1. DOMAIN file.segments = 1 .. n
    BY <1>1 DEF WellMade
  <2> HIDE DEF n, S, file
  <2> QED BY <1>2, <1>3, <2>1
<1>5. elf = [file EXCEPT !.sections = MadeWritable(@, S), !.segments = MadeWritable(@, J)]
  <2> HIDE DEF S, J, file
  <2>1. \A j \in 1 .. Len(file.sections) : j \in J <=> \E i \in S : HeldBy(file, j, i)
    BY <1>4
  <2> QED BY <1>1, <2>1, FlagsSet
<1>6. S = IF file.shstr = 0 THEN {} ELSE Requested(SubSeq(linked.asked, 1, Processed))
  BY DEF Done, Names
<1>7. Processed = Len(linked.asked) - Len(asked) - (IF exit = 1 /\ file.kind \in {"ELF32", "ELF64"} THEN 1 ELSE 0)
  BY DEF Processed, Elf
<1>8. /\ exit = 0 => Processed = Len(linked.asked) \/ file.kind = "other class"
      /\ exit = 1 => \/ file.kind \notin {"ELF32", "ELF64", "other class"}
                     \/ Cut(file) \/ NamesLast(file) \/ TooLong(file, linked.asked)
  BY <1>1 DEF Reported, Elf
<1> HIDE DEF S
<1> QED BY <1>5, <1>6, <1>7, <1>8, Zenon DEF WritableRight

(* After every step of make-elf-writable, and after a failure, the file is *)
(* what the linker wrote with the sections of the names done so far, and   *)
(* the segments that hold them, writable and nothing else; it reports      *)
(* success when all is done and failure only of a file that is refused or  *)
(* cut short, whose names end it, or that a name asked for could be longer *)
(* than (make-elf-writable.c).                                             *)
THEOREM FileMadeWritable == Spec => []WritableRight
<1>1. Init => WritableInv /\ FiniteSections
  <2> SUFFICES ASSUME Init PROVE WritableInv /\ FiniteSections
    OBVIOUS
  <2>1. exit = NotRun /\ object.kind = "compiled" /\ tables = NoTables
    BY DEF Init, LinkerInit
  <2>2. DOMAIN NoTables.section_limits = {} /\ "section_limits" \in DOMAIN NoTables
    BY DEF NoTables
  <2> QED BY <2>1, <2>2, FS_EmptySet DEF WritableInv, FiniteSections
<1>2. WritableInv /\ FiniteSections /\ [Next]_vars => (WritableInv /\ FiniteSections)'
  BY WritableStep
<1>3. WritableInv => WritableRight
  BY WritableImplies
<1> QED BY <1>1, <1>2, <1>3, PTL DEF Spec
=============================================================================
