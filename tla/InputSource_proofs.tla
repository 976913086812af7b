-------------------------- MODULE InputSource_proofs --------------------------
(***************************************************************************)
(* Theorems about nested input sources, for every number of files, strings, *)
(* blocks, lines and words and every depth.                                *)
(***************************************************************************)
EXTENDS InputSource, SequenceTheorems, TLAPS

Kinds == {"quit", "evaluate", "include", "load"}
Files == [file : File, pos : 0 .. LineCount]
Saves == [ptr : Places, pao : 0 .. WordCount, blk : Block \cup {0}, sid : Int,
          chars : Seq(FileLines), pos : Seq(0 .. LineCount), reading : Lines]
Levels == [kind : Kinds, caught : BOOLEAN, saved : Saves \cup {None}]

(* LINE-PTR points into the kind of place that BLK and SOURCE-ID tell.     *)
Points(p, b, s) == p[1] = IF b # 0 THEN "buffer" ELSE IF s = -1 THEN "string" ELSE "line"

(* What SAVE-INPUT saved with open files open, and RESTORE-INPUT can take. *)
Restorable(s, open) ==
  /\ s \in Saves
  /\ s.sid \in -1 .. open
  /\ Points(s.ptr, s.blk, s.sid)
  /\ s.chars # <<>> <=> (s.blk = 0 /\ s.sid # -1)
  /\ s.pos # <<>> <=> (s.blk = 0 /\ s.sid > 0)

InputOK ==
  /\ sid \in -1 .. Len(fds) /\ blk \in Block \cup {0}
  /\ ptr \in Places
  /\ pao \in 0 .. WordCount
  /\ lineBuf \in FileLines /\ reading \in Lines
  /\ assoc \in [1 .. 2 -> Block \cup {0}] /\ bufI \in 1 .. 2
  /\ fds \in Seq(Files) /\ Len(fds) <= MaxOpen
  /\ exc \in {0, -1, -38}
  /\ Points(ptr, blk, sid)
LevelsOK ==
  /\ act \in Seq(Levels) /\ Len(act) <= MaxDepth
  /\ \A k \in 1 .. Len(act) : k = 1 <=> act[k].kind = "quit"
  /\ \A k \in 2 .. Len(act) : /\ Restorable(act[k].saved, Len(fds))
                              /\ Tells(act[k - 1].kind, act[k].saved.sid, act[k].saved.blk)
TopOK == act # <<>> => Tells(Top.kind, sid, blk)

InputInv == InputOK /\ LevelsOK /\ TopOK
-----------------------------------------------------------------------------
LEMMA Bounds ==
  /\ LineCount \in Nat /\ WordCount \in Nat /\ MaxDepth \in Nat /\ MaxOpen \in Nat
  /\ LineCount > 0 /\ WordCount > 0 /\ MaxDepth > 0 /\ MaxOpen > 0
  /\ Block \subseteq Nat /\ 0 \notin Block
BY InputAssumption

(* The top level, and what lies under it. *)
LEMMA Levelled ==
  ASSUME LevelsOK, act # <<>>
  PROVE  /\ Len(act) \in 1 .. MaxDepth /\ Top \in Levels /\ Top.kind \in Kinds
         /\ Top.kind # "quit" => /\ Len(act) \in 2 .. MaxDepth /\ Front(act) # <<>>
                                 /\ Restorable(Top.saved, Len(fds))
                                 /\ Tells(act[Len(act) - 1].kind, Top.saved.sid, Top.saved.blk)
         /\ Front(act) \in Seq(Levels) /\ Len(Front(act)) = Len(act) - 1
         /\ \A k \in 1 .. Len(act) - 1 : Front(act)[k] = act[k]
<1> DEFINE n == Len(act)
<1>1. act \in Seq(Levels) /\ n \in Nat /\ n # 0 /\ n <= MaxDepth
  BY EmptySeq, LenProperties DEF LevelsOK
<1>2. n \in 1 .. MaxDepth /\ n \in 1 .. n
  BY <1>1, Bounds
<1>3. Top \in Levels /\ Top.kind \in Kinds
  <2> HIDE DEF n
  <2>1. act[n] \in Levels
    BY <1>1, <1>2, ElementOfSeq DEF n
  <2> QED BY <2>1 DEF Top, Levels, n
<1>4. \A i \in 1 .. n - 1 : act[i] \in Levels
  <2>1. \A i \in 1 .. n - 1 : i \in 1 .. n
    BY <1>1
  <2> QED BY <1>1, <2>1, ElementOfSeq
<1>5. /\ Front(act) \in Seq(Levels) /\ Len(Front(act)) = n - 1
      /\ \A k \in 1 .. n - 1 : Front(act)[k] = act[k]
  <2>1. n - 1 \in Int /\ 1 \in Int /\ (1 <= n - 1 => (n - 1) - 1 + 1 = n - 1) /\ (~(1 <= n - 1) => n - 1 = 0)
    BY <1>2
  <2>2. /\ SubSeq(act, 1, n - 1) \in Seq(Levels)
        /\ Len(SubSeq(act, 1, n - 1)) = IF 1 <= n - 1 THEN (n - 1) - 1 + 1 ELSE 0
        /\ \A i \in 1 .. (n - 1) - 1 + 1 : SubSeq(act, 1, n - 1)[i] = act[1 + i - 1]
    BY <1>4, <2>1, SubSeqProperties
  <2> HIDE DEF n
  <2>3. \A i \in 1 .. n - 1 : i \in 1 .. (n - 1) - 1 + 1 /\ 1 + i - 1 = i
    BY <1>1
  <2> QED BY <2>1, <2>2, <2>3 DEF Front, n
<1>6. ASSUME Top.kind # "quit"
      PROVE  /\ n \in 2 .. MaxDepth /\ Front(act) # <<>>
             /\ Restorable(Top.saved, Len(fds)) /\ Tells(act[n - 1].kind, Top.saved.sid, Top.saved.blk)
  <2>1. n # 1
    BY <1>2, <1>6 DEF LevelsOK, Top
  <2>2. n \in 2 .. MaxDepth /\ n \in 2 .. n /\ n - 1 # 0
    BY <1>2, <2>1, Bounds
  <2> QED BY <1>5, <2>2, EmptySeq DEF LevelsOK, Top
<1> QED BY <1>2, <1>3, <1>5, <1>6

(* A step that stays at its level, and goes on in a source of that kind.   *)
LEMMA StayStep ==
  ASSUME InputInv, UNCHANGED act, InputOK', Len(fds') >= Len(fds), TopOK'
  PROVE  InputInv'
<1>1. Len(fds) \in Nat /\ Len(fds') \in Nat
  BY LenProperties DEF InputInv, InputOK
<1>2. \A s : Restorable(s, Len(fds)) => Restorable(s, Len(fds'))
  BY <1>1 DEF Restorable
<1>3. LevelsOK'
  BY <1>2 DEF InputInv, LevelsOK
<1> QED BY <1>3 DEF InputInv

(* A sequence of one element, or none. *)
LEMMA Single ==
  ASSUME NEW S, NEW x \in S
  PROVE  <<x>> \in Seq(S) /\ <<x>> # <<>> /\ <<>> \in Seq(S) /\ Head(<<x>>) = x
OBVIOUS

(* SAVE-INPUT saves what RESTORE-INPUT takes: a file is never read while   *)
(* BLK names a block.                                                      *)
LEMMA Saved ==
  ASSUME InputInv, AtWord
  PROVE  /\ Restorable(SAVE_INPUT, Len(fds))
         /\ SAVE_INPUT.ptr = ptr /\ SAVE_INPUT.reading = reading
         /\ SAVE_INPUT.blk = blk /\ SAVE_INPUT.sid = sid
         /\ blk = 0 /\ sid # -1 => Head(SAVE_INPUT.chars) = lineBuf
<1> DEFINE s == SAVE_INPUT
           chars == IF blk = 0 /\ sid # -1 THEN <<lineBuf>> ELSE <<>>
           pos == IF sid > 0 THEN <<fds[sid].pos>> ELSE <<>>
<1>1. s = [ptr |-> ptr, pao |-> pao + 1, blk |-> blk, sid |-> sid, chars |-> chars, pos |-> pos, reading |-> reading]
  BY DEF SAVE_INPUT
<1>2. InputOK /\ act # <<>> /\ pao < WordCount /\ Tells(Top.kind, sid, blk)
  BY DEF InputInv, TopOK, AtWord
<1>3. chars \in Seq(FileLines) /\ (chars # <<>> <=> blk = 0 /\ sid # -1) /\ (blk = 0 /\ sid # -1 => Head(chars) = lineBuf)
  BY <1>2, Single DEF InputOK
<1>4. sid > 0 => fds[sid].pos \in 0 .. LineCount
  <2> SUFFICES ASSUME sid > 0 PROVE fds[sid].pos \in 0 .. LineCount
    OBVIOUS
  <2>1. sid \in 1 .. Len(fds) /\ fds \in Seq(Files)
    BY <1>2, LenProperties DEF InputOK
  <2>2. fds[sid] \in Files
    BY <2>1, ElementOfSeq
  <2> QED BY <2>2 DEF Files
<1>5. pos \in Seq(0 .. LineCount) /\ (pos # <<>> <=> sid > 0)
  <2>1. CASE sid > 0
    <3>1. <<fds[sid].pos>> \in Seq(0 .. LineCount) /\ <<fds[sid].pos>> # <<>>
      BY <1>4, <2>1, Single
    <3> QED BY <2>1, <3>1
  <2>2. CASE ~(sid > 0)
    <3>1. <<>> \in Seq(0 .. LineCount)
      BY EmptySeq
    <3> QED BY <2>2, <3>1
  <2> QED BY <2>1, <2>2
<1>6. sid > 0 => blk = 0
  BY <1>2 DEF Tells
<1>7. pao + 1 \in 0 .. WordCount /\ sid \in Int /\ sid \in -1 .. Len(fds)
  BY <1>2, Bounds DEF InputOK
<1> HIDE DEF chars, pos, s
<1>8. s \in Saves
  BY <1>1, <1>2, <1>3, <1>5, <1>7 DEF Saves, InputOK
<1>9. /\ s.ptr = ptr /\ s.blk = blk /\ s.sid = sid /\ s.reading = reading
      /\ s.chars = chars /\ s.pos = pos
  BY <1>1
<1>10. Restorable(s, Len(fds))
  BY <1>2, <1>3, <1>5, <1>6, <1>7, <1>8, <1>9 DEF Restorable, InputOK
<1> QED BY <1>3, <1>9, <1>10 DEF s

(* A source is entered. *)
LEMMA EnterStep ==
  ASSUME InputInv, CanNest, NEW kind \in Kinds \ {"quit"}, NEW c \in BOOLEAN, Enter(kind, c),
         InputOK', Len(fds') >= Len(fds), Tells(kind, sid', blk')
  PROVE  InputInv'
<1> DEFINE n == Len(act)
           e == [kind |-> kind, caught |-> c, saved |-> SAVE_INPUT]
<1>1. /\ Restorable(SAVE_INPUT, Len(fds)) /\ SAVE_INPUT.sid = sid /\ SAVE_INPUT.blk = blk
      /\ act # <<>> /\ n < MaxDepth
  BY Saved DEF CanNest, AtWord
<1>2. act \in Seq(Levels) /\ n \in 1 .. MaxDepth /\ InputOK /\ LevelsOK /\ Tells(Top.kind, sid, blk)
  BY <1>1, Levelled DEF InputInv, LevelsOK, TopOK
<1>3. act' = Append(act, e)
  BY DEF Enter
<1>4. e \in Levels /\ e.kind = kind /\ e.saved = SAVE_INPUT
  BY <1>1 DEF Levels, Restorable
<1> HIDE DEF e, n
<1>5. /\ act' \in Seq(Levels) /\ act' # <<>> /\ Len(act') = n + 1
      /\ \A k \in 1 .. n : act'[k] = act[k]
      /\ act'[n + 1] = e
  BY <1>2, <1>3, <1>4, AppendProperties DEF n
<1>6. \A s : Restorable(s, Len(fds)) => Restorable(s, Len(fds'))
  <2>1. Len(fds) \in Nat /\ Len(fds') \in Nat
    BY LenProperties DEF InputInv, InputOK
  <2> QED BY <2>1 DEF Restorable
<1>7. ASSUME NEW k \in 1 .. n + 1 PROVE k = 1 <=> act'[k].kind = "quit"
  <2>1. k \in 1 .. n \/ (k = n + 1 /\ k # 1)
    BY <1>2
  <2> QED BY <1>2, <1>4, <1>5, <2>1 DEF LevelsOK, n
<1>8. ASSUME NEW k \in 2 .. n + 1
      PROVE  /\ Restorable(act'[k].saved, Len(fds'))
             /\ Tells(act'[k - 1].kind, act'[k].saved.sid, act'[k].saved.blk)
  <2>1. CASE k = n + 1
    <3>1. k - 1 = n /\ n \in 1 .. n
      BY <1>2, <2>1
    <3>2. act'[k] = e /\ act'[k - 1] = Top
      BY <1>5, <2>1, <3>1 DEF Top, n
    <3> QED BY <1>1, <1>2, <1>4, <1>6, <3>2
  <2>2. CASE k # n + 1
    <3>1. k \in 2 .. n /\ k \in 1 .. n /\ k - 1 \in 1 .. n
      BY <1>2, <2>2
    <3> QED BY <1>2, <1>5, <1>6, <3>1 DEF LevelsOK, n
  <2> QED BY <2>1, <2>2
<1>9. n + 1 <= MaxDepth
  BY <1>1, <1>2, Bounds DEF n
<1>10. LevelsOK'
  BY <1>5, <1>7, <1>8, <1>9 DEF LevelsOK
<1>11. TopOK'
  BY <1>4, <1>5 DEF TopOK, Top
<1> QED BY <1>10, <1>11 DEF InputInv

(* A source is left, at its end or by an exception. *)
LEMMA LeaveStep ==
  ASSUME InputInv, act # <<>>, Top.kind # "quit", Leave, RESTORE_INPUT(Top.saved), UNCHANGED <<assoc, bufI>>,
         exc' \in {0, -1, -38}
  PROVE  InputInv'
<1> DEFINE s == Top.saved
           n == Len(act)
<1>1. InputOK /\ LevelsOK
  BY DEF InputInv
<1>2. /\ n \in 2 .. MaxDepth /\ Restorable(s, Len(fds)) /\ Tells(act[n - 1].kind, s.sid, s.blk)
      /\ Front(act) # <<>> /\ Front(act) \in Seq(Levels) /\ Len(Front(act)) = n - 1
      /\ \A k \in 1 .. n - 1 : Front(act)[k] = act[k]
  BY <1>1, Levelled
<1>3. /\ ptr' = s.ptr /\ pao' = s.pao /\ blk' = s.blk /\ sid' = s.sid /\ reading' = s.reading
      /\ lineBuf' = IF s.blk = 0 /\ s.sid # -1 THEN Head(s.chars) ELSE lineBuf
      /\ fds' = IF s.blk = 0 /\ s.sid > 0 THEN [fds EXCEPT ![s.sid].pos = Head(s.pos)] ELSE fds
      /\ act' = Front(act)
  BY DEF RESTORE_INPUT, Leave
<1> HIDE DEF s, n
<1>4. /\ s \in Saves /\ s.sid \in -1 .. Len(fds) /\ Points(s.ptr, s.blk, s.sid)
      /\ s.chars # <<>> <=> (s.blk = 0 /\ s.sid # -1)
      /\ s.pos # <<>> <=> (s.blk = 0 /\ s.sid > 0)
      /\ s.ptr \in Places /\ s.pao \in 0 .. WordCount /\ s.blk \in Block \cup {0}
      /\ s.chars \in Seq(FileLines) /\ s.pos \in Seq(0 .. LineCount) /\ s.reading \in Lines
  BY <1>2 DEF Restorable, Saves
<1>5. lineBuf' \in FileLines
  BY <1>1, <1>3, <1>4, HeadTailProperties DEF InputOK
<1>6. fds' \in Seq(Files) /\ Len(fds') = Len(fds)
  <2>1. CASE s.blk = 0 /\ s.sid > 0
    <3>1. Head(s.pos) \in 0 .. LineCount
      BY <1>4, <2>1, HeadTailProperties
    <3>2. fds \in Seq(Files) /\ s.sid \in 1 .. Len(fds)
      BY <1>1, <1>4, <2>1, LenProperties DEF InputOK
    <3>3. fds[s.sid] \in Files
      BY <3>2, ElementOfSeq
    <3>4. [fds[s.sid] EXCEPT !.pos = Head(s.pos)] \in Files
      BY <3>1, <3>3 DEF Files
    <3>5. fds' = [fds EXCEPT ![s.sid] = [fds[s.sid] EXCEPT !.pos = Head(s.pos)]]
      BY <1>3, <2>1
    <3> QED BY <3>2, <3>4, <3>5, ExceptSeq
  <2>2. CASE ~(s.blk = 0 /\ s.sid > 0)
    BY <1>1, <1>3, <2>2 DEF InputOK
  <2> QED BY <2>1, <2>2
<1>7. InputOK'
  BY <1>1, <1>3, <1>4, <1>5, <1>6 DEF InputOK
<1>8. n - 1 <= MaxDepth /\ \A k \in 1 .. n - 1 : k \in 1 .. n /\ (k \in 2 .. n - 1 => k \in 2 .. n /\ k - 1 \in 1 .. n - 1)
  BY <1>2, Bounds
<1>9. LevelsOK'
  <2>1. ASSUME NEW k \in 1 .. n - 1 PROVE k = 1 <=> act'[k].kind = "quit"
    BY <1>1, <1>2, <1>3, <1>8 DEF LevelsOK, n
  <2>2. ASSUME NEW k \in 2 .. n - 1
        PROVE  /\ Restorable(act'[k].saved, Len(fds'))
               /\ Tells(act'[k - 1].kind, act'[k].saved.sid, act'[k].saved.blk)
    <3>1. k \in 1 .. n - 1
      BY <1>2
    <3>2. k \in 2 .. n /\ k - 1 \in 1 .. n - 1
      BY <1>8, <3>1
    <3> QED BY <1>1, <1>2, <1>3, <1>6, <3>1, <3>2 DEF LevelsOK, n
  <2> QED BY <1>2, <1>3, <1>8, <2>1, <2>2 DEF LevelsOK
<1>10. TopOK'
  <2>1. n - 1 \in 1 .. n - 1
    BY <1>2
  <2>2. Top' = act[n - 1]
    BY <1>2, <1>3, <2>1 DEF Top
  <2> QED BY <1>2, <1>3, <2>2 DEF TopOK
<1> QED BY <1>7, <1>9, <1>10 DEF InputInv

(* BLOCK leaves LINE-PTR in a buffer that holds the block. *)
LEMMA Fetched ==
  ASSUME InputOK, NEW b \in Block, FromBlock(b)
  PROVE  /\ assoc' \in [1 .. 2 -> Block \cup {0}] /\ bufI' \in 1 .. 2
         /\ ptr' \in Places /\ ptr'[1] = "buffer"
         /\ pao' = 0 /\ reading' \in Lines
         /\ b # 0 /\ Content(ptr)' = reading'
<1>1. PICK i \in 1 .. 2 :
        /\ FreeLoads \/ assoc[i] = b \/ ~InUse(i)
        /\ assoc' = [assoc EXCEPT ![i] = b] /\ bufI' = i
        /\ ptr' = <<"buffer", i>> /\ pao' = 0 /\ reading' = BlockLine(b)
  BY DEF FromBlock
<1>2. assoc \in [1 .. 2 -> Block \cup {0}] /\ b # 0
  BY Bounds DEF InputOK
<1>3. assoc'[i] = b /\ ptr'[1] = "buffer" /\ ptr'[2] = i
  BY <1>1, <1>2
<1>4. ptr' \in Places
  BY <1>1 DEF Places
<1>5. reading' \in Lines
  BY <1>1 DEF Lines, BlockLine
<1>6. Content(ptr)' = BlockLine(b)
  BY <1>3 DEF Content
<1> QED BY <1>1, <1>2, <1>3, <1>4, <1>5, <1>6

(* REFILL leaves it at LINE-BUFFER, with the next line of the file.        *)
LEMMA Refilled ==
  ASSUME NEW open \in Seq(Files), NEW d \in 1 .. Len(open), open[d].pos < LineCount, RefillFile(d, open)
  PROVE  /\ fds' \in Seq(Files) /\ Len(fds') = Len(open)
         /\ lineBuf' \in FileLines /\ reading' \in Lines /\ reading' = lineBuf'
         /\ ptr' \in Places /\ ptr'[1] = "line" /\ pao' = 0
<1>1. open[d] \in Files
  BY ElementOfSeq
<1>2. open[d].pos \in 0 .. LineCount /\ open[d].file \in File
  BY <1>1 DEF Files
<1>3. open[d].pos + 1 \in 1 .. LineCount /\ open[d].pos + 1 \in 0 .. LineCount
  BY <1>2, Bounds
<1>4. [open[d] EXCEPT !.pos = @ + 1] \in Files
  BY <1>1, <1>3 DEF Files
<1>5. fds' = [open EXCEPT ![d] = [open[d] EXCEPT !.pos = @ + 1]]
  BY DEF RefillFile
<1>6. fds' \in Seq(Files) /\ Len(fds') = Len(open)
  BY <1>4, <1>5, ExceptSeq
<1>7. lineBuf' = <<"file", open[d].file, open[d].pos + 1>> /\ reading' = lineBuf' /\ ptr' = <<"line">> /\ pao' = 0
  BY DEF RefillFile, Line, InBuffer
<1>8. lineBuf' \in FileLines
  BY <1>2, <1>3, <1>7 DEF FileLines
<1>9. ptr' \in Places
  BY <1>7 DEF Places, InBuffer
<1> QED BY <1>6, <1>7, <1>8, <1>9 DEF Lines

LEMMA InitInv == Init => InputInv
<1> SUFFICES ASSUME Init PROVE InputInv
  OBVIOUS
<1>1. PICK f \in File : fds = <<[file |-> f, pos |-> 1]>> /\ lineBuf = Line(f, 1)
  BY DEF Init
<1>2. /\ sid = 1 /\ blk = 0 /\ ptr = InBuffer /\ pao = 0
      /\ assoc = [i \in 1 .. 2 |-> 0] /\ bufI = 1
      /\ act = <<[kind |-> "quit", caught |-> FALSE, saved |-> None]>>
      /\ exc = 0 /\ reading = lineBuf
  BY DEF Init
<1>3. 1 \in 0 .. LineCount /\ 1 \in 1 .. LineCount /\ 0 \in 0 .. WordCount /\ 1 <= MaxOpen /\ 1 <= MaxDepth
  BY Bounds
<1>4. fds \in Seq(Files) /\ Len(fds) = 1
  BY <1>1, <1>3 DEF Files
<1>5. lineBuf \in FileLines /\ reading \in Lines
  BY <1>1, <1>2, <1>3 DEF FileLines, Lines, Line
<1>6. InputOK
  BY <1>2, <1>3, <1>4, <1>5 DEF InputOK, Places, Points, InBuffer
<1> DEFINE e == [kind |-> "quit", caught |-> FALSE, saved |-> None]
<1>7. e \in Levels /\ e.kind = "quit"
  BY DEF Levels, Kinds
<1> HIDE DEF e
<1>8. act \in Seq(Levels) /\ Len(act) = 1 /\ act[1].kind = "quit" /\ Top.kind = "quit"
  BY <1>2, <1>7 DEF Top, e
<1>9. LevelsOK
  BY <1>3, <1>8 DEF LevelsOK
<1>10. TopOK
  BY <1>2, <1>8 DEF TopOK, Tells
<1> QED BY <1>6, <1>9, <1>10 DEF InputInv

(* A word that leaves the input alone but for >IN. *)
LEMMA WordStep ==
  ASSUME InputInv, AtWord, pao' = pao + 1, exc' \in {0, -1, -38},
         UNCHANGED <<sid, blk, ptr, lineBuf, assoc, bufI, fds, act, reading>>
  PROVE  InputInv'
<1>1. pao + 1 \in 0 .. WordCount
  BY Bounds DEF InputInv, InputOK, AtWord
<1>2. InputOK'
  BY <1>1 DEF InputInv, InputOK
<1>3. TopOK'
  BY DEF InputInv, TopOK, Top
<1>4. Len(fds') >= Len(fds)
  BY LenProperties DEF InputInv, InputOK
<1> QED BY <1>2, <1>3, <1>4, StayStep

LEMMA SourceStep ==
  ASSUME InputInv, NEW c \in BOOLEAN, \/ \E s \in String : EVALUATE(s, c)
                                      \/ \E f \in File : INCLUDE(f, c)
                                      \/ \E b \in Block : LOAD(b, c)
  PROVE  InputInv'
<1>1. InputOK /\ Len(fds) \in Nat /\ fds \in Seq(Files) /\ sid \in -1 .. Len(fds) /\ 0 \in 0 .. WordCount
  BY LenProperties, Bounds DEF InputInv, InputOK
<1>2. CASE \E s \in String : EVALUATE(s, c)
  <2>1. PICK s \in String : EVALUATE(s, c)
    BY <1>2
  <2>2. /\ CanNest /\ Enter("evaluate", c) /\ sid' = -1 /\ blk' = 0
        /\ ptr' = <<"string", s>> /\ pao' = 0 /\ reading' = StringLine(s)
        /\ UNCHANGED <<lineBuf, assoc, bufI, fds, exc>>
    BY <2>1 DEF EVALUATE
  <2>3. ptr' \in Places /\ ptr'[1] = "string"
    BY <2>2 DEF Places
  <2>4. reading' \in Lines
    BY <2>2 DEF Lines, StringLine
  <2>5. InputOK'
    BY <1>1, <2>2, <2>3, <2>4 DEF InputOK, Points
  <2>6. Tells("evaluate", sid', blk')
    BY <2>2 DEF Tells
  <2>7. Len(fds') >= Len(fds) /\ "evaluate" \in Kinds \ {"quit"}
    BY <1>1, <2>2 DEF Kinds
  <2> QED BY <2>2, <2>5, <2>6, <2>7, EnterStep
<1>3. CASE \E f \in File : INCLUDE(f, c)
  <2>1. PICK f \in File : INCLUDE(f, c)
    BY <1>3
  <2> DEFINE open == Append(fds, [file |-> f, pos |-> 0])
             d == Len(fds) + 1
  <2>2. /\ CanNest /\ Len(fds) < MaxOpen /\ Enter("include", c) /\ sid' = d /\ blk' = 0
        /\ RefillFile(d, open) /\ UNCHANGED <<assoc, bufI, exc>>
    BY <2>1 DEF INCLUDE
  <2>3. [file |-> f, pos |-> 0] \in Files
    BY Bounds DEF Files
  <2>4. open \in Seq(Files) /\ Len(open) = d /\ open[d] = [file |-> f, pos |-> 0]
    BY <1>1, <2>3, AppendProperties
  <2> HIDE DEF open, d
  <2>5. d \in 1 .. Len(open) /\ open[d].pos < LineCount /\ d \in Nat /\ d > 0 /\ d <= MaxOpen
        /\ d = Len(fds) + 1 /\ d \in -1 .. d
    BY <1>1, <2>2, <2>4, Bounds DEF d
  <2>6. /\ fds' \in Seq(Files) /\ Len(fds') = Len(open)
        /\ lineBuf' \in FileLines /\ reading' \in Lines
        /\ ptr' \in Places /\ ptr'[1] = "line" /\ pao' = 0
    BY <2>2, <2>4, <2>5, Refilled
  <2>7. InputOK'
    BY <1>1, <2>2, <2>4, <2>5, <2>6 DEF InputOK, Points
  <2>8. Tells("include", sid', blk')
    BY <2>2, <2>5 DEF Tells
  <2>9. Len(fds') >= Len(fds) /\ "include" \in Kinds \ {"quit"}
    BY <1>1, <2>4, <2>5, <2>6 DEF Kinds
  <2> QED BY <2>2, <2>7, <2>8, <2>9, EnterStep
<1>4. CASE \E b \in Block : LOAD(b, c)
  <2>1. PICK b \in Block : LOAD(b, c)
    BY <1>4
  <2>2. CanNest /\ Enter("load", c) /\ sid' = 0 /\ blk' = b /\ FromBlock(b) /\ UNCHANGED <<lineBuf, fds, exc>>
    BY <2>1 DEF LOAD
  <2>3. InputOK'
    BY <1>1, <2>2, Fetched DEF InputOK, Points
  <2>4. Tells("load", sid', blk')
    BY <1>1, <2>2, Fetched DEF Tells
  <2>5. Len(fds') >= Len(fds) /\ "load" \in Kinds \ {"quit"}
    BY <1>1, <2>2 DEF Kinds
  <2> QED BY <2>2, <2>3, <2>4, <2>5, EnterStep
<1> QED BY <1>2, <1>3, <1>4

(* REFILL, called by a word or at the end of a line. *)
LEMMA RefillStep ==
  ASSUME InputInv, REFILL \/ NextLine
  PROVE  InputInv'
<1>1. /\ InputOK /\ Len(fds) \in Nat /\ fds \in Seq(Files) /\ sid \in -1 .. Len(fds) /\ 0 \in 0 .. WordCount
      /\ act # <<>> /\ Tells(Top.kind, sid, blk) /\ UNCHANGED <<sid, act, exc>>
  BY LenProperties, Bounds DEF InputInv, InputOK, TopOK, REFILL, NextLine, AtWord, AtEnd
<1>2. CASE /\ blk + 1 \in Block /\ blk # 0 /\ blk' = blk + 1
           /\ FromBlock(blk + 1) /\ UNCHANGED <<lineBuf, fds>>
  <2>1. /\ assoc' \in [1 .. 2 -> Block \cup {0}] /\ bufI' \in 1 .. 2
        /\ ptr' \in Places /\ ptr'[1] = "buffer"
        /\ pao' = 0 /\ reading' \in Lines /\ blk' # 0
    BY <1>1, <1>2, Fetched
  <2>2. InputOK'
    BY <1>1, <1>2, <2>1 DEF InputOK, Points
  <2>3. TopOK'
    BY <1>1, <1>2, <2>1 DEF TopOK, Tells, Top
  <2>4. Len(fds') >= Len(fds)
    BY <1>1, <1>2
  <2> QED BY <1>1, <2>2, <2>3, <2>4, StayStep
<1>3. CASE sid > 0 /\ MoreLines(sid) /\ RefillFile(sid, fds) /\ UNCHANGED <<blk, assoc, bufI>> /\ blk = 0
  <2>1. sid \in 1 .. Len(fds) /\ fds[sid].pos < LineCount
    BY <1>1, <1>3 DEF MoreLines
  <2>2. /\ fds' \in Seq(Files) /\ Len(fds') = Len(fds)
        /\ lineBuf' \in FileLines /\ reading' \in Lines
        /\ ptr' \in Places /\ ptr'[1] = "line" /\ pao' = 0
    BY <1>1, <1>3, <2>1, Refilled
  <2>3. InputOK'
    BY <1>1, <1>3, <2>2 DEF InputOK, Points
  <2>4. TopOK'
    BY <1>1, <1>3 DEF TopOK, Tells, Top
  <2>5. Len(fds') >= Len(fds)
    BY <1>1, <2>2
  <2> QED BY <1>1, <2>3, <2>4, <2>5, StayStep
<1>4. NextLine => sid > 0 /\ blk = 0
  BY <1>1 DEF NextLine, Tells
<1> QED BY <1>2, <1>3, <1>4 DEF REFILL, NextLine

LEMMA QuitStep ==
  ASSUME InputInv, QuitEnds
  PROVE  InputInv'
<1>1. act' = <<>> /\ UNCHANGED <<sid, blk, ptr, pao, lineBuf, assoc, bufI, fds, exc, reading>>
  BY DEF QuitEnds, input
<1>2. InputOK'
  BY <1>1 DEF InputInv, InputOK
<1>3. act' \in Seq(Levels) /\ Len(act') = 0
  BY <1>1, EmptySeq
<1>4. LevelsOK' /\ TopOK'
  BY <1>1, <1>3, Bounds DEF LevelsOK, TopOK
<1> QED BY <1>2, <1>4 DEF InputInv

LEMMA NextInv == InputInv /\ [Next]_vars => InputInv'
<1> SUFFICES ASSUME InputInv, [Next]_vars PROVE InputInv'
  OBVIOUS
<1>1. CASE UNCHANGED vars
  BY <1>1 DEF vars, input, InputInv, InputOK, LevelsOK, TopOK, Top
<1>2. CASE Plain \/ THROW
  <2>1. exc \in {0, -1, -38}
    BY DEF InputInv, InputOK
  <2> QED BY <1>2, <2>1, WordStep DEF Plain, THROW
<1>3. CASE \E c \in BOOLEAN : INCLUDEFails(c)
  BY <1>3, WordStep DEF INCLUDEFails
<1>4. CASE REFILL \/ NextLine
  BY <1>4, RefillStep
<1>5. CASE Done
  <2>1. exc' \in {0, -1, -38}
    BY <1>5 DEF Done, InputInv, InputOK
  <2> QED BY <1>5, <2>1, LeaveStep DEF Done, AtEnd
<1>6. CASE QuitEnds
  BY <1>6, QuitStep
<1>7. CASE Unwind
  <2>1. exc' \in {0, -1, -38}
    BY <1>7 DEF Unwind, InputInv, InputOK
  <2> QED BY <1>7, <2>1, LeaveStep DEF Unwind
<1>8. CASE \E c \in BOOLEAN : \/ \E s \in String : EVALUATE(s, c)
                              \/ \E f \in File : INCLUDE(f, c)
                              \/ \E b \in Block : LOAD(b, c)
  BY <1>8, SourceStep
<1> QED BY <1>1, <1>2, <1>3, <1>4, <1>5, <1>6, <1>7, <1>8 DEF Next
-----------------------------------------------------------------------------
THEOREM InputInvariant == Spec => []InputInv
BY InitInv, NextInv, PTL DEF Spec

(* The input keeps its shape, in every source nested in another.           *)
THEOREM InputTypeCorrect == Spec => []TypeOK
<1>1. InputInv => TypeOK
  <2> SUFFICES ASSUME InputInv PROVE TypeOK
    OBVIOUS
  <2>1. \A k \in 1 .. Len(act) : act[k].kind \in Kinds
    <3> SUFFICES ASSUME NEW k \in 1 .. Len(act) PROVE act[k].kind \in Kinds
      OBVIOUS
    <3>1. act[k] \in Levels
      BY ElementOfSeq DEF InputInv, LevelsOK
    <3> QED BY <3>1 DEF Levels
  <2> QED BY <2>1 DEF InputInv, InputOK, LevelsOK, TypeOK, Files, Kinds
<1> QED BY <1>1, InputInvariant, PTL

(* SOURCE-ID and BLK tell what is interpreted, and what will be again when *)
(* each source around it goes on.                                          *)
THEOREM SourceIsTold == Spec => []SourceTold
<1>1. InputInv => SourceTold
  BY DEF InputInv, LevelsOK, TopOK, SourceTold
<1> QED BY <1>1, InputInvariant, PTL

(* RESTORE-INPUT finds as many cells as SAVE-INPUT left.                   *)
THEOREM SaveAndRestoreBalance == Spec => []SavesBalance
<1>1. InputInv => SavesBalance
  BY DEF InputInv, LevelsOK, Restorable, SavesBalance
<1> QED BY <1>1, InputInvariant, PTL
-----------------------------------------------------------------------------
(* What an interpreter is to go on in when s is put back: the characters   *)
(* saved, the string, or what lies in the buffer.                          *)
Held(s, a) ==
  /\ s.ptr[1] = "line"   => Head(s.chars) = s.reading
  /\ s.ptr[1] = "string" => StringLine(s.ptr[2]) = s.reading
  /\ s.ptr[1] = "buffer" => BlockLine(a[s.ptr[2]]) = s.reading

LineInv ==
  /\ LineIntact
  /\ \A k \in 2 .. Len(act) : Held(act[k].saved, assoc)

(* The line goes on to be held when it is saved. *)
LEMMA HeldSaved ==
  ASSUME InputInv, LineInv, AtWord
  PROVE  Held(SAVE_INPUT, assoc)
<1>1. /\ SAVE_INPUT.ptr = ptr /\ SAVE_INPUT.reading = reading
      /\ blk = 0 /\ sid # -1 => Head(SAVE_INPUT.chars) = lineBuf
  BY Saved
<1>2. Content(ptr) = reading
  BY DEF LineInv, LineIntact, AtWord
<1>3. ptr[1] = "line" => blk = 0 /\ sid # -1
  BY DEF InputInv, InputOK, Points
<1> QED BY <1>1, <1>2, <1>3 DEF Held, Content

(* No buffer is taken away from a source that is to go on. *)
LEMMA BuffersKept ==
  ASSUME InputInv, LineInv, FreeLoads = FALSE, NEW b \in Block, FromBlock(b)
  PROVE  /\ \A k \in 2 .. Len(act) : Held(act[k].saved, assoc')
         /\ AtWord => Held(SAVE_INPUT, assoc')
<1>1. PICK i \in 1 .. 2 : /\ assoc[i] = b \/ ~InUse(i)
                          /\ assoc' = [assoc EXCEPT ![i] = b]
  BY DEF FromBlock
<1>2. assoc \in [1 .. 2 -> Block \cup {0}]
  BY DEF InputInv, InputOK
<1>3. \A j \in 1 .. 2 : assoc'[j] = assoc[j] \/ (j = i /\ ~InUse(i))
  BY <1>1, <1>2
<1>4. \A p \in Places : p[1] = "buffer" => p[2] \in 1 .. 2 /\ p = <<"buffer", p[2]>>
  BY DEF Places, InBuffer
<1>5. ASSUME NEW k \in 2 .. Len(act) PROVE Held(act[k].saved, assoc')
  <2>1. Held(act[k].saved, assoc) /\ act[k].saved.ptr \in Places
    BY DEF LineInv, InputInv, LevelsOK, Restorable, Saves
  <2>2. ASSUME act[k].saved.ptr[1] = "buffer" PROVE assoc'[act[k].saved.ptr[2]] = assoc[act[k].saved.ptr[2]]
    <3>1. act[k].saved.ptr[2] \in 1 .. 2 /\ act[k].saved.ptr = <<"buffer", act[k].saved.ptr[2]>>
      BY <1>4, <2>1, <2>2
    <3>2. InUse(act[k].saved.ptr[2])
      BY <3>1 DEF InUse
    <3> QED BY <1>3, <3>1, <3>2
  <2> QED BY <2>1, <2>2 DEF Held
<1>6. ASSUME AtWord PROVE Held(SAVE_INPUT, assoc')
  <2>1. Held(SAVE_INPUT, assoc) /\ SAVE_INPUT.ptr = ptr /\ ptr \in Places
    BY <1>6, HeldSaved, Saved DEF InputInv, InputOK
  <2>2. ASSUME ptr[1] = "buffer" PROVE assoc'[ptr[2]] = assoc[ptr[2]]
    <3>1. ptr[2] \in 1 .. 2 /\ ptr = <<"buffer", ptr[2]>>
      BY <1>4, <2>1, <2>2
    <3>2. InUse(ptr[2])
      BY <3>1 DEF InUse
    <3> QED BY <1>3, <3>1, <3>2
  <2> HIDE DEF SAVE_INPUT
  <2> QED BY <2>1, <2>2 DEF Held
<1> QED BY <1>5, <1>6

(* A source entered: the others are held under it. *)
LEMMA HeldEnter ==
  ASSUME InputInv, NEW kind, NEW c, Enter(kind, c), Content(ptr)' = reading',
         \A k \in 2 .. Len(act) : Held(act[k].saved, assoc'), Held(SAVE_INPUT, assoc')
  PROVE  LineInv'
<1> DEFINE n == Len(act)
           e == [kind |-> kind, caught |-> c, saved |-> SAVE_INPUT]
<1>1. act \in Seq(Levels) /\ n \in Nat
  BY LenProperties DEF InputInv, LevelsOK
<1>2. act' = Append(act, e) /\ e.saved = SAVE_INPUT
  BY DEF Enter
<1> HIDE DEF e, n
<1>3. /\ Len(act') = n + 1 /\ act'[n + 1] = e
      /\ \A k \in 1 .. n : act'[k] = act[k]
  BY <1>1, <1>2 DEF n
<1>4. ASSUME NEW k \in 2 .. n + 1 PROVE Held(act'[k].saved, assoc')
  <2>1. (k \in 2 .. n /\ k \in 1 .. n) \/ k = n + 1
    BY <1>1
  <2> QED BY <1>2, <1>3, <2>1 DEF n
<1> QED BY <1>3, <1>4 DEF LineInv, LineIntact

LEMMA HeldStay ==
  ASSUME UNCHANGED act, Content(ptr)' = reading', \A k \in 2 .. Len(act) : Held(act[k].saved, assoc')
  PROVE  LineInv'
BY DEF LineInv, LineIntact

LEMMA HeldLeave ==
  ASSUME InputInv, LineInv, act # <<>>, Top.kind # "quit", Leave, RESTORE_INPUT(Top.saved), UNCHANGED assoc
  PROVE  LineInv'
<1> DEFINE s == Top.saved
           n == Len(act)
<1>1. /\ n \in 2 .. MaxDepth /\ n \in 2 .. n /\ Restorable(s, Len(fds)) /\ Len(Front(act)) = n - 1
      /\ \A k \in 1 .. n - 1 : Front(act)[k] = act[k]
  BY Levelled DEF InputInv
<1>2. Held(s, assoc)
  BY <1>1 DEF LineInv, Top
<1>3. /\ ptr' = s.ptr /\ blk' = s.blk /\ sid' = s.sid /\ reading' = s.reading
      /\ lineBuf' = IF s.blk = 0 /\ s.sid # -1 THEN Head(s.chars) ELSE lineBuf
      /\ act' = Front(act)
  BY DEF RESTORE_INPUT, Leave
<1> HIDE DEF s, n
<1>4. Points(s.ptr, s.blk, s.sid)
  BY <1>1 DEF Restorable
<1>5. Content(ptr)' = reading'
  BY <1>2, <1>3, <1>4 DEF Content, Points, Held
<1>6. ASSUME NEW k \in 2 .. n - 1 PROVE Held(act'[k].saved, assoc')
  <2>1. k \in 1 .. n - 1 /\ k \in 2 .. n
    BY <1>1
  <2> QED BY <1>1, <1>3, <2>1 DEF LineInv, n
<1> QED BY <1>1, <1>3, <1>5, <1>6 DEF LineInv, LineIntact

LEMMA LineNext ==
  ASSUME FreeLoads = FALSE, InputInv, LineInv, [Next]_vars
  PROVE  LineInv'
<1>1. CASE UNCHANGED vars
  BY <1>1 DEF vars, input, LineInv, LineIntact, Content
<1>2. CASE Plain \/ THROW \/ \E c \in BOOLEAN : INCLUDEFails(c)
  BY <1>2 DEF Plain, THROW, INCLUDEFails, LineInv, LineIntact, Content
<1>3. CASE Done \/ Unwind
  BY <1>3, HeldLeave DEF Done, Unwind, AtEnd
<1>4. CASE QuitEnds
  <2>1. act' = <<>> /\ Len(act') = 0
    BY <1>4, EmptySeq DEF QuitEnds
  <2> QED BY <2>1 DEF LineInv, LineIntact
<1>5. fds \in Seq(Files) /\ Len(fds) \in Nat /\ sid \in -1 .. Len(fds) /\ InputOK
  BY LenProperties DEF InputInv, InputOK
<1>6. CASE REFILL \/ NextLine
  <2>1. UNCHANGED act
    BY <1>6 DEF REFILL, NextLine
  <2>2. CASE blk + 1 \in Block /\ FromBlock(blk + 1)
    BY <1>5, <2>1, <2>2, Fetched, BuffersKept, HeldStay
  <2>3. CASE RefillFile(sid, fds) /\ UNCHANGED assoc
    <3>1. ptr' = InBuffer /\ lineBuf' = reading'
      BY <2>3 DEF RefillFile
    <3>2. Content(ptr)' = reading'
      BY <3>1 DEF Content, InBuffer
    <3> QED BY <2>1, <2>3, <3>2, HeldStay DEF LineInv
  <2> QED BY <1>6, <2>2, <2>3 DEF REFILL, NextLine
<1>7. CASE \E c \in BOOLEAN, s \in String : EVALUATE(s, c)
  <2>1. PICK c \in BOOLEAN, s \in String : EVALUATE(s, c)
    BY <1>7
  <2>2. AtWord /\ Enter("evaluate", c) /\ ptr' = <<"string", s>> /\ reading' = StringLine(s) /\ UNCHANGED assoc
    BY <2>1 DEF EVALUATE, CanNest
  <2>3. Content(ptr)' = reading'
    BY <2>2 DEF Content
  <2>4. Held(SAVE_INPUT, assoc') /\ \A k \in 2 .. Len(act) : Held(act[k].saved, assoc')
    BY <2>2, HeldSaved DEF LineInv
  <2> QED BY <2>2, <2>3, <2>4, HeldEnter
<1>8. CASE \E c \in BOOLEAN, f \in File : INCLUDE(f, c)
  <2>1. PICK c \in BOOLEAN, f \in File : INCLUDE(f, c)
    BY <1>8
  <2>2. AtWord /\ Enter("include", c) /\ ptr' = InBuffer /\ reading' = lineBuf' /\ UNCHANGED assoc
    BY <2>1 DEF INCLUDE, CanNest, RefillFile
  <2>3. Content(ptr)' = reading'
    BY <2>2 DEF Content, InBuffer
  <2>4. Held(SAVE_INPUT, assoc') /\ \A k \in 2 .. Len(act) : Held(act[k].saved, assoc')
    BY <2>2, HeldSaved DEF LineInv
  <2> QED BY <2>2, <2>3, <2>4, HeldEnter
<1>9. CASE \E c \in BOOLEAN, b \in Block : LOAD(b, c)
  <2>1. PICK c \in BOOLEAN, b \in Block : LOAD(b, c)
    BY <1>9
  <2>2. AtWord /\ Enter("load", c) /\ FromBlock(b)
    BY <2>1 DEF LOAD, CanNest
  <2> QED BY <1>5, <2>2, Fetched, BuffersKept, HeldEnter
<1> QED BY <1>1, <1>2, <1>3, <1>4, <1>6, <1>7, <1>8, <1>9 DEF Next

(* After every nested source, however it ended, the interpreter goes on in *)
(* the line it left: for programs that never LOAD into the buffer of a     *)
(* block still being loaded, which the two buffers allow (block.fth:97).   *)
THEOREM LineStaysIntact ==
  ASSUME FreeLoads = FALSE
  PROVE  Spec => []LineIntact
<1>1. Init => LineInv
  <2> SUFFICES ASSUME Init PROVE LineInv
    OBVIOUS
  <2>1. ptr = <<"line">> /\ reading = lineBuf /\ Len(act) = 1
    BY DEF Init, InBuffer
  <2> QED BY <2>1 DEF LineInv, LineIntact, Content
<1>2. InputInv /\ LineInv /\ [Next]_vars => LineInv'
  BY LineNext
<1>3. LineInv => LineIntact
  BY DEF LineInv
<1> QED BY <1>1, <1>2, <1>3, InputInvariant, PTL DEF Spec
=============================================================================
