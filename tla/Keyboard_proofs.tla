--------------------------- MODULE Keyboard_proofs ---------------------------
(***************************************************************************)
(* Theorems about the ring, the console, what the queue holds and the      *)
(* words that read keys, for every size of the ring, of the receiver and   *)
(* of ACCEPT's buffer.                                                     *)
(***************************************************************************)
EXTENDS Keyboard, SequenceTheorems, TLAPS

(* One step around the ring stays on it. *)
LEMMA AdvanceType ==
  ASSUME NEW i \in Cells
  PROVE  Advance(i) \in Cells
BY SizeAssumption, SMT DEF Advance, Cells

(* PUSH and POP keep the shape of a ring. *)
LEMMA PushedType ==
  ASSUME NEW q \in Rings, NEW v \in Byte
  PROVE  Pushed(q, v) \in Rings
<1>1. Advance(q.whead) \in Cells
  BY AdvanceType DEF Rings
<1> QED BY <1>1 DEF Pushed, Rings

LEMMA PoppedType ==
  ASSUME NEW q \in Rings
  PROVE  Popped(q) \in Rings /\ Oldest(q) \in Byte
<1>1. Advance(q.rhead) \in Cells
  BY AdvanceType DEF Rings
<1> QED BY <1>1 DEF Popped, Oldest, Rings

(* A ring that took a byte is not empty: the cell that stays unused is     *)
(* what keeps a full ring from looking like an empty one.                  *)
LEMMA PushedNotEmpty ==
  ASSUME NEW q \in Rings, NEW v \in Byte, ~RingFull(q)
  PROVE  ~RingEmpty(Pushed(q, v))
BY SMT DEF RingFull, RingEmpty, Pushed, Rings

(* What the console's invariants come to together. *)
IInv == TypeOK /\ InterruptHasChar /\ ParkedIffArmed
-----------------------------------------------------------------------------
LEMMA InitIInv == Init => IInv
<1> SUFFICES ASSUME Init PROVE IInv
  OBVIOUS
<1>1. 0 \in Byte
  BY ConsoleAssumption
<1>2. ring \in Rings /\ RingEmpty(ring)
  BY DEF Init, Allotted, RingEmpty
<1>3. TypeOK
  BY <1>1, <1>2, ConsoleAssumption, EmptySeq DEF Init, TypeOK
<1>4. InterruptHasChar /\ ParkedIffArmed
  BY <1>2 DEF Init, InterruptHasChar, ParkedIffArmed
<1> QED BY <1>3, <1>4 DEF IInv

(* POPCHAR into a0 keeps the shapes it touches. *)
LEMMA PopIntoType ==
  ASSUME TypeOK, NEW q \in Rings, PopInto(q)
  PROVE  ring' \in Rings /\ a0' \in Byte \cup {-1} /\ taken' \in Seq(Byte)
<1>1. Popped(q) \in Rings /\ Oldest(q) \in Byte
  BY PoppedType
<1>2. 0 \in Byte
  BY ConsoleAssumption
<1> QED BY <1>1, <1>2 DEF PopInto, TypeOK

LEMMA TypeStep == ASSUME IInv, Type PROVE IInv'
<1>1. typed + 1 \in 1 .. MaxTyped /\ typed' \in 0 .. MaxTyped
  BY ConsoleAssumption DEF IInv, TypeOK, Type
<1>2. fifo' \in Seq(1 .. MaxTyped) /\ (fifo # <<>> => fifo' # <<>>)
  <2>1. fifo \in Seq(1 .. MaxTyped)
    BY DEF IInv, TypeOK
  <2>2. /\ Append(fifo, typed + 1) \in Seq(1 .. MaxTyped)
        /\ Append(fifo, typed + 1) # <<>>
    BY <1>1, <2>1, AppendProperties
  <2> QED BY <2>1, <2>2 DEF Type
<1>3. dropped' \in SUBSET Byte
  BY <1>1, ConsoleAssumption DEF IInv, TypeOK, Type
<1>4. TypeOK'
  BY <1>1, <1>2, <1>3 DEF IInv, TypeOK, Type, wfiVars
<1>5. InterruptHasChar' /\ ParkedIffArmed'
  BY <1>2 DEF IInv, InterruptHasChar, ParkedIffArmed, Type, wfiVars
<1> QED BY <1>4, <1>5 DEF IInv

LEMMA RaiseStep == ASSUME IInv, Raise PROVE IInv'
<1>1. TypeOK'
  BY DEF IInv, TypeOK, Raise, wfiVars
<1>2. InterruptHasChar' /\ ParkedIffArmed'
  BY DEF IInv, InterruptHasChar, ParkedIffArmed, Raise, wfiVars
<1> QED BY <1>1, <1>2 DEF IInv

LEMMA HandlerStep == ASSUME IInv, Handler PROVE IInv'
<1>1. CASE CLAIM
  <2>1. TypeOK'
    BY <1>1 DEF IInv, TypeOK, CLAIM, wfiVars
  <2>2. InterruptHasChar' /\ ParkedIffArmed'
    BY <1>1 DEF IInv, InterruptHasChar, ParkedIffArmed, CLAIM, wfiVars
  <2> QED BY <2>1, <2>2 DEF IInv
<1>2. CASE GETCHAR
  <2>1. fifo \in Seq(1 .. MaxTyped) /\ fifo # <<>>
    BY <1>2 DEF IInv, TypeOK, InterruptHasChar, GETCHAR
  <2>2. Head(fifo) \in 1 .. MaxTyped /\ Tail(fifo) \in Seq(1 .. MaxTyped)
    BY <2>1, HeadTailProperties
  <2>3. ch' = Head(fifo) /\ fifo' = Tail(fifo)
    BY <1>2, <2>1 DEF GETCHAR
  <2>4. ch' \in Byte /\ ch' # 0
    BY <2>2, <2>3, ConsoleAssumption
  <2>5. TypeOK'
    BY <1>2, <2>2, <2>3, <2>4 DEF IInv, TypeOK, GETCHAR, wfiVars
  <2>6. InterruptHasChar' /\ ParkedIffArmed'
    BY <1>2, <2>4 DEF IInv, InterruptHasChar, ParkedIffArmed, GETCHAR, wfiVars
  <2> QED BY <2>5, <2>6 DEF IInv
<1>3. CASE PUSHCHAR
  <2> DEFINE q == IF RingFull(ring) THEN ring ELSE Pushed(ring, ch)
  <2>1. q \in Rings
    BY PushedType DEF IInv, TypeOK
  <2>2. IF ekeyWfi THEN Wake(q) ELSE ring' = q /\ UNCHANGED <<wfiVars, a0, taken>>
    BY <1>3 DEF PUSHCHAR
  <2>3. /\ ring' \in Rings /\ a0' \in Byte \cup {-1} /\ taken' \in Seq(Byte)
        /\ mepc' = "code" /\ mEnvWfi' = "none" /\ ekeyWfi' = FALSE
    <3>1. CASE ekeyWfi
      BY <2>1, <2>2, <3>1, PopIntoType DEF Wake, IInv, ParkedIffArmed
    <3>2. CASE ~ekeyWfi
      BY <2>1, <2>2, <3>2 DEF wfiVars, IInv, TypeOK, ParkedIffArmed
    <3> QED BY <3>1, <3>2
  <2>4. dropped' \in SUBSET Byte
    BY <1>3 DEF PUSHCHAR, IInv, TypeOK
  <2>5. TypeOK'
    BY <1>3, <2>3, <2>4 DEF IInv, TypeOK, PUSHCHAR, hwVars
  <2>6. InterruptHasChar' /\ ParkedIffArmed'
    BY <1>3, <2>3 DEF IInv, InterruptHasChar, ParkedIffArmed, PUSHCHAR, hwVars
  <2> QED BY <2>5, <2>6 DEF IInv
<1>4. CASE COMPLETE
  <2>1. TypeOK'
    BY <1>4 DEF IInv, TypeOK, COMPLETE, wfiVars
  <2>2. InterruptHasChar' /\ ParkedIffArmed'
    BY <1>4 DEF IInv, InterruptHasChar, ParkedIffArmed, COMPLETE, wfiVars
  <2> QED BY <2>1, <2>2 DEF IInv
<1> QED BY <1>1, <1>2, <1>3, <1>4 DEF Handler

LEMMA ProgramStep == ASSUME IInv, EKEY \/ EKEY_question PROVE IInv'
<1>1. CASE EKEY /\ RingEmpty(ring)
  <2>1. TypeOK'
    BY <1>1 DEF IInv, TypeOK, EKEY, hwVars
  <2>2. InterruptHasChar' /\ ParkedIffArmed'
    BY <1>1 DEF IInv, InterruptHasChar, ParkedIffArmed, EKEY, hwVars
  <2> QED BY <2>1, <2>2 DEF IInv
<1>2. CASE EKEY /\ ~RingEmpty(ring)
  <2>1. ring' \in Rings /\ a0' \in Byte \cup {-1} /\ taken' \in Seq(Byte)
    BY <1>2, PopIntoType DEF EKEY, IInv, TypeOK
  <2>2. TypeOK'
    BY <1>2, <2>1 DEF IInv, TypeOK, EKEY, hwVars, wfiVars
  <2>3. InterruptHasChar' /\ ParkedIffArmed'
    BY <1>2 DEF IInv, InterruptHasChar, ParkedIffArmed, EKEY, Running, hwVars, wfiVars
  <2> QED BY <2>2, <2>3 DEF IInv
<1>3. CASE EKEY_question
  <2>1. TypeOK'
    BY <1>3, ConsoleAssumption DEF IInv, TypeOK, EKEY_question, hwVars, wfiVars
  <2>2. InterruptHasChar' /\ ParkedIffArmed'
    BY <1>3 DEF IInv, InterruptHasChar, ParkedIffArmed, EKEY_question, hwVars, wfiVars
  <2> QED BY <2>1, <2>2 DEF IInv
<1> QED BY <1>1, <1>2, <1>3

LEMMA NextIInv == IInv /\ [Next]_vars => IInv'
<1> SUFFICES ASSUME IInv, [Next]_vars PROVE IInv'
  OBVIOUS
<1>1. CASE UNCHANGED vars
  BY <1>1 DEF vars, IInv, TypeOK, InterruptHasChar, ParkedIffArmed
<1> QED BY <1>1, TypeStep, RaiseStep, HandlerStep, ProgramStep DEF Next
-----------------------------------------------------------------------------
(* Every step of the key words is a step of the console or leaves it.      *)
LEMMA WordsUseConsole == [KNext]_<<vars, kvars>> => [Next]_vars
BY DEF KNext, TypeKind, Hardware, Trap, BeginKEY_question, BeginKEY, BeginACCEPT, InWord,
   Ask, NoKey, Get, GotKEY_question, GotKEY, GotACCEPT, Next

LEMMA ConsoleInvariant == KSpec => []IInv
<1>1. KInit => IInv
  BY InitIInv DEF KInit
<1>2. IInv /\ [KNext]_<<vars, kvars>> => IInv'
  BY WordsUseConsole, NextIInv
<1> QED BY <1>1, <1>2, PTL DEF KSpec

(* The state of the console keeps its shape, whatever words use it         *)
(* (example/os2/fmain.fth, uart.fth, ring.fth).                            *)
THEOREM ConsoleTypeCorrect == KSpec => []TypeOK
<1>1. IInv => TypeOK BY DEF IInv
<1> QED BY <1>1, ConsoleInvariant, PTL

(* HANDLE-EXTERNAL-IRQ reads the receiver exactly when it claimed the      *)
(* interrupt, and then finds a character (fmain.fth 231-245).              *)
THEOREM HandlerFindsChar == KSpec => []InterruptHasChar
<1>1. IInv => InterruptHasChar BY DEF IInv
<1> QED BY <1>1, ConsoleInvariant, PTL

(* A program parked by EKEY is one the handler will wake, and one that is  *)
(* not parked is never moved by the wake-up (fmain.fth 269-301).           *)
THEOREM NoLostWakeUp == KSpec => []ParkedIffArmed
<1>1. IInv => ParkedIffArmed BY DEF IInv
<1> QED BY <1>1, ConsoleInvariant, PTL

-----------------------------------------------------------------------------

(* The remainder, over the range the heads of the ring need. *)
LEMMA Around ==
  ASSUME NEW a \in Int, a < Size + Size, -Size <= a
  PROVE  a % Size = IF a < 0 THEN a + Size ELSE IF a < Size THEN a ELSE a - Size
BY SizeAssumption, SMT

LEMMA AdvanceIs ==
  ASSUME NEW i \in Cells
  PROVE  Advance(i) = IF i + 1 < Size THEN i + 1 ELSE 0
<1>1. i \in Int /\ 0 <= i /\ i < Size /\ Size \in Int
  BY SizeAssumption DEF Cells
<1>2. (i + 1) % Size = IF i + 1 < 0 THEN i + 1 + Size ELSE IF i + 1 < Size THEN i + 1 ELSE i + 1 - Size
  BY <1>1, Around
<1> QED BY <1>1, <1>2 DEF Advance

LEMMA CountIs ==
  ASSUME NEW q \in Rings
  PROVE  /\ Count(q) = IF q.rhead <= q.whead THEN q.whead - q.rhead ELSE q.whead - q.rhead + Size
         /\ Count(q) \in 0 .. Size - 1
<1>1. q.rhead \in Cells /\ q.whead \in Cells
  BY DEF Rings
<1>2. (q.whead - q.rhead) % Size = IF q.whead - q.rhead < 0 THEN q.whead - q.rhead + Size
        ELSE IF q.whead - q.rhead < Size THEN q.whead - q.rhead ELSE q.whead - q.rhead - Size
  BY <1>1, Around, SizeAssumption DEF Cells
<1> QED BY <1>1, <1>2, SizeAssumption DEF Cells, Count

(* The bytes in the ring are a sequence of bytes.                          *)
LEMMA ContentsType ==
  ASSUME NEW q \in Rings
  PROVE  /\ Contents(q) \in Seq(Byte)
         /\ Len(Contents(q)) = Count(q)
         /\ \A k \in 1 .. Count(q) :
              Contents(q)[k] = q.mem[IF q.rhead + k - 1 < Size
                                       THEN q.rhead + k - 1 ELSE q.rhead + k - 1 - Size]
<1>1. q.rhead \in Cells /\ q.mem \in [Cells -> Byte]
  BY DEF Rings
<1>2. Count(q) \in 0 .. Size - 1
  BY CountIs
<1>3. ASSUME NEW k \in 1 .. Count(q)
      PROVE  /\ (q.rhead + k - 1) % Size = IF q.rhead + k - 1 < Size
                                             THEN q.rhead + k - 1 ELSE q.rhead + k - 1 - Size
             /\ (q.rhead + k - 1) % Size \in Cells
  <2> DEFINE a == q.rhead + k - 1
             c == IF a < Size THEN a ELSE a - Size
  <2>1. a \in Int /\ 0 <= a /\ a < Size + Size /\ Size \in Int
    BY <1>1, <1>2, SizeAssumption DEF Cells
  <2> HIDE DEF a
  <2>2. -Size <= a /\ ~(a < 0) /\ c \in Cells
    BY <2>1 DEF Cells
  <2>3. a % Size = IF a < 0 THEN a + Size ELSE c
    BY <2>1, <2>2, Around, Zenon
  <2>4. a % Size = c
    <3> HIDE DEF c
    <3> QED BY <2>2, <2>3
  <2>5. a % Size \in Cells
    <3> HIDE DEF c
    <3> QED BY <2>2, <2>4
  <2>6. q.rhead + k - 1 - Size = (q.rhead + k - 1) - Size
    BY <1>1, <1>2, SizeAssumption DEF Cells
  <2> QED BY <2>4, <2>5, <2>6, Zenon DEF a
<1>4. Contents(q) \in [1 .. Count(q) -> Byte]
  BY <1>1, <1>3 DEF Contents
<1>5. Contents(q) \in Seq(Byte) /\ Len(Contents(q)) = Count(q)
  BY <1>2, <1>4, SMT
<1> QED BY <1>3, <1>5 DEF Contents

(* An empty ring has no contents, and only an empty one.                   *)
LEMMA ContentsEmpty ==
  ASSUME NEW q \in Rings
  PROVE  RingEmpty(q) <=> Contents(q) = <<>>
<1>1. RingEmpty(q) <=> Count(q) = 0
  BY CountIs, SizeAssumption DEF RingEmpty, Rings, Cells
<1> QED BY <1>1, ContentsType, EmptySeq

(* PUSH adds a byte at the end and disturbs no other.                      *)
LEMMA PushAppends ==
  ASSUME NEW q \in Rings, NEW v \in Byte, ~RingFull(q)
  PROVE  Contents(Pushed(q, v)) = Append(Contents(q), v)
<1> DEFINE p == Pushed(q, v)
<1>1. p \in Rings /\ p.rhead = q.rhead /\ p.whead = Advance(q.whead)
      /\ p.mem = [q.mem EXCEPT ![q.whead] = v]
  BY PushedType DEF Pushed, Rings
<1>2. q.rhead \in Cells /\ q.whead \in Cells /\ q.mem \in [Cells -> Byte]
  BY DEF Rings
<1>3. Advance(q.whead) = IF q.whead + 1 < Size THEN q.whead + 1 ELSE 0
  BY <1>2, AdvanceIs
<1> HIDE DEF p
<1>4. Count(p) = Count(q) + 1
  <2>1. Advance(q.whead) # q.rhead
    BY DEF RingFull
  <2>2. Count(p) = IF q.rhead <= Advance(q.whead) THEN Advance(q.whead) - q.rhead
                                                 ELSE Advance(q.whead) - q.rhead + Size
    BY <1>1, CountIs
  <2>3. Count(q) = IF q.rhead <= q.whead THEN q.whead - q.rhead ELSE q.whead - q.rhead + Size
    BY CountIs
  <2> QED BY <1>2, <1>3, <2>1, <2>2, <2>3, SizeAssumption DEF Cells
<1>5. /\ Append(Contents(q), v) \in Seq(Byte)
      /\ Len(Append(Contents(q), v)) = Count(q) + 1
  BY ContentsType, AppendProperties
<1>c. /\ Count(q) \in Nat
      /\ Count(q) = IF q.rhead <= q.whead THEN q.whead - q.rhead ELSE q.whead - q.rhead + Size
      /\ Count(q) + 1 < Size
  BY <1>1, <1>4, CountIs, SizeAssumption
<1>6. ASSUME NEW k \in 1 .. Count(p)
      PROVE  Contents(p)[k] = Append(Contents(q), v)[k]
  <2> DEFINE c == IF q.rhead + k - 1 < Size THEN q.rhead + k - 1 ELSE q.rhead + k - 1 - Size
  <2>1. Contents(p)[k] = [q.mem EXCEPT ![q.whead] = v][c]
    BY <1>1, ContentsType
  <2>2. c \in Cells /\ (c = q.whead <=> k = Count(q) + 1)
    <3>1. /\ k \in Int /\ 1 <= k /\ k <= Count(q) + 1
          /\ q.rhead \in Int /\ 0 <= q.rhead /\ q.rhead < Size
          /\ q.whead \in Int /\ 0 <= q.whead /\ q.whead < Size /\ Size \in Int
      BY <1>2, <1>4, <1>c, SizeAssumption DEF Cells
    <3>2. c \in Int /\ 0 <= c /\ c < Size
      BY <1>c, <3>1
    <3>3. c = q.whead <=> k = Count(q) + 1
      BY <1>c, <3>1
    <3> QED BY <3>1, <3>2, <3>3 DEF Cells
  <2>3. CASE k = Count(q) + 1
    BY <1>2, <2>1, <2>2, <2>3, ContentsType, AppendProperties
  <2>4. CASE k \in 1 .. Count(q)
    <3>1. Contents(q)[k] = q.mem[c]
      BY <2>4, ContentsType
    <3>2. Contents(p)[k] = q.mem[c]
      <4>1. c # q.whead
        BY <1>c, <2>2, <2>4
      <4> HIDE DEF c
      <4> QED BY <1>2, <2>1, <2>2, <4>1
    <3> QED BY <2>4, <3>1, <3>2, ContentsType, AppendProperties
  <2>5. k = Count(q) + 1 \/ k \in 1 .. Count(q)
    BY <1>4, <1>c
  <2> QED BY <2>3, <2>4, <2>5
<1>7. Contents(p) \in Seq(Byte) /\ Len(Contents(p)) = Count(p)
  BY <1>1, ContentsType
<1>8. Contents(p) = Append(Contents(q), v)
  <2> DEFINE a == Contents(p)
             b == Append(Contents(q), v)
  <2> HIDE DEF a, b
  <2>1. a \in Seq(Byte) /\ b \in Seq(Byte) /\ Len(a) = Len(b)
        /\ \A k \in 1 .. Len(a) : a[k] = b[k]
    BY <1>4, <1>5, <1>6, <1>7 DEF a, b
  <2>2. a = b
    BY <2>1, SeqEqual
  <2> QED BY <2>2 DEF a, b
<1> QED BY <1>8 DEF p

(* POP takes the byte that has been in the ring longest.                   *)
LEMMA PopTakesFirst ==
  ASSUME NEW q \in Rings, ~RingEmpty(q)
  PROVE  Contents(q) = <<Oldest(q)>> \o Contents(Popped(q))
<1> DEFINE p == Popped(q)
           t == <<Oldest(q)>> \o Contents(p)
<1>1. p \in Rings /\ p.rhead = Advance(q.rhead) /\ p.whead = q.whead
      /\ p.mem = q.mem /\ Oldest(q) \in Byte
  BY PoppedType DEF Popped, Rings
<1>2. q.rhead \in Cells /\ q.whead \in Cells
  BY DEF Rings
<1>3. Advance(q.rhead) = IF q.rhead + 1 < Size THEN q.rhead + 1 ELSE 0
  BY <1>2, AdvanceIs
<1>4. Count(q) = Count(p) + 1
  <2>1. q.whead # q.rhead
    BY DEF RingEmpty
  <2>2. Count(p) = IF Advance(q.rhead) <= q.whead THEN q.whead - Advance(q.rhead)
                                                 ELSE q.whead - Advance(q.rhead) + Size
    BY <1>1, CountIs
  <2>3. Count(q) = IF q.rhead <= q.whead THEN q.whead - q.rhead ELSE q.whead - q.rhead + Size
    BY CountIs
  <2> QED BY <1>2, <1>3, <2>1, <2>2, <2>3, SizeAssumption DEF Cells
<1>5. <<Oldest(q)>> \in Seq(Byte) /\ Len(<<Oldest(q)>>) = 1 /\ <<Oldest(q)>>[1] = Oldest(q)
  BY <1>1
<1>6. /\ t \in Seq(Byte)
      /\ Len(t) = Count(p) + 1
      /\ \A k \in 1 .. Count(p) + 1 : t[k] = IF k <= 1 THEN Oldest(q) ELSE Contents(p)[k - 1]
  <2>1. Contents(p) \in Seq(Byte) /\ Len(Contents(p)) = Count(p) /\ Count(p) \in Nat
    BY <1>1, ContentsType, CountIs
  <2>2. /\ t \in Seq(Byte)
        /\ Len(t) = 1 + Count(p)
        /\ \A k \in 1 .. 1 + Count(p) : t[k] = IF k <= 1 THEN <<Oldest(q)>>[k] ELSE Contents(p)[k - 1]
    BY <1>5, <2>1, ConcatProperties
  <2> QED BY <1>5, <2>1, <2>2
<1>7. ASSUME NEW k \in 1 .. Count(q)
      PROVE  Contents(q)[k] = t[k]
  <2> DEFINE c == IF q.rhead + k - 1 < Size THEN q.rhead + k - 1 ELSE q.rhead + k - 1 - Size
  <2>1. Contents(q)[k] = q.mem[c]
    BY ContentsType
  <2>2. CASE k = 1
    BY <1>2, <1>4, <1>6, <2>1, <2>2, SizeAssumption DEF Oldest, Cells
  <2>3. CASE k # 1
    <3>1. k - 1 \in 1 .. Count(p)
      BY <1>1, <1>4, <2>3, CountIs, SizeAssumption
    <3>2. Contents(p)[k - 1] = q.mem[IF p.rhead + (k - 1) - 1 < Size
              THEN p.rhead + (k - 1) - 1 ELSE p.rhead + (k - 1) - 1 - Size]
      BY <1>1, <3>1, ContentsType
    <3>3. c = IF p.rhead + (k - 1) - 1 < Size THEN p.rhead + (k - 1) - 1 ELSE p.rhead + (k - 1) - 1 - Size
      BY <1>1, <1>2, <1>3, <1>4, <3>1, CountIs, SizeAssumption DEF Cells
    <3> QED BY <1>4, <1>6, <2>1, <2>3, <3>2, <3>3
  <2> QED BY <2>2, <2>3
<1> HIDE DEF t
<1> QED BY <1>1, <1>4, <1>6, <1>7, ContentsType, SeqEqual
-----------------------------------------------------------------------------
(* What KeysInOrder says of the characters on their way.                   *)
Ordered(s, lost, n) ==
  /\ \A i, j \in DOMAIN s : i < j => s[i] < s[j]
  /\ {s[i] : i \in DOMAIN s} \cup lost = 1 .. n
  /\ \A i \in DOMAIN s : s[i] \notin lost

(* One more character typed, which is on its way or lost.                  *)
LEMMA OrderedMore ==
  ASSUME NEW s \in Seq(Byte), NEW lost, NEW n \in Nat, Ordered(s, lost, n), n + 1 \in Byte
  PROVE  Ordered(Append(s, n + 1), lost, n + 1) /\ Ordered(s, lost \cup {n + 1}, n + 1)
<1>1. DOMAIN s = 1 .. Len(s) /\ Len(s) \in Nat
  BY LenProperties
<1>2. \A i \in DOMAIN s : s[i] \in 1 .. n
  BY DEF Ordered
<1>3. Ordered(s, lost \cup {n + 1}, n + 1)
  <2>1. 1 .. (n + 1) = (1 .. n) \cup {n + 1}
    OBVIOUS
  <2>2. n + 1 \notin 1 .. n
    OBVIOUS
  <2> QED BY <1>2, <2>1, <2>2 DEF Ordered
<1>4. Ordered(Append(s, n + 1), lost, n + 1)
  <2> DEFINE t == Append(s, n + 1)
  <2>1. /\ t \in Seq(Byte) /\ Len(t) = Len(s) + 1 /\ DOMAIN t = 1 .. Len(s) + 1
        /\ \A i \in 1 .. Len(s) : t[i] = s[i]
        /\ t[Len(s) + 1] = n + 1
    BY <1>1, AppendProperties, LenProperties
  <2> HIDE DEF t
  <2>2. \A i, j \in DOMAIN t : i < j => t[i] < t[j]
    <3> SUFFICES ASSUME NEW i \in DOMAIN t, NEW j \in DOMAIN t, i < j PROVE t[i] < t[j]
      OBVIOUS
    <3>1. i \in 1 .. Len(s) /\ t[i] = s[i] /\ s[i] \in 1 .. n
      BY <1>1, <1>2, <2>1
    <3>2. CASE j = Len(s) + 1
      BY <2>1, <3>1, <3>2
    <3>3. CASE j \in 1 .. Len(s)
      BY <1>1, <2>1, <3>1, <3>3 DEF Ordered
    <3> QED BY <1>1, <2>1, <3>2, <3>3
  <2>3. {t[i] : i \in DOMAIN t} = {s[i] : i \in DOMAIN s} \cup {n + 1}
    BY <1>1, <2>1
  <2>4. 1 .. (n + 1) = (1 .. n) \cup {n + 1}
    OBVIOUS
  <2>5. n + 1 \notin lost
    <3>1. lost \subseteq 1 .. n
      BY DEF Ordered
    <3> QED BY <3>1
  <2>6. \A i \in DOMAIN t : t[i] \notin lost
    BY <1>1, <2>1, <2>5 DEF Ordered
  <2>7. {t[i] : i \in DOMAIN t} \cup lost = 1 .. (n + 1)
    BY <2>3, <2>4 DEF Ordered
  <2> QED BY <2>2, <2>6, <2>7 DEF Ordered, t
<1> QED BY <1>3, <1>4

(* One character on its way is lost.                                       *)
LEMMA OrderedLess ==
  ASSUME NEW a \in Seq(Byte), NEW c \in Byte, NEW b \in Seq(Byte), NEW lost, NEW n \in Nat,
         Ordered(a \o <<c>> \o b, lost, n)
  PROVE  Ordered(a \o b, lost \cup {c}, n)
<1> DEFINE s == a \o <<c>> \o b
           t == a \o b
           old(i) == IF i <= Len(a) THEN i ELSE i + 1
<1>1. Len(a) \in Nat /\ Len(b) \in Nat
  BY LenProperties
<1>2. /\ DOMAIN s = 1 .. Len(a) + 1 + Len(b)
      /\ \A i \in DOMAIN s : s[i] = IF i <= Len(a) THEN a[i]
                                      ELSE IF i = Len(a) + 1 THEN c ELSE b[i - Len(a) - 1]
  <2>1. <<c>> \in Seq(Byte) /\ Len(<<c>>) = 1 /\ <<c>>[1] = c
    OBVIOUS
  <2>2. /\ a \o <<c>> \in Seq(Byte) /\ Len(a \o <<c>>) = Len(a) + 1
        /\ \A i \in 1 .. Len(a) + 1 : (a \o <<c>>)[i] = IF i <= Len(a) THEN a[i] ELSE c
    BY <1>1, <2>1, ConcatProperties
  <2>3. /\ s \in Seq(Byte) /\ Len(s) = Len(a) + 1 + Len(b)
        /\ \A i \in 1 .. Len(a) + 1 + Len(b) :
             s[i] = IF i <= Len(a) + 1 THEN (a \o <<c>>)[i] ELSE b[i - (Len(a) + 1)]
    BY <1>1, <2>2, ConcatProperties
  <2>4. DOMAIN s = 1 .. Len(a) + 1 + Len(b)
    BY <2>3, LenProperties
  <2>5. ASSUME NEW i \in DOMAIN s
        PROVE  s[i] = IF i <= Len(a) THEN a[i] ELSE IF i = Len(a) + 1 THEN c ELSE b[i - Len(a) - 1]
    <3> HIDE DEF s
    <3>1. i \in Int /\ i - (Len(a) + 1) = i - Len(a) - 1 /\ (i <= Len(a) + 1 => i \in 1 .. Len(a) + 1)
      BY <1>1, <2>4
    <3>2. s[i] = IF i <= Len(a) + 1 THEN (a \o <<c>>)[i] ELSE b[i - (Len(a) + 1)]
      BY <2>3, <2>4
    <3>3. CASE i <= Len(a)
      BY <1>1, <2>2, <3>1, <3>2, <3>3
    <3>4. CASE i = Len(a) + 1
      BY <1>1, <2>2, <3>1, <3>2, <3>4
    <3>5. CASE i > Len(a) + 1
      BY <1>1, <3>1, <3>2, <3>5
    <3> QED BY <1>1, <3>1, <3>3, <3>4, <3>5
  <2> QED BY <2>4, <2>5
<1>3. /\ DOMAIN t = 1 .. Len(a) + Len(b)
      /\ \A i \in DOMAIN t : t[i] = IF i <= Len(a) THEN a[i] ELSE b[i - Len(a)]
  BY <1>1, ConcatProperties, LenProperties
<1> HIDE DEF s, t
<1>4. \A i \in DOMAIN t : old(i) \in DOMAIN s /\ t[i] = s[old(i)] /\ old(i) # Len(a) + 1
  <2> SUFFICES ASSUME NEW i \in DOMAIN t
               PROVE  old(i) \in DOMAIN s /\ t[i] = s[old(i)] /\ old(i) # Len(a) + 1
    OBVIOUS
  <2>1. old(i) \in DOMAIN s /\ old(i) # Len(a) + 1 /\ i \in Int
    BY <1>1, <1>2, <1>3
  <2>2. CASE i <= Len(a)
    BY <1>1, <1>2, <1>3, <2>1, <2>2
  <2>3. CASE ~(i <= Len(a))
    <3>1. s[i + 1] = b[(i + 1) - Len(a) - 1] /\ (i + 1) - Len(a) - 1 = i - Len(a)
      BY <1>1, <1>2, <2>1, <2>3
    <3> QED BY <1>3, <2>1, <2>3, <3>1
  <2> QED BY <2>2, <2>3
<1>5. Len(a) + 1 \in DOMAIN s /\ s[Len(a) + 1] = c
  BY <1>1, <1>2
<1>6. Ordered(s, lost, n)
  BY DEF s
<1>7. \A i \in DOMAIN s : s[i] \in 1 .. n
  BY <1>6 DEF Ordered
<1>8. \A i \in DOMAIN t : t[i] # c
  <2> SUFFICES ASSUME NEW i \in DOMAIN t PROVE t[i] # c
    OBVIOUS
  <2>1. old(i) < Len(a) + 1 \/ Len(a) + 1 < old(i)
    BY <1>1, <1>2, <1>4
  <2>2. s[old(i)] < s[Len(a) + 1] \/ s[Len(a) + 1] < s[old(i)]
    BY <1>4, <1>5, <1>6, <2>1 DEF Ordered
  <2> QED BY <1>4, <1>5, <1>7, <2>2
<1>9. \A i \in DOMAIN s : i = Len(a) + 1 \/ \E k \in DOMAIN t : s[i] = t[k]
  <2> SUFFICES ASSUME NEW i \in DOMAIN s, i # Len(a) + 1 PROVE \E k \in DOMAIN t : s[i] = t[k]
    OBVIOUS
  <2> DEFINE k == IF i <= Len(a) THEN i ELSE i - 1
  <2>1. k \in DOMAIN t /\ old(k) = i
    BY <1>1, <1>2, <1>3
  <2> QED BY <1>4, <2>1
<1>10. {s[i] : i \in DOMAIN s} = {t[i] : i \in DOMAIN t} \cup {c}
  BY <1>4, <1>5, <1>9
<1>11. \A i, j \in DOMAIN t : i < j => t[i] < t[j]
  <2> SUFFICES ASSUME NEW i \in DOMAIN t, NEW j \in DOMAIN t, i < j PROVE t[i] < t[j]
    OBVIOUS
  <2>1. old(i) < old(j)
    BY <1>1, <1>3
  <2> QED BY <1>4, <1>6, <2>1 DEF Ordered
<1>12. {t[i] : i \in DOMAIN t} \cup (lost \cup {c}) = 1 .. n
  BY <1>6, <1>10 DEF Ordered
<1>13. \A i \in DOMAIN t : t[i] \notin lost \cup {c}
  BY <1>4, <1>6, <1>8 DEF Ordered
<1>14. Ordered(t, lost \cup {c}, n)
  BY <1>11, <1>12, <1>13 DEF Ordered
<1> QED BY <1>14 DEF t
-----------------------------------------------------------------------------
LEMMA HeadAndTail ==
  ASSUME NEW S, NEW s \in Seq(S), s # <<>>
  PROVE  s = <<Head(s)>> \o Tail(s)
<1>1. /\ Head(s) \in S /\ Tail(s) \in Seq(S) /\ Len(Tail(s)) = Len(s) - 1
      /\ \A i \in 1 .. Len(Tail(s)) : Tail(s)[i] = s[i + 1]
      /\ Len(s) \in Nat \ {0} /\ Head(s) = s[1]
  BY HeadTailProperties, EmptySeq, LenProperties
<1> DEFINE h == <<Head(s)>>
           t == h \o Tail(s)
<1>2. h \in Seq(S) /\ Len(h) = 1 /\ h[1] = Head(s)
  BY <1>1
<1> HIDE DEF h
<1>3. /\ t \in Seq(S) /\ Len(t) = 1 + (Len(s) - 1)
      /\ \A i \in 1 .. 1 + (Len(s) - 1) : t[i] = IF i <= 1 THEN h[i] ELSE Tail(s)[i - 1]
  <2>1. /\ t \in Seq(S) /\ Len(t) = Len(h) + Len(Tail(s))
        /\ \A i \in 1 .. Len(h) + Len(Tail(s)) :
             t[i] = IF i <= Len(h) THEN h[i] ELSE Tail(s)[i - Len(h)]
    BY <1>1, <1>2, ConcatProperties
  <2> QED BY <1>1, <1>2, <2>1
<1> HIDE DEF t
<1>4. ASSUME NEW i \in 1 .. Len(s) PROVE s[i] = t[i]
  <2>1. CASE i = 1
    BY <1>1, <1>2, <1>3, <2>1
  <2>2. CASE i # 1
    <3>1. i - 1 \in 1 .. Len(Tail(s)) /\ (i - 1) + 1 = i
      BY <1>1, <2>2
    <3> QED BY <1>1, <1>3, <2>2, <3>1
  <2> QED BY <2>1, <2>2
<1>5. s = t
  BY <1>1, <1>3, <1>4, SeqEqual
<1> QED BY <1>5 DEF h, t

(* The parts of OnItsWay are sequences of bytes.                           *)
LEMMA PartsType ==
  ASSUME TypeOK
  PROVE  /\ taken \in Seq(Byte) /\ Contents(ring) \in Seq(Byte)
         /\ InHand \in Seq(Byte) /\ fifo \in Seq(Byte)
         /\ taken \o Contents(ring) \in Seq(Byte)
         /\ taken \o Contents(ring) \o InHand \in Seq(Byte)
         /\ OnItsWay \in Seq(Byte)
<1>1. fifo \in Seq(Byte)
  BY ConsoleAssumption, SeqMonotonic DEF TypeOK
<1>2. InHand \in Seq(Byte)
  BY EmptySeq DEF TypeOK, InHand
<1>3. taken \in Seq(Byte) /\ Contents(ring) \in Seq(Byte)
  BY ContentsType DEF TypeOK
<1>4. taken \o Contents(ring) \in Seq(Byte)
  BY <1>3, ConcatProperties
<1>5. taken \o Contents(ring) \o InHand \in Seq(Byte)
  BY <1>2, <1>4, ConcatProperties
<1>6. OnItsWay \in Seq(Byte)
  BY <1>1, <1>5, ConcatProperties DEF OnItsWay
<1> QED BY <1>1, <1>2, <1>3, <1>4, <1>5, <1>6

(* POPCHAR moves the oldest byte of the ring to the end of those taken.    *)
LEMMA PopKeeps ==
  ASSUME TypeOK, NEW q \in Rings, PopInto(q)
  PROVE  taken' \o Contents(ring') = taken \o Contents(q)
<1>1. CASE RingEmpty(q)
  BY <1>1 DEF PopInto
<1>2. CASE ~RingEmpty(q)
  <2> DEFINE o == Oldest(q)
             r == Contents(Popped(q))
  <2>1. ring' = Popped(q) /\ taken' = Append(taken, o)
    BY <1>2 DEF PopInto
  <2>2. o \in Byte /\ r \in Seq(Byte) /\ <<o>> \in Seq(Byte) /\ taken \in Seq(Byte)
    BY PoppedType, ContentsType DEF TypeOK
  <2>3. taken' = taken \o <<o>>
    BY <2>1, <2>2, AppendIsConcat
  <2>4. (taken \o <<o>>) \o r = taken \o (<<o>> \o r)
    BY <2>2, ConcatAssociative
  <2>5. Contents(q) = <<o>> \o r
    BY <1>2, PopTakesFirst
  <2> QED BY <2>1, <2>3, <2>4, <2>5
<1> QED BY <1>1, <1>2

LEMMA TypeOrder == ASSUME IInv, KeysInOrder, Type PROVE KeysInOrder'
<1>1. typed \in Nat /\ typed + 1 \in Byte
  BY ConsoleAssumption DEF IInv, TypeOK, Type
<1>2. OnItsWay \in Seq(Byte) /\ Ordered(OnItsWay, dropped, typed)
  BY PartsType DEF IInv, KeysInOrder, Ordered
<1>3. CASE Len(fifo) < FifoDepth
  <2> DEFINE a == taken \o Contents(ring) \o InHand
             e == <<typed + 1>>
  <2>1. a \in Seq(Byte) /\ fifo \in Seq(Byte) /\ e \in Seq(Byte)
    BY <1>1, PartsType DEF IInv
  <2>2. fifo' = fifo \o e
    BY <1>1, <1>3, <2>1, AppendIsConcat DEF Type
  <2>3. OnItsWay' = a \o fifo'
    BY DEF Type, OnItsWay, InHand, wfiVars
  <2>4. a \o (fifo \o e) = (a \o fifo) \o e
    BY <2>1, ConcatAssociative
  <2>5. OnItsWay = a \o fifo
    BY DEF OnItsWay
  <2> HIDE DEF a
  <2>6. OnItsWay' = Append(OnItsWay, typed + 1)
    BY <1>1, <1>2, <2>2, <2>3, <2>4, <2>5, AppendIsConcat
  <2>7. dropped' = dropped /\ typed' = typed + 1
    BY <1>3 DEF Type
  <2>8. Ordered(OnItsWay', dropped', typed')
    BY <1>1, <1>2, <2>6, <2>7, OrderedMore
  <2> QED BY <2>8 DEF Ordered, KeysInOrder
<1>4. CASE ~(Len(fifo) < FifoDepth)
  <2>1. OnItsWay' = OnItsWay /\ dropped' = dropped \cup {typed + 1} /\ typed' = typed + 1
    BY <1>4 DEF Type, OnItsWay, InHand, wfiVars
  <2>2. Ordered(OnItsWay', dropped', typed')
    BY <1>1, <1>2, <2>1, OrderedMore
  <2> QED BY <2>2 DEF Ordered, KeysInOrder
<1> QED BY <1>3, <1>4

LEMMA GetcharOrder == ASSUME IInv, KeysInOrder, GETCHAR PROVE KeysInOrder'
<1> DEFINE a == taken \o Contents(ring)
           h == <<Head(fifo)>>
<1>1. fifo \in Seq(1 .. MaxTyped) /\ fifo # <<>>
  BY DEF IInv, TypeOK, InterruptHasChar, GETCHAR
<1>2. fifo = h \o Tail(fifo)
  BY <1>1, HeadAndTail
<1>3. h \in Seq(Byte) /\ Tail(fifo) \in Seq(Byte) /\ a \in Seq(Byte) /\ fifo \in Seq(Byte)
  <2>1. Head(fifo) \in 1 .. MaxTyped /\ Tail(fifo) \in Seq(1 .. MaxTyped)
    BY <1>1, HeadTailProperties
  <2>2. Head(fifo) \in Byte /\ 1 .. MaxTyped \subseteq Byte
    BY <2>1, ConsoleAssumption
  <2> QED BY <2>1, <2>2, PartsType, SeqMonotonic DEF IInv
<1>4. InHand = <<>> /\ InHand' = h /\ fifo' = Tail(fifo) /\ taken' = taken /\ ring' = ring
      /\ dropped' = dropped /\ typed' = typed
  BY <1>1 DEF GETCHAR, InHand
<1>5. OnItsWay' = (a \o h) \o Tail(fifo)
  BY <1>4 DEF OnItsWay
<1>6. OnItsWay = a \o fifo
  <2>1. a \o <<>> = a
    BY <1>3, ConcatEmptySeq
  <2> QED BY <1>4, <2>1 DEF OnItsWay
<1>7. (a \o h) \o Tail(fifo) = a \o (h \o Tail(fifo))
  BY <1>3, ConcatAssociative
<1> HIDE DEF a, h
<1>8. OnItsWay' = OnItsWay
  BY <1>2, <1>5, <1>6, <1>7
<1> QED BY <1>4, <1>8 DEF KeysInOrder

LEMMA PushcharOrder == ASSUME IInv, KeysInOrder, PUSHCHAR PROVE KeysInOrder'
<1> DEFINE q == IF RingFull(ring) THEN ring ELSE Pushed(ring, ch)
           h == <<ch>>
<1>1. ring \in Rings /\ ch \in Byte /\ q \in Rings /\ TypeOK
  BY PushedType DEF IInv, TypeOK
<1>2. /\ taken \in Seq(Byte) /\ Contents(ring) \in Seq(Byte) /\ h \in Seq(Byte)
      /\ fifo \in Seq(Byte) /\ Contents(q) \in Seq(Byte)
      /\ taken \o Contents(ring) \in Seq(Byte) /\ OnItsWay \in Seq(Byte)
      /\ taken \o Contents(q) \in Seq(Byte)
  BY <1>1, PartsType, ContentsType, ConcatProperties
<1>3. taken' \o Contents(ring') = taken \o Contents(q)
  <2>1. IF ekeyWfi THEN Wake(q) ELSE ring' = q /\ UNCHANGED <<wfiVars, a0, taken>>
    BY DEF PUSHCHAR
  <2>2. CASE ekeyWfi
    BY <1>1, <2>1, <2>2, PopKeeps DEF Wake
  <2>3. CASE ~ekeyWfi
    BY <2>1, <2>3
  <2> QED BY <2>2, <2>3
<1>4. InHand = h /\ InHand' = <<>> /\ fifo' = fifo /\ typed' = typed
  BY DEF PUSHCHAR, InHand, hwVars
<1>5. OnItsWay = taken \o Contents(ring) \o h \o fifo
  BY <1>4 DEF OnItsWay
<1>6. OnItsWay' = taken \o Contents(q) \o fifo
  <2>1. OnItsWay' = (taken' \o Contents(ring')) \o <<>> \o fifo
    BY <1>4 DEF OnItsWay
  <2>2. (taken \o Contents(q)) \o <<>> = taken \o Contents(q)
    BY <1>2, ConcatEmptySeq
  <2> QED BY <1>3, <2>1, <2>2
<1>7. Ordered(OnItsWay, dropped, typed) /\ typed \in Nat
  BY DEF KeysInOrder, Ordered, IInv, TypeOK
<1>8. CASE RingFull(ring)
  <2>1. dropped' = dropped \cup {ch} /\ q = ring
    BY <1>8 DEF PUSHCHAR
  <2>2. Ordered((taken \o Contents(ring)) \o fifo, dropped \cup {ch}, typed)
    BY <1>1, <1>2, <1>5, <1>7, OrderedLess
  <2>3. Ordered(OnItsWay', dropped', typed')
    BY <1>4, <1>6, <2>1, <2>2
  <2> QED BY <2>3 DEF Ordered, KeysInOrder
<1>9. CASE ~RingFull(ring)
  <2>1. dropped' = dropped
    BY <1>9 DEF PUSHCHAR
  <2>2. Contents(q) = Contents(ring) \o h
    BY <1>1, <1>2, <1>9, PushAppends, AppendIsConcat
  <2>3. taken \o (Contents(ring) \o h) = (taken \o Contents(ring)) \o h
    BY <1>2, ConcatAssociative
  <2>4. OnItsWay' = OnItsWay
    BY <1>5, <1>6, <2>2, <2>3
  <2> QED BY <1>4, <2>1, <2>4 DEF KeysInOrder
<1> QED BY <1>8, <1>9

LEMMA NextOrder == IInv /\ KeysInOrder /\ [Next]_vars => KeysInOrder'
<1> SUFFICES ASSUME IInv, KeysInOrder, [Next]_vars PROVE KeysInOrder'
  OBVIOUS
<1>1. CASE Raise \/ CLAIM \/ COMPLETE \/ EKEY_question \/ UNCHANGED vars
  <2>1. OnItsWay' = OnItsWay /\ typed' = typed /\ dropped' = dropped
    BY <1>1 DEF Raise, CLAIM, COMPLETE, EKEY_question, Running, vars, hwVars, OnItsWay, InHand
  <2> QED BY <2>1 DEF KeysInOrder
<1>2. CASE EKEY
  <2>1. taken' \o Contents(ring') = taken \o Contents(ring)
    BY <1>2, PopKeeps DEF EKEY, IInv, TypeOK
  <2>2. OnItsWay' = OnItsWay /\ typed' = typed /\ dropped' = dropped
    BY <1>2, <2>1 DEF EKEY, hwVars, OnItsWay, InHand
  <2> QED BY <2>2 DEF KeysInOrder
<1> QED BY <1>1, <1>2, TypeOrder, GetcharOrder, PushcharOrder DEF Next, Handler

(* Nothing is on its way at first.                                         *)
LEMMA InitOrder == Init => KeysInOrder
<1> SUFFICES ASSUME Init PROVE KeysInOrder
  OBVIOUS
<1>1. ring \in Rings /\ RingEmpty(ring)
  BY DEF Init, Allotted, RingEmpty
<1>2. Contents(ring) = <<>>
  BY <1>1, ContentsEmpty
<1>3. InHand = <<>> /\ taken = <<>> /\ fifo = <<>>
  BY DEF Init, InHand
<1>4. <<>> \in Seq(Byte) /\ <<>> \o <<>> = <<>>
  BY EmptySeq, ConcatEmptySeq
<1>5. OnItsWay = <<>>
  BY <1>2, <1>3, <1>4 DEF OnItsWay
<1>6. DOMAIN OnItsWay = {}
  BY <1>4, <1>5, LenProperties, EmptySeq
<1> QED BY <1>6 DEF KeysInOrder, Init

(* Characters reach the program in the order they were typed, each at most *)
(* once, and only a full ring or a full receiver loses one, whatever the   *)
(* sizes (example/os2/ring.fth, uart.fth, fmain.fth 229-301).              *)
THEOREM KeysReachTheProgramInOrder == KSpec => []KeysInOrder
<1>1. KInit => KeysInOrder
  BY InitOrder DEF KInit
<1>2. IInv /\ KeysInOrder /\ [KNext]_<<vars, kvars>> => KeysInOrder'
  BY WordsUseConsole, NextOrder
<1> QED BY <1>1, <1>2, ConsoleInvariant, PTL DEF KSpec
-----------------------------------------------------------------------------
(* How far a word is: only KEY and ACCEPT wait in EKEY, and KEY? goes to   *)
(* EKEY with a character in the ring.                                      *)
WordInv ==
  /\ word = "none" => step = "ask"
  /\ word = "KEY?" => step \in {"ask", "asked", "got"}
  /\ word \in {"KEY", "ACCEPT"} => step \in {"get", "got"}
  /\ word # "none" => event = 0
  /\ word # "ACCEPT" => line = <<>>
  /\ mepc = "loop" => word \in {"KEY", "ACCEPT"} /\ step = "got"
  /\ step = "asked" /\ a0 = -1 => ~RingEmpty(ring)
  /\ step = "got" /\ mepc = "code" => a0 \in 1 .. typed

Base == IInv /\ KeysInOrder
KInv == KTypeOK /\ WordInv /\ NoKeyLost

(* The characters taken come first among those on their way.               *)
LEMMA OrderedTaken ==
  ASSUME NEW t \in Seq(Byte), NEW c \in Seq(Byte), NEW h \in Seq(Byte), NEW f \in Seq(Byte),
         NEW lost, NEW n, Ordered(t \o c \o h \o f, lost, n)
  PROVE  /\ DOMAIN t = 1 .. Len(t) /\ Len(t) \in Nat
         /\ \A i, j \in 1 .. Len(t) : i < j => t[i] < t[j]
         /\ \A i \in 1 .. Len(t) : t[i] \in 1 .. n
<1> DEFINE s == t \o c \o h \o f
<1>1. /\ Len(t) \in Nat /\ Len(c) \in Nat /\ Len(h) \in Nat /\ Len(f) \in Nat
      /\ DOMAIN t = 1 .. Len(t)
  BY LenProperties
<1>2. /\ t \o c \in Seq(Byte) /\ Len(t \o c) = Len(t) + Len(c)
      /\ \A i \in 1 .. Len(t) + Len(c) : i <= Len(t) => (t \o c)[i] = t[i]
  BY <1>1, ConcatProperties
<1>3. /\ t \o c \o h \in Seq(Byte) /\ Len(t \o c \o h) = Len(t) + Len(c) + Len(h)
      /\ \A i \in 1 .. Len(t) + Len(c) + Len(h) :
           i <= Len(t) + Len(c) => (t \o c \o h)[i] = (t \o c)[i]
  BY <1>1, <1>2, ConcatProperties
<1>4. /\ s \in Seq(Byte) /\ Len(s) = Len(t) + Len(c) + Len(h) + Len(f)
      /\ \A i \in 1 .. Len(t) + Len(c) + Len(h) + Len(f) :
           i <= Len(t) + Len(c) + Len(h) => s[i] = (t \o c \o h)[i]
  BY <1>1, <1>3, ConcatProperties
<1>5. DOMAIN s = 1 .. Len(s)
  BY <1>4, LenProperties
<1> HIDE DEF s
<1>6. \A i \in 1 .. Len(t) : i \in DOMAIN s /\ s[i] = t[i]
  <2> SUFFICES ASSUME NEW i \in 1 .. Len(t) PROVE i \in DOMAIN s /\ s[i] = t[i]
    OBVIOUS
  <2>1. (t \o c)[i] = t[i]
    BY <1>1, <1>2
  <2>2. (t \o c \o h)[i] = (t \o c)[i]
    BY <1>1, <1>3
  <2>3. s[i] = (t \o c \o h)[i] /\ i \in DOMAIN s
    BY <1>1, <1>4, <1>5
  <2> QED BY <2>1, <2>2, <2>3
<1>7. Ordered(s, lost, n)
  BY DEF s
<1> QED BY <1>1, <1>6, <1>7 DEF Ordered

(* The characters taken, now and after a step.                             *)
TakenOrdered ==
  /\ DOMAIN taken = 1 .. Len(taken) /\ Len(taken) \in Nat
  /\ \A i, j \in 1 .. Len(taken) : i < j => taken[i] < taken[j]
  /\ \A i \in 1 .. Len(taken) : taken[i] \in 1 .. typed

LEMMA BaseTaken == Base => TakenOrdered
<1> SUFFICES ASSUME Base PROVE TakenOrdered
  OBVIOUS
<1>1. Ordered(taken \o Contents(ring) \o InHand \o fifo, dropped, typed)
  BY DEF Base, KeysInOrder, Ordered, OnItsWay
<1>2. /\ taken \in Seq(Byte) /\ Contents(ring) \in Seq(Byte)
      /\ InHand \in Seq(Byte) /\ fifo \in Seq(Byte)
  BY PartsType DEF Base, IInv
<1> QED BY <1>1, <1>2, OrderedTaken DEF TakenOrdered

LEMMA NextBase == Base /\ [Next]_vars => Base' /\ TakenOrdered'
<1>1. Base /\ [Next]_vars => Base'
  BY NextIInv, NextOrder DEF Base
<1>2. Base' => TakenOrdered'
  BY BaseTaken, PTL
<1> QED BY <1>1, <1>2
-----------------------------------------------------------------------------
(* The parts of Kept.  No two of HeldKey, line and InWordHand hold         *)
(* something, but line and InWordHand in ACCEPT.                           *)
Chars == 1 .. MaxTyped

KeptParts ==
  /\ given \in Seq(Chars) /\ line \in Seq(Chars)
  /\ HeldKey \in Seq(Chars) /\ InWordHand \in Seq(Chars)
  /\ word = "none" => Kept = given \o HeldKey
  /\ word \in {"KEY", "KEY?"} => Kept = given \o InWordHand
  /\ word = "ACCEPT" => Kept = (given \o line) \o InWordHand
  /\ Kept \in Seq(Chars)

LEMMA KeptIs == KTypeOK /\ WordInv => KeptParts
<1> SUFFICES ASSUME KTypeOK, WordInv PROVE KeptParts
  OBVIOUS
<1>1. given \in Seq(Chars) /\ line \in Seq(Chars)
  BY DEF KTypeOK, Chars
<1>2. HeldKey \in Seq(Chars)
  <2>1. event # 0 => event \in Chars
    BY ConsoleAssumption DEF KTypeOK, Chars
  <2> QED BY <2>1, EmptySeq DEF HeldKey
<1>3. InWordHand \in Seq(Chars)
  <2>1. Printable(a0) => a0 \in Chars
    BY ConsoleAssumption DEF KTypeOK, TypeOK, Printable, Chars
  <2> QED BY <2>1, EmptySeq DEF InWordHand
<1>4. given \o line \in Seq(Chars) /\ given \o HeldKey \in Seq(Chars)
      /\ given \o line \o HeldKey \in Seq(Chars) /\ Kept \in Seq(Chars)
  BY <1>1, <1>2, <1>3, ConcatProperties DEF Kept
<1>5. /\ given \o <<>> = given /\ (given \o HeldKey) \o <<>> = given \o HeldKey
      /\ (given \o line) \o <<>> = given \o line
  BY <1>1, <1>4, ConcatEmptySeq
<1>6. word = "none" => Kept = given \o HeldKey
  <2>1. word = "none" => InWordHand = <<>> /\ line = <<>>
    BY DEF InWordHand, WordInv
  <2> QED BY <1>5, <2>1 DEF Kept
<1>7. word # "none" => HeldKey = <<>>
  BY DEF HeldKey, WordInv
<1>8. word \in {"KEY", "KEY?"} => Kept = given \o InWordHand
  <2>1. word \in {"KEY", "KEY?"} => line = <<>> /\ HeldKey = <<>>
    BY <1>7 DEF WordInv
  <2> QED BY <1>5, <2>1 DEF Kept
<1>9. word = "ACCEPT" => Kept = (given \o line) \o InWordHand
  <2>1. word = "ACCEPT" => HeldKey = <<>>
    BY <1>7
  <2> QED BY <1>5, <2>1 DEF Kept
<1> QED BY <1>1, <1>2, <1>3, <1>4, <1>6, <1>8, <1>9 DEF KeptParts

LEMMA KeptIsNext == (KTypeOK /\ WordInv)' => KeptParts'
BY KeptIs, PTL

(* A step that takes no character and moves none.                          *)
LEMMA KeptSame ==
  ASSUME NoKeyLost, Base, TakenOrdered, Kept' = Kept, taken' = taken,
         \A c \in 1 .. typed : kind'[c] = kind[c]
  PROVE  NoKeyLost'
<1>1. \A k \in DOMAIN taken : Printable(taken[k]) <=> Printable(taken[k])'
  BY DEF Printable, TakenOrdered
<1>2. {taken[i] : i \in {k \in DOMAIN taken : Printable(taken[k])}}
      = {taken'[i] : i \in {k \in DOMAIN taken' : Printable(taken[k])'}}
  BY <1>1
<1> QED BY <1>2 DEF NoKeyLost

(* A step that takes a character and keeps it if it is printable.          *)
LEMMA KeptMore ==
  ASSUME NoKeyLost, TakenOrdered, TakenOrdered', Kept \in Seq(Chars), taken \in Seq(Byte),
         NEW c \in Byte, taken' = Append(taken, c), kind' = kind,
         Kept' = Kept \o (IF Printable(c) THEN <<c>> ELSE <<>>)
  PROVE  NoKeyLost'
<1> PICK n \in Nat : n = Len(taken)
  BY DEF TakenOrdered
<1> DEFINE old == {taken[i] : i \in {k \in DOMAIN taken : Printable(taken[k])}}
           new == {taken'[i] : i \in {k \in DOMAIN taken' : Printable(taken[k])'}}
<1>1. /\ Len(taken') = n + 1 /\ taken'[n + 1] = c /\ DOMAIN taken = 1 .. n
      /\ DOMAIN taken' = 1 .. n + 1 /\ \A i \in 1 .. n : taken'[i] = taken[i]
  BY AppendProperties DEF TakenOrdered
<1>2. \A i \in 1 .. n : taken[i] < c
  <2> SUFFICES ASSUME NEW i \in 1 .. n PROVE taken[i] < c
    OBVIOUS
  <2>1. i \in 1 .. Len(taken') /\ n + 1 \in 1 .. Len(taken') /\ i < n + 1
    BY <1>1
  <2>2. taken'[i] < taken'[n + 1]
    BY <2>1 DEF TakenOrdered
  <2> QED BY <1>1, <2>2
<1>4. new = IF Printable(c) THEN old \cup {c} ELSE old
  <2>1. \A k \in 1 .. n : Printable(taken[k])' <=> Printable(taken[k])
    BY <1>1 DEF Printable
  <2>a. \A k \in {n + 1} : Printable(taken[k])' <=> Printable(c)
    BY <1>1 DEF Printable
  <2>2. /\ \A k \in 1 .. n : Printable(taken[k])' <=> Printable(taken[k])
        /\ \A k \in {n + 1} : Printable(taken[k])' <=> Printable(c)
    BY <2>1, <2>a
  <2>3. \A k \in 1 .. n + 1 : k \in 1 .. n \/ k = n + 1
    BY <1>1
  <2>4. 1 .. n \subseteq 1 .. n + 1 /\ n + 1 \in 1 .. n + 1
    BY <1>1
  <2>5. old \subseteq new
    BY <1>1, <2>2, <2>4
  <2>6. new \subseteq old \cup {c}
    BY <1>1, <2>2, <2>3
  <2>7. CASE Printable(c)
    <3>1. c \in new
      BY <1>1, <2>2, <2>4, <2>7
    <3> QED BY <2>5, <2>6, <2>7, <3>1
  <2>8. CASE ~Printable(c)
    <3>1. new \subseteq old
      BY <1>1, <2>2, <2>3, <2>8
    <3> QED BY <2>5, <2>8, <3>1
  <2> QED BY <2>7, <2>8
<1>5. Len(Kept) \in Nat /\ DOMAIN Kept = 1 .. Len(Kept)
  BY LenProperties
<1>6. CASE ~Printable(c)
  <2>1. Kept' = Kept
    BY <1>6, ConcatEmptySeq
  <2> QED BY <1>4, <1>6, <2>1 DEF NoKeyLost
<1>7. CASE Printable(c)
  <2>1. c \in Chars
    BY <1>7, ConsoleAssumption DEF Printable, Chars
  <2>2. Kept' = Append(Kept, c)
    BY <1>7, <2>1, AppendIsConcat
  <2>3. /\ Kept' \in Seq(Chars) /\ Len(Kept') = Len(Kept) + 1 /\ DOMAIN Kept' = 1 .. Len(Kept) + 1
        /\ \A i \in 1 .. Len(Kept) : Kept'[i] = Kept[i]
        /\ Kept'[Len(Kept) + 1] = c
    BY <1>5, <2>1, <2>2, AppendProperties, LenProperties
  <2>4. \A i \in 1 .. Len(Kept) : Kept[i] < c
    <3> SUFFICES ASSUME NEW i \in 1 .. Len(Kept) PROVE Kept[i] < c
      OBVIOUS
    <3>1. Kept[i] \in old
      BY <1>5 DEF NoKeyLost
    <3> QED BY <1>1, <1>2, <3>1
  <2>5. {Kept'[i] : i \in DOMAIN Kept'} = {Kept[i] : i \in DOMAIN Kept} \cup {c}
    <3>1. \A i \in DOMAIN Kept' : (i \in DOMAIN Kept /\ Kept'[i] = Kept[i]) \/ Kept'[i] = c
      BY <1>5, <2>3
    <3>2. \A i \in DOMAIN Kept : i \in DOMAIN Kept' /\ Kept'[i] = Kept[i]
      BY <1>5, <2>3
    <3>3. Len(Kept) + 1 \in DOMAIN Kept'
      BY <1>5, <2>3
    <3> QED BY <2>3, <3>1, <3>2, <3>3
  <2>6. \A i, j \in DOMAIN Kept' : i < j => Kept'[i] < Kept'[j]
    <3> SUFFICES ASSUME NEW i \in DOMAIN Kept', NEW j \in DOMAIN Kept', i < j
                 PROVE  Kept'[i] < Kept'[j]
      OBVIOUS
    <3>1. i \in 1 .. Len(Kept)
      BY <1>5, <2>3
    <3>2. CASE j = Len(Kept) + 1
      BY <2>3, <2>4, <3>1, <3>2
    <3>3. CASE j \in 1 .. Len(Kept)
      BY <1>5, <2>3, <3>1, <3>3 DEF NoKeyLost
    <3> QED BY <1>5, <2>3, <3>2, <3>3
  <2>7. {Kept'[i] : i \in DOMAIN Kept'} = new
    BY <1>4, <1>7, <2>5 DEF NoKeyLost
  <2> QED BY <2>6, <2>7 DEF NoKeyLost
<1> QED BY <1>6, <1>7
-----------------------------------------------------------------------------
(* The steps, the console's invariants given before and after each.        *)
Given == Base /\ TakenOrdered /\ Base' /\ TakenOrdered'

LEMMA InitKInv == KInit => KInv
<1> SUFFICES ASSUME KInit PROVE KInv
  OBVIOUS
<1>1. KTypeOK
  <2>1. TypeOK
    BY InitIInv DEF KInit, IInv
  <2>2. 0 \in Byte /\ LineMax \in Nat \ {0}
    BY ConsoleAssumption, KeyboardAssumption
  <2> QED BY <2>1, <2>2, EmptySeq DEF KInit, KTypeOK, Kinds
<1>2. WordInv
  BY DEF KInit, Init, WordInv
<1>3. NoKeyLost
  <2>1. HeldKey = <<>> /\ InWordHand = <<>> /\ given = <<>> /\ line = <<>> /\ taken = <<>>
    BY DEF KInit, Init, HeldKey, InWordHand
  <2>2. <<>> \in Seq(Chars) /\ <<>> \o <<>> = <<>> /\ DOMAIN <<>> = {}
    BY EmptySeq, ConcatEmptySeq, LenProperties
  <2>3. Kept = <<>>
    BY <2>1, <2>2 DEF Kept
  <2> QED BY <2>1, <2>2, <2>3 DEF NoKeyLost
<1> QED BY <1>1, <1>2, <1>3 DEF KInv

(* A step that brings the word in EKEY its character.                      *)
LEMMA TakeKeeps ==
  ASSUME Given, KInv, InWordHand = <<>>, taken' = Append(taken, a0'), a0' \in Byte,
         UNCHANGED <<kind, word, event, line, given>>,
         word # "none", step' = "got", mepc' = "code"
  PROVE  NoKeyLost'
<1> DEFINE a == given \o line \o HeldKey
<1>1. a \in Seq(Chars) /\ Kept \in Seq(Chars)
  BY KeptIs, ConcatProperties DEF KInv, KeptParts
<1>2. Kept = a
  BY <1>1, ConcatEmptySeq DEF Kept
<1>3. InWordHand' = IF Printable(a0') THEN <<a0'>> ELSE <<>>
  BY DEF InWordHand, Printable
<1>4. Kept' = a \o InWordHand'
  BY DEF Kept, HeldKey
<1>5. Kept' = Kept \o (IF Printable(a0') THEN <<a0'>> ELSE <<>>)
  BY <1>2, <1>3, <1>4
<1>6. taken \in Seq(Byte)
  BY DEF Given, Base, IInv, TypeOK
<1> QED BY <1>1, <1>5, <1>6, KeptMore DEF Given, KInv

LEMMA TypeKindStep == ASSUME Given, KInv, TypeKind PROVE KInv'
<1>1. PICK k \in Kinds : kind' = [kind EXCEPT ![typed + 1] = k]
  BY DEF TypeKind
<1>2. typed \in Nat /\ typed' = typed + 1 /\ UNCHANGED <<word, step, event, line, given, mepc, a0, ring, taken>>
  BY DEF TypeKind, Type, wfiVars, Given, Base, IInv, TypeOK
<1>3. KTypeOK'
  BY <1>1, <1>2 DEF KInv, KTypeOK, Given, Base, IInv
<1>4. WordInv'
  BY <1>2 DEF KInv, WordInv
<1>5. \A c \in 1 .. typed : kind'[c] = kind[c]
  BY <1>1, <1>2 DEF KInv, KTypeOK, Given, Base, IInv, TypeOK
<1>6. InWordHand' = InWordHand
  <2>1. word # "none" /\ step = "got" /\ mepc = "code" => kind'[a0] = kind[a0]
    BY <1>5 DEF KInv, WordInv
  <2> QED BY <1>2, <2>1 DEF InWordHand, Printable
<1>7. Kept' = Kept
  BY <1>2, <1>6 DEF Kept, HeldKey
<1>8. NoKeyLost'
  BY <1>2, <1>5, <1>7, KeptSame DEF KInv, Given
<1> QED BY <1>3, <1>4, <1>8 DEF KInv

(* The interrupt gives the word that waits in EKEY its character, and      *)
(* nothing to anybody else.                                                *)
LEMMA PushcharStep == ASSUME Given, KInv, PUSHCHAR, UNCHANGED kvars PROVE KInv'
<1> DEFINE q == IF RingFull(ring) THEN ring ELSE Pushed(ring, ch)
<1>1. /\ ring \in Rings /\ ch \in Byte /\ q \in Rings
      /\ UNCHANGED <<kind, word, step, event, line, given, typed>>
  BY PushedType DEF Given, Base, IInv, TypeOK, kvars, PUSHCHAR, hwVars
<1>2. KTypeOK'
  BY <1>1 DEF KInv, KTypeOK, Given, Base, IInv
<1>3. IF ekeyWfi THEN Wake(q) ELSE ring' = q /\ UNCHANGED <<wfiVars, a0, taken>>
  BY DEF PUSHCHAR
<1>4. CASE ~ekeyWfi
  <2>1. ring' = q /\ UNCHANGED <<mepc, a0, taken>>
    BY <1>3, <1>4 DEF wfiVars
  <2>2. ~RingEmpty(ring) => ~RingEmpty(ring')
    BY <1>1, <2>1, PushedNotEmpty
  <2>3. WordInv'
    BY <1>1, <2>1, <2>2 DEF KInv, WordInv
  <2>4. Kept' = Kept
    BY <1>1, <2>1 DEF Kept, HeldKey, InWordHand, Printable
  <2>5. NoKeyLost'
    BY <1>1, <2>1, <2>4, KeptSame DEF KInv, Given
  <2> QED BY <1>2, <2>3, <2>5 DEF KInv
<1>5. CASE ekeyWfi
  <2>1. mepc = "loop" /\ mEnvWfi = "code" /\ RingEmpty(ring)
    BY <1>5 DEF Given, Base, IInv, TypeOK, ParkedIffArmed
  <2>2. ~RingFull(ring)
    <3>1. Advance(ring.whead) # ring.whead
      BY <1>1, AdvanceIs, KeyboardAssumption DEF Rings, Cells
    <3> QED BY <2>1, <3>1 DEF RingFull, RingEmpty
  <2>3. ~RingEmpty(q)
    BY <1>1, <2>2, PushedNotEmpty
  <2>4. /\ mepc' = "code" /\ a0' = Oldest(q) /\ taken' = Append(taken, a0')
    BY <1>3, <1>5, <2>1, <2>3 DEF Wake, PopInto
  <2>5. a0' \in Byte
    BY <1>1, <2>4, PoppedType
  <2>6. a0' \in 1 .. typed'
    <3>1. Len(taken') = Len(taken) + 1 /\ taken'[Len(taken) + 1] = a0' /\ Len(taken) \in Nat
      BY <2>4, <2>5, AppendProperties, LenProperties DEF Given, Base, IInv, TypeOK
    <3> QED BY <3>1 DEF Given, TakenOrdered
  <2>7. word \in {"KEY", "ACCEPT"} /\ step = "got"
    BY <2>1 DEF KInv, WordInv
  <2>8. WordInv'
    BY <1>1, <2>4, <2>6, <2>7 DEF KInv, WordInv
  <2>9. InWordHand = <<>>
    BY <2>1 DEF InWordHand
  <2>10. NoKeyLost'
    BY <1>1, <2>4, <2>5, <2>7, <2>9, TakeKeeps
  <2> QED BY <1>2, <2>8, <2>10 DEF KInv
<1> QED BY <1>4, <1>5

LEMMA TrapStep == ASSUME Given, KInv, Raise \/ Handler, UNCHANGED kvars PROVE KInv'
<1>1. CASE ~PUSHCHAR
  <2>1. /\ UNCHANGED <<kind, word, step, event, line, given>>
        /\ UNCHANGED <<mepc, a0, ring, taken, typed>>
    BY <1>1 DEF Raise, Handler, CLAIM, GETCHAR, COMPLETE, wfiVars, kvars
  <2>2. KTypeOK'
    BY <2>1 DEF KInv, KTypeOK, Given, Base, IInv
  <2>3. WordInv'
    BY <2>1 DEF KInv, WordInv
  <2>4. Kept' = Kept
    BY <2>1 DEF Kept, HeldKey, InWordHand, Printable
  <2>5. NoKeyLost'
    BY <2>1, <2>4, KeptSame DEF KInv, Given
  <2> QED BY <2>2, <2>3, <2>5 DEF KInv
<1> QED BY <1>1, PushcharStep
(* The beginning of a word. *)
LEMMA BeginStep ==
  ASSUME Given, KInv, BeginKEY_question \/ BeginKEY \/ BeginACCEPT
  PROVE  KInv'
<1> USE DEF KInv
<1>1. /\ word = "none" /\ line = <<>> /\ step = "ask" /\ mepc = "code"
      /\ UNCHANGED <<kind, mepc, a0, ring, taken, typed>>
  BY DEF WordInv, BeginKEY_question, BeginKEY, BeginACCEPT, Running, vars
<1>2. <<>> \in Seq(Chars) /\ Len(<<>>) = 0 /\ LineMax \in Nat \ {0} /\ 0 \in Byte
  BY EmptySeq, KeyboardAssumption, ConsoleAssumption
<1>3. CASE BeginKEY_question \/ BeginACCEPT \/ (BeginKEY /\ event = 0)
  <2>1. UNCHANGED <<event, line, given>> /\ event = 0
        /\ \/ word' = "KEY?" /\ step' = "ask"
           \/ word' \in {"KEY", "ACCEPT"} /\ step' = "get"
    BY <1>1, <1>3 DEF BeginKEY_question, BeginKEY, BeginACCEPT
  <2>2. KTypeOK'
    BY <1>1, <2>1 DEF KTypeOK, Given, Base, IInv
  <2>3. WordInv'
    BY <1>1, <2>1 DEF WordInv
  <2>4. Kept' = Kept
    BY <1>1, <2>1 DEF Kept, HeldKey, InWordHand
  <2>5. NoKeyLost'
    BY <1>1, <2>4, KeptSame DEF Given
  <2> QED BY <2>2, <2>3, <2>5
<1>4. CASE BeginKEY /\ event # 0
  <2>1. event' = 0 /\ given' = Append(given, event) /\ UNCHANGED <<word, step, line>>
    BY <1>4 DEF BeginKEY
  <2>2. event \in Chars /\ given \in Seq(Chars)
    BY <1>4, ConsoleAssumption DEF KTypeOK, Chars
  <2>3. given' \in Seq(Chars) /\ given' = given \o <<event>>
    BY <2>1, <2>2, AppendProperties, AppendIsConcat
  <2>4. KTypeOK'
    BY <1>1, <1>2, <2>1, <2>3 DEF KTypeOK, Given, Base, IInv, Chars
  <2>5. WordInv'
    BY <1>1, <2>1 DEF WordInv
  <2>6. Kept' = given' \o HeldKey'
    <3>1. KeptParts'
      BY <2>4, <2>5, KeptIsNext
    <3> QED BY <1>1, <2>1, <3>1 DEF KeptParts
  <2>7. Kept = given \o <<event>>
    BY <1>1, <1>4, KeptIs DEF HeldKey, KeptParts
  <2>8. Kept' = Kept
    BY <2>1, <2>3, <2>6, <2>7, ConcatEmptySeq DEF HeldKey
  <2>9. NoKeyLost'
    BY <1>1, <2>8, KeptSame DEF Given
  <2> QED BY <2>4, <2>5, <2>9
<1> QED BY <1>3, <1>4

(* The environment calls of a word. *)
LEMMA CallStep ==
  ASSUME Given, KInv, Ask \/ NoKey \/ Get
  PROVE  KInv'
<1> USE DEF KInv
<1>1. UNCHANGED <<kind, event, line, given, typed>> /\ word # "none"
  BY DEF WordInv, Ask, NoKey, Get, EKEY, EKEY_question, vars, hwVars
<1>2. step' \in {"ask", "asked", "got"} /\ word' \in {word, "none"}
  BY DEF Ask, NoKey, Get
<1>3. KTypeOK'
  BY <1>1, <1>2 DEF KTypeOK, Given, Base, IInv
<1>4. CASE Ask \/ NoKey
  <2>1. UNCHANGED <<mepc, ring, taken>> /\ step # "got" /\ step' # "got" /\ mepc = "code"
    BY <1>4 DEF Ask, NoKey, EKEY_question, Running, vars, wfiVars
  <2>2. WordInv'
    BY <1>1, <1>4, <2>1 DEF WordInv, Ask, NoKey, EKEY_question, vars
  <2>3. Kept' = Kept
    BY <1>1, <2>1 DEF Kept, HeldKey, InWordHand
  <2>4. NoKeyLost'
    BY <1>1, <2>1, <2>3, KeptSame DEF Given
  <2> QED BY <1>3, <2>2, <2>4
<1>5. CASE Get
  <2>1. step # "got" /\ step' = "got" /\ word' = word /\ mepc = "code"
    BY <1>5 DEF Get, EKEY, Running
  <2>2. CASE RingEmpty(ring)
    <3>1. mepc' = "loop" /\ UNCHANGED <<ring, a0, taken>>
      BY <1>5, <2>2 DEF Get, EKEY
    <3>2. word \in {"KEY", "ACCEPT"}
      BY <1>1, <1>5, <2>2 DEF Get, WordInv, KTypeOK
    <3>3. WordInv'
      BY <1>1, <2>1, <3>1, <3>2 DEF WordInv
    <3>4. Kept' = Kept
      BY <1>1, <2>1, <3>1 DEF Kept, HeldKey, InWordHand
    <3>5. NoKeyLost'
      BY <1>1, <3>1, <3>4, KeptSame DEF Given
    <3> QED BY <1>3, <3>3, <3>5
  <2>3. CASE ~RingEmpty(ring)
    <3>1. mepc' = "code" /\ a0' = Oldest(ring) /\ taken' = Append(taken, a0')
      BY <1>5, <2>1, <2>3 DEF Get, EKEY, PopInto, wfiVars
    <3>2. a0' \in Byte
      BY <3>1, PoppedType DEF Given, Base, IInv, TypeOK
    <3>3. a0' \in 1 .. typed'
      <4>1. Len(taken') = Len(taken) + 1 /\ taken'[Len(taken) + 1] = a0' /\ Len(taken) \in Nat
        BY <3>1, <3>2, AppendProperties, LenProperties DEF Given, Base, IInv, TypeOK
      <4> QED BY <4>1 DEF Given, TakenOrdered
    <3>4. word \in {"KEY?", "KEY", "ACCEPT"}
      BY <1>1 DEF KTypeOK
    <3>5. WordInv'
      BY <1>1, <2>1, <3>1, <3>3, <3>4 DEF WordInv
    <3>6. NoKeyLost'
      BY <1>1, <2>1, <3>1, <3>2, TakeKeeps DEF InWordHand
    <3> QED BY <1>3, <3>5, <3>6
  <2> QED BY <2>2, <2>3
<1> QED BY <1>4, <1>5

(* What KEY? and KEY do with their character. *)
LEMMA GotKeyStep ==
  ASSUME Given, KInv, GotKEY_question \/ GotKEY
  PROVE  KInv'
<1> USE DEF KInv
<1>1. /\ UNCHANGED <<kind, line, mepc, a0, ring, taken, typed>>
      /\ word \in {"KEY?", "KEY"} /\ step = "got" /\ mepc = "code"
  BY DEF GotKEY_question, GotKEY, Got, Running, vars
<1>2. a0 \in Chars /\ a0 \in Byte /\ a0 > 0 /\ event = 0 /\ line = <<>> /\ given \in Seq(Chars)
  BY <1>1, ConsoleAssumption DEF WordInv, KTypeOK, Given, Base, IInv, TypeOK, Chars
<1>3. Kept = given \o InWordHand /\ InWordHand = IF kind[a0] = "char" THEN <<a0>> ELSE <<>>
  BY <1>1, <1>2, KeptIs DEF InWordHand, Printable, KeptParts
<1>4. /\ \/ word' = "none" /\ step' = "ask"
         \/ word' = "KEY?" /\ step' = "ask" /\ event' = 0
         \/ word' = "KEY" /\ step' = "get" /\ event' = 0
      /\ IF kind[a0] = "char"
           THEN \/ event' = a0 /\ given' = given /\ word' = "none"
                \/ event' = 0 /\ given' = Append(given, a0) /\ word' = "none"
           ELSE event' = 0 /\ given' = given
  <2>1. CASE GotKEY_question
    BY <1>1, <1>2, <2>1 DEF GotKEY_question, Got, Ends, Again, CHECK_INT
  <2>2. CASE GotKEY
    BY <1>1, <1>2, <2>2 DEF GotKEY, Got, Ends, Again, CHECK_INT
  <2> QED BY <2>1, <2>2
<1>5. given' \in Seq(Chars) /\ Append(given, a0) = given \o <<a0>>
  BY <1>2, <1>4, AppendProperties, AppendIsConcat
<1>6. KTypeOK'
  <2>1. event' \in Byte
    BY <1>2, <1>4, ConsoleAssumption
  <2> QED BY <1>1, <1>4, <1>5, <2>1 DEF KTypeOK, Given, Base, IInv, Chars
<1>7. WordInv'
  BY <1>1, <1>2, <1>4 DEF WordInv
<1>8. Kept' = given' \o HeldKey'
  <2>1. KeptParts'
    BY <1>6, <1>7, KeptIsNext
  <2>2. word' # "none" => HeldKey' = <<>> /\ InWordHand' = <<>>
    BY <1>4 DEF HeldKey, InWordHand
  <2> QED BY <1>4, <2>1, <2>2 DEF KeptParts
<1>9. Kept' = Kept
  <2>1. CASE kind[a0] = "char" /\ event' = a0
    BY <1>2, <1>3, <1>4, <1>8, <2>1 DEF HeldKey
  <2>2. CASE kind[a0] = "char" /\ event' = 0
    BY <1>2, <1>3, <1>4, <1>5, <1>8, <2>2, ConcatEmptySeq DEF HeldKey
  <2>3. CASE kind[a0] # "char"
    BY <1>3, <1>4, <1>8, <2>3 DEF HeldKey
  <2> QED BY <1>4, <2>1, <2>2, <2>3
<1>10. NoKeyLost'
  BY <1>1, <1>9, KeptSame DEF Given
<1> QED BY <1>6, <1>7, <1>10

(* What ACCEPT does with its character. *)
LEMMA GotAcceptStep == ASSUME Given, KInv, GotACCEPT PROVE KInv'
<1> USE DEF KInv
<1> DEFINE l == IF kind[a0] = "char" THEN Append(line, a0) ELSE line
           over == Len(l) = LineMax \/ kind[a0] = "eol"
<1>1. /\ UNCHANGED <<kind, event, mepc, a0, ring, taken, typed>>
      /\ word = "ACCEPT" /\ step = "got" /\ mepc = "code"
  BY DEF GotACCEPT, Got, Running, vars
<1>2. /\ a0 \in Chars /\ a0 > 0 /\ event = 0 /\ given \in Seq(Chars)
      /\ line \in Seq(Chars) /\ Len(line) < LineMax /\ Len(line) \in Nat
  BY <1>1, ConsoleAssumption, LenProperties DEF WordInv, KTypeOK, Given, Base, IInv, TypeOK, Chars
<1>3. IF over THEN given' = given \o l /\ line' = <<>> /\ word' = "none" /\ step' = "ask"
              ELSE given' = given /\ line' = l /\ word' = "ACCEPT" /\ step' = "get"
  BY <1>1 DEF GotACCEPT, Ends, Again
<1>4. /\ l \in Seq(Chars) /\ Len(l) \in Nat /\ Len(l) <= Len(line) + 1
      /\ l = line \o InWordHand
  <2>1. InWordHand = IF kind[a0] = "char" THEN <<a0>> ELSE <<>>
    BY <1>1, <1>2 DEF InWordHand, Printable
  <2>2. CASE kind[a0] = "char"
    BY <1>2, <2>1, <2>2, AppendProperties, AppendIsConcat
  <2>3. CASE kind[a0] # "char"
    BY <1>2, <2>1, <2>3, ConcatEmptySeq
  <2> QED BY <2>2, <2>3
<1>5. Kept = given \o l
  <2>1. InWordHand \in Seq(Chars) /\ Kept = (given \o line) \o InWordHand
    BY <1>1, KeptIs DEF KeptParts
  <2>2. (given \o line) \o InWordHand = given \o (line \o InWordHand)
    BY <1>2, <2>1, ConcatAssociative
  <2> QED BY <1>4, <2>1, <2>2
<1> HIDE DEF l
<1>6. given \o l \in Seq(Chars) /\ <<>> \in Seq(Chars) /\ Len(<<>>) = 0 /\ LineMax \in Nat \ {0}
  BY <1>2, <1>4, ConcatProperties, EmptySeq, KeyboardAssumption
<1>7. KTypeOK'
  <2>1. line' \in Seq(Chars) /\ Len(line') < LineMax
    <3>1. CASE over
      <4>1. line' = <<>>
        BY <1>3, <3>1
      <4> QED BY <1>6, <4>1
    <3>2. CASE ~over
      <4>1. line' = l /\ Len(l) # LineMax
        BY <1>3, <3>2
      <4> HIDE DEF over
      <4> QED BY <1>2, <1>4, <1>6, <4>1
    <3> QED BY <3>1, <3>2
  <2>2. given' \in Seq(Chars)
    BY <1>2, <1>3, <1>6
  <2> QED BY <1>1, <1>3, <2>1, <2>2 DEF KTypeOK, Given, Base, IInv, Chars
<1>8. WordInv'
  BY <1>1, <1>2, <1>3 DEF WordInv
<1>9. Kept' = Kept
  <2>1. KeptParts'
    BY <1>7, <1>8, KeptIsNext
  <2>2. HeldKey' = <<>> /\ InWordHand' = <<>>
    BY <1>1, <1>2, <1>3 DEF HeldKey, InWordHand
  <2>3. (given \o l) \o <<>> = given \o l
    BY <1>6, ConcatEmptySeq
  <2> QED BY <1>3, <1>5, <2>1, <2>2, <2>3 DEF KeptParts
<1>10. NoKeyLost'
  BY <1>1, <1>9, KeptSame DEF Given
<1> QED BY <1>7, <1>8, <1>10
-----------------------------------------------------------------------------
LEMMA NextKInv == Base /\ KInv /\ [KNext]_<<vars, kvars>> => KInv'
<1> SUFFICES ASSUME Base, KInv, [KNext]_<<vars, kvars>> PROVE KInv'
  OBVIOUS
<1>1. Given
  BY BaseTaken, NextBase, WordsUseConsole DEF Given
<1>2. CASE UNCHANGED <<vars, kvars>>
  <2>1. UNCHANGED <<kind, word, step, event, line, given, mepc, a0, ring, taken, typed>>
    BY <1>2 DEF vars, kvars
  <2>2. KTypeOK'
    BY <1>1, <2>1 DEF KInv, KTypeOK, Given, Base, IInv
  <2>3. WordInv'
    BY <2>1 DEF KInv, WordInv
  <2>4. Kept' = Kept
    BY <2>1 DEF Kept, HeldKey, InWordHand, Printable
  <2>5. NoKeyLost'
    BY <1>1, <2>1, <2>4, KeptSame DEF KInv, Given
  <2> QED BY <2>2, <2>3, <2>5 DEF KInv
<1>3. CASE Hardware \/ Trap
  BY <1>1, <1>3, TrapStep DEF Hardware, Trap
<1> QED BY <1>1, <1>2, <1>3, TypeKindStep, BeginStep, CallStep, GotKeyStep, GotAcceptStep
        DEF KNext, InWord

LEMMA KeyboardInvariant == KSpec => []KInv
<1>1. KInit => KInv
  BY InitKInv
<1>2. Base /\ KInv /\ [KNext]_<<vars, kvars>> => KInv'
  BY NextKInv
<1>3. KSpec => []Base
  <2>1. IInv /\ KeysInOrder => Base
    BY DEF Base
  <2> QED BY <2>1, ConsoleInvariant, KeysReachTheProgramInOrder, PTL
<1> QED BY <1>1, <1>2, <1>3, PTL DEF KSpec

(* The key words keep the shape of their state: ACCEPT never has a full    *)
(* buffer and goes on (facility.fth 6-43, uart.fth 111-129).               *)
THEOREM KeyWordsTypeCorrect == KSpec => []KTypeOK
<1>1. KInv => KTypeOK BY DEF KInv
<1> QED BY <1>1, KeyboardInvariant, PTL

(* Between the EKEY? and the EKEY of KEY? nobody empties the ring: KEY?    *)
(* never parks the program (facility.fth 14-27).                           *)
THEOREM KeyQuestionReturns == KSpec => []KeyQuestionNeverWaits
<1>1. KInv /\ IInv => KeyQuestionNeverWaits
  BY DEF KInv, WordInv, KeyQuestionNeverWaits, IInv, TypeOK
<1> QED BY <1>1, KeyboardInvariant, ConsoleInvariant, PTL

(* Every printable character that left the queue was given to the program  *)
(* or is held for it, once and in order (facility.fth 6-43, uart.fth       *)
(* 111-129).                                                               *)
THEOREM PrintableKeysKept == KSpec => []NoKeyLost
<1>1. KInv => NoKeyLost BY DEF KInv
<1> QED BY <1>1, KeyboardInvariant, PTL
=============================================================================
