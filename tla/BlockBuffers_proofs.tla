------------------------- MODULE BlockBuffers_proofs -------------------------
(***************************************************************************)
(* Theorems about BlockBuffers, for every number of buffers, every set of  *)
(* blocks and both kinds of mass storage.                                  *)
(***************************************************************************)
EXTENDS BlockBuffers, TLAPS

(* What a save leaves on mass storage is again contents of blocks. *)
LEMMA SavedType ==
  ASSUME TypeOK, NEW S \in SUBSET Slots
  PROVE  Saved(S) \in [Valid -> Data \cup {Absent}]
<1> SUFFICES ASSUME NEW b \in Valid
             PROVE  Saved(S)[b] \in Data \cup {Absent}
  BY DEF Saved
<1>1. CASE \E i \in S : Marked(i) /\ assoc[i] = b
  <2> DEFINE i == CHOOSE i \in S : Marked(i) /\ assoc[i] = b
  <2>1. i \in S BY <1>1
  <2>2. data[i] \in Data BY <2>1 DEF TypeOK
  <2> QED BY <1>1, <2>2 DEF Saved
<1>2. CASE ~ \E i \in S : Marked(i) /\ assoc[i] = b
  BY <1>2 DEF Saved, TypeOK
<1> QED BY <1>1, <1>2

(* The initial state has the shape TypeOK gives. *)
LEMMA InitTypeOK == Init => TypeOK
<1> SUFFICES ASSUME Init PROVE TypeOK
  OBVIOUS
<1>1. 0 \in Slots
  BY BufferCountAssumption DEF Slots
<1>2. disk \in [Valid -> Data \cup {Absent}]
  <2>1. CASE throws BY <2>1 DEF Init
  <2>2. CASE ~throws BY <2>2 DEF Init
  <2> QED BY <2>1, <2>2
<1>3. flag \in [Slots -> BOOLEAN]
  BY DEF Init
<1> QED BY <1>1, <1>2, <1>3 DEF Init, TypeOK

(* BLOCK and BUFFER keep the shape of the state. *)
LEMMA BlockTypeOK ==
  ASSUME TypeOK, UNCHANGED throws, NEW n \in Blocks, BLOCK(n) \/ BUFFER(n)
  PROVE  TypeOK'
<1>1. PICK i \in Slots :
        \/ Hit(n, i)
        \/ EvictionFails(n, i)
        \/ Assign(n, i) /\ ior' = 0 /\ open' = TRUE
             /\ scratch' = scratch \cup {i} /\ UNCHANGED data
        \/ Assign(n, i) /\ Read(n, i)
  BY Zenon DEF BLOCK, BUFFER
<1>2. Saved({i}) \in [Valid -> Data \cup {Absent}]
  BY SavedType
<1>3. CASE Hit(n, i)
  BY <1>3 DEF Hit, TypeOK
<1>4. CASE EvictionFails(n, i)
  BY <1>4 DEF EvictionFails, TypeOK
<1>5. CASE Assign(n, i) /\ ior' = 0 /\ open' = TRUE
             /\ scratch' = scratch \cup {i} /\ UNCHANGED data
  BY <1>5, <1>2 DEF Assign, TypeOK
<1>6. CASE Assign(n, i) /\ Read(n, i)
  <2>1. data' \in [Slots -> Data]
    BY <1>6 DEF Read, Readable, TypeOK
  <2>2. /\ ior' \in {0, BadBlock}
        /\ open' \in BOOLEAN
        /\ scratch' \in SUBSET Slots
    BY <1>6 DEF Read, Refused, TypeOK
  <2> QED BY <1>6, <1>2, <2>1, <2>2 DEF Assign, TypeOK
<1> QED BY <1>1, <1>3, <1>4, <1>5, <1>6

(* Every step keeps the shape of the state. *)
LEMMA NextTypeOK == TypeOK /\ [Next]_vars => TypeOK'
<1> SUFFICES ASSUME TypeOK, [Next]_vars PROVE TypeOK'
  OBVIOUS
<1>. UNCHANGED throws
  BY DEF Next, vars
<1>1. ASSUME NEW n \in Blocks, BLOCK(n) \/ BUFFER(n) PROVE TypeOK'
  BY <1>1, BlockTypeOK
<1>2. ASSUME NEW v \in Data, Store(v) PROVE TypeOK'
  BY <1>2 DEF Store, TypeOK
<1>3. CASE UPDATE
  BY <1>3 DEF UPDATE, TypeOK
<1>4. Saved(Reached) \in [Valid -> Data \cup {Absent}]
  BY SavedType DEF Reached
<1>5. CASE FLUSH
  BY <1>5, <1>4 DEF FLUSH, TypeOK
<1>6. CASE SAVE_BUFFERS
  BY <1>6, <1>4 DEF SAVE_BUFFERS, TypeOK
<1>7. CASE EMPTY_BUFFERS
  BY <1>7 DEF EMPTY_BUFFERS, TypeOK
<1>8. CASE Restart
  <2>1. 0 \in Slots
    BY BufferCountAssumption DEF Slots
  <2>2. flag' \in [Slots -> BOOLEAN]
    BY <1>8 DEF Restart, FreshBuffers
  <2> QED BY <1>8, <2>1, <2>2 DEF Restart, FreshBuffers, TypeOK
<1>9. CASE UNCHANGED vars
  BY <1>9 DEF vars, TypeOK
<1> QED BY <1>1, <1>2, <1>3, <1>5, <1>6, <1>7, <1>8, <1>9 DEF Next

(* The state always has the shape TypeOK gives. *)
THEOREM TypeCorrect == Spec => []TypeOK
BY InitTypeOK, NextTypeOK, PTL DEF Spec
-----------------------------------------------------------------------------
(* A block gets a buffer only when no buffer holds it, and words that free *)
(* buffers only write zeros.                                               *)
LEMMA NextOneBuffer ==
  TypeOK /\ OneBufferPerBlock /\ [Next]_vars => OneBufferPerBlock'
<1> SUFFICES ASSUME TypeOK, OneBufferPerBlock, [Next]_vars
             PROVE  OneBufferPerBlock'
  OBVIOUS
<1>1. ASSUME NEW n \in Blocks, BLOCK(n) \/ BUFFER(n)
      PROVE  OneBufferPerBlock'
  <2>1. PICK i \in Slots : Hit(n, i) \/ EvictionFails(n, i) \/ Assign(n, i)
    BY <1>1, Zenon DEF BLOCK, BUFFER
  <2>2. CASE Hit(n, i) \/ EvictionFails(n, i)
    BY <2>2 DEF Hit, EvictionFails, OneBufferPerBlock
  <2>3. CASE Assign(n, i)
    <3>1. \A j \in Slots : assoc[j] # n
      BY <2>3 DEF Assign, Held
    <3>2. assoc' = [assoc EXCEPT ![i] = n]
      BY <2>3 DEF Assign
    <3> QED BY <3>1, <3>2 DEF OneBufferPerBlock, TypeOK
  <2> QED BY <2>1, <2>2, <2>3
<1>2. CASE FLUSH
  BY <1>2 DEF FLUSH, OneBufferPerBlock
<1>3. CASE EMPTY_BUFFERS
  BY <1>3 DEF EMPTY_BUFFERS, OneBufferPerBlock
<1>4. CASE Restart
  BY <1>4 DEF Restart, FreshBuffers, OneBufferPerBlock
<1>5. CASE UNCHANGED assoc
  BY <1>5 DEF OneBufferPerBlock
<1>6. ASSUME NEW v \in Data, Store(v) PROVE UNCHANGED assoc
  BY <1>6 DEF Store
<1> QED BY <1>1, <1>2, <1>3, <1>4, <1>5, <1>6
        DEF Next, UPDATE, SAVE_BUFFERS, vars

(* No block is ever in two buffers (block.fth, ?BUFFER). *)
THEOREM BlocksHaveOneBuffer == Spec => []OneBufferPerBlock
<1>1. Init => OneBufferPerBlock
  BY DEF Init, OneBufferPerBlock
<1> QED BY <1>1, InitTypeOK, NextTypeOK, NextOneBuffer, PTL DEF Spec
-----------------------------------------------------------------------------
(* A save of the buffers S writes each marked one where its block is, and  *)
(* touches no other block.                                                 *)
LEMMA SavedMarked ==
  ASSUME TypeOK, OneBufferPerBlock, NEW S \in SUBSET Slots, NEW i \in S,
         Marked(i), assoc[i] \in Valid
  PROVE  Saved(S)[assoc[i]] = data[i]
<1> DEFINE j == CHOOSE j \in S : Marked(j) /\ assoc[j] = assoc[i]
<1>1. j \in S /\ Marked(j) /\ assoc[j] = assoc[i]
  OBVIOUS
<1>2. j = i
  BY <1>1 DEF OneBufferPerBlock, Marked
<1> QED BY <1>1, <1>2 DEF Saved

LEMMA SavedOther ==
  ASSUME NEW S, NEW b \in Valid, \A i \in S : Marked(i) => assoc[i] # b
  PROVE  Saved(S)[b] = disk[b]
BY DEF Saved

(* The block of a buffer that is not marked is written by no save: no      *)
(* other buffer holds it.                                                  *)
LEMMA SavedClean ==
  ASSUME TypeOK, OneBufferPerBlock, NEW S \in SUBSET Slots, NEW i \in Slots,
         ~flag[i], assoc[i] \in Valid
  PROVE  Saved(S)[assoc[i]] = disk[assoc[i]]
<1>1. \A j \in S : Marked(j) => assoc[j] # assoc[i]
  BY DEF OneBufferPerBlock, Marked
<1> QED BY <1>1, SavedOther

CleanInv == TypeOK /\ OneBufferPerBlock /\ CleanMatchesDisk

(* Giving buffer i to block n leaves the other clean buffers and their     *)
(* blocks alone.                                                           *)
LEMMA AssignClean ==
  ASSUME CleanInv, NEW n \in Blocks, NEW i \in Slots, Assign(n, i),
         NEW j \in Slots \ scratch, j # i,
         data'[j] = data[j],
         assoc[j] \in Valid \ {0}, ~flag[j]
  PROVE  data'[j] = disk'[assoc[j]]
BY SavedClean DEF CleanInv, CleanMatchesDisk, Assign

LEMMA BlockClean ==
  ASSUME CleanInv, NEW n \in Blocks, BLOCK(n) \/ BUFFER(n)
  PROVE  CleanMatchesDisk'
<1>1. PICK i \in Slots :
        \/ Hit(n, i)
        \/ EvictionFails(n, i)
        \/ Assign(n, i) /\ ior' = 0 /\ open' = TRUE
             /\ scratch' = scratch \cup {i} /\ UNCHANGED data
        \/ Assign(n, i) /\ Read(n, i)
  BY Zenon DEF BLOCK, BUFFER
<1>2. CASE Hit(n, i) \/ EvictionFails(n, i)
  BY <1>2 DEF Hit, EvictionFails, CleanInv, CleanMatchesDisk
<1>3. ASSUME Assign(n, i), scratch' = scratch \cup {i}, UNCHANGED data
      PROVE  CleanMatchesDisk'
  <2> SUFFICES ASSUME NEW j \in Slots \ scratch', assoc'[j] \in Valid \ {0}, ~flag'[j]
               PROVE  data'[j] = disk'[assoc'[j]]
    BY DEF CleanMatchesDisk
  <2>1. j # i /\ j \in Slots \ scratch
    BY <1>3
  <2>2. assoc'[j] = assoc[j] /\ flag'[j] = flag[j]
    BY <1>3, <2>1 DEF Assign, CleanInv, TypeOK
  <2> QED BY <1>3, <2>1, <2>2, AssignClean
<1>4. ASSUME Assign(n, i), Read(n, i), Readable(n)
      PROVE  CleanMatchesDisk'
  <2> SUFFICES ASSUME NEW j \in Slots \ scratch', assoc'[j] \in Valid \ {0}, ~flag'[j]
               PROVE  data'[j] = disk'[assoc'[j]]
    BY DEF CleanMatchesDisk
  <2>1. data' = [data EXCEPT ![i] = disk[n]] /\ scratch' = scratch \ {i}
    BY <1>4 DEF Read
  <2>2. CASE j = i
    <3>1. assoc'[i] = n /\ n \in Valid
      BY <1>4 DEF Assign, Readable, CleanInv, TypeOK
    <3>2. data'[i] = disk[n]
      BY <2>1 DEF CleanInv, TypeOK
    <3>3. \A k \in {i} : Marked(k) => assoc[k] # n
      BY <1>4 DEF Assign, Held
    <3>4. disk'[n] = disk[n]
      BY <1>4, <3>1, <3>3, SavedOther DEF Assign
    <3> QED BY <2>2, <3>1, <3>2, <3>4
  <2>3. CASE j # i
    <3>1. assoc'[j] = assoc[j] /\ flag'[j] = flag[j]
      BY <1>4, <2>3 DEF Assign, CleanInv, TypeOK
    <3>2. j \in Slots \ scratch /\ data'[j] = data[j]
      BY <2>1, <2>3 DEF CleanInv, TypeOK
    <3> QED BY <1>4, <2>3, <3>1, <3>2, AssignClean
  <2> QED BY <2>2, <2>3
<1>5. CASE Assign(n, i) /\ Read(n, i)
  BY <1>3, <1>4, <1>5 DEF Read
<1> QED BY <1>1, <1>2, <1>3, <1>5

(* Every step keeps the clean buffers equal to mass storage.               *)
LEMMA NextClean == CleanInv /\ [Next]_vars => CleanMatchesDisk'
<1> SUFFICES ASSUME CleanInv, [Next]_vars PROVE CleanMatchesDisk'
  OBVIOUS
<1> USE DEF CleanInv
<1>1. ASSUME NEW n \in Blocks, BLOCK(n) \/ BUFFER(n) PROVE CleanMatchesDisk'
  BY <1>1, BlockClean
<1>2. ASSUME NEW v \in Data, Store(v) PROVE CleanMatchesDisk'
  BY <1>2 DEF Store, CleanMatchesDisk, TypeOK
<1>3. CASE UPDATE
  BY <1>3 DEF UPDATE, CleanMatchesDisk, TypeOK
<1>4. ASSUME NEW j \in Slots \ scratch, assoc[j] \in Valid \ {0}, disk' = Saved(Reached),
             flag[j] => j \in Reached
      PROVE  data[j] = disk'[assoc[j]]
  <2>1. CASE flag[j]
    BY <1>4, <2>1, SavedMarked DEF Reached, Marked
  <2>2. CASE ~flag[j]
    BY <1>4, <2>2, SavedClean DEF Reached, CleanMatchesDisk
  <2> QED BY <2>1, <2>2
<1>5. CASE SAVE_BUFFERS
  <2> SUFFICES ASSUME NEW j \in Slots \ scratch', assoc'[j] \in Valid \ {0}, ~flag'[j]
               PROVE  data'[j] = disk'[assoc'[j]]
    BY DEF CleanMatchesDisk
  <2>1. flag[j] => j \in Reached
    BY <1>5 DEF SAVE_BUFFERS
  <2>2. UNCHANGED <<assoc, data, scratch>> /\ disk' = Saved(Reached)
    BY <1>5 DEF SAVE_BUFFERS
  <2> QED BY <1>4, <2>1, <2>2
<1>6. CASE FLUSH
  <2> SUFFICES ASSUME NEW j \in Slots \ scratch', assoc'[j] \in Valid \ {0}, ~flag'[j]
               PROVE  data'[j] = disk'[assoc'[j]]
    BY DEF CleanMatchesDisk
  <2>1. j \notin Reached /\ assoc'[j] = assoc[j] /\ ~flag[j] /\ j \notin scratch
    BY <1>6 DEF FLUSH
  <2> QED BY <1>6, <1>4, <2>1 DEF FLUSH
<1>7. CASE EMPTY_BUFFERS
  BY <1>7 DEF EMPTY_BUFFERS, CleanMatchesDisk
<1>8. CASE Restart
  BY <1>8 DEF Restart, FreshBuffers, CleanMatchesDisk
<1>9. CASE UNCHANGED vars
  BY <1>9 DEF vars, CleanMatchesDisk
<1> QED BY <1>1, <1>2, <1>3, <1>5, <1>6, <1>7, <1>8, <1>9 DEF Next

(* A buffer nobody changed shows what mass storage holds, whatever failed. *)
THEOREM CleanBuffersMatchDisk == Spec => []CleanMatchesDisk
<1>1. Init => CleanInv
  BY InitTypeOK DEF Init, CleanInv, OneBufferPerBlock, CleanMatchesDisk
<1>2. CleanInv /\ [Next]_vars => CleanInv'
  BY NextTypeOK, NextOneBuffer, NextClean DEF CleanInv
<1>3. CleanInv => CleanMatchesDisk
  BY DEF CleanInv
<1> QED BY <1>1, <1>2, <1>3, PTL DEF Spec
-----------------------------------------------------------------------------
(* With two buffers or more, the buffer reused is never the current one.   *)
LEMMA VictimIsAnother ==
  ASSUME TypeOK, BufferCount >= 2 PROVE Victim # cur
<1>1. cur \in 0 .. BufferCount - 1 /\ BufferCount \in Nat
  BY BufferCountAssumption DEF TypeOK, Slots
<1>2. CASE cur + 1 < BufferCount
  BY <1>1, <1>2 DEF Victim
<1>3. CASE cur + 1 = BufferCount
  BY <1>1, <1>3 DEF Victim
<1> QED BY <1>1, <1>2, <1>3

(* BLOCK and BUFFER leave the buffer before them alone.                    *)
LEMMA BlockSparesLast ==
  ASSUME TypeOK, BufferCount >= 2, NEW n \in Blocks \ {0},
         BLOCK(n) \/ BUFFER(n), assoc[cur] \notin {0, n}
  PROVE  assoc'[cur] = assoc[cur] /\ data'[cur] = data[cur]
<1>1. PICK i \in Slots :
        /\ Target(n, i)
        /\ \/ Hit(n, i)
           \/ EvictionFails(n, i)
           \/ Assign(n, i) /\ (UNCHANGED data \/ Read(n, i))
  BY Zenon DEF BLOCK, BUFFER
<1>2. CASE Hit(n, i) \/ EvictionFails(n, i)
  BY <1>2 DEF Hit, EvictionFails
<1>3. CASE Assign(n, i) /\ (UNCHANGED data \/ Read(n, i))
  <2>1. i # cur
    BY <1>1, VictimIsAnother DEF Target, FirstHolding
  <2>2. assoc'[cur] = assoc[cur]
    BY <1>3, <2>1 DEF Assign, TypeOK
  <2>3. data'[cur] = data[cur]
    BY <1>3, <2>1 DEF Read, TypeOK
  <2> QED BY <2>2, <2>3
<1> QED BY <1>1, <1>2, <1>3

(* The address BLOCK returned survives the next BLOCK, given two buffers.  *)
THEOREM TwoBuffersSuffice == BufferCount >= 2 => (Spec => LastBufferSurvives)
<1> SUFFICES ASSUME BufferCount >= 2 PROVE Spec => LastBufferSurvives
  OBVIOUS
<1> DEFINE Spared == \A n \in Blocks \ {0} :
              (BLOCK(n) \/ BUFFER(n)) /\ assoc[cur] \notin {0, n}
              => assoc'[cur] = assoc[cur] /\ data'[cur] = data[cur]
<1>1. TypeOK /\ [Next]_vars => [Spared]_vars
  BY BlockSparesLast
<1> HIDE DEF Spared
<1>2. Spec => [][Spared]_vars
  BY <1>1, TypeCorrect, PTL DEF Spec
<1> QED BY <1>2 DEF LastBufferSurvives, Spared
-----------------------------------------------------------------------------
(* The contents waiting for block b are those of the one marked buffer     *)
(* that holds it.                                                          *)
LEMMA PendingIs ==
  OneBufferPerBlock =>
    \A b \in Valid \ {0} :
      /\ \A i \in Slots : Marked(i) /\ assoc[i] = b
                         => PendingOf(b) = data[i] /\ View(b) = data[i]
      /\ (\A i \in Slots : Marked(i) => assoc[i] # b)
                         => PendingOf(b) = Absent /\ View(b) = disk[b]
<1> SUFFICES ASSUME OneBufferPerBlock, NEW b \in Valid \ {0}
             PROVE  /\ \A i \in Slots : Marked(i) /\ assoc[i] = b
                         => PendingOf(b) = data[i] /\ View(b) = data[i]
                    /\ (\A i \in Slots : Marked(i) => assoc[i] # b)
                         => PendingOf(b) = Absent /\ View(b) = disk[b]
  OBVIOUS
<1>1. ASSUME NEW i \in Slots, Marked(i), assoc[i] = b
      PROVE  PendingOf(b) = data[i] /\ View(b) = data[i]
  <2> DEFINE j == CHOOSE j \in Slots : Marked(j) /\ assoc[j] = b
  <2>1. j \in Slots /\ assoc[j] = b
    BY <1>1
  <2>2. j = i
    BY <1>1, <2>1 DEF OneBufferPerBlock
  <2>3. View(b) = data[j]
    BY <1>1 DEF View
  <2>4. PendingOf(b) = View(b)
    BY <1>1 DEF PendingOf
  <2> QED BY <2>2, <2>3, <2>4
<1>2. ASSUME \A i \in Slots : Marked(i) => assoc[i] # b
      PROVE  PendingOf(b) = Absent /\ View(b) = disk[b]
  BY <1>2 DEF PendingOf, View
<1> QED BY <1>1, <1>2

(* The same after a step. *)
LEMMA PendingIsNext ==
  OneBufferPerBlock' =>
    \A b \in Valid \ {0} :
      /\ \A i \in Slots : Marked(i)' /\ assoc'[i] = b => PendingOf(b)' = data'[i]
      /\ (\A i \in Slots : Marked(i)' => assoc'[i] # b) => PendingOf(b)' = Absent
<1>1. (OneBufferPerBlock =>
        \A b \in Valid \ {0} :
          /\ \A i \in Slots : Marked(i) /\ assoc[i] = b
                             => PendingOf(b) = data[i] /\ View(b) = data[i]
          /\ (\A i \in Slots : Marked(i) => assoc[i] # b)
                             => PendingOf(b) = Absent /\ View(b) = disk[b])'
  BY PendingIs, PTL
<1> QED BY <1>1

(* FLUSH and SAVE-BUFFERS that do not throw leave nothing to lose.         *)
THEOREM SavesPersist == Spec => SavePersists
<1> DEFINE Persisted == (FLUSH \/ SAVE_BUFFERS) /\ ior' = 0
       => /\ \A b \in Valid \ {0} : disk'[b] = View(b)
          /\ \A i \in Slots : ~Marked(i)'
<1>1. CleanInv /\ [Next]_vars => [Persisted]_vars
  <2> SUFFICES ASSUME CleanInv, FLUSH \/ SAVE_BUFFERS, ior' = 0
               PROVE  /\ \A b \in Valid \ {0} : disk'[b] = View(b)
                      /\ \A i \in Slots : ~Marked(i)'
    OBVIOUS
  <2>1. Reached = Slots /\ disk' = Saved(Slots)
    BY DEF FLUSH, SAVE_BUFFERS, BadBlock
  <2>2. \A i \in Slots : flag'[i] = FALSE
    BY <2>1 DEF FLUSH, SAVE_BUFFERS
  <2>3. ASSUME NEW b \in Valid \ {0} PROVE disk'[b] = View(b)
    <3>1. CASE \E i \in Slots : Marked(i) /\ assoc[i] = b
      <4>1. PICK i \in Slots : Marked(i) /\ assoc[i] = b
        BY <3>1
      <4>2. View(b) = data[i]
        BY <4>1, PendingIs DEF CleanInv
      <4>3. Saved(Slots)[b] = data[i]
        BY <4>1, SavedMarked DEF CleanInv
      <4> QED BY <2>1, <4>2, <4>3
    <3>2. CASE \A i \in Slots : Marked(i) => assoc[i] # b
      <4>1. View(b) = disk[b]
        BY <3>2, PendingIs DEF CleanInv
      <4>2. Saved(Slots)[b] = disk[b]
        BY <3>2, SavedOther
      <4> QED BY <2>1, <4>1, <4>2
    <3> QED BY <3>1, <3>2
  <2> QED BY <2>2, <2>3 DEF Marked
<1> HIDE DEF Persisted
<1>2. Init => CleanInv
  BY InitTypeOK DEF Init, CleanInv, OneBufferPerBlock, CleanMatchesDisk
<1>3. CleanInv /\ [Next]_vars => CleanInv'
  BY NextTypeOK, NextOneBuffer, NextClean DEF CleanInv
<1>4. Spec => [][Persisted]_vars
  BY <1>1, <1>2, <1>3, PTL DEF Spec
<1> QED BY <1>4 DEF SavePersists, Persisted
-----------------------------------------------------------------------------
(* The mapped state of BlockStore, and the two ways a step can change it.  *)
StableOf == [b \in Valid \ {0} |-> disk[b]]
PendingFn == [b \in Valid \ {0} |-> PendingOf(b)]

(* A save of the buffers S that unmarks them, and changes no other marked  *)
(* buffer, is a write-back of the blocks they hold.                        *)
LEMMA SaveIsWriteBack ==
  ASSUME TypeOK, OneBufferPerBlock, OneBufferPerBlock', NEW S \in SUBSET Slots,
         disk' = Saved(S),
         \A i \in S : ~Marked(i)',
         \A i \in Slots \ S : /\ Marked(i)' <=> Marked(i)
                              /\ assoc'[i] = assoc[i] /\ data'[i] = data[i]
  PROVE  \E T \in SUBSET (Valid \ {0}) : Abstract!WriteBack(T)
<1> DEFINE T == {b \in Valid \ {0} : \E i \in S : Marked(i) /\ assoc[i] = b}
<1>1. ASSUME NEW b \in T
      PROVE  PendingOf(b) # Absent /\ disk'[b] = PendingOf(b) /\ PendingOf(b)' = Absent
  <2>1. PICK i \in S : Marked(i) /\ assoc[i] = b
    OBVIOUS
  <2>2. PendingOf(b) = data[i] /\ data[i] \in Data
    BY <2>1, PendingIs DEF TypeOK
  <2>3. disk'[b] = data[i]
    BY <2>1, SavedMarked
  <2>4. \A j \in Slots : Marked(j)' => assoc'[j] # b
    BY <2>1 DEF OneBufferPerBlock, Marked
  <2>5. PendingOf(b)' = Absent
    BY <2>4, PendingIsNext
  <2> QED BY <2>2, <2>3, <2>5, DataAssumption
<1>2. ASSUME NEW b \in (Valid \ {0}) \ T
      PROVE  disk'[b] = disk[b] /\ PendingOf(b)' = PendingOf(b)
  <2>1. \A i \in S : Marked(i) => assoc[i] # b
    OBVIOUS
  <2>2. disk'[b] = disk[b]
    BY <2>1, SavedOther
  <2>3. CASE \E i \in Slots : Marked(i) /\ assoc[i] = b
    <3>1. PICK i \in Slots : Marked(i) /\ assoc[i] = b
      BY <2>3
    <3>2. i \in Slots \ S
      BY <2>1, <3>1
    <3> QED BY <2>2, <3>1, <3>2, PendingIs, PendingIsNext
  <2>4. CASE \A i \in Slots : Marked(i) => assoc[i] # b
    <3>1. \A i \in Slots : Marked(i)' => assoc'[i] # b
      BY <2>4
    <3> QED BY <2>2, <2>4, <3>1, PendingIs, PendingIsNext
  <2> QED BY <2>3, <2>4
<1>3. \A b \in T : PendingFn[b] # Absent
  BY <1>1 DEF PendingFn
<1>4. StableOf' = [b \in Valid \ {0} |-> IF b \in T THEN PendingFn[b] ELSE StableOf[b]]
  BY <1>1, <1>2 DEF StableOf, PendingFn
<1>5. PendingFn' = [b \in Valid \ {0} |-> IF b \in T THEN Absent ELSE PendingFn[b]]
  BY <1>1, <1>2 DEF PendingFn
<1>6. Abstract!WriteBack(T)
  BY <1>3, <1>4, <1>5 DEF Abstract!WriteBack, StableOf, PendingFn
<1>7. T \in SUBSET (Valid \ {0})
  OBVIOUS
<1> HIDE DEF T
<1> QED BY <1>6, <1>7 DEF Abstract!WriteBack

(* A step that leaves the marked buffers alone is no step of BlockStore.   *)
LEMMA SameMarked ==
  ASSUME OneBufferPerBlock, OneBufferPerBlock', UNCHANGED disk,
         \A i \in Slots : /\ Marked(i)' <=> Marked(i)
                          /\ Marked(i) => assoc'[i] = assoc[i] /\ data'[i] = data[i]
  PROVE  UNCHANGED <<StableOf, PendingFn>>
<1>1. ASSUME NEW b \in Valid \ {0} PROVE PendingOf(b)' = PendingOf(b)
  <2>1. CASE \E i \in Slots : Marked(i) /\ assoc[i] = b
    BY <2>1, PendingIs, PendingIsNext
  <2>2. CASE \A i \in Slots : Marked(i) => assoc[i] # b
    <3>1. \A i \in Slots : Marked(i)' => assoc'[i] # b
      BY <2>2
    <3> QED BY <2>2, <3>1, PendingIs, PendingIsNext
  <2> QED BY <2>1, <2>2
<1> QED BY <1>1 DEF StableOf, PendingFn

(* A step after which only the contents of the current buffer, now marked, *)
(* differ is a modification of its block.                                  *)
LEMMA MarkIsModify ==
  ASSUME TypeOK, TypeOK', OneBufferPerBlock, OneBufferPerBlock',
         UNCHANGED <<disk, assoc, cur>>,
         flag'[cur],
         \A i \in Slots \ {cur} : flag'[i] = flag[i] /\ data'[i] = data[i]
  PROVE  \/ \E b \in Valid \ {0} : Abstract!Modify(b)
         \/ UNCHANGED <<StableOf, PendingFn>>
<1>1. ASSUME NEW b \in Valid \ {0}, b # assoc[cur]
      PROVE  PendingOf(b)' = PendingOf(b)
  <2>1. CASE \E i \in Slots : Marked(i) /\ assoc[i] = b
    <3>1. PICK i \in Slots : Marked(i) /\ assoc[i] = b
      BY <2>1
    <3>2. i # cur /\ Marked(i)' /\ assoc'[i] = b
      BY <1>1, <3>1 DEF Marked
    <3> QED BY <3>1, <3>2, PendingIs, PendingIsNext
  <2>2. CASE \A i \in Slots : Marked(i) => assoc[i] # b
    <3>1. \A i \in Slots : Marked(i)' => assoc'[i] # b
      BY <1>1, <2>2 DEF Marked
    <3> QED BY <2>2, <3>1, PendingIs, PendingIsNext
  <2> QED BY <2>1, <2>2
<1>2. CASE assoc[cur] \in Valid \ {0}
  <2> DEFINE b == assoc[cur]
  <2>1. PendingOf(b)' = data'[cur] /\ data'[cur] \in Data
    BY <1>2, PendingIsNext DEF Marked, TypeOK
  <2>2. PendingFn' = [PendingFn EXCEPT ![b] = data'[cur]]
    BY <1>1, <1>2, <2>1 DEF PendingFn
  <2>3. StableOf' = StableOf
    BY DEF StableOf
  <2>4. Abstract!Modify(b)
    BY <2>1, <2>2, <2>3 DEF Abstract!Modify, StableOf, PendingFn
  <2> QED BY <1>2, <2>4
<1>3. CASE assoc[cur] \notin Valid \ {0}
  <2>1. \A b \in Valid \ {0} : PendingOf(b)' = PendingOf(b)
    BY <1>1, <1>3
  <2> QED BY <2>1 DEF StableOf, PendingFn
<1> QED BY <1>2, <1>3

(* Freeing every buffer without a write discards what was pending.         *)
LEMMA EmptyIsDiscard ==
  ASSUME UNCHANGED disk, assoc' = [i \in Slots |-> 0]
  PROVE  Abstract!Discard
<1>1. \A b \in Valid \ {0} : PendingOf(b)' = Absent
  BY DEF PendingOf, Marked
<1>2. PendingFn' = [b \in Valid \ {0} |-> Absent]
  BY <1>1 DEF PendingFn
<1>3. StableOf' = StableOf
  BY DEF StableOf
<1> QED BY <1>2, <1>3 DEF Abstract!Discard, Abstract!Quiet, StableOf, PendingFn

RefInv == TypeOK /\ OneBufferPerBlock

(* What a word does to the block store: nothing, or one of its steps.      *)
StoreStep == Abstract!Next \/ UNCHANGED <<StableOf, PendingFn>>

LEMMA BlockIsStoreStep ==
  ASSUME RefInv, RefInv', NEW n \in Blocks, BLOCK(n) \/ BUFFER(n)
  PROVE  StoreStep
<1> USE DEF RefInv
<1>1. PICK i \in Slots :
        \/ Hit(n, i)
        \/ EvictionFails(n, i)
        \/ Assign(n, i) /\ (UNCHANGED data \/ Read(n, i))
  BY Zenon DEF BLOCK, BUFFER
<1>2. CASE Hit(n, i) \/ EvictionFails(n, i)
  BY <1>2, SameMarked DEF Hit, EvictionFails, Marked, StoreStep
<1>3. CASE Assign(n, i) /\ (UNCHANGED data \/ Read(n, i))
  <2>1. disk' = Saved({i})
    BY <1>3 DEF Assign
  <2>2. ~Marked(i)'
    BY <1>3 DEF Assign, Marked, TypeOK
  <2>3. \A j \in Slots \ {i} : /\ Marked(j)' <=> Marked(j)
                               /\ assoc'[j] = assoc[j] /\ data'[j] = data[j]
    BY <1>3 DEF Assign, Read, Marked, TypeOK
  <2>4. \E T \in SUBSET (Valid \ {0}) : Abstract!WriteBack(T)
    BY <2>1, <2>2, <2>3, SaveIsWriteBack
  <2> QED BY <2>4 DEF StoreStep, Abstract!Next
<1> QED BY <1>1, <1>2, <1>3

LEMMA NextIsStoreStep ==
  ASSUME RefInv, RefInv', [Next]_vars PROVE StoreStep
<1> USE DEF RefInv
<1>1. ASSUME NEW n \in Blocks, BLOCK(n) \/ BUFFER(n) PROVE StoreStep
  BY <1>1, BlockIsStoreStep
<1>2. ASSUME NEW v \in Data, Store(v) PROVE StoreStep
  <2>1. CASE flag[cur]
    <3>1. \A i \in Slots \ {cur} : flag'[i] = flag[i] /\ data'[i] = data[i]
      BY <1>2 DEF Store, TypeOK
    <3>2. UNCHANGED <<disk, assoc, cur>> /\ flag'[cur]
      BY <1>2, <2>1 DEF Store
    <3> QED BY <3>1, <3>2, MarkIsModify DEF StoreStep, Abstract!Next
  <2>2. CASE ~flag[cur]
    <3>1. \A i \in Slots : /\ Marked(i)' <=> Marked(i)
                           /\ Marked(i) => assoc'[i] = assoc[i] /\ data'[i] = data[i]
      BY <1>2, <2>2 DEF Store, Marked, TypeOK
    <3> QED BY <1>2, <3>1, SameMarked DEF Store, StoreStep
  <2> QED BY <2>1, <2>2
<1>3. CASE UPDATE
  <2>1. \A i \in Slots \ {cur} : flag'[i] = flag[i] /\ data'[i] = data[i]
    BY <1>3 DEF UPDATE, TypeOK
  <2>2. UNCHANGED <<disk, assoc, cur>> /\ flag'[cur]
    BY <1>3 DEF UPDATE, TypeOK
  <2> QED BY <2>1, <2>2, MarkIsModify DEF StoreStep, Abstract!Next
<1>4. CASE FLUSH \/ SAVE_BUFFERS
  <2>1. Reached \in SUBSET Slots /\ disk' = Saved(Reached)
    BY <1>4 DEF Reached, FLUSH, SAVE_BUFFERS
  <2>2. \A i \in Reached : ~Marked(i)'
    BY <1>4 DEF FLUSH, SAVE_BUFFERS, Reached, Marked
  <2>3. \A i \in Slots \ Reached : /\ Marked(i)' <=> Marked(i)
                                   /\ assoc'[i] = assoc[i] /\ data'[i] = data[i]
    BY <1>4 DEF FLUSH, SAVE_BUFFERS, Marked
  <2>4. \E T \in SUBSET (Valid \ {0}) : Abstract!WriteBack(T)
    BY <2>1, <2>2, <2>3, SaveIsWriteBack
  <2> QED BY <2>4 DEF StoreStep, Abstract!Next
<1>5. CASE EMPTY_BUFFERS
  BY <1>5, EmptyIsDiscard DEF EMPTY_BUFFERS, StoreStep, Abstract!Next
<1>6. CASE Restart
  BY <1>6, EmptyIsDiscard DEF Restart, FreshBuffers, StoreStep, Abstract!Next
<1>7. CASE UNCHANGED vars
  BY <1>7, SameMarked DEF vars, Marked, StoreStep
<1> QED BY <1>1, <1>2, <1>3, <1>4, <1>5, <1>6, <1>7 DEF Next

(* The buffers implement the store: UPDATEd contents go to mass storage,   *)
(* each to its own block, or are discarded by name (block.fth).            *)
THEOREM BuffersImplementStore == Spec => ImplementsBlockStore
<1>1. Init => RefInv
  BY InitTypeOK DEF Init, RefInv, OneBufferPerBlock
<1>2. RefInv /\ [Next]_vars => RefInv'
  BY NextTypeOK, NextOneBuffer DEF RefInv
<1>3. Init => Abstract!Init
  BY DEF Init, Abstract!Init, Abstract!Quiet, PendingOf, Marked
<1>4. RefInv /\ RefInv' /\ [Next]_vars => [Abstract!Next]_(Abstract!bsVars)
  BY NextIsStoreStep DEF StoreStep, StableOf, PendingFn, Abstract!bsVars
<1>5. Spec => Abstract!Spec
  BY <1>1, <1>2, <1>3, <1>4, PTL DEF Spec, Abstract!Spec
<1> QED BY <1>5 DEF ImplementsBlockStore
=============================================================================
