---------------------------- MODULE BlockBuffers ----------------------------
(***************************************************************************)
(* The block buffers of block.fth: BUFFER-COUNT buffers of 1024 bytes, the *)
(* block each one holds (BUFFER-ASSOC, 0 when free), its update flag       *)
(* (BUFFER-FLAGS) and the current buffer (BUFFER-I), above BLOCK-OP, which *)
(* reads or writes one block of mass storage.                              *)
(*                                                                         *)
(* Two implementations of BLOCK-OP are covered by the variable throws:     *)
(*   FALSE  core/BLOCK_OP.c, one file per block: an operation that fails,  *)
(*          or a read of a file that does not exist, changes nothing and   *)
(*          says nothing;                                                  *)
(*   TRUE   example/os2/ramblock.fth, an array in memory: a block number   *)
(*          out of range throws -35.                                       *)
(*                                                                         *)
(* The program is the environment: it asks for blocks, stores into the     *)
(* buffer it was last given while that buffer is still its own, UPDATEs,   *)
(* saves, and may end and start again at any time.                         *)
(***************************************************************************)
EXTENDS Integers, FiniteSets

CONSTANTS
  BufferCount,  \* BUFFER-COUNT
  Blocks,       \* the block numbers programs use
  Valid,        \* those mass storage can hold
  Data,         \* contents of a block
  Absent        \* no file for the block

ASSUME BufferCountAssumption == BufferCount \in Nat \ {0}
ASSUME BlocksAssumption == Blocks \subseteq Nat /\ Valid \subseteq Blocks
ASSUME DataAssumption == Data # {} /\ Absent \notin Data

VARIABLES
  throws,   \* whether BLOCK-OP throws on a number that is not valid
  assoc,    \* BUFFER-ASSOC: the block in each buffer, 0 if none
  flag,     \* BUFFER-FLAGS: marked by UPDATE
  data,     \* BUFFERS: the contents of each buffer
  cur,      \* BUFFER-I: the current buffer
  disk,     \* mass storage
  ior,      \* what the last word threw: 0 or -35
  open,     \* history: the program may use the address it got last
  scratch   \* history: buffers with contents nobody UPDATEd or read in

vars == <<throws, assoc, flag, data, cur, disk, ior, open, scratch>>

Slots == 0 .. BufferCount - 1
BadBlock == -35
-----------------------------------------------------------------------------
(* The buffer ?BUFFER settles on: the first that holds n, else the first   *)
(* free one, else the one after the current buffer.                        *)
(* A mutant: the last buffer not looked at. *)
HeldButLast(n) == \E i \in 0 .. BufferCount - 2 : assoc[i] = n
Held(n) == \E i \in Slots : assoc[i] = n

FirstHolding(n, i) == assoc[i] = n /\ \A j \in 0 .. i - 1 : assoc[j] # n

(* A mutant: the buffer reused is the current one. *)
VictimIsCurrent == cur % BufferCount
Victim == (cur + 1) % BufferCount

Target(n, i) ==
  \/ FirstHolding(n, i)
  \/ ~Held(n) /\ FirstHolding(0, i)
  \/ ~Held(n) /\ ~Held(0) /\ i = Victim

(* UPDATE-BUFFER writes a marked buffer that holds a block; BLOCK-OP may   *)
(* refuse the block number.                                                *)
Marked(i) == flag[i] /\ assoc[i] # 0
Refused(n) == throws /\ n \notin Valid
UpdateFails(i) == Marked(i) /\ Refused(assoc[i])

(* Mass storage after UPDATE-BUFFER of the buffers S. *)
Saved(S) ==
  [b \in Valid |->
     IF \E i \in S : Marked(i) /\ assoc[i] = b
       THEN data[CHOOSE i \in S : Marked(i) /\ assoc[i] = b]
       ELSE disk[b]]

(* Whether BLOCK-OP has contents to read for n. *)
Readable(n) == n \in Valid /\ disk[n] # Absent
-----------------------------------------------------------------------------
(* The buffers of a process that just started: only BUFFER-ASSOC is        *)
(* cleared, the other memory holds whatever it held.                       *)
FreshBuffers ==
  /\ assoc' = [i \in Slots |-> 0]
  /\ flag' \in [Slots -> BOOLEAN]
  /\ data' \in [Slots -> Data]
  /\ cur' = 0
  /\ ior' = 0
  /\ open' = FALSE
  /\ scratch' = {}

Init ==
  /\ throws \in BOOLEAN
  /\ assoc = [i \in Slots |-> 0]
  /\ flag \in [Slots -> BOOLEAN]
  /\ data \in [Slots -> Data]
  /\ cur = 0
  /\ disk \in [Valid -> IF throws THEN Data ELSE Data \cup {Absent}]
  /\ ior = 0
  /\ open = FALSE
  /\ scratch = {}

(* A mutant: the index of the buffer one too far. *)
HitAfterLoop(n, i) ==
  /\ Held(n)
  /\ cur' = i + 1
  /\ ior' = 0
  /\ open' = TRUE
  /\ UNCHANGED <<assoc, flag, data, disk, scratch>>

(* ?BUFFER finds block n in buffer i. *)
Hit(n, i) ==
  /\ Held(n)
  /\ cur' = i
  /\ ior' = 0
  /\ open' = TRUE
  /\ UNCHANGED <<assoc, flag, data, disk, scratch>>

(* ?BUFFER cannot save buffer i, which it wants to reuse: BUFFER-I has     *)
(* moved on already, and the exception leaves the rest as it was.          *)
EvictionFails(n, i) ==
  /\ ~Held(n)
  /\ UpdateFails(i)
  /\ cur' = i
  /\ ior' = BadBlock
  /\ open' = FALSE
  /\ UNCHANGED <<assoc, flag, data, disk, scratch>>

(* A mutant: the buffer reused without a save. *)
AssignUnsaved(n, i) ==
  /\ ~Held(n)
  /\ ~UpdateFails(i)
  /\ cur' = i
  /\ assoc' = [assoc EXCEPT ![i] = n]
  /\ flag' = [flag EXCEPT ![i] = FALSE]
  /\ UNCHANGED disk

(* ?BUFFER gives buffer i to block n, saving the block it held before. *)
Assign(n, i) ==
  /\ ~Held(n)
  /\ ~UpdateFails(i)
  /\ cur' = i
  /\ assoc' = [assoc EXCEPT ![i] = n]
  /\ flag' = [flag EXCEPT ![i] = FALSE]
  /\ disk' = Saved({i})

(* The contents of a buffer BUFFER assigned are whatever they were. *)
BUFFER(n) ==
  \E i \in Slots :
    /\ Target(n, i)
    /\ \/ Hit(n, i)
       \/ EvictionFails(n, i)
       \/ /\ Assign(n, i)
          /\ ior' = 0
          /\ open' = TRUE
          /\ scratch' = scratch \cup {i}
          /\ UNCHANGED data

(* BLOCK-OP reads n into buffer i, which stays assigned when that throws.  *)
(* The eviction before it wrote another block: n was in no buffer.         *)
Read(n, i) ==
  /\ IF Readable(n)
       THEN /\ data' = [data EXCEPT ![i] = disk[n]]
            /\ scratch' = scratch \ {i}
       ELSE /\ scratch' = scratch \cup {i}
            /\ UNCHANGED data
  /\ ior' = IF Refused(n) THEN BadBlock ELSE 0
  /\ open' = ~Refused(n)

BLOCK(n) ==
  \E i \in Slots :
    /\ Target(n, i)
    /\ \/ Hit(n, i)
       \/ EvictionFails(n, i)
       \/ Assign(n, i) /\ Read(n, i)

(* The program stores into the buffer whose address it holds. *)
Store(v) ==
  /\ open
  /\ data' = [data EXCEPT ![cur] = v]
  /\ scratch' = IF flag[cur] THEN scratch ELSE scratch \cup {cur}
  /\ UNCHANGED <<assoc, flag, cur, disk, ior, open>>

UPDATE ==
  /\ flag' = [flag EXCEPT ![cur] = TRUE]
  /\ scratch' = scratch \ {cur}
  /\ ior' = 0
  /\ UNCHANGED <<assoc, data, cur, disk, open>>

(* FLUSH and SAVE-BUFFERS take the buffers in order and stop at the first  *)
(* one whose write throws.                                                 *)
Reached == {i \in Slots : \A j \in Slots : UpdateFails(j) => i < j}

FLUSH ==
  /\ disk' = Saved(Reached)
  /\ assoc' = [i \in Slots |-> IF i \in Reached THEN 0 ELSE assoc[i]]
  /\ flag' = [i \in Slots |-> flag[i] /\ i \notin Reached]
  /\ scratch' = scratch \ Reached
  /\ ior' = IF Reached = Slots THEN 0 ELSE BadBlock
  /\ open' = FALSE
  /\ UNCHANGED <<data, cur>>

(* A mutant: the marks cleared before the writes. *)
SAVE_BUFFERSUnmarksFirst ==
  /\ flag' = [i \in Slots |-> FALSE]
  /\ ior' = 0
  /\ UNCHANGED <<assoc, data, cur, disk, open, scratch>>

(* A mutant: the current buffer not written. *)
SAVE_BUFFERSSkipsCurrent ==
  /\ disk' = Saved(Reached \ {cur})
  /\ flag' = [i \in Slots |-> flag[i] /\ i \notin Reached]
  /\ ior' = IF Reached = Slots THEN 0 ELSE BadBlock
  /\ UNCHANGED <<assoc, data, cur, open, scratch>>

SAVE_BUFFERS ==
  /\ disk' = Saved(Reached)
  /\ flag' = [i \in Slots |-> flag[i] /\ i \notin Reached]
  /\ ior' = IF Reached = Slots THEN 0 ELSE BadBlock
  /\ UNCHANGED <<assoc, data, cur, open, scratch>>

EMPTY_BUFFERS ==
  /\ assoc' = [i \in Slots |-> 0]
  /\ flag' = [i \in Slots |-> FALSE]
  /\ scratch' = {}
  /\ ior' = 0
  /\ open' = FALSE
  /\ UNCHANGED <<data, cur, disk>>

(* The process ends, by BYE or otherwise, and a new one starts on the same *)
(* files.  An array in memory does not outlive its process: there a new    *)
(* start is a new behaviour.                                               *)
Restart ==
  /\ ~throws
  /\ FreshBuffers
  /\ UNCHANGED disk

Next ==
  /\ \/ \E n \in Blocks : BLOCK(n) \/ BUFFER(n)
     \/ \E v \in Data : Store(v)
     \/ UPDATE
     \/ FLUSH
     \/ SAVE_BUFFERS
     \/ EMPTY_BUFFERS
     \/ Restart
  /\ UNCHANGED throws

Spec == Init /\ [][Next]_vars
-----------------------------------------------------------------------------
(* Properties.  Block 0 is left out of all of them: ?BUFFER cannot tell it *)
(* from a free buffer, and BLOCK returns one unread.                       *)

(* The shape of the state. *)
TypeOK ==
  /\ throws \in BOOLEAN
  /\ assoc \in [Slots -> Blocks \cup {0}]
  /\ flag \in [Slots -> BOOLEAN]
  /\ data \in [Slots -> Data]
  /\ cur \in Slots
  /\ disk \in [Valid -> Data \cup {Absent}]
  /\ ior \in {0, BadBlock}
  /\ open \in BOOLEAN
  /\ scratch \in SUBSET Slots

(* ?BUFFER never puts a block in two buffers: with two, a program would    *)
(* change one copy and FLUSH would keep the other.                         *)
OneBufferPerBlock ==
  \A i, j \in Slots : assoc[i] = assoc[j] /\ assoc[i] # 0 => i = j

(* A buffer that is not marked and that nobody changed shows what mass     *)
(* storage holds: whatever words failed in between, dropping it later      *)
(* loses nothing.                                                          *)
CleanMatchesDisk ==
  \A i \in Slots \ scratch :
    assoc[i] \in Valid \ {0} /\ ~flag[i] => data[i] = disk[assoc[i]]

(* What a program should find in block n: its own UPDATEd contents, or     *)
(* what mass storage holds.                                                *)
View(n) == IF \E i \in Slots : Marked(i) /\ assoc[i] = n
             THEN data[CHOOSE i \in Slots : Marked(i) /\ assoc[i] = n]
             ELSE disk[n]

(* The address BLOCK or BUFFER returned stays good over the next BLOCK or  *)
(* BUFFER, so that a program can copy one block to another: the buffer     *)
(* used last is never the one reused.                                      *)
LastBufferSurvives ==
  [][\A n \in Blocks \ {0} :
       (BLOCK(n) \/ BUFFER(n)) /\ assoc[cur] \notin {0, n}
       => assoc'[cur] = assoc[cur] /\ data'[cur] = data[cur]]_vars

(* FLUSH and SAVE-BUFFERS that do not throw leave nothing to lose: every   *)
(* UPDATEd block is on mass storage, and a Restart right after them        *)
(* changes no contents.                                                    *)
SavePersists ==
  [][(FLUSH \/ SAVE_BUFFERS) /\ ior' = 0
       => /\ \A b \in Valid \ {0} : disk'[b] = View(b)
          /\ \A i \in Slots : ~Marked(i)']_vars

(* Contents waiting in a marked buffer. *)
PendingOf(b) == IF \E i \in Slots : Marked(i) /\ assoc[i] = b THEN View(b) ELSE Absent

Abstract == INSTANCE BlockStore WITH
  Block <- Valid \ {0},
  None <- Absent,
  stable <- [b \in Valid \ {0} |-> disk[b]],
  pending <- [b \in Valid \ {0} |-> PendingOf(b)]

(* UPDATEd contents leave the buffers only for mass storage, EMPTY-BUFFERS *)
(* and the end of the process excepted: no eviction, no save cut short by  *)
(* an exception and no reuse of a buffer drops or misplaces them.          *)
ImplementsBlockStore == Abstract!Spec

(* What example/os2/ramblock.fth asks of a block number: one out of range  *)
(* is refused with -35 each time.                                          *)
BadBlockRefused ==
  [][throws => \A n \in Blocks \ (Valid \cup {0}) : BLOCK(n) => ior' = BadBlock]_vars
=============================================================================
