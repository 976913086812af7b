-------------------------------- MODULE Heap --------------------------------
(***************************************************************************)
(* The Memory-Allocation words of the example kernel os2                   *)
(* (example/os2/memory.fth): first fit over a doubly linked list of blocks *)
(* that lie one after the other, each a header and its payload.            *)
(*                                                                         *)
(* The unit is the cell.  An address counts from ALLOCATION-AREA, whose    *)
(* own header is its first cell, and 0 ends the list.  A request counts    *)
(* the cells after ALIGNED; Word stands for one that ALIGNED overflows.    *)
(* Sums of cells wrap at Word.                                             *)
(***************************************************************************)
EXTENDS Integers, FiniteSets, SequencesExt

CONSTANTS
  Tags,       \* the blocks the program can hold at a time
  NoBlock,    \* held for a tag that stands for no block
  HeapSize,   \* the cells of the area
  H,          \* ALLOC:SMALLH, the cells of a header
  Word,       \* how many values a cell count can have
  Requests,   \* the sizes the program asks for
  AnyResize   \* whether the program resizes blocks that cannot stay in place

ASSUME HeapAssumption ==
  /\ H \in Nat \ {0}
  /\ HeapSize \in Nat /\ HeapSize > H + 1
  /\ Word \in Nat /\ Word > HeapSize + H
  /\ Requests \subseteq 0 .. Word
  /\ AnyResize \in BOOLEAN
  /\ NoBlock \notin [addr : Nat, size : Requests]

VARIABLES
  area,     \* whether ALLOCATION-AREA is set
  blk,      \* the header at each cell, of use where a block begins
  mem,      \* what a cell was last written with: a tag, "header" or "junk"
  held,     \* the blocks the program holds: [addr, size] or NoBlock
  result    \* what the last word returned: [addr, ior]

vars == <<area, blk, mem, held, result>>

Base == 1
Cells == Base .. HeapSize - 1
Headers == [size : 0 .. HeapSize, used : BOOLEAN, prev : Cells \cup {0}, next : Cells \cup {0}]
Payload(b) == b.addr .. b.addr + b.size - 1
HeaderCells(h) == h .. h + H - 1
Written(m, S, v) == [c \in Cells |-> IF c \in S THEN v ELSE m[c]]

NoMemory == -21
-----------------------------------------------------------------------------
(* Finding a block. *)

(* Mutants: used blocks taken too; the search ended by the first free      *)
(* block; any free block taken.                                            *)
FindTakesUsed(b, u) ==
  LET find[h \in Cells] ==
        IF b[h].size > (u + H) % Word THEN h
        ELSE IF b[h].next # 0 THEN find[b[h].next]
        ELSE 0
  IN find[Base]
FindGivesUp(b, u) ==
  LET find[h \in Cells] ==
        IF ~b[h].used THEN IF b[h].size > (u + H) % Word THEN h ELSE 0
        ELSE IF b[h].next # 0 THEN find[b[h].next]
        ELSE 0
  IN find[Base]
FindTakesAny(b, u) ==
  LET find[h \in Cells] ==
        IF ~b[h].used THEN h
        ELSE IF b[h].next # 0 THEN find[b[h].next]
        ELSE 0
  IN find[Base]

FIND_FREE_AREA(b, u) ==
  LET find[h \in Cells] ==
        IF ~b[h].used /\ b[h].size > (u + H) % Word THEN h
        ELSE IF b[h].next # 0 THEN find[b[h].next]
        ELSE 0
  IN find[Base]

IsPerfectFit(u, size) == size - u <= H

(* A mutant: the size of the rest subtracted the wrong way around.         *)
SplitSubtractsEnd(b, u, h) ==
  LET between == h + u + H
      rest == [size |-> between - (h + b[h].size), used |-> FALSE,
               prev |-> h, next |-> b[h].next]
  IN [b EXCEPT ![h].used = TRUE, ![h].size = u, ![h].next = between, ![between] = rest]

(* The blocks after SPLIT-ALLOCATE of u cells in the free block at h.      *)
Split(b, u, h) ==
  IF IsPerfectFit(u, b[h].size)
    THEN [b EXCEPT ![h].used = TRUE]
    ELSE LET between == h + u + H
             rest == [size |-> (h + b[h].size) - between, used |-> FALSE,
                      prev |-> h, next |-> b[h].next]
         IN [c \in Cells |->
               CASE c = h         -> [b[h] EXCEPT !.used = TRUE, !.size = u, !.next = between]
                 [] c = between   -> rest
                 [] c = b[h].next -> [b[c] EXCEPT !.prev = between]
                 [] OTHER         -> b[c]]

(* The cells SPLIT-ALLOCATE writes that were payload. *)
SplitHeader(b, u, h) ==
  IF IsPerfectFit(u, b[h].size) THEN {} ELSE HeaderCells(h + u + H)

(* What ALLOCATE of u finds in blocks b: a header, or 0 for ior -21.       *)
Found(b, u) == IF u = Word THEN 0 ELSE FIND_FREE_AREA(b, u)
-----------------------------------------------------------------------------
(* Giving a block back. *)

(* A mutant: the block behind keeps its link to the one merged away. *)
MergeRightForgetsPrev(b, h) ==
  LET n == b[h].next
  IN [b EXCEPT ![h].size = @ + b[n].size + H, ![h].next = b[n].next]

(* The block at h and the free one behind it become one. *)
MergeRight(b, h) ==
  LET n == b[h].next
  IN [c \in Cells |->
        CASE c = h         -> [b[h] EXCEPT !.size = @ + b[n].size + H, !.next = b[n].next]
          [] c = b[n].next -> [b[c] EXCEPT !.prev = h]
          [] OTHER         -> b[c]]

MergeLeft(b, h) == MergeRight(b, b[h].prev)

(* A mutant: a block between two free ones merged with one of them only.   *)
FreedOneSide(b0, h) ==
  LET b == [b0 EXCEPT ![h].used = FALSE]
      rightFree == b[h].next # 0 /\ ~b[b[h].next].used
      leftFree == b[h].prev # 0 /\ ~b[b[h].prev].used
  IN CASE rightFree -> MergeRight(b, h)
       [] leftFree /\ ~rightFree -> MergeLeft(b, h)
       [] OTHER -> b

(* The blocks after FREE of the block at h. *)
Freed(b0, h) ==
  LET b == [b0 EXCEPT ![h].used = FALSE]
      rightFree == b[h].next # 0 /\ ~b[b[h].next].used
      leftFree == b[h].prev # 0 /\ ~b[b[h].prev].used
  IN CASE rightFree /\ leftFree -> MergeLeft(MergeRight(b, h), h)
       [] rightFree /\ ~leftFree -> MergeRight(b, h)
       [] leftFree /\ ~rightFree -> MergeLeft(b, h)
       [] OTHER -> b
-----------------------------------------------------------------------------
Init ==
  /\ area = FALSE
  /\ blk = [c \in Cells |-> [size |-> 0, used |-> FALSE, prev |-> 0, next |-> 0]]
  /\ mem = [c \in Cells |-> "junk"]
  /\ held = [t \in Tags |-> NoBlock]
  /\ result = [addr |-> 0, ior |-> 0]

(* Where the list of blocks b leads, from its first. *)
Chain(b) ==
  LET from[h \in Cells] == IF b[h].next = 0 THEN <<h>> ELSE <<h>> \o from[b[h].next]
  IN from[Base]
UsedBlocks == IF area THEN {h \in ToSet(Chain(blk)) : blk[h].used} ELSE {}

(* The program of the model stops when RESIZE has left it with an address  *)
(* that is no block.                                                       *)
Misled == \E t \in Tags : held[t] # NoBlock /\ held[t].addr - H \notin UsedBlocks

(* SETUP-SYSTEM, when the kernel starts and each time QUIT comes back.     *)
INIT_ALLOCATION_AREA ==
  /\ area' = TRUE
  /\ blk' = [blk EXCEPT ![Base] = [size |-> HeapSize - Base - H, used |-> FALSE,
                                   prev |-> 0, next |-> 0]]
  /\ mem' = Written(mem, HeaderCells(Base), "header")
  /\ held' = [t \in Tags |-> NoBlock]
  /\ UNCHANGED result

(* The program allocates u cells and fills them with its tag. *)
ALLOCATE(t, u) ==
  /\ held[t] = NoBlock
  /\ LET h == Found(blk, u)
         b == [addr |-> h + H, size |-> u]
     IN IF area /\ h # 0
          THEN /\ blk' = Split(blk, u, h)
               /\ mem' = Written(Written(mem, SplitHeader(blk, u, h), "header"), Payload(b), t)
               /\ held' = [held EXCEPT ![t] = b]
               /\ result' = [addr |-> b.addr, ior |-> 0]
          ELSE /\ result' = [addr |-> 0, ior |-> NoMemory]
               /\ UNCHANGED <<blk, mem, held>>
  /\ UNCHANGED area

FREE(t) ==
  /\ held[t] # NoBlock
  /\ blk' = Freed(blk, held[t].addr - H)
  /\ held' = [held EXCEPT ![t] = NoBlock]
  /\ result' = [addr |-> 0, ior |-> 0]
  /\ UNCHANGED <<area, mem>>

(* MOVE of n cells of m, from one address to another. *)
Moved(m, from, to, n) ==
  [c \in Cells |-> IF c \notin to .. to + n - 1 THEN m[c]
                   ELSE IF from + c - to \in Cells THEN m[from + c - to] ELSE "junk"]

(* RESIZE frees the block and allocates again.  It returns the old address *)
(* when the block moved and when it failed.  The program goes by what it   *)
(* is told, and fills what it thinks it gained.                            *)
RESIZE(t, u) ==
  /\ held[t] # NoBlock
  /\ LET old == held[t]
         freed == Freed(blk, old.addr - H)
         h == Found(freed, u)
         split == Written(mem, SplitHeader(freed, u, h), "header")
         gained == (old.addr + old.size) .. (old.addr + u - 1)
     IN /\ AnyResize \/ h + H = old.addr
        /\ IF h = 0
             THEN /\ blk' = freed
                  /\ result' = [addr |-> old.addr, ior |-> NoMemory]
                  /\ UNCHANGED <<mem, held>>
             ELSE /\ blk' = Split(freed, u, h)
                  /\ mem' = Written(Moved(split, old.addr, h + H, u), gained, t)
                  /\ held' = [held EXCEPT ![t].size = u]
                  /\ result' = [addr |-> old.addr, ior |-> 0]
  /\ UNCHANGED area

Next ==
  /\ ~Misled
  /\ \/ INIT_ALLOCATION_AREA
     \/ \E t \in Tags : FREE(t) \/ \E u \in Requests : ALLOCATE(t, u) \/ RESIZE(t, u)

Spec == Init /\ [][Next]_vars
-----------------------------------------------------------------------------
(* The shape of the state. *)
HeapTypeOK ==
  /\ area \in BOOLEAN
  /\ blk \in [Cells -> Headers]
  /\ mem \in [Cells -> Tags \cup {"header", "junk"}]
  /\ \A t \in Tags : held[t] # NoBlock => held[t] \in [addr : Cells, size : Requests]
  /\ result \in [addr : Cells \cup {0}, ior : {0, NoMemory}]

(* The list covers the area without gap or overlap, each link back is the  *)
(* inverse of a link forward, and the used blocks are those the program    *)
(* holds: none leaks and none is free behind the program's back.           *)
ListSound ==
  area =>
    LET c == Chain(blk)
        end(h) == h + H + blk[h].size
    IN /\ blk[Base].prev = 0
       /\ \A i \in 1 .. Len(c) - 1 : c[i + 1] = end(c[i]) /\ blk[c[i + 1]].prev = c[i]
       /\ end(c[Len(c)]) = HeapSize
       /\ UsedBlocks = {held[t].addr - H : t \in {s \in Tags : held[s] # NoBlock}}

(* Free blocks are merged as soon as they are neighbours, so that all      *)
(* blocks freed give back the whole area.                                  *)
NoFreeNeighbours ==
  area => \A i \in 1 .. Len(Chain(blk)) - 1 :
            blk[Chain(blk)[i]].used \/ blk[Chain(blk)[i + 1]].used

(* A block lies in the area, and what a program wrote into it stays there, *)
(* whatever is allocated, resized or freed around it.                      *)
ContentsIntact ==
  \A t \in Tags : held[t] # NoBlock =>
    \A c \in Payload(held[t]) : c \in Cells /\ mem[c] = t

(* ALLOCATE fails only if no stretch between the blocks held has room for  *)
(* the request, its header and one header more.                            *)
Stretches ==
  {S \in {i .. j : i, j \in Cells} :
     \A t \in Tags : held[t] # NoBlock =>
       (held[t].addr - H .. held[t].addr + held[t].size - 1) \cap S = {}}
FailsOnlyWithoutRoom ==
  [][\A t \in Tags, u \in Requests :
       ALLOCATE(t, u) /\ area /\ result'.ior # 0 =>
         \A S \in Stretches : Cardinality(S) <= u + 2 * H]_vars

(* The words keep the promise of Allocator. *)
Promise == INSTANCE Allocator WITH Sizes <- Requests
ImplementsAllocator == Promise!Spec

(* The address RESIZE returns is that of an allocated block, with an error *)
(* the block it was given: "( a-addr u -- a-addr ior )".                   *)
ResizeReturnsBlock ==
  [][\A t \in Tags, u \in Requests :
       RESIZE(t, u) => result'.addr - H \in UsedBlocks']_vars
=============================================================================
