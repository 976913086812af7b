----------------------------- MODULE Allocator ------------------------------
(***************************************************************************)
(* What the Memory-Allocation words promise a program: a block is a        *)
(* stretch of cells of the area that no other block touches, and it stays  *)
(* where it is until the program frees or resizes it.                      *)
(***************************************************************************)
EXTENDS Integers

CONSTANTS
  Tags,      \* the blocks a program can hold at a time
  NoBlock,   \* a tag that stands for no block
  Cells,     \* the cells of the area
  Sizes      \* the sizes, in cells, that programs ask for

VARIABLE held

Block == [addr : Cells, size : Sizes]
CellsOf(b) == b.addr .. b.addr + b.size - 1
Holds(t) == held[t] # NoBlock

(* b lies in the area and touches no block held by another tag. *)
Fits(b, t) ==
  /\ CellsOf(b) \subseteq Cells
  /\ \A s \in Tags \ {t} : Holds(s) => CellsOf(b) \cap CellsOf(held[s]) = {}

Init == held = [t \in Tags |-> NoBlock]

Allocate(t) ==
  /\ ~Holds(t)
  /\ \E b \in Block : Fits(b, t) /\ held' = [held EXCEPT ![t] = b]

Free(t) ==
  /\ Holds(t)
  /\ held' = [held EXCEPT ![t] = NoBlock]

Resize(t) ==
  /\ Holds(t)
  /\ \E b \in Block : Fits(b, t) /\ held' = [held EXCEPT ![t] = b]

(* The area is set up again under a new system: nothing is held. *)
Reset == held' = [t \in Tags |-> NoBlock]

Next == Reset \/ \E t \in Tags : Allocate(t) \/ Free(t) \/ Resize(t)

Spec == Init /\ [][Next]_held
-----------------------------------------------------------------------------
(* Blocks held at the same time share no cell. *)
Disjoint ==
  \A s, t \in Tags :
    s # t /\ Holds(s) /\ Holds(t) => CellsOf(held[s]) \cap CellsOf(held[t]) = {}
=============================================================================
