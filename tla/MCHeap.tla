------------------------------- MODULE MCHeap -------------------------------
(***************************************************************************)
(* Heap for TLC.  A header is two cells, so that a block can be too small  *)
(* to hold a header; the program holds up to three blocks.                 *)
(*                                                                         *)
(* States that differ in what no word reads, the result of the last word   *)
(* and the cells outside the list of blocks and the blocks held, count as  *)
(* one.                                                                    *)
(***************************************************************************)
EXTENDS Heap

CONSTANTS t1, t2, t3
Symmetry == Permutations(Tags)

Listed == IF area THEN ToSet(Chain(blk)) ELSE {}
Followed == UNION {Payload(held[t]) : t \in {s \in Tags : held[s] # NoBlock}} \cap Cells
View == <<area, held, [h \in Listed |-> blk[h]], [c \in Followed |-> mem[c]]>>
=============================================================================
