----------------------------- MODULE BlockStore -----------------------------
(***************************************************************************)
(* What the Block word set promises a program: a store of blocks whose     *)
(* UPDATEd contents reach mass storage at some time of the system's        *)
(* choosing, at the latest with FLUSH or SAVE-BUFFERS, and are dropped only *)
(* by EMPTY-BUFFERS or by the end of the process.  Buffers, their number   *)
(* and the order of eviction are not visible here.                         *)
(***************************************************************************)
CONSTANTS
  Block,    \* the blocks mass storage can hold
  Data,     \* the contents a block can have
  None      \* no pending contents

VARIABLES
  stable,   \* stable[b]: the contents of b on mass storage
  pending   \* pending[b]: UPDATEd contents not yet written, or None

bsVars == <<stable, pending>>

Quiet == [b \in Block |-> None]

Init == pending = Quiet

(* A program changes the contents of b and marks it with UPDATE. *)
Modify(b) ==
  /\ \E v \in Data : pending' = [pending EXCEPT ![b] = v]
  /\ UNCHANGED stable

(* The pending contents of the blocks S are written to mass storage. *)
WriteBack(S) ==
  /\ \A b \in S : pending[b] # None
  /\ stable'  = [b \in Block |-> IF b \in S THEN pending[b] ELSE stable[b]]
  /\ pending' = [b \in Block |-> IF b \in S THEN None ELSE pending[b]]

(* EMPTY-BUFFERS, or the process ends. *)
Discard ==
  /\ pending' = Quiet
  /\ UNCHANGED stable

Next ==
  \/ \E b \in Block : Modify(b)
  \/ \E S \in SUBSET Block : WriteBack(S)
  \/ Discard

Spec == Init /\ [][Next]_bsVars
=============================================================================
