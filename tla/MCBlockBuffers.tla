--------------------------- MODULE MCBlockBuffers ---------------------------
(* Instances of BlockBuffers for TLC: the constants are in the .cfg files, *)
(* over files, over the array of os2, and with a block number out of it.   *)
EXTENDS BlockBuffers
=============================================================================
