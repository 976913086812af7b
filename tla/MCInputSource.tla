--------------------------- MODULE MCInputSource ----------------------------
(* InputSource for TLC: a source file of three lines that may include      *)
(* itself, a string, and three blocks over the two buffers, so that LOAD   *)
(* and REFILL evict; QUIT and two sources nested in it.                    *)
EXTENDS InputSource
=============================================================================
