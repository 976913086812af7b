---------------------------- MODULE MCArithmetic ----------------------------
(***************************************************************************)
(* Arithmetic for TLC: digits of two bits, cells of three digits.            *)
(***************************************************************************)
EXTENDS Arithmetic
=============================================================================
