----------------------------- MODULE MCKeyboard -----------------------------
(* Keyboard for TLC: one cell of the queue can be in use and two           *)
(* characters in the receiver, so that three typed characters fill both    *)
(* and go around the queue.                                                *)
EXTENDS Keyboard
=============================================================================
