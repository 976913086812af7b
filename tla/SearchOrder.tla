---------------------------- MODULE SearchOrder ----------------------------
(***************************************************************************)
(* What the words of the search order promise: a sequence of at most Limit   *)
(* wordlists to look in, and one that new definitions go to.               *)
(***************************************************************************)
EXTENDS Naturals, Sequences

CONSTANTS Limit, Forth
VARIABLES so, current

SetOrder(s) == Len(s) <= Limit /\ so' = s /\ UNCHANGED current
Only == SetOrder(<<Forth>>)
Vocabulary(l) == so # <<>> /\ SetOrder(<<l>> \o Tail(so))
Forth_ == SetOrder(<<Forth>> \o (IF so = <<>> THEN so ELSE Tail(so)))
Also == so # <<>> /\ SetOrder(<<so[1]>> \o so)
Previous == Len(so) > 1 /\ SetOrder(Tail(so))
Definitions == so # <<>> /\ current' = so[1] /\ UNCHANGED so
SetCurrent(l) == current' = l /\ UNCHANGED so

Init == so = <<Forth>> /\ current = Forth
=============================================================================
