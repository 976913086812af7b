------------------------------ MODULE MCLinker ------------------------------
EXTENDS ObjectFile
MCMoves == {0, 32, 40}
Word(name, list, inside, kind) == [name |-> name, list |-> list, inside |-> inside, kind |-> kind]
(* FORTH, a vocabulary V and the words a, b and one of the two again, of   *)
(* which the first are the base's.                                         *)
MCImages ==
  {[words |-> <<Word("FORTH", 1, FALSE, "vocabulary"), Word("V", 1, n < 2, "vocabulary"), Word("a", 1, n < 3, kinds[1]),
                Word("b", l1, n < 4, kinds[2]), Word(c, l2, TRUE, kinds[3])>>, detached |-> detached, near |-> near] :
     n \in 1 .. 4, c \in {"a", "b"}, l1 \in {1, 2}, l2 \in {1, 2}, detached, near \in BOOLEAN,
     kinds \in {<<"variable", "does", "child">>, <<"does", "child", "does">>, <<"buffer", "variable", "does">>}}
MCLayouts ==
  {[kind |-> k, merge |-> m, spare |-> s, names |-> n] :
     k \in {"ELF32", "ELF64"}, m \in BOOLEAN, s \in {0, 8}, n \in {"inside", "last", "padded", "cut", "none"}}
  \cup {[kind |-> k, merge |-> TRUE, spare |-> 8, names |-> "inside"] :
     k \in {"missing", "no ELF", "no class", "small entries", "other class"}}
MCAsked == {<< <<"text">> >>, << <<"data">>, <<"text">> >>, << <<"text", "SYS.CODE">>, <<"init">> >>,
           << <<"data">>, <<"text", "SYS.CODE", "x">> >>}
=============================================================================
