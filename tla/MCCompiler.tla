---------------------------- MODULE MCCompiler -----------------------------
(* Cells of twenty bits, with words an image exports far from its code.    *)
EXTENDS Compiler

Exports(i, runs) ==
  [addr |-> 600000 + 16 * i, body |-> 600000 + 16 * i + 8, runs |-> runs, exec |-> 700000 + 4 * i]
MCExported == <<Exports(1, FALSE), Exports(2, TRUE)>>
(* Every low half beside high halves at the ends and the middle. *)
MCNumbers == {hi * 1024 + lo : hi \in {0, 1, 2, 511, 512, 1022, 1023}, lo \in 0 .. 1023}
MCDistances == {d \in -2048 .. 2047 : d % 6 = 0 \/ d % 512 \in {0, 1, 2, 510, 511} \/ d \in -35 .. 35}
MCImmediates ==
  {-2 ^ 20, -4096, -2048, -1366, -2, -1, 0, 1, 2, 1365, 2046, 2047, 2048, 4094, 4096, 349524,
   524288, 1048574, 1048575}
=============================================================================
