-------------------------------- MODULE Ring --------------------------------
(***************************************************************************)
(* The byte queue of example/os2/ring.fth: Size cells of memory, a read    *)
(* head and a write head that go around it.  The queue is empty when the   *)
(* heads meet, so one cell always stays unused.                            *)
(***************************************************************************)
EXTENDS Integers, Sequences

CONSTANTS
  Size,   \* RING:SIZE
  Byte    \* what a cell holds

ASSUME SizeAssumption == Size \in Nat \ {0}

Cells == 0 .. Size - 1
Rings == [rhead : Cells, whead : Cells, mem : [Cells -> Byte]]

(* RING:ALLOT clears the heads; the memory is what it was. *)
Allotted == {q \in Rings : q.rhead = 0 /\ q.whead = 0}

Advance(i) == (i + 1) % Size

RingEmpty(q) == q.whead = q.rhead
(* A mutant: the end of the memory forgotten. *)
RingFullWhenEqual(q) == q.whead + 1 = q.rhead
RingFull(q) == Advance(q.whead) = q.rhead

(* RING:PUSH of a ring that is not full. *)
Pushed(q, v) ==
  [q EXCEPT !.mem = [@ EXCEPT ![q.whead] = v], !.whead = Advance(@)]

(* RING:POP of a ring that is not empty: the value and the ring after it. *)
Oldest(q) == q.mem[q.rhead]
Popped(q) == [q EXCEPT !.rhead = Advance(@)]

(* The bytes in the ring, oldest first. *)
Count(q) == (q.whead - q.rhead) % Size
Contents(q) == [k \in 1 .. Count(q) |-> q.mem[(q.rhead + k - 1) % Size]]
=============================================================================
