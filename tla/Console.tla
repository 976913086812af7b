------------------------------- MODULE Console -------------------------------
(***************************************************************************)
(* Console input of the example kernel os2: the receiver of the UART, the  *)
(* interrupt controller, the trap handler of the one hart, and the ring    *)
(* the handler fills and the EKEY environment call empties.                *)
(*                                                                         *)
(* Traps run to their end with interrupts off, so the handler's steps      *)
(* interleave with the arrival of characters only; the program and the     *)
(* handler exclude each other.  EKEY with no character parks the program:  *)
(* its return address goes to M-ENV-WFI and the hart returns to            *)
(* INFINITE-LOOP until the interrupt handler wakes it.                     *)
(*                                                                         *)
(* A character is known by its number: the first typed is 1.  0 is what    *)
(* GETCHAR and the wake-up give when there is none.                        *)
(***************************************************************************)
EXTENDS Ring, FiniteSets

CONSTANTS
  MaxTyped,   \* bound on the characters typed
  FifoDepth   \* characters the UART holds

ASSUME ConsoleAssumption ==
  /\ MaxTyped \in Nat
  /\ FifoDepth \in Nat \ {0}
  /\ Byte = 0 .. MaxTyped

VARIABLES
  typed,    \* how many characters were typed
  fifo,     \* the receiver of the UART
  irq,      \* interrupt 10 at the PLIC: "idle", "pending" or "claimed"
  mode,     \* "program", or the next step of HANDLE-EXTERNAL-IRQ
  ch,       \* the character between GETCHAR and PUSHCHAR
  ring,     \* QUEUE
  mepc,     \* where the program is, or returns to: "code" or "loop"
  mEnvWfi,  \* M-ENV-WFI: a return address or "none"
  ekeyWfi,  \* whether UART:EKEY-WFI is set
  a0,       \* what the last environment call returned
  taken,    \* history: the characters EKEY returned, in order
  dropped   \* history: the characters lost because something was full

hwVars == <<typed, fifo, irq>>
wfiVars == <<mepc, mEnvWfi, ekeyWfi>>
vars == <<typed, fifo, irq, mode, ch, ring, mepc, mEnvWfi, ekeyWfi, a0, taken, dropped>>

Init ==
  /\ typed = 0
  /\ fifo = <<>>
  /\ irq = "idle"
  /\ mode = "program"
  /\ ch = 0
  /\ ring \in {q \in Allotted : q.mem = [i \in Cells |-> 0]}
  /\ mepc = "code"
  /\ mEnvWfi = "none"
  /\ ekeyWfi = FALSE
  /\ a0 = 0
  /\ taken = <<>>
  /\ dropped = {}
-----------------------------------------------------------------------------
(* Hardware. *)

(* A character arrives; a full receiver loses it. *)
Type ==
  /\ typed < MaxTyped
  /\ typed' = typed + 1
  /\ IF Len(fifo) < FifoDepth
       THEN fifo' = Append(fifo, typed + 1) /\ UNCHANGED dropped
       ELSE dropped' = dropped \cup {typed + 1} /\ UNCHANGED fifo
  /\ UNCHANGED <<irq, mode, ch, ring, wfiVars, a0, taken>>

(* The UART asks for service while it holds a character; the PLIC passes   *)
(* that on once, until it is told the interrupt is complete.               *)
Raise ==
  /\ irq = "idle"
  /\ fifo # <<>>
  /\ irq' = "pending"
  /\ UNCHANGED <<typed, fifo, mode, ch, ring, wfiVars, a0, taken, dropped>>
-----------------------------------------------------------------------------
(* The interrupt handler. *)

(* A mutant: the interrupt completed as soon as it is claimed. *)
CLAIMCompletesFirst ==
  /\ mode = "program"
  /\ irq = "pending"
  /\ irq' = "idle"
  /\ mode' = "getchar"
  /\ UNCHANGED <<typed, fifo, ch, ring, wfiVars, a0, taken, dropped>>

(* The hart takes the interrupt, with the program or INFINITE-LOOP in      *)
(* MEPC, and HANDLE-EXTERNAL-IRQ claims it.                                *)
CLAIM ==
  /\ mode = "program"
  /\ irq = "pending"
  /\ irq' = "claimed"
  /\ mode' = "getchar"
  /\ UNCHANGED <<typed, fifo, ch, ring, wfiVars, a0, taken, dropped>>

GETCHAR ==
  /\ mode = "getchar"
  /\ mode' = "pushchar"
  /\ IF fifo # <<>>
       THEN ch' = Head(fifo) /\ fifo' = Tail(fifo)
       ELSE ch' = 0 /\ UNCHANGED fifo
  /\ UNCHANGED <<typed, irq, ring, wfiVars, a0, taken, dropped>>

(* POPCHAR from q into register a0. *)
PopInto(q) ==
  IF RingEmpty(q)
    THEN a0' = 0 /\ ring' = q /\ UNCHANGED taken
    ELSE a0' = Oldest(q) /\ ring' = Popped(q) /\ taken' = Append(taken, Oldest(q))

(* A mutant: the wake-up not disarmed. *)
WakeLeavesArmed(q) ==
  /\ mepc' = mEnvWfi
  /\ mEnvWfi' = "none"
  /\ UNCHANGED ekeyWfi
  /\ PopInto(q)

(* M-ENV-CALL:WU-EKEY, with q in the ring: the program goes on with the    *)
(* oldest character.                                                       *)
Wake(q) ==
  /\ mepc' = mEnvWfi
  /\ mEnvWfi' = "none"
  /\ ekeyWfi' = FALSE
  /\ PopInto(q)

(* The rest of IO:UART:IRQ: PUSHCHAR, and the wake-up if one is wanted.    *)
PUSHCHAR ==
  /\ mode = "pushchar"
  /\ mode' = "complete"
  /\ LET q == IF RingFull(ring) THEN ring ELSE Pushed(ring, ch)
     IN IF ekeyWfi THEN Wake(q) ELSE ring' = q /\ UNCHANGED <<wfiVars, a0, taken>>
  /\ dropped' = IF RingFull(ring) THEN dropped \cup {ch} ELSE dropped
  /\ UNCHANGED <<hwVars, ch>>

(* A mutant: an interrupt that is never completed. *)
COMPLETEMissing ==
  /\ mode = "complete"
  /\ mode' = "program"
  /\ UNCHANGED <<typed, fifo, irq, ch, ring, wfiVars, a0, taken, dropped>>

(* PLIC:COMPLETE and the return from the trap. *)
COMPLETE ==
  /\ mode = "complete"
  /\ mode' = "program"
  /\ irq' = "idle"
  /\ UNCHANGED <<typed, fifo, ch, ring, wfiVars, a0, taken, dropped>>
-----------------------------------------------------------------------------
(* The program.  It runs when the hart is in no handler and not parked.    *)
Running == mode = "program" /\ mepc = "code"

(* A mutant: the program parked with no wake-up armed. *)
EKEYParkedUnarmed ==
  /\ Running
  /\ IF RingEmpty(ring)
       THEN /\ mEnvWfi' = "code"
            /\ mepc' = "loop"
            /\ UNCHANGED <<ekeyWfi, ring, a0, taken>>
       ELSE PopInto(ring) /\ UNCHANGED wfiVars
  /\ UNCHANGED <<hwVars, mode, ch, dropped>>

(* M-ENV-CALL:EKEY *)
EKEY ==
  /\ Running
  /\ IF RingEmpty(ring)
       THEN /\ mEnvWfi' = "code"
            /\ ekeyWfi' = TRUE
            /\ mepc' = "loop"
            /\ UNCHANGED <<ring, a0, taken>>
       ELSE PopInto(ring) /\ UNCHANGED wfiVars
  /\ UNCHANGED <<hwVars, mode, ch, dropped>>

(* M-ENV-CALL:EKEY? *)
EKEY_question ==
  /\ Running
  /\ a0' = IF RingEmpty(ring) THEN 0 ELSE -1
  /\ UNCHANGED <<hwVars, mode, ch, ring, wfiVars, taken, dropped>>

Handler == CLAIM \/ GETCHAR \/ PUSHCHAR \/ COMPLETE
Next == Type \/ Raise \/ Handler \/ EKEY \/ EKEY_question

(* The PLIC passes interrupts on and the hart runs its handler.  Nobody    *)
(* has to type, and the program has to ask for nothing.                    *)
Fairness == WF_vars(Raise) /\ WF_vars(Handler)

Spec == Init /\ [][Next]_vars /\ Fairness
-----------------------------------------------------------------------------
(* The shape of the state. *)
TypeOK ==
  /\ typed \in 0 .. MaxTyped
  /\ fifo \in Seq(1 .. MaxTyped)
  /\ irq \in {"idle", "pending", "claimed"}
  /\ mode \in {"program", "getchar", "pushchar", "complete"}
  /\ ch \in Byte
  /\ ring \in Rings
  /\ mepc \in {"code", "loop"}
  /\ mEnvWfi \in {"none", "code"}
  /\ ekeyWfi \in BOOLEAN
  /\ a0 \in Byte \cup {-1}
  /\ taken \in Seq(Byte)
  /\ dropped \in SUBSET Byte

(* The interrupt is claimed exactly while the handler works on it, and     *)
(* then its character is there: the handler neither stays deaf nor makes   *)
(* up the 0 that EKEY would hand to the program as a key.                  *)
InterruptHasChar ==
  /\ irq = "claimed" <=> mode # "program"
  /\ irq = "pending" \/ mode = "getchar" => fifo # <<>>
  /\ mode = "pushchar" => ch # 0

(* The program is parked exactly while the handler is armed to wake it,    *)
(* and then no character waits in the ring.                                *)
ParkedIffArmed ==
  /\ mepc = "loop" <=> ekeyWfi
  /\ mepc = "loop" <=> mEnvWfi = "code"
  /\ mepc = "loop" => RingEmpty(ring)

InHand == IF mode = "pushchar" THEN <<ch>> ELSE <<>>
OnItsWay == taken \o Contents(ring) \o InHand \o fifo

(* Characters reach the program in the order they were typed, each at most *)
(* once, and only a full queue loses one.                                  *)
KeysInOrder ==
  /\ \A i, j \in DOMAIN OnItsWay : i < j => OnItsWay[i] < OnItsWay[j]
  /\ {OnItsWay[i] : i \in DOMAIN OnItsWay} \cup dropped = 1 .. typed
  /\ \A i \in DOMAIN OnItsWay : OnItsWay[i] \notin dropped

(* Every character leaves the receiver, whatever the program does.         *)
ReceiverDrains ==
  \A c \in 1 .. MaxTyped :
    (\E i \in DOMAIN fifo : fifo[i] = c) ~> ~(\E i \in DOMAIN fifo : fifo[i] = c)
=============================================================================
