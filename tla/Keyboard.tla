------------------------------ MODULE Keyboard ------------------------------
(***************************************************************************)
(* The words that read keys, on top of the console: KEY? and KEY of        *)
(* facility.fth, which share the byte pair KEY-EVENT, and the ACCEPT of    *)
(* the example kernel os2.  Each is a loop of environment calls, and       *)
(* characters go on arriving between any two of its steps.                 *)
(*                                                                         *)
(* What a word does with a character depends on its kind: "char" is        *)
(* printable, "int" is control-C, "eol" ends a line, "other" is the rest.  *)
(***************************************************************************)
EXTENDS Console

CONSTANTS
  LineMax   \* the room the program gives ACCEPT

(* A queue of one cell holds no character: EKEY would return the 0 of an   *)
(* empty one.  RING:ALLOT is called with hex 80000.                        *)
ASSUME KeyboardAssumption ==
  /\ LineMax \in Nat \ {0}
  /\ Size > 1

VARIABLES
  kind,    \* the kind of each character typed
  word,    \* the word the program is in, or "none"
  step,    \* "ask" calls EKEY?, "asked" has its answer, "get" calls EKEY,
           \* "got" has the character
  event,   \* the character KEY-EVENT holds, 0 when it is clear
  line,    \* what ACCEPT has stored so far
  given    \* history: the characters KEY and ACCEPT gave the program

kvars == <<kind, word, step, event, line, given>>

Kinds == {"char", "int", "eol", "other"}

KInit ==
  /\ Init
  /\ kind = [c \in 1 .. MaxTyped |-> "other"]
  /\ word = "none"
  /\ step = "ask"
  /\ event = 0
  /\ line = <<>>
  /\ given = <<>>
-----------------------------------------------------------------------------
(* The program calls a word.  It lets KEY follow a KEY? that said true:    *)
(* KEY? would overwrite the key it holds, and ACCEPT would pass it by.     *)

BeginKEY_question ==
  /\ Running /\ word = "none"
  /\ event = 0
  /\ word' = "KEY?"
  /\ step' = "ask"
  /\ UNCHANGED <<vars, kind, event, line, given>>

(* A mutant: KEY that does not clear the flag. *)
BeginKEYKeepsEvent ==
  /\ Running /\ word = "none"
  /\ IF event # 0
       THEN given' = Append(given, event) /\ UNCHANGED <<word, step>>
       ELSE word' = "KEY" /\ step' = "get" /\ UNCHANGED given
  /\ UNCHANGED <<vars, kind, line, event>>

(* KEY returns the character of KEY-EVENT at once if there is one.         *)
BeginKEY ==
  /\ Running /\ word = "none"
  /\ IF event # 0
       THEN event' = 0 /\ given' = Append(given, event) /\ UNCHANGED <<word, step>>
       ELSE word' = "KEY" /\ step' = "get" /\ UNCHANGED <<event, given>>
  /\ UNCHANGED <<vars, kind, line>>

BeginACCEPT ==
  /\ Running /\ word = "none"
  /\ event = 0
  /\ word' = "ACCEPT"
  /\ step' = "get"
  /\ line' = <<>>
  /\ UNCHANGED <<vars, kind, event, given>>
-----------------------------------------------------------------------------
(* The steps of a word. *)

Ask ==
  /\ word = "KEY?" /\ step = "ask"
  /\ EKEY_question
  /\ step' = "asked"
  /\ UNCHANGED <<kind, word, event, line, given>>

NoKey ==
  /\ Running /\ step = "asked" /\ a0 = 0
  /\ word' = "none"
  /\ step' = "ask"
  /\ UNCHANGED <<vars, kind, event, line, given>>

(* A mutant: EKEY called whatever EKEY? said. *)
GetUnasked ==
  /\ word # "none" /\ step \in {"ask", "get"}
  /\ EKEY
  /\ step' = "got"
  /\ UNCHANGED <<kind, word, event, line, given>>

Get ==
  /\ word # "none"
  /\ step = "get" \/ (step = "asked" /\ a0 = -1)
  /\ EKEY
  /\ step' = "got"
  /\ UNCHANGED <<kind, word, event, line, given>>

Got(w) == Running /\ word = w /\ step = "got"

(* The word ends, with what it has, or goes on. *)
Ends == word' = "none" /\ step' = "ask"
Again(s) == step' = s /\ UNCHANGED word

(* CHECK-INT with a control-C in a loop that goes on at s.  Its own IF has *)
(* used up the comparison, so that the IF of ABORT" takes whatever cell    *)
(* the caller has on the stack: if it is not 0 the word ends by the THROW, *)
(* and if it is 0 the control-C and the cell are gone.                     *)
CHECK_INT(s) == Ends \/ Again(s)

GotKEY_question ==
  /\ Got("KEY?")
  /\ CASE kind[a0] = "char" -> event' = a0 /\ Ends
       [] kind[a0] = "int"  -> CHECK_INT("ask") /\ UNCHANGED event
       [] OTHER             -> Again("ask") /\ UNCHANGED event
  /\ UNCHANGED <<vars, kind, line, given>>

GotKEY ==
  /\ Got("KEY")
  /\ CASE kind[a0] = "char" -> given' = Append(given, a0) /\ Ends
       [] kind[a0] = "int"  -> CHECK_INT("get") /\ UNCHANGED given
       [] OTHER             -> Again("get") /\ UNCHANGED given
  /\ UNCHANGED <<vars, kind, line, event>>

(* A mutant: the buffer tested before the character is stored. *)
GotACCEPTOneMore ==
  /\ Got("ACCEPT")
  /\ LET l == IF kind[a0] = "char" THEN Append(line, a0) ELSE line
     IN IF Len(line) = LineMax \/ kind[a0] = "eol"
          THEN given' = given \o l /\ line' = <<>> /\ Ends
          ELSE line' = l /\ UNCHANGED given /\ Again("get")
  /\ UNCHANGED <<vars, kind, event>>

(* ACCEPT ends with its buffer full or at the end of the line; it knows no *)
(* control-C.                                                              *)
GotACCEPT ==
  /\ Got("ACCEPT")
  /\ LET l == IF kind[a0] = "char" THEN Append(line, a0) ELSE line
     IN IF Len(l) = LineMax \/ kind[a0] = "eol"
          THEN given' = given \o l /\ line' = <<>> /\ Ends
          ELSE line' = l /\ UNCHANGED given /\ Again("get")
  /\ UNCHANGED <<vars, kind, event>>

InWord == Ask \/ NoKey \/ Get \/ GotKEY_question \/ GotKEY \/ GotACCEPT

(* Somebody types a character of some kind. *)
TypeKind ==
  /\ Type
  /\ \E k \in Kinds : kind' = [kind EXCEPT ![typed + 1] = k]
  /\ UNCHANGED <<word, step, event, line, given>>

Hardware == Raise /\ UNCHANGED kvars
Trap == Handler /\ UNCHANGED kvars

KNext == TypeKind \/ Hardware \/ Trap \/ BeginKEY_question \/ BeginKEY \/ BeginACCEPT \/ InWord

(* A word that has begun goes on; the program has to begin none.           *)
KSpec ==
  /\ KInit /\ [][KNext]_<<vars, kvars>>
  /\ WF_<<vars, kvars>>(Hardware) /\ WF_<<vars, kvars>>(Trap)
  /\ WF_<<vars, kvars>>(InWord)
-----------------------------------------------------------------------------
(* The shape of the state. *)
KTypeOK ==
  /\ TypeOK
  /\ kind \in [1 .. MaxTyped -> Kinds]
  /\ word \in {"none", "KEY?", "KEY", "ACCEPT"}
  /\ step \in {"ask", "asked", "get", "got"}
  /\ event \in Byte
  /\ line \in Seq(1 .. MaxTyped) /\ Len(line) < LineMax
  /\ given \in Seq(1 .. MaxTyped)

(* KEY? may be called where waiting is out of the question: the EKEY it    *)
(* calls never parks the program.                                          *)
KeyQuestionNeverWaits == word = "KEY?" => mepc = "code"

Printable(c) == c > 0 /\ kind[c] = "char"
InWordHand ==
  IF word # "none" /\ step = "got" /\ mepc = "code" /\ Printable(a0) THEN <<a0>> ELSE <<>>
HeldKey == IF event = 0 THEN <<>> ELSE <<event>>
Kept == given \o line \o HeldKey \o InWordHand

(* Of the characters that left the queue, the printable ones and no others *)
(* were given to the program, or are held where KEY or the end of ACCEPT   *)
(* will find them, each once and in the order they were typed.             *)
NoKeyLost ==
  /\ \A i, j \in DOMAIN Kept : i < j => Kept[i] < Kept[j]
  /\ {Kept[i] : i \in DOMAIN Kept} =
       {taken[i] : i \in {k \in DOMAIN taken : Printable(taken[k])}}

(* KEY? always comes back, and KEY does when a printable character is on   *)
(* its way, unless a full queue loses that one.                            *)
Coming(c) == \E i \in DOMAIN (Contents(ring) \o fifo) : (Contents(ring) \o fifo)[i] = c
KeyWordsReturn ==
  /\ word = "KEY?" ~> word = "none"
  /\ \A c \in 1 .. MaxTyped :
       word = "KEY" /\ Printable(c) /\ Coming(c) ~> word = "none" \/ c \in dropped
=============================================================================
