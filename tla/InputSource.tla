----------------------------- MODULE InputSource -----------------------------
(***************************************************************************)
(* The interpreter's input: QUIT over a source file, and EVALUATE, INCLUDE *)
(* and LOAD nested in it and in one another.  Each saves the input with    *)
(* SAVE-INPUT, interprets another, and puts the first back with            *)
(* RESTORE-INPUT when it is done or when an exception passes through it.   *)
(*                                                                         *)
(* One LINE-BUFFER holds the line of whatever file is read, so an INCLUDE  *)
(* overwrites the line it stands in, and RESTORE-INPUT writes it back.     *)
(* Strings and block buffers are read where they lie.                      *)
(*                                                                         *)
(* A line is known by the source it comes from and its number there; a     *)
(* line, a string and a block have WordCount words each.                   *)
(***************************************************************************)
EXTENDS Integers, SequencesExt

CONSTANTS
  File,       \* source files
  String,     \* strings given to EVALUATE
  Block,      \* block numbers
  LineCount,  \* the lines of a file
  WordCount,  \* the words of a line
  MaxDepth,   \* bound on the nesting
  MaxOpen,    \* the files the process can hold open
  FreeLoads   \* whether LOAD may take the buffer of a block being loaded

ASSUME InputAssumption ==
  /\ Block \subseteq Nat \ {0}
  /\ {LineCount, WordCount, MaxDepth, MaxOpen} \subseteq Nat \ {0}
  /\ FreeLoads \in BOOLEAN

VARIABLES
  sid,      \* SOURCE-ID: 0, -1, or the number of an open file
  blk,      \* BLK
  ptr,      \* LINE-PTR: <<"line">>, <<"string", s>> or <<"buffer", i>>
  pao,      \* >IN, in words
  lineBuf,  \* the line in LINE-BUFFER
  assoc,    \* BUFFER-ASSOC, the blocks in the two buffers
  bufI,     \* BUFFER-I
  fds,      \* the open files: [file, pos]
  act,      \* what is being interpreted, the outermost first
  exc,      \* the exception on its way, or 0
  reading   \* history: the line the interpreter took up last

input == <<sid, blk, ptr, pao, lineBuf>>
vars == <<input, assoc, bufI, fds, act, exc, reading>>

None == "none"
Line(f, n) == <<"file", f, n>>
StringLine(s) == <<"string", s>>
BlockLine(b) == <<"block", b>>
InBuffer == <<"line">>

(* The line LINE-PTR points at. *)
Content(p) ==
  CASE p[1] = "line"   -> lineBuf
    [] p[1] = "string" -> StringLine(p[2])
    [] p[1] = "buffer" -> BlockLine(assoc[p[2]])

Top == act[Len(act)]
-----------------------------------------------------------------------------
(* SAVE-INPUT: the cells of the input, under them the characters of a line *)
(* in LINE-BUFFER, and the position of a file.                             *)
SAVE_INPUT ==
  [ptr |-> ptr, pao |-> pao + 1, blk |-> blk, sid |-> sid,
   chars |-> IF blk = 0 /\ sid # -1 THEN <<lineBuf>> ELSE <<>>,
   pos |-> IF sid > 0 THEN <<fds[sid].pos>> ELSE <<>>,
   reading |-> reading]

(* A mutant: the line not written back. *)
RESTORE_INPUTKeepsLine(s) ==
  /\ ptr' = s.ptr /\ pao' = s.pao /\ blk' = s.blk /\ sid' = s.sid
  /\ fds' = IF s.blk = 0 /\ s.sid > 0 THEN [fds EXCEPT ![s.sid].pos = Head(s.pos)] ELSE fds
  /\ reading' = s.reading
  /\ UNCHANGED lineBuf

RESTORE_INPUT(s) ==
  /\ ptr' = s.ptr /\ pao' = s.pao /\ blk' = s.blk /\ sid' = s.sid
  /\ lineBuf' = IF s.blk = 0 /\ s.sid # -1 THEN Head(s.chars) ELSE lineBuf
  /\ fds' = IF s.blk = 0 /\ s.sid > 0 THEN [fds EXCEPT ![s.sid].pos = Head(s.pos)] ELSE fds
  /\ reading' = s.reading

Enter(kind, c) ==
  act' = Append(act, [kind |-> kind, caught |-> c, saved |-> SAVE_INPUT])
Leave == act' = Front(act)

(* A mutant: the end of the file missed by one line. *)
MoreLinesOneTooMany(d) == fds[d].pos <= LineCount
(* REFILL from the file open as d: its next line into LINE-BUFFER. *)
MoreLines(d) == fds[d].pos < LineCount
RefillFile(d, open) ==
  LET l == Line(open[d].file, open[d].pos + 1)
  IN /\ fds' = [open EXCEPT ![d].pos = @ + 1]
     /\ lineBuf' = l /\ reading' = l
     /\ ptr' = InBuffer /\ pao' = 0

(* BLOCK of b, into buffer i. *)
Target(b, i) ==
  \/ assoc[i] = b
  \/ /\ \A j \in 1 .. 2 : assoc[j] # b
     /\ \/ /\ assoc[i] = 0
           /\ i = 2 => assoc[1] # 0
        \/ /\ \A j \in 1 .. 2 : assoc[j] # 0
           /\ i = 3 - bufI
InUse(i) ==
  \/ ptr = <<"buffer", i>>
  \/ \E k \in 2 .. Len(act) : act[k].saved.ptr = <<"buffer", i>>
FromBlock(b) ==
  \E i \in 1 .. 2 :
    /\ Target(b, i)
    /\ FreeLoads \/ assoc[i] = b \/ ~InUse(i)
    /\ assoc' = [assoc EXCEPT ![i] = b]
    /\ bufI' = i
    /\ ptr' = <<"buffer", i>> /\ pao' = 0
    /\ reading' = BlockLine(b)
-----------------------------------------------------------------------------
(* QUIT, called for a file of the command line, reads its first line.      *)
Init ==
  /\ \E f \in File : fds = <<[file |-> f, pos |-> 1]>> /\ lineBuf = Line(f, 1)
  /\ sid = 1 /\ blk = 0 /\ ptr = InBuffer /\ pao = 0
  /\ assoc = [i \in 1 .. 2 |-> 0] /\ bufI = 1
  /\ act = <<[kind |-> "quit", caught |-> FALSE, saved |-> None]>>
  /\ exc = 0
  /\ reading = lineBuf

(* The interpreter takes the next word of the line, which ...              *)
AtWord == act # <<>> /\ exc = 0 /\ pao < WordCount
CanNest == AtWord /\ Len(act) < MaxDepth

(* ... leaves the input alone. *)
Plain ==
  /\ AtWord
  /\ pao' = pao + 1
  /\ UNCHANGED <<sid, blk, ptr, lineBuf, assoc, bufI, fds, act, exc, reading>>

(* ... throws. *)
THROW ==
  /\ AtWord
  /\ pao' = pao + 1
  /\ exc' = -1
  /\ UNCHANGED <<sid, blk, ptr, lineBuf, assoc, bufI, fds, act, reading>>

(* ... is EVALUATE, called by CATCH if c. *)
EVALUATE(s, c) ==
  /\ CanNest
  /\ Enter("evaluate", c)
  /\ sid' = -1 /\ blk' = 0
  /\ ptr' = <<"string", s>> /\ pao' = 0
  /\ reading' = StringLine(s)
  /\ UNCHANGED <<lineBuf, assoc, bufI, fds, exc>>

(* ... is INCLUDE.  The file is opened and never closed.                   *)
INCLUDE(f, c) ==
  /\ CanNest
  /\ Len(fds) < MaxOpen
  /\ Enter("include", c)
  /\ sid' = Len(fds) + 1 /\ blk' = 0
  /\ RefillFile(Len(fds) + 1, Append(fds, [file |-> f, pos |-> 0]))
  /\ UNCHANGED <<assoc, bufI, exc>>

INCLUDEFails(c) ==
  /\ AtWord
  /\ Len(fds) = MaxOpen
  /\ pao' = pao + 1
  /\ exc' = IF c THEN 0 ELSE -38
  /\ UNCHANGED <<sid, blk, ptr, lineBuf, assoc, bufI, fds, act, reading>>

(* A mutant: SOURCE-ID left as it was. *)
LOADKeepsSourceId(b, c) ==
  /\ CanNest
  /\ Enter("load", c)
  /\ blk' = b
  /\ FromBlock(b)
  /\ UNCHANGED <<sid, lineBuf, fds, exc>>

(* ... is LOAD. *)
LOAD(b, c) ==
  /\ CanNest
  /\ Enter("load", c)
  /\ sid' = 0 /\ blk' = b
  /\ FromBlock(b)
  /\ UNCHANGED <<lineBuf, fds, exc>>

(* ... is REFILL: from a block the next block, from a file the next line   *)
(* if there is one, from a string nothing.                                 *)
REFILL ==
  /\ AtWord
  /\ \/ /\ blk + 1 \in Block /\ blk # 0
        /\ blk' = blk + 1
        /\ FromBlock(blk + 1)
        /\ UNCHANGED <<lineBuf, fds>>
     \/ /\ blk = 0 /\ sid > 0 /\ MoreLines(sid)
        /\ RefillFile(sid, fds)
        /\ UNCHANGED <<blk, assoc, bufI>>
  /\ UNCHANGED <<sid, act, exc>>
-----------------------------------------------------------------------------
(* The words of the line are used up: what comes next depends on what is   *)
(* being interpreted.                                                      *)
AtEnd == act # <<>> /\ exc = 0 /\ pao >= WordCount

NextLine ==
  /\ AtEnd /\ Top.kind \in {"quit", "include"}
  /\ MoreLines(sid)
  /\ RefillFile(sid, fds)
  /\ UNCHANGED <<sid, blk, assoc, bufI, act, exc>>

Done ==
  /\ AtEnd /\ Top.kind # "quit"
  /\ Top.kind = "include" => ~MoreLines(sid)
  /\ Leave
  /\ RESTORE_INPUT(Top.saved)
  /\ UNCHANGED <<assoc, bufI, exc>>

(* An exception with no handler left ends QUIT, and so does the end of its *)
(* file.                                                                   *)
QuitEnds ==
  /\ act # <<>> /\ Top.kind = "quit"
  /\ exc # 0 \/ (AtEnd /\ ~MoreLines(sid))
  /\ act' = <<>>
  /\ UNCHANGED <<input, assoc, bufI, fds, exc, reading>>

(* A mutant: the input not put back on the way out. *)
UnwindKeepsInput ==
  /\ act # <<>> /\ exc # 0 /\ Top.kind # "quit"
  /\ Leave
  /\ exc' = IF Top.kind = "load" \/ Top.caught THEN 0 ELSE exc
  /\ UNCHANGED <<input, fds, reading, assoc, bufI>>

(* EVALUATE and INCLUDE catch it, put the input back and throw again, to   *)
(* the CATCH that called them if there is one; LOAD drops it.              *)
Unwind ==
  /\ act # <<>> /\ exc # 0 /\ Top.kind # "quit"
  /\ Leave
  /\ RESTORE_INPUT(Top.saved)
  /\ exc' = IF Top.kind = "load" \/ Top.caught THEN 0 ELSE exc
  /\ UNCHANGED <<assoc, bufI>>

Next ==
  \/ Plain \/ THROW \/ REFILL \/ NextLine \/ Done \/ QuitEnds \/ Unwind
  \/ \E c \in BOOLEAN :
       \/ INCLUDEFails(c)
       \/ \E s \in String : EVALUATE(s, c)
       \/ \E f \in File : INCLUDE(f, c)
       \/ \E b \in Block : LOAD(b, c)

Spec == Init /\ [][Next]_vars
-----------------------------------------------------------------------------
FileLines == {"file"} \X File \X (1 .. LineCount)
Lines == FileLines \cup {"string"} \X String \cup {"block"} \X Block
Places == {InBuffer} \cup {"string"} \X String \cup {"buffer"} \X (1 .. 2)

(* The shape of the state. *)
TypeOK ==
  /\ sid \in -1 .. Len(fds) /\ blk \in Block \cup {0}
  /\ ptr \in Places
  /\ pao \in 0 .. WordCount
  /\ lineBuf \in FileLines /\ reading \in Lines
  /\ assoc \in [1 .. 2 -> Block \cup {0}] /\ bufI \in 1 .. 2
  /\ fds \in Seq([file : File, pos : 0 .. LineCount]) /\ Len(fds) <= MaxOpen
  /\ \A k \in 1 .. Len(act) : act[k].kind \in {"quit", "evaluate", "include", "load"}
  /\ Len(act) <= MaxDepth
  /\ exc \in {0, -1, -38}

(* The interpreter goes on in the line it left: whatever nested source was *)
(* read in between, LINE-PTR still points at that line.                    *)
LineIntact == act # <<>> => Content(ptr) = reading

(* SOURCE-ID and BLK tell what is being interpreted, at every level and    *)
(* after every exception, so that REFILL reads from there.                 *)
Tells(kind, s, b) ==
  CASE kind = "evaluate" -> s = -1 /\ b = 0
    [] kind = "load"     -> s = 0 /\ b # 0
    [] OTHER             -> s > 0 /\ b = 0
SourceTold ==
  /\ (act # <<>> /\ exc = 0) => Tells(Top.kind, sid, blk)
  /\ \A k \in 2 .. Len(act) : Tells(act[k - 1].kind, act[k].saved.sid, act[k].saved.blk)

(* RESTORE-INPUT takes off the stack what SAVE-INPUT put there: it decides *)
(* from the cells it takes first whether characters and a position follow. *)
SavesBalance ==
  \A k \in 2 .. Len(act) :
    LET s == act[k].saved
    IN /\ s.chars # <<>> <=> (s.blk = 0 /\ s.sid # -1)
       /\ s.pos # <<>> <=> (s.blk = 0 /\ s.sid > 0)
=============================================================================
