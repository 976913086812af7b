----------------------------- MODULE ObjectFile -----------------------------
(***************************************************************************)
(* A program on its way from the compiler's lines to a file whose sections *)
(* may be written: obj.cpp, a linker, make-elf-writable.                   *)
(***************************************************************************)
EXTENDS Linker, ElfWritable

CONSTANTS
  Layouts,   \* how the linker writes a file: [kind, merge, spare, names]
  Asked      \* what make-elf-writable is asked for

ASSUME LayoutsAssumption ==
  \A layout \in Layouts :
    layout.merge \in BOOLEAN /\ layout.spare \in Nat /\ layout.names \in {"inside", "last", "padded", "cut", "none"}
ASSUME AskedAssumption == Asked \subseteq Seq(Seq(STRING))

VARIABLE linked   \* the file as the linker wrote it, and what was asked for
vars == <<linkVars, elfVars, linked>>

Kind(s) == IF s.type = "NOBITS" THEN "bss" ELSE IF s.name \in {Code, "INIT"} THEN "text" ELSE "data"
(* A section with the entry point and those of the object, each in a       *)
(* segment of its own, "spare" bytes longer; merge: all are named .text.   *)
(* names: the section headers follow the table of names ("inside"), or the *)
(* names end the file ("last") or the file but for one byte ("padded"), or *)
(* the file is cut in the section headers, or there are no names.          *)
Linked(o, layout) ==
  LET in == << [name |-> "INIT", type |-> "PROGBITS"] >> \o SetToSeq(o.sections)
      name(n) == IF layout.merge THEN <<Kind(in[n])>> ELSE <<Kind(in[n]), in[n].name>>
      length == IF layout.merge THEN 2 ELSE 3
      names == 100 * Len(in) + 100
      end == names + 1 + length * Len(in)
  IN [kind |-> layout.kind, phEnd |-> 100,
      shEnd |-> IF layout.names \in {"inside", "cut"} THEN end + 10 * Len(in) ELSE names,
      shstr |-> IF layout.names = "none" THEN 0 ELSE names,
      strEnd |-> IF layout.names = "none" THEN 0 ELSE end,
      size |-> CASE layout.names = "inside" -> end + 10 * Len(in)
                 [] layout.names = "cut" -> end + 10 * Len(in) - 1
                 [] layout.names = "last" -> end
                 [] layout.names = "padded" -> end + 1
                 [] layout.names = "none" -> names,
      sections |-> [n \in DOMAIN in |->
                     [name |-> name(n), nameAt |-> 1 + length * (n - 1), off |-> 100 * n, size |-> 50, w |-> Kind(in[n]) # "text"]],
      segments |-> [n \in DOMAIN in |-> [off |-> 100 * n, filesz |-> 50 + layout.spare, w |-> Kind(in[n]) # "text"]]]

(* A linker (external).  obj.cpp has ended, and its tables with it. *)
ld ==
  /\ object.kind = "object"
  /\ \E layout \in Layouts, names \in Asked :
       /\ elf' = Linked(object, layout)
       /\ linked' = [file |-> elf', asked |-> names]
       /\ asked' = names
  /\ exit' = Running
  /\ object' = [kind |-> "linked"]
  /\ tables' = NoTables
  /\ UNCHANGED <<arch, image, rest>>

Init ==
  /\ LinkerInit
  /\ elf = [kind |-> "missing"] /\ asked = <<>> /\ exit = NotRun
  /\ linked = [file |-> elf, asked |-> asked]
Next ==
  \/ LinkerNext /\ UNCHANGED <<elfVars, linked>>
  \/ ld
  \/ (process32 \/ process64 \/ main) /\ UNCHANGED <<linkVars, linked>>
Spec == Init /\ [][Next]_vars

(* What the names of a sequence stand for: the first section that begins   *)
(* with each of them.                                                      *)
Requested(names) ==
  {i \in DOMAIN linked.file.sections :
     \E n \in ToSet(names) : /\ IsPrefix(n, linked.file.sections[i].name)
                             /\ \A j \in 1 .. i - 1 : ~IsPrefix(n, linked.file.sections[j].name)}
(* A segment holds a section when it begins no later and ends later; one   *)
(* that ends with the section is passed over (make-elf-writable.c:134).    *)
Holds(j, i) ==
  LET seg == linked.file.segments[j]
      sec == linked.file.sections[i]
  IN seg.off \in 0 .. sec.off /\ seg.off + seg.filesz >= sec.off + sec.size + 1

(* The tables end after the file; the names end with it; and a name asked  *)
(* for is longer than what follows the name of a section in the file.      *)
Cut(file) == file.phEnd > file.size \/ file.shEnd > file.size \/ file.strEnd > file.size
NamesLast(file) == file.shstr # 0 /\ file.strEnd + 1 > file.size
TooLong(file, names) ==
  \E i \in DOMAIN file.sections, k \in DOMAIN names :
    file.shstr # 0 /\ file.shstr + file.sections[i].nameAt + Len(names[k]) + 1 > file.size

(* At every moment, and after a failure, the file is what the linker wrote *)
(* with the sections of the names done so far writable, and the segments   *)
(* that hold them, and nothing else; when success is reported that is all  *)
(* names of a file that has names and whose class is known, and a failure  *)
(* is reported only for a file that is refused or cut short, whose names   *)
(* end it, or that is too short for a name that is asked for.              *)
WritableRight ==
  exit # NotRun =>
    LET file == linked.file
        all == Len(linked.asked)
        read == all - Len(asked) - (IF exit = 1 /\ file.kind \in {"ELF32", "ELF64"} THEN 1 ELSE 0)
        done == IF file.shstr = 0 THEN {} ELSE Requested(SubSeq(linked.asked, 1, read))
        holding == {j \in DOMAIN file.segments : \E i \in done : Holds(j, i)}
    IN /\ elf = [file EXCEPT !.sections = MadeWritable(@, done), !.segments = MadeWritable(@, holding)]
       /\ exit = 0 => read = all \/ file.kind = "other class"
       /\ exit = 1 => \/ file.kind \notin {"ELF32", "ELF64", "other class"}
                      \/ Cut(file) \/ NamesLast(file) \/ TooLong(file, linked.asked)
=============================================================================
