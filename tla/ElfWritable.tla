---------------------------- MODULE ElfWritable ----------------------------
(***************************************************************************)
(* make-elf-writable FILE SECTION...: in a linked program, the sections    *)
(* named (and the segments they are loaded with) are made writable.  The   *)
(* file is mapped and shared, so that what was changed before a failure    *)
(* stays.                                                                  *)
(*                                                                         *)
(* A name is a sequence of its parts: .text.INIT is <<"text", "INIT">>;    *)
(* an offset into the table of names counts parts, and the zero after each *)
(* name.                                                                   *)
(***************************************************************************)
EXTENDS Integers, SequencesExt

CONSTANT Elf_Words   \* how many values an Elf32_Word or Elf64_Word has: 2^32
ASSUME WordsAssumption == Elf_Words \in Nat \ 0 .. 50   \* sections are shorter

VARIABLES
  elf,      \* the file: [kind, phEnd, shEnd, shstr, strEnd, size, sections, segments]
  asked,    \* the sections still to be made writable
  exit      \* NotRun, Running, or what main returns
elfVars == <<elf, asked, exit>>
NotRun == -2
Running == -1

(* VERIFYSIZE: what ends there does not lie in the file.                  *)
Truncated(end) == end > elf.size

(* A mutant: every section of the name, not the first. *)
AllMatching(section) == {i \in DOMAIN elf.sections : IsPrefix(section, elf.sections[i].name)}
Matching(section) ==
  LET S == {i \in DOMAIN elf.sections : IsPrefix(section, elf.sections[i].name)}
  IN {i \in S : \A j \in S : i <= j}
Around(seg, sec) == seg.off <= sec.off /\ seg.off + seg.filesz > sec.off + (sec.size % Elf_Words)
SegmentsAround(S) == {j \in DOMAIN elf.segments : \E i \in S : Around(elf.segments[j], elf.sections[i])}
(* The flag set in some entries of a table. *)
MadeWritable(table, S) == [i \in DOMAIN table |-> [table[i] EXCEPT !.w = @ \/ i \in S]]

(* The table of names must end one before the file, and each name up to    *)
(* the first that matches must leave room for the one asked for.           *)
NamesCut(section) ==
  \/ Truncated(elf.strEnd + 1)
  \/ \E i \in DOMAIN elf.sections :
       /\ Truncated(elf.shstr + elf.sections[i].nameAt + Len(section) + 1)
       /\ \A j \in Matching(section) : i <= j
process32l(section) ==
  IF Truncated(elf.phEnd) \/ Truncated(elf.shEnd) THEN exit' = 1 /\ UNCHANGED elf
  ELSE IF elf.shstr = 0 THEN UNCHANGED <<elf, exit>>
  ELSE IF NamesCut(section) THEN exit' = 1 /\ UNCHANGED elf
  ELSE /\ elf' = [elf EXCEPT !.sections = MadeWritable(@, Matching(section)),
                             !.segments = MadeWritable(@, SegmentsAround(Matching(section)))]
       /\ UNCHANGED exit
(* The same with the wider fields of ELF64; msize is a word in both.       *)
process64l(section) == process32l(section)

process32 ==
  /\ exit = Running /\ asked # <<>> /\ elf.kind = "ELF32"
  /\ process32l(asked[1])
  /\ asked' = Tail(asked)
process64 ==
  /\ exit = Running /\ asked # <<>> /\ elf.kind = "ELF64"
  /\ process64l(asked[1])
  /\ asked' = Tail(asked)

(* The file is refused, or main ends: a class that is not known is no error. *)
main ==
  /\ exit = Running
  /\ \/ elf.kind \in {"missing", "no ELF", "no class", "small entries"} /\ exit' = 1
     \/ elf.kind \in {"ELF32", "ELF64"} /\ asked = <<>> /\ exit' = 0
     \/ elf.kind = "other class" /\ exit' = 0
  /\ UNCHANGED <<elf, asked>>
=============================================================================
