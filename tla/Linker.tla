------------------------------- MODULE Linker -------------------------------
(***************************************************************************)
(* From a compiled program to an object file (reloc/obj.cpp).  The         *)
(* compiler, with reloc-run.fth in it, prints a line for every reference   *)
(* it compiles and then what is in its wordlists and sections; obj.cpp     *)
(* reads the lines into tables, names the words by the path of their       *)
(* wordlists and writes sections, symbols and relocations.                 *)
(*                                                                         *)
(* A word of the program has three addresses: its header, its body and     *)
(* the code behind its DOES>.  The name of a symbol is a path of           *)
(* wordlists, the part of the word and the word's own name.                *)
(***************************************************************************)
EXTENDS Integers, SequencesExt

CONSTANTS
  Images,   \* programs: [words, detached, near]
  Page,     \* what AUIPC counts in: 2^12
  Moves     \* how much further than the code the linker moves the data

VARIABLES
  arch,     \* the processor
  image,    \* the program
  rest,     \* the lines obj.cpp has not read
  tables,   \* what it has read
  object    \* what it wrote: nothing, an object file, or a failed assertion;
            \* "compiled" before the lines are printed
linkVars == <<arch, image, rest, tables, object>>

X86 == arch = "x86_64"
(***************************************************************************)
(* The program: words in the order of their definition, each [name, list,  *)
(* inside, kind]: its name, the word whose wordlist it is in, whether it   *)
(* is in the new object, and what it is: a vocabulary, a colon definition  *)
(* with a DOES> ("does"), a word made by the newest of these ("child"), a  *)
(* VARIABLE or a buffer.  Word 1 is FORTH, in its own list; words of the   *)
(* base system come first.  near: the base system is near to the code.     *)
(*                                                                         *)
(* Without detached.fth headers, code and data lie together in SYS.CODE.   *)
(* With it the headers, and the vocabularies, are in WSPACE, of which no   *)
(* section is made, variables in ISPACE and buffers in USPACE; the spaces  *)
(* lie in the order in which detached.fth allots them.                     *)
(***************************************************************************)
words == image.words
Outside == "base"
Code == "SYS.CODE"
Spaces == <<Outside, "WSPACE", "USPACE", "ISPACE", Code>>
Sections == IF image.detached THEN <<Code, "ISPACE", "USPACE">> ELSE <<Code>>
Flags(sec) == CASE sec = Code -> 7 [] sec = "ISPACE" -> 2 [] sec = "USPACE" -> 4

Home(i, part) ==
  CASE ~words[i].inside -> Outside
    [] words[i].inside /\ ~image.detached -> Code
    [] words[i].inside /\ image.detached ->
         CASE part = "word" \/ words[i].kind = "vocabulary" -> "WSPACE"
           [] part # "word" /\ words[i].kind = "variable" -> "ISPACE"
           [] part # "word" /\ words[i].kind = "buffer" -> "USPACE"
           [] part # "word" /\ words[i].kind \in {"does", "child"} -> Code
InSection(i, part) == Home(i, part) \in ToSet(Sections)
Start(space) ==
  CASE space = Outside -> 1000 [] space = "WSPACE" -> 2000 [] space = "USPACE" -> 3000 [] space = "ISPACE" -> 4000 [] space = Code -> 5000
HomeOf(addr) == Spaces[addr \div 1000]
Addr(i, part) ==
  Start(Home(i, part)) + 10 * i + (CASE part = "word" -> 0 [] part = "body" -> 2 [] part = "does" -> 8)

Lists == {i \in DOMAIN words : \E j \in DOMAIN words : words[j].list = i}
ListsInOrder == SelectSeq([i \in DOMAIN words |-> i], LAMBDA i : i \in Lists)
(* The words of a list, the newest first, and the word before i in its list. *)
Members(l) == Reverse(SelectSeq([i \in DOMAIN words |-> i], LAMBDA i : words[i].list = l))
Before(i) == {j \in 1 .. i - 1 : words[j].list = words[i].list}

(* The references of the program: calls and addresses in code; and cells:  *)
(* the links, what headers run, the heads and the names of the wordlists.  *)
Ref(kind, at, to, part) == [kind |-> kind, at |-> at, to |-> to, part |-> part]
Inner == {i \in DOMAIN words : words[i].inside}
OfKind(kind) == {i \in DOMAIN words : words[i].kind = kind}
Parent(i) == Max({j \in OfKind("does") : j < i})
Compiled ==
  LET place(i, n) == 5200 + 40 * i + 8 * n
  IN {Ref("execute", place(i, 0), Parent(i), "does") : i \in OfKind("child")}
     \cup {Ref("execute", place(i, 1), i, "body") : i \in OfKind("does")}
     \cup UNION {{Ref("addr", place(i, 2), i, "word"), Ref("addr", place(i, 3), i, "body")} : i \in DOMAIN words}
     \cup {Ref("addr", 1500, Len(words), "word")}
Link(i) == Ref("cell", Addr(i, "word"), Max(Before(i)), "word")
Exec(i) == Ref("cell", Addr(i, "word") + 1, Parent(i), "does")
HeadOf(l) == Ref("cell", Addr(l, "body"), Members(l)[1], "word")
NameOf(l) == Ref("cell", Addr(l, "body") + 1, l, "word")
Headers(S) == {Link(i) : i \in {j \in S : Before(j) # {}}} \cup {Exec(i) : i \in S \cap OfKind("child")}
Tables == {HeadOf(l) : l \in Lists} \cup {NameOf(l) : l \in Lists}
Wanted == Compiled \cup Headers(Inner) \cup Tables
To(r) == Addr(r.to, r.part)

(***************************************************************************)
(* The lines the compiler prints (reloc-run.fth).                          *)
(***************************************************************************)
(* What it says of the code (compile.c): how far, and a lower part of 0.   *)
Status(r) ==
  LET far == Home(r.to, r.part) = Outside /\ ~image.near
  IN IF r.kind = "execute" THEN IF ~X86 /\ Home(r.to, r.part) = Code THEN 1 ELSE 0
     ELSE IF X86 THEN IF far THEN 0 ELSE 1
     ELSE IF far THEN 1 ELSE IF (To(r) - r.at) % Page = 0 THEN 3 ELSE 0

(* The word an address is in: the one with the nearest header before it,   *)
(* or a word whose body is nearer to the address than the header of the    *)
(* best so far, which is then that word's header, though.                  *)
RELOC_FIND(x) ==
  LET searched(i, j) == words[i].list < words[j].list \/ (words[i].list = words[j].list /\ i > j)
      all == SortSeq([i \in DOMAIN words |-> i], searched)
      by_header == Max({0} \cup {at \in {Addr(i, "word") : i \in DOMAIN words} : at <= x})
      nearer == [h \in Nat, i \in DOMAIN words |-> IF Addr(i, "body") \in h + 1 .. x THEN Addr(i, "word") ELSE h]
      found == FoldLeft(LAMBDA h, n : nearer[h, n], by_header, all)
  IN CHOOSE i \in DOMAIN words : Addr(i, "word") = found

Name(part, i) == [path |-> <<>>, part |-> part, name |-> words[i].name]
IsLocal(r) == InSection(r.to, r.part)
PartAt(i, x) ==
  IF Addr(i, "word") <= x /\ x < Addr(i, "body") THEN "word" ELSE IF x = Addr(i, "body") THEN "body" ELSE "does"
(* The line of a reference, for each word it may be named after.           *)
Line(op, r, part, local) ==
  [i \in DOMAIN words |->
     [op |-> op, at |-> r.at, word |-> Addr(i, "word"), name |-> Name(part, i),
      off |-> IF part = "does" THEN 0 ELSE To(r) - Addr(i, part),
      status |-> IF r.kind = "cell" THEN 0 ELSE Status(r), local |-> local]]
(* A call of the code of a word with a DOES> is named after what is found. *)
RELOC_COMPILE_EXECUTE(r) ==
  LET named == [i \in DOMAIN words |-> Line("RELOC-EXECUTE", r, PartAt(i, To(r)), IsLocal(r))[i]]
  IN named[IF r.part = "does" THEN RELOC_FIND(To(r)) ELSE r.to]
RELOC_COMPILE_ADDR(r) == Line("RELOC-ADDR", r, r.part, IsLocal(r))[r.to]
RELOC_RESOLVE(r, local) == Line("RELOC", r, r.part, local)[RELOC_FIND(To(r))]

InSomeOrder(print(_), S) == FoldSet(LAMBDA x, seq : Append(seq, print(x)), <<>>, S)
RefLines ==
  InSomeOrder(RELOC_COMPILE_ADDR, {r \in Compiled : r.kind = "addr"})
  \o InSomeOrder(RELOC_COMPILE_EXECUTE, {r \in Compiled : r.kind = "execute"})
Symbol(i, part, local) ==
  [op |-> "SYMBOL", at |-> Addr(i, part), word |-> Addr(i, "word"), name |-> Name(part, i), local |-> local]
DoesLines == InSomeOrder(LAMBDA i : Symbol(i, "does", FALSE), Inner \cap OfKind("does"))

AssocLines(l) ==
  LET entry(i, part) == [op |-> "WL-ASSOC:SYMBOL", word |-> Addr(i, "word"), name |-> Name(part, i)]
  IN FlattenSeq([n \in DOMAIN Members(l) |-> <<entry(Members(l)[n], "word"), entry(Members(l)[n], "body")>>])
     \o << [op |-> "WL-ASSOC:WORDLIST", word |-> Addr(l, "word"), name |-> words[l].name] >>

SectionLines(sec, table_lines) ==
  LET here == {i \in DOMAIN words : Home(i, "word") = sec}
      symbols(l, part) ==
        InSomeOrder(LAMBDA i : Symbol(i, part, TRUE), {i \in ToSet(Members(l)) : Home(i, part) = sec})
      mine(l) == symbols(l, "word") \o symbols(l, "body")
      newest(l) == SelectSeq(Members(l), LAMBDA i : i \in here)
      heads(l) == IF newest(l) = <<>> THEN <<>> ELSE << [op |-> "WL-END", name |-> words[newest(l)[1]].name] >>
      ends(l) == IF mine(l) = <<>> THEN <<>> ELSE << [op |-> "WORDLIST", name |-> words[l].name] >>
  IN << [op |-> "SECTION", name |-> sec, flags |-> Flags(sec)], [op |-> "LIMIT", start |-> Start(sec), end |-> Start(sec) + 1000] >>
     \o InSomeOrder(LAMBDA r : RELOC_RESOLVE(r, IsLocal(r)), Headers(here))
     \o table_lines
     \o FlattenSeq([n \in DOMAIN ListsInOrder |-> LET l == ListsInOrder[n] IN heads(l) \o mine(l) \o ends(l)])

AllLines ==
  LET table_lines == InSomeOrder(LAMBDA r : RELOC_RESOLVE(r, FALSE), Tables)
  IN RefLines \o DoesLines
     \o FlattenSeq([n \in DOMAIN ListsInOrder |-> AssocLines(ListsInOrder[n])])
     \o FlattenSeq([n \in DOMAIN Sections |-> SectionLines(Sections[n], table_lines)])

(* The compiler is done, and prints. *)
DO_RELOC ==
  /\ object.kind = "compiled"
  /\ rest' = AllLines
  /\ object' = [kind |-> "none"]
  /\ UNCHANGED <<arch, image, tables>>

(***************************************************************************)
(* obj.cpp reads a line: one action for each word of a line.               *)
(***************************************************************************)
NoTables ==
  [relocations |-> <<>>, local_symbols |-> {}, dup_symbols |-> {}, wl_assocs |-> <<>>, global_symbol_assoc |-> <<>>,
   wordlist_assoc |-> <<>>, wordlist_names |-> <<>>, csection |-> "", section_limits |-> <<>>,
   wl_end |-> "", names_export |-> <<>>]

Mismatch(t, at, r) == at \in DOMAIN t.relocations /\ t.relocations[at] # r
add_relocation(t, at, r) == [t EXCEPT !.relocations = (at :> r) @@ @]
Relocation(line, addend, type) ==
  [name |-> line.name, addend |-> addend, type |-> type, word |-> line.word, l |-> line.local]
(* .L labels of AUIPC, and the instruction after it that refers to one.    *)
Label(n) == [path |-> <<>>, part |-> "label", name |-> ToString(n)]
lnext(t, at) ==
  LET n == Cardinality(t.local_symbols) + 1
      low == [name |-> Label(n), addend |-> 0, type |-> "PCREL_LO12_I", word |-> 0, l |-> TRUE]
  IN add_relocation([t EXCEPT !.local_symbols = @ \cup {[name |-> Label(n), at |-> at]}], at + 4, low)

Reads(op) == object.kind = "none" /\ rest # <<>> /\ rest[1].op = op
line == rest[1]
Read(t) == tables' = t /\ rest' = Tail(rest) /\ UNCHANGED <<arch, image, object>>
Give(at, r, t) ==
  IF Mismatch(tables, at, r)
  THEN object' = [kind |-> "failed"] /\ UNCHANGED <<arch, image, rest, tables>>
  ELSE Read(add_relocation(t, at, r))

reloc_execute ==
  /\ Reads("RELOC-EXECUTE")
  /\ IF X86 THEN Give(line.at + 1, Relocation(line, line.off - 4, "PC32"), tables)
     ELSE Give(line.at, Relocation(line, line.off, IF line.status = 0 THEN "CALL" ELSE "JAL"), tables)

reloc_addr ==
  /\ Reads("RELOC-ADDR")
  /\ IF X86 THEN Give(line.at + 3, Relocation(line, line.off - 4, IF line.status = 0 THEN "GOTPCREL" ELSE "PC32"), tables)
     ELSE Give(line.at, IF line.status = 1 THEN Relocation(line, 0, "GOT_HI20") ELSE Relocation(line, line.off, "PCREL_HI20"),
               IF line.status = 3 THEN tables ELSE lnext(tables, line.at))

reloc == Reads("RELOC") /\ Give(line.at, Relocation(line, line.off, "CELL"), tables)

symbol ==
  /\ Reads("SYMBOL")
  /\ Read([tables EXCEPT !.dup_symbols = @ \cup {[name |-> line.name, at |-> line.at, word |-> line.word, l |-> line.local]}])

wl_assoc_symbol ==
  /\ Reads("WL-ASSOC:SYMBOL")
  /\ Read([tables EXCEPT !.wl_assocs = Append(@, [name |-> line.name, word |-> line.word])])

(* A mutant: the oldest word of a name taken for the global one. *)
FirstOfLast(assocs, n) == CHOOSE a \in ToSet(assocs) : a.name = n /\ \A b \in ToSet(assocs) : b.name = n => a.word <= b.word
FirstOf(assocs, n) == assocs[Min({k \in DOMAIN assocs : assocs[k].name = n})]
wl_assoc_wordlist ==
  LET assocs == tables.wl_assocs
      names == {a.name : a \in ToSet(assocs)}
      gsym == [k \in {<<n, line.word>> : n \in names} |-> FirstOf(assocs, k[1]).word]
  IN /\ Reads("WL-ASSOC:WORDLIST")
     /\ Read([tables EXCEPT !.wordlist_names = (line.word :> <<line.name>>) @@ @,
                            !.global_symbol_assoc = @ @@ gsym,
                            !.wordlist_assoc = [w \in {a.word : a \in ToSet(assocs)} |-> line.word] @@ @,
                            !.wl_assocs = <<>>])

section ==
  /\ Reads("SECTION")
  /\ Read([tables EXCEPT !.csection = line.name,
                         !.section_limits = [s \in DOMAIN @ \cup {line.name} |->
                            IF s = line.name THEN [flags |-> line.flags, start |-> 0, end |-> 0] ELSE @[s]]])

limit ==
  /\ Reads("LIMIT")
  /\ Read([tables EXCEPT !.section_limits[tables.csection].start = line.start,
                         !.section_limits[tables.csection].end = line.end])

wordlist_end == Reads("WL-END") /\ Read([tables EXCEPT !.wl_end = line.name])

wordlist ==
  /\ Reads("WORDLIST")
  /\ Read([tables EXCEPT !.names_export = IF tables.wl_end = "" THEN @ ELSE (line.name :> tables.wl_end) @@ @,
                         !.wl_end = ""])

(***************************************************************************)
(* obj.cpp writes the object file.                                         *)
(***************************************************************************)
(* The path of a wordlist: the lists it is in, up to FORTH, and its name.  *)
qualify_wordlist_name(names) ==
  LET assoc == tables.wordlist_assoc
      forth == {a \in DOMAIN names : names[a] = <<"FORTH">> /\ a \in DOMAIN assoc /\ assoc[a] = a}
      q[a \in DOMAIN names] ==
        IF a \in DOMAIN assoc /\ assoc[a] # a /\ assoc[a] \notin forth THEN q[assoc[a]] \o names[a] ELSE names[a]
  IN q
(* Wordlists are qualified first, and then again for the names in them.    *)
Paths == qualify_wordlist_name(qualify_wordlist_name(tables.wordlist_names))
Qualified(name, word) ==
  LET assoc == tables.wordlist_assoc
  IN IF word \in DOMAIN assoc /\ assoc[word] # word THEN [name EXCEPT !.path = Paths[assoc[word]]] ELSE name

in_any_section(at) ==
  LET S == {s \in DOMAIN tables.section_limits :
              tables.section_limits[s].start <= at /\ at < tables.section_limits[s].end}
  IN IF S = {} THEN "none" ELSE CHOOSE s \in S : TRUE

QSymbols == {[s EXCEPT !.name = Qualified(s.name, s.word)] : s \in tables.dup_symbols}
(* The newest word of each name in each wordlist. *)
QGlobals ==
  LET gsym == tables.global_symbol_assoc
      newest == {[name |-> Qualified(k[1], gsym[k]), word |-> gsym[k]] : k \in DOMAIN gsym}
  IN {s \in QSymbols : [name |-> s.name, word |-> s.word] \in newest}
QRelocations ==
  LET all == tables.relocations
      kept == {at \in DOMAIN all : in_any_section(at) # "none"}
  IN [at \in kept |-> [all[at] EXCEPT !.name = Qualified(@, all[at].word)]]
Undefined(relocations, symbols) ==
  {[name |-> r.name, word |-> r.word] : r \in {q \in Range(relocations) : q.name \notin {s.name : s \in symbols}}}

(* A symbol of the object file, with the key relocations find it by.       *)
Sym(name, word, l, at, global) ==
  [name |-> name, word |-> word, l |-> l, global |-> global,
   section |-> in_any_section(at),
   value |-> IF in_any_section(at) = "none" THEN 0 ELSE at - tables.section_limits[in_any_section(at)].start]
SymbolTable(symbols, globals, undefined) ==
  LET names == {g.name : g \in globals}
  IN {Sym(s.name, 0, TRUE, s.at, FALSE) : s \in {t \in tables.local_symbols : in_any_section(t.at) # "none"}}
     \cup {Sym(s.name, s.word, TRUE, s.at, FALSE) : s \in {t \in symbols : t.l}}
     \cup {Sym(s.name, s.word, FALSE, s.at, TRUE) : s \in {t \in symbols : ~t.l /\ t.name \notin names}}
     \cup {Sym(s.name, s.word, FALSE, s.at, TRUE) : s \in globals}
     \cup {Sym(u.name, u.word, FALSE, 0, TRUE) : u \in undefined}

Found(table, name, word, l) == {s \in table : s.name = name /\ s.word = word /\ s.l = l}
(* The symbol a relocation names: by its word, else the global one.        *)
SymbolFor(table, globals, r) ==
  IF Found(table, r.name, r.word, r.l) # {} THEN Found(table, r.name, r.word, r.l)
  ELSE IF r.l THEN Found(table, r.name, r.word, FALSE)
  ELSE UNION {Found(table, r.name, g.word, r.l) : g \in {s \in globals : s.name = r.name}}

(* Sections in the order of their names; those of code and data have bytes. *)
SectionHeaders ==
  {[name |-> s, type |-> IF (tables.section_limits[s].flags % 4) # 0 THEN "PROGBITS" ELSE "NOBITS",
    size |-> tables.section_limits[s].end - tables.section_limits[s].start] : s \in DOMAIN tables.section_limits}

save_obj ==
  LET relocations == QRelocations
      symbols == QSymbols
      globals == QGlobals
      table == SymbolTable(symbols, globals, Undefined(relocations, symbols))
      found == [at \in DOMAIN relocations |-> SymbolFor(table, globals, relocations[at])]
      rela == {[section |-> in_any_section(at), offset |-> at - tables.section_limits[in_any_section(at)].start,
                type |-> relocations[at].type, addend |-> relocations[at].addend, symbol |-> CHOOSE s \in found[at] : TRUE] :
               at \in DOMAIN relocations}
  IN /\ object.kind = "none" /\ rest = <<>>
     /\ object' = IF (\E at \in DOMAIN found : found[at] = {}) \/ \E s \in symbols : in_any_section(s.at) = "none"
                  THEN [kind |-> "failed"]
                  ELSE [kind |-> "object", sections |-> SectionHeaders, symbols |-> table, rela |-> rela,
                        heads |-> tables.names_export]
     /\ UNCHANGED <<arch, image, rest, tables>>

LinkerInit ==
  /\ arch \in {"x86_64", "riscv"}
  /\ image \in Images
  /\ rest = <<>>
  /\ tables = NoTables
  /\ object = [kind |-> "compiled"]

LinkerNext ==
  \/ DO_RELOC
  \/ reloc_execute \/ reloc_addr \/ reloc \/ symbol \/ wl_assoc_symbol \/ wl_assoc_wordlist
  \/ section \/ limit \/ wordlist_end \/ wordlist \/ save_obj

(***************************************************************************)
(* What a linker makes of the object (external): the code stays in whole   *)
(* pages, the data move, and the names of the base system are its words.   *)
(***************************************************************************)
New(addr, move) ==
  CASE HomeOf(addr) \notin ToSet(Sections) -> addr
    [] HomeOf(addr) = Code -> addr + 64 * Page
    [] HomeOf(addr) \in ToSet(Sections) \ {Code} -> addr + 64 * Page + move
BaseWord(name) == {i \in DOMAIN words \ Inner : \E part \in {"word", "body", "does"} : Qualified(Name(part, i), Addr(i, "word")) = name}
ValueOf(s, move) ==
  IF s.section = "none" THEN Addr(CHOOSE i \in BaseWord(s.name) : TRUE, s.name.part)
  ELSE New(tables.section_limits[s.section].start + s.value, move)

Place(q) == tables.section_limits[q.section].start + q.offset
RelaAt(at) == {q \in object.rela : Place(q) = at}
Field(r) == IF r.kind = "cell" \/ ~X86 THEN r.at ELSE IF r.kind = "execute" THEN r.at + 1 ELSE r.at + 3
(* The lower part of an address that AUIPC began at "at". *)
Completed(at) == \E q \in RelaAt(at + 4) : q.type = "PCREL_LO12_I" /\ Place([q EXCEPT !.section = q.symbol.section, !.offset = q.symbol.value]) = at
Reached(r, move) ==
  LET q == CHOOSE x \in RelaAt(Field(r)) : TRUE
      s == ValueOf(q.symbol, move)
      pc == New(r.at, move)
  IN CASE q.type \in {"CELL", "CALL", "JAL"} -> s + q.addend
       [] q.type = "PC32" -> s + q.addend + 4
       [] q.type = "GOTPCREL" -> IF q.addend = -4 THEN s ELSE -1
       [] q.type \in {"GOT_HI20", "PCREL_HI20"} ->
            IF Completed(r.at) THEN s + q.addend ELSE pc + Page * ((s + q.addend - pc + Page \div 2) \div Page)

(* The word a reference to i means in the object: a word of the base whose *)
(* name the object has again cannot be told from the newer one (obj.cpp).  *)
Again(i, part) ==
  {j \in Inner : /\ words[j].name = words[i].name /\ words[j].list = words[i].list
                 /\ InSection(j, part) /\ (part = "does" => words[j].kind = "does")}
Meant(i, part) == IF i \in Inner \/ Again(i, part) = {} THEN i ELSE Max(Again(i, part))

Kept(r) == in_any_section(Field(r)) # "none"
Lost(r) == r.part = "does" /\ r.to \notin Inner /\ Again(r.to, "does") # {}
(* With detached headers: there is no section with the header, and the     *)
(* code behind a DOES> is found in a wrong word.                           *)
Dropped(r) == r.to \in Inner /\ ~InSection(r.to, r.part)
Misnamed(r) == image.detached /\ r.part = "does" /\ r.to \in Inner

(* Every call, address and cell of the program reaches, wherever the       *)
(* linker puts the sections, the word it was compiled for, or the newer    *)
(* word of the object with that name; obj.cpp fails only for the DOES> of  *)
(* a word that is defined again.  An address that lies in whole pages from *)
(* its instruction has no lower part to move it by (compile.c).  With      *)
(* detached headers the headers and the DOES> of the object are left out.  *)
RelocationsResolve ==
  /\ object.kind = "failed" => \E r \in Wanted : Kept(r) /\ (Lost(r) \/ Misnamed(r))
  /\ object.kind = "object" =>
       \A r \in {x \in Wanted : Kept(x) /\ ~Dropped(x) /\ ~Misnamed(x)}, move \in Moves :
         LET target == Addr(Meant(r.to, r.part), r.part)
             whole == ~X86 /\ Status(r) = 3 /\ r.kind = "addr"
         IN \/ Reached(r, move) = New(target, move)
            \/ whole /\ (New(target, move) - New(r.at, move)) % Page # 0

(* The code behind a DOES> has the name does$ and the word it is in        *)
(* (example/reloc/fmain.fth): a call of it is linked to that symbol.       *)
DoesNamed ==
  object.kind = "object" =>
    \A r \in {x \in Compiled : x.part = "does" /\ x.to \in Inner} :
      \A q \in RelaAt(Field(r)) : q.symbol.name = Qualified(Name("does", r.to), Addr(r.to, "word"))
=============================================================================
