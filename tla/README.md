# A verification project for smolforth

smolforth is a Forth in m4, C and Forth for x86_64 and RISC-V. A small
compiler is built from m4 and C (`core/`, `arch/`), compiles the rest of itself
(`*.fth`), and either runs under an operating system or is linked into a kernel
of its own (`example/os0` to `os2`). This directory holds TLA+ models of the
parts of it that keep state over many steps, the TLC runs that check them, and
proofs of what matters most about them.

Paths are relative to the root of the repository.

## The system

| component | source | state | operations | module |
|---|---|---|---|---|
| Block buffers | `block.fth`, `core/BLOCK_OP.c`, `example/os2/ramblock.fth` | `BUFFER-ASSOC`, `BUFFER-FLAGS`, `BUFFERS`, `BUFFER-I`; mass storage | `BLOCK`, `BUFFER`, `UPDATE`, `FLUSH`, `SAVE-BUFFERS`, `EMPTY-BUFFERS`, restart | `BlockBuffers`, `BlockStore` |
| Console input of os2 | `example/os2/ring.fth`, `uart.fth`, `plic.fth`, `fmain.fth` | the UART's receiver, the interrupt, `QUEUE`, `MEPC`, `M-ENV-WFI`, `UART:EKEY-WFI` | interrupt handler, `EKEY`, `EKEY?` | `Ring`, `Console` |
| Key words | `facility.fth`, `example/os2/uart.fth` | `KEY-EVENT`, the line `ACCEPT` reads | `KEY?`, `KEY`, `ACCEPT` | `Keyboard` |
| Heap of os2 | `example/os2/memory.fth` | a doubly linked list of blocks in `ALLOCATION-AREA` | `ALLOCATE`, `FREE`, `RESIZE`, `INIT-ALLOCATION-AREA` | `Heap`, `Allocator` |
| Interpreter and input source | `core/EVALUATE.m4`, `SAVE_INPUT.m4`, `RESTORE_INPUT.m4`, `REFILL.m4`, `QUIT.m4`, `CATCH.m4`, `THROW.m4`, `file.fth`, `block.fth` | `SOURCE-ID`, `BLK`, `LINE-PTR`, `>IN`, `LINE-BUFFER`, open files, nested saved inputs | `EVALUATE`, `INCLUDE`, `LOAD`, `REFILL`, `THROW`, end of a source | `InputSource` |
| Control flow and loops | `case.fth`, `do.fth`, `arch/*/cs.c`, `arch/*/core/IF.c` and its neighbours | the control-flow stack of the compiler; loop cells on the return stack | `IF` to `LEAVE`, `CASE`, `DO`, `CS-PICK`; `LOOP`, `+LOOP`, `LEAVE` as they run | `ControlFlow`, `Arithmetic` |
| Code generators | `arch/*/compile.c`, `plt.c`, `asmgen_*.h` | `HERE`; the tables of exported words | compile a number, an address, a call; every instruction | `RiscV`, `X86`, `NativeCode` |
| Optimizer | `asm/rv-optim.fth` | the sequence of stack words and where its code began | `QUEUE`, `OPTIMIZE` | `Optimizer`, `Compiler` |
| Search order, wordlists, `MARKER` | `search.fth`, `core/find_impl.c`, `arch/*/make_word.c` | the array of wordlists with `CURRENT` in its last cell, the words and their links | `FIND`, `:`, `;`, `CREATE`, `SET-ORDER`, `ALSO`, `PREVIOUS`, `DEFINITIONS`, `MARKER` | `SearchOrder`, `Dictionary` |
| Numbers, double cells | `double/`, `arch/riscv/core/*_slash_*.c` | the data stack; digits of a bignum | `UM/MOD`, `FM/MOD`, `SM/REM`, `*/`, `M*/`, the bignum library | `Bignum`, `Arithmetic` |
| Relocatable output | `reloc-setup.fth`, `reloc-run.fth`, `reloc/obj.cpp`, `make-elf-writable.c` | recorded references, tables of words, symbols and relocations; an ELF file | write an object file, link it, make its segments writable | `Linker`, `ElfWritable`, `ObjectFile` |
| Files of os2 | `example/os2/file.fth`, `memfile.fth` | a file's position | `READ-LINE`, `REPOSITION` | not modelled |
| Core words, strings, floats, host files, editor, os0, os1, build scripts | the rest | little or none | | not modelled, see below |

How they interact. The interpreter takes words from the input source; `LOAD`
and `REFILL` bring in a block buffer, `INCLUDE` a file. On os2, `ACCEPT` and
`KEY` are environment calls into the trap handler, which shares the ring with
the interrupt handler; `ramblock.fth` takes the place of `BLOCK_OP.c` and
`memory.fth` that of the C library's allocator. Exceptions (`CATCH`, `THROW`)
cut through all of them and leave whatever state stood at that moment. A word
the interpreter compiles goes through the code generators; the words of
`ControlFlow` write jumps between that code, and tell the optimizer by a counter
(`CSRI`) that they did. What was compiled, with the wordlists, is what the
relocatable output prints, and `obj.cpp` turns it into an object file.

What is hard here. There is one hart and no threads, so concurrency is only
between the hardware, the interrupt handler and the program (`Console`). The
rest is hard by protocol: exceptions in the middle of a word (`BlockBuffers`,
`InputSource`), caches of one kind over another (block buffers over files, one
line buffer for all nested files), lists in raw memory (`Heap`, `Dictionary`),
state left from one call to the next (`KEY-EVENT`, `BUFFER-I`, `START`), code that
is written again later (`THEN`, `OPTIMIZE`), and numbers at the ends of their
width (`Arithmetic`, `NativeCode`). `PROJECT.json` lists the hazards at their
lines.

## The modules

`MC*` modules instantiate a module for TLC. A definition named "a mutant" in its
comment is a plausible bug: no action uses it, and it serves to show that a
property depends on the definition below it.

### BlockBuffers and BlockStore

`assoc`, `flag`, `data`, `cur` are the arrays and variables of `block.fth`, by
index; `disk` is mass storage. `BLOCK(n)` and `BUFFER(n)` find their buffer the
way `?BUFFER` does (a hit, else a free buffer, else the one after the current),
save what was in it, and read. Where `BLOCK-OP` throws (`throws`, as `ramblock.fth` does and
the files do not), the word stops at that line and keeps what it had already changed. `scratch` remembers which
buffers hold contents nobody marked, `open` whether the program may still write
where it was last told. `BlockStore` is what a program is promised: a block's
UPDATEd contents are pending until written, and only `EMPTY-BUFFERS` or the end
of the process drops them. `ImplementsBlockStore` is the refinement: `stable` is
the disk, `pending` the contents of marked buffers.

### Ring, Console, Keyboard

`Ring` is `ring.fth` as operators. `Console` has one action for each step of the
machine at which something else can happen: a character arrives (`Type`), the
PLIC raises the interrupt (`Raise`), the handler claims, reads, pushes and
completes (`CLAIM`, `GETCHAR`, `PUSHCHAR`, `COMPLETE`), and the environment calls
`EKEY` and `EKEY_question`, which run with interrupts off and are therefore one
step. `EKEY` on an empty ring parks the program in `INFINITE-LOOP` and arms the
wake-up that `PUSHCHAR` fires. `Keyboard` adds the words on top, each a loop of
environment calls between which characters keep coming. A character is its
number in typing order, so order and loss can be stated; its kind says what a
word does with it. After a control-C, `CHECK-INT` has used up its flag when the `IF` of
`ABORT"` looks for one, and takes a cell of the caller. The caller's cells are not in the model: `CHECK_INT` has both
outcomes, the word ends (the cell was not 0) or it goes on asking (the cell was 0).

### Heap and Allocator

The heap's unit is the cell. `blk` gives the header at each cell where a block
begins; `Split`, `MergeRight` and `MergeLeft` are the list surgery of
`SPLIT-ALLOCATE`, `MERGE-RIGHT` and `MERGE-LEFT`. `mem` says what each cell was last
written with, so that a header written over a block's contents shows. The
program fills what it gets and goes by the addresses it is told. `Allocator` is
the promise: blocks that do not touch, until freed or resized.

### InputSource

`act` is the nesting of `QUIT`, `EVALUATE`, `INCLUDE` and `LOAD`, with what
`SAVE-INPUT` pushed for each. A line is known by its source and number, so
`Content(ptr)` is what `LINE-PTR` really points at: `LINE-BUFFER`, a string, or
whatever block is in a buffer now. `reading` remembers the line the interpreter
took up. `REFILL` inside a block moves to the next block; an exception unwinds
one level per step (`Unwind`), is thrown again by `EVALUATE` and `INCLUDE`, dropped
by `LOAD` and ended by a `CATCH` around the word. A nested file is never closed,
so the open files run out (`INCLUDEFails`).

### Bignum and Arithmetic

`Bignum` has the functions of `v_bignum.c.c` on sequences of digits, as operators;
a result is cut to its number's length where the C code cuts it. `Arithmetic`
is a program that calls, one after the other, the words that divide and the
words a counted loop calls, on a data stack and a return stack of cells of
`Width` bits. `call` remembers what the last word met, so that what it left can
be compared with the integers. Cells are unsigned, the signs of the C code are
conversions, and sums wrap.

### RiscV, X86, NativeCode

`RiscV` and `X86` are the assemblers: an instruction word as its bits or bytes,
and what a processor reads in them. `NativeCode` is what a number, an address
and a call are compiled to, with the tables of exported words through which far
ones are reached; `Exec` is the processor, and the properties run the compiled
code. A cell has 2 * `Half` bits and the immediates keep their proportions, so
every case of `compile.c` occurs: near and far, lower part zero, upper part zero,
negative, a call through a stub.

### ControlFlow, Optimizer, Compiler

`ControlFlow` has the words that compile jumps, on both processors. `mem` holds
the jumps by address, `cs` the control-flow stack with the marks of `CASE` and `DO`.
Beside it, `open` and `jumps` say what the program means: the structures that
are open, and for each jump where it has to go. `Optimizer` is `rv-optim.fth`:
`START`, `EXP`, `CSG` and `SEQUENCE` as they are there, `code` up to `HERE`; `OPTIMIZE` is
one step, a fold of the words over numbered cells and the loads and stores that
follow. The numbers lie on the compiler's own data stack, so `Foreign` cells lie
beneath them. `Compiler` puts these and `NativeCode` side by side.

### Linker, ElfWritable, ObjectFile

A program (`Images`) is a few words with their wordlists, some of the base system
and some new. `Home` says where a word's parts lie: all in `SYS.CODE`, or, when
`detached.fth` was loaded, headers and vocabularies in `WSPACE`, variables in `ISPACE`, buffers in
`USPACE` and code in `SYS.CODE`, one after the other as that file allots them (`Spaces`). No
section is made of `WSPACE`, so that the object has no headers of these words; `RelocationsResolve` is stated
of what it has, and of calls of the code behind a `DOES>` only without detached headers. `DO_RELOC` generates the lines that `reloc-run.fth` prints for it: a
call or an address the compiler knows is named after its word, a cell and the
code behind a `DOES>` after the word `RELOC_FIND` finds for the address. The
actions of `obj.cpp` read them one per step into the tables of `obj.cpp`, names the words by the paths of
their wordlists and writes symbols and relocations. `ld`, which is not part of
the repository, is modelled by what the relocation types mean: it moves the
sections and adds. `ElfWritable` is `make-elf-writable.c`, one step per section it is asked
for, with each test of the file's size: the program headers, the section headers,
the table of names, a name in it. `Elf_Words` is the number of values of a word of an ELF file, since the
size of a section is cut to one in both classes. `ObjectFile` composes the two: the
tool runs on what was linked, in each of the orders a linker may put the tables in (`Layouts`).

### SearchOrder and Dictionary

`Dictionary` keeps the words by their place in memory, each with its link, the
wordlists with their newest word, and the array of the search order with
`CURRENT` in the last cell. `:` links a word when it begins and `;` enters it.
`spoilt` remembers which contracts the program broke (a word made or `CURRENT`
changed inside a definition, a `SYNONYM` of no word, too many wordlists, a marker
that leaves a list alone), so that each property can say what still holds then;
`entered` is what a reader of the program would expect the lists to hold.
`SearchOrder` is the promise of the words of the search order: a sequence of at
most `Limit` wordlists, and the one new definitions go to.

## The runs

| run | question | bounds |
|---|---|---|
| `blocks` | does any order of words, evictions and restarts lose or misplace an UPDATEd block, on files and where `BLOCK-OP` throws in the middle of a word? | 2 buffers, 4 block numbers, one not storable, 2 contents |
| `block_out_of_range` | is a bad block number refused every time? (no) | 2 buffers, 3 numbers |
| `keys` | are keys lost, reordered or made up, does `KEY?` wait, does a waiting program wake? | a ring of 2 cells, a receiver of 2, 3 characters, `ACCEPT` of 2 |
| `heap` | does the list stay sound, free space merged, contents intact? | 20 cells, headers of 2, 3 blocks, requests of 0 to 3 cells |
| `heap_resize` | does `RESIZE` return a block? (no) | 16 cells, the rest the same |
| `input` | does the interpreter go on where it left, with the right source? | a file of 3 lines that may include itself, a string, 3 blocks, 2 sources nested in `QUIT`, 3 open files, 2 words a line |
| `input_nested` | the same when `LOAD` may take the buffer of a block that is still being loaded (no) | the same |
| `arithmetic` | do the dividing words, the loop words and the bignum library agree with the integers? | cells of six bits, digits of two; operands at the ends and in the middle |
| `compile` | do jumps land where their structure says, is what was compiled what was meant, and does the optimizer keep the meaning? | six control-flow words, three open structures; cells of 20 bits; six stack words and labels with four registers |
| `link` | does every reference of a program reach its word after linking? does the tool make writable what it was asked for? | 384 programs of five words, with and without detached headers, 2 processors, data moved by 0, 32 and 40; 45 layouts of file |
| `does_name` | is a call of the code behind a `DOES>` named after its word? (no) | the same |
| `wordlists` | does `FIND` find the newest word, does it end, is the order what the words say? | an order of 4 cells, 3 new words, one name |

Why the bounds are enough. Two buffers are the fewest between which a program
can copy, and four numbers give hits, free buffers, evictions of marked and
unmarked buffers and an unwritable one. A ring of two cells holds one byte, so
three characters fill the ring and the receiver, overflow both and go around;
the proofs cover every size. Twenty cells hold three blocks and the free
stretches between and behind them: each of the cases of `FREE` (free space to the
left, to the right, on both sides, on neither) occurs, and so does a full heap.
Three blocks over two buffers make `LOAD` and `REFILL` evict; two nested sources
give every pair of kinds. `LOAD` takes no buffer that is still being loaded from in
`input`, so that the other properties can be stated; `input_nested` drops that.

Cells of six bits have every combination of signs, carries through three digits
and both ends of the range, and a program in `arithmetic` goes on with what the
words before left. In `compile`, six words are enough to close three structures
one in another and to have a `LEAVE` in a `CASE` in a loop; the bodies of 4084 and
4092 bytes put a branch on both sides of its reach. Four registers instead of
fifteen let a sequence of six words fill them, go beyond them and begin again,
and three cells are the most a stack word looks at. Five words make every case of
`link`: a wordlist in a wordlist, a name defined twice in one list or in two, in
the base and in the object, a word made by a defining word of either; moving the data by 40 is moving them by no whole
number of pages. The four cells of `wordlists` hold two lists that are counted, so
an order can be empty, full or too long.

`wordlists` names three more bounds in the module: `SET-ORDER` is given no wordlist,
or any list followed by `FORTH`; a program is not followed after a marker or an
overlong order broke its contract, or after a second contract was broken; memory
given back is cleared when no list leads there.

Fairness is assumed in `keys` only. The PLIC passes a request on (`Hardware`), the
hart runs its handler to the end (`Trap`), and a word that has begun goes on
(`InWord`): the handler has interrupts off and no loop that waits, and nothing
else runs on the hart. All are weak: none of these steps is disabled again and
again, and nobody has to type or to call a word. The other modules state no
fairness: their programs may stop at any time, and nothing in them waits.

`heap`, `keys`, `input` and the runs of the compiler's parts do not check for
deadlock: the heap's program stops when misled, the console's when everything is
typed and the program is parked, the interpreter's at the end of its file, the
compiler's at a bound or when the compiler has stopped, the linker's tools when
they are done.

## What the code does otherwise than it says

Runs that show a disagreement:

- `block_out_of_range`: `?BUFFER` assigns the buffer before the read throws
  (`block.fth:37`), so the second `BLOCK` of a number out of range succeeds.
- `heap_resize`: `RESIZE` frees first. It returns a freed address both when it
  fails and when the block moves (`example/os2/memory.fth:178-181`).
- `input_nested`: a block that loads two others goes on in the wrong text
  (`block.fth:97`).
- `does_name`: with detached headers a call of the code behind a `DOES>` is named after
  the last detached word that is searched before the address, the oldest of its list
  (`reloc-run.fth:162-177`); `obj.cpp` then fails, or links the call to a wrong word.

Met while modelling, and left out of the models:

- Block 0 cannot be told from a free buffer (`block.fth:8`, `block.fth:33`): `BLOCK`
  of 0 is a hit in a free buffer and reads nothing. The models use numbers
  from 1, and `ramblock.fth` accepts 0.
- `KEY?` called again overwrites a key it holds, and `ACCEPT` passes a held key by
  (`facility.fth:19`). The program of `Keyboard` calls `KEY` next.
- A request whose sum with a header wraps is granted (`memory.fth:27`). The
  perfect-fit branch (`memory.fth:47`) is never taken, since the search asks for
  more room than a perfect fit has. A block that moves in `RESIZE` after merging
  to the left may have the new rest's header written over its contents before
  `MOVE` (`memory.fth:179-181`).
- Control-C in `KEY?` and `KEY`: `CHECK-INT` has used up its flag when the `IF` that
  `ABORT"` compiles takes one (`facility.fth:8-12`, `string/string-code.fth:97`). A cell of the
  caller decides: control-C ends the word if it is not 0, and is dropped, with the
  cell, if it is. `Keyboard` has both outcomes, and not the caller's stack.
- `LOAD` swallows exceptions and leaves two cells on the stack (`block.fth:96`,
  marked TODO). A `BLOCK` that throws inside `LOAD` leaves `SOURCE-ID` and `BLK` of
  the block to a `CATCH` around it (os2).
- `REFILL` from the terminal does not reset `>IN` (`core/REFILL.m4:81-97`; os2 has
  a `REFILL` of its own that does), leaves two cells when `ACCEPT` throws, and a last
  line with no end of line is dropped.
- `INCLUDE` never closes its file (`file.fth:19`).

Found by the properties of the compiler's parts, which state what holds besides:

- The bignum library compares numbers of different lengths one digit short. Its
  power ("x raised to the y:th power modulo n", `double/v_bignum.h.h:119`) is right for
  moduli from 2 and a base of no more digits than the modulus: a longer base is
  squared before anything reduces it, the square has more digits than `mu` is made for, and
  the reduction cuts off a quotient that is too small (`double/v_bignum.c.c:661`, `:786`). With digits
  of 32 bits 2^32 to the second modulo 3 comes out as 0. `PowersRight` is stated with this. Signed overflow, which C leaves
  undefined, is taken to wrap, as it does in the build's code.
- A remainder by a divisor of as many digits with its highest bit set loses its own
  highest bit (`double/v_bignum.c.c:583-587`): with one digit of 16 bits, 0x8000 by
  0xFFFF leaves 0. The quotient is right. `LibraryRight` divides by numbers of as many
  digits too and names this exception; `M*/` divides three cells by one and never
  meets it.
- `M*/` gives the lowest double cell for a negative product that rounds to zero,
  since a quotient that lost its only bit is told from zero by the operands
  (`double/M_star_slash.c:63`): `-1. 1 2 M*/`. `ScaledRight` names this.
- RISC-V: a number whose high half is all ones and whose low half is not negative
  loses its high half (`arch/riscv/compile.c:9`); a call of exactly 2^20 bytes
  forward goes backward (`compile.c:126`); the test of 32 bits admits twice what the
  instructions reach; `upper != -1` and `g != -1` are always true, so the address of an
  unknown far word is loaded from nowhere (x86 gives up instead). `HERE` begins eight
  times further behind the tables than they are long (`plt.c:140-142`).
- x86: the wrong REX bit is set for the register of `MOVQ`, and `MOV_IMM64` always
  loads RBX: both are right for the one register the compiler uses.
- A `LEAVE` between `CASE` and `ENDCASE` in a loop lands behind `ENDCASE`, with the cells
  of the loop already dropped: both mark their place with 2 (`case.fth:1`,
  `arch/riscv/cs.c:56`). `BranchesLand` is stated with this.
- The optimizer has fifteen registers. Fifteen `DROP`s in a row, or thirteen `DUP`s
  after a `ROT`, stop the compiler with INVALID REGISTER, and a `ROT` after thirteen
  `DROP`s permutes the compiler's own cells, the control-flow stack among them
  (`asm/rv-optim.fth:129`). `OptimizedRight` leaves sequences like these out. `PUSH`
  would write a sixteenth word behind `SEQUENCE`, but `OPTIMIZE` begins again at fifteen.
- Linking: a word of the base system that the object defines again is linked to
  the new one, in the new one's own definition too (`reloc/obj.cpp:503`); when the old
  one has a `DOES>` and the new one too, an assertion fails. An address in whole
  pages from its instruction has no lower part (`compile.c:100`) and is wrong when
  the linker moves the sections by less. The first global symbol is counted too
  late by the `DOES>` symbols, two defining words of one name give two global
  symbols, and the body of a detached word has no relocation. `RELOC-FIND` compares distances
  as signed numbers (`reloc-run.fth:154`), and finds nothing for an address in the upper half of memory.
- `make-elf-writable` refuses a whole file that ends with its table of names
  (`make-elf-writable.c:81`, `:123`), which `WritableRight` names. It passes over a segment that ends where the section ends (line
  134), refuses a file when a name asked for is longer than what follows the name of an
  earlier section in the file (line 126), changes only the first section that begins with a name, and reports success
  for a file of unknown class.
- Wordlists: a word made, or `CURRENT` changed, between `:` and `;` loses words
  (`make_word.c:47`); `SYNONYM` of no word leaves the newest word of the first list
  hidden, and does not find that word itself when `CURRENT` is another list;
  `SET-ORDER` of fifteen wordlists writes a cell that is never cleared and of sixteen
  replaces `CURRENT` (`search.fth:28`); a marker leaves the lists that are not in the
  order, the order and `CURRENT` alone, so that a later definition there may link to
  itself and a search never ends (`search.fth:194`); `PREVIOUS` with an empty order
  moves a huge number of cells.

## Proofs

The proofs are for every value of the constants that their assumptions admit; a
hypothesis beyond those is named below. In each module one conjunction is
inductive, and the properties follow from it.

`BlockBuffers_proofs` proves all properties of the run `blocks`, for any number of
buffers, any sets of blocks and contents and both kinds of mass storage, from the
assumptions on the constants alone (`LastBufferSurvives` needs two buffers). Type
correctness with "no block in two buffers" is inductive, and "a clean buffer
matches mass storage" is so only together with both: a save could write a
marked twin over what the clean buffer shows. The refinement maps each word to a
`Modify`, a `WriteBack` or a `Discard`, or a stutter.

`Keyboard_proofs` proves, for any ring and receiver and under any key word, that
the console keeps its shape, that the handler works exactly on claimed interrupts
and finds a character (`InterruptHasChar`), and that a parked program is armed
to be woken with the ring empty (`ParkedIffArmed`). The conjunction is
inductive: `GETCHAR` needs the receiver non-empty at `getchar`, `PUSHCHAR` needs the
parked program's return address in `mEnvWfi`. The steps of `Keyboard` are steps of
`Console` or leave it alone, which carries the invariant over.

It goes on with the rest of the run `keys`. Lemmas say that `PUSH` appends to
the contents of the ring unless it is full and that `POP` takes their first, wherever the two heads
stand on the circle; with them `KeysInOrder` is inductive above the console's
invariant. `NoKeyLost` is inductive with `WordInv`, which says what each place
in `KEY?`, `KEY` and `ACCEPT` has in hand: after `EKEY?` found a character, one is
still in the ring (`KeyQuestionNeverWaits`), and `ACCEPT` goes on only with room in
its buffer.

`Heap_proofs` proves every property of the run `heap`, among them the refinement
of `Allocator` and that `ALLOCATE` fails only without room, for an area, a header
and a number of blocks of any size. The list is a set: `HeapInv` says that the
cells where a block begins hold a first one, that each block's link goes to the next
one of the set and back, and that no two free ones are neighbours (`Linked`,
`Forward`). What `Split` and the two merges do to that set is a lemma each, and a
search along links meets every block of the set, which `Following` makes a
function over. The theorems have two hypotheses. `Tame`: a request is the
largest word, or adding a header to it does not wrap. `AnyResize = FALSE`: a program
resizes a block only where it can stay. Both cut off what the source does wrong, as
recorded above, and the run `heap` has values that satisfy them;
`heap_resize` shows what happens without the second.

It also proves what the promise is worth: in every behaviour of `Allocator`,
blocks held at the same time share no cell (`BlocksDisjoint`). Every allocation and resize is
constrained against all other blocks, so disjointness is inductive by itself; through
the refinement it holds of the heap (`HeapBlocksDisjoint`).

`InputSource_proofs` proves every property of the run `input`, for sources nested
to any depth. `InputInv` says of each level that what `SAVE-INPUT` pushed is what
`RESTORE-INPUT` can take, in the state it will run in, and that the kind of the level
below is the one the saved `SOURCE-ID` and `BLK` tell: `SavesBalance` and `SourceTold`
follow. `LineIntact` needs more, that every saved place still holds the line that
was being read there; no step takes a buffer from it only under the hypothesis
`FreeLoads = FALSE`, and `input_nested` shows what happens without.

`Dictionary_proofs` proves every property of the run `wordlists`, for an array of 4 to
16 cells (the source has 16) and any number of words. That searches end (`SearchEnds`) and that the array implements the
sequence of `SearchOrder` (`OrderImplemented`) need that no list stands behind the
first null of the array (`Packed`), and that what the order and an unended definition
lead to is in use (`InUse`), each until the program broke the contract named in it.
`FindsNewest` needs `Threaded`: a list begins with the greatest of the words entered into
it, each of them links to the greatest below it, and an unended definition already
links to what its list begins with. Neighbours are enough: `ChainIs` shows that the walk
along such links meets all of the words, the newest first. What each word that defines
does to one list, and a marker to all, keeps this. What these properties leave out by `spoilt` is
what the source does not look out for, and is recorded above: a `SET-ORDER` of too many
wordlists, a marker that leaves a list out, a definition that is mixed with another
word. `OrderImplemented` is a refinement and so says what a word of the order may do, and not that it does
something.

`Arithmetic_proofs` proves first what each function of the bignum library computes, for digits
of any width and numbers of any length. Powers of two are doubled, added
and divided by counting the subsets of an interval, since arithmetic knows
nothing of `2 ^ n`; a fold over digits exists and stays in a set that each of its steps
stays in (`Folding`, `FoldStays`), and one that carries a value from digit to digit has it
after each of them (`FoldCarries`). Sums, differences and rows of a product are one
ripple of carries (`Ripple` in `Bignum`). `MulIs` takes in turn what a row adds to the rows
before it, the digit it skips included; `DivIs` has the invariant of long division: after
each bit, quotient times divisor and remainder make up the dividend, the remainder is
below the shifted divisor, and the bits of the quotient that are still to come are clear. The
divisor has no more digits than the dividend. The remainder is shifted once more than there are
bits, and back: it is whole if it has a bit to spare (`RestKept`), which every divisor of fewer digits
leaves it, and every divisor of as many unless it and the dividend are both more than half of what the digits
hold and the dividend is the smaller one.

With these it proves for digits of any width and cells
of any number of them, whatever words ran before and whatever they left, that
`UM/MOD`, `FM/MOD`, `SM/REM`, `*/` and `*/MOD` give the
quotient and the remainder they promise (`DivisionsRight`), that `M*/` keeps all three cells
of its product (`ScaledRight`), that a counted loop
ends when its index crosses the limit (`LoopEnds`), and that the functions of the
library under them are those of the integers (`LibraryRight`). A step begins from any stacks of cells, so
the invariant is that the stacks hold cells and that the last word came out right.

`ObjectFile_proofs` proves `WritableRight`, for every program that is linked, any number
of sections and segments, any layout of the file and any list of names: after each
step of `make-elf-writable`, and after it failed, the file is the linker's with the
flags of the names done so far set and no other. `WritableInv` relates the file to what
the linker wrote: setting flags twice is setting those of both (`WritableTwice`), and
what the comparison of addresses finds in the changed file it finds in the old one.
That the file has finitely many sections comes from `obj.cpp`, which has read of no
more (`FiniteSections`). Nothing is assumed of the file or of the names: the property names what a
failure can mean, a file that is refused, is cut, ends with its names or is too short for a name. `WordsAssumption`,
that a section of the layouts is shorter than a word of an ELF file can say, is the
only one on numbers.

`Compiler_proofs` proves `EncodingsRight`, for any set of registers out of the 32 and any
integers as immediates. A word is the set of its bits. `PackIs` says where a C
bit-field structure of any number of fields puts them, `BitsAre` what reading a
stretch of bits gives back; each type of instruction is then a short list of fields
(`RFields` to `JFields`), and the immediates that are scattered over several
fields are put together again by the remainders of one division (`SRight`, `BRight`,
`JRight`). That no two instructions have the same code compares the tables pairwise by the
group a code is from (`GroupsDiffer`). The words of control flow and the optimizer
leave what was compiled last alone.

Then it proves of the code that is compiled what it does, for every width of cells and
immediates that `WidthAssumption` admits. A machine runs a sequence of instructions as it
runs the parts one after the other (`RanConcat`), so each form of instruction and
each stretch of code has a lemma: `Recombined` puts a number together again from the upper
part and the signed lower part it is split into, `StoredIs` covers the ways `c_store`
loads a number, and `NumbersLoaded` (`ConstantLoaded`) says that every number but those
the model excepts is what is left in the register. `WordsReached` (`AddressesReached`)
takes the tables as they lie in memory: no two entries have the same address, and
every entry and stub is within reach of the code behind them (`TablePlaces`); an address near
or far, a call direct or through a stub then ends where it should (`Aimed`,
`Called`, `StubIs`). Beside the properties the invariant says that a single number, address or call is
compiled right behind the tables (`Place`). `CellAssumption` is what the proofs need of an
image: its words have cells for addresses, and the tables are smaller than the
reach of a 32-bit distance, which a few hundred words are.

Lists, digits and nested sources are data of any length. What has to be shown of
them by induction is shown by a smallest counterexample, or is a part of the invariant; the
library's theorems for induction take an operator, which the provers cannot
instantiate.

Only model-checked: the liveness properties (`ReceiverDrains`, `KeyWordsReturn`),
which are out of the prover's reach; `PowersRight`, the powers modulo a number of the bignum
library;
the compiler's programs of several words (`OptimizedRight`, `BranchesLand`), where
an invariant would have to describe code that is written again later;
and `RelocationsResolve`, where words are named by paths of wordlists.

## Not modelled

- Core words, strings and floats have no state over several calls. The host's files
  and allocator are calls of the C library. The editor draws. os0 and os1 are
  earlier stages of os2. The build scripts run once.
- Files of os2: one offset in one record, moved by the word that reads; the tar
  reader builds a table once. A file read to its end has a position that
  `MEMFILE:REPOSITION` refuses, since it wants the position below the size
  (`example/os2/memfile.fth:24`).
- Text to numbers and back (`>NUMBER`, `HOLD`): their state ends with one number.
- Sections of the compiler: a cell per section that says where `HERE` is; the
  object file's sections are in `Linker`.
- Of modelled parts: the 32-bit branches and floating-point constants of the code
  generators, definitions longer than a jump reaches, the assembler in Forth; flags
  of words, `DOES>` and sections for headers in `Dictionary`; deferred words and
  values and the bytes of ELF headers in the relocatable output; the allocator of
  the bignum library.

## What is left

Proofs: `BranchesLand`, for programs of any length within the reach of a
jump. Models: the
flags of words and `DOES>`, with `IMMEDIATE` and `HIDE` in the search, and the
sections of the compiler.
