# MASM in TLA+

MASM is a MIPS toolchain in C++: an assembler library (`libmasm/src/assembler`), a
simulator (`libmasm/src/simulator`), stream and console I/O (`libmasm/src/io`), and three
programs, `masm` (assembler), `msim` (simulator) and `mdb` (debugger). This directory
holds TLA+ modules that model its core, TLC configurations that check them on small
instances, and TLAPS proofs of the properties that matter most.

Paths below are relative to the root of the repository; `S/` stands for
`libmasm/src/simulator/` and `A/` for `libmasm/src/assembler/`.

## 1. Inventory

| Component | State | Operations | What makes it correct | Modelled in |
|---|---|---|---|---|
| Tokenizer, `A/tokenizer.cpp` | the token and its category so far, the last character of a string | text to tokens; the order of the passes over the files | a token is what its own text says; every pass sees what the one before left | `Tokenizer`, `Postprocessor` (order of passes) |
| Post-processor, `A/postprocessor.cpp` | the files as lines of tokens; `eqvMapping`, `macroMap`, `globals` | base addressing, includes, `.eqv`, macros, mangling | hygiene: every reference is to its definition; no line lost or doubled | `Postprocessor`, `Build` |
| Parser and tables, `A/parser.cpp`, `A/instruction.cpp` | the token lines, the layout, debug information | three passes: label addresses, pseudo instructions, encoding | the passes agree on every address; an expansion does what the line says | `Tokens`, `Instructions`, `Assembler` |
| Labels and directives, `A/labels.cpp`, `A/directive.cpp` | label map, pending labels, section sizes | `populateLabelMap`, `resolveLabels`, `parsePaddedAllocDirective` | a label names the first byte of what follows it, data are aligned | `Assembler` |
| Object files, `A/serialization.cpp`, `shared/load_layout.hpp` | the bytes of a file | `saveLayout`, `loadLayout` | what is loaded is what was assembled | `ObjectFile`, `Build` |
| CPU, `S/cpu.cpp` | register file | `execRType`, `execIType`, `execJType` | the instruction set; what throws has changed nothing | `Cpu` |
| Co-processor 1, `S/cp1.cpp` | 32 words, a flag | FP instructions | doubles live in even pairs; what throws has changed nothing | `Cp1` |
| Assembler, loader and CPU together | memory, registers | `parse`, `loadProgram`, `step` | a source line has the effect it describes | `Toolchain` |
| Step function, `S/simulator.cpp` | PC, the four MMIO words, the two streams | `step` = pump, address check, fetch, interrupt or instruction; `except`; `initProgram`; `simulate` | no character lost or repeated, traps transparent, every end of a run announced | `Simulator` |
| Co-processor 0, `S/cp0.cpp` | STATUS, EPC, CAUSE | `mfc0`, `mtc0`, `eret` | EPC names the instruction to go on with | `Simulator` |
| Memory, `A/memory.cpp` | a map from addresses to bytes | word, half and byte access, side effects of the MMIO words | byte order; a read of `input_data` frees it, a write of `output_data` claims it | `Simulator` (MMIO words), `Cpu` (ordinary memory) |
| System calls, `S/syscalls.cpp` | random generators, the line being read | 24 calls on registers, memory and streams | a failing call changes nothing; a reader gets the line as edited, and returns | `Syscalls`; character calls with traps in `Simulator` |
| Program heap, `S/heap.cpp` | `blockAddresses`, `blockSizes`, `heapPointer` | `nextFree`, `allocate`, called by `HEAP_ALLOC` | blocks inside the heap, disjoint, below `$sp` | `Heap` |
| Console, `libmasm/src/io` | `inputBase`, `inputCursor`, the terminal | `getChar` with echo and DEL, `putChar`, `getLine` | a DEL takes away what the user typed, never what the program wrote | `Console`, `Syscalls` |
| Debugger, `mdb/debug_simulator.cpp` | breakpoint map, `nextBreakpoint`, `isRunning`, place in the loop | `interactiveStep`, `simulate`, the commands | stops where it was asked to, and only there | `Debugger` |
| Front ends, Python bindings | none | I/O, glue | - | no |

How they interact. `masm` tokenizes the files, post-processes the lines and hands them to
`Parser::parse`, which reads them three times and returns a `MemLayout`. `msim` and `mdb`
load one with `State::loadProgram` and call `step` in a loop: `simulate`'s, or mdb's own.
`step` calls the pump, which moves characters between `StreamHandle` and the MMIO words in
`Memory`, then executes an instruction, which may call `SystemHandle::exec`, which may call
`HeapAllocator` or the same `StreamHandle`. Everything fails by C++ exceptions:
`ExecExcept` is turned into an exception of the simulated machine by `except`,
`MasmRuntimeError` and `ExecExit` leave `step`, and `MasmSyntaxError` leaves `parse`. There
is one thread; what interleaves is the user typing (a raw terminal, or a pipe), the
program, its trap handler, and, in mdb, the commands.

What is hard here: characters that arrive while the program or its handler is between two
loads; a trap in any instruction, also of the handler; when the pump is off (kernel text);
what an exception has already changed when it is thrown; unsigned and signed 32-bit
arithmetic on addresses; the life of system breakpoints next to the user's; loops that
edit the vector they run over; names that must stay apart through expansions inside
expansions; passes over the same lines that must count alike; expansions whose two
instructions must add up to what the line says; and a line that is edited in two places at
once, the program's buffer and the screen. `PROJECT.json` lists each hazard with its line and the properties
that cover it.

## 2. Modules

| Module | What it is |
|---|---|
| `MachineWord` | words, halves, bytes and their order |
| `Tokens` | tokens and lines, as the post-processor, tables and parser share them |
| `Instructions` | the tables of `A/instruction.cpp`: operand patterns, aliases, sizes |
| `Tokenizer` | `Tokenizer::tokenizeLine`: a line of source to tokens |
| `Postprocessor` | `Tokenizer::tokenize` and the passes of the post-processor |
| `Assembler` | `Parser::parse`: three passes over token lines |
| `ObjectFile` | `saveLayout` and `loadLayout` as functions on sequences of bytes |
| `Build` | EXTENDS the last four: files to object file to loaded layout |
| `Cpu`, `Cp1` | one instruction, as the set of its outcomes |
| `Toolchain` | an assembled program on the CPU; EXTENDS `Assembler` and `Cp1` |
| `Arena` | abstract: what a heap promises |
| `Heap` | `HeapAllocator` and the `HEAP_ALLOC` syscall; implements `Arena` |
| `Console` | the terminal: typing, echo, erasing, output |
| `Syscalls` | every call of `SystemHandle::exec`; EXTENDS `Heap` and `Console` |
| `CharChannel` | abstract: a lossless channel with room for one character |
| `Simulator` | `Simulator::step` with the devices, traps and character syscalls; its keyboard implements `CharChannel` |
| `Debugger` | EXTENDS `Simulator`: mdb's loop and commands around `step` |
| `HeapProofs`, `SimulatorProofs`, `SyscallsProofs`, `DebuggerProofs` | TLAPS proofs |
| `AssemblerProofs`, `AssemblerOutputProofs` | TLAPS proofs: addresses; types, names and debug information |
| `TokenizerProofs` | TLAPS proofs: the tokens of a line |
| `BuildProofs` | TLAPS proofs: the post-processor hands over programs; object files |
| `MCBuild`, `MCToolchain`, `MCSyscalls`, `MCSimulator`, `MCDebugger` | instances for TLC |

Each module also holds a few *faulty variants* of its definitions, named for their fault
(`TrapPastFault`, `PaddingBackwards`, `TakeUnlessAtBase`, ...). No specification uses
them: they record, for each property, a plausible bug that the property finds (`mutants`
in `PROJECT.json`).

### Tokenizer

One turn of the loop of `tokenizeLine` is one action; the line is chosen as it is read, so
that lines with a common beginning share their states. `currentToken`, `currentType` and
`prevChar` are the variables of the code, and `currentType` survives a colon or a mark with
no name next to it, as there. A word of several letters is read at once, since the loop
only appends them. `AreSaid` is a second definition of the tokens of a line, with no loop:
which places are inside strings, where the items between them begin (`Items`), in which
line and at which place of it each comes (`LineOf`, `PlaceOf`), and what it is by its own first
character, that place and what follows it (`Says`). `TokensAsWritten` compares the two;
`Stray` names the lines it leaves out. Separators are tokens here; the later modules drop
them.

### Postprocessor

`stage` is the loop that runs, `file` and `pos` where it is; the files are worked on in
the order of the `std::map` that holds them, and put together in that of the command line.
The loops edit the vector they run over, so an action does to the lines and to `pos` what
one turn of the loop does: after an include, for one, the loop goes on with the *second*
of the lines put in. Turns that change nothing are passed over (`FirstOf`). A token is a
category and a name; it keeps as history the name it was written with (`was`) and the
scopes around it (`home`: expansions, innermost first, then the file). `stage` also says
how the passes ended: `combined`, the reason of a refusal, `escaped` where a
`std::length_error` leaves the tokenizer, `undefined` where a vector is copied into itself.

Before the parser, nothing looks at what a line means, so `Program` cuts what is left to
the lines `Assembler` knows; anything else becomes a line of category `other`, which
`parse` refuses. A turn of the loop that collects globals takes one `.globl` line.

### Assembler

`phase` is the pass: `labels` (`LabelMap::populateLabelMap`), `pseudo`
(`resolvePseudoInstructions`), `parse` (`parseLine` for each line), or how `parse` ended.
A line is its first token, its arguments without separators, and its number. Each pass has
an action per kind of line. `sizes` and `labels` belong to the first pass, `lines` is
rewritten by the second, `layout` and `debugInfo` grow in the third.

A byte of the layout is a *cell* that says which byte of which argument of which line it
is, so that properties can ask where a line went. Instruction cells keep the fields of the
instruction, each cut to the width the code gives it; the packing of the fields into 32
bits, which the code undoes with the same shifts in `execInstruction`, is left out, and
registers keep their names. The bytes of an integer have their values, in the byte order of
the host; a double is its two words, the upper one first in either order, as
`f64ToBEByte` and `f64ToLEByte` have it; characters are 1.

What a program is, `IsProgram` says line by line, and not as a set of all programs, so that
it can be assumed of any constant `Programs` and checked of what the post-processor made.
`Duplicated` and `Dangling` are the two causes for which a label makes `parse` refuse, in
terms of the lines as written: a name defined twice, that of `_start`, which `parse` itself
defines, included; and a name that an instruction or directive refers to and nothing
defines, which a label at the end of the program does not.

`sizes` and `labels` are `uint32_t` in the code and `parse` never compares them with
anything: a section that grows past the next one overwrites its debug information, and one
that grows past the end of memory wraps. `SectionsFit` leaves those programs out where a
property depends on it (`DebugInfoNamesLine`, and the types of addresses). It is strict,
because a byteless item at the end of a section filled up to the next one would have the
address, and so the record, of the first item there.

`capacity` is that of the vector `modifiedTokenLines`: the expansion of `mul` goes on with
an iterator from before the insertion (`A/parser.cpp:450`), which is harmless unless the
vector moved. The model follows libstdc++ (capacity doubles) and ends in phase `undefined`
when it did.

### ObjectFile and Build

`SaveLayout` and `LoadLayout` follow the code block by block: header, offsets written
once the place of a block is known, padding, debug information in the order of the map.
`SaveLayout` skips the sections that are absent, not the empty ones: an empty text section
is a block of size zero, and a file without debug information has offset zero there. A
byte keeps its value, a string is one byte and the zero that ends it. Offsets, sizes,
addresses and line numbers are `uint32_t` fields of the file, and `saveLayout` cuts them to
that without looking; `FileFits`, the premise of `LoadsWhatWasSaved`, leaves out files that
are too long for their own offsets.

`Build` runs `TokNext` on a line of source, or, on files whose lines are tokens,
`PostNext`, hands `Program` to `AsmNext`, and saves and loads the layout,
with or without debug information. `ScopesRespected` says what a reference *means* from
`was` and `home` alone (`Denoted`: the definition in the innermost scope around it that
has one, or else that of a global), and that after mangling exactly that definition has
its name. The premise `SourceUnique` leaves out sources that define a name twice in one
scope. `AllTextKept` counts the copies of each source line against the number of ways in
which its file is reached by includes (`Copies`). The premise `MacrosClosed` leaves out sources whose
macros include files, begin in one file and end in another, or have their `.macro` or
`.end_macro` made by an `.eqv`: there a line may be copied with each call.

### Cpu, Cp1 and Toolchain

`ExecInstruction(i, r, m)` is the set of outcomes of an instruction on registers `r` and
memory `m`. It is a set because `sra` by zero shifts by 32, which C++ leaves undefined. A
division whose quotient does not fit kills the process (exception `undefined`); other
signed overflow (`addu`, `subu`, `mul`) wraps in the builds the project makes, and is
modelled so.

`Cp1` does the same for co-processor 1. Its registers are words, and a double is the pair
of an even one and the next; four registers (`UpperOf`) are two pairs and every way to
name the wrong half. What depends on bits only is exact, in the layout of IEEE 754 with
three bits of exponent: moves, negation, absolute value, comparisons with NaN, zeros of
either sign and infinities, loads, stores and branches. Sums, roots and conversions are
the host's arithmetic, and any word of `FpResults` may come out.

`Toolchain` boots an assembled program as `initProgram` and `loadProgram` do, except that
`$t0`, `$t1` and the floating point registers take any of a set of values: they stand for
what earlier code left there. `Execute` is a step of the simulator without devices or
handler. `before` and `doing` are history: the machine at the start of the source line
being executed, and its number. The run ends as `unmodelled` when the program executes
data or reads or writes instructions.

The properties are a second definition of every instruction and pseudo instruction, in
terms of the *source line* and independent of the first: quotients by their defining
equation, bitwise operations bit by bit, products over the integers, loads byte by byte,
branches by the label named in the text. Where the code departs from what a line could be
thought to mean and no document of the repository decides, the property leaves the case
out, by name: immediates beyond the field, negative load and store offsets (`Meant`),
targets a jump field cannot hold (`Reachable`), targets that are not instruction
addresses, `jalr $ra`, `sra` by zero of a negative word, backward branches of
co-processor 1 (section 5). `$zero` is an ordinary register in
the code and nothing in the runs writes it.

### Heap

`blocks` is the pair of vectors as one sequence of records; `heapPointer` is the member
of that name. `NextFree` is the first-fit walk, `InsertBlock` the sorted insertion,
`HeapAlloc(size, sp)` the whole syscall: allocate, then compare with `$sp`, then either
raise "Out of Memory" or put the address in `$v0`. Addresses are `0 .. Modulus-1` with
wrap-around, and `AsSigned` is the cast to `int32_t`. `granted` and `oomSP` are history
variables: the blocks programs were given, and the greatest `$sp` memory ran out at.
`Spec` takes any size; `ModestSpec` only takes sizes that keep the heap pointer below
2^31, since with larger or negative ones the code breaks its promise (section 5);
`Syscalls` keeps to the same sizes.

### Console and Syscalls

`pending` is what the terminal holds for the program; `screen` is the line the cursor is
in, each cell with who wrote it. `GetChar` takes a character and echoes it, erases for a
DEL only while `inputCursor` is past `inputBase`; `PutStr` is `putChar` for every
character, which moves the base to where the output ends.

`Syscalls` has an action for each call of `exec`. A call that reads is spread over steps,
since the program waits in `getCharBlocking` while the user types: `call` is the call that
waits and what it has so far (`getLine`'s line, `readString`'s length and position), and
`Receive` is one character through `GetChar` and then through `CharRead`, `NumberRead` or
`StringRead`. `buffer` is the memory `READ_STRING` fills and `PRINT_STRING` prints;
`rngs` is the map of generators, a random number its place in the sequence of a seed;
`reg` are the registers results go to. `outcome` is how the last call ended: `except` is an
`ExecExcept`, after which the program goes on in its handler, `exit` and `runtimeError`
leave `step`. `fresh` is history: the waiting call began right after output (the two
counters are equal), and no escape has been typed since. `Simulator` models the character
calls a second time, where what matters is how they race with the devices and with traps;
here what matters is what the calls do to each other.

### Simulator

One action `Step` is one call of `Simulator::step`. `Pumped` is the state of the devices
after `writeMMIO` and `readMMIO`; the `else if` in the code is the `~DisplayIntr` in
`ReadsStream`. Then exactly one of `BadAddress`, `BeyondText`, `MisalignedFetch`,
`Interrupt` and `Instruction` is enabled, in the order of the checks in the code.
`Instruction` chooses one of the abstract instructions the word at `pc` may be; each
abstract instruction is one way in which machine code can touch the modelled state: a
load or store of an MMIO word, moves to and from STATUS and EPC, `eret`, jumps and
calls, a faulting instruction, a syscall. Everything else is `alu`. A program is the
constant `Code`; because a word may map to a *set* of instructions, one run covers every
program that can be put together from those sets. `Type(c)` is the user; it may happen
between any two steps. A character stays a model value; `NUL` is told apart because
`readMMIO` tells it apart (`if (c)`).

History variables: `typed`, `latched`, `loaded` (the way of a character from the stream
to the program), `stored`, `clobbered` (the way to the display), `resume` and `detoured`
(where user code must go on, and whether the handler has given that up by writing EPC,
trapping itself or jumping to user text).

### Debugger

`ctl` is the place in the loop of `DebugSimulator::simulate`: before `interactiveStep`,
in its command loop, after it, or returned. `InteractiveStep`, `Go` (the call of `step`,
which is `Simulator`'s `Step`), `NotRunning`, `Catch` and `Escape` are the loop;
every command that changes something is an action of the command loop. `breakpoints` is
the map of the code, ID 0 marking system breakpoints. `wanted` (where the user set a
breakpoint and did not delete it), `cmd`, `target`, `ran` and `offender` are history.

## 3. Runs

| Run | Question | Bounds |
|---|---|---|
| `build` | From files to object file and back: does each token say what its text does, is a line refused exactly for cause, do names keep their scopes, is each line there as often as its file, do the passes agree on where everything is, does each label find its line, is a program refused exactly for cause, does a local `main` run first, and is what is loaded what was assembled? | one file of at most 3 lines out of 16 (labels, data of each alignment, an empty string, sections, aliases and expansions of each size, an unknown register, an unknown name); and files of a macro definition and at most 3 pieces out of 10 (two macros, one calling the other, `.globl`, `.eqv`, `.include`, references), alone or with one of three libraries, in either order; an included file that is not there; a file that defines `_start`; every line of at most 4 characters or words out of 14 |
| `asm_main` | finding 3 | a file with a global and with a local `main` |
| `exec` | Does a source line do what it says, from its tokens to the registers and memory, and go where it says, and trap exactly when it must? | every instruction and pseudo instruction of the CPU and of co-processor 1 with several operands, and pairs of those that feed each other, framed by data and labels; 8 by 8 boundary values in the registers; 7 instructions; little-endian |
| `exec_srl` | finding 4 | one `srl` |
| `exec_double` | finding 5 | one `.double`, loaded by `ldc1` |
| `syscalls` | Calls in any order while the user types: are granted blocks disjoint and inside the heap (refines `Arena`), do the records tile it, is running out final, does a failing call change nothing, does output stay on the screen, does the user see what the program gets, and (liveness) does a reader return once there is a newline? | 3 calls, 3 keys of 5 kinds, buffer of 2 bytes, 6-bit addresses, heap of 12 bytes below the stack and below the sign bit, sizes 0, 1, 4, 7, two values of `$sp` |
| `sim_mmio` | Devices and traps over every program made of `AnyMmio`: nothing typed is lost (and the keyboard refines `CharChannel`), output is lost only where a handler overwrites it, traps are transparent | 64 addresses, 2 user words, 3 handler words, 2 typed and 2 printed characters |
| `sim_traps` | Syscall mode under a handler that skips the faulting instruction: execution goes on behind it, and only a misaligned fetch throws past the handler | 4 user words with alternatives, 3 typed, 2 printed |
| `sim_echo` | Liveness: the echo programs, by polling and by interrupts, echo everything and always leave the handler | the padded input of the repository's own test, scaled |
| `sim_lost` | finding 1 | the same without the padding |
| `mdb` | All commands in any order: execution stops where asked, IDs are unique, the instruction shown is the one that failed, an unhandled trap ends the run, and (liveness) the prompt comes back | programs with calls, a loop, faults, every way to end; 2 user breakpoints, 1 typed character |
| `mdb_missed` | finding 2 | as `mdb` |

Why the bounds are enough. A word of the assembler's and CPU's runs has 12 bits (a byte
has `B` = 3): no definition knows the width but through `B`, four bytes of three bits keep
every boundary of the word (sign, carry, upper and lower half, jump field, top four bits),
and the products still fit TLC's integers. Three lines are enough for a label, what it
names and a reference or something in between that moves it; sizes and paddings depend on
positions modulo 8 only. Three pieces after a definition are enough for two expansions
whose positions could collide, an expansion inside an expansion, a name and its
exported or included double. Three calls are enough for a grant, a refusal and a grant
after it, or for output, a reader and output again; three keys for a character, a DEL and
a newline, so that a reader waits, drops and returns. For the devices, two characters and a one-place device
give every order of latch, load and type; the paths through `step` do not depend on how
many characters there are. `MaxBlocks`, `MaxTyped`, `MaxStored`, `MaxBreaks`, `MaxSteps`,
`MaxCalls`, `MaxChars` are guards of the actions they bound, `Length` and `Pieces` of the programs
enumerated. Deadlock
checking is off where a run may really stop: the program has been assembled or refused,
has exited, or a bound is reached.

Fairness: `FairSpec` has `WF_vars(Step)` because `simulate` calls `step` in an endless
loop; nothing is assumed about the user, so `Type` has no fairness. `DFairSpec` has weak
fairness of mdb's own loop but not of the commands, which wait for the user. `SysSpec` has
`WF_sysVars(Receive)`: `getCharBlocking` polls every millisecond until there is a
character. Nothing is assumed about when or whether the user types one.

## 4. What is proved

`HeapProofs`, from the assumptions of `Heap` on its constants, for `ModestSpec`: types
(`HeapTypeOK`), `BlocksTileHeap`, `FailureIsSticky` and the refinement of `Arena`
(`HeapImplementsArena`). The run `syscalls` checks the same properties with the other calls
around the heap. The inductive invariant says that the recorded blocks tile the
heap from the base to `heapPointer`; `BlocksTileHeap` speaks of neighbours only, so
disjointness needs the strengthening that every block ends at or below the start of each
later one and that granted blocks are recorded ones below `$sp`.

`SimulatorProofs`, for every program, layout and input: types, `OutputLossless`,
`OnlyHandlerClobbers`, `TrapsTransparent`, `OnlyMisalignedFetchEscapes`,
`NothingTypedIsLost` and the refinement of `CharChannel`. The
invariant is a conjunction of two parts that different mechanisms preserve: `IOInv`
(what is latched but not read is what `input_data` holds; what is stored but not printed
is what `output_data` holds) is kept by the pump, loads, stores and syscalls; `CtlInv`
(unless `detoured`, user code goes on at `pc`, or at EPC while the handler runs, and
that address is in user text) by `Continue`, `Trap`, `Throw` and `eret`. Each of these
has its lemma, and one lemma per kind of step puts them together.

`NothingTypedIsLost` says where each character is: the stream is the end of `typed`, and
what is not there any more has, NULs aside, gone one by one and in order to the program
or waits in `input_data`. `StreamInv` says so of the history `latched`, which only the
pump and the character calls lengthen; that `latched` is what the program has read and
then what waits is in `IOInv`. A step consumes at most one character (`StreamSteps`,
`ConsumeStep`), and `CarriedNul` and `CarriedChar` say what one character more does to the
correspondence, by the cardinality of the set of places that hold no NUL.

`DebuggerProofs`, for every program, layout and set of addresses, and commands in any
order: the four invariants of the run `mdb` and the action property `UnhandledTrapEnds`.
`IdsAreUnique` is inductive once the map has its type. `StopsWhereAsked` is not: it
speaks of the moment before `step` is called, and by then the prompt is several turns of
the loop ago. `StopInv` adds that while a command is at work the breakpoint it runs to is
still in the map, the one at address 0 in the case of `step`, so that `interactiveStep`
cannot pass it: a breakpoint is only erased in a turn that ends at the prompt. `EndInv` follows an exception from `step`
to `Catch`: `pc` is one instruction behind the one that threw it, then back at it, and no
command but `run` moves it again. `CauseInv` says that CAUSE is only set on the way into
kernel text, which `UnhandledTrapEnds` needs to conclude that it is clear.

`SyscallsProofs`, for every alphabet of keys, buffer, output and number of calls. Every
invariant of the run `syscalls` and each action property is a theorem; only `ReadsEnd`,
which is liveness, is not. The assumptions are that what is typed, stored and
written are characters (`CharAssumption`), and that no key *is* a backspace: the echo
could not be told from an erasing one (`KeyAssumption`; the key of that name sends DEL).

- `SyscallsImplementHeap`: each step of the system is one of `ModestSpec` or leaves the heap
  alone, so that what `HeapProofs` shows carries over (`SyscallsKeepHeap`).
- `OutputStays` is not inductive: that the program's
  cells are on the screen now does not say that a DEL spares them. `ConsoleInv` adds that the
  last of them is at least `inputCursor - inputBase` cells before the end of the line, so that
  a DEL, which needs that difference to be positive, takes a cell behind it; `EchoBehind`,
  `EraseSpares` and `PutStrKeeps` show that each move of the counters keeps it so.
- For `FailureKeepsState` the invariant is that a waiting call's `outcome` is "waiting": a
  character received in the middle of a line ends nothing.
- `ShownIsRead` compares the cells the user typed with what the reader holds, two sequences
  kept by different functions: the console's counters and the reader's own length. `ReadInv`
  splits the screen at a place `m`, behind which it is all the user's: the counters never
  count fewer cells than are there, and while a `fresh` reader waits they count exactly as
  many as it holds, each with the reader's character. A DEL then erases a cell exactly
  when the reader drops a character. That the split exists needs `OwnKnown` (every cell of
  the program's is in the history), so that `ConsoleInv` bounds how far a DEL can reach.

`AssemblerProofs`, for every program of lines the post-processor can hand over
(`ProgramsAssumption`; `BuildProofs` shows that those of the post-processor are such), every set of sections that contains text and starts at non-zero
multiples of the largest alignment (`OffsetAssumption`, `TextAssumption`; the code's
constants do), and either byte order: `PassesAgree`, `LabelsFindTheirLine` and
`FirstItemsAligned`. None of them is inductive, since all speak of the end: nothing in
them says what the first pass had counted when it was at the line the third is at.

- To say that takes a sum over the lines, and `Assembler` has no recursive operator. The
  invariant speaks instead of *some* walk `g`, a function from lines to the section and the
  sizes before them, in which each line `Follows` from the one before. The first pass lengthens
  the walk (`FirstPass`), and the third reads it again (`ThirdPass`).
- `LinesInv` carries it over the second pass: what has been read is the source lines in order,
  each either as written or as all the lines of its replacement, none missing, doubled or cut
  short, and what has not is as written.
- `LabelsInv`, `LayoutInv` and `PlacedInv` place labels, sections and the first byte of each
  item by the walk; that a label finds its line is then an equation between two of them.
- `BlocksAgree` is the step where the two passes could part: the first measures a
  directive with zeros for references, the third with addresses. Only `.align` and
  `.space` take a size from an argument. A label is beyond 3, so that `.align` refuses it
  in the third pass, and `.space` refuses the zero in the first.

`AssemblerOutputProofs`, on top of `AsmInv` and from the same assumptions: `AsmTypeOK` and
`DebugInfoNamesLine`.

- That an address is a word is not kept from step to step: sizes grow after the label got
  it. `TypeInv` says that each label is `Held`: at or below the end of its section
  so far. `SectionsFit` then bounds it, by what has been counted when the first pass is over.
- `DebugInfoNamesLine` could be lost with every line laid out, since a record is filed under
  an address and replaces what is there. The invariant is that every cell laid out so far
  is filed (`CellsFiled`), under the source line it keeps through the second pass (`SourceKept`).
  A later line files at the end of its own section only; that this is nobody else's
  address is where `LayoutFits` is used: by the walk, the third pass never lays out more
  than the first has counted, and what it has counted does not overlap.

The same module: `StartsAtMain`, of which `MainRunsFirst` is the case of a local
`main`, and `RefusedForCause`.

- `LeadInv` follows the line `parse` puts first, from the `nop` or jump it begins as,
  through the second pass, to the first word of the text section.
- `NamesInv(m)` gives the label map and the pending labels before line `m`: the lines whose label
  has been resolved, and those that wait for the next item. It is one invariant and not
  two, because a duplicate is noticed where the second definition is resolved and not where
  it stands.
- The third pass finds an unknown label in an *expanded* line, while `Dangling` speaks of the
  lines as written. `RefsKept` says that an expansion hands on every reference of its line that
  is not resolved already, and makes none up; `RefsRead`, that what has been laid out
  refers to known labels only. An assembled program is then without dangling names, and
  a refused one has one (`CauseInv`).

`TokenizerProofs`: `TokensAsWritten` of every line of every length over every alphabet; there
is no assumption. What the loop keeps is related to the line as far as it has been read
(`Scan`): the items that have ended are in the tokens, each in its line and at its place; the
one that has not is in `currentToken`, and what its first character makes of it is
`currentType`. The loop is between items (`AtGap`), in a word (`AtWord`) or in a
string (`AtString`), and each has a lemma for the next character (`GapStep`, `WordStep`,
`StringStep`).

- `TokensAsWritten` speaks of the whole line, and the invariant of its beginnings. So
  most of the proof shows that one character more changes nothing about items that have
  ended: not whether they are quoted, where they end, nor their place (`QuotedLonger`,
  `Longer`, `EarlierPlaces`, `SaysLonger`). It does change the item that is pending, which a
  colon makes a label.
- A mark or a colon that stands alone leaves `currentType` behind, so that `Scan` is not
  inductive without `~Stray`; but a line that begins well may become stray later. `Clean`
  is what a beginning of a line that is not stray satisfies, and `Scan` is kept under it.
- A third token after `.eqv` is an instruction by the *tokens* before it in the code, and by the
  *text* before it in `Category`. `EqvLine` is the lemma that these are the same.
- A refused line is malformed because the character that stops the loop makes it so
  (`FaultsLonger`), and an accepted one is not since none has (`NoFault`).

`BuildProofs`, for every command line (`Projects`) and every set of file names: all that
is proved of the assembler and the tokenizer, of the whole build, and `LoadsWhatWasSaved`. There are
three assumptions. There is a file name (`ByNameAssumption`). Files are lines of what `tokenizeLine`
makes of a line that has a token, and an include with one string names a file
(`ProjectsAssumption`); which name it is does not matter, since an include of a file that
is not there puts in nothing. And sections are those a section directive
can name (`SectionsAssumption`, true of the enumeration in the code).

- `PostTypes` says what a line may be, at every turn of every pass: it has a token, its
  tokens have the values the tokenizer gives, or it is an include. The passes cut lines, splice
  them, put the lines of one file into another, and flatten. `ProgramHandedOn` shows from it that
  what is left when they end is a program. Until `parse` begins the assembler has read
  nothing (`Unread`), which satisfies its invariant, so that `BuildInv` is the
  invariant of both.
- A block of the file stays where its header says while others are added behind it, and
  the header that is written back is in front of all of them (`FileHolds`, `BlockPut`,
  `BlockStays`). An absent section is told from an empty one by the zero in its header.
  Little-endian and big-endian words are read back from their digits (`FourBytes`,
  `BigFour`); `WordMod` being a power of two enters by the cardinality of power sets
  (`PowerSum`), there being no other power in the library that can be reasoned about.
- Records of debug information have no length in front: the reader finds the next by the
  zero that ends the last one's string. `InfoBlocks` places the records by the sum of their
  lengths, `InfoRead` shows that a record is read where it begins and ends where it ends, and
  `Turns` that the n-th turn of the loop is at the n-th record with the first n read.
- `SavedInv` is what keeps it: once there is a file, it is that of the layout there is, and what
  has been loaded was loaded from it.

What a fold, a flattening or a loop of the reader computes needs induction over numbers, and
the induction theorems of the library cannot be instantiated here. `LeastNumber` takes its
place: a set of counterexamples has a least member by `WFMin`, which speaks of a set and not
of an operator (`NumbersOf`, `WalkGrows`, `FlattenedBy`, `Turns`).

Attempts to prove also changed the models. `LabelsFindTheirLine` was wrong of a label
before an `.ascii` of an empty string, which has no byte (`HasBytes`); `DebugInfoNamesLine` and
`LoadsWhatWasSaved` said nothing of sections and files that do not fit, and are false of
them; `RefusedForCause` did not know that `_start` is defined already. The run `build`
contains the first and the last case now. The arms of `CategoryAt` overlapped: a name
before a colon is also one that is no instruction, and a `CASE` leaves open which arm is
taken, while the code decides by their order.

Only model-checked: liveness (`EverythingIsEchoed`, `HandlerReturns`, `PromptReturns`,
`ReadsEnd`), because fairness and `ENABLED` are out of the prover's reach; `FaultsCanBeSkipped`,
which holds of the handler in the run and not of every handler; everything about `Cpu`
and `Cp1`, and `Toolchain` on top of them, whose bitwise operators are recursive in the
community modules. `ScopesRespected` and `AllTextKept` are not proved either. They speak
of where a token comes from, through passes that say nothing of it, and are counted by
folds over the files; and mangled names are strings joined together, whose equality no
backend decides.

## 5. Findings

1. `TypedCharsInterrupt` (`S/simulator.cpp:135`): a character latched before interrupts
   are enabled raises none, and blocks the input behind it.
2. `ContinueStopsAtBreakpoints` (`mdb/debug_simulator.cpp:284`): `next`, `finish` and
   `run` replace a user breakpoint by one that is erased at the next stop.
3. `GlobalMainRunsFirst` (`A/parser.cpp:42`): a `main` named by `.globl` is not where
   execution starts, unlike a local one and unlike what README.md:47 says.
4. `LogicalShifts` (`S/cpu.cpp:154`): `srl` and `srlv` shift the sign in.
5. `DoublesLoadAsWritten` (`libmasm/src/util/conversion.cpp:52`): `.double` puts the upper
   word first, `ldc1` reads the lower one first.

Other departures met while modelling. The models contain those marked *m*; no run is made
for them, since no document of the repository decides.

Simulator and debugger:
- a stale system breakpoint stops a later `continue` (`mdb/debug_simulator.cpp:119`) *m*;
- pc is decremented after exceptions that were thrown before it was incremented (`:158`) *m*;
- a misaligned fetch escapes `step` (`S/simulator.cpp:145`) *m*;
- `bc1t` and `bc1f` do not extend the sign of their offset (`S/simulator.cpp:195`), so a
  backward branch goes forward by almost 2^18 bytes *m*;
- an odd register as a double is a `runtime_error`, not an exception the handler sees
  (`S/cp1.cpp:35`) *m*; a register number beyond 31 is accepted and cut to five bits
  (`S/cp1.cpp:62`).

System calls and console:
- a heap request that takes the heap pointer to 2^31, or a negative one that wraps,
  passes the signed comparison with `$sp` (`S/syscalls.cpp:198`, `S/heap.cpp:41`): a block
  that reaches past the stack is granted. The modules keep to smaller requests;
- `readString` leaves the byte of a deleted character, writes no terminator, and stops at
  its length with the rest of the line unread (`S/syscalls.cpp:180-190`) *m*;
- an escape is echoed as four characters, of which a DEL erases one (*m*), and a read that
  does not begin right after output lets a DEL erase what an earlier read got (*m*):
  `ShownIsRead` has the premise `fresh`;
- `read()` returning -1 is stored in an unsigned number and taken for a character
  (`libmasm/src/io/consoleio.cpp:193-195`); a sleep beyond 2^31 microseconds overflows
  (`S/syscalls.cpp:237`); `randIntRange` with a negative bound is undefined
  (`libmasm/include/masm/simulator/syscalls.hpp:32`).

Tokenizer and post-processor:
- a colon or a mark that stands alone (`main : nop`) leaves its category to the next token,
  so that `nop` becomes a label (`A/tokenizer.cpp:218`) *m*; a comment that touches a word
  is refused (`:138`, `:178`) *m*; a string that ends in an escaped backslash is not closed
  (`:120`) *m*;
- an include on the first line of an included text is not examined, nor is the line after
  an include of an empty file (`A/postprocessor.cpp:359`) *m*: `parse` refuses what is left;
- including a file that is not on the command line puts in nothing, silently (`:357`) *m*;
  a file that includes itself copies a vector into itself *m*;
- a macro call of two tokens makes a vector of negative length (`:277`) *m*;
- the same `.globl` in two files with one definition is refused (`:86`) *m*;
- after an expansion inside its body, an unmatched macro is reported through a reference
  to a line that has moved (`:305-320`).

Assembler:
- the iterator of `mul` (`A/parser.cpp:450`) *m*;
- whether there is a jump to `main` depends on the file of the first line: an include on
  the first line hides a file's `main` (`A/parser.cpp:42`) *m*; a program without lines
  reads the first one all the same;
- `$fp` is looked up among the floating point registers and refused (`A/parser.cpp:175`) *m*;
- an integer beyond the range of `int` in a directive leaves `parse` as a
  `std::out_of_range` (`A/directive.cpp:165`) *m*;
- every argument of a directive gets the padding of the first (`A/directive.cpp:163`) *m*;
- a jump to an address beyond 2^26 loses its upper bits (`A/parser.cpp:285`) *m*;
- `stringifyLayout` throws for text without debug information (`A/serialization.cpp`).

## 6. Not modelled

- Hex numbers, the escapes in strings, and separators after the tokenizer: where only the
  number or place of separators makes an error, the error is left out.
- The results of floating point arithmetic, the text of numbers, the values of random
  numbers: any of a set of values.
- Registers of one file named where the other is meant (`add.s $t0`), raw parsing (a mode of
  the tests), the packing of instruction fields into words.
- Byte and half access to the MMIO words; `mtc0` to CAUSE and to registers no code reads.
- Switching the terminal to raw mode and back, the right margin of the screen, the Windows
  half of the console.
- The text mdb prints, the parsing of its command lines, and that mdb's commands and the
  program's input come from the same stream (`mdb/debug_simulator.cpp:126`).
- `stringifyLayout`, the refusal of files that are not object files, command lines, the
  Python bindings, the generator of fixtures: I/O and glue.

## 7. Plan

Order of what is left:

1. `ScopesRespected` as a theorem: an invariant of the macro pass that says of each
   mangled name which expansion made it.
2. Byte and half access to the MMIO words in `Simulator`.
3. One input stream for mdb's commands and the program's characters, as an abstract
   channel both draw from.

Runs stay few: a new module's question is joined to an existing run, or replaces one whose
question it contains, whenever that keeps the run within a few minutes.
