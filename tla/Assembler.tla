------------------------------ MODULE Assembler ------------------------------
(***************************************************************************)
(* Parser::parse (parser.cpp) with what it calls in labels.cpp,            *)
(* directive.cpp and instruction.cpp: three passes over the tokenized      *)
(* lines of a program.  The first gives the labels their addresses from    *)
(* the sizes of what is to come, the second expands the pseudo             *)
(* instructions, the third lays out the bytes.  Nothing but the            *)
(* arithmetic of sizes makes the first and the third agree.                *)
(*                                                                         *)
(* A program is a sequence of the lines of module Tokens.  An encoded      *)
(* instruction keeps its fields as a record, masked to the width the code  *)
(* gives them; registers keep their names.                                 *)
(***************************************************************************)
EXTENDS MachineWord, Instructions, Sequences, TLC

CONSTANTS
  Programs,     \* the tokenized, postprocessed programs to assemble
  Offset        \* memSectionOffset of the sections a program can name

Sections == DOMAIN Offset

Directives == {"align", "ascii", "asciiz", "byte", "double", "float", "half",
               "space", "word"}

(* What the post-processor can hand to parse: lines that start with what   *)
(* the parser knows, or with anything, and operands, labels of any name.   *)
IsOperand(a) ==
  /\ a.cat \in {"reg", "imm", "ref", "str", "other"}
  /\ a.cat = "imm" => a.imm \in Int
  /\ a.cat = "str" => a.len \in Nat
AreOperands(args) ==
  /\ args \in Seq({args[k] : k \in DOMAIN args})
  /\ \A k \in DOMAIN args : IsOperand(args[k])
IsSourceLine(l) ==
  /\ l = LineFrom(l.file, l.src, l.cat, l.name, l.args)
  /\ l.cat \in {"section", "alloc", "instr", "label", "other"}
  /\ l.cat = "section" => l.name \in Sections
  /\ l.cat = "alloc"   => l.name \in Directives
  /\ AreOperands(l.args)
IsProgram(p) ==
  /\ p \in Seq({p[k] : k \in DOMAIN p})
  /\ \A k \in DOMAIN p : IsSourceLine(p[k])

(* Sections start at multiples of the largest alignment, none at address 0. *)
ASSUME OffsetAssumption   == \A s \in Sections : /\ Offset[s] \in Word \ {0}
                                                 /\ Offset[s] % 8 = 0
ASSUME TextAssumption     == "text" \in Sections
ASSUME ProgramsAssumption == \A p \in Programs : IsProgram(p)

VARIABLES
  program,      \* the source lines
  lines,        \* modifiedTokenLines
  capacity,     \* of the vector that holds them
  at,           \* the line the pass is at
  section,      \* currSection
  sizes,        \* memSizes, of the first pass
  pending,      \* pendingLabels
  labels,       \* labelMap
  layout,       \* layout.data: the cells of each section
  debugInfo,    \* layout.debugInfo: the line and a label of an address
  phase,        \* the pass, or how parse ended
  reason        \* what a MasmSyntaxError is about

passVars == <<at, section>>
mapVars  == <<sizes, pending, labels>>
textVars == <<lines, capacity>>
outVars  == <<layout, debugInfo>>
asmVars  == <<program, passVars, mapVars, textVars, outVars, phase, reason>>

-----------------------------------------------------------------------------
(* Directives. *)

ItemSize(name) ==
  CASE name \in {"byte", "ascii", "asciiz", "space"} -> 1
    [] name = "half"               -> 2
    [] name \in {"word", "float"}  -> 4
    [] name = "double"             -> 8

(* The wrong way round, and right for all that is aligned. *)
PaddingBackwards(loc, align) == loc % align
(* parseAllocBlock *)
Padding(loc, align) == (align - (loc % align)) % align

SingleArg == {"asciiz", "ascii", "space", "align"}
Integral  == {"byte", "half", "word", "space", "align"}

(* validateAllocDirective and the std::stoi that follow it: an integer     *)
(* that does not fit an int throws std::out_of_range, which nobody up to   *)
(* parse's caller turns into a syntax error.                               *)
AllocFault(name, args) ==
  LET cats == {args[k].cat : k \in DOMAIN args}
  IN  IF \/ args = <<>>
         \/ name \in SingleArg /\ Len(args) # 1
         \/ cats # {IF name \in {"asciiz", "ascii"} THEN "str" ELSE "imm"}
      THEN "malformed"
      ELSE IF name \in Integral /\ \E k \in DOMAIN args : ~FitsInt(args[k].imm)
      THEN "escaped"
      ELSE IF \/ name = "align" /\ args[1].imm \notin 0 .. 3
              \/ name = "space" /\ args[1].imm <= 0
      THEN "malformed"
      ELSE "none"

(* A byte of the layout: which byte of which argument of which line it is  *)
(* (bytes before 0 are padding).                                           *)
Cell(no, arg, byte, val) ==
  [line |-> no, arg |-> arg, byte |-> byte, val |-> val]

(* The padding left out of the labels of a directive, as it could be. *)
PaddingForgotten(loc, name) == 0
PaddingBefore(loc, name) ==
  IF name = "align" THEN 0 ELSE Padding(loc, ItemSize(name))

(* The values a directive lays out; a character is 1, a float its bits.    *)
ItemValues(name, args) ==
  CASE name = "asciiz" -> [k \in 1 .. args[1].len + 1 |->
                             IF k > args[1].len THEN 0 ELSE 1]
    [] name = "ascii"  -> [k \in 1 .. args[1].len |-> 1]
    [] name = "space"  -> [k \in 1 .. args[1].imm |-> 0]
    [] OTHER           -> [k \in DOMAIN args |-> args[k].imm]

(* The k-th byte in memory of a value of n: of a double the upper word     *)
(* comes first, in either byte order (f64ToBEByte, f64ToLEByte).           *)
ValueByte(v, n, k) ==
  IF n < 8 THEN ByteOf(v, n, k)
  ELSE ByteOf(IF k < 4 THEN v \div WordMod ELSE v % WordMod, 4, k % 4)

(* parsePaddedAllocDirective: every argument gets the padding that the     *)
(* place of the first one calls for.                                       *)
AllocBlock(loc, name, args, no) ==
  IF name = "align"
  THEN LET pad == Padding(loc, 2 ^ args[1].imm)
       IN  [k \in 1 .. pad |-> Cell(no, 1, k - 1 - pad, 0)]
  ELSE LET size == ItemSize(name)
           pad  == Padding(loc, size)
           vals == ItemValues(name, args)
       IN  [k \in 1 .. Len(vals) * (pad + size) |->
              LET arg  == (k - 1) \div (pad + size) + 1
                  byte == ((k - 1) % (pad + size)) - pad
              IN  Cell(no, arg, byte,
                       IF byte < 0 THEN 0 ELSE ValueByte(vals[arg], size, byte))]

-----------------------------------------------------------------------------
(* The second pass: resolvePseudoInstructions. *)

Zero == Reg("zero")
At   == Reg("at")

ValueOf(arg) == Wrap(IF arg.cat = "ref" THEN labels[arg.ref] ELSE arg.imm)

Instr(name, args) == <<name, args>>

(* A comparison whose operands nobody swaps. *)
BranchLinesUnswapped(x, y, label, checkLt, checkEq) ==
  << Instr("slt", <<At, x, y>>),
     Instr(IF checkEq THEN "beq" ELSE "bne", <<At, Zero, label>>) >>

(* parseBranchPseudoInstruction *)
BranchLines(x, y, label, checkLt, checkEq) ==
  << Instr("slt", IF checkLt THEN <<At, x, y>> ELSE <<At, y, x>>),
     Instr(IF checkEq THEN "beq" ELSE "bne", <<At, Zero, label>>) >>

(* The operands of a three register division exchanged. *)
AliasLinesSwapped(name, a) ==
  IF name \in {"div", "divu"}
  THEN << Instr(name, <<a[3], a[2]>>), Instr("mflo", <<a[1]>>) >>
  ELSE << Instr("lui", <<At, Imm(UpperHalf(ValueOf(a[2])))>>),
          Instr(name, <<a[1], At, Imm(LowerHalf(ValueOf(a[2])))>>) >>

AliasLines(name, a) ==
  IF name \in {"div", "divu"}
  THEN << Instr(name, <<a[2], a[3]>>), Instr("mflo", <<a[1]>>) >>
  ELSE << Instr("lui", <<At, Imm(UpperHalf(ValueOf(a[2])))>>),
          Instr(name, <<a[1], At, Imm(LowerHalf(ValueOf(a[2])))>>) >>

Replacement(name, a) ==
  CASE IsAlias(name, a) -> AliasLines(name, a)
    [] name = "li"   -> << Instr("addiu", <<a[1], Zero, a[2]>>) >>
    [] name = "la"   ->
         << Instr("lui", <<At, Imm(UpperHalf(ValueOf(a[2])))>>),
            Instr("ori", <<a[1], At, Imm(LowerHalf(ValueOf(a[2])))>>) >>
    [] name = "move" -> << Instr("addu", <<a[1], Zero, a[2]>>) >>
    [] name = "mul"  -> << Instr("mult", <<a[2], a[3]>>),
                           Instr("mflo", <<a[1]>>) >>
    [] name = "subi" -> << Instr("addi", <<a[1], a[2],
                                           Imm(Wrap(-a[3].imm))>>) >>
    [] name = "nop"  -> << Instr("sll", <<Zero, Zero, Imm(0)>>) >>
    [] name = "beqz" -> << Instr("beq", <<a[1], Zero, a[2]>>) >>
    [] name = "bnez" -> << Instr("bne", <<a[1], Zero, a[2]>>) >>
    [] name \in BranchPseudo ->
         BranchLines(a[1], a[2], a[3], name \in {"blt", "bge"},
                     name \in {"ble", "bge"})
    [] name \in BranchZeroPseudo ->
         BranchLines(a[1], Zero, a[2], name \in {"bltz", "bgez"},
                     name \in {"blez", "bgez"})

ReplacementLines(line) ==
  LET new == Replacement(line.name, line.args)
  IN  [k \in DOMAIN new |->
         [line EXCEPT !.name = new[k][1], !.args = new[k][2], !.part = k]]

-----------------------------------------------------------------------------
(* The third pass: parseInstruction and what encodes the fields. *)

(* Every name that starts with an f is looked up in the floating point     *)
(* registers, so $fp is not found.                                         *)
Registers == {"zero", "at", "v0", "a0", "t0", "t1", "t2", "sp", "ra",
              "f0", "f1", "f2", "f3"}

BranchOffset(loc, target) == Signed(target - loc - 4) \div 4

ResolvedArgs(args) ==
  [k \in DOMAIN args |->
     IF args[k].cat = "ref" THEN Imm(labels[args[k].ref]) ELSE args[k]]

InstrFault(loc, name, args) ==
  CASE Categories(args) \notin Patterns(name) -> "malformed"
    [] OTHER ->
       IF ~(RefsOf(args) \subseteq DOMAIN labels) THEN "unknown label"
       ELSE IF \E k \in DOMAIN args : /\ args[k].cat = "reg"
                                      /\ args[k].reg \notin Registers
       THEN "unknown register"
       ELSE IF /\ name \in I_TYPE_S_T_L \union CP1_TYPE_L
               /\ BranchOffset(loc, labels[args[Len(args)].ref]) \notin
                    -(HalfMod \div 2) .. HalfMod \div 2 - 1
       THEN "branch out of range"
       ELSE "none"

Encoded(op, rs, rt, rd, imm) ==
  [op |-> op, rs |-> rs, rt |-> rt, rd |-> rd, imm |-> imm]

Encoding(loc, name, args) ==
  LET a    == ResolvedArgs(args)
      r(k) == a[k].reg
      i(k) == a[k].imm % HalfMod
      Z    == "zero"
  IN  CASE name \in R_TYPE_D_S_T -> Encoded(name, r(2), r(3), r(1), 0)
        [] name \in R_TYPE_D_T_S -> Encoded(name, r(3), r(2), r(1), 0)
        [] name \in R_TYPE_D_T_H -> Encoded(name, Z, r(2), r(1), a[3].imm % W)
        [] name \in R_TYPE_D     -> Encoded(name, Z, Z, r(1), 0)
        [] name \in R_TYPE_S     -> Encoded(name, r(1), Z, Z, 0)
        [] name \in R_TYPE_S_T   -> Encoded(name, r(1), r(2), Z, 0)
        [] name \in I_TYPE_T_S_I -> Encoded(name, r(2), r(1), Z, i(3))
        [] name \in I_TYPE_S_T_L ->
             Encoded(name, r(1), r(2), Z,
                     BranchOffset(loc, a[3].imm) % HalfMod)
        [] name \in I_TYPE_T_I   -> Encoded(name, Z, r(1), Z, i(2))
        [] name \in J_TYPE_L     ->
             Encoded(name, Z, Z, Z, (a[1].imm % 2 ^ JBits) \div 4)
        [] name \in CP0_TYPE_T_D -> Encoded(name, Z, r(1), r(2), 0)
        [] name \in CP1_TYPE_D_S   -> Encoded(name, r(2), Z, r(1), 0)
        [] name \in CP1_TYPE_D_S_T -> Encoded(name, r(2), r(3), r(1), 0)
        [] name \in CP1_TYPE_S_T_C -> Encoded(name, r(1), r(2), Z, 0)
        [] name \in CP1_TYPE_T_S   -> Encoded(name, r(2), r(1), Z, 0)
        [] name \in CP1_TYPE_T_S_I -> Encoded(name, r(2), r(1), Z, i(3))
        [] name \in CP1_TYPE_L     ->
             Encoded(name, Z, Z, Z, BranchOffset(loc, a[1].imm) % HalfMod)
        [] name = "break"        ->
             Encoded(name, Z, Z, Z, IF a = <<>> THEN 0 ELSE a[1].imm % 2 ^ (H + 4))
        [] name \in {"syscall", "eret"} -> Encoded(name, Z, Z, Z, 0)

InstrBlock(loc, line) ==
  [k \in 1 .. 4 |->
     [line |-> line.no, arg |-> line.part, byte |-> k - 1,
      word |-> Encoding(loc, line.name, line.args)]]

-----------------------------------------------------------------------------
(* Parser::parse *)

(* The main that parse looks for is one of the file of the first line. *)
MangledMain == MangleLabel("main", program[1].file)
JumpToMain  == Line("instr", "j", <<Ref(MangledMain)>>)

Idle ==
  /\ lines = <<>> /\ capacity = 0
  /\ at = 1 /\ section = "text"
  /\ sizes = [s \in Sections |-> 0]
  /\ pending = {} /\ labels = <<>>
  /\ layout = [s \in Sections |-> <<>>]
  /\ debugInfo = <<>> /\ reason = "none"

Init == program \in Programs /\ phase = "start" /\ Idle

Begin ==
  /\ phase = "start"
  /\ lines' = <<Line("instr", "nop", <<>>)>>
              \o [k \in DOMAIN program |-> [program[k] EXCEPT !.no = k]]
  /\ capacity' = 2 * Len(program)     \* the copy was full when nop came in
  /\ labels' = [l \in {"_start"} |-> Offset["text"]]
  /\ phase' = "labels"
  /\ UNCHANGED <<program, passVars, sizes, pending, outVars, reason>>

Current      == lines[at]
Reading(p)   == phase = p /\ at <= Len(lines)
AllRead(p)   == phase = p /\ at > Len(lines)
NextLine     == at' = at + 1 /\ UNCHANGED <<section, program, phase, reason>>

(* Undefined behaviour: of what comes after, nothing is known.             *)
Lost ==
  /\ phase' = "undefined"
  /\ UNCHANGED <<program, passVars, mapVars, textVars, outVars, reason>>

(* A std::runtime_error becomes a MasmSyntaxError, any other leaves parse. *)
Fail(why) ==
  /\ phase' = IF why = "escaped" THEN "escaped" ELSE "refused"
  /\ reason' = why
  /\ UNCHANGED <<program, passVars, mapVars, textVars, outVars>>

EnterSection ==
  /\ \E p \in {"labels", "parse"} : Reading(p)
  /\ Current.cat = "section"
  /\ section' = Current.name /\ at' = at + 1
  /\ UNCHANGED <<program, mapVars, textVars, outVars, phase, reason>>

(* The first pass, LabelMap::populateLabelMap. *)

LabelAt(loc) ==
  [l \in pending \union DOMAIN labels |-> IF l \in pending THEN loc ELSE labels[l]]

Measure(pad, size) ==
  /\ labels' = LabelAt(Offset[section] + sizes[section] + pad)
  /\ pending' = {}
  /\ sizes' = [sizes EXCEPT ![section] = @ + size]
  /\ NextLine
  /\ UNCHANGED <<textVars, outVars>>

(* Before the labels have addresses, every reference is 0. *)
ZeroedArgs(args) ==
  [k \in DOMAIN args |-> IF args[k].cat = "ref" THEN Imm(0) ELSE args[k]]

MeasureAlloc ==
  /\ Reading("labels") /\ Current.cat = "alloc"
  /\ LET name == Current.name
         args == ZeroedArgs(Current.args)
         loc  == sizes[section]
     IN  IF AllocFault(name, args) # "none"
         THEN Fail(AllocFault(name, args))
         ELSE Measure(PaddingBefore(loc, name),
                      Len(AllocBlock(loc, name, args, 0)))

MeasureInstr ==
  /\ Reading("labels") /\ Current.cat = "instr"
  /\ Measure(0, InstrSize(Current.name, Current.args))

DefineLabelUnresolvedUnchecked ==
  /\ Reading("labels") /\ Current.cat = "label"
  /\ IF Current.name \in DOMAIN labels
     THEN Fail("duplicate label")
     ELSE /\ pending' = pending \union {Current.name}
          /\ NextLine
          /\ UNCHANGED <<sizes, labels, textVars, outVars>>

DefineLabelResolvedUnchecked ==
  /\ Reading("labels") /\ Current.cat = "label"
  /\ IF Current.name \in pending
     THEN Fail("duplicate label")
     ELSE /\ pending' = pending \union {Current.name}
          /\ NextLine
          /\ UNCHANGED <<sizes, labels, textVars, outVars>>

DefineLabel ==
  /\ Reading("labels") /\ Current.cat = "label"
  /\ IF Current.name \in DOMAIN labels \union pending
     THEN Fail("duplicate label")
     ELSE /\ pending' = pending \union {Current.name}
          /\ NextLine
          /\ UNCHANGED <<sizes, labels, textVars, outVars>>

(* A name that is no instruction is measured as nothing. *)
MeasureOther ==
  /\ Reading("labels") /\ Current.cat = "other"
  /\ NextLine
  /\ UNCHANGED <<mapVars, textVars, outVars>>

(* The first line of a program that has none. *)
NoFirstLine == AllRead("labels") /\ program = <<>> /\ Lost

StartExpandingAlways ==
  /\ AllRead("labels") /\ program # <<>>
  /\ phase' = "pseudo" /\ at' = 1
  /\ UNCHANGED <<program, section, mapVars, textVars, outVars, reason>>

StartExpanding ==
  /\ AllRead("labels") /\ program # <<>>
  /\ phase' = "pseudo" /\ at' = 1
  /\ lines' = IF MangledMain \in DOMAIN labels
              THEN [lines EXCEPT ![1] = JumpToMain] ELSE lines
  /\ UNCHANGED <<program, section, mapVars, capacity, outVars, reason>>

(* The second pass.  Expanding mul drops the iterator that insert returns: *)
(* when the insertion moved the vector, the loop goes on with an iterator  *)
(* into freed memory.                                                      *)
PseudoFault(name, args) ==
  IF ~IsAlias(name, args) /\ Categories(args) \notin Patterns(name)
  THEN "malformed"
  ELSE IF /\ name \in {"la"} \union Loads \union Stores
          /\ ~(RefsOf(args) \subseteq DOMAIN labels)
  THEN "unknown label"
  ELSE "none"

(* The lines the vector holds at its longest: an alias or a branch inserts *)
(* its two lines before the original is erased.                            *)
Peak(name, args) ==
  Len(lines) + (IF InstrSize(name, args) = 4 THEN 0
                ELSE IF name \in {"la", "mul"} THEN 1 ELSE 2)

KeepLine ==
  /\ Reading("pseudo")
  /\ ~(Current.cat = "instr" /\ IsPseudo(Current.name, Current.args))
  /\ NextLine
  /\ UNCHANGED <<mapVars, textVars, outVars>>

Expand ==
  /\ Reading("pseudo")
  /\ Current.cat = "instr" /\ IsPseudo(Current.name, Current.args)
  /\ LET name  == Current.name
         args  == Current.args
         moved == Peak(name, args) > capacity
     IN  IF PseudoFault(name, args) # "none"
         THEN Fail(PseudoFault(name, args))
         ELSE IF name = "mul" /\ moved
         THEN Lost
         ELSE LET new == ReplacementLines(Current)
              IN  /\ lines' = SubSeq(lines, 1, at - 1) \o new
                              \o SubSeq(lines, at + 1, Len(lines))
                  /\ capacity' = IF moved THEN 2 * capacity ELSE capacity
                  /\ at' = at + Len(new)
                  /\ UNCHANGED <<program, section, mapVars, outVars, phase,
                                 reason>>

StartParsing ==
  /\ AllRead("pseudo")
  /\ phase' = "parse" /\ at' = 1 /\ section' = "text"
  /\ UNCHANGED <<program, mapVars, textVars, outVars, reason>>

(* The third pass, parseLine. *)

MemLoc == Offset[section] + Len(layout[section])

(* lookupLabel: one label of that address (the code takes the first in the *)
(* order of their names), or none.                                         *)
LookupLabel(a) ==
  LET found == {l \in DOMAIN labels : labels[l] = a}
  IN  IF found = {} THEN "" ELSE CHOOSE l \in found : TRUE

Info(line, label) == [file |-> line.file, src |-> line.src, label |-> label]

PlaceKeepingOldInfo(block, info) ==
  /\ layout' = [layout EXCEPT ![section] = @ \o block]
  /\ debugInfo' = debugInfo @@ info
  /\ NextLine
  /\ UNCHANGED <<mapVars, textVars>>

Filed(info) ==
  [a \in (DOMAIN info) \union DOMAIN debugInfo |->
     IF a \in DOMAIN info THEN info[a] ELSE debugInfo[a]]

Place(block, info) ==
  /\ layout' = [layout EXCEPT ![section] = @ \o block]
  /\ debugInfo' = Filed(info)
  /\ NextLine
  /\ UNCHANGED <<mapVars, textVars>>

ParseAlloc ==
  /\ Reading("parse") /\ Current.cat = "alloc"
  /\ IF ~(RefsOf(Current.args) \subseteq DOMAIN labels)
     THEN Fail("unknown label")
     ELSE LET name == Current.name
              args == ResolvedArgs(Current.args)
              loc  == MemLoc + PaddingBefore(MemLoc, name)
          IN  IF AllocFault(name, args) # "none"
              THEN Fail(AllocFault(name, args))
              ELSE Place(AllocBlock(MemLoc, name, args, Current.no),
                         [a \in {loc} |-> Info(Current, LookupLabel(loc))])

(* Only the first instruction of a line is at an address with a label. *)
ParseInstr ==
  /\ Reading("parse") /\ Current.cat = "instr"
  /\ LET fault == InstrFault(MemLoc, Current.name, Current.args)
     IN  IF fault # "none" THEN Fail(fault)
         ELSE Place(InstrBlock(MemLoc, Current),
                    [a \in {MemLoc} |-> Info(Current, LookupLabel(MemLoc))])

PassLabel ==
  /\ Reading("parse") /\ Current.cat = "label"
  /\ NextLine
  /\ UNCHANGED <<mapVars, textVars, outVars>>

RejectToken ==
  /\ Reading("parse") /\ Current.cat = "other"
  /\ Fail("unexpected token")

Finish ==
  /\ AllRead("parse")
  /\ phase' = "done"
  /\ UNCHANGED <<program, passVars, mapVars, textVars, outVars, reason>>

AsmNext ==
  \/ Begin \/ EnterSection \/ NoFirstLine
  \/ MeasureAlloc \/ MeasureInstr \/ DefineLabel \/ MeasureOther
  \/ StartExpanding
  \/ KeepLine \/ Expand
  \/ StartParsing
  \/ ParseAlloc \/ ParseInstr \/ PassLabel \/ RejectToken
  \/ Finish

AsmSpec == Init /\ [][AsmNext]_asmVars

-----------------------------------------------------------------------------
(* Properties. *)

Outcomes == {"tokens", "start", "labels", "pseudo", "parse", "done", "refused", "escaped",
             "undefined"}

(* No section, as the first pass counts it, reaches the next one or the    *)
(* end of memory; parse does not look.                                     *)
SectionsFit ==
  \A s \in Sections :
    /\ Offset[s] + sizes[s] < WordMod
    /\ \A t \in Sections \ {s} : \/ Offset[s] + sizes[s] < Offset[t]
                                \/ Offset[t] + sizes[t] < Offset[s]

(* Types, and what the structures never mix: the program is one of lines   *)
(* the parser knows, the lines fit the vector that holds them, a label     *)
(* that still waits for its address has none yet, addresses are words if   *)
(* sections fit, and every byte comes from a source line.                  *)
AsmTypeOK ==
  /\ IsProgram(program)
  /\ phase \in Outcomes /\ section \in Sections
  /\ at \in 1 .. Len(lines) + 1
  /\ Len(lines) <= capacity \/ program = <<>>
  /\ sizes \in [Sections -> Nat]
  /\ SectionsFit => \A l \in DOMAIN labels : labels[l] \in Word
  /\ pending \cap DOMAIN labels = {}
  /\ \A s \in Sections : \A k \in DOMAIN layout[s] :
       layout[s][k].line \in 0 .. Len(program)

IsItem(line) == line.cat \in {"alloc", "instr"}

(* An .align has only padding, an empty string nothing at all. *)
HasBytes(line) ==
  line.cat = "alloc" => /\ line.name # "align"
                        /\ line.name = "ascii" => line.args[1].len > 0

(* The line whose bytes a label on line d names: the next item. *)
Labelled(d, e) ==
  /\ d < e /\ program[d].cat = "label" /\ IsItem(program[e])
  /\ \A k \in d + 1 .. e - 1 : ~IsItem(program[k])

CellsAt(a) ==
  {layout[s][a - Offset[s] + 1] :
     s \in {t \in Sections : a - Offset[t] + 1 \in DOMAIN layout[t]}}

(* The two passes of the assembler agree: the address the first pass gave  *)
(* a label is where the third pass put the first byte of what follows it,  *)
(* if it has any.                                                          *)
LabelsFindTheirLine ==
  phase = "done" =>
    \A d, e \in DOMAIN program : Labelled(d, e) =>
      /\ program[d].name \in DOMAIN labels
      /\ HasBytes(program[e]) =>
           \E c \in CellsAt(labels[program[d].name]) :
             c.line = e /\ c.arg = 1 /\ c.byte = 0

(* The size the first pass counted for each section, from the lines as     *)
(* they are written, is the number of bytes the third pass lays out, from  *)
(* the lines as they are expanded.                                         *)
PassesAgree ==
  phase = "done" => \A s \in Sections : sizes[s] = Len(layout[s])

(* The first value of a directive is at a multiple of its size, wherever   *)
(* the section had got to.                                                 *)
FirstItemsAligned ==
  phase = "done" =>
    \A s \in Sections : \A k \in DOMAIN layout[s] :
      LET c == layout[s][k]
      IN  c.line # 0 /\ c.arg = 1 /\ c.byte = 0
          /\ program[c.line].cat = "alloc" /\ program[c.line].name # "align"
          => (Offset[s] + k - 1) % ItemSize(program[c.line].name) = 0

NamesLine(a, k) == /\ a \in DOMAIN debugInfo
                   /\ debugInfo[a].file = program[k].file
                   /\ debugInfo[a].src = program[k].src

(* The debug information of an address is that of the line whose bytes are *)
(* there, which is what mdb and the error messages use, and where the      *)
(* source has a label, the first byte is filed under a label.              *)
DebugInfoNamesLine ==
  phase = "done" /\ SectionsFit =>
    \A s \in Sections : \A k \in DOMAIN layout[s] :
      LET c == layout[s][k]
          a == Offset[s] + k - 1
      IN  c.line # 0 =>
          /\ "word" \in DOMAIN c /\ c.byte = 0 => NamesLine(a, c.line)
          /\ c.arg = 1 /\ c.byte = 0 =>
               /\ NamesLine(a, c.line)
               /\ (\E d \in DOMAIN program : Labelled(d, c.line)) =>
                    /\ debugInfo[a].label \in DOMAIN labels
                    /\ labels[debugInfo[a].label] = a

LabelLines == {d \in DOMAIN program : program[d].cat = "label"}

(* The first label of a program is that of parse. *)
Duplicated ==
  \/ \E d \in LabelLines : program[d].name = "_start"
  \/ \E d, e \in LabelLines : program[d].name = program[e].name /\ d # e

(* References to labels that no line defines, or that name nothing. *)
Dangling ==
  (UNION {RefsOf(program[k].args) : k \in {e \in DOMAIN program : IsItem(program[e])}})
  \ ({"_start"} \union {program[d].name : d \in {x \in DOMAIN program :
                          \E e \in DOMAIN program : Labelled(x, e)}})

(* A program is assembled only if its labels are each defined once and     *)
(* everything its lines refer to exists; a refusal says which of the two   *)
(* it was.                                                                 *)
RefusedForCause ==
  /\ phase = "done" => ~Duplicated /\ Dangling = {}
  /\ reason = "duplicate label" => Duplicated
  /\ reason = "unknown label" => ~Duplicated /\ Dangling # {}

(* The word the program starts with. *)
FirstWord == layout["text"][1].word

StartsAt(a) ==
  \/ /\ FirstWord.op = "j"
     /\ FirstWord.imm * 4 = a % 2 ^ JBits
  \/ FirstWord.op = "sll" /\ a = Offset["text"] + 4
=============================================================================
