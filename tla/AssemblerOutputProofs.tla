------------------------ MODULE AssemblerOutputProofs ------------------------
(***************************************************************************)
(* More proofs about Assembler, from the invariant of AssemblerProofs: the *)
(* types of what parse builds, why it refuses a program, the instruction   *)
(* it puts first, and what its debug information says of an address.       *)
(***************************************************************************)
EXTENDS AssemblerProofs, WellFoundedInduction, FunctionTheorems,
        FiniteSetTheorems

-----------------------------------------------------------------------------
(* Induction, from the least number principle that the well-foundedness of *)
(* the numbers gives; over a set, because an operator could not be         *)
(* instantiated.                                                           *)

LEMMA LeastNumber ==
  ASSUME NEW T, T \subseteq Nat, T # {}
  PROVE  \E m \in T : \A k \in T : m <= k
<1> DEFINE R == OpToRel(<, Nat)
<1>1. IsWellFoundedOn(R, Nat)
  BY NatLessThanWellFounded
<1> HIDE DEF R
<1>2. PICK m \in T : \A k \in T : ~(<<k, m>> \in R)
  BY <1>1, WFMin
<1>3. \A k \in T : k < m => <<k, m>> \in R
  BY DEF R, OpToRel
<1>4. \A k \in T : ~(k < m)
  BY <1>2, <1>3
<1>5. \A k \in T : k \in Nat /\ m \in Nat
  OBVIOUS
<1> QED BY <1>4, <1>5, SMT

LEMMA NumbersOf ==
  ASSUME NEW S, 0 \in S, \A n \in Nat : n \in S => n + 1 \in S
  PROVE  Nat \subseteq S
<1> DEFINE T == Nat \ S
<1> SUFFICES ASSUME T # {} PROVE FALSE
  OBVIOUS
<1>1. PICK m \in T : \A k \in T : m <= k
  BY LeastNumber
<1> QED BY <1>1, SMT

-----------------------------------------------------------------------------
(* Sections only grow. *)

LEMMA WalkGrows ==
  ASSUME IsProgram(program), NEW g, MeasuredInv(g), NEW q \in 0 .. Len(program) + 1,
         NEW s \in Sections
  PROVE  g[q].sizes[s] \in Nat /\ sizes[s] \in Nat /\ g[q].sizes[s] <= sizes[s]
<1> DEFINE n == Len(program)
           x == [i \in 0 .. n + 1 |-> g[i].sizes[s]]
           S == {j \in Nat : q + j <= n + 1 => x[q] <= x[q + j]}
<1>1. n \in Nat
  BY ProgramFacts
<1>2. \A i \in 0 .. n + 1 : x[i] \in Nat
  BY CountsOnWalk DEF MeasuredInv
<1>3. ASSUME NEW i \in 0 .. n PROVE x[i] <= x[i + 1]
  <2>1. /\ i \in 0 .. n + 1 - 1 /\ i \in 0 .. n + 1 /\ i + 1 \in 0 .. n + 1
    BY <1>1, SMT
  <2>2. g[i + 1] = After(i, g[i]) /\ Sound(i)
    BY <2>1 DEF MeasuredInv, Follows
  <2>3. g[i] \in Counts /\ g[i].sizes \in [Sections -> Nat]
    BY <2>1, CountsOnWalk DEF MeasuredInv, Counts
  <2>4. Growth(i, g[i]) \in Nat
    BY <2>2, <2>3, GrowthIsSize
  <2>5. g[i + 1].sizes[s] = IF s = g[i].sec THEN g[i].sizes[s] + Growth(i, g[i])
                            ELSE g[i].sizes[s]
    BY <2>2, <2>3 DEF After
  <2>6. x[i] = g[i].sizes[s] /\ x[i + 1] = g[i + 1].sizes[s]
    BY <2>1
  <2> HIDE DEF x
  <2>7. x[i] \in Nat
    BY <1>2, <2>1
  <2> QED BY <2>4, <2>5, <2>6, <2>7, SMT
<1> HIDE DEF x
<1>4. Nat \subseteq S
  <2>1. 0 \in S
    <3>1. x[q] <= x[q + 0]
      BY <1>1, <1>2, SMT
    <3> QED BY <3>1
  <2>2. ASSUME NEW j \in Nat, j \in S PROVE j + 1 \in S
    <3> SUFFICES ASSUME q + (j + 1) <= n + 1 PROVE x[q] <= x[q + (j + 1)]
      BY SMT
    <3>1. q + j \in 0 .. n /\ q + j <= n + 1 /\ q + (j + 1) = (q + j) + 1
          /\ q + j \in 0 .. n + 1 /\ q + (j + 1) \in 0 .. n + 1
      BY <1>1, SMT
    <3>2. x[q] <= x[q + j] /\ x[q + j] <= x[(q + j) + 1]
      BY <1>3, <2>2, <3>1
    <3>3. x[q] \in Nat /\ x[q + j] \in Nat /\ x[(q + j) + 1] \in Nat
      BY <1>2, <3>1
    <3> QED BY <3>1, <3>2, <3>3, SMT
  <2> HIDE DEF S
  <2> QED BY <2>1, <2>2, NumbersOf
<1>5. n + 1 - q \in Nat /\ q + (n + 1 - q) = n + 1 /\ n + 1 \in 0 .. n + 1
  BY <1>1, SMT
<1>6. x[q] <= x[n + 1]
  <2>1. n + 1 - q \in S
    BY <1>4, <1>5
  <2>2. q + (n + 1 - q) <= n + 1
    BY <1>1, <1>5, SMT
  <2> QED BY <1>5, <2>1, <2>2
<1>7. x[q] = g[q].sizes[s] /\ x[n + 1] = sizes[s]
  BY <1>5 DEF x, MeasuredInv
<1> QED BY <1>2, <1>5, <1>6, <1>7

-----------------------------------------------------------------------------
(* Types.  A label is nowhere past what its section holds so far.          *)

Held(a) == \E s \in Sections : a <= Offset[s] + sizes[s]

TypeInv ==
  /\ phase \in Outcomes /\ section \in Sections
  /\ at \in 1 .. Len(lines) + 1
  /\ capacity \in Nat /\ (Len(lines) <= capacity \/ program = <<>>)
  /\ sizes \in [Sections -> Nat]
  /\ \A l \in DOMAIN labels : labels[l] \in Nat /\ Held(labels[l])
  /\ pending \cap DOMAIN labels = {}
  /\ \A s \in Sections : \A k \in DOMAIN layout[s] :
       layout[s][k].line \in 0 .. Len(program)

Live == phase \in {"labels", "pseudo", "parse", "done"}

LEMMA LiveLines ==
  ASSUME AsmInv, Live
  PROVE  /\ Sequence(lines) /\ Len(lines) \in Nat /\ Len(lines) > 0
         /\ DOMAIN lines = 1 .. Len(lines) /\ 1 \in DOMAIN lines
         /\ IsProgram(program) /\ Len(program) \in Nat
         /\ DOMAIN program = 1 .. Len(program)
<1>1. IsProgram(program) /\ Len(program) \in Nat /\ DOMAIN program = 1 .. Len(program)
  BY ProgramFacts DEF AsmInv
<1>2. Sequence(lines) /\ Len(lines) > 0
  <2>1. CASE phase = "labels"
    <3>1. PICK g, m : FirstPass(g, m)
      BY <2>1 DEF AsmInv
    <3>2. Sequence(lines) /\ Len(lines) = Len(program) + 1
      BY <3>1 DEF FirstPass
    <3> QED BY <1>1, <3>2, SMT
  <2>2. CASE phase = "pseudo"
    <3>1. PICK g, a : SecondPass(g, a)
      BY <2>2 DEF AsmInv
    <3> QED BY <3>1 DEF SecondPass, LinesInv
  <2>3. CASE phase \in {"parse", "done"}
    <3>1. PICK g, q : ThirdPass(g, q)
      BY <2>3 DEF AsmInv
    <3> QED BY <3>1 DEF ThirdPass, LinesInv
  <2> QED BY <2>1, <2>2, <2>3 DEF Live
<1>3. Len(lines) \in Nat /\ DOMAIN lines = 1 .. Len(lines)
  BY <1>2, LenProperties DEF Sequence
<1> QED BY <1>1, <1>2, <1>3, SMT

LEMMA AtNext ==
  ASSUME AsmInv, Live, TypeInv, at <= Len(lines)
  PROVE  at + 1 \in 1 .. Len(lines) + 1 /\ at \in DOMAIN lines
<1>1. Len(lines) \in Nat /\ at \in 1 .. Len(lines) + 1 /\ DOMAIN lines = 1 .. Len(lines)
  BY LiveLines DEF TypeInv
<1> QED BY <1>1, SMT

(* A step that leaves alone what has been measured and laid out. *)
LEMMA TypesStay ==
  ASSUME TypeInv, program' = program, sizes' = sizes, labels' = labels,
         pending' = pending, layout' = layout,
         phase' \in Outcomes, section' \in Sections, at' \in 1 .. Len(lines') + 1,
         capacity' \in Nat, Len(lines') <= capacity' \/ program = <<>>
  PROVE  TypeInv'
  BY DEF TypeInv, Held, Sections

LEMMA TypesFailed ==
  ASSUME TypeInv, NEW why, Fail(why) \/ Lost
  PROVE  TypeInv'
<1>1. /\ UNCHANGED <<program, at, section, sizes, labels, pending, layout, lines, capacity>>
      /\ phase' \in Outcomes
  BY DEF Fail, Lost, passVars, mapVars, textVars, outVars, Outcomes
<1> QED BY <1>1, TypesStay DEF TypeInv

LEMMA BeginTypes ==
  ASSUME AsmInv, TypeInv, Begin
  PROVE  TypeInv'
<1> DEFINE n == Len(program)
<1>1. /\ IsProgram(program) /\ Idle /\ program' = program /\ phase' = "labels"
      /\ at' = at /\ section' = section /\ sizes' = sizes /\ pending' = pending
      /\ layout' = layout /\ labels' = [l \in {"_start"} |-> Offset["text"]]
      /\ capacity' = 2 * n
  BY DEF AsmInv, Begin, passVars, outVars
<1>2. n \in Nat /\ DOMAIN program = 1 .. n /\ Sequence(program)
  BY <1>1, ProgramFacts
<1>3. Len(lines') = n + 1
  <2> DEFINE nop  == Line("instr", "nop", <<>>)
             rest == [k \in DOMAIN program |-> [program[k] EXCEPT !.no = k]]
  <2>1. Sequence(<<nop>>) /\ Len(<<nop>>) = 1
    <3>1. <<nop>> \in Seq({nop})
      OBVIOUS
    <3> QED BY <3>1, SequenceOf
  <2>2. Sequence(rest) /\ Len(rest) = n
    BY <1>2, FunctionIsSequence
  <2>3. lines' = <<nop>> \o rest
    BY DEF Begin
  <2> HIDE DEF nop, rest
  <2>4. Len(lines') = 1 + n
    BY <2>1, <2>2, <2>3, Joined
  <2> QED BY <1>2, <2>4, SMT
<1>4. at' \in 1 .. Len(lines') + 1 /\ capacity' \in Nat
      /\ (Len(lines') <= capacity' \/ program = <<>>)
  <2>1. at' = 1
    BY <1>1 DEF Idle
  <2>2. n = 0 => program = <<>>
    BY <1>2, EmptySeq DEF Sequence
  <2> QED BY <1>1, <1>2, <1>3, <2>1, <2>2, SMT
<1>5. Held(Offset["text"])' /\ Offset["text"] \in Nat
  <2>1. Offset["text"] \in Nat /\ sizes'["text"] = 0
    BY <1>1, TextAssumption, OffsetFacts DEF Idle
  <2>2. Offset["text"] <= Offset["text"] + sizes'["text"]
    BY <2>1, SMT
  <2> QED BY <2>1, <2>2, TextAssumption DEF Held, Sections
<1>6. \A l \in DOMAIN labels' : labels'[l] \in Nat /\ Held(labels[l])'
  BY <1>1, <1>5 DEF Held
<1>7. pending' = {} /\ phase' \in Outcomes /\ section' \in Sections
  BY <1>1, TextAssumption DEF Idle, Outcomes
<1>8. sizes' \in [Sections -> Nat] /\ (\A s \in Sections : layout'[s] = layout[s])
  BY <1>1 DEF TypeInv
<1> QED BY <1>1, <1>4, <1>6, <1>7, <1>8 DEF TypeInv, Sections

(* The padding of a directive is part of what it lays out. *)
LEMMA PaddingInBlock ==
  ASSUME NEW name \in Directives, NEW args, AreOperands(args),
         AllocFault(name, args) = "none", NEW loc \in Nat
  PROVE  /\ PaddingBefore(loc, name) \in Nat /\ BlockLength(loc, name, args) \in Nat
         /\ PaddingBefore(loc, name) <= BlockLength(loc, name, args)
<1>1. BlockLength(loc, name, args) \in Nat
  BY BlockShape
<1>2. CASE name = "align"
  BY <1>1, <1>2, SMT DEF PaddingBefore
<1>3. CASE name # "align"
  <2> DEFINE size == ItemSize(name)
             pad  == Padding(loc, size)
             n    == ItemCount(name, args)
  <2>1. PaddingBefore(loc, name) = pad /\ BlockLength(loc, name, args) = n * (pad + size)
    BY <1>3 DEF PaddingBefore, BlockLength
  <2>2. size \in {1, 2, 4, 8} /\ n \in Nat
    BY <1>3, ItemSizes, ValuesCounted
  <2>3. pad \in 0 .. size - 1
    <3>1. 0 \in Nat /\ 0 % 8 = 0
      BY SMT
    <3> QED BY <2>2, <3>1, Alignment
  <2>4. CASE n > 0
    <3> HIDE DEF size, pad, n
    <3>1. size \in Nat /\ pad \in Nat
      BY <2>2, <2>3, SMT
    <3>2. PICK j \in Nat : n = j + 1
      <4>1. n - 1 \in Nat /\ n = (n - 1) + 1
        BY <2>2, <2>4, SMT
      <4> QED BY <4>1
    <3>3. j * (pad + size) \in Nat
      BY <3>1, <3>2, SMT
    <3>4. (j + 1) * (pad + size) = j * (pad + size) + (pad + size)
      BY <3>1, <3>2, SMT
    <3>5. PICK y \in Nat : y = j * (pad + size)
      BY <3>3
    <3>6. n * (pad + size) = y + (pad + size)
      BY <3>2, <3>4, <3>5
    <3>7. pad <= y + (pad + size)
      BY <3>1, <3>5, SMT
    <3> QED BY <1>1, <2>1, <3>1, <3>6, <3>7
  <2>5. CASE ~(n > 0)
    <3>1. name = "ascii"
      BY <1>3, <2>5, ValuesCounted
    <3>2. size = 1
      BY <3>1 DEF ItemSize
    <3>3. pad = 0
      BY <2>3, <3>2, SMT
    <3> HIDE DEF size, pad, n
    <3> QED BY <1>1, <2>1, <3>3, SMT
  <2> QED BY <2>4, <2>5
<1> QED BY <1>2, <1>3

LEMMA MeasureTypes ==
  ASSUME AsmInv, TypeInv, phase = "labels", at <= Len(lines),
         NEW pad \in Nat, NEW size \in Nat, pad <= size, Measure(pad, size)
  PROVE  TypeInv'
<1>1. /\ pending' = {} /\ labels' = LabelAt(Offset[section] + sizes[section] + pad)
      /\ sizes' = [sizes EXCEPT ![section] = @ + size]
      /\ at' = at + 1
      /\ UNCHANGED <<program, section, phase, lines, capacity, layout>>
  BY DEF Measure, NextLine, textVars, outVars
<1>2. section \in Sections /\ sizes \in [Sections -> Nat]
  BY DEF TypeInv
<1>3. at' \in 1 .. Len(lines') + 1
  BY <1>1, AtNext DEF Live
<1>4. PICK o \in Nat, n \in Nat : o = Offset[section] /\ n = sizes[section]
  BY <1>2, OffsetFacts
<1>5. sizes' \in [Sections -> Nat] /\ sizes'[section] = n + size
      /\ \A s \in Sections : s # section => sizes'[s] = sizes[s]
  <2>1. n + size \in Nat
    BY <1>4, SMT
  <2> QED BY <1>1, <1>2, <1>4, <2>1
<1>6. ASSUME NEW a \in Nat, Held(a) PROVE Held(a)'
  <2>1. PICK s \in Sections : a <= Offset[s] + sizes[s]
    BY <1>6 DEF Held
  <2>2. Offset[s] \in Nat /\ sizes[s] \in Nat
    BY <1>2, OffsetFacts
  <2>3. a <= Offset[s] + sizes'[s]
    <3>1. CASE s = section
      BY <1>4, <1>5, <2>1, <2>2, <3>1, SMT
    <3>2. CASE s # section
      BY <1>5, <2>1, <3>2
    <3> QED BY <3>1, <3>2
  <2> QED BY <2>3 DEF Held, Sections
<1>7. o + n + pad \in Nat /\ Held(o + n + pad)'
  <2>1. o + n + pad \in Nat /\ o + n + pad <= o + (n + size)
    BY <1>4, SMT
  <2> QED BY <1>2, <1>4, <1>5, <2>1 DEF Held, Sections
<1>8. \A l \in DOMAIN labels' :
        labels'[l] \in Nat /\ \E s \in Sections : labels'[l] <= Offset[s] + sizes'[s]
  <2> SUFFICES ASSUME NEW l \in DOMAIN labels'
               PROVE  labels'[l] \in Nat /\ \E s \in Sections : labels'[l] <= Offset[s] + sizes'[s]
    OBVIOUS
  <2>1. /\ DOMAIN labels' = pending \union DOMAIN labels
        /\ l \in pending => labels'[l] = o + n + pad
        /\ l \in DOMAIN labels \ pending => labels'[l] = labels[l]
    BY <1>1, <1>4, LabelAtFacts
  <2>2. CASE l \in pending
    BY <1>7, <2>1, <2>2 DEF Held, Sections
  <2>3. CASE l \in DOMAIN labels \ pending
    <3>1. labels[l] \in Nat /\ Held(labels[l])
      BY <2>3 DEF TypeInv
    <3>2. PICK a \in Nat : a = labels[l]
      BY <3>1
    <3>3. Held(a)'
      BY <1>6, <3>1, <3>2
    <3>4. labels'[l] = a
      BY <2>1, <2>3, <3>2
    <3> QED BY <3>3, <3>4 DEF Held, Sections
  <2> QED BY <2>1, <2>2, <2>3
<1> QED BY <1>1, <1>3, <1>5, <1>8 DEF TypeInv, Held, Sections

LEMMA MeasureAllocTypes ==
  ASSUME AsmInv, TypeInv, MeasureAlloc
  PROVE  TypeInv'
<1> DEFINE name == Current.name
           args == ZeroedArgs(Current.args)
           loc  == sizes[section]
<1>1. phase = "labels" /\ at <= Len(lines) /\ Current.cat = "alloc"
  BY DEF MeasureAlloc, Reading
<1>2. PICK g, m : FirstPass(g, m)
  BY <1>1 DEF AsmInv
<1>3. /\ IsProgram(program) /\ Written(Current) /\ Current.no = m
      /\ section \in Sections /\ sizes \in [Sections -> Nat]
  BY <1>1, <1>2, FirstPassAt DEF AsmInv
<1>4. /\ m \in DOMAIN program /\ program[m].cat = "alloc"
      /\ name = program[m].name /\ args = ZeroedArgs(program[m].args)
  <2>1. m # 0
    BY <1>1, <1>3, WrittenFacts
  <2> QED BY <1>1, <1>3, <2>1, WrittenFacts
<1>5. CASE AllocFault(name, args) # "none"
  BY <1>5, TypesFailed DEF MeasureAlloc
<1>6. CASE AllocFault(name, args) = "none"
  <2>1. Measure(PaddingBefore(loc, name), Len(AllocBlock(loc, name, args, 0)))
    BY <1>6 DEF MeasureAlloc
  <2>2. name \in Directives /\ AreOperands(args)
    BY <1>3, <1>4, SourceFacts, ZeroedOperands
  <2>3. loc \in Nat
    BY <1>3
  <2>4. Len(AllocBlock(loc, name, args, 0)) = BlockLength(loc, name, args)
    BY <1>6, <2>2, <2>3, BlockShape
  <2>5. /\ PaddingBefore(loc, name) \in Nat /\ BlockLength(loc, name, args) \in Nat
        /\ PaddingBefore(loc, name) <= BlockLength(loc, name, args)
    BY <1>6, <2>2, <2>3, PaddingInBlock
  <2> HIDE DEF name, args, loc
  <2> QED BY <1>1, <2>1, <2>4, <2>5, MeasureTypes
<1> QED BY <1>5, <1>6

LEMMA MeasureInstrTypes ==
  ASSUME AsmInv, TypeInv, MeasureInstr
  PROVE  TypeInv'
<1>1. /\ phase = "labels" /\ at <= Len(lines)
      /\ Measure(0, InstrSize(Current.name, Current.args))
  BY DEF MeasureInstr, Reading
<1>2. InstrSize(Current.name, Current.args) \in {4, 8}
  BY SizesOfInstr
<1>3. PICK size : size = InstrSize(Current.name, Current.args)
  OBVIOUS
<1>4. size \in Nat /\ 0 <= size /\ Measure(0, size)
  BY <1>1, <1>2, <1>3, SMT
<1> QED BY <1>1, <1>4, MeasureTypes

(* The directive the third pass reads. *)
LEMMA ParsedDirective ==
  ASSUME AsmInv, phase = "parse", at <= Len(lines), Current.cat = "alloc"
  PROVE  /\ Current.no \in DOMAIN program /\ ~IsInstr(Current.no)
         /\ Current.part = 1 /\ Written(Current) /\ Current.name \in Directives
         /\ LabelsPlaced /\ AreOperands(Current.args)
         /\ RefsOf(Current.args) \subseteq DOMAIN labels =>
              AreOperands(ResolvedArgs(Current.args))
<1>1. PICK g, q : ThirdPass(g, q)
  BY DEF AsmInv
<1>2. IsProgram(program) /\ Current.no = q /\ Expanded(Current)
  BY <1>1, ThirdPassAt DEF AsmInv
<1>3. ~IsInstr(q) /\ q # 0 /\ Written(Current)
  BY <1>2 DEF Expanded, IsInstr
<1>4. /\ q \in DOMAIN program /\ Current.cat = program[q].cat
      /\ Current.name = program[q].name /\ Current.args = program[q].args
      /\ Current.part = 1
  BY <1>2, <1>3, WrittenFacts
<1>5. Current.name \in Directives /\ AreOperands(Current.args)
  BY <1>2, <1>4, SourceFacts
<1>6. LabelsPlaced
  BY <1>1 DEF ThirdPass, MeasuredInv, LabelsInv
<1> QED BY <1>2, <1>3, <1>4, <1>5, <1>6, ResolvedOperands

(* Where the third pass is, and what its section holds. *)
LEMMA ParsedSections ==
  ASSUME AsmInv, phase \in {"parse", "done"}
  PROVE  /\ DOMAIN layout = Sections /\ section \in Sections
         /\ \A s \in Sections :
              /\ Sequence(layout[s]) /\ Len(layout[s]) \in Nat
              /\ DOMAIN layout[s] = 1 .. Len(layout[s])
              /\ Offset[s] \in Nat
         /\ MemLoc = Offset[section] + Len(layout[section]) /\ MemLoc \in Nat
<1>1. PICK g, q : ThirdPass(g, q)
  BY DEF AsmInv
<1>2. LayoutInv(g, q) /\ MeasuredInv(g)
  BY <1>1 DEF ThirdPass
<1>3. q \in 0 .. Len(program) + 1
  <2>1. Len(program) \in Nat /\ IsProgram(program) /\ Len(lines) \in Nat
    BY LiveLines DEF Live
  <2>2. CASE at <= Len(lines)
    <3>1. q \in 0 .. Len(program)
      BY <1>1, <2>1, <2>2, ThirdPassAt
    <3> QED BY <2>1, <3>1, SMT
  <2>3. CASE ~(at <= Len(lines))
    <3>1. q = Len(program) + 1
      BY <1>1, <2>3 DEF ThirdPass, NoAt
    <3> QED BY <2>1, <3>1, SMT
  <2> QED BY <2>2, <2>3
<1>4. section \in Sections
  BY <1>2, <1>3, CountsOnWalk DEF LayoutInv, MeasuredInv
<1>5. \A s \in Sections :
        /\ Sequence(layout[s]) /\ Len(layout[s]) \in Nat
        /\ DOMAIN layout[s] = 1 .. Len(layout[s])
        /\ Offset[s] \in Nat
  BY <1>2, LenProperties, OffsetFacts DEF LayoutInv, Sequence
<1>6. Offset[section] + Len(layout[section]) \in Nat
  BY <1>4, <1>5, SMT
<1> QED BY <1>2, <1>4, <1>5, <1>6 DEF LayoutInv, MemLoc

LEMMA PlaceTypes ==
  ASSUME AsmInv, TypeInv, phase = "parse", at <= Len(lines),
         NEW block, NEW info, Place(block, info), Sequence(block),
         \A k \in DOMAIN block : block[k].line \in 0 .. Len(program)
  PROVE  TypeInv'
<1>1. /\ layout' = [layout EXCEPT ![section] = @ \o block] /\ at' = at + 1
      /\ UNCHANGED <<program, section, phase, sizes, pending, labels, lines, capacity>>
  BY DEF Place, NextLine, mapVars, textVars
<1>2. at' \in 1 .. Len(lines') + 1
  BY <1>1, AtNext DEF Live
<1>3. DOMAIN layout = Sections /\ section \in Sections /\ Sequence(layout[section])
  BY ParsedSections
<1>4. \A s \in Sections : \A k \in DOMAIN layout'[s] :
        layout'[s][k].line \in 0 .. Len(program)
  <2> SUFFICES ASSUME NEW s \in Sections, NEW k \in DOMAIN layout'[s]
               PROVE  layout'[s][k].line \in 0 .. Len(program)
    OBVIOUS
  <2>1. CASE s # section
    BY <1>1, <1>3, <2>1 DEF TypeInv
  <2>2. CASE s = section
    <3> DEFINE x == layout[section]
    <3>1. layout'[s] = x \o block
      BY <1>1, <1>3, <2>2
    <3>2. \A j \in DOMAIN x : x[j].line \in 0 .. Len(program)
      BY <1>3 DEF TypeInv
    <3>3. Sequence(x)
      BY <1>3
    <3> HIDE DEF x
    <3>4. /\ Len(x) \in Nat /\ Len(block) \in Nat
          /\ DOMAIN x = 1 .. Len(x) /\ DOMAIN block = 1 .. Len(block)
          /\ DOMAIN (x \o block) = 1 .. Len(x) + Len(block)
          /\ \A j \in 1 .. Len(x) : (x \o block)[j] = x[j]
          /\ \A j \in 1 .. Len(block) : (x \o block)[Len(x) + j] = block[j]
      BY <3>3, Joined
    <3>5. CASE k \in 1 .. Len(x)
      BY <3>1, <3>2, <3>4, <3>5
    <3>6. CASE k \notin 1 .. Len(x)
      <4>1. k \in 1 .. Len(x) + Len(block)
        BY <3>1, <3>4
      <4>2. PICK j \in 1 .. Len(block) : k = Len(x) + j
        <5>1. k - Len(x) \in 1 .. Len(block) /\ k = Len(x) + (k - Len(x))
          BY <3>4, <3>6, <4>1, SMT
        <5> QED BY <5>1
      <4> QED BY <3>1, <3>4, <4>2
    <3> QED BY <3>5, <3>6
  <2> QED BY <2>1, <2>2
<1> QED BY <1>1, <1>2, <1>4 DEF TypeInv, Held, Sections

LEMMA ParseTypes ==
  ASSUME AsmInv, TypeInv, ParseAlloc \/ ParseInstr
  PROVE  TypeInv'
<1>1. phase = "parse" /\ at <= Len(lines)
  BY DEF ParseAlloc, ParseInstr, Reading
<1>2. CASE ParseAlloc
  <2> DEFINE args  == ResolvedArgs(Current.args)
             block == AllocBlock(MemLoc, Current.name, args, Current.no)
  <2>1. Current.cat = "alloc"
    BY <1>2 DEF ParseAlloc
  <2>2. CASE ~(RefsOf(Current.args) \subseteq DOMAIN labels)
    BY <1>2, <2>2, TypesFailed DEF ParseAlloc
  <2>3. CASE AllocFault(Current.name, args) # "none"
    BY <1>2, <2>3, TypesFailed DEF ParseAlloc
  <2>4. CASE /\ RefsOf(Current.args) \subseteq DOMAIN labels
             /\ AllocFault(Current.name, args) = "none"
    <3>1. PICK info : Place(block, info)
      BY <1>2, <2>4 DEF ParseAlloc
    <3>2. /\ Current.no \in DOMAIN program /\ Current.name \in Directives
          /\ AreOperands(args)
      BY <1>1, <2>1, <2>4, ParsedDirective
    <3>3. MemLoc \in Nat
      BY <1>1, ParsedSections
    <3>4. Sequence(block) /\ \A k \in DOMAIN block : block[k].line = Current.no
      BY <2>4, <3>2, <3>3, BlockShape
    <3>5. Current.no \in 0 .. Len(program)
      <4>1. Len(program) \in Nat /\ DOMAIN program = 1 .. Len(program)
        BY <1>1, LiveLines DEF Live
      <4> QED BY <3>2, <4>1, SMT
    <3> HIDE DEF block, args
    <3> QED BY <1>1, <3>1, <3>4, <3>5, PlaceTypes
  <2> QED BY <2>2, <2>3, <2>4
<1>3. CASE ParseInstr
  <2> DEFINE block == InstrBlock(MemLoc, Current)
  <2>1. CASE InstrFault(MemLoc, Current.name, Current.args) # "none"
    BY <1>3, <2>1, TypesFailed DEF ParseInstr
  <2>2. CASE InstrFault(MemLoc, Current.name, Current.args) = "none"
    <3>1. PICK info : Place(block, info)
      BY <1>3, <2>2 DEF ParseInstr
    <3>2. PICK g, q : ThirdPass(g, q)
      BY <1>1 DEF AsmInv
    <3>3. Current.no \in 0 .. Len(program)
      BY <1>1, <3>2, ThirdPassAt DEF AsmInv
    <3>4. block = [k \in 1 .. 4 |->
                     [line |-> Current.no, arg |-> Current.part, byte |-> k - 1,
                      word |-> Encoding(MemLoc, Current.name, Current.args)]]
      BY DEF InstrBlock
    <3> HIDE DEF block
    <3>5. \A k \in DOMAIN block : block[k].line = Current.no
      BY <3>4
    <3>6. Sequence(block)
      <4>1. 4 \in Nat /\ block = [k \in 1 .. 4 |-> block[k]]
        BY <3>4
      <4> QED BY <4>1, FunctionIsSequence
    <3> QED BY <1>1, <3>1, <3>3, <3>5, <3>6, PlaceTypes
  <2> QED BY <2>1, <2>2
<1> QED BY <1>2, <1>3

(* What Expand does, where it goes on. *)
SplicesIn(t) ==
  /\ Sequence(lines') /\ Len(lines') = Len(lines) + Len(t) - 1
  /\ \A i \in 1 .. at - 1 : lines'[i] = lines[i]
  /\ \A k \in 1 .. Len(t) : lines'[at - 1 + k] = t[k]
  /\ \A j \in at + 1 .. Len(lines) : lines'[j + Len(t) - 1] = lines[j]
  /\ at' = at + Len(t)

LEMMA ExpandFacts ==
  ASSUME AsmInv, Expand, ~Lost, \A why : ~Fail(why)
  PROVE  /\ phase = "pseudo" /\ at \in DOMAIN lines /\ Written(Current)
         /\ Current.cat = "instr" /\ IsPseudo(Current.name, Current.args)
         /\ PseudoFault(Current.name, Current.args) = "none"
         /\ Len(ReplacementLines(Current)) \in {1, 2}
         /\ 4 * Len(ReplacementLines(Current)) = InstrSize(Current.name, Current.args)
         /\ SplicesIn(ReplacementLines(Current))
         /\ capacity' = IF Peak(Current.name, Current.args) > capacity
                        THEN 2 * capacity ELSE capacity
         /\ UNCHANGED <<program, section, sizes, pending, labels, layout, debugInfo,
                        phase, reason>>
<1> DEFINE t == ReplacementLines(Current)
<1>1. /\ phase = "pseudo" /\ at <= Len(lines) /\ Current.cat = "instr"
      /\ IsPseudo(Current.name, Current.args)
      /\ PseudoFault(Current.name, Current.args) = "none"
      /\ lines' = SubSeq(lines, 1, at - 1) \o t \o SubSeq(lines, at + 1, Len(lines))
      /\ at' = at + Len(t)
      /\ capacity' = IF Peak(Current.name, Current.args) > capacity
                     THEN 2 * capacity ELSE capacity
      /\ UNCHANGED <<program, section, mapVars, outVars, phase, reason>>
  BY Zenon DEF Expand, Reading
<1>2. PICK g, a : SecondPass(g, a)
  BY <1>1 DEF AsmInv
<1>3. /\ LinesInv(a) /\ at = a /\ a \in 1 .. Len(lines) + 1 /\ Sequence(lines)
      /\ DOMAIN lines = 1 .. Len(lines) /\ Len(lines) \in Nat /\ IsProgram(program)
  BY <1>1, <1>2, LiveLines DEF SecondPass, Live
<1>4. at \in DOMAIN lines /\ ~(at < a)
  BY <1>1, <1>3, SMT
<1>5. Written(Current)
  BY <1>3, <1>4 DEF LinesInv, Current
<1>6. /\ Sequence(t) /\ Len(t) \in {1, 2} /\ 4 * Len(t) = SizeOf(Current.no)
      /\ IsInstr(Current.no)
  BY <1>1, <1>3, <1>5, ReplacementFacts
<1>7. InstrSize(Current.name, Current.args) = SizeOf(Current.no)
  BY <1>3, <1>5, <1>6, WrittenFacts
<1> HIDE DEF t
<1>8. SplicesIn(t)
  <2>1. PICK x, b : x = lines /\ b = at
    OBVIOUS
  <2>2. Sequence(x) /\ b \in DOMAIN x /\ Sequence(t)
    BY <1>3, <1>4, <1>6, <2>1
  <2> DEFINE v == Spliced(x, b, t)
  <2>3. /\ Sequence(v) /\ Len(v) = Len(x) + Len(t) - 1
        /\ \A i \in 1 .. b - 1 : v[i] = x[i]
        /\ \A k \in 1 .. Len(t) : v[b - 1 + k] = t[k]
        /\ \A j \in b + 1 .. Len(x) : v[j + Len(t) - 1] = x[j]
    BY <2>2, SpliceFacts
  <2>4. lines' = v
    BY <1>1, <2>1 DEF Spliced
  <2> HIDE DEF v
  <2> QED BY <1>1, <2>1, <2>3, <2>4 DEF SplicesIn
<1> QED BY <1>1, <1>4, <1>5, <1>6, <1>7, <1>8 DEF t, mapVars, outVars

LEMMA ExpandTypes ==
  ASSUME AsmInv, TypeInv, Expand
  PROVE  TypeInv'
<1>1. CASE Lost \/ \E why : Fail(why)
  BY <1>1, TypesFailed
<1>2. CASE ~Lost /\ \A why : ~Fail(why)
  <2> DEFINE n == Len(ReplacementLines(Current))
             p == Peak(Current.name, Current.args)
             z == InstrSize(Current.name, Current.args)
  <2>1. /\ phase = "pseudo" /\ at \in DOMAIN lines /\ n \in {1, 2} /\ 4 * n = z
        /\ Len(lines') = Len(lines) + n - 1 /\ at' = at + n
        /\ capacity' = IF p > capacity THEN 2 * capacity ELSE capacity
        /\ UNCHANGED <<program, section, sizes, pending, labels, layout, phase>>
    BY <1>2, ExpandFacts DEF SplicesIn
  <2>2. /\ Len(lines) \in Nat /\ Len(lines) > 0 /\ DOMAIN lines = 1 .. Len(lines)
    BY <2>1, LiveLines DEF Live
  <2>3. capacity \in Nat /\ (Len(lines) <= capacity \/ program = <<>>)
    BY DEF TypeInv
  <2>4. p \in {Len(lines), Len(lines) + 1, Len(lines) + 2}
        /\ (z = 8 => p \in {Len(lines) + 1, Len(lines) + 2})
    <3>1. p = Len(lines) + (IF z = 4 THEN 0
                            ELSE IF Current.name \in {"la", "mul"} THEN 1 ELSE 2)
      BY DEF Peak
    <3> HIDE DEF p, z
    <3>2. Len(lines) + 0 = Len(lines)
      BY <2>2, SMT
    <3>3. z = 8 => z # 4
      BY SMT
    <3> QED BY <3>1, <3>2, <3>3
  <2> HIDE DEF n, p, z
  <2>5. at' \in 1 .. Len(lines') + 1
    BY <2>1, <2>2, SMT
  <2>6. capacity' \in Nat /\ (Len(lines') <= capacity' \/ program = <<>>)
    <3>1. CASE n = 1
      BY <2>1, <2>2, <2>3, <3>1, SMT
    <3>2. CASE n = 2
      <4>1. z = 8 /\ p \in {Len(lines) + 1, Len(lines) + 2} /\ Len(lines') = Len(lines) + 1
        BY <2>1, <2>2, <2>4, <3>2, SMT
      <4>2. p >= Len(lines) + 1 /\ p \in Int
        BY <2>2, <4>1, SMT
      <4> QED BY <2>1, <2>2, <2>3, <4>1, <4>2, SMT
    <3> QED BY <2>1, <3>1, <3>2
  <2> QED BY <2>1, <2>5, <2>6, TypesStay DEF TypeInv
<1> QED BY <1>1, <1>2

LEMMA SkipTypes ==
  ASSUME AsmInv, TypeInv, EnterSection \/ MeasureOther \/ KeepLine \/ PassLabel
  PROVE  TypeInv'
<1>1. /\ phase \in {"labels", "pseudo", "parse"} /\ at <= Len(lines) /\ at' = at + 1
      /\ UNCHANGED <<program, sizes, pending, labels, layout, phase, lines, capacity>>
      /\ section' = section \/ (EnterSection /\ section' = Current.name)
  BY DEF EnterSection, MeasureOther, KeepLine, PassLabel, Reading, NextLine, mapVars,
         textVars, outVars
<1>2. at' \in 1 .. Len(lines') + 1
  BY <1>1, AtNext DEF Live
<1>3. ASSUME EnterSection PROVE Current.name \in Sections
  <2>1. Current.cat = "section" /\ phase \in {"labels", "parse"}
    BY <1>3 DEF EnterSection, Reading
  <2>2. IsProgram(program)
    BY DEF AsmInv
  <2>3. Written(Current)
    <3>1. CASE phase = "labels"
      <4>1. PICK g, m : FirstPass(g, m)
        BY <3>1 DEF AsmInv
      <4> QED BY <1>1, <2>2, <4>1, FirstPassAt
    <3>2. CASE phase = "parse"
      <4>1. PICK g, q : ThirdPass(g, q)
        BY <3>2 DEF AsmInv
      <4>2. Expanded(Current)
        BY <1>1, <2>2, <4>1, ThirdPassAt
      <4> QED BY <2>1, <4>2 DEF Expanded
    <3> QED BY <2>1, <3>1, <3>2
  <2>4. /\ Current.no \in DOMAIN program /\ Current.name = program[Current.no].name
        /\ program[Current.no].cat = "section"
    <3>1. Current.no # 0
      BY <2>1, <2>2, <2>3, WrittenFacts
    <3> QED BY <2>1, <2>2, <2>3, <3>1, WrittenFacts
  <2> QED BY <2>2, <2>4, SourceFacts
<1>4. section' \in Sections
  BY <1>1, <1>3 DEF TypeInv
<1> QED BY <1>1, <1>2, <1>4, TypesStay DEF TypeInv

LEMMA DefineLabelTypes ==
  ASSUME AsmInv, TypeInv, DefineLabel
  PROVE  TypeInv'
<1>1. phase = "labels" /\ at <= Len(lines)
  BY DEF DefineLabel, Reading
<1>2. CASE Current.name \in DOMAIN labels \union pending
  BY <1>2, TypesFailed DEF DefineLabel
<1>3. CASE Current.name \notin DOMAIN labels \union pending
  <2>1. /\ pending' = pending \union {Current.name} /\ at' = at + 1
        /\ UNCHANGED <<program, section, phase, sizes, labels, layout, lines, capacity>>
    BY <1>3 DEF DefineLabel, NextLine, textVars, outVars
  <2>2. at' \in 1 .. Len(lines') + 1
    BY <1>1, <2>1, AtNext DEF Live
  <2>3. pending' \cap DOMAIN labels' = {}
    BY <1>3, <2>1 DEF TypeInv
  <2> QED BY <2>1, <2>2, <2>3 DEF TypeInv, Held, Sections
<1> QED BY <1>2, <1>3

LEMMA TurnTypes ==
  ASSUME AsmInv, TypeInv, StartExpanding \/ StartParsing \/ Finish
  PROVE  TypeInv'
<1>1. /\ phase \in {"labels", "pseudo", "parse"} /\ phase' \in Outcomes
      /\ UNCHANGED <<program, sizes, pending, labels, layout, capacity>>
      /\ section' \in {section, "text"} /\ at' \in {at, 1}
      /\ lines' = lines \/ lines' = [lines EXCEPT ![1] = JumpToMain]
  BY DEF StartExpanding, StartParsing, Finish, AllRead, passVars, mapVars, textVars,
         outVars, Outcomes
<1>2. /\ Sequence(lines) /\ Len(lines) \in Nat /\ DOMAIN lines = 1 .. Len(lines)
  BY <1>1, LiveLines DEF Live
<1>3. Len(lines') = Len(lines)
  <2>1. CASE lines' = lines
    BY <2>1
  <2>2. CASE lines' = [lines EXCEPT ![1] = JumpToMain]
    <3>1. lines' = [k \in 1 .. Len(lines) |-> lines'[k]]
      BY <1>2, <2>2
    <3> QED BY <1>2, <3>1, FunctionIsSequence
  <2> QED BY <1>1, <2>1, <2>2
<1>4. at' \in 1 .. Len(lines') + 1
  BY <1>1, <1>2, <1>3, SMT DEF TypeInv
<1>5. section' \in Sections
  BY <1>1, TextAssumption DEF TypeInv
<1> QED BY <1>1, <1>3, <1>4, <1>5, TypesStay DEF TypeInv

LEMMA TypeStep ==
  ASSUME AsmInv, TypeInv, [AsmNext]_asmVars
  PROVE  TypeInv'
<1>1. CASE UNCHANGED asmVars
  <2>1. UNCHANGED <<program, phase, at, section, lines, capacity, sizes, pending, labels,
                    layout>>
    BY <1>1 DEF asmVars, passVars, mapVars, textVars, outVars
  <2> QED BY <2>1, TypesStay DEF TypeInv
<1>2. CASE NoFirstLine \/ RejectToken
  BY <1>2, TypesFailed DEF NoFirstLine, RejectToken
<1> QED BY <1>1, <1>2, BeginTypes, MeasureAllocTypes, MeasureInstrTypes, ParseTypes,
           ExpandTypes, SkipTypes, DefineLabelTypes, TurnTypes DEF AsmNext

LEMMA TypesHold ==
  ASSUME AsmInv, TypeInv
  PROVE  AsmTypeOK
<1>1. ASSUME SectionsFit, NEW l \in DOMAIN labels PROVE labels[l] \in Word
  <2>1. labels[l] \in Nat /\ Held(labels[l])
    BY DEF TypeInv
  <2>2. PICK s \in Sections : labels[l] <= Offset[s] + sizes[s]
    BY <2>1 DEF Held
  <2>3. Offset[s] + sizes[s] < WordMod
    BY <1>1 DEF SectionsFit
  <2>4. Offset[s] \in Nat /\ sizes[s] \in Nat
    BY OffsetFacts DEF TypeInv
  <2>5. WordMod \in Int
    <3>1. W \in Nat
      BY ByteAssumption, SMT DEF W
    <3> QED BY <3>1, SMT DEF WordMod
  <2> QED BY <2>1, <2>2, <2>3, <2>4, <2>5, SMT DEF Word
<1> QED BY <1>1 DEF AsmInv, TypeInv, AsmTypeOK

LEMMA IdleTypes ==
  ASSUME Idle, phase \in Outcomes
  PROVE  TypeInv
<1>1. /\ lines = <<>> /\ capacity = 0 /\ at = 1 /\ section = "text"
      /\ sizes = [s \in Sections |-> 0] /\ pending = {} /\ labels = <<>>
      /\ layout = [s \in Sections |-> <<>>]
  BY DEF Idle
<1>2. Len(<<>>) = 0 /\ 1 \in 1 .. 0 + 1 /\ 0 <= 0
  BY SMT
<1>3. DOMAIN labels = {} /\ \A s \in Sections : DOMAIN layout[s] = {}
  BY <1>1
<1> QED BY <1>1, <1>2, <1>3, TextAssumption DEF TypeInv

LEMMA TypeInvariant == AsmSpec => []TypeInv
<1>1. Init => TypeInv
  BY IdleTypes DEF Init, Outcomes
<1>2. AsmInv /\ TypeInv /\ [AsmNext]_asmVars => TypeInv'
  BY TypeStep
<1> QED BY <1>1, <1>2, AsmInvariant, PTL DEF AsmSpec

(* parse keeps to its types: the lines never outgrow the vector it takes   *)
(* for them, no label is past its section, so that labels are words where  *)
(* sections fit, and no byte is of a line the program has not.             *)
THEOREM AssemblerTypes == AsmSpec => []AsmTypeOK
<1>1. AsmInv /\ TypeInv => AsmTypeOK
  BY TypesHold
<1> QED BY <1>1, AsmInvariant, TypeInvariant, PTL

-----------------------------------------------------------------------------
(* What a step adds to the lines and to the cells.                         *)

(* The lines of an expansion: those there were, but one, and the new ones. *)
LEMMA SplicedLines ==
  ASSUME NEW t, Sequence(t), Len(t) \in {1, 2}, SplicesIn(t), Sequence(lines),
         at \in DOMAIN lines
  PROVE  /\ \A i \in DOMAIN lines' :
              \/ \E j \in DOMAIN lines : j # at /\ lines'[i] = lines[j]
              \/ \E k \in DOMAIN t : lines'[i] = t[k]
         /\ \A j \in DOMAIN lines : j # at =>
              \E i \in DOMAIN lines' : lines'[i] = lines[j]
         /\ \A k \in DOMAIN t : \E i \in DOMAIN lines' : lines'[i] = t[k]
         /\ 1 \in DOMAIN lines' /\ (at # 1 => lines'[1] = lines[1])
         /\ (at = 1 => lines'[1] = t[1])
<1> DEFINE L == Len(lines)
           n == Len(t)
<1>1. /\ L \in Nat /\ n \in {1, 2} /\ DOMAIN lines = 1 .. L /\ DOMAIN t = 1 .. n
      /\ DOMAIN lines' = 1 .. L + n - 1 /\ at \in 1 .. L
      /\ \A i \in 1 .. at - 1 : lines'[i] = lines[i]
      /\ \A k \in 1 .. n : lines'[at - 1 + k] = t[k]
      /\ \A j \in at + 1 .. L : lines'[j + n - 1] = lines[j]
  <2>1. L \in Nat /\ n \in Nat /\ DOMAIN lines = 1 .. L /\ DOMAIN t = 1 .. n
    BY LenProperties DEF Sequence
  <2>2. DOMAIN lines' = 1 .. Len(lines') /\ Len(lines') = L + n - 1
    BY LenProperties DEF Sequence, SplicesIn
  <2> QED BY <2>1, <2>2 DEF SplicesIn
<1> HIDE DEF L, n
<1>2. ASSUME NEW i \in DOMAIN lines'
      PROVE  \/ \E j \in DOMAIN lines : j # at /\ lines'[i] = lines[j]
             \/ \E k \in DOMAIN t : lines'[i] = t[k]
  <2>1. CASE i < at
    <3>1. i \in 1 .. at - 1 /\ i \in 1 .. L /\ i # at
      BY <1>1, <1>2, <2>1, SMT
    <3> QED BY <1>1, <3>1
  <2>2. CASE at <= i /\ i < at + n
    <3>1. PICK k \in 1 .. n : i = at - 1 + k
      <4>1. i - at + 1 \in 1 .. n /\ i = at - 1 + (i - at + 1)
        BY <1>1, <1>2, <2>2, SMT
      <4> QED BY <4>1
    <3> QED BY <1>1, <3>1
  <2>3. CASE at + n <= i
    <3>1. PICK j \in at + 1 .. L : i = j + n - 1
      <4>1. i - n + 1 \in at + 1 .. L /\ i = (i - n + 1) + n - 1
        BY <1>1, <1>2, <2>3, SMT
      <4> QED BY <4>1
    <3>2. j \in 1 .. L /\ j # at
      BY <1>1, <3>1, SMT
    <3> QED BY <1>1, <3>1, <3>2
  <2>4. i < at \/ (at <= i /\ i < at + n) \/ at + n <= i
    BY <1>1, <1>2, SMT
  <2> QED BY <2>1, <2>2, <2>3, <2>4
<1>3. ASSUME NEW j \in DOMAIN lines, j # at
      PROVE  \E i \in DOMAIN lines' : lines'[i] = lines[j]
  <2>1. CASE j < at
    <3>1. j \in 1 .. at - 1 /\ j \in 1 .. L + n - 1
      BY <1>1, <1>3, <2>1, SMT
    <3> QED BY <1>1, <3>1
  <2>2. CASE ~(j < at)
    <3>1. j \in at + 1 .. L /\ j + n - 1 \in 1 .. L + n - 1
      BY <1>1, <1>3, <2>2, SMT
    <3> QED BY <1>1, <3>1
  <2> QED BY <2>1, <2>2
<1>4. ASSUME NEW k \in DOMAIN t
      PROVE  \E i \in DOMAIN lines' : lines'[i] = t[k]
  <2>1. k \in 1 .. n /\ at - 1 + k \in 1 .. L + n - 1
    BY <1>1, <1>4, SMT
  <2> QED BY <1>1, <2>1
<1>5. 1 \in DOMAIN lines'
  BY <1>1, SMT
<1>6. ASSUME at # 1 PROVE lines'[1] = lines[1]
  <2>1. 1 \in 1 .. at - 1
    BY <1>1, <1>6, SMT
  <2> QED BY <1>1, <2>1
<1>7. ASSUME at = 1 PROVE lines'[1] = t[1]
  <2>1. 1 \in 1 .. n /\ at - 1 + 1 = 1
    BY <1>1, <1>7, SMT
  <2>2. lines'[at - 1 + 1] = t[1]
    BY <1>1, <2>1
  <2> QED BY <2>1, <2>2
<1> QED BY <1>2, <1>3, <1>4, <1>5, <1>6, <1>7

(* What is appended to a section. *)
LEMMA PlacedCells ==
  ASSUME AsmInv, phase = "parse", NEW block, NEW info, Place(block, info),
         Sequence(block)
  PROVE  /\ Len(block) \in Nat /\ DOMAIN block = 1 .. Len(block)
         /\ section \in Sections /\ Len(layout[section]) \in Nat
         /\ DOMAIN layout[section] = 1 .. Len(layout[section])
         /\ \A s \in Sections : s # section => layout'[s] = layout[s]
         /\ DOMAIN layout'[section] = 1 .. Len(layout[section]) + Len(block)
         /\ \A k \in 1 .. Len(layout[section]) :
              layout'[section][k] = layout[section][k]
         /\ \A k \in 1 .. Len(block) :
              layout'[section][Len(layout[section]) + k] = block[k]
<1>1. /\ DOMAIN layout = Sections /\ section \in Sections
      /\ Sequence(layout[section])
  BY ParsedSections
<1>2. layout' = [layout EXCEPT ![section] = @ \o block]
  BY DEF Place
<1> DEFINE x == layout[section]
<1>3. layout'[section] = x \o block /\ Sequence(x)
  BY <1>1, <1>2
<1>4. \A s \in Sections : s # section => layout'[s] = layout[s]
  BY <1>1, <1>2
<1> HIDE DEF x
<1>5. /\ Len(x) \in Nat /\ Len(block) \in Nat
      /\ DOMAIN x = 1 .. Len(x) /\ DOMAIN block = 1 .. Len(block)
      /\ DOMAIN (x \o block) = 1 .. Len(x) + Len(block)
      /\ \A k \in 1 .. Len(x) : (x \o block)[k] = x[k]
      /\ \A k \in 1 .. Len(block) : (x \o block)[Len(x) + k] = block[k]
  BY <1>3, Joined
<1> QED BY <1>1, <1>3, <1>4, <1>5 DEF x

-----------------------------------------------------------------------------
(* Debug information.                                                      *)

(* Lines keep the file and the number of the line they come from. *)
SourceKept ==
  \A i \in DOMAIN lines : lines[i].no # 0 =>
    /\ lines[i].no \in DOMAIN program
    /\ lines[i].file = program[lines[i].no].file
    /\ lines[i].src = program[lines[i].no].src

(* What the record of the k-th byte of a section says of it. *)
IsFiled(s, k) ==
  LET c == layout[s][k]
      a == Offset[s] + k - 1
  IN  c.line # 0 =>
      /\ "word" \in DOMAIN c /\ c.byte = 0 => NamesLine(a, c.line)
      /\ c.arg = 1 /\ c.byte = 0 =>
           /\ NamesLine(a, c.line)
           /\ (\E d \in DOMAIN program : Labelled(d, c.line)) =>
                /\ debugInfo[a].label \in DOMAIN labels
                /\ labels[debugInfo[a].label] = a

CellsFiled == \A s \in Sections : \A k \in DOMAIN layout[s] : IsFiled(s, k)

FiledInv ==
  /\ phase \in {"pseudo", "parse", "done"} => SourceKept
  /\ phase \in {"parse", "done"} /\ SectionsFit => CellsFiled

LEMMA WrittenSource ==
  ASSUME IsProgram(program), NEW l, Written(l), l.no # 0
  PROVE  /\ l.no \in DOMAIN program
         /\ l.file = program[l.no].file /\ l.src = program[l.no].src
<1>1. l.no \in DOMAIN program /\ l = [program[l.no] EXCEPT !.no = l.no]
  BY DEF Written
<1>2. IsSourceLine(program[l.no])
  BY <1>1, ProgramFacts
<1> QED BY <1>1, <1>2, Renumbered

LEMMA ReplacedSource ==
  ASSUME IsProgram(program), NEW l, Written(l)
  PROVE  LET t == ReplacementLines(l)
         IN  \A k \in DOMAIN t : t[k].no = l.no /\ t[k].file = l.file /\ t[k].src = l.src
<1> DEFINE t == ReplacementLines(l)
           n == Replacement(l.name, l.args)
<1>1. t = [k \in DOMAIN n |-> [l EXCEPT !.name = n[k][1], !.args = n[k][2], !.part = k]]
  BY DEF ReplacementLines
<1>2. l = [cat |-> l.cat, name |-> l.name, args |-> l.args, file |-> l.file,
           src |-> l.src, no |-> l.no, part |-> l.part]
  BY WrittenShape
<1> HIDE DEF n
<1> HIDE DEF t
<1>3. ASSUME NEW k \in DOMAIN t
      PROVE  t[k].no = l.no /\ t[k].file = l.file /\ t[k].src = l.src
  <2>1. t[k] = [l EXCEPT !.name = n[k][1], !.args = n[k][2], !.part = k]
    BY <1>1, <1>3, Zenon
  <2>2. PICK x, y, c : c = t[k] /\ x = n[k][1] /\ y = n[k][2]
    OBVIOUS
  <2>3. c = [l EXCEPT !.name = x, !.args = y, !.part = k]
    BY <2>1, <2>2
  <2>4. c.no = l.no /\ c.file = l.file /\ c.src = l.src
    BY <1>2, <2>3
  <2> QED BY <2>2, <2>4
<1> QED BY <1>3 DEF t

(* The lines of the second pass, when it begins and when it expands one.   *)
LEMMA StartExpandingSource ==
  ASSUME AsmInv, StartExpanding
  PROVE  SourceKept'
<1>1. /\ phase = "labels" /\ program' = program
      /\ lines' = IF MangledMain \in DOMAIN labels
                  THEN [lines EXCEPT ![1] = JumpToMain] ELSE lines
  BY DEF StartExpanding, AllRead
<1>2. PICK g, m : FirstPass(g, m)
  BY <1>1 DEF AsmInv
<1>3. /\ IsProgram(program) /\ 1 \in DOMAIN lines
      /\ \A i \in DOMAIN lines : Written(lines[i])
  BY <1>1, <1>2, LiveLines DEF FirstPass, Live
<1>4. /\ DOMAIN lines' = DOMAIN lines
      /\ \A i \in DOMAIN lines : lines'[i] = lines[i] \/ lines'[i] = JumpToMain
  BY <1>1
<1>5. JumpToMain.no = 0
  BY DEF JumpToMain, Line, LineFrom
<1> QED BY <1>1, <1>3, <1>4, <1>5, WrittenSource DEF SourceKept

LEMMA ExpandSource ==
  ASSUME AsmInv, SourceKept, Expand, ~Lost, \A why : ~Fail(why)
  PROVE  SourceKept'
<1> DEFINE t == ReplacementLines(Current)
<1>1. /\ at \in DOMAIN lines /\ Written(Current) /\ Current.cat = "instr"
      /\ IsPseudo(Current.name, Current.args)
      /\ Len(t) \in {1, 2} /\ SplicesIn(t) /\ phase = "pseudo" /\ program' = program
  BY ExpandFacts
<1>2. /\ Sequence(t) /\ IsProgram(program)
      /\ \A k \in DOMAIN t : /\ t[k].no = Current.no /\ t[k].file = Current.file
                             /\ t[k].src = Current.src
  BY <1>1, ReplacementFacts, ReplacedSource DEF AsmInv
<1> HIDE DEF t
<1>3. \A i \in DOMAIN lines' : \/ \E j \in DOMAIN lines : lines'[i] = lines[j]
                               \/ \E k \in DOMAIN t : lines'[i] = t[k]
  <2>1. Sequence(lines)
    BY <1>1, LiveLines DEF Live
  <2> QED BY <1>1, <1>2, <2>1, SplicedLines
<1>4. \A i \in DOMAIN lines' : \E j \in DOMAIN lines :
        /\ lines'[i].no = lines[j].no /\ lines'[i].file = lines[j].file
        /\ lines'[i].src = lines[j].src
  BY <1>1, <1>2, <1>3 DEF Current
<1> QED BY <1>1, <1>4 DEF SourceKept

(* A section holds no more than the first pass counted. *)
LEMMA LayoutFits ==
  ASSUME AsmInv, phase \in {"parse", "done"}, NEW s \in Sections
  PROVE  Len(layout[s]) \in Nat /\ sizes[s] \in Nat /\ Len(layout[s]) <= sizes[s]
<1>1. PICK g, q : ThirdPass(g, q)
  BY DEF AsmInv
<1>2. /\ MeasuredInv(g) /\ LayoutInv(g, q) /\ IsProgram(program)
      /\ Len(program) \in Nat /\ Len(lines) \in Nat
  BY <1>1, LiveLines DEF ThirdPass, Live
<1>3. Len(layout[s]) \in Nat
  BY ParsedSections
<1>4. Len(layout[s]) = g[q].sizes[s] + (IF s = section THEN Inside ELSE 0)
  BY <1>2 DEF LayoutInv
<1>5. CASE ~(at <= Len(lines))
  <2>1. q = Len(program) + 1 /\ Inside = 0
    BY <1>1, <1>5 DEF ThirdPass, NoAt, Inside
  <2>2. q \in 0 .. Len(program) + 1
    BY <1>2, <2>1, SMT
  <2>3. g[q].sizes[s] \in Nat /\ sizes[s] \in Nat /\ g[q].sizes[s] <= sizes[s]
    BY <1>2, <2>2, WalkGrows
  <2> QED BY <1>3, <1>4, <2>1, <2>3, SMT
<1>6. CASE at <= Len(lines)
  <2>1. /\ q \in 0 .. Len(program) /\ Expanded(Current) /\ Current.no = q
        /\ Current.part \in {1, 2} /\ Inside = 4 * (Current.part - 1)
        /\ section = g[q].sec /\ section \in Sections
        /\ g[q].sizes \in [Sections -> Nat] /\ g[q + 1] = After(q, g[q])
    BY <1>2, <1>1, <1>6, ThirdPassAt
  <2>2. q + 1 \in 0 .. Len(program) + 1 /\ q \in 0 .. Len(program) + 1
    BY <1>2, <2>1, SMT
  <2>3. /\ g[q].sizes[s] \in Nat /\ sizes[s] \in Nat /\ g[q].sizes[s] <= sizes[s]
        /\ g[q + 1].sizes[s] \in Nat /\ g[q + 1].sizes[s] <= sizes[s]
    BY <1>2, <2>2, WalkGrows
  <2>4. CASE s # section \/ Inside = 0
    BY <1>3, <1>4, <2>3, <2>4, SMT
  <2>5. CASE s = section /\ Inside # 0
    <3>1. Current.part = 2
      BY <2>1, <2>5, SMT
    <3>2. IsInstr(q) /\ 4 * 2 <= SizeOf(q)
      BY <2>1, <3>1 DEF Expanded
    <3>3. SizeOf(q) \in Nat
      BY SizesOfInstr, SMT DEF SizeOf
    <3>4. g[q + 1].sizes[s] = g[q].sizes[s] + SizeOf(q)
      BY <2>1, <2>5, <3>2 DEF After, Growth
    <3> QED BY <1>3, <1>4, <2>1, <2>3, <2>5, <3>1, <3>2, <3>3, <3>4, SMT
  <2> QED BY <2>4, <2>5
<1> QED BY <1>5, <1>6

(* The address of a label of the item being laid out. *)
LEMMA ItemAddress ==
  ASSUME AsmInv, phase = "parse", at <= Len(lines), IsItem(Current), Current.part = 1,
         NEW d \in DOMAIN program, Labelled(d, Current.no), Current.no \in DOMAIN program
  PROVE  /\ program[d].name \in DOMAIN labels
         /\ labels[program[d].name]
              = MemLoc + (IF Current.cat = "alloc" THEN PaddingBefore(MemLoc, Current.name)
                          ELSE 0)
<1>1. PICK g, q : ThirdPass(g, q)
  BY DEF AsmInv
<1>2. /\ MeasuredInv(g) /\ LayoutInv(g, q) /\ IsProgram(program)
  BY <1>1 DEF ThirdPass, AsmInv
<1>3. /\ q \in 0 .. Len(program) /\ Len(program) \in Nat /\ Current.no = q
      /\ Expanded(Current) /\ Inside = 4 * (Current.part - 1)
      /\ section = g[q].sec /\ section \in Sections
      /\ g[q].sizes \in [Sections -> Nat]
  BY <1>1, <1>2, ThirdPassAt
<1>4. q < Len(program) + 1
  BY <1>3, SMT
<1>5. /\ program[d].name \in DOMAIN labels /\ labels[program[d].name] = AddressOf(g, q)
  BY <1>2, <1>3, <1>4 DEF MeasuredInv, LabelsInv
<1>6. PICK loc \in Nat : loc = g[q].sizes[section]
  BY <1>3
<1>7. PICK o \in Nat : o = Offset[section] /\ o % 8 = 0
  BY <1>3, OffsetFacts
<1>8. MemLoc = o + loc /\ o + loc \in Nat
  <2>1. Len(layout[section]) = loc + Inside
    BY <1>2, <1>3, <1>6 DEF LayoutInv
  <2>2. loc + Inside = loc
    BY <1>3, <1>6, SMT
  <2>3. o + loc \in Nat
    BY <1>6, <1>7, SMT
  <2> QED BY <1>7, <2>1, <2>2, <2>3 DEF MemLoc
<1>9. CASE Current.cat = "alloc"
  <2>1. /\ ~IsInstr(q) /\ Written(Current) /\ Current.name \in Directives
    BY <1>3, <1>9, ParsedDirective
  <2>2. program[q].cat = "alloc" /\ Current.name = program[q].name
    BY <1>2, <1>3, <1>9, <2>1, WrittenFacts
  <2>3. AddressOf(g, q) = o + loc + PaddingBefore(loc, Current.name)
    BY <1>3, <1>6, <1>7, <2>1, <2>2 DEF AddressOf, Measured
  <2>4. PaddingBefore(o + loc, Current.name) = PaddingBefore(loc, Current.name)
    <3>1. CASE Current.name = "align"
      BY <3>1 DEF PaddingBefore
    <3>2. CASE Current.name # "align"
      <4>1. PICK z \in {1, 2, 4, 8} : z = ItemSize(Current.name)
        BY <2>1, <3>2, ItemSizes
      <4>2. Padding(o + loc, z) = Padding(loc, z)
        BY <1>6, <1>7, Alignment
      <4> QED BY <3>2, <4>1, <4>2 DEF PaddingBefore
    <3> QED BY <3>1, <3>2
  <2> QED BY <1>5, <1>8, <1>9, <2>3, <2>4
<1>10. CASE Current.cat # "alloc"
  <2>1. IsInstr(q)
    <3>1. Current.cat = "instr"
      BY <1>10 DEF IsItem
    <3>2. CASE ~IsInstr(q)
      BY <1>2, <1>3, <3>1, <3>2, WrittenFacts DEF Expanded
    <3> QED BY <3>2
  <2>2. AddressOf(g, q) = o + loc + 0
    BY <1>3, <1>6, <1>7, <2>1 DEF AddressOf, Measured
  <2> QED BY <1>5, <1>8, <1>10, <2>2
<1> QED BY <1>9, <1>10

(* lookupLabel finds a label where there is one. *)
LEMMA FoundLabel ==
  ASSUME NEW a, NEW l \in DOMAIN labels, labels[l] = a
  PROVE  LookupLabel(a) \in DOMAIN labels /\ labels[LookupLabel(a)] = a
<1> DEFINE found == {x \in DOMAIN labels : labels[x] = a}
<1>1. l \in found
  OBVIOUS
<1>2. LookupLabel(a) = CHOOSE x \in found : TRUE
  BY <1>1 DEF LookupLabel
<1> HIDE DEF found
<1>3. LookupLabel(a) \in found
  BY <1>1, <1>2
<1> QED BY <1>3 DEF found

(* A record filed at loc leaves what is said of other addresses.           *)
LEMMA FiledStays ==
  ASSUME NEW loc, NEW x, debugInfo' = Filed([a \in {loc} |-> x]),
         program' = program, labels' = labels,
         NEW s \in Sections, NEW k, IsFiled(s, k), layout'[s][k] = layout[s][k],
         Offset[s] + k - 1 # loc
  PROVE  IsFiled(s, k)'
<1>1. PICK a : a = Offset[s] + k - 1
  OBVIOUS
<1>2. /\ a \in DOMAIN debugInfo' <=> a \in DOMAIN debugInfo
      /\ a \in DOMAIN debugInfo => debugInfo'[a] = debugInfo[a]
  BY <1>1 DEF Filed
<1>3. \A n : NamesLine(a, n) => /\ a \in DOMAIN debugInfo
                               /\ a \in DOMAIN debugInfo'
                               /\ debugInfo'[a].file = program[n].file
                               /\ debugInfo'[a].src = program[n].src
  BY <1>2 DEF NamesLine
<1> QED BY <1>1, <1>2, <1>3 DEF IsFiled, NamesLine, Labelled, IsItem

(* What a line lays out, and the record that is filed for it. *)
LEMMA PlaceFiles ==
  ASSUME AsmInv, SourceKept, SectionsFit, CellsFiled,
         phase = "parse", at \in DOMAIN lines,
         NEW block, NEW loc \in Nat, NEW label,
         Place(block, [a \in {loc} |-> Info(Current, label)]), Sequence(block),
         MemLoc <= loc, loc <= MemLoc + Len(block),
         Len(layout[section]) + Len(block) <= sizes[section],
         \A k \in DOMAIN block :
           /\ block[k].line = Current.no
           /\ /\ "word" \in DOMAIN block[k] \/ block[k].arg = 1
              /\ block[k].byte = 0
              => k = loc - MemLoc + 1
           /\ block[k].arg = 1 /\ block[k].byte = 0 =>
                \A d \in DOMAIN program : Labelled(d, Current.no) /\ Current.no # 0 =>
                  label \in DOMAIN labels /\ labels[label] = loc
  PROVE  CellsFiled'
<1>1. /\ debugInfo' = Filed([a \in {loc} |-> Info(Current, label)])
      /\ UNCHANGED <<program, labels, lines, sizes, phase>>
  BY DEF Place, NextLine, mapVars, textVars
<1>2. PICK n \in Nat, m \in Nat : n = Len(layout[section]) /\ m = Len(block)
  BY PlacedCells
<1>3. /\ DOMAIN block = 1 .. m /\ section \in Sections
      /\ DOMAIN layout[section] = 1 .. n
      /\ \A s \in Sections : s # section => layout'[s] = layout[s]
      /\ DOMAIN layout'[section] = 1 .. n + m
      /\ \A k \in 1 .. n : layout'[section][k] = layout[section][k]
      /\ \A k \in 1 .. m : layout'[section][n + k] = block[k]
  BY <1>2, PlacedCells
<1>4. PICK o \in Nat : o = Offset[section]
  BY <1>3, OffsetFacts
<1>5. MemLoc = o + n
  BY <1>2, <1>4 DEF MemLoc
<1>6. /\ n \in Nat /\ m \in Nat /\ o \in Nat /\ loc \in Nat
      /\ o + n <= loc /\ loc <= o + n + m /\ n + m <= sizes[section]
      /\ sizes[section] \in Nat
  BY <1>2, <1>3, <1>4, <1>5, LayoutFits
<1>7. ASSUME NEW s \in Sections, NEW k \in DOMAIN layout[s]
      PROVE  Offset[s] + k - 1 # loc
  <2>1. PICK y \in Nat, b \in Nat, z \in Nat :
          /\ y = Offset[s] /\ b = Len(layout[s]) /\ z = sizes[s]
          /\ DOMAIN layout[s] = 1 .. b /\ b <= z
    BY LayoutFits, ParsedSections
  <2>2. k \in 1 .. b
    BY <2>1
  <2>3. CASE s = section
    <3>1. b = n /\ y = o
      BY <1>2, <1>4, <2>1, <2>3
    <3>2. o + k - 1 # loc
      BY <1>6, <2>2, <3>1, SMT
    <3> QED BY <2>1, <3>1, <3>2
  <2>4. CASE s # section
    <3>1. PICK w \in Nat : w = sizes[section]
      BY <1>6
    <3>2. o + w < y \/ y + z < o
      BY <1>3, <1>4, <2>1, <2>4, <3>1 DEF SectionsFit
    <3>3. n + m <= w /\ b <= z /\ y \in Nat /\ b \in Nat /\ z \in Nat /\ w \in Nat
      BY <1>6, <2>1, <3>1
    <3>4. y + k - 1 # loc
      BY <1>6, <2>2, <3>2, <3>3, SMT
    <3> QED BY <2>1, <3>4
  <2> QED BY <2>3, <2>4
<1>8. PICK x : x = Info(Current, label)
  OBVIOUS
<1>9. Current.no # 0 => /\ loc \in DOMAIN debugInfo' /\ debugInfo'[loc] = x
                        /\ x.label = label
                        /\ x.file = program[Current.no].file
                        /\ x.src = program[Current.no].src
  <2>1. loc \in DOMAIN debugInfo' /\ debugInfo'[loc] = x
    BY <1>1, <1>8 DEF Filed
  <2>2. x.label = label /\ x.file = Current.file /\ x.src = Current.src
    BY <1>8 DEF Info
  <2> QED BY <2>1, <2>2 DEF SourceKept, Current
<1>10. ASSUME NEW s \in Sections, NEW k \in DOMAIN layout'[s]
       PROVE  IsFiled(s, k)'
  <2>1. CASE s # section \/ k \in 1 .. n
    <3>1. k \in DOMAIN layout[s] /\ layout'[s][k] = layout[s][k]
      BY <1>3, <1>10, <2>1
    <3>2. IsFiled(s, k)
      BY <3>1 DEF CellsFiled
    <3>3. Offset[s] + k - 1 # loc
      BY <1>7, <3>1
    <3>4. debugInfo' = Filed([a \in {loc} |-> x])
      BY <1>1, <1>8
    <3> QED BY <1>1, <3>1, <3>2, <3>3, <3>4, FiledStays
  <2>2. CASE s = section /\ k \notin 1 .. n
    <3>1. PICK j \in 1 .. m : k = n + j
      <4>1. k \in 1 .. n + m
        BY <1>3, <1>10, <2>2
      <4>2. k - n \in 1 .. m /\ k = n + (k - n)
        BY <1>2, <2>2, <4>1, SMT
      <4> QED BY <4>2
    <3>2. PICK c : c = block[j] /\ layout'[s][k] = c
      BY <1>3, <2>2, <3>1
    <3>3. c.line = Current.no
      BY <1>3, <3>1, <3>2
    <3>4. ASSUME "word" \in DOMAIN c \/ c.arg = 1, c.byte = 0
          PROVE  Offset[s] + k - 1 = loc
      <4>1. j = loc - (o + n) + 1
        BY <1>3, <1>5, <3>1, <3>2, <3>4
      <4>2. o + (n + j) - 1 = loc
        BY <1>6, <3>1, <4>1, SMT
      <4> QED BY <1>4, <2>2, <3>1, <4>2
    <3>5. ASSUME c.arg = 1, c.byte = 0, Current.no # 0,
                 NEW d \in DOMAIN program, Labelled(d, Current.no)
          PROVE  label \in DOMAIN labels /\ labels[label] = loc
      BY <1>3, <3>1, <3>2, <3>5
    <3>6. PICK a, e : a = Offset[s] + k - 1 /\ e = Current.no
      OBVIOUS
    <3>7. ASSUME e # 0, "word" \in DOMAIN c \/ c.arg = 1, c.byte = 0
          PROVE  /\ a \in DOMAIN debugInfo' /\ debugInfo'[a].label = label /\ a = loc
                 /\ debugInfo'[a].file = program'[e].file
                 /\ debugInfo'[a].src = program'[e].src
      BY <1>1, <1>9, <3>4, <3>6, <3>7
    <3>8. \A d \in DOMAIN program : Labelled(d, e)' => Labelled(d, e)
      BY <1>1 DEF Labelled, IsItem
    <3>9. ASSUME e # 0, c.arg = 1, c.byte = 0, NEW d \in DOMAIN program', Labelled(d, e)'
          PROVE  debugInfo'[a].label \in DOMAIN labels' /\ labels'[debugInfo'[a].label] = a
      BY <1>1, <3>5, <3>6, <3>7, <3>8, <3>9
    <3> QED BY <3>2, <3>3, <3>6, <3>7, <3>9 DEF IsFiled, NamesLine
  <2> QED BY <2>1, <2>2
<1> QED BY <1>10 DEF CellsFiled

(* What a line lays out is in what the first pass counted. *)
LEMMA AllocFits ==
  ASSUME AsmInv, phase = "parse", at <= Len(lines), Current.cat = "alloc",
         RefsOf(Current.args) \subseteq DOMAIN labels,
         AllocFault(Current.name, ResolvedArgs(Current.args)) = "none"
  PROVE  Len(layout[section])
           + BlockLength(MemLoc, Current.name, ResolvedArgs(Current.args))
           <= sizes[section]
<1>1. PICK g, q : ThirdPass(g, q)
  BY DEF AsmInv
<1>2. /\ MeasuredInv(g) /\ LayoutInv(g, q) /\ IsProgram(program)
  BY <1>1 DEF ThirdPass, AsmInv
<1>3. /\ q \in 0 .. Len(program) /\ Len(program) \in Nat /\ Current.no = q
      /\ Inside = 4 * (Current.part - 1)
      /\ section = g[q].sec /\ section \in Sections /\ Sound(q)
      /\ g[q].sizes \in [Sections -> Nat] /\ g[q + 1] = After(q, g[q])
  BY <1>1, <1>2, ThirdPassAt
<1>4. PICK n, as : n = Current.name /\ as = Current.args
  OBVIOUS
<1>5. /\ ~IsInstr(q) /\ Written(Current) /\ Current.part = 1 /\ n \in Directives
      /\ LabelsPlaced /\ AreOperands(as)
  BY <1>3, <1>4, ParsedDirective
<1>6. /\ program[q].cat = "alloc" /\ n = program[q].name /\ as = program[q].args
  BY <1>2, <1>3, <1>4, <1>5, WrittenFacts
<1>7. AllocFault(n, ZeroedArgs(as)) = "none"
  BY <1>3, <1>5, <1>6 DEF Sound, Measured
<1>8. PICK o \in Nat, loc \in Nat :
        o = Offset[section] /\ o % 8 = 0 /\ loc = g[q].sizes[section]
  BY <1>3, OffsetFacts
<1>9. Len(layout[section]) = loc /\ MemLoc = o + loc
  <2>1. Len(layout[section]) = loc + Inside
    BY <1>2, <1>3, <1>8 DEF LayoutInv
  <2>2. loc + Inside = loc
    BY <1>3, <1>5, <1>8, SMT
  <2> QED BY <1>8, <2>1, <2>2 DEF MemLoc
<1>10. BlockLength(o + loc, n, ResolvedArgs(as)) = BlockLength(loc, n, ZeroedArgs(as))
  <2>1. /\ RefsOf(as) \subseteq DOMAIN labels /\ AllocFault(n, ResolvedArgs(as)) = "none"
    BY <1>4
  <2> QED BY <1>5, <1>7, <1>8, <2>1, BlocksAgree, Zenon
<1>11. g[q + 1].sizes[section] = loc + BlockLength(loc, n, ZeroedArgs(as))
  <2>1. Growth(q, g[q]) = BlockLength(loc, n, ZeroedArgs(as))
    BY <1>3, <1>5, <1>6, <1>8 DEF Growth, Measured
  <2>2. PICK z : z = BlockLength(loc, n, ZeroedArgs(as)) /\ Growth(q, g[q]) = z
    BY <2>1
  <2>3. PICK f \in [Sections -> Nat] : f = g[q].sizes
    BY <1>3
  <2>4. g[q + 1].sizes = [f EXCEPT ![section] = @ + z]
    BY <1>3, <2>2, <2>3 DEF After
  <2>5. g[q + 1].sizes[section] = loc + z
    BY <1>3, <1>8, <2>3, <2>4
  <2> QED BY <2>2, <2>5
<1>12. g[q + 1].sizes[section] <= sizes[section]
  <2>1. q + 1 \in 0 .. Len(program) + 1
    BY <1>3, SMT
  <2> QED BY <1>2, <1>3, <2>1, WalkGrows
<1> QED BY <1>4, <1>9, <1>10, <1>11, <1>12

LEMMA InstrFits ==
  ASSUME AsmInv, phase = "parse", at <= Len(lines), Current.cat = "instr"
  PROVE  Len(layout[section]) + 4 <= sizes[section]
<1>1. PICK g, q : ThirdPass(g, q)
  BY DEF AsmInv
<1>2. /\ MeasuredInv(g) /\ LayoutInv(g, q) /\ IsProgram(program)
  BY <1>1 DEF ThirdPass, AsmInv
<1>3. /\ q \in 0 .. Len(program) /\ Len(program) \in Nat /\ Current.no = q
      /\ Inside = 4 * (Current.part - 1) /\ Current.part \in {1, 2}
      /\ section = g[q].sec /\ section \in Sections /\ Expanded(Current)
      /\ g[q].sizes \in [Sections -> Nat] /\ g[q + 1] = After(q, g[q])
  BY <1>1, <1>2, ThirdPassAt
<1>4. IsInstr(q)
  <2>1. CASE ~IsInstr(q)
    BY <1>2, <1>3, <2>1, WrittenFacts DEF Expanded
  <2> QED BY <2>1
<1>5. 4 * Current.part <= SizeOf(q) /\ SizeOf(q) \in Nat
  <2>1. SizeOf(q) \in Nat
    BY SizesOfInstr, SMT DEF SizeOf
  <2> QED BY <1>3, <1>4, <2>1 DEF Expanded
<1>6. PICK loc \in Nat : loc = g[q].sizes[section]
  BY <1>3
<1>7. Len(layout[section]) = loc + Inside
  BY <1>2, <1>3, <1>6 DEF LayoutInv
<1>8. g[q + 1].sizes[section] = loc + SizeOf(q)
  BY <1>3, <1>4, <1>6 DEF After, Growth
<1>9. g[q + 1].sizes[section] <= sizes[section] /\ sizes[section] \in Nat
  <2>1. q + 1 \in 0 .. Len(program) + 1
    BY <1>3, SMT
  <2> QED BY <1>2, <1>3, <2>1, WalkGrows
<1>10. PICK z \in Nat, w \in Nat : z = SizeOf(q) /\ w = sizes[section]
  BY <1>5, <1>9
<1>11. loc + Inside + 4 <= w
  <2>1. PICK p \in {1, 2} : p = Current.part /\ Inside = 4 * (p - 1) /\ 4 * p <= z
    BY <1>3, <1>5, <1>10
  <2>2. loc + z <= w
    BY <1>8, <1>9, <1>10
  <2>3. PICK y : y = Inside
    OBVIOUS
  <2>4. loc \in Nat /\ z \in Nat /\ w \in Nat /\ p \in {1, 2} /\ y = 4 * (p - 1)
        /\ 4 * p <= z
    BY <2>1, <2>3
  <2>5. loc + y + 4 <= w
    BY <2>2, <2>4, SMT
  <2> QED BY <2>3, <2>5
<1> QED BY <1>7, <1>10, <1>11

LEMMA ParseFiles ==
  ASSUME AsmInv, TypeInv, SourceKept, SectionsFit, CellsFiled, ParseAlloc \/ ParseInstr
  PROVE  CellsFiled'
<1>1. phase = "parse" /\ at <= Len(lines)
  BY DEF ParseAlloc, ParseInstr, Reading
<1>2. at \in DOMAIN lines /\ MemLoc \in Nat
  BY <1>1, AtNext, ParsedSections DEF Live
<1>3. CASE \E why : Fail(why)
  <2>1. UNCHANGED <<program, labels, layout, debugInfo>>
    BY <1>3 DEF Fail, mapVars, outVars
  <2> QED BY <2>1 DEF CellsFiled, IsFiled, NamesLine, Labelled, IsItem
<1>4. CASE ParseAlloc /\ \A why : ~Fail(why)
  <2> DEFINE args  == ResolvedArgs(Current.args)
             block == AllocBlock(MemLoc, Current.name, args, Current.no)
             pad   == PaddingBefore(MemLoc, Current.name)
             size  == BlockLength(MemLoc, Current.name, args)
  <2>1. /\ Current.cat = "alloc" /\ RefsOf(Current.args) \subseteq DOMAIN labels
        /\ AllocFault(Current.name, args) = "none"
    BY <1>4 DEF ParseAlloc
  <2>2. Place(block, [a \in {MemLoc + pad} |-> Info(Current, LookupLabel(MemLoc + pad))])
    BY <1>4, <2>1 DEF ParseAlloc
  <2>3. /\ Current.name \in Directives /\ AreOperands(args) /\ Current.part = 1
        /\ Current.no \in DOMAIN program
    BY <1>1, <2>1, ParsedDirective
  <2>4. Sequence(block) /\ Len(block) = size
        /\ \A k \in DOMAIN block :
             /\ block[k].line = Current.no
             /\ IF Current.name = "align" THEN block[k].byte < 0
                ELSE (block[k].arg = 1 /\ block[k].byte = 0)
                       <=> k = Padding(MemLoc, ItemSize(Current.name)) + 1
    BY <1>2, <2>1, <2>3, BlockShape
  <2>5. pad \in Nat /\ size \in Nat /\ pad <= size
    BY <1>2, <2>1, <2>3, PaddingInBlock
  <2>6. Len(layout[section]) + size <= sizes[section]
    BY <1>1, <2>1, AllocFits
  <2>7. \A k \in DOMAIN block : "word" \notin DOMAIN block[k]
    <3>1. \A k \in DOMAIN block : \E x, y, z, v : block[k] = Cell(x, y, z, v)
      BY DEF AllocBlock
    <3>2. \A x, y, z, v : "word" \notin DOMAIN Cell(x, y, z, v)
      BY DEF Cell
    <3> HIDE DEF block
    <3> QED BY <3>1, <3>2
  <2>8. PICK loc \in Nat : loc = MemLoc + pad
    BY <1>2, <2>5, SMT
  <2>9. \A d \in DOMAIN program : Labelled(d, Current.no) =>
          /\ LookupLabel(loc) \in DOMAIN labels /\ labels[LookupLabel(loc)] = loc
    <3>1. SUFFICES ASSUME NEW d \in DOMAIN program, Labelled(d, Current.no)
                   PROVE  /\ LookupLabel(loc) \in DOMAIN labels
                          /\ labels[LookupLabel(loc)] = loc
      OBVIOUS
    <3>2. IsItem(Current)
      BY <2>1 DEF IsItem
    <3>3. /\ program[d].name \in DOMAIN labels /\ labels[program[d].name] = loc
      BY <1>1, <2>1, <2>3, <2>8, <3>1, <3>2, ItemAddress
    <3> QED BY <3>3, FoundLabel
  <2>10. ASSUME NEW k \in DOMAIN block, block[k].arg = 1, block[k].byte = 0
         PROVE  k = loc - MemLoc + 1
    <3>1. Current.name # "align"
      <4>1. CASE Current.name = "align"
        <5>1. 0 < 0
          BY <2>4, <2>10, <4>1
        <5> QED BY <5>1, SMT
      <4> QED BY <4>1
    <3>2. k = pad + 1
      BY <2>4, <2>10, <3>1 DEF PaddingBefore
    <3>3. pad + 1 = loc - MemLoc + 1
      BY <1>2, <2>5, <2>8, SMT
    <3> QED BY <3>2, <3>3
  <2> HIDE DEF args, block, pad, size
  <2>11. MemLoc <= loc /\ loc <= MemLoc + Len(block)
    BY <1>2, <2>4, <2>5, <2>8, SMT
  <2>12. Place(block, [a \in {loc} |-> Info(Current, LookupLabel(loc))])
    BY <2>2, <2>8
  <2>13. Len(layout[section]) + Len(block) <= sizes[section]
    BY <2>4, <2>6
  <2>14. \A k \in DOMAIN block :
           /\ block[k].line = Current.no
           /\ ("word" \in DOMAIN block[k] \/ block[k].arg = 1) /\ block[k].byte = 0
              => k = loc - MemLoc + 1
           /\ block[k].arg = 1 /\ block[k].byte = 0 =>
                \A d \in DOMAIN program : Labelled(d, Current.no) /\ Current.no # 0 =>
                  /\ LookupLabel(loc) \in DOMAIN labels
                  /\ labels[LookupLabel(loc)] = loc
    BY <2>4, <2>7, <2>9, <2>10
  <2> QED BY <1>1, <1>2, <2>4, <2>11, <2>12, <2>13, <2>14, PlaceFiles
<1>5. CASE ParseInstr /\ \A why : ~Fail(why)
  <2> DEFINE block == InstrBlock(MemLoc, Current)
             loc   == MemLoc
  <2>1. Current.cat = "instr"
    BY <1>5 DEF ParseInstr
  <2>2. Place(block, [a \in {loc} |-> Info(Current, LookupLabel(loc))])
    BY <1>5 DEF ParseInstr
  <2>3. /\ DOMAIN block = 1 .. 4
        /\ \A k \in 1 .. 4 : /\ block[k].line = Current.no /\ block[k].arg = Current.part
                              /\ block[k].byte = k - 1
    BY DEF InstrBlock
  <2>4. Sequence(block) /\ Len(block) = 4
    <3>1. 4 \in Nat /\ block = [k \in 1 .. 4 |-> block[k]]
      BY DEF InstrBlock
    <3> HIDE DEF block
    <3> QED BY <3>1, FunctionIsSequence
  <2>5. Len(layout[section]) + Len(block) <= sizes[section]
    BY <1>1, <2>1, <2>4, InstrFits
  <2>6. ASSUME NEW d \in DOMAIN program, Labelled(d, Current.no), Current.no # 0,
               Current.part = 1
        PROVE  LookupLabel(loc) \in DOMAIN labels /\ labels[LookupLabel(loc)] = loc
    <3>1. IsItem(Current)
      BY <2>1 DEF IsItem
    <3>2. Current.no \in DOMAIN program
      BY <1>2, <2>6 DEF SourceKept, Current
    <3>3. /\ program[d].name \in DOMAIN labels /\ labels[program[d].name] = MemLoc + 0
      BY <1>1, <2>1, <2>6, <3>1, <3>2, ItemAddress
    <3>4. labels[program[d].name] = loc
      BY <1>2, <3>3, SMT
    <3> QED BY <3>3, <3>4, FoundLabel
  <2> HIDE DEF block
  <2>7. \A k \in DOMAIN block : block[k].byte = 0 => k = loc - MemLoc + 1
    <3>1. \A k \in 1 .. 4 : k - 1 = 0 => k = MemLoc - MemLoc + 1
      BY <1>2, SMT
    <3> QED BY <2>3, <3>1
  <2>8. MemLoc <= loc /\ loc <= MemLoc + Len(block)
    BY <1>2, <2>4, SMT
  <2> HIDE DEF loc
  <2>9. loc \in Nat
    BY <1>2 DEF loc
  <2>10. \A k \in DOMAIN block :
           /\ block[k].line = Current.no
           /\ ("word" \in DOMAIN block[k] \/ block[k].arg = 1) /\ block[k].byte = 0
              => k = loc - MemLoc + 1
           /\ block[k].arg = 1 /\ block[k].byte = 0 =>
                \A d \in DOMAIN program : Labelled(d, Current.no) /\ Current.no # 0 =>
                  /\ LookupLabel(loc) \in DOMAIN labels
                  /\ labels[LookupLabel(loc)] = loc
    BY <2>3, <2>6, <2>7
  <2> QED BY <1>1, <1>2, <2>2, <2>4, <2>5, <2>8, <2>9, <2>10, PlaceFiles
<1> QED BY <1>3, <1>4, <1>5

LEMMA FiledStep ==
  ASSUME AsmInv, TypeInv, FiledInv, [AsmNext]_asmVars
  PROVE  FiledInv'
<1>1. CASE /\ UNCHANGED <<program, lines, sizes, labels, layout, debugInfo>>
           /\ phase' \in {phase, "refused", "escaped", "undefined"}
               \/ (phase = "parse" /\ phase' = "done")
  BY <1>1 DEF FiledInv, SourceKept, SectionsFit, CellsFiled, IsFiled, NamesLine, Labelled,
              IsItem, Sections
<1>2. CASE UNCHANGED asmVars
  BY <1>1, <1>2 DEF asmVars, passVars, mapVars, textVars, outVars
<1>3. CASE (\E why : Fail(why)) \/ Lost
  BY <1>1, <1>3 DEF Fail, Lost, passVars, mapVars, textVars, outVars
<1>4. CASE phase \in {"start", "labels"} /\ ~StartExpanding /\ ~Lost
           /\ (\A why : ~Fail(why)) /\ AsmNext
  <2>1. phase' \notin {"pseudo", "parse", "done"}
    BY <1>4 DEF AsmNext, Begin, EnterSection, NoFirstLine, MeasureAlloc, Measure,
                MeasureInstr, DefineLabel, MeasureOther, NextLine, Reading, AllRead,
                KeepLine, Expand, StartParsing, ParseAlloc, ParseInstr, PassLabel,
                RejectToken, Finish
  <2> QED BY <2>1 DEF FiledInv
<1>5. CASE StartExpanding
  <2>1. phase' = "pseudo" /\ SourceKept'
    BY <1>5, StartExpandingSource DEF StartExpanding
  <2> QED BY <2>1 DEF FiledInv
<1>6. CASE EnterSection \/ KeepLine \/ PassLabel \/ Finish
  BY <1>1, <1>6 DEF EnterSection, KeepLine, PassLabel, Finish, NextLine, AllRead, mapVars,
                    textVars, outVars
<1>7. CASE Expand /\ ~Lost /\ \A why : ~Fail(why)
  <2>1. phase = "pseudo" /\ phase' = "pseudo"
    BY <1>7, ExpandFacts
  <2> QED BY <1>7, <2>1, ExpandSource DEF FiledInv
<1>8. CASE StartParsing
  <2>1. /\ phase = "pseudo" /\ phase' = "parse"
        /\ UNCHANGED <<program, lines, layout>>
    BY <1>8 DEF StartParsing, AllRead, textVars, outVars
  <2>2. PICK g, a : SecondPass(g, a)
    BY <2>1 DEF AsmInv
  <2>3. layout = Nothing
    BY <2>2 DEF SecondPass
  <2>4. \A s \in Sections : layout'[s] = <<>> /\ DOMAIN <<>> = {}
    BY <2>1, <2>3 DEF Nothing
  <2>5. CellsFiled'
    BY <2>4 DEF CellsFiled, Sections
  <2> QED BY <2>1, <2>5 DEF FiledInv, SourceKept
<1>9. CASE (ParseAlloc \/ ParseInstr) /\ \A why : ~Fail(why)
  <2>1. phase = "parse" /\ phase' = "parse"
    BY <1>9 DEF ParseAlloc, ParseInstr, Place, NextLine, Reading
  <2>2. UNCHANGED <<program, lines, sizes>>
    BY <1>9 DEF ParseAlloc, ParseInstr, Place, NextLine, mapVars, textVars
  <2>3. SourceKept' /\ (SectionsFit' => SectionsFit)
    BY <2>1, <2>2 DEF FiledInv, SourceKept, SectionsFit, Sections
  <2> QED BY <1>9, <2>1, <2>3, ParseFiles DEF FiledInv
<1>10. CASE RejectToken
  BY <1>3, <1>10 DEF RejectToken
<1>11. phase \in {"pseudo", "parse", "done"} \/ phase \in {"start", "labels"}
       \/ UNCHANGED asmVars
  BY DEF AsmNext, Begin, EnterSection, NoFirstLine, MeasureAlloc,
         MeasureInstr, DefineLabel, MeasureOther, Reading, AllRead,
         KeepLine, Expand, StartExpanding, StartParsing, ParseAlloc, ParseInstr, PassLabel,
         RejectToken, Finish
<1>12. CASE phase \in {"pseudo", "parse", "done"} /\ AsmNext
  <2>1. EnterSection \/ KeepLine \/ Expand \/ StartParsing \/ ParseAlloc \/ ParseInstr
        \/ PassLabel \/ RejectToken \/ Finish
    BY <1>12 DEF AsmNext, Begin, NoFirstLine, MeasureAlloc, MeasureInstr, DefineLabel,
                 MeasureOther, StartExpanding, Reading, AllRead
  <2> QED BY <1>3, <1>6, <1>7, <1>8, <1>9, <1>10, <2>1
<1> QED BY <1>2, <1>3, <1>4, <1>5, <1>11, <1>12

LEMMA FiledInvariant == AsmSpec => []FiledInv
<1>1. Init => FiledInv
  BY DEF Init, FiledInv
<1>2. AsmInv /\ TypeInv /\ FiledInv /\ [AsmNext]_asmVars => FiledInv'
  BY FiledStep
<1> QED BY <1>1, <1>2, AsmInvariant, TypeInvariant, PTL DEF AsmSpec

LEMMA FiledNames == FiledInv => DebugInfoNamesLine
BY DEF FiledInv, CellsFiled, IsFiled, DebugInfoNamesLine

(* What parse files under an address is the line whose bytes are there, and *)
(* under a label if it has one, for every program whose sections fit.       *)
THEOREM AssemblerDebugInfoNamesLine == AsmSpec => []DebugInfoNamesLine
<1> QED BY FiledNames, FiledInvariant, PTL

-----------------------------------------------------------------------------
(* Names.  Before line m of the first pass, a label line has its address,  *)
(* or waits for the next item.                                             *)

Waiting(m) ==
  {d \in LabelLines : d < m /\ \A k \in d + 1 .. m - 1 : ~IsItem(program[k])}
Resolved(m) ==
  {d \in LabelLines : \E e \in DOMAIN program : Labelled(d, e) /\ e < m}
NamesOf(D) == {program[d].name : d \in D}

NamesInv(m) ==
  /\ DOMAIN labels = {"_start"} \union NamesOf(Resolved(m))
  /\ pending = NamesOf(Waiting(m))
  /\ \A d \in LabelLines : d < m => d \in Resolved(m) \union Waiting(m)
  /\ \A d \in LabelLines : d < m =>
       /\ program[d].name # "_start"
       /\ \A e \in LabelLines : e < m /\ e # d => program[e].name # program[d].name

LEMMA LabelLinesFacts ==
  ASSUME IsProgram(program)
  PROVE  /\ Len(program) \in Nat /\ DOMAIN program = 1 .. Len(program)
         /\ \A d \in LabelLines : /\ d \in 1 .. Len(program) /\ d \in Nat
                                  /\ program[d].cat = "label"
                                  /\ ~IsItem(program[d])
<1>1. Len(program) \in Nat /\ DOMAIN program = 1 .. Len(program)
  BY ProgramFacts
<1> QED BY <1>1, SMT DEF LabelLines, IsItem

(* A line that is no item keeps the labels waiting. *)
LEMMA WaitingOn ==
  ASSUME IsProgram(program), NEW m \in DOMAIN program, ~IsItem(program[m])
  PROVE  /\ Waiting(m + 1) = Waiting(m) \union
              (IF program[m].cat = "label" THEN {m} ELSE {})
         /\ Resolved(m + 1) = Resolved(m)
<1>1. /\ Len(program) \in Nat /\ DOMAIN program = 1 .. Len(program) /\ m \in Nat
      /\ m + 1 - 1 = m
  BY LabelLinesFacts, SMT
<1>2. ASSUME NEW d \in LabelLines
      PROVE  d \in Waiting(m + 1) <=> d \in Waiting(m) \/ d = m
  <2>1. d \in Nat
    BY <1>2, LabelLinesFacts
  <2>2. CASE d = m
    <3>1. d < m + 1 /\ d + 1 .. m = {}
      BY <1>1, <2>2, SMT
    <3> QED BY <1>1, <1>2, <2>2, <3>1 DEF Waiting
  <2>3. CASE d # m
    <3>1. d < m + 1 <=> d < m
      BY <1>1, <2>1, <2>3, SMT
    <3>2. d < m => d + 1 .. m = (d + 1 .. m - 1) \union {m}
      BY <1>1, <2>1, SMT
    <3> QED BY <1>1, <1>2, <2>3, <3>1, <3>2 DEF Waiting
  <2> QED BY <2>2, <2>3
<1>3. \A d \in Waiting(m) \union Waiting(m + 1) : d \in LabelLines
  BY DEF Waiting
<1>4. m \in LabelLines <=> program[m].cat = "label"
  BY DEF LabelLines
<1>5. Waiting(m + 1) = Waiting(m) \union (IF program[m].cat = "label" THEN {m} ELSE {})
  BY <1>2, <1>3, <1>4
<1>6. ASSUME NEW d, NEW e \in DOMAIN program, Labelled(d, e) PROVE e < m + 1 <=> e < m
  <2>1. e # m
    BY <1>6 DEF Labelled
  <2> QED BY <1>1, <2>1, SMT
<1>7. Resolved(m + 1) = Resolved(m)
  BY <1>6 DEF Resolved
<1> QED BY <1>5, <1>7

(* An item ends the wait of all. *)
LEMMA WaitingEnds ==
  ASSUME IsProgram(program), NEW m \in 0 .. Len(program), m # 0 => IsItem(program[m])
  PROVE  /\ Waiting(m + 1) = {}
         /\ Resolved(m + 1) = Resolved(m) \union Waiting(m)
<1>1. /\ Len(program) \in Nat /\ DOMAIN program = 1 .. Len(program) /\ m \in Nat
      /\ m + 1 - 1 = m
  BY LabelLinesFacts, SMT
<1>2. Waiting(m + 1) = {}
  <2> SUFFICES ASSUME NEW d \in Waiting(m + 1) PROVE FALSE
    OBVIOUS
  <2>1. d \in LabelLines /\ d < m + 1 /\ \A k \in d + 1 .. m : ~IsItem(program[k])
    BY <1>1 DEF Waiting
  <2>2. d \in 1 .. Len(program) /\ d \in Nat /\ ~IsItem(program[d])
    BY <2>1, LabelLinesFacts
  <2>3. m # 0 /\ (d = m \/ m \in d + 1 .. m)
    BY <1>1, <2>1, <2>2, SMT
  <2> QED BY <2>1, <2>2, <2>3
<1>3. ASSUME NEW d \in LabelLines
      PROVE  d \in Resolved(m + 1) <=> d \in Resolved(m) \/ d \in Waiting(m)
  <2>1. d \in 1 .. Len(program) /\ d \in Nat /\ program[d].cat = "label"
    BY <1>3, LabelLinesFacts
  <2>2. ASSUME NEW e \in DOMAIN program PROVE e < m + 1 <=> e < m \/ e = m
    BY <1>1, SMT
  <2>3. ASSUME d \in Waiting(m) PROVE d \in Resolved(m + 1)
    <3>1. d < m /\ \A k \in d + 1 .. m - 1 : ~IsItem(program[k])
      BY <2>3 DEF Waiting
    <3>2. m # 0 /\ m \in DOMAIN program
      BY <1>1, <2>1, <3>1, SMT
    <3>3. Labelled(d, m) /\ m < m + 1
      BY <1>1, <2>1, <3>1, <3>2 DEF Labelled
    <3> QED BY <1>3, <3>2, <3>3 DEF Resolved
  <2>4. ASSUME NEW e \in DOMAIN program, Labelled(d, e), e = m PROVE d \in Waiting(m)
    BY <1>3, <2>4 DEF Labelled, Waiting
  <2> QED BY <1>3, <2>2, <2>3, <2>4 DEF Resolved
<1>4. Resolved(m + 1) = Resolved(m) \union Waiting(m)
  <2>1. \A d \in Resolved(m + 1) \union Resolved(m) \union Waiting(m) : d \in LabelLines
    BY DEF Resolved, Waiting
  <2> QED BY <1>3, <2>1
<1> QED BY <1>2, <1>4

LEMMA NamesStay ==
  ASSUME NEW m, NamesInv(m), program' = program, pending' = pending,
         DOMAIN labels' = DOMAIN labels
  PROVE  NamesInv(m)'
<1>1. Waiting(m)' = Waiting(m) /\ Resolved(m)' = Resolved(m) /\ LabelLines' = LabelLines
  BY DEF Waiting, Resolved, LabelLines, Labelled, IsItem
<1> QED BY <1>1 DEF NamesInv, NamesOf

(* An item, and the line parse adds. *)
LEMMA NamesGet ==
  ASSUME IsProgram(program), NEW m \in 0 .. Len(program), m # 0 => IsItem(program[m]),
         NamesInv(m), program' = program, pending' = {},
         DOMAIN labels' = pending \union DOMAIN labels
  PROVE  NamesInv(m + 1)'
<1>1. /\ Waiting(m + 1)' = Waiting(m + 1) /\ Resolved(m + 1)' = Resolved(m + 1)
      /\ LabelLines' = LabelLines
  BY DEF Waiting, Resolved, LabelLines, Labelled, IsItem
<1>2. Waiting(m + 1) = {} /\ Resolved(m + 1) = Resolved(m) \union Waiting(m)
  BY WaitingEnds
<1>3. \A d \in LabelLines : d < m + 1 <=> d < m
  <2> SUFFICES ASSUME NEW d \in LabelLines PROVE d < m + 1 <=> d < m
    OBVIOUS
  <2>1. Len(program) \in Nat /\ d \in 1 .. Len(program) /\ d \in Nat /\ ~IsItem(program[d])
    BY LabelLinesFacts
  <2>2. d # m
    <3>1. d # 0
      BY <2>1, SMT
    <3> QED BY <2>1, <3>1
  <2> QED BY <2>1, <2>2, SMT
<1>4. DOMAIN labels' = {"_start"} \union NamesOf(Resolved(m + 1))
  BY <1>2 DEF NamesInv, NamesOf
<1> QED BY <1>1, <1>2, <1>3, <1>4 DEF NamesInv, NamesOf

(* A line that is no item. *)
LEMMA NamesWait ==
  ASSUME IsProgram(program), NEW m \in DOMAIN program, ~IsItem(program[m]),
         NamesInv(m), program' = program, labels' = labels,
         \/ pending' = pending /\ program[m].cat # "label"
         \/ /\ program[m].cat = "label"
            /\ program[m].name \notin DOMAIN labels \union pending
            /\ pending' = pending \union {program[m].name}
  PROVE  NamesInv(m + 1)'
<1>1. /\ Waiting(m + 1)' = Waiting(m + 1) /\ Resolved(m + 1)' = Resolved(m + 1)
      /\ LabelLines' = LabelLines
  BY DEF Waiting, Resolved, LabelLines, Labelled, IsItem
<1>2. /\ Waiting(m + 1) = Waiting(m) \union (IF program[m].cat = "label" THEN {m} ELSE {})
      /\ Resolved(m + 1) = Resolved(m)
  BY WaitingOn
<1>3. \A d \in LabelLines : d < m + 1 <=> d < m \/ d = m
  <2> SUFFICES ASSUME NEW d \in LabelLines PROVE d < m + 1 <=> d < m \/ d = m
    OBVIOUS
  <2>1. Len(program) \in Nat /\ DOMAIN program = 1 .. Len(program) /\ d \in Nat
    BY LabelLinesFacts
  <2> QED BY <2>1, SMT
<1>4. m \in LabelLines <=> program[m].cat = "label"
  BY DEF LabelLines
<1>5. pending' = NamesOf(Waiting(m + 1))
  BY <1>2 DEF NamesInv, NamesOf
<1>6. \A d \in LabelLines : d < m + 1 => d \in Resolved(m + 1) \union Waiting(m + 1)
  BY <1>2, <1>3, <1>4 DEF NamesInv
<1>7. \A d \in LabelLines : d < m => program[d].name \in DOMAIN labels \union pending
  BY DEF NamesInv, NamesOf
<1>8. "_start" \in DOMAIN labels
  BY DEF NamesInv
<1>9. ASSUME NEW d \in LabelLines, d < m + 1
      PROVE  /\ program[d].name # "_start"
             /\ \A e \in LabelLines : e < m + 1 /\ e # d => program[e].name # program[d].name
  <2>1. CASE d < m
    <3>1. program[d].name # "_start"
      BY <1>9, <2>1 DEF NamesInv
    <3>2. ASSUME NEW e \in LabelLines, e < m + 1, e # d
          PROVE  program[e].name # program[d].name
      <4>1. CASE e < m
        BY <1>9, <2>1, <3>2, <4>1 DEF NamesInv
      <4>2. CASE e = m
        BY <1>4, <1>7, <1>9, <2>1, <3>2, <4>2
      <4> QED BY <1>3, <3>2, <4>1, <4>2
    <3> QED BY <3>1, <3>2
  <2>2. CASE d = m
    <3>1. program[m].name \notin DOMAIN labels \union pending
      BY <1>4, <1>9, <2>2
    <3>2. ASSUME NEW e \in LabelLines, e < m + 1, e # d
          PROVE  program[e].name # program[d].name
      <4>1. e < m
        BY <1>3, <2>2, <3>2
      <4> QED BY <1>7, <2>2, <3>1, <3>2, <4>1
    <3> QED BY <1>8, <2>2, <3>1, <3>2
  <2> QED BY <1>3, <1>9, <2>1, <2>2
<1>10. DOMAIN labels' = {"_start"} \union NamesOf(Resolved(m + 1))
  BY <1>2 DEF NamesInv
<1> QED BY <1>1, <1>5, <1>6, <1>9, <1>10 DEF NamesInv, NamesOf

(* The names that items refer to. *)
ItemRefs == UNION {RefsOf(program[k].args) :
                     k \in {e \in DOMAIN program : IsItem(program[e])}}

(* What the names of all lines say of the program. *)
LEMMA AllNamed ==
  ASSUME IsProgram(program), NamesInv(Len(program) + 1)
  PROVE  ~Duplicated /\ Dangling = ItemRefs \ DOMAIN labels
<1>1. \A d \in DOMAIN program : d < Len(program) + 1
  BY LabelLinesFacts, SMT
<1>2. LabelLines \subseteq DOMAIN program
  BY DEF LabelLines
<1>3. ~Duplicated
  BY <1>1, <1>2 DEF NamesInv, Duplicated
<1>4. Resolved(Len(program) + 1)
        = {x \in DOMAIN program : \E e \in DOMAIN program : Labelled(x, e)}
  BY <1>1 DEF Resolved, LabelLines, Labelled
<1>5. NamesOf(Resolved(Len(program) + 1))
        = {program[d].name : d \in {x \in DOMAIN program :
                               \E e \in DOMAIN program : Labelled(x, e)}}
  BY <1>4, Zenon DEF NamesOf
<1>6. DOMAIN labels
        = {"_start"} \union {program[d].name : d \in {x \in DOMAIN program :
                                \E e \in DOMAIN program : Labelled(x, e)}}
  BY <1>5 DEF NamesInv
<1>7. Dangling = ItemRefs \ DOMAIN labels
  BY <1>6 DEF Dangling, ItemRefs
<1> QED BY <1>3, <1>7

(* A name that is taken is that of a line before. *)
LEMMA TakenTwice ==
  ASSUME IsProgram(program), NEW m \in LabelLines, NamesInv(m),
         program[m].name \in DOMAIN labels \union pending
  PROVE  Duplicated
<1>1. CASE program[m].name = "_start"
  BY <1>1 DEF Duplicated
<1>2. CASE program[m].name \in NamesOf(Resolved(m))
  <2>1. PICK d \in Resolved(m) : program[d].name = program[m].name
    BY <1>2 DEF NamesOf
  <2>2. PICK e \in DOMAIN program : d \in LabelLines /\ Labelled(d, e) /\ e < m
    BY <2>1 DEF Resolved
  <2>3. d < e /\ d \in Nat /\ m \in Nat
    BY <2>2, LabelLinesFacts DEF Labelled
  <2>4. e \in Nat
    BY LabelLinesFacts, SMT
  <2>5. d # m
    BY <2>2, <2>3, <2>4, SMT
  <2> QED BY <2>1, <2>2, <2>5 DEF Duplicated
<1>3. CASE program[m].name \in NamesOf(Waiting(m))
  <2>1. PICK d \in Waiting(m) : program[d].name = program[m].name
    BY <1>3 DEF NamesOf
  <2>2. d \in LabelLines /\ d < m /\ d \in Nat /\ m \in Nat
    BY <2>1, LabelLinesFacts DEF Waiting
  <2>3. d # m
    BY <2>2, SMT
  <2> QED BY <2>1, <2>2, <2>3 DEF Duplicated
<1> QED BY <1>1, <1>2, <1>3 DEF NamesInv

-----------------------------------------------------------------------------
(* References.  A pseudo instruction hands its own on, all of them but     *)
(* those whose address it takes.                                           *)

LEMMA RefsOfOne ==
  ASSUME NEW x
  PROVE  RefsOf(<<x>>) = IF x.cat = "ref" THEN {x.ref} ELSE {}
<1>1. DOMAIN <<x>> = {1}
  BY SMT
<1> QED BY <1>1 DEF RefsOf

LEMMA RefsOfTwo ==
  ASSUME NEW x, NEW y
  PROVE  RefsOf(<<x, y>>) = {v.ref : v \in {w \in {x, y} : w.cat = "ref"}}
<1>1. DOMAIN <<x, y>> = {1, 2} /\ <<x, y>>[1] = x /\ <<x, y>>[2] = y
  BY SMT
<1> QED BY <1>1 DEF RefsOf

LEMMA RefsOfThree ==
  ASSUME NEW x, NEW y, NEW z
  PROVE  RefsOf(<<x, y, z>>) = {v.ref : v \in {w \in {x, y, z} : w.cat = "ref"}}
<1>1. /\ DOMAIN <<x, y, z>> = {1, 2, 3}
      /\ <<x, y, z>>[1] = x /\ <<x, y, z>>[2] = y /\ <<x, y, z>>[3] = z
  BY SMT
<1> QED BY <1>1 DEF RefsOf

LEMMA NoRefs ==
  ASSUME NEW args, \A k \in DOMAIN args : args[k].cat # "ref"
  PROVE  RefsOf(args) = {}
  BY DEF RefsOf

(* The operands a pattern stands for. *)
LEMMA PatternOfNone ==
  ASSUME NEW args, Categories(args) = <<>>
  PROVE  DOMAIN args = {} /\ RefsOf(args) = {}
<1>1. DOMAIN Categories(args) = DOMAIN args
  BY DEF Categories
<1>2. DOMAIN args = {}
  BY <1>1
<1> QED BY <1>2, NoRefs

LEMMA PatternOfTwo ==
  ASSUME NEW args, NEW c, NEW d, Categories(args) = <<c, d>>
  PROVE  /\ DOMAIN args = {1, 2} /\ args[1].cat = c /\ args[2].cat = d
<1>1. /\ DOMAIN Categories(args) = DOMAIN args
      /\ \A k \in DOMAIN args : Categories(args)[k] = args[k].cat
  BY DEF Categories
<1>2. DOMAIN <<c, d>> = {1, 2} /\ <<c, d>>[1] = c /\ <<c, d>>[2] = d
  BY SMT
<1> QED BY <1>1, <1>2

LEMMA PatternOfThree ==
  ASSUME NEW args, NEW c, NEW d, NEW e, Categories(args) = <<c, d, e>>
  PROVE  /\ DOMAIN args = {1, 2, 3}
         /\ args[1].cat = c /\ args[2].cat = d /\ args[3].cat = e
<1>1. /\ DOMAIN Categories(args) = DOMAIN args
      /\ \A k \in DOMAIN args : Categories(args)[k] = args[k].cat
  BY DEF Categories
<1>2. /\ DOMAIN <<c, d, e>> = {1, 2, 3}
      /\ <<c, d, e>>[1] = c /\ <<c, d, e>>[2] = d /\ <<c, d, e>>[3] = e
  BY SMT
<1> QED BY <1>1, <1>2

HandsOn(new, args) ==
  /\ \A k \in DOMAIN new : RefsOf(new[k][2]) \subseteq RefsOf(args)
  /\ \A r \in RefsOf(args) : \/ r \in DOMAIN labels
                             \/ \E k \in DOMAIN new : r \in RefsOf(new[k][2])

(* Two lines of which the first has no reference, and one line. *)
LEMMA TwoHandOn ==
  ASSUME NEW args, NEW x, NEW y, NEW n, NEW m, RefsOf(x) = {},
         \/ RefsOf(y) = RefsOf(args)
         \/ RefsOf(y) = {} /\ RefsOf(args) \subseteq DOMAIN labels
  PROVE  HandsOn(<<Instr(n, x), Instr(m, y)>>, args)
<1> DEFINE s == <<Instr(n, x), Instr(m, y)>>
<1>1. DOMAIN s = {1, 2}
  BY SMT
<1>2. s[1][2] = x /\ s[2][2] = y
  BY SMT DEF Instr
<1> HIDE DEF s
<1>3. HandsOn(s, args)
  BY <1>1, <1>2 DEF HandsOn
<1> QED BY <1>3 DEF s

LEMMA OneHandsOn ==
  ASSUME NEW args, NEW y, NEW m, RefsOf(y) = RefsOf(args)
  PROVE  HandsOn(<<Instr(m, y)>>, args)
<1> DEFINE s == <<Instr(m, y)>>
<1>1. DOMAIN s = {1}
  BY SMT
<1>2. s[1][2] = y
  BY SMT DEF Instr
<1> HIDE DEF s
<1>3. HandsOn(s, args)
  BY <1>1, <1>2 DEF HandsOn
<1> QED BY <1>3 DEF s

LEMMA AliasRefs ==
  ASSUME NEW name, NEW args, IsAlias(name, args), PseudoFault(name, args) = "none"
  PROVE  HandsOn(AliasLines(name, args), args)
<1>1. At.cat = "reg" /\ Zero.cat = "reg" /\ \A v : Imm(v).cat = "imm"
  BY DEF At, Zero, Reg, Imm
<1>2. CASE name \in {"div", "divu"}
  <2>1. Categories(args) = <<"reg", "reg", "reg">>
    BY <1>2 DEF IsAlias, Loads, Stores
  <2>2. /\ DOMAIN args = {1, 2, 3}
        /\ args[1].cat = "reg" /\ args[2].cat = "reg" /\ args[3].cat = "reg"
    BY <2>1, PatternOfThree
  <2>3. RefsOf(args) = {}
    BY <2>2, NoRefs
  <2>4. RefsOf(<<args[2], args[3]>>) = {} /\ RefsOf(<<args[1]>>) = {}
    <3>1. PICK x, y, z : x = args[1] /\ y = args[2] /\ z = args[3]
      OBVIOUS
    <3>2. x.cat # "ref" /\ y.cat # "ref" /\ z.cat # "ref"
      BY <2>2, <3>1
    <3>3. RefsOf(<<y, z>>) = {}
      BY <3>2, RefsOfTwo
    <3>4. RefsOf(<<x>>) = {}
      BY <3>2, RefsOfOne
    <3> QED BY <3>1, <3>3, <3>4
  <2> QED BY <1>2, <2>3, <2>4, TwoHandOn DEF AliasLines
<1>3. CASE name \notin {"div", "divu"}
  <2>1. name \in Loads \union Stores
        /\ Categories(args) \in {<<"reg", "imm">>, <<"reg", "ref">>}
    BY <1>3 DEF IsAlias
  <2>2. args[1].cat = "reg"
    BY <2>1, PatternOfTwo
  <2>3. RefsOf(args) \subseteq DOMAIN labels
    BY <2>1, Zenon DEF PseudoFault
  <2> DEFINE u == Imm(UpperHalf(ValueOf(args[2])))
             v == Imm(LowerHalf(ValueOf(args[2])))
  <2>4. u.cat = "imm" /\ v.cat = "imm"
    BY <1>1
  <2> HIDE DEF u, v
  <2>5. RefsOf(<<At, u>>) = {} /\ RefsOf(<<args[1], At, v>>) = {}
    BY <1>1, <2>2, <2>4, RefsOfTwo, RefsOfThree
  <2>6. HandsOn(<<Instr("lui", <<At, u>>), Instr(name, <<args[1], At, v>>)>>, args)
    BY <2>3, <2>5, TwoHandOn
  <2> QED BY <1>3, <2>6 DEF AliasLines, u, v
<1> QED BY <1>2, <1>3

(* What the pseudo instructions accept. *)
LEMMA PseudoPatterns ==
  /\ Patterns("li")   = {<<"reg", "imm">>}
  /\ Patterns("la")   = {<<"reg", "ref">>, <<"reg", "imm">>}
  /\ Patterns("move") = {<<"reg", "reg">>}
  /\ Patterns("mul")  = {<<"reg", "reg", "reg">>}
  /\ Patterns("subi") = {<<"reg", "reg", "imm">>}
  /\ Patterns("nop")  = {<<>>}
  /\ \A name \in BranchZeroPseudo \union {"beqz", "bnez"} :
       Patterns(name) = {<<"reg", "ref">>}
  /\ \A name \in BranchPseudo : Patterns(name) = {<<"reg", "reg", "ref">>}
  BY DEF Patterns, R_TYPE_D_S_T, R_TYPE_D_T_S, R_TYPE_D_T_H, R_TYPE_D, R_TYPE_S, R_TYPE_S_T,
         Loads, Stores, I_TYPE_T_S_I, I_TYPE_S_T_L, I_TYPE_T_I, J_TYPE_L, CP0_TYPE_T_D,
         CP1_TYPE_SP_D_S, CP1_TYPE_DP_D_S, CP1_TYPE_SP_D_S_T, CP1_TYPE_DP_D_S_T,
         CP1_TYPE_SP_S_T_C, CP1_TYPE_DP_S_T_C, CP1_TYPE_T_S, CP1_TYPE_T_S_I, CP1_TYPE_L,
         CP1_TYPE_D_S, CP1_TYPE_D_S_T, CP1_TYPE_S_T_C, BranchPseudo, BranchZeroPseudo

LEMMA BranchRefs ==
  ASSUME NEW args, NEW x, NEW y, NEW label, x.cat = "reg", y.cat = "reg",
         label.cat = "ref", RefsOf(args) = {label.ref}, NEW lt, NEW eq
  PROVE  HandsOn(BranchLines(x, y, label, lt, eq), args)
<1> DEFINE s == IF lt THEN <<At, x, y>> ELSE <<At, y, x>>
           n == IF eq THEN "beq" ELSE "bne"
<1>1. At.cat = "reg" /\ Zero.cat = "reg"
  BY DEF At, Zero, Reg
<1>2. RefsOf(<<At, x, y>>) = {} /\ RefsOf(<<At, y, x>>) = {}
  BY <1>1, RefsOfThree
<1>3. RefsOf(<<At, Zero, label>>) = {label.ref}
  BY <1>1, RefsOfThree
<1>4. RefsOf(s) = {}
  BY <1>2
<1>5. BranchLines(x, y, label, lt, eq)
        = <<Instr("slt", s), Instr(n, <<At, Zero, label>>)>>
  BY DEF BranchLines
<1> HIDE DEF s, n
<1> QED BY <1>3, <1>4, <1>5, TwoHandOn

LEMMA ReplacementRefs ==
  ASSUME NEW name, NEW args, IsPseudo(name, args), PseudoFault(name, args) = "none"
  PROVE  HandsOn(Replacement(name, args), args)
<1> DEFINE new == Replacement(name, args)
<1>1. At.cat = "reg" /\ Zero.cat = "reg" /\ \A v : Imm(v).cat = "imm"
  BY DEF At, Zero, Reg, Imm
<1>2. PICK x, y, z : x = args[1] /\ y = args[2] /\ z = args[3]
  OBVIOUS
<1>3. CASE IsAlias(name, args)
  <2>1. name \in Loads \union Stores \union {"div", "divu"}
    BY <1>3 DEF IsAlias
  <2>2. new = AliasLines(name, args)
    BY <1>3, <2>1 DEF Replacement, Loads, Stores, BranchPseudo, BranchZeroPseudo
  <2> QED BY <1>3, <2>2, AliasRefs
<1>4. CASE ~IsAlias(name, args)
  <2>1. name \in PseudoNames /\ Categories(args) \in Patterns(name)
    BY <1>4 DEF IsPseudo, PseudoFault
  <2>2. CASE name = "li"
    <3>1. Categories(args) = <<"reg", "imm">>
      BY <2>1, <2>2, PseudoPatterns
    <3>2. /\ DOMAIN args = {1, 2} /\ x.cat = "reg" /\ y.cat = "imm"
          /\ args[1].cat = "reg" /\ args[2].cat = "imm"
      BY <1>2, <3>1, PatternOfTwo
    <3>3. RefsOf(args) = {}
      BY <3>2, NoRefs
    <3>4. RefsOf(<<x, Zero, y>>) = {}
      BY <1>1, <3>2, RefsOfThree
    <3>5. new = <<Instr("addiu", <<x, Zero, y>>)>>
      BY <1>2, <1>4, <2>2 DEF Replacement, BranchPseudo, BranchZeroPseudo
    <3> QED BY <3>3, <3>4, <3>5, OneHandsOn
  <2>3. CASE name = "la"
    <3>1. Categories(args) \in {<<"reg", "ref">>, <<"reg", "imm">>}
      BY <2>1, <2>3, PseudoPatterns
    <3>2. x.cat = "reg"
      BY <1>2, <3>1, PatternOfTwo
    <3>3. RefsOf(args) \subseteq DOMAIN labels
      BY <2>1, <2>3, Zenon DEF PseudoFault
    <3> DEFINE u == Imm(UpperHalf(ValueOf(args[2])))
               v == Imm(LowerHalf(ValueOf(args[2])))
    <3>4. u.cat = "imm" /\ v.cat = "imm"
      BY <1>1
    <3>5. new = <<Instr("lui", <<At, u>>), Instr("ori", <<x, At, v>>)>>
      BY <1>2, <1>4, <2>3 DEF Replacement, BranchPseudo, BranchZeroPseudo
    <3> HIDE DEF u, v
    <3>6. RefsOf(<<At, u>>) = {} /\ RefsOf(<<x, At, v>>) = {}
      BY <1>1, <3>2, <3>4, RefsOfTwo, RefsOfThree
    <3> QED BY <3>3, <3>5, <3>6, TwoHandOn
  <2>4. CASE name = "move"
    <3>1. Categories(args) = <<"reg", "reg">>
      BY <2>1, <2>4, PseudoPatterns
    <3>2. /\ DOMAIN args = {1, 2} /\ x.cat = "reg" /\ y.cat = "reg"
          /\ args[1].cat = "reg" /\ args[2].cat = "reg"
      BY <1>2, <3>1, PatternOfTwo
    <3>3. RefsOf(args) = {}
      BY <3>2, NoRefs
    <3>4. RefsOf(<<x, Zero, y>>) = {}
      BY <1>1, <3>2, RefsOfThree
    <3>5. new = <<Instr("addu", <<x, Zero, y>>)>>
      BY <1>2, <1>4, <2>4 DEF Replacement, BranchPseudo, BranchZeroPseudo
    <3> QED BY <3>3, <3>4, <3>5, OneHandsOn
  <2>5. CASE name = "mul"
    <3>1. Categories(args) = <<"reg", "reg", "reg">>
      BY <2>1, <2>5, PseudoPatterns
    <3>2. /\ DOMAIN args = {1, 2, 3} /\ x.cat = "reg" /\ y.cat = "reg" /\ z.cat = "reg"
          /\ args[1].cat = "reg" /\ args[2].cat = "reg" /\ args[3].cat = "reg"
      BY <1>2, <3>1, PatternOfThree
    <3>3. RefsOf(args) = {}
      BY <3>2, NoRefs
    <3>4. RefsOf(<<y, z>>) = {}
      BY <3>2, RefsOfTwo
    <3>5. RefsOf(<<x>>) = {}
      BY <3>2, RefsOfOne
    <3>6. new = <<Instr("mult", <<y, z>>), Instr("mflo", <<x>>)>>
      BY <1>2, <1>4, <2>5 DEF Replacement, BranchPseudo, BranchZeroPseudo
    <3> QED BY <3>3, <3>4, <3>5, <3>6, TwoHandOn
  <2>6. CASE name = "subi"
    <3>1. Categories(args) = <<"reg", "reg", "imm">>
      BY <2>1, <2>6, PseudoPatterns
    <3>2. /\ DOMAIN args = {1, 2, 3} /\ x.cat = "reg" /\ y.cat = "reg" /\ z.cat = "imm"
          /\ args[1].cat = "reg" /\ args[2].cat = "reg" /\ args[3].cat = "imm"
      BY <1>2, <3>1, PatternOfThree
    <3>3. RefsOf(args) = {}
      BY <3>2, NoRefs
    <3> DEFINE v == Imm(Wrap(-args[3].imm))
    <3>4. v.cat = "imm"
      BY <1>1
    <3>5. new = <<Instr("addi", <<x, y, v>>)>>
      BY <1>2, <1>4, <2>6 DEF Replacement, BranchPseudo, BranchZeroPseudo
    <3> HIDE DEF v
    <3>6. RefsOf(<<x, y, v>>) = {}
      BY <3>2, <3>4, RefsOfThree
    <3> QED BY <3>3, <3>5, <3>6, OneHandsOn
  <2>7. CASE name = "nop"
    <3>1. Categories(args) = <<>>
      BY <2>1, <2>7, PseudoPatterns
    <3>2. RefsOf(args) = {}
      BY <3>1, PatternOfNone
    <3>3. RefsOf(<<Zero, Zero, Imm(0)>>) = {}
      BY <1>1, RefsOfThree
    <3>4. new = <<Instr("sll", <<Zero, Zero, Imm(0)>>)>>
      BY <1>4, <2>7 DEF Replacement, BranchPseudo, BranchZeroPseudo
    <3> QED BY <3>2, <3>3, <3>4, OneHandsOn
  <2>8. CASE name \in {"beqz", "bnez"} \union BranchZeroPseudo
    <3>1. Categories(args) = <<"reg", "ref">>
      BY <2>1, <2>8, PseudoPatterns
    <3>2. /\ DOMAIN args = {1, 2} /\ x.cat = "reg" /\ y.cat = "ref"
          /\ args[1].cat = "reg" /\ args[2].cat = "ref"
      BY <1>2, <3>1, PatternOfTwo
    <3>3. RefsOf(args) = {y.ref}
      BY <1>2, <3>2 DEF RefsOf
    <3>4. CASE name \in {"beqz", "bnez"}
      <4>1. RefsOf(<<x, Zero, y>>) = {y.ref}
        BY <1>1, <3>2, RefsOfThree
      <4>2. PICK m : new = <<Instr(m, <<x, Zero, y>>)>>
        BY <1>2, <1>4, <3>4 DEF Replacement, BranchPseudo, BranchZeroPseudo
      <4> QED BY <3>3, <4>1, <4>2, OneHandsOn
    <3>5. CASE name \in BranchZeroPseudo
      <4>1. new = BranchLines(x, Zero, y, name \in {"bltz", "bgez"},
                              name \in {"blez", "bgez"})
        BY <1>2, <1>4, <3>5 DEF Replacement, BranchPseudo, BranchZeroPseudo
      <4> QED BY <1>1, <3>2, <3>3, <4>1, BranchRefs
    <3> QED BY <2>8, <3>4, <3>5
  <2>9. CASE name \in BranchPseudo
    <3>1. Categories(args) = <<"reg", "reg", "ref">>
      BY <2>1, <2>9, PseudoPatterns
    <3>2. /\ DOMAIN args = {1, 2, 3} /\ x.cat = "reg" /\ y.cat = "reg" /\ z.cat = "ref"
          /\ args[1].cat = "reg" /\ args[2].cat = "reg" /\ args[3].cat = "ref"
      BY <1>2, <3>1, PatternOfThree
    <3>3. RefsOf(args) = {z.ref}
      BY <1>2, <3>2 DEF RefsOf
    <3>4. new = BranchLines(x, y, z, name \in {"blt", "bge"}, name \in {"ble", "bge"})
      BY <1>2, <1>4, <2>9 DEF Replacement, BranchPseudo, BranchZeroPseudo
    <3> QED BY <3>2, <3>3, <3>4, BranchRefs
  <2> QED BY <2>1, <2>2, <2>3, <2>4, <2>5, <2>6, <2>7, <2>8, <2>9 DEF PseudoNames
<1> QED BY <1>3, <1>4

-----------------------------------------------------------------------------
(* The first line: the one parse adds, and what becomes of it.             *)

Nop     == Line("instr", "nop", <<>>)
NopLine == [Nop EXCEPT !.name = "sll", !.args = <<Zero, Zero, Imm(0)>>, !.part = 1]

Lead ==
  CASE phase = "labels" -> Nop
    [] phase # "labels" /\ MangledMain \in DOMAIN labels -> JumpToMain
    [] phase # "labels" /\ MangledMain \notin DOMAIN labels ->
         IF phase = "pseudo" /\ at = 1 THEN Nop ELSE NopLine

LeadInv ==
  /\ phase \in {"labels", "pseudo"} => lines[1] = Lead
  /\ phase \in {"parse", "done"} =>
       /\ lines[1] = Lead
       /\ at # 1 => /\ 1 \in DOMAIN layout["text"]
                    /\ layout["text"][1].word
                         = Encoding(Offset["text"], lines[1].name, lines[1].args)

LEMMA LeadFacts ==
  /\ Nop.cat = "instr" /\ Nop.name = "nop" /\ Nop.args = <<>> /\ Nop.no = 0
  /\ JumpToMain.cat = "instr" /\ JumpToMain.name = "j"
  /\ JumpToMain.args = <<Ref(MangledMain)>> /\ JumpToMain.no = 0
  /\ NopLine.cat = "instr" /\ NopLine.name = "sll"
  /\ NopLine.args = <<Zero, Zero, Imm(0)>>
  /\ IsPseudo(Nop.name, Nop.args)
  /\ ~IsPseudo(JumpToMain.name, JumpToMain.args)
  /\ ReplacementLines(Nop)[1] = NopLine
<1>1. /\ Nop.cat = "instr" /\ Nop.name = "nop" /\ Nop.args = <<>> /\ Nop.no = 0
      /\ JumpToMain.cat = "instr" /\ JumpToMain.name = "j"
      /\ JumpToMain.args = <<Ref(MangledMain)>> /\ JumpToMain.no = 0
  BY DEF Nop, JumpToMain, Line, LineFrom
<1>2. /\ NopLine.cat = "instr" /\ NopLine.name = "sll"
      /\ NopLine.args = <<Zero, Zero, Imm(0)>>
  BY DEF NopLine, Nop, Line, LineFrom
<1>3. IsPseudo(Nop.name, Nop.args) /\ ~IsPseudo(JumpToMain.name, JumpToMain.args)
  BY <1>1 DEF IsPseudo, IsAlias, PseudoNames, Loads, Stores, BranchPseudo, BranchZeroPseudo
<1>4. ReplacementLines(Nop)[1] = NopLine
  <2>1. ~IsAlias(Nop.name, Nop.args)
    BY <1>1 DEF IsAlias, Loads, Stores
  <2>2. Replacement(Nop.name, Nop.args) = <<Instr("sll", <<Zero, Zero, Imm(0)>>)>>
    BY <1>1, <2>1 DEF Replacement, BranchPseudo, BranchZeroPseudo
  <2>3. PICK r, z : r = Replacement(Nop.name, Nop.args) /\ z = <<Zero, Zero, Imm(0)>>
    OBVIOUS
  <2>4. r = <<Instr("sll", z)>> /\ DOMAIN r = {1} /\ r[1][1] = "sll" /\ r[1][2] = z
    <3>1. r = <<Instr("sll", z)>>
      BY <2>2, <2>3
    <3> QED BY <3>1, SMT DEF Instr
  <2>5. ReplacementLines(Nop) = [k \in DOMAIN r |-> [Nop EXCEPT !.name = r[k][1],
                                                       !.args = r[k][2], !.part = k]]
    BY <2>3 DEF ReplacementLines
  <2>6. 1 \in DOMAIN r
    BY <2>4
  <2>7. ReplacementLines(Nop)[1] = [Nop EXCEPT !.name = r[1][1], !.args = r[1][2], !.part = 1]
    BY <2>5, <2>6, Zenon
  <2>8. ReplacementLines(Nop)[1] = [Nop EXCEPT !.name = "sll", !.args = z, !.part = 1]
    BY <2>4, <2>7, Zenon
  <2> QED BY <2>3, <2>8, ZenonT(60) DEF NopLine
<1> QED BY <1>1, <1>2, <1>3, <1>4
LEMMA EncodingStays ==
  ASSUME labels' = labels, NEW loc, NEW name, NEW args
  PROVE  Encoding(loc, name, args)' = Encoding(loc, name, args)
<1>1. ResolvedArgs(args)' = ResolvedArgs(args)
  BY DEF ResolvedArgs
<1> QED BY <1>1 DEF Encoding

(* The layout of text keeps what it has. *)
LEMMA LeadStays ==
  ASSUME LeadInv, phase \in {"labels", "pseudo", "parse", "done"}, phase' \in {phase, "done"},
         lines' = lines, program' = program,
         phase = "labels" \/ labels' = labels,
         phase = "pseudo" => (at = 1 /\ at' = 1) \/ (at # 1 /\ at' # 1),
         phase' = "done" => phase \in {"parse", "done"},
         phase \in {"parse", "done"} =>
           /\ at' # 1 => at # 1
           /\ 1 \in DOMAIN layout["text"] =>
                1 \in DOMAIN layout'["text"] /\ layout'["text"][1] = layout["text"][1]
  PROVE  LeadInv'
<1>1. Lead' = Lead
  <2>1. MangledMain' = MangledMain /\ JumpToMain' = JumpToMain
    BY DEF MangledMain, JumpToMain
  <2>2. Nop' = Nop /\ NopLine' = NopLine
    BY DEF Nop, NopLine
  <2>3. CASE phase = "labels"
    BY <2>2, <2>3 DEF Lead
  <2>4. CASE phase = "pseudo"
    BY <2>1, <2>2, <2>4 DEF Lead
  <2>5. CASE phase \in {"parse", "done"}
    BY <2>1, <2>2, <2>5 DEF Lead
  <2> QED BY <2>3, <2>4, <2>5
<1>2. lines[1] = Lead
  BY DEF LeadInv
<1>3. ASSUME phase \in {"parse", "done"}, at' # 1
      PROVE  /\ 1 \in DOMAIN layout'["text"]
             /\ layout'["text"][1].word
                  = Encoding(Offset["text"], lines[1].name, lines[1].args)'
  <2>1. /\ 1 \in DOMAIN layout["text"]
        /\ layout["text"][1].word = Encoding(Offset["text"], lines[1].name, lines[1].args)
    BY <1>3 DEF LeadInv
  <2>2. PICK o, n, a : o = Offset["text"] /\ n = lines[1].name /\ a = lines[1].args
    OBVIOUS
  <2>3. Encoding(o, n, a)' = Encoding(o, n, a)
    BY <1>3, EncodingStays
  <2>4. Encoding(Offset["text"], lines[1].name, lines[1].args)' = Encoding(o, n, a)'
    BY <2>2
  <2>5. Encoding(Offset["text"], lines[1].name, lines[1].args) = Encoding(o, n, a)
    BY <2>2
  <2> QED BY <1>3, <2>1, <2>3, <2>4, <2>5
<1> QED BY <1>1, <1>2, <1>3 DEF LeadInv

LEMMA LeadFailed ==
  ASSUME NEW why, Fail(why) \/ Lost
  PROVE  LeadInv'
  BY DEF Fail, Lost, LeadInv

LEMMA BeginLead ==
  ASSUME AsmInv, Begin
  PROVE  LeadInv'
<1> DEFINE rest == [k \in DOMAIN program |-> [program[k] EXCEPT !.no = k]]
<1>1. lines' = <<Nop>> \o rest /\ phase' = "labels"
  BY DEF Begin, Nop
<1>2. Sequence(<<Nop>>) /\ Len(<<Nop>>) = 1 /\ <<Nop>>[1] = Nop
  <2>1. <<Nop>> \in Seq({Nop})
    OBVIOUS
  <2> QED BY <2>1, SequenceOf
<1>3. Sequence(rest)
  <2>1. Len(program) \in Nat /\ DOMAIN program = 1 .. Len(program)
    BY ProgramFacts DEF AsmInv
  <2> QED BY <2>1, FunctionIsSequence
<1> HIDE DEF rest
<1>4. \A k \in 1 .. 1 : (<<Nop>> \o rest)[k] = <<Nop>>[k]
  BY <1>2, <1>3, Joined
<1>5. lines'[1] = Nop
  <2>1. 1 \in 1 .. 1
    BY SMT
  <2> QED BY <1>1, <1>2, <1>4, <2>1
<1> QED BY <1>1, <1>5 DEF LeadInv, Lead, Nop

LEMMA StartExpandingLead ==
  ASSUME AsmInv, LeadInv, StartExpanding
  PROVE  LeadInv'
<1>1. /\ phase = "labels" /\ phase' = "pseudo" /\ at' = 1
      /\ program' = program /\ labels' = labels
      /\ lines' = IF MangledMain \in DOMAIN labels
                  THEN [lines EXCEPT ![1] = JumpToMain] ELSE lines
  BY DEF StartExpanding, AllRead, mapVars
<1>2. lines[1] = Nop /\ 1 \in DOMAIN lines
  BY <1>1, LiveLines DEF LeadInv, Lead, Live
<1>3. MangledMain' = MangledMain /\ JumpToMain' = JumpToMain /\ Nop' = Nop
  BY <1>1 DEF MangledMain, JumpToMain, Nop
<1>4. lines'[1] = IF MangledMain \in DOMAIN labels THEN JumpToMain ELSE Nop
  BY <1>1, <1>2
<1> QED BY <1>1, <1>3, <1>4 DEF LeadInv, Lead

LEMMA PseudoLead ==
  ASSUME AsmInv, TypeInv, LeadInv, KeepLine \/ Expand \/ StartParsing
  PROVE  LeadInv'
<1>1. phase = "pseudo"
  BY DEF KeepLine, Expand, StartParsing, Reading, AllRead
<1>2. /\ Sequence(lines) /\ Len(lines) \in Nat /\ Len(lines) > 0
      /\ DOMAIN lines = 1 .. Len(lines) /\ at \in 1 .. Len(lines) + 1
  BY <1>1, LiveLines DEF Live, TypeInv
<1>3. lines[1] = IF MangledMain \in DOMAIN labels THEN JumpToMain
                 ELSE IF at = 1 THEN Nop ELSE NopLine
  BY <1>1 DEF LeadInv, Lead
<1>4. program' = program => /\ MangledMain' = MangledMain /\ JumpToMain' = JumpToMain
                            /\ Nop' = Nop /\ NopLine' = NopLine
  BY DEF MangledMain, JumpToMain, Nop, NopLine
<1>5. CASE KeepLine
  <2>1. /\ at' = at + 1 /\ UNCHANGED <<program, lines, labels, layout, phase>>
        /\ ~(Current.cat = "instr" /\ IsPseudo(Current.name, Current.args))
    BY <1>5 DEF KeepLine, NextLine, mapVars, textVars, outVars
  <2>2. at' # 1
    BY <1>2, <2>1, SMT
  <2>3. ASSUME at = 1 PROVE MangledMain \in DOMAIN labels
    <3>1. lines[1] # Nop
      BY <2>1, <2>3, LeadFacts DEF Current
    <3> QED BY <1>3, <2>3, <3>1
  <2> QED BY <1>1, <1>3, <1>4, <2>1, <2>2, <2>3 DEF LeadInv, Lead
<1>6. CASE Expand
  <2>1. CASE Lost \/ \E why : Fail(why)
    BY <2>1, LeadFailed
  <2>2. CASE ~Lost /\ \A why : ~Fail(why)
    <3> DEFINE t == ReplacementLines(Current)
    <3>1. /\ at \in DOMAIN lines /\ Written(Current) /\ Current.cat = "instr"
          /\ IsPseudo(Current.name, Current.args) /\ Len(t) \in {1, 2} /\ SplicesIn(t)
          /\ UNCHANGED <<program, labels, phase>>
      BY <1>6, <2>2, ExpandFacts
    <3>2. Sequence(t)
      BY <3>1, ReplacementFacts DEF AsmInv
    <3>3. at = 1 => Current = lines[1]
      BY DEF Current
    <3>4. (at # 1 => lines'[1] = lines[1]) /\ (at = 1 => lines'[1] = t[1])
      <4> HIDE DEF t
      <4> QED BY <1>2, <3>1, <3>2, SplicedLines
    <3>5. at' # 1
      <4>1. at' = at + Len(t)
        BY <3>1 DEF SplicesIn
      <4> HIDE DEF t
      <4>2. PICK n \in {1, 2} : n = Len(t)
        BY <3>1
      <4>3. at' = at + n /\ at \in 1 .. Len(lines) + 1 /\ Len(lines) \in Nat
        BY <1>2, <4>1, <4>2
      <4> QED BY <4>3, SMT
    <3>6. CASE at = 1
      <4>1. lines[1] # JumpToMain
        BY <3>1, <3>3, <3>6, LeadFacts
      <4>2. MangledMain \notin DOMAIN labels /\ lines[1] = Nop
        BY <1>3, <3>6, <4>1
      <4>3. lines'[1] = NopLine
        BY <3>3, <3>4, <3>6, <4>2, LeadFacts
      <4> QED BY <1>1, <1>4, <3>1, <3>5, <4>2, <4>3 DEF LeadInv, Lead
    <3>7. CASE at # 1
      BY <1>1, <1>3, <1>4, <3>1, <3>4, <3>5, <3>7 DEF LeadInv, Lead
    <3> QED BY <3>6, <3>7
  <2> QED BY <2>1, <2>2
<1>7. CASE StartParsing
  <2>1. /\ at > Len(lines) /\ at' = 1 /\ phase' = "parse"
        /\ UNCHANGED <<program, lines, labels>>
    BY <1>7 DEF StartParsing, AllRead, mapVars, textVars
  <2>2. at # 1
    BY <1>2, <2>1, SMT
  <2> QED BY <1>3, <1>4, <2>1, <2>2 DEF LeadInv, Lead
<1> QED BY <1>5, <1>6, <1>7

(* The line parse adds is the first it lays out, at the start of text. *)
LEMMA FirstParsed ==
  ASSUME AsmInv, LeadInv, phase = "parse", at = 1
  PROVE  /\ section = "text" /\ Len(layout["text"]) = 0 /\ MemLoc = Offset["text"]
         /\ Current = lines[1] /\ Current.cat = "instr"
<1>1. PICK g, q : ThirdPass(g, q)
  BY DEF AsmInv
<1>2. /\ Len(lines) \in Nat /\ Len(lines) > 0 /\ DOMAIN lines = 1 .. Len(lines)
      /\ IsProgram(program) /\ Len(program) \in Nat
  BY LiveLines DEF Live
<1>3. at <= Len(lines)
  BY <1>2, SMT
<1>4. lines[1].no = 0 /\ lines[1].part = 1
  BY <1>1 DEF ThirdPass, LinesInv
<1>5. q = 0
  BY <1>1, <1>3, <1>4 DEF ThirdPass, NoAt
<1>6. Inside = 0
  <2>1. Inside = 4 * (1 - 1)
    BY <1>3, <1>4 DEF Inside
  <2> QED BY <2>1, SMT
<1>7. g[0] = [sec |-> "text", sizes |-> [s \in Sections |-> 0]]
  BY <1>1 DEF ThirdPass, MeasuredInv, Follows
<1>8. section = "text" /\ Len(layout["text"]) = 0
  <2>1. LayoutInv(g, 0)
    BY <1>1, <1>5 DEF ThirdPass
  <2>2. section = "text"
    BY <1>7, <2>1 DEF LayoutInv
  <2>3. Len(layout["text"]) = 0 + 0
    BY <1>6, <1>7, <2>1, <2>2, TextAssumption DEF LayoutInv
  <2> QED BY <2>2, <2>3, SMT
<1>9. MemLoc = Offset["text"]
  <2>1. MemLoc = Offset["text"] + 0 /\ Offset["text"] \in Nat
    BY <1>8, ParsedSections DEF MemLoc
  <2> QED BY <2>1, SMT
<1>10. lines[1].cat = "instr"
  BY LeadFacts DEF LeadInv, Lead
<1> QED BY <1>8, <1>9, <1>10 DEF Current

LEMMA ParseLead ==
  ASSUME AsmInv, LeadInv, ParseAlloc \/ ParseInstr
  PROVE  LeadInv'
<1>1. phase = "parse" /\ at <= Len(lines)
  BY DEF ParseAlloc, ParseInstr, Reading
<1>2. CASE \E why : Fail(why)
  BY <1>2, LeadFailed
<1>3. CASE at # 1 /\ \A why : ~Fail(why)
  <2>1. PICK block, info : Place(block, info) /\ Sequence(block)
    <3>1. CASE ParseAlloc
      <4> DEFINE args  == ResolvedArgs(Current.args)
                 block == AllocBlock(MemLoc, Current.name, args, Current.no)
      <4>1. /\ Current.cat = "alloc" /\ RefsOf(Current.args) \subseteq DOMAIN labels
            /\ AllocFault(Current.name, args) = "none"
        BY <1>3, <3>1 DEF ParseAlloc
      <4>2. PICK info : Place(block, info)
        BY <3>1, <4>1 DEF ParseAlloc
      <4>3. Current.name \in Directives /\ AreOperands(args) /\ MemLoc \in Nat
        BY <1>1, <4>1, ParsedDirective, ParsedSections
      <4>4. Sequence(block)
        BY <4>1, <4>3, BlockShape
      <4> QED BY <4>2, <4>4
    <3>2. CASE ParseInstr
      <4> DEFINE block == InstrBlock(MemLoc, Current)
      <4>1. PICK info : Place(block, info)
        BY <1>3, <3>2 DEF ParseInstr
      <4>2. 4 \in Nat /\ block = [k \in 1 .. 4 |-> block[k]]
        BY DEF InstrBlock
      <4>3. Sequence(block)
        BY <4>2, FunctionIsSequence
      <4> QED BY <4>1, <4>3
    <3> QED BY <3>1, <3>2
  <2>2. UNCHANGED <<lines, program, labels, phase>>
    BY <2>1 DEF Place, NextLine, mapVars, textVars
  <2>3. ASSUME 1 \in DOMAIN layout["text"]
        PROVE  1 \in DOMAIN layout'["text"] /\ layout'["text"][1] = layout["text"][1]
    <3>1. CASE section = "text"
      <4>1. PICK n \in Nat, m \in Nat : n = Len(layout[section]) /\ m = Len(block)
        BY <1>1, <2>1, PlacedCells
      <4>2. /\ DOMAIN layout[section] = 1 .. n /\ DOMAIN layout'[section] = 1 .. n + m
            /\ \A k \in 1 .. n : layout'[section][k] = layout[section][k]
        BY <1>1, <2>1, <4>1, PlacedCells
      <4>3. 1 \in 1 .. n /\ 1 \in 1 .. n + m
        BY <2>3, <3>1, <4>2, SMT
      <4> QED BY <3>1, <4>2, <4>3
    <3>2. CASE section # "text"
      BY <1>1, <2>1, <2>3, <3>2, TextAssumption, PlacedCells
    <3> QED BY <3>1, <3>2
  <2> QED BY <1>1, <1>3, <2>2, <2>3, LeadStays
<1>4. CASE at = 1 /\ \A why : ~Fail(why)
  <2>1. /\ section = "text" /\ Len(layout["text"]) = 0 /\ MemLoc = Offset["text"]
        /\ Current = lines[1] /\ Current.cat = "instr"
    BY <1>1, <1>4, FirstParsed
  <2>2. ParseInstr
    BY <2>1 DEF ParseAlloc
  <2> DEFINE block == InstrBlock(MemLoc, Current)
  <2>3. PICK info : Place(block, info)
    BY <1>4, <2>2 DEF ParseInstr
  <2>4. block = [k \in 1 .. 4 |->
                   [line |-> Current.no, arg |-> Current.part, byte |-> k - 1,
                    word |-> Encoding(Offset["text"], lines[1].name, lines[1].args)]]
    BY <2>1 DEF InstrBlock
  <2> HIDE DEF block
  <2>5. /\ Sequence(block) /\ Len(block) = 4
        /\ 1 \in 1 .. 4 /\ 0 + 1 = 1 /\ 0 + 4 = 4
    <3>1. 4 \in Nat /\ block = [k \in 1 .. 4 |-> block[k]]
      BY <2>4
    <3>2. Sequence(block) /\ Len(block) = 4
      BY <3>1, FunctionIsSequence
    <3>3. 1 \in 1 .. 4 /\ 0 + 1 = 1 /\ 0 + 4 = 4
      BY SMT
    <3> QED BY <3>2, <3>3
  <2>6. block[1].word = Encoding(Offset["text"], lines[1].name, lines[1].args)
    BY <2>4, <2>5
  <2>7. DOMAIN layout'["text"] = 1 .. 0 + 4 /\ layout'["text"][0 + 1] = block[1]
    BY <1>1, <2>1, <2>3, <2>5, PlacedCells
  <2>8. 1 \in DOMAIN layout'["text"] /\ layout'["text"][1] = block[1]
    BY <2>5, <2>7
  <2>9. UNCHANGED <<lines, program, labels, phase>>
    BY <2>3 DEF Place, NextLine, mapVars, textVars
  <2>10. Lead' = Lead
    BY <1>1, <2>9 DEF Lead, MangledMain, JumpToMain, Nop, NopLine
  <2>11. Encoding(Offset["text"], lines[1].name, lines[1].args)'
           = Encoding(Offset["text"], lines[1].name, lines[1].args)
    <3>1. PICK o, n, a : o = Offset["text"] /\ n = lines[1].name /\ a = lines[1].args
      OBVIOUS
    <3>2. Encoding(o, n, a)' = Encoding(o, n, a)
      BY <2>9, EncodingStays
    <3>3. Encoding(Offset["text"], lines[1].name, lines[1].args)' = Encoding(o, n, a)'
      BY <2>9, <3>1
    <3>4. Encoding(Offset["text"], lines[1].name, lines[1].args) = Encoding(o, n, a)
      BY <3>1
    <3> QED BY <3>2, <3>3, <3>4
  <2> QED BY <1>1, <2>6, <2>8, <2>9, <2>10, <2>11 DEF LeadInv
<1> QED BY <1>2, <1>3, <1>4

LEMMA LeadStep ==
  ASSUME AsmInv, TypeInv, LeadInv, [AsmNext]_asmVars
  PROVE  LeadInv'
<1>1. CASE UNCHANGED asmVars
  <2>1. UNCHANGED <<program, phase, at, lines, labels, layout>>
    BY <1>1 DEF asmVars, passVars, mapVars, textVars, outVars
  <2>2. CASE Live
    <3>1. /\ phase \in {"labels", "pseudo", "parse", "done"}
          /\ phase' \in {phase, "done"}
          /\ lines' = lines /\ program' = program /\ labels' = labels
          /\ phase = "pseudo" => (at = 1 /\ at' = 1) \/ (at # 1 /\ at' # 1)
          /\ phase' = "done" => phase \in {"parse", "done"}
          /\ at' # 1 => at # 1
          /\ 1 \in DOMAIN layout["text"] =>
               1 \in DOMAIN layout'["text"] /\ layout'["text"][1] = layout["text"][1]
      BY <2>1, <2>2 DEF Live
    <3> QED BY <3>1, LeadStays
  <2>3. CASE ~Live
    BY <2>1, <2>3 DEF Live, LeadInv
  <2> QED BY <2>2, <2>3
<1>2. CASE NoFirstLine \/ RejectToken \/ \E why : Fail(why)
  BY <1>2, LeadFailed DEF NoFirstLine, RejectToken
<1>3. CASE /\ MeasureAlloc \/ MeasureInstr \/ DefineLabel \/ MeasureOther
           /\ \A why : ~Fail(why)
  <2>1. phase = "labels" /\ UNCHANGED <<lines, program, phase>>
    BY <1>3 DEF MeasureAlloc, MeasureInstr, DefineLabel, MeasureOther, Measure, NextLine,
               Reading, textVars
  <2> QED BY <2>1, LeadStays
<1>4. CASE EnterSection \/ PassLabel \/ Finish
  <2>1. /\ phase \in {"labels", "parse"} /\ phase' \in {phase, "done"}
        /\ phase' = "done" => phase = "parse"
        /\ UNCHANGED <<lines, program, labels, layout>>
        /\ at' = at \/ (at' = at + 1 /\ Reading(phase) /\ Current.cat # "instr")
    BY <1>4 DEF EnterSection, PassLabel, Finish, Reading, AllRead, NextLine, mapVars,
               textVars, outVars, passVars
  <2>2. phase = "parse" /\ at' # 1 => at # 1
    BY <2>1, FirstParsed
  <2> QED BY <2>1, <2>2, LeadStays
<1> QED BY <1>1, <1>2, <1>3, <1>4, BeginLead, StartExpandingLead, PseudoLead, ParseLead
    DEF AsmNext

-----------------------------------------------------------------------------
(* Where a program starts. *)

(* Half of the subsets of a set have one of its elements. *)
LEMMA Doubling ==
  ASSUME NEW n \in Nat
  PROVE  2 ^ n \in Nat /\ 2 ^ (n + 1) = 2 * 2 ^ n
<1> DEFINE S == 1 .. n
           T == 1 .. n + 1
           U == SUBSET S
           V == {A \union {n + 1} : A \in U}
           f == [A \in U |-> A \union {n + 1}]
<1>1. IsFiniteSet(S) /\ Cardinality(S) = n /\ IsFiniteSet(T) /\ Cardinality(T) = n + 1
  <2>1. PICK m \in Nat : m = n + 1
    OBVIOUS
  <2>2. 1 \in Int /\ n \in Int /\ m \in Int
    BY <2>1
  <2>3. /\ IsFiniteSet(1 .. n) /\ Cardinality(1 .. n) = IF 1 > n THEN 0 ELSE n - 1 + 1
        /\ IsFiniteSet(1 .. m) /\ Cardinality(1 .. m) = IF 1 > m THEN 0 ELSE m - 1 + 1
    BY <2>2, FS_Interval
  <2>4. (IF 1 > n THEN 0 ELSE n - 1 + 1) = n /\ (IF 1 > m THEN 0 ELSE m - 1 + 1) = m
    BY <2>1, SMT
  <2> QED BY <2>1, <2>3, <2>4
<1>2. n + 1 \notin S /\ T = S \union {n + 1}
  BY SMT
<1> HIDE DEF S, T
<1>3. /\ IsFiniteSet(U) /\ Cardinality(U) = 2 ^ n
      /\ IsFiniteSet(SUBSET T) /\ Cardinality(SUBSET T) = 2 ^ (n + 1)
  BY <1>1, FS_SUBSET
<1>4. U \union V = SUBSET T /\ U \cap V = {}
  <2>1. ASSUME NEW A \in SUBSET T, n + 1 \in A PROVE A \in V
    <3>1. A \ {n + 1} \in U /\ A = (A \ {n + 1}) \union {n + 1}
      BY <1>2, <2>1
    <3> QED BY <3>1
  <2>2. \A A \in SUBSET T : n + 1 \notin A => A \in U
    BY <1>2
  <2>3. U \subseteq SUBSET T /\ V \subseteq SUBSET T
    BY <1>2
  <2>4. (\A A \in U : n + 1 \notin A) /\ (\A A \in V : n + 1 \in A)
    BY <1>2
  <2> QED BY <2>1, <2>2, <2>3, <2>4
<1>5. ExistsBijection(U, V)
  <2>1. f \in [U -> V]
    OBVIOUS
  <2>2. \A A, C \in U : f[A] = f[C] => A = C
    BY <1>2
  <2>3. \A D \in V : \E A \in U : f[A] = D
    OBVIOUS
  <2> HIDE DEF f, U, V
  <2>4. f \in Bijection(U, V)
    BY <2>1, <2>2, <2>3, Fun_IsBij
  <2> QED BY <2>4 DEF ExistsBijection
<1>6. IsFiniteSet(V) /\ Cardinality(V) = Cardinality(U)
  BY <1>3, <1>5, FS_Bijection
<1>7. /\ Cardinality(SUBSET T) = Cardinality(U) + Cardinality(V) - Cardinality({})
      /\ Cardinality(U) \in Nat /\ Cardinality({}) = 0
  <2> HIDE DEF U, V
  <2> QED BY <1>3, <1>4, <1>6, FS_Union, FS_CardinalityType, FS_EmptySet
<1> HIDE DEF U, V
<1> QED BY <1>3, <1>6, <1>7, SMT

(* The field of a jump holds whole words. *)
LEMMA JumpField ==
  2 ^ JBits \in Nat /\ 2 ^ JBits > 0 /\ 2 ^ JBits % 4 = 0
<1>1. PICK n \in Nat : JBits = n + 2
  <2>1. 4 * B - 8 \in Nat /\ JBits = 4 * B - 8 + 2
    BY ByteAssumption, SMT DEF JBits, W
  <2> QED BY <2>1
<1>2. n + 1 \in Nat /\ n + 1 + 1 = n + 2
  OBVIOUS
<1>3. /\ 2 ^ n \in Nat /\ 2 ^ (n + 1) = 2 * 2 ^ n
      /\ 2 ^ (n + 2) = 2 * 2 ^ (n + 1)
  BY <1>2, Doubling
<1>4. 2 ^ n > 0
  <2>1. IsFiniteSet(1 .. n) /\ Cardinality(1 .. n) = n
    <3>1. 1 \in Int /\ n \in Int
      OBVIOUS
    <3>2. IsFiniteSet(1 .. n) /\ Cardinality(1 .. n) = IF 1 > n THEN 0 ELSE n - 1 + 1
      BY <3>1, FS_Interval
    <3> QED BY <3>2, SMT
  <2>2. IsFiniteSet(SUBSET (1 .. n)) /\ Cardinality(SUBSET (1 .. n)) = 2 ^ n
    BY <2>1, FS_SUBSET
  <2>3. SUBSET (1 .. n) # {}
    OBVIOUS
  <2>4. Cardinality(SUBSET (1 .. n)) # 0
    BY <2>2, <2>3, FS_EmptySet
  <2> QED BY <1>3, <2>2, <2>4, SMT
<1>5. PICK p \in Nat : p = 2 ^ n
  BY <1>3
<1>6. 2 ^ JBits = 4 * p /\ p > 0
  BY <1>1, <1>3, <1>4, <1>5, SMT
<1> QED BY <1>6, SMT

LEMMA WordsInField ==
  ASSUME NEW a \in Nat, NEW p \in Nat, p > 0, a % 4 = 0, p % 4 = 0
  PROVE  ((a % p) \div 4) * 4 = a % p
<1>1. PICK m \in Nat : p = 4 * m
  <2>1. p \div 4 \in Nat /\ p = 4 * (p \div 4)
    BY SMT
  <2> QED BY <2>1
<1>2. PICK k \in Nat : a = 4 * k
  <2>1. a \div 4 \in Nat /\ a = 4 * (a \div 4)
    BY SMT
  <2> QED BY <2>1
<1>3. PICK d \in Int, r \in Nat : r = a % p /\ a = p * d + r
  <2>1. a \div p \in Int /\ a % p \in Nat /\ a = p * (a \div p) + (a % p)
    BY SMT
  <2> QED BY <2>1
<1>4. PICK e \in Int : e = m * d
  <2>1. m * d \in Int
    BY SMT
  <2> QED BY <2>1
<1>5. p * d = 4 * e
  BY <1>1, <1>4, SMT
<1>6. 4 * k = 4 * e + r
  BY <1>2, <1>3, <1>5, SMT
<1>7. (r \div 4) * 4 = r
  BY <1>6, SMT
<1> QED BY <1>3, <1>7

(* A jump, and the instruction nop is expanded to, as they are encoded. *)
LEMMA EncodingOfLead ==
  /\ MangledMain \in DOMAIN labels =>
       LET e == Encoding(Offset["text"], JumpToMain.name, JumpToMain.args)
       IN  e.op = "j" /\ e.imm = (labels[MangledMain] % 2 ^ JBits) \div 4
  /\ Encoding(Offset["text"], NopLine.name, NopLine.args).op = "sll"
<1>1. PICK j, o : j = Ref(MangledMain) /\ o = Offset["text"]
  OBVIOUS
<1>2. PICK args : args = <<j>>
  OBVIOUS
<1>3. DOMAIN args = {1} /\ args[1] = j /\ j.cat = "ref" /\ j.ref = MangledMain
  <2>1. DOMAIN <<j>> = {1} /\ <<j>>[1] = j
    BY SMT
  <2> QED BY <1>1, <1>2, <2>1 DEF Ref
<1>4. PICK v : v = labels[MangledMain]
  OBVIOUS
<1>5. ResolvedArgs(args)[1].imm = v
  BY <1>3, <1>4 DEF ResolvedArgs, Imm
<1>6. /\ Encoding(o, "j", args).op = "j"
      /\ Encoding(o, "j", args).imm = (v % 2 ^ JBits) \div 4
  <2> DEFINE a == ResolvedArgs(args)
  <2>1. a[1].imm = v
    BY <1>5
  <2> HIDE DEF a
  <2>2. Encoding(o, "j", args)
          = Encoded("j", "zero", "zero", "zero", (a[1].imm % 2 ^ JBits) \div 4)
    BY DEF Encoding, a, R_TYPE_D_S_T, R_TYPE_D_T_S, R_TYPE_D_T_H, R_TYPE_D, R_TYPE_S,
           R_TYPE_S_T, Loads, Stores, I_TYPE_T_S_I, I_TYPE_S_T_L, I_TYPE_T_I, J_TYPE_L,
           CP0_TYPE_T_D, CP1_TYPE_SP_D_S, CP1_TYPE_DP_D_S, CP1_TYPE_SP_D_S_T,
           CP1_TYPE_DP_D_S_T, CP1_TYPE_SP_S_T_C, CP1_TYPE_DP_S_T_C, CP1_TYPE_T_S,
           CP1_TYPE_T_S_I, CP1_TYPE_L, CP1_TYPE_D_S, CP1_TYPE_D_S_T, CP1_TYPE_S_T_C
  <2> QED BY <2>1, <2>2 DEF Encoded
<1>7. ASSUME NEW args2 PROVE Encoding(o, "sll", args2).op = "sll"
  <2> DEFINE a == ResolvedArgs(args2)
  <2> HIDE DEF a
  <2>1. Encoding(o, "sll", args2)
          = Encoded("sll", "zero", a[2].reg, a[1].reg, a[3].imm % W)
    BY DEF Encoding, a, R_TYPE_D_S_T, R_TYPE_D_T_S, R_TYPE_D_T_H, R_TYPE_D, R_TYPE_S,
           R_TYPE_S_T, Loads, Stores, I_TYPE_T_S_I, I_TYPE_S_T_L, I_TYPE_T_I, J_TYPE_L,
           CP0_TYPE_T_D, CP1_TYPE_SP_D_S, CP1_TYPE_DP_D_S, CP1_TYPE_SP_D_S_T,
           CP1_TYPE_DP_D_S_T, CP1_TYPE_SP_S_T_C, CP1_TYPE_DP_S_T_C, CP1_TYPE_T_S,
           CP1_TYPE_T_S_I, CP1_TYPE_L, CP1_TYPE_D_S, CP1_TYPE_D_S_T, CP1_TYPE_S_T_C
  <2> QED BY <2>1 DEF Encoded
<1>8. /\ JumpToMain.name = "j" /\ JumpToMain.args = args
      /\ NopLine.name = "sll"
  BY <1>1, <1>2, LeadFacts
<1> QED BY <1>1, <1>4, <1>6, <1>7, <1>8

(* Where the first file of a program has a main of its own, at the address *)
(* of an instruction.                                                      *)
StartsAtMain ==
  phase = "done" /\ MangledMain \in DOMAIN labels /\ labels[MangledMain] % 4 = 0
    => StartsAt(labels[MangledMain])

LEMMA LeadStarts ==
  ASSUME AsmInv, TypeInv, LeadInv
  PROVE  StartsAtMain
<1> SUFFICES ASSUME phase = "done", MangledMain \in DOMAIN labels,
                    labels[MangledMain] % 4 = 0
             PROVE  StartsAt(labels[MangledMain])
  BY DEF StartsAtMain
<1>1. at # 1
  <2>1. /\ at > Len(lines) /\ Len(lines) \in Nat /\ Len(lines) > 0
    BY LiveLines DEF AsmInv, Live
  <2> QED BY <2>1, SMT
<1>2. lines[1] = JumpToMain
      /\ FirstWord = Encoding(Offset["text"], lines[1].name, lines[1].args)
  BY <1>1 DEF LeadInv, Lead, FirstWord
<1>3. FirstWord.op = "j" /\ FirstWord.imm = (labels[MangledMain] % 2 ^ JBits) \div 4
  BY <1>2, EncodingOfLead
<1>4. labels[MangledMain] \in Nat
  BY DEF TypeInv
<1>5. ((labels[MangledMain] % 2 ^ JBits) \div 4) * 4 = labels[MangledMain] % 2 ^ JBits
  BY <1>4, JumpField, WordsInField
<1> QED BY <1>3, <1>5 DEF StartsAt

(* The first line of a program that has a main of its own is a jump to it: *)
(* wherever its text has the label, that is what a program starts with.    *)
THEOREM AssemblerStartsAtMain == AsmSpec => []StartsAtMain
<1>1. Init => LeadInv
  BY DEF Init, LeadInv
<1>2. AsmInv /\ TypeInv /\ LeadInv /\ [AsmNext]_asmVars => LeadInv'
  BY LeadStep
<1>3. AsmInv /\ TypeInv /\ LeadInv => StartsAtMain
  BY LeadStarts
<1> QED BY <1>1, <1>2, <1>3, AsmInvariant, TypeInvariant, PTL DEF AsmSpec

-----------------------------------------------------------------------------
(* References.  The expansion of a line hands on every reference of it     *)
(* that is not resolved, and makes none up.                                *)

SourceRefs(k) == IF k = 0 THEN {} ELSE RefsOf(program[k].args)

RefsKept ==
  /\ \A i \in DOMAIN lines :
       RefsOf(lines[i].args) \subseteq DOMAIN labels \union SourceRefs(lines[i].no)
  /\ \A k \in DOMAIN program : IsItem(program[k]) =>
       \A r \in RefsOf(program[k].args) :
         \/ r \in DOMAIN labels
         \/ \E i \in DOMAIN lines :
              lines[i].no = k /\ IsItem(lines[i]) /\ r \in RefsOf(lines[i].args)

(* Those of the lines that are laid out exist. *)
RefsRead(a) ==
  \A i \in DOMAIN lines : i < a /\ IsItem(lines[i]) =>
    RefsOf(lines[i].args) \subseteq DOMAIN labels

(* The line a pass reads, and the line of the program it stands for. *)
LEMMA ReadLine ==
  ASSUME AsmInv, TypeInv, phase \in {"labels", "pseudo", "parse"}, at <= Len(lines)
  PROVE  /\ at \in DOMAIN lines /\ IsProgram(program)
         /\ Written(Current) \/ (phase = "parse" /\ Expanded(Current))
         /\ phase = "labels" => Current.no = at - 1 /\ Current.no \in 0 .. Len(program)
         /\ IsItem(Current) => \/ Current.no = 0
                               \/ /\ Current.no \in DOMAIN program
                                  /\ IsItem(program[Current.no])
<1>1. at \in DOMAIN lines /\ IsProgram(program)
  BY AtNext DEF AsmInv, Live
<1>2. ASSUME Written(Current)
      PROVE  IsItem(Current) => \/ Current.no = 0
                                \/ /\ Current.no \in DOMAIN program
                                   /\ IsItem(program[Current.no])
  BY <1>1, <1>2, WrittenFacts DEF IsItem
<1>3. CASE phase = "labels"
  <2>1. PICK g, m : FirstPass(g, m)
    BY <1>3 DEF AsmInv
  <2>2. Written(Current) /\ Current.no = m /\ m \in 0 .. Len(program)
    BY <1>1, <2>1, FirstPassAt
  <2>3. m = at - 1
    <3>1. m \in Nat /\ at = m + 1
      BY <1>1, <2>1, FirstPassAt, SMT DEF FirstPass
    <3> QED BY <3>1, SMT
  <2> QED BY <1>1, <1>2, <2>2, <2>3
<1>4. CASE phase = "pseudo"
  <2>1. PICK g, a : SecondPass(g, a)
    BY <1>4 DEF AsmInv
  <2>2. LinesInv(a) /\ at = a /\ a \in Int
    BY <2>1, SMT DEF SecondPass
  <2>3. ~(at < a)
    BY <2>2, SMT
  <2>4. Written(Current)
    BY <1>1, <2>2, <2>3 DEF LinesInv, Current
  <2> QED BY <1>1, <1>2, <1>4, <2>4
<1>5. CASE phase = "parse"
  <2>1. PICK g, q : ThirdPass(g, q)
    BY <1>5 DEF AsmInv
  <2>2. Expanded(Current) /\ DOMAIN program = 1 .. Len(program) /\ Len(program) \in Nat
    BY <1>1, <2>1, ThirdPassAt
  <2>3. CASE IsInstr(Current.no)
    <3>1. Current.no \in 0 .. Len(program)
      BY <2>2 DEF Expanded
    <3>2. Current.no = 0 \/ Current.no \in DOMAIN program
      BY <2>2, <3>1, SMT
    <3>3. Current.no = 0 \/ program[Current.no].cat = "instr"
      BY <2>3 DEF IsInstr
    <3> QED BY <1>1, <1>5, <2>2, <3>2, <3>3 DEF IsItem
  <2>4. CASE ~IsInstr(Current.no)
    <3>1. Written(Current)
      BY <2>2, <2>4 DEF Expanded
    <3> QED BY <1>1, <1>2, <1>5, <2>2, <3>1
  <2> QED BY <2>3, <2>4
<1> QED BY <1>3, <1>4, <1>5

LEMMA StartExpandingRefs ==
  ASSUME AsmInv, LeadInv, StartExpanding
  PROVE  RefsKept'
<1>1. /\ phase = "labels" /\ program' = program /\ labels' = labels
      /\ lines' = IF MangledMain \in DOMAIN labels
                  THEN [lines EXCEPT ![1] = JumpToMain] ELSE lines
  BY DEF StartExpanding, AllRead, mapVars
<1>2. PICK g, m : FirstPass(g, m)
  BY <1>1 DEF AsmInv
<1>3. /\ IsProgram(program) /\ Len(program) \in Nat /\ DOMAIN program = 1 .. Len(program)
      /\ Len(lines) = Len(program) + 1 /\ DOMAIN lines = 1 .. Len(lines)
      /\ 1 \in DOMAIN lines
      /\ \A i \in DOMAIN lines : lines[i].no = i - 1 /\ Written(lines[i])
  BY <1>1, <1>2, LiveLines DEF FirstPass, Live
<1>4. lines[1] = Nop
  BY <1>1 DEF LeadInv, Lead
<1>5. /\ DOMAIN lines' = DOMAIN lines
      /\ \A i \in DOMAIN lines : i # 1 => lines'[i] = lines[i]
      /\ lines'[1] = Nop \/ (MangledMain \in DOMAIN labels /\ lines'[1] = JumpToMain)
  BY <1>1, <1>3, <1>4
<1>6. RefsOf(lines'[1].args) \subseteq DOMAIN labels
  <2>1. CASE lines'[1] = Nop
    <3>1. lines'[1].args = <<>> /\ DOMAIN <<>> = {}
      BY <2>1, LeadFacts
    <3>2. RefsOf(<<>>) = {}
      BY <3>1, NoRefs
    <3> QED BY <3>1, <3>2
  <2>2. CASE MangledMain \in DOMAIN labels /\ lines'[1] = JumpToMain
    <3>1. PICK j : j = Ref(MangledMain)
      OBVIOUS
    <3>2. lines'[1].args = <<j>> /\ j.ref = MangledMain
      BY <2>2, <3>1, LeadFacts DEF Ref
    <3>3. RefsOf(<<j>>) \subseteq {j.ref}
      BY RefsOfOne
    <3> QED BY <2>2, <3>2, <3>3
  <2> QED BY <1>5, <2>1, <2>2
<1>7. ASSUME NEW i \in DOMAIN lines, i # 1
      PROVE  /\ i - 1 \in DOMAIN program /\ lines'[i].no = i - 1 /\ i - 1 # 0
             /\ lines'[i].args = program[i - 1].args
             /\ lines'[i].cat = program[i - 1].cat
  <2>1. i - 1 \in DOMAIN program /\ i - 1 # 0
    BY <1>3, <1>7, SMT
  <2>2. Written(lines[i]) /\ lines[i].no = i - 1 /\ lines'[i] = lines[i]
    BY <1>3, <1>5, <1>7
  <2> QED BY <1>3, <2>1, <2>2, WrittenFacts
<1>8. ASSUME NEW i \in DOMAIN lines
      PROVE  RefsOf(lines'[i].args) \subseteq DOMAIN labels \union SourceRefs(lines'[i].no)
  BY <1>6, <1>7 DEF SourceRefs
<1>9. ASSUME NEW k \in DOMAIN program, IsItem(program[k]),
             NEW r \in RefsOf(program[k].args)
      PROVE  \E i \in DOMAIN lines :
               lines'[i].no = k /\ IsItem(lines'[i]) /\ r \in RefsOf(lines'[i].args)
  <2>1. PICK i : i = k + 1
    OBVIOUS
  <2>2. i \in DOMAIN lines /\ i # 1 /\ i - 1 = k
    BY <1>3, <2>1, SMT
  <2> QED BY <1>7, <1>9, <2>2 DEF IsItem
<1> QED BY <1>1, <1>5, <1>8, <1>9 DEF RefsKept, SourceRefs, IsItem

(* The lines of an expansion have the references of the replacement. *)
LEMMA ReplacedRefs ==
  ASSUME IsProgram(program), NEW l, Written(l), l.cat = "instr", IsPseudo(l.name, l.args),
         PseudoFault(l.name, l.args) = "none"
  PROVE  LET t == ReplacementLines(l)
         IN  /\ \A k \in DOMAIN t : /\ t[k].no = l.no /\ t[k].cat = "instr"
                                   /\ RefsOf(t[k].args) \subseteq RefsOf(l.args)
             /\ \A r \in RefsOf(l.args) :
                  r \in DOMAIN labels \/ \E k \in DOMAIN t : r \in RefsOf(t[k].args)
<1> DEFINE t == ReplacementLines(l)
           n == Replacement(l.name, l.args)
<1>1. t = [k \in DOMAIN n |-> [l EXCEPT !.name = n[k][1], !.args = n[k][2], !.part = k]]
  BY DEF ReplacementLines
<1>2. HandsOn(n, l.args)
  BY ReplacementRefs
<1>3. l = [cat |-> l.cat, name |-> l.name, args |-> l.args, file |-> l.file,
           src |-> l.src, no |-> l.no, part |-> l.part]
  BY WrittenShape
<1> HIDE DEF n
<1> HIDE DEF t
<1>4. DOMAIN t = DOMAIN n
  BY <1>1
<1>5. ASSUME NEW k \in DOMAIN n
      PROVE  t[k].no = l.no /\ t[k].cat = l.cat /\ t[k].args = n[k][2]
  <2>1. t[k] = [l EXCEPT !.name = n[k][1], !.args = n[k][2], !.part = k]
    BY <1>1, Zenon
  <2>2. PICK x, y, c : c = t[k] /\ x = n[k][1] /\ y = n[k][2]
    OBVIOUS
  <2>3. c = [l EXCEPT !.name = x, !.args = y, !.part = k]
    BY <2>1, <2>2
  <2>4. c.no = l.no /\ c.args = y /\ c.cat = l.cat
    BY <1>3, <2>3
  <2> QED BY <2>2, <2>4
<1>6. /\ \A k \in DOMAIN t : /\ t[k].no = l.no /\ t[k].cat = "instr"
                            /\ RefsOf(t[k].args) \subseteq RefsOf(l.args)
      /\ \A r \in RefsOf(l.args) :
           r \in DOMAIN labels \/ \E k \in DOMAIN t : r \in RefsOf(t[k].args)
  BY <1>2, <1>4, <1>5 DEF HandsOn
<1> QED BY <1>6 DEF t

LEMMA ExpandRefs ==
  ASSUME AsmInv, RefsKept, Expand, ~Lost, \A why : ~Fail(why)
  PROVE  RefsKept'
<1> DEFINE t == ReplacementLines(Current)
<1>1. /\ at \in DOMAIN lines /\ Written(Current) /\ Current.cat = "instr"
      /\ IsPseudo(Current.name, Current.args)
      /\ PseudoFault(Current.name, Current.args) = "none"
      /\ Len(t) \in {1, 2} /\ SplicesIn(t) /\ phase = "pseudo"
      /\ UNCHANGED <<program, labels>>
  BY ExpandFacts
<1>2. /\ Sequence(t)
      /\ \A k \in DOMAIN t : /\ t[k].no = Current.no /\ t[k].cat = "instr"
                             /\ RefsOf(t[k].args) \subseteq RefsOf(Current.args)
      /\ \A r \in RefsOf(Current.args) :
           r \in DOMAIN labels \/ \E k \in DOMAIN t : r \in RefsOf(t[k].args)
  BY <1>1, ReplacementFacts, ReplacedRefs DEF AsmInv
<1> HIDE DEF t
<1>3. /\ \A i \in DOMAIN lines' :
           \/ \E j \in DOMAIN lines : j # at /\ lines'[i] = lines[j]
           \/ \E k \in DOMAIN t : lines'[i] = t[k]
      /\ \A j \in DOMAIN lines : j # at => \E i \in DOMAIN lines' : lines'[i] = lines[j]
      /\ \A k \in DOMAIN t : \E i \in DOMAIN lines' : lines'[i] = t[k]
  <2>1. Sequence(lines)
    BY <1>1, LiveLines DEF Live
  <2> QED BY <1>1, <1>2, <2>1, SplicedLines
<1>4. ASSUME NEW i \in DOMAIN lines'
      PROVE  RefsOf(lines'[i].args) \subseteq DOMAIN labels \union SourceRefs(lines'[i].no)
  <2>1. CASE \E j \in DOMAIN lines : lines'[i] = lines[j]
    BY <2>1 DEF RefsKept
  <2>2. CASE \E k \in DOMAIN t : lines'[i] = t[k]
    <3>1. RefsOf(Current.args) \subseteq DOMAIN labels \union SourceRefs(Current.no)
      BY <1>1 DEF RefsKept, Current
    <3>2. PICK k \in DOMAIN t : lines'[i] = t[k]
      BY <2>2
    <3> QED BY <1>2, <3>1, <3>2
  <2> QED BY <1>3, <2>1, <2>2
<1>5. ASSUME NEW k \in DOMAIN program, IsItem(program[k]),
             NEW r \in RefsOf(program[k].args), r \notin DOMAIN labels
      PROVE  \E i \in DOMAIN lines' :
               lines'[i].no = k /\ IsItem(lines'[i]) /\ r \in RefsOf(lines'[i].args)
  <2>1. PICK i \in DOMAIN lines :
          lines[i].no = k /\ IsItem(lines[i]) /\ r \in RefsOf(lines[i].args)
    BY <1>5 DEF RefsKept
  <2>2. CASE i # at
    BY <1>3, <2>1, <2>2
  <2>3. CASE i = at
    <3>1. Current.no = k /\ r \in RefsOf(Current.args)
      BY <2>1, <2>3 DEF Current
    <3>2. PICK j \in DOMAIN t : r \in RefsOf(t[j].args)
      BY <1>2, <1>5, <3>1
    <3>3. PICK h \in DOMAIN lines' : lines'[h] = t[j]
      BY <1>3
    <3>4. t[j].no = k /\ IsItem(t[j])
      BY <1>2, <3>1 DEF IsItem
    <3> QED BY <3>2, <3>3, <3>4
  <2> QED BY <2>2, <2>3
<1> QED BY <1>1, <1>4, <1>5 DEF RefsKept, SourceRefs, IsItem

-----------------------------------------------------------------------------
(* Why a program is refused. *)

CauseInv ==
  /\ phase \notin {"refused", "escaped"} => reason = "none"
  /\ reason = "duplicate label" => Duplicated
  /\ reason = "unknown label" => ~Duplicated /\ Dangling # {}
  /\ phase = "labels" => NamesInv(at - 1)
  /\ phase \in {"pseudo", "parse", "done"} => NamesInv(Len(program) + 1) /\ RefsKept
  /\ phase \in {"parse", "done"} => RefsRead(at)

LEMMA CauseFailed ==
  ASSUME NEW why, Fail(why), CauseInv, phase \in {"labels", "pseudo", "parse"},
         why = "duplicate label" => Duplicated,
         why = "unknown label" => ~Duplicated /\ Dangling # {}
  PROVE  CauseInv'
<1>1. reason' = why /\ phase' \in {"refused", "escaped"} /\ program' = program
  BY DEF Fail
<1>2. Duplicated' <=> Duplicated
  BY <1>1 DEF Duplicated, LabelLines
<1>3. Dangling' = Dangling
  BY <1>1 DEF Dangling, Labelled, IsItem
<1> QED BY <1>1, <1>2, <1>3 DEF CauseInv

(* A reference of an item that does not exist dangles. *)
LEMMA DanglingRef ==
  ASSUME AsmInv, TypeInv, CauseInv, phase \in {"pseudo", "parse"}, at <= Len(lines),
         IsItem(Current), ~(RefsOf(Current.args) \subseteq DOMAIN labels)
  PROVE  ~Duplicated /\ Dangling # {}
<1>1. NamesInv(Len(program) + 1) /\ RefsKept
  BY DEF CauseInv
<1>2. PICK r \in RefsOf(Current.args) : r \notin DOMAIN labels
  OBVIOUS
<1>3. /\ at \in DOMAIN lines /\ IsProgram(program)
      /\ \/ Current.no = 0
         \/ Current.no \in DOMAIN program /\ IsItem(program[Current.no])
  BY ReadLine
<1>4. r \in SourceRefs(Current.no)
  BY <1>1, <1>2, <1>3 DEF RefsKept, Current
<1>5. /\ Current.no \in DOMAIN program /\ IsItem(program[Current.no])
      /\ r \in RefsOf(program[Current.no].args)
  BY <1>3, <1>4 DEF SourceRefs
<1>6. r \in ItemRefs
  BY <1>5 DEF ItemRefs
<1>7. ~Duplicated /\ Dangling = ItemRefs \ DOMAIN labels
  BY <1>1, <1>3, AllNamed
<1>8. r \in Dangling
  BY <1>2, <1>6, <1>7
<1> QED BY <1>7, <1>8

LEMMA AllocReasons ==
  ASSUME NEW name, NEW args
  PROVE  AllocFault(name, args) \in {"none", "malformed", "escaped"}
  BY Zenon DEF AllocFault

LEMMA InstrReasons ==
  ASSUME NEW loc, NEW name, NEW args
  PROVE  /\ InstrFault(loc, name, args) # "duplicate label"
         /\ InstrFault(loc, name, args) = "unknown label" =>
              ~(RefsOf(args) \subseteq DOMAIN labels)
         /\ InstrFault(loc, name, args) = "none" =>
              RefsOf(args) \subseteq DOMAIN labels
<1>1. CASE Categories(args) \notin Patterns(name)
  BY <1>1 DEF InstrFault
<1>2. CASE Categories(args) \in Patterns(name)
  BY <1>2 DEF InstrFault
<1> QED BY <1>1, <1>2

LEMMA PseudoReasons ==
  ASSUME NEW name, NEW args
  PROVE  /\ PseudoFault(name, args) # "duplicate label"
         /\ PseudoFault(name, args) = "unknown label" =>
              ~(RefsOf(args) \subseteq DOMAIN labels)
  BY DEF PseudoFault

(* A step of the first pass over its line. *)
LEMMA CauseMeasured ==
  ASSUME AsmInv, TypeInv, CauseInv, phase = "labels", at <= Len(lines),
         IsItem(Current), NEW pad, NEW size, Measure(pad, size)
  PROVE  CauseInv'
<1>1. /\ labels' = LabelAt(Offset[section] + sizes[section] + pad) /\ pending' = {}
      /\ at' = at + 1 /\ UNCHANGED <<program, phase, reason>>
  BY DEF Measure, NextLine
<1>2. DOMAIN labels' = pending \union DOMAIN labels
  BY <1>1 DEF LabelAt
<1>3. PICK m : m = at - 1
  OBVIOUS
<1>4. /\ m \in 0 .. Len(program) /\ IsProgram(program)
      /\ m = 0 \/ IsItem(program[m])
  BY <1>3, ReadLine
<1>5. NamesInv(m)
  BY <1>3 DEF CauseInv
<1>6. NamesInv(m + 1)'
  BY <1>1, <1>2, <1>4, <1>5, NamesGet
<1>7. at' - 1 = m + 1
  <2>1. at \in Int
    BY SMT DEF TypeInv
  <2> QED BY <1>1, <1>3, <2>1, SMT
<1>8. NamesInv(at - 1)'
  <2>1. PICK k : k = m + 1
    OBVIOUS
  <2>2. NamesInv(k)'
    BY <1>6, <2>1
  <2>3. (at - 1)' = k
    BY <1>7, <2>1
  <2> QED BY <2>2, <2>3
<1> QED BY <1>1, <1>8 DEF CauseInv

LEMMA CauseSkipped ==
  ASSUME AsmInv, TypeInv, CauseInv, phase = "labels", at <= Len(lines),
         ~IsItem(Current), at' = at + 1, UNCHANGED <<program, labels, phase, reason>>,
         \/ pending' = pending /\ Current.cat # "label"
         \/ /\ Current.cat = "label" /\ Current.name \notin DOMAIN labels \union pending
            /\ pending' = pending \union {Current.name}
  PROVE  CauseInv'
<1>1. PICK m : m = at - 1
  OBVIOUS
<1>2. IsProgram(program) /\ Written(Current) /\ Current.no = m
  BY <1>1, ReadLine
<1>3. m # 0
  BY <1>2, WrittenFacts DEF IsItem
<1>4. /\ m \in DOMAIN program /\ program[m].cat = Current.cat
      /\ program[m].name = Current.name
  BY <1>2, <1>3, WrittenFacts
<1>5. NamesInv(m)
  BY <1>1 DEF CauseInv
<1>6. NamesInv(m + 1)'
  BY <1>2, <1>4, <1>5, NamesWait DEF IsItem
<1>7. at' - 1 = m + 1
  <2>1. at \in Int
    BY SMT DEF TypeInv
  <2> QED BY <1>1, <2>1, SMT
<1>8. NamesInv(at - 1)'
  <2>1. PICK k : k = m + 1
    OBVIOUS
  <2>2. NamesInv(k)'
    BY <1>6, <2>1
  <2>3. (at - 1)' = k
    BY <1>7, <2>1
  <2> QED BY <2>2, <2>3
<1> QED BY <1>8 DEF CauseInv

LEMMA CauseLabels ==
  ASSUME AsmInv, TypeInv, CauseInv, phase = "labels",
         MeasureAlloc \/ MeasureInstr \/ DefineLabel \/ MeasureOther \/ EnterSection
  PROVE  CauseInv'
<1>1. at <= Len(lines)
  BY DEF MeasureAlloc, MeasureInstr, DefineLabel, MeasureOther, EnterSection, Reading
<1>2. CASE MeasureAlloc
  <2> DEFINE why == AllocFault(Current.name, ZeroedArgs(Current.args))
  <2>1. CASE why # "none"
    <3>1. Fail(why)
      BY <1>2, <2>1 DEF MeasureAlloc
    <3>2. why \in {"none", "malformed", "escaped"}
      BY AllocReasons
    <3> HIDE DEF why
    <3> QED BY <3>1, <3>2, CauseFailed
  <2>2. CASE why = "none"
    <3>1. Current.cat = "alloc" /\ \E pad, size : Measure(pad, size)
      BY <1>2, <2>2 DEF MeasureAlloc
    <3> QED BY <1>1, <3>1, CauseMeasured DEF IsItem
  <2> QED BY <2>1, <2>2
<1>3. CASE MeasureInstr
  <2>1. Current.cat = "instr" /\ \E pad, size : Measure(pad, size)
    BY <1>3 DEF MeasureInstr
  <2> QED BY <1>1, <2>1, CauseMeasured DEF IsItem
<1>4. CASE DefineLabel
  <2>1. Current.cat = "label" /\ ~IsItem(Current)
    BY <1>4 DEF DefineLabel, IsItem
  <2>2. CASE Current.name \in DOMAIN labels \union pending
    <3>1. Fail("duplicate label")
      BY <1>4, <2>2 DEF DefineLabel
    <3>2. PICK m : m = at - 1
      OBVIOUS
    <3>3. IsProgram(program) /\ Written(Current) /\ Current.no = m
      BY <1>1, <3>2, ReadLine
    <3>4. m # 0
      BY <2>1, <3>3, WrittenFacts
    <3>5. m \in LabelLines /\ program[m].name = Current.name
      BY <2>1, <3>3, <3>4, WrittenFacts DEF LabelLines
    <3>6. NamesInv(m)
      BY <3>2 DEF CauseInv
    <3>7. Duplicated
      BY <2>2, <3>3, <3>5, <3>6, TakenTwice
    <3> QED BY <3>1, <3>7, CauseFailed
  <2>3. CASE Current.name \notin DOMAIN labels \union pending
    <3>1. /\ pending' = pending \union {Current.name} /\ at' = at + 1
          /\ UNCHANGED <<program, labels, phase, reason>>
      BY <1>4, <2>3 DEF DefineLabel, NextLine
    <3> QED BY <1>1, <2>1, <2>3, <3>1, CauseSkipped
  <2> QED BY <2>2, <2>3
<1>5. CASE MeasureOther \/ EnterSection
  <2>1. /\ Current.cat \in {"other", "section"} /\ at' = at + 1 /\ pending' = pending
        /\ UNCHANGED <<program, labels, phase, reason>>
    BY <1>5 DEF MeasureOther, EnterSection, NextLine, mapVars
  <2>2. ~IsItem(Current) /\ Current.cat # "label"
    BY <2>1 DEF IsItem
  <2> QED BY <1>1, <2>1, <2>2, CauseSkipped
<1> QED BY <1>2, <1>3, <1>4, <1>5

(* What does not touch the names. *)
LEMMA CauseStays ==
  ASSUME CauseInv, program' = program, labels' = labels, pending' = pending,
         reason' = reason, phase \in {"pseudo", "parse", "done"},
         phase' \in {"pseudo", "parse", "done"},
         RefsKept', phase' \in {"parse", "done"} => RefsRead(at)'
  PROVE  CauseInv'
<1>1. PICK n : n = Len(program) + 1
  OBVIOUS
<1>2. NamesInv(n)'
  BY <1>1, NamesStay DEF CauseInv
<1>3. NamesInv(Len(program) + 1)'
  BY <1>1, <1>2
<1> QED BY <1>3 DEF CauseInv

LEMMA RefsStay ==
  ASSUME RefsKept, lines' = lines, labels' = labels, program' = program
  PROVE  RefsKept'
  BY DEF RefsKept, SourceRefs, IsItem

(* One more line is read. *)
LEMMA RefsReadOn ==
  ASSUME AsmInv, TypeInv, CauseInv, phase = "parse", at <= Len(lines),
         at' = at + 1, lines' = lines, labels' = labels,
         IsItem(Current) => RefsOf(Current.args) \subseteq DOMAIN labels
  PROVE  RefsRead(at)'
<1>1. RefsRead(at) /\ DOMAIN lines = 1 .. Len(lines) /\ at \in 1 .. Len(lines) + 1
  BY LiveLines DEF CauseInv, TypeInv, Live
<1>2. ASSUME NEW i \in DOMAIN lines, i < at + 1, IsItem(lines[i])
      PROVE  RefsOf(lines[i].args) \subseteq DOMAIN labels
  <2>1. i < at \/ i = at
    BY <1>1, <1>2, SMT
  <2> QED BY <1>1, <1>2, <2>1 DEF RefsRead, Current
<1> QED BY <1>2 DEF RefsRead, IsItem

LEMMA CausePasses ==
  ASSUME AsmInv, TypeInv, CauseInv, LeadInv,
         \/ StartExpanding \/ KeepLine \/ Expand \/ StartParsing
         \/ ParseAlloc \/ ParseInstr \/ PassLabel \/ RejectToken \/ Finish
         \/ phase = "parse" /\ EnterSection
  PROVE  CauseInv'
<1>1. CASE StartExpanding
  <2>1. /\ phase = "labels" /\ phase' = "pseudo" /\ at > Len(lines)
        /\ UNCHANGED <<program, labels, pending, reason>>
    BY <1>1 DEF StartExpanding, AllRead, mapVars
  <2>2. at - 1 = Len(program) + 1
    <3>1. PICK g, m : FirstPass(g, m)
      BY <2>1 DEF AsmInv
    <3>2. /\ Len(lines) = Len(program) + 1 /\ at \in 1 .. Len(lines) + 1
          /\ Len(program) \in Nat
      BY <2>1, <3>1, LiveLines DEF FirstPass, TypeInv, Live
    <3> QED BY <2>1, <3>2, SMT
  <2>3. PICK n : n = Len(program) + 1
    OBVIOUS
  <2>4. NamesInv(n)
    BY <2>1, <2>2, <2>3 DEF CauseInv
  <2>5. NamesInv(n)'
    BY <2>1, <2>4, NamesStay
  <2>6. NamesInv(Len(program) + 1)'
    BY <2>1, <2>3, <2>5
  <2>7. RefsKept'
    BY <1>1, StartExpandingRefs
  <2> QED BY <2>1, <2>6, <2>7 DEF CauseInv
<1>2. CASE KeepLine
  <2>1. /\ phase = "pseudo" /\ UNCHANGED <<program, labels, pending, reason, phase, lines>>
    BY <1>2 DEF KeepLine, Reading, NextLine, mapVars, textVars
  <2> QED BY <2>1, CauseStays, RefsStay DEF CauseInv
<1>3. CASE Expand
  <2>1. phase = "pseudo" /\ at <= Len(lines) /\ Current.cat = "instr"
    BY <1>3 DEF Expand, Reading
  <2> DEFINE why == PseudoFault(Current.name, Current.args)
  <2>2. CASE why # "none"
    <3>1. Fail(why)
      BY <1>3, <2>2 DEF Expand
    <3>2. why # "duplicate label"
          /\ (why = "unknown label" => ~(RefsOf(Current.args) \subseteq DOMAIN labels))
      BY PseudoReasons
    <3>3. why = "unknown label" => ~Duplicated /\ Dangling # {}
      BY <2>1, <3>2, DanglingRef DEF IsItem
    <3> HIDE DEF why
    <3> QED BY <2>1, <3>1, <3>2, <3>3, CauseFailed
  <2>3. CASE Lost
    BY <2>1, <2>3 DEF Lost, CauseInv, Duplicated, LabelLines, Dangling, Labelled, IsItem
  <2>4. CASE why = "none" /\ ~Lost
    <3>1. \A w : ~Fail(w)
      <4>1. phase' = phase
        BY <1>3, <2>4, Zenon DEF Expand
      <4> QED BY <2>1, <4>1 DEF Fail
    <3>2. UNCHANGED <<program, labels, pending, reason, phase>>
      BY <1>3, <2>4, <3>1, ExpandFacts
    <3>3. RefsKept'
      BY <1>3, <2>1, <2>4, <3>1, ExpandRefs DEF CauseInv
    <3> QED BY <2>1, <3>2, <3>3, CauseStays
  <2> QED BY <2>2, <2>3, <2>4
<1>4. CASE StartParsing
  <2>1. /\ phase = "pseudo" /\ phase' = "parse" /\ at' = 1
        /\ UNCHANGED <<program, labels, pending, reason, lines>>
    BY <1>4 DEF StartParsing, AllRead, mapVars, textVars
  <2>2. RefsRead(at)'
    <3>1. \A i \in DOMAIN lines : ~(i < 1)
      <4>1. DOMAIN lines = 1 .. Len(lines) /\ Len(lines) \in Nat
        BY <2>1, LiveLines DEF Live
      <4> QED BY <4>1, SMT
    <3> QED BY <2>1, <3>1 DEF RefsRead
  <2> QED BY <2>1, <2>2, CauseStays, RefsStay DEF CauseInv
<1>5. CASE ParseAlloc
  <2> DEFINE why == AllocFault(Current.name, ResolvedArgs(Current.args))
  <2>1. phase = "parse" /\ at <= Len(lines) /\ Current.cat = "alloc"
    BY <1>5 DEF ParseAlloc, Reading
  <2>2. CASE ~(RefsOf(Current.args) \subseteq DOMAIN labels)
    <3>1. Fail("unknown label")
      BY <1>5, <2>2 DEF ParseAlloc
    <3> QED BY <2>1, <2>2, <3>1, CauseFailed, DanglingRef DEF IsItem
  <2>3. CASE RefsOf(Current.args) \subseteq DOMAIN labels /\ why # "none"
    <3>1. Fail(why)
      BY <1>5, <2>3 DEF ParseAlloc
    <3>2. why \in {"none", "malformed", "escaped"}
      BY AllocReasons
    <3> HIDE DEF why
    <3> QED BY <2>1, <3>1, <3>2, CauseFailed
  <2>4. CASE RefsOf(Current.args) \subseteq DOMAIN labels /\ why = "none"
    <3>1. PICK block, info : Place(block, info)
      BY <1>5, <2>4 DEF ParseAlloc
    <3>2. at' = at + 1 /\ UNCHANGED <<program, labels, pending, reason, phase, lines>>
      BY <3>1 DEF Place, NextLine, mapVars, textVars
    <3>3. RefsRead(at)'
      BY <2>1, <2>4, <3>2, RefsReadOn
    <3> QED BY <2>1, <3>2, <3>3, CauseStays, RefsStay DEF CauseInv
  <2> QED BY <2>2, <2>3, <2>4
<1>6. CASE ParseInstr
  <2> DEFINE why == InstrFault(MemLoc, Current.name, Current.args)
  <2>1. phase = "parse" /\ at <= Len(lines) /\ Current.cat = "instr"
    BY <1>6 DEF ParseInstr, Reading
  <2>2. /\ why # "duplicate label"
        /\ why = "unknown label" => ~(RefsOf(Current.args) \subseteq DOMAIN labels)
        /\ why = "none" => RefsOf(Current.args) \subseteq DOMAIN labels
    BY InstrReasons
  <2>3. CASE why # "none"
    <3>1. Fail(why)
      BY <1>6, <2>3 DEF ParseInstr
    <3>2. why = "unknown label" => ~Duplicated /\ Dangling # {}
      BY <2>1, <2>2, DanglingRef DEF IsItem
    <3> HIDE DEF why
    <3> QED BY <2>1, <2>2, <3>1, <3>2, CauseFailed
  <2>4. CASE why = "none"
    <3>1. PICK block, info : Place(block, info)
      BY <1>6, <2>4 DEF ParseInstr
    <3>2. at' = at + 1 /\ UNCHANGED <<program, labels, pending, reason, phase, lines>>
      BY <3>1 DEF Place, NextLine, mapVars, textVars
    <3>3. RefsRead(at)'
      BY <2>1, <2>2, <2>4, <3>2, RefsReadOn
    <3> QED BY <2>1, <3>2, <3>3, CauseStays, RefsStay DEF CauseInv
  <2> QED BY <2>3, <2>4
<1>7. CASE PassLabel \/ (phase = "parse" /\ EnterSection)
  <2>1. /\ phase = "parse" /\ at <= Len(lines) /\ Current.cat \in {"label", "section"}
        /\ at' = at + 1 /\ UNCHANGED <<program, labels, pending, reason, phase, lines>>
    BY <1>7 DEF PassLabel, EnterSection, Reading, NextLine, mapVars, textVars
  <2>2. RefsRead(at)'
    BY <2>1, RefsReadOn DEF IsItem
  <2> QED BY <2>1, <2>2, CauseStays, RefsStay DEF CauseInv
<1>8. CASE RejectToken
  <2>1. phase = "parse" /\ Fail("unexpected token")
    BY <1>8 DEF RejectToken, Reading
  <2> QED BY <2>1, CauseFailed
<1>9. CASE Finish
  <2>1. /\ phase = "parse" /\ phase' = "done"
        /\ UNCHANGED <<program, labels, pending, reason, lines, at>>
    BY <1>9 DEF Finish, AllRead, mapVars, textVars, passVars
  <2>2. RefsRead(at)'
    BY <2>1 DEF CauseInv, RefsRead, IsItem
  <2> QED BY <2>1, <2>2, CauseStays, RefsStay DEF CauseInv
<1> QED BY <1>1, <1>2, <1>3, <1>4, <1>5, <1>6, <1>7, <1>8, <1>9

LEMMA CauseStep ==
  ASSUME AsmInv, TypeInv, LeadInv, CauseInv, [AsmNext]_asmVars
  PROVE  CauseInv'
<1>1. CASE UNCHANGED asmVars
  <2>1. UNCHANGED <<program, phase, at, lines, labels, pending, reason>>
    BY <1>1 DEF asmVars, passVars, mapVars, textVars
  <2>2. (Duplicated' <=> Duplicated) /\ Dangling' = Dangling
    BY <2>1 DEF Duplicated, LabelLines, Dangling, Labelled, IsItem
  <2>3. RefsRead(at) => RefsRead(at)'
    BY <2>1 DEF RefsRead, IsItem
  <2>4. ASSUME NEW m, NamesInv(m) PROVE NamesInv(m)'
    BY <2>1, <2>4, NamesStay
  <2>5. PICK n, k : n = at - 1 /\ k = Len(program) + 1
    OBVIOUS
  <2>6. (NamesInv(at - 1) => NamesInv(at - 1)')
        /\ (NamesInv(Len(program) + 1) => NamesInv(Len(program) + 1)')
    <3>1. NamesInv(n) => NamesInv(n)'
      BY <2>4
    <3>2. NamesInv(k) => NamesInv(k)'
      BY <2>4
    <3>3. n = (at - 1)' /\ k = (Len(program) + 1)'
      BY <2>1, <2>5
    <3> QED BY <2>5, <3>1, <3>2, <3>3
  <2> QED BY <2>1, <2>2, <2>3, <2>6, RefsStay DEF CauseInv
<1>2. CASE Begin
  <2>1. /\ phase = "start" /\ phase' = "labels" /\ reason' = reason /\ at' = at
        /\ labels' = [l \in {"_start"} |-> Offset["text"]] /\ pending' = pending
        /\ program' = program
    BY <1>2 DEF Begin, passVars
  <2>2. at = 1 /\ pending = {} /\ IsProgram(program)
    BY <2>1 DEF AsmInv, Idle
  <2>3. at' - 1 = 0
    BY <2>1, <2>2, SMT
  <2>4. \A d \in LabelLines : ~(d < 0)
    <3>1. \A d \in LabelLines : d \in Nat
      BY <2>2, LabelLinesFacts
    <3> QED BY <3>1, SMT
  <2>5. LabelLines' = LabelLines /\ DOMAIN labels' = {"_start"} /\ pending' = {}
    BY <2>1, <2>2 DEF LabelLines
  <2>6. Resolved(0)' = {} /\ Waiting(0)' = {}
    <3>1. \A d \in LabelLines, e \in DOMAIN program : Labelled(d, e) => ~(e < 0)
      <4>1. \A e \in DOMAIN program : ~(e < 0)
        <5>1. DOMAIN program = 1 .. Len(program) /\ Len(program) \in Nat
          BY <2>2, ProgramFacts
        <5> QED BY <5>1, SMT
      <4> QED BY <4>1
    <3> QED BY <2>1, <2>4, <2>5, <3>1 DEF Resolved, Waiting, Labelled, IsItem
  <2>7. NamesInv(0)'
    BY <2>4, <2>5, <2>6 DEF NamesInv, NamesOf
  <2>8. NamesInv(at - 1)'
    BY <2>3, <2>7
  <2> QED BY <2>1, <2>8 DEF CauseInv
<1>3. CASE NoFirstLine
  BY <1>3 DEF NoFirstLine, AllRead, Lost, CauseInv
<1>4. CASE MeasureAlloc \/ MeasureInstr \/ DefineLabel \/ MeasureOther
  BY <1>4, CauseLabels DEF MeasureAlloc, MeasureInstr, DefineLabel, MeasureOther, Reading
<1>5. CASE EnterSection
  <2>1. phase \in {"labels", "parse"}
    BY <1>5 DEF EnterSection, Reading
  <2> QED BY <1>5, <2>1, CauseLabels, CausePasses
<1> QED BY <1>1, <1>2, <1>3, <1>4, <1>5, CausePasses DEF AsmNext

(* Of a program that is assembled, the lines have all been read. *)
LEMMA CauseHolds ==
  ASSUME AsmInv, TypeInv, CauseInv
  PROVE  RefusedForCause
<1>1. ASSUME phase = "done" PROVE ~Duplicated /\ Dangling = {}
  <2>1. NamesInv(Len(program) + 1) /\ RefsKept /\ RefsRead(at) /\ IsProgram(program)
    BY <1>1 DEF CauseInv, AsmInv
  <2>2. \A i \in DOMAIN lines : i < at
    <3>1. /\ DOMAIN lines = 1 .. Len(lines) /\ Len(lines) \in Nat /\ at > Len(lines)
          /\ at \in 1 .. Len(lines) + 1
      BY <1>1, LiveLines DEF AsmInv, TypeInv, Live
    <3> QED BY <3>1, SMT
  <2>3. ~Duplicated /\ Dangling = ItemRefs \ DOMAIN labels
    BY <2>1, AllNamed
  <2>4. ASSUME NEW r \in ItemRefs PROVE r \in DOMAIN labels
    <3>1. PICK k \in DOMAIN program : IsItem(program[k]) /\ r \in RefsOf(program[k].args)
      BY <2>4 DEF ItemRefs
    <3>2. CASE r \notin DOMAIN labels
      <4>1. PICK i \in DOMAIN lines : IsItem(lines[i]) /\ r \in RefsOf(lines[i].args)
        BY <2>1, <3>1, <3>2 DEF RefsKept
      <4> QED BY <2>1, <2>2, <4>1 DEF RefsRead
    <3> QED BY <3>2
  <2> QED BY <2>3, <2>4
<1> QED BY <1>1 DEF RefusedForCause, CauseInv

LEMMA CauseInvariant == AsmSpec => [](LeadInv /\ CauseInv)
<1>1. Init => LeadInv /\ CauseInv
  BY DEF Init, LeadInv, CauseInv, Idle
<1>2. AsmInv /\ TypeInv /\ LeadInv /\ CauseInv /\ [AsmNext]_asmVars
        => LeadInv' /\ CauseInv'
  BY LeadStep, CauseStep
<1> QED BY <1>1, <1>2, AsmInvariant, TypeInvariant, PTL DEF AsmSpec

(* parse refuses a program for what is wrong with it: it assembles none    *)
(* whose labels are not each defined once, or one of whose references      *)
(* names nothing, through all that the second pass makes of its lines; and *)
(* it says that of no other.                                               *)
THEOREM AssemblerRefusedForCause == AsmSpec => []RefusedForCause
<1>1. AsmInv /\ TypeInv /\ CauseInv => RefusedForCause
  BY CauseHolds
<1> QED BY <1>1, AsmInvariant, TypeInvariant, CauseInvariant, PTL

-----------------------------------------------------------------------------
(* All of it, of a program from wherever it comes. *)

AssemblerInv == AsmInv /\ TypeInv /\ FiledInv /\ LeadInv /\ CauseInv

(* parse has not begun. *)
Unread == IsProgram(program) /\ Idle /\ phase \in {"tokens", "start"}

LEMMA UnreadHolds == Unread => AssemblerInv
<1> SUFFICES ASSUME Unread PROVE AssemblerInv
  OBVIOUS
<1>1. /\ IsProgram(program) /\ Idle /\ reason = "none"
      /\ phase \notin {"labels", "pseudo", "parse", "done"}
      /\ phase \in Outcomes
  BY DEF Unread, Idle, Outcomes
<1>2. AsmInv /\ FiledInv /\ LeadInv
  BY <1>1 DEF AsmInv, FiledInv, LeadInv
<1>3. CauseInv
  BY <1>1 DEF CauseInv
<1>4. TypeInv
  BY <1>1, IdleTypes
<1> QED BY <1>2, <1>3, <1>4 DEF AssemblerInv

LEMMA AssemblerStep ==
  ASSUME AssemblerInv, [AsmNext]_asmVars
  PROVE  AssemblerInv'
BY AsmStep, TypeStep, FiledStep, LeadStep, CauseStep DEF AssemblerInv

LEMMA AssemblerHolds ==
  ASSUME AssemblerInv
  PROVE  /\ AsmTypeOK /\ PassesAgree /\ LabelsFindTheirLine /\ FirstItemsAligned
         /\ DebugInfoNamesLine /\ RefusedForCause /\ StartsAtMain
<1>1. FiledInv => DebugInfoNamesLine
  BY FiledNames
<1> QED BY <1>1, TypesHold, PassesMeet, LabelsMeet, ItemsMeet, CauseHolds, LeadStarts
    DEF AssemblerInv
=============================================================================
