--------------------------- MODULE AssemblerProofs ---------------------------
(***************************************************************************)
(* Proofs about Assembler, for every program, every placement of the       *)
(* sections and either byte order: the passes agree on every size, labels  *)
(* are where the first pass said, and data are aligned.                    *)
(*                                                                         *)
(* No operator could say where the first pass was at line q: that would be *)
(* a recursion over the lines.  The invariant speaks of a walk instead, a  *)
(* function that has, for each line, the section it is in and the sizes of *)
(* all sections before it, and is one because each line follows from the   *)
(* one before (Follows).  The first pass lengthens it line by line; the    *)
(* third reads it again.                                                   *)
(***************************************************************************)
EXTENDS Assembler, SequenceTheorems, TLAPS

-----------------------------------------------------------------------------
(* Sequences of anything. *)

Elements(s)  == {s[k] : k \in DOMAIN s}
Sequence(s)  == s \in Seq(Elements(s))

LEMMA SequenceOf ==
  ASSUME NEW S, NEW s \in Seq(S)
  PROVE  Sequence(s)
<1>1. DOMAIN s = 1 .. Len(s) /\ Len(s) \in Nat
  BY LenProperties
<1> DEFINE E == Elements(s)
<1>2. s \in [1 .. Len(s) -> S]
  BY SeqDef, LenProperties
<1>3. s = [k \in 1 .. Len(s) |-> s[k]]
  BY <1>2
<1>4. s \in [1 .. Len(s) -> E]
  BY <1>1, <1>3 DEF Elements
<1> QED BY <1>1, <1>4, SeqDef DEF Sequence

LEMMA FunctionIsSequence ==
  ASSUME NEW m \in Nat, NEW s, s = [k \in 1 .. m |-> s[k]]
  PROVE  Sequence(s) /\ Len(s) = m /\ DOMAIN s = 1 .. m
<1> DEFINE E == Elements(s)
<1>1. DOMAIN s = 1 .. m
  OBVIOUS
<1>2. s \in [1 .. m -> E]
  BY <1>1 DEF Elements
<1> HIDE DEF E
<1>3. s \in Seq(E)
  BY <1>2, SeqDef
<1>4. Len(s) = m
  BY <1>1, <1>3, LenProperties, SMT
<1> QED BY <1>1, <1>3, <1>4, SequenceOf

LEMMA Joined ==
  ASSUME NEW s, NEW t, Sequence(s), Sequence(t)
  PROVE  /\ Sequence(s \o t)
         /\ Len(s) \in Nat /\ Len(t) \in Nat /\ Len(s \o t) = Len(s) + Len(t)
         /\ DOMAIN s = 1 .. Len(s) /\ DOMAIN t = 1 .. Len(t)
         /\ DOMAIN (s \o t) = 1 .. Len(s) + Len(t)
         /\ \A k \in 1 .. Len(s) : (s \o t)[k] = s[k]
         /\ \A k \in 1 .. Len(t) : (s \o t)[Len(s) + k] = t[k]
<1> DEFINE E == Elements(s) \union Elements(t)
<1>1. s \in Seq(E) /\ t \in Seq(E)
  <2>1. Elements(s) \subseteq E /\ Elements(t) \subseteq E
    OBVIOUS
  <2> HIDE DEF E
  <2> QED BY <2>1, SeqMonotonic DEF Sequence
<1> HIDE DEF E
<1>2. /\ Len(s) \in Nat /\ Len(t) \in Nat
      /\ DOMAIN s = 1 .. Len(s) /\ DOMAIN t = 1 .. Len(t)
  BY <1>1, LenProperties
<1>3. /\ s \o t \in Seq(E) /\ Len(s \o t) = Len(s) + Len(t)
      /\ \A k \in 1 .. Len(s) + Len(t) :
           (s \o t)[k] = IF k <= Len(s) THEN s[k] ELSE t[k - Len(s)]
  BY <1>1, ConcatProperties
<1>4. DOMAIN (s \o t) = 1 .. Len(s) + Len(t)
  BY <1>3, LenProperties
<1>5. \A k \in 1 .. Len(s) : (s \o t)[k] = s[k]
  BY <1>2, <1>3, SMT
<1>6. \A k \in 1 .. Len(t) : (s \o t)[Len(s) + k] = t[k]
  BY <1>2, <1>3, SMT
<1> QED BY <1>2, <1>3, <1>4, <1>5, <1>6, SequenceOf

LEMMA JoinedCells ==
  ASSUME NEW s, NEW t, Sequence(s), Sequence(t)
  PROVE  /\ Sequence(s \o t) /\ Len(s \o t) = Len(s) + Len(t)
         /\ \A k \in 1 .. Len(s) : (s \o t)[k] = s[k]
         /\ \A k \in 1 .. Len(t) : (s \o t)[Len(s) + k] = t[k]
  BY Joined

-----------------------------------------------------------------------------
(* Operands and lines. *)

LEMMA OperandsFacts ==
  ASSUME NEW args, AreOperands(args)
  PROVE  /\ Sequence(args) /\ DOMAIN args = 1 .. Len(args) /\ Len(args) \in Nat
         /\ \A k \in DOMAIN args : IsOperand(args[k])
<1>1. Sequence(args)
  BY DEF AreOperands, Sequence, Elements
<1> QED BY <1>1, LenProperties DEF AreOperands, Sequence

LEMMA OperandsOf ==
  ASSUME NEW n \in Nat, NEW args, args = [k \in 1 .. n |-> args[k]],
         \A k \in 1 .. n : IsOperand(args[k])
  PROVE  AreOperands(args)
<1>1. Sequence(args) /\ DOMAIN args = 1 .. n
  BY FunctionIsSequence
<1> QED BY <1>1 DEF AreOperands, Sequence, Elements

LEMMA ProgramFacts ==
  ASSUME NEW p, IsProgram(p)
  PROVE  /\ Sequence(p) /\ DOMAIN p = 1 .. Len(p) /\ Len(p) \in Nat
         /\ \A k \in DOMAIN p : IsSourceLine(p[k])
<1>1. Sequence(p)
  BY DEF IsProgram, Sequence, Elements
<1> QED BY <1>1, LenProperties DEF IsProgram, Sequence

(* A line with its number, and with another instruction in its place. *)
LEMMA Renumbered ==
  ASSUME NEW l, IsSourceLine(l), NEW n
  PROVE  LET k == [l EXCEPT !.no = n]
         IN  /\ k = [cat |-> l.cat, name |-> l.name, args |-> l.args, file |-> l.file,
                     src |-> l.src, no |-> n, part |-> 1]
             /\ l.part = 1
  BY DEF IsSourceLine, LineFrom

-----------------------------------------------------------------------------
(* The arithmetic of sizes. *)

LEMMA Alignment ==
  ASSUME NEW o \in Nat, o % 8 = 0, NEW l \in Nat, NEW a \in {1, 2, 4, 8}
  PROVE  /\ Padding(o + l, a) = Padding(l, a)
         /\ Padding(l, a) \in 0 .. a - 1
         /\ (o + l + Padding(l, a)) % a = 0
<1>1. PICK q \in Nat : o = 8 * q
  BY SMT
<1>2. CASE a = 1
  BY <1>1, <1>2, SMT DEF Padding
<1>3. CASE a = 2
  BY <1>1, <1>3, SMT DEF Padding
<1>4. CASE a = 4
  BY <1>1, <1>4, SMT DEF Padding
<1>5. CASE a = 8
  BY <1>1, <1>5, SMT DEF Padding
<1> QED BY <1>2, <1>3, <1>4, <1>5

LEMMA PaddingRange ==
  ASSUME NEW l \in Nat, NEW a \in {1, 2, 4, 8}
  PROVE  a \in Nat \ {0} /\ Padding(l, a) \in Nat
<1>1. 0 \in Nat /\ 0 % 8 = 0
  BY SMT
<1>2. Padding(l, a) \in 0 .. a - 1
  BY <1>1, Alignment
<1> QED BY <1>2, SMT

LEMMA ItemSizes ==
  ASSUME NEW name \in Directives \ {"align"}
  PROVE  ItemSize(name) \in {1, 2, 4, 8}
  BY DEF ItemSize, Directives

LEMMA Alignments ==
  ASSUME NEW n \in 0 .. 3
  PROVE  2 ^ n \in {1, 2, 4, 8}
<1>1. 2 ^ 0 = 1 /\ 2 ^ 1 = 2 /\ 2 ^ 2 = 4 /\ 2 ^ 3 = 8
  BY SMT
<1>2. n = 0 \/ n = 1 \/ n = 2 \/ n = 3
  BY SMT
<1> QED BY <1>1, <1>2

-----------------------------------------------------------------------------
(* What a directive lays out. *)

LEMMA Faultless ==
  ASSUME NEW name \in Directives, NEW args, AreOperands(args),
         AllocFault(name, args) = "none"
  PROVE  /\ Len(args) \in Nat \ {0} /\ 1 \in DOMAIN args
         /\ \A k \in DOMAIN args : IsOperand(args[k])
         /\ \A k \in DOMAIN args :
              args[k].cat = IF name \in {"asciiz", "ascii"} THEN "str" ELSE "imm"
         /\ name \in SingleArg => Len(args) = 1
         /\ name = "align" => args[1].imm \in 0 .. 3
         /\ name = "space" => args[1].imm \in Nat \ {0}
<1> DEFINE cats == {args[k].cat : k \in DOMAIN args}
           want == IF name \in {"asciiz", "ascii"} THEN "str" ELSE "imm"
<1>1. /\ args # <<>> /\ cats = {want}
      /\ name \in SingleArg => Len(args) = 1
      /\ name = "align" => args[1].imm \in 0 .. 3
      /\ name = "space" => ~(args[1].imm <= 0)
  BY Zenon DEF AllocFault
<1>2. /\ Len(args) \in Nat \ {0} /\ DOMAIN args = 1 .. Len(args) /\ 1 \in DOMAIN args
      /\ \A k \in DOMAIN args : IsOperand(args[k])
  <2>1. /\ Len(args) \in Nat /\ DOMAIN args = 1 .. Len(args) /\ Sequence(args)
        /\ \A k \in DOMAIN args : IsOperand(args[k])
    BY OperandsFacts
  <2>2. Len(args) # 0
    BY <1>1, <2>1, EmptySeq DEF Sequence
  <2> QED BY <2>1, <2>2, SMT
<1>3. \A k \in DOMAIN args : args[k].cat = want
  BY <1>1
<1>4. ASSUME name = "space" PROVE args[1].imm \in Nat \ {0}
  <2>1. IsOperand(args[1]) /\ args[1].cat = "imm"
    BY <1>2, <1>3, <1>4
  <2>2. args[1].imm \in Int
    BY <2>1 DEF IsOperand
  <2> QED BY <1>1, <1>4, <2>2, SMT
<1> QED BY <1>1, <1>2, <1>3, <1>4

(* The number of values, and of bytes with their padding. *)
ItemCount(name, args) ==
  IF name = "asciiz" THEN args[1].len + 1
  ELSE IF name = "ascii" THEN args[1].len
  ELSE IF name = "space" THEN args[1].imm
  ELSE Len(args)

BlockLength(loc, name, args) ==
  IF name = "align" THEN Padding(loc, 2 ^ args[1].imm)
  ELSE ItemCount(name, args) * (Padding(loc, ItemSize(name)) + ItemSize(name))

LEMMA ValuesCounted ==
  ASSUME NEW name \in Directives \ {"align"}, NEW args, AreOperands(args),
         AllocFault(name, args) = "none"
  PROVE  /\ ItemCount(name, args) \in Nat
         /\ Len(ItemValues(name, args)) = ItemCount(name, args)
         /\ (name = "ascii" => args[1].len > 0) => ItemCount(name, args) > 0
<1>1. /\ Len(args) \in Nat \ {0} /\ 1 \in DOMAIN args /\ DOMAIN args = 1 .. Len(args)
      /\ IsOperand(args[1])
      /\ args[1].cat = IF name \in {"asciiz", "ascii"} THEN "str" ELSE "imm"
      /\ name = "space" => args[1].imm \in Nat \ {0}
  BY Faultless, OperandsFacts
<1>2. CASE name = "asciiz"
  <2>1. args[1].len \in Nat
    BY <1>1, <1>2 DEF IsOperand
  <2>2. ItemValues(name, args) = [k \in 1 .. args[1].len + 1 |->
                                    IF k > args[1].len THEN 0 ELSE 1]
    BY <1>2 DEF ItemValues
  <2>3. Len(ItemValues(name, args)) = args[1].len + 1
    BY <2>1, <2>2, FunctionIsSequence, SMT
  <2> QED BY <1>2, <2>1, <2>3 DEF ItemCount
<1>3. CASE name = "ascii"
  <2>1. args[1].len \in Nat
    BY <1>1, <1>3 DEF IsOperand
  <2>2. ItemValues(name, args) = [k \in 1 .. args[1].len |-> 1]
    BY <1>3 DEF ItemValues
  <2>3. Len(ItemValues(name, args)) = args[1].len
    BY <2>1, <2>2, FunctionIsSequence
  <2> QED BY <1>3, <2>1, <2>3 DEF ItemCount
<1>4. CASE name = "space"
  <2>2. ItemValues(name, args) = [k \in 1 .. args[1].imm |-> 0]
    BY <1>4 DEF ItemValues
  <2>3. Len(ItemValues(name, args)) = args[1].imm
    BY <1>1, <1>4, <2>2, FunctionIsSequence
  <2> QED BY <1>1, <1>4, <2>3 DEF ItemCount
<1>5. CASE name \notin {"asciiz", "ascii", "space"}
  <2>2. ItemValues(name, args) = [k \in 1 .. Len(args) |-> args[k].imm]
    BY <1>1, <1>5 DEF ItemValues
  <2>3. Len(ItemValues(name, args)) = Len(args)
    BY <1>1, <2>2, FunctionIsSequence
  <2> QED BY <1>1, <1>5, <2>3 DEF ItemCount
<1> QED BY <1>2, <1>3, <1>4, <1>5

(* The k-th byte of a row of items of the same length. *)
LEMMA ItemOfByte ==
  ASSUME NEW p \in Nat, NEW n \in Nat \ {0}, NEW k \in Nat \ {0}
  PROVE  ((k - 1) \div (p + n) + 1 = 1 /\ ((k - 1) % (p + n)) - p = 0) <=> k = p + 1
<1> DEFINE x == k - 1
           M == p + n
<1>1. x \in Nat /\ M \in Nat \ {0} /\ p < M
  BY SMT
<1> HIDE DEF x, M
<1>2. (x \div M + 1 = 1 /\ (x % M) - p = 0) <=> x = p
  BY <1>1, SMT
<1> QED BY <1>2, SMT DEF x, M

LEMMA BlockShape ==
  ASSUME NEW name \in Directives, NEW args, AreOperands(args),
         AllocFault(name, args) = "none", NEW loc \in Nat, NEW no
  PROVE  LET b == AllocBlock(loc, name, args, no)
         IN  /\ Sequence(b) /\ Len(b) = BlockLength(loc, name, args)
             /\ BlockLength(loc, name, args) \in Nat
             /\ \A k \in DOMAIN b :
                  /\ b[k].line = no
                  /\ IF name = "align" THEN b[k].byte < 0
                     ELSE (b[k].arg = 1 /\ b[k].byte = 0)
                            <=> k = Padding(loc, ItemSize(name)) + 1
<1> DEFINE b == AllocBlock(loc, name, args, no)
<1>1. CASE name = "align"
  <2> DEFINE pad == Padding(loc, 2 ^ args[1].imm)
  <2>1. args[1].imm \in 0 .. 3
    BY <1>1, Faultless
  <2>2. pad \in Nat
    BY <2>1, Alignments, PaddingRange
  <2>3. b = [k \in 1 .. pad |-> Cell(no, 1, k - 1 - pad, 0)]
    BY <1>1 DEF AllocBlock
  <2> HIDE DEF pad
  <2>4. Sequence(b) /\ Len(b) = pad /\ DOMAIN b = 1 .. pad
    BY <2>2, <2>3, FunctionIsSequence
  <2>5. \A k \in 1 .. pad : b[k].line = no /\ b[k].byte = k - 1 - pad
    BY <2>3 DEF Cell
  <2>6. \A k \in 1 .. pad : b[k].byte < 0
    BY <2>2, <2>5, SMT
  <2> QED BY <1>1, <2>2, <2>4, <2>5, <2>6 DEF BlockLength, pad
<1>2. CASE name # "align"
  <2> DEFINE size == ItemSize(name)
             pad  == Padding(loc, size)
             vals == ItemValues(name, args)
             m    == Len(vals) * (pad + size)
  <2>1. size \in Nat \ {0} /\ pad \in Nat
    <3>1. size \in {1, 2, 4, 8}
      BY <1>2, ItemSizes
    <3> QED BY <3>1, PaddingRange
  <2>2. Len(vals) = ItemCount(name, args) /\ ItemCount(name, args) \in Nat
    BY <1>2, ValuesCounted
  <2>3. m \in Nat
    BY <2>1, <2>2, SMT
  <2>4. b = [k \in 1 .. m |->
               Cell(no, (k - 1) \div (pad + size) + 1, ((k - 1) % (pad + size)) - pad,
                    IF ((k - 1) % (pad + size)) - pad < 0 THEN 0
                    ELSE ValueByte(vals[(k - 1) \div (pad + size) + 1], size,
                                   ((k - 1) % (pad + size)) - pad))]
    BY <1>2 DEF AllocBlock
  <2>5. m = BlockLength(loc, name, args)
    BY <1>2, <2>2 DEF BlockLength
  <2> HIDE DEF size, pad, vals, m
  <2>6. Sequence(b) /\ Len(b) = m /\ DOMAIN b = 1 .. m
    BY <2>3, <2>4, FunctionIsSequence
  <2>7. ASSUME NEW k \in 1 .. m
        PROVE  b[k].line = no /\ ((b[k].arg = 1 /\ b[k].byte = 0) <=> k = pad + 1)
    <3>1. /\ b[k].line = no /\ b[k].arg = (k - 1) \div (pad + size) + 1
          /\ b[k].byte = ((k - 1) % (pad + size)) - pad
      BY <2>4, <2>7 DEF Cell
    <3> QED BY <2>1, <2>3, <2>7, <3>1, ItemOfByte, SMT
  <2> QED BY <1>2, <2>3, <2>5, <2>6, <2>7 DEF size, pad
<1> QED BY <1>1, <1>2

-----------------------------------------------------------------------------
(* The passes measure alike. *)

(* Labels have addresses, and none is one that could be an alignment. *)
LabelsPlaced == \A l \in DOMAIN labels : labels[l] \in Nat /\ labels[l] > 3

LEMMA ZeroedOperands ==
  ASSUME NEW args, AreOperands(args)
  PROVE  /\ AreOperands(ZeroedArgs(args))
         /\ DOMAIN ZeroedArgs(args) = DOMAIN args
         /\ \A k \in DOMAIN args : args[k].cat # "ref" => ZeroedArgs(args)[k] = args[k]
         /\ \A k \in DOMAIN args : args[k].cat = "ref" => ZeroedArgs(args)[k] = Imm(0)
<1>1. DOMAIN args = 1 .. Len(args) /\ Len(args) \in Nat
      /\ \A k \in DOMAIN args : IsOperand(args[k])
  BY OperandsFacts
<1>2. IsOperand(Imm(0))
  BY SMT DEF Imm, IsOperand
<1>3. PICK z : z = ZeroedArgs(args)
  OBVIOUS
<1>4. AreOperands(z)
  <2>1. \A k \in 1 .. Len(args) : IsOperand(z[k])
    BY <1>1, <1>2, <1>3 DEF ZeroedArgs
  <2>2. z = [k \in 1 .. Len(args) |-> z[k]]
    BY <1>1, <1>3 DEF ZeroedArgs
  <2> QED BY <1>1, <2>1, <2>2, OperandsOf
<1> QED BY <1>3, <1>4 DEF ZeroedArgs

LEMMA ResolvedOperands ==
  ASSUME NEW args, AreOperands(args), LabelsPlaced, RefsOf(args) \subseteq DOMAIN labels
  PROVE  /\ AreOperands(ResolvedArgs(args))
         /\ DOMAIN ResolvedArgs(args) = DOMAIN args
         /\ \A k \in DOMAIN args : args[k].cat # "ref" => ResolvedArgs(args)[k] = args[k]
         /\ \A k \in DOMAIN args : args[k].cat = "ref" =>
              ResolvedArgs(args)[k].imm > 3 /\ ResolvedArgs(args)[k].imm \in Nat
<1>1. DOMAIN args = 1 .. Len(args) /\ Len(args) \in Nat
      /\ \A k \in DOMAIN args : IsOperand(args[k])
  BY OperandsFacts
<1>2. ASSUME NEW k \in DOMAIN args, args[k].cat = "ref"
      PROVE  labels[args[k].ref] \in Nat /\ labels[args[k].ref] > 3
  <2>1. args[k].ref \in DOMAIN labels
    BY <1>2 DEF RefsOf
  <2> QED BY <2>1 DEF LabelsPlaced
<1>3. ASSUME NEW k \in DOMAIN args, args[k].cat = "ref"
      PROVE  IsOperand(Imm(labels[args[k].ref]))
  <2>1. labels[args[k].ref] \in Int
    BY <1>2, <1>3, SMT
  <2> QED BY <2>1 DEF Imm, IsOperand
<1>4. PICK z : z = ResolvedArgs(args)
  OBVIOUS
<1>5. AreOperands(z)
  <2>1. \A k \in 1 .. Len(args) : IsOperand(z[k])
    BY <1>1, <1>3, <1>4 DEF ResolvedArgs
  <2>2. z = [k \in 1 .. Len(args) |-> z[k]]
    BY <1>1, <1>4 DEF ResolvedArgs
  <2> QED BY <1>1, <2>1, <2>2, OperandsOf
<1>6. \A k \in DOMAIN args : args[k].cat = "ref" =>
        ResolvedArgs(args)[k].imm > 3 /\ ResolvedArgs(args)[k].imm \in Nat
  BY <1>2 DEF ResolvedArgs, Imm
<1> QED BY <1>4, <1>5, <1>6 DEF ResolvedArgs

(* A directive takes as many bytes with the addresses of labels as with    *)
(* zeros in their place: where its size depends on an argument, a label is *)
(* refused in one pass or the other.                                       *)
LEMMA BlocksAgree ==
  ASSUME NEW name \in Directives, NEW args, AreOperands(args), LabelsPlaced,
         RefsOf(args) \subseteq DOMAIN labels,
         AllocFault(name, ZeroedArgs(args)) = "none",
         AllocFault(name, ResolvedArgs(args)) = "none",
         NEW o \in Nat, o % 8 = 0, NEW loc \in Nat
  PROVE  /\ BlockLength(o + loc, name, ResolvedArgs(args))
              = BlockLength(loc, name, ZeroedArgs(args))
         /\ PaddingBefore(o + loc, name) = PaddingBefore(loc, name)
         /\ name # "align" => /\ PaddingBefore(loc, name) = Padding(loc, ItemSize(name))
                              /\ PaddingBefore(loc, name) \in Nat
                              /\ (o + loc + PaddingBefore(loc, name)) % ItemSize(name) = 0
         /\ name # "align" /\ (name = "ascii" => args[1].len > 0) =>
              Padding(loc, ItemSize(name)) + 1
                \in 1 .. BlockLength(loc, name, ZeroedArgs(args))
<1> DEFINE zs == ZeroedArgs(args)
           rs == ResolvedArgs(args)
<1>1. /\ AreOperands(zs) /\ AreOperands(rs)
      /\ DOMAIN zs = DOMAIN args /\ DOMAIN rs = DOMAIN args
      /\ \A k \in DOMAIN args : args[k].cat # "ref" => zs[k] = args[k] /\ rs[k] = args[k]
      /\ \A k \in DOMAIN args : args[k].cat = "ref" => rs[k].imm > 3 /\ rs[k].imm \in Nat
      /\ \A k \in DOMAIN args : args[k].cat = "ref" => zs[k] = Imm(0)
  BY ZeroedOperands, ResolvedOperands
<1>2. /\ 1 \in DOMAIN args
      /\ name = "align" => rs[1].imm \in 0 .. 3
      /\ name = "space" => zs[1].imm \in Nat \ {0}
      /\ name \in {"ascii", "asciiz"} => zs[1].cat = "str"
  <2>1. /\ 1 \in DOMAIN zs
        /\ name = "space" => zs[1].imm \in Nat \ {0}
        /\ zs[1].cat = IF name \in {"asciiz", "ascii"} THEN "str" ELSE "imm"
    BY <1>1, Faultless
  <2>2. name = "align" => rs[1].imm \in 0 .. 3
    BY <1>1, Faultless
  <2> QED BY <1>1, <2>1, <2>2
<1>3. Len(zs) = Len(rs)
  BY <1>1, OperandsFacts, SMT
<1>4. name \in SingleArg => zs[1] = args[1] /\ rs[1] = args[1]
  <2> SUFFICES ASSUME name \in SingleArg, args[1].cat = "ref" PROVE FALSE
    BY <1>1, <1>2
  <2>1. rs[1].imm > 3 /\ rs[1].imm \in Nat /\ zs[1].imm = 0 /\ zs[1].cat = "imm"
    BY <1>1, <1>2 DEF Imm
  <2>2. name \in {"asciiz", "ascii", "space", "align"}
    BY DEF SingleArg
  <2>3. name # "align"
    BY <1>2, <2>1, SMT
  <2>4. name # "space"
    BY <1>2, <2>1, SMT
  <2>5. name \notin {"ascii", "asciiz"}
    BY <1>2, <2>1
  <2> QED BY <2>2, <2>3, <2>4, <2>5
<1> HIDE DEF zs, rs
<1>5. CASE name = "align"
  <2>1. zs[1] = rs[1] /\ rs[1].imm \in 0 .. 3
    BY <1>2, <1>4, <1>5 DEF SingleArg
  <2>2. Padding(o + loc, 2 ^ rs[1].imm) = Padding(loc, 2 ^ rs[1].imm)
    BY <2>1, Alignments, Alignment
  <2> QED BY <1>5, <2>1, <2>2 DEF BlockLength, PaddingBefore, zs, rs
<1>6. CASE name # "align"
  <2> DEFINE n == ItemSize(name)
  <2>1. n \in {1, 2, 4, 8}
    BY <1>6, ItemSizes
  <2> HIDE DEF n
  <2>2. /\ Padding(o + loc, n) = Padding(loc, n) /\ (o + loc + Padding(loc, n)) % n = 0
        /\ Padding(loc, n) \in Nat /\ n \in Nat \ {0}
    <3>1. Padding(o + loc, n) = Padding(loc, n) /\ (o + loc + Padding(loc, n)) % n = 0
      BY <2>1, Alignment
    <3>2. Padding(loc, n) \in Nat /\ n \in Nat \ {0}
      BY <2>1, PaddingRange
    <3> QED BY <3>1, <3>2
  <2>3. ItemCount(name, zs) = ItemCount(name, rs)
    BY <1>3, <1>4 DEF ItemCount, SingleArg
  <2>4. /\ ItemCount(name, zs) \in Nat
        /\ (name = "ascii" => args[1].len > 0) => ItemCount(name, zs) > 0
    <3>1. /\ ItemCount(name, zs) \in Nat
          /\ (name = "ascii" => zs[1].len > 0) => ItemCount(name, zs) > 0
      BY <1>1, <1>6, ValuesCounted DEF zs
    <3> QED BY <3>1, <1>4 DEF SingleArg
  <2>5. ASSUME NEW c \in Nat, c > 0, NEW p \in Nat
        PROVE  p + 1 \in 1 .. c * (p + n)
    <3>1. c * (p + n) >= p + n
      BY <2>2, <2>5, SMT
    <3> QED BY <2>2, <2>5, <3>1, SMT
  <2> QED BY <1>6, <2>2, <2>3, <2>4, <2>5 DEF BlockLength, PaddingBefore, zs, rs, n
<1> QED BY <1>5, <1>6

(* The lines a pseudo instruction becomes, as many as the first pass       *)
(* counted.                                                                *)
LEMMA ReplacementCount ==
  ASSUME NEW name, NEW args, IsPseudo(name, args)
  PROVE  \E m \in {1, 2} : /\ DOMAIN Replacement(name, args) = 1 .. m
                           /\ 4 * m = InstrSize(name, args)
<1> DEFINE r == Replacement(name, args)
<1>1. CASE IsAlias(name, args)
  <2>1. name \in Loads \union Stores \union {"div", "divu"}
    BY <1>1 DEF IsAlias
  <2>2. r = AliasLines(name, args)
    BY <1>1, <2>1 DEF Replacement, Loads, Stores, BranchPseudo, BranchZeroPseudo
  <2>3. DOMAIN r = 1 .. 2
    BY <2>2 DEF AliasLines
  <2>4. InstrSize(name, args) = 8
    BY <1>1 DEF InstrSize
  <2> QED BY <2>3, <2>4
<1>2. CASE ~IsAlias(name, args)
  <2>1. name \in PseudoNames
    BY <1>2 DEF IsPseudo
  <2>2. CASE name \in {"li", "move", "subi", "nop", "beqz", "bnez"}
    <3>1. DOMAIN r = 1 .. 1
      BY <1>2, <2>2 DEF Replacement, BranchPseudo, BranchZeroPseudo
    <3>2. InstrSize(name, args) = 4
      BY <1>2, <2>2 DEF InstrSize, BranchPseudo, BranchZeroPseudo
    <3> QED BY <3>1, <3>2
  <2>3. CASE name \in {"la", "mul"}
    <3>1. DOMAIN r = 1 .. 2
      BY <1>2, <2>3 DEF Replacement, BranchPseudo, BranchZeroPseudo
    <3>2. InstrSize(name, args) = 8
      BY <2>3 DEF InstrSize
    <3> QED BY <3>1, <3>2
  <2>4. CASE name \in BranchPseudo \union BranchZeroPseudo
    <3>1. DOMAIN r = 1 .. 2
      BY <1>2, <2>4 DEF Replacement, BranchPseudo, BranchZeroPseudo, BranchLines
    <3>2. InstrSize(name, args) = 8
      BY <2>4 DEF InstrSize
    <3> QED BY <3>1, <3>2
  <2> QED BY <2>1, <2>2, <2>3, <2>4 DEF PseudoNames
<1> QED BY <1>1, <1>2

LEMMA PlainSize ==
  ASSUME NEW name, NEW args, ~IsPseudo(name, args)
  PROVE  InstrSize(name, args) = 4
  BY DEF InstrSize, IsPseudo, PseudoNames

-----------------------------------------------------------------------------
(* The lines of a program, as it was written and as it is expanded; the    *)
(* line parse adds has the number 0.                                       *)

IsInstr(q) == q = 0 \/ program[q].cat = "instr"
SizeOf(q)  == IF q = 0 THEN 4 ELSE InstrSize(program[q].name, program[q].args)

Written(l) ==
  \/ l.no = 0 /\ (l = Line("instr", "nop", <<>>) \/ l = JumpToMain)
  \/ l.no \in DOMAIN program /\ l = [program[l.no] EXCEPT !.no = l.no]

(* An instruction of the expansion of line l.no, or that line as it was. *)
Expanded(l) ==
  /\ l.no \in 0 .. Len(program) /\ l.part \in {1, 2}
  /\ IF IsInstr(l.no) THEN l.cat = "instr" /\ 4 * l.part <= SizeOf(l.no)
     ELSE Written(l) /\ l.part = 1

Ends(l)         == IsInstr(l.no) => 4 * l.part = SizeOf(l.no)
Continues(l, k) == k.no = l.no /\ k.part = l.part + 1

(* The number of line i; behind the last line comes one more. *)
NoAt(i) == IF i <= Len(lines) THEN lines[i].no ELSE Len(program) + 1

(* The lines before a are expanded, the others as written, and none is     *)
(* missing, doubled or cut short.                                          *)
LinesInv(a) ==
  /\ Sequence(lines) /\ Len(lines) > 0
  /\ lines[1].no = 0 /\ lines[1].part = 1
  /\ \A i \in DOMAIN lines :
       IF i < a THEN Expanded(lines[i]) ELSE Written(lines[i])
  /\ \A i \in DOMAIN lines :
       \/ i + 1 < a /\ i < Len(lines) /\ Continues(lines[i], lines[i + 1])
       \/ /\ NoAt(i + 1) = lines[i].no + 1
          /\ i < Len(lines) => lines[i + 1].part = 1
          /\ i < a => Ends(lines[i])

(* Where the first pass is before each line. *)
Counts == [sec : Sections, sizes : [Sections -> Nat]]
Walks  == [0 .. Len(program) + 1 -> Counts]

Measured(q) == ~IsInstr(q) /\ program[q].cat = "alloc"

Growth(q, x) ==
  IF IsInstr(q) THEN SizeOf(q)
  ELSE IF Measured(q)
  THEN BlockLength(x.sizes[x.sec], program[q].name, ZeroedArgs(program[q].args))
  ELSE 0

After(q, x) ==
  [sec   |-> IF ~IsInstr(q) /\ program[q].cat = "section" THEN program[q].name
             ELSE x.sec,
   sizes |-> [x.sizes EXCEPT ![x.sec] = @ + Growth(q, x)]]

Sound(q) == Measured(q) =>
  AllocFault(program[q].name, ZeroedArgs(program[q].args)) = "none"

Follows(g, m) ==
  /\ g \in Walks
  /\ g[0] = [sec |-> "text", sizes |-> [s \in Sections |-> 0]]
  /\ \A q \in 0 .. m - 1 : g[q + 1] = After(q, g[q]) /\ Sound(q)

(* Labels of items before line m have the address of their item; those     *)
(* behind the last item wait.                                              *)
AddressOf(g, e) ==
  LET loc == g[e].sizes[g[e].sec]
  IN  Offset[g[e].sec] + loc
      + (IF Measured(e) THEN PaddingBefore(loc, program[e].name) ELSE 0)

LabelsInv(g, m) ==
  /\ LabelsPlaced
  /\ pending \cap DOMAIN labels = {}
  /\ \A d, e \in DOMAIN program : Labelled(d, e) /\ e < m =>
       /\ program[d].name \in DOMAIN labels
       /\ labels[program[d].name] = AddressOf(g, e)
  /\ \A d \in DOMAIN program :
       /\ d < m /\ program[d].cat = "label"
       /\ \A k \in d + 1 .. m - 1 : ~IsItem(program[k])
       => program[d].name \in pending

Nothing == [s \in Sections |-> <<>>]

(* Before line m, the passes know of each other what they need. *)
FirstPass(g, m) ==
  /\ Sequence(lines) /\ Len(lines) = Len(program) + 1
  /\ \A i \in DOMAIN lines : lines[i].no = i - 1 /\ Written(lines[i])
  /\ m \in 0 .. Len(program) + 1 /\ at = m + 1
  /\ Follows(g, m) /\ LabelsInv(g, m)
  /\ g[m] = [sec |-> section, sizes |-> sizes]
  /\ layout = Nothing

MeasuredInv(g) ==
  /\ Follows(g, Len(program) + 1) /\ LabelsInv(g, Len(program) + 1)
  /\ sizes = g[Len(program) + 1].sizes

SecondPass(g, a) ==
  /\ MeasuredInv(g)
  /\ at = a /\ a \in 1 .. Len(lines) + 1 /\ LinesInv(a)
  /\ layout = Nothing

(* The third pass, in line q, is in the section, and has laid out the      *)
(* bytes, that the first had counted when it was there.                    *)
Inside == IF at <= Len(lines) THEN 4 * (lines[at].part - 1) ELSE 0

LayoutInv(g, q) ==
  /\ section = g[q].sec
  /\ DOMAIN layout = Sections
  /\ \A s \in Sections :
       /\ Sequence(layout[s])
       /\ Len(layout[s]) = g[q].sizes[s] + (IF s = section THEN Inside ELSE 0)

PlacedInv(g, q) ==
  \A e \in DOMAIN program :
    /\ IsItem(program[e]) /\ HasBytes(program[e])
    /\ e < q \/ (e = q /\ Inside > 0)
    => \E k \in DOMAIN layout[g[e].sec] :
         /\ Offset[g[e].sec] + k - 1 = AddressOf(g, e)
         /\ layout[g[e].sec][k].line = e
         /\ layout[g[e].sec][k].arg = 1 /\ layout[g[e].sec][k].byte = 0

ItemsAligned ==
  \A s \in Sections : \A k \in DOMAIN layout[s] :
    LET c == layout[s][k]
    IN  c.line # 0 /\ c.arg = 1 /\ c.byte = 0
        /\ program[c.line].cat = "alloc" /\ program[c.line].name # "align"
        => (Offset[s] + k - 1) % ItemSize(program[c.line].name) = 0

ThirdPass(g, q) ==
  /\ MeasuredInv(g)
  /\ LinesInv(Len(lines) + 1) /\ at \in 1 .. Len(lines) + 1
  /\ q = NoAt(at)
  /\ LayoutInv(g, q) /\ PlacedInv(g, q) /\ ItemsAligned

AsmInv ==
  /\ IsProgram(program)
  /\ phase = "start"  => Idle
  /\ phase = "labels" => \E g, m : FirstPass(g, m)
  /\ phase = "pseudo" => \E g, a : SecondPass(g, a)
  /\ phase \in {"parse", "done"} => \E g, q : ThirdPass(g, q)
  /\ phase = "done" => at > Len(lines)

-----------------------------------------------------------------------------
(* Lines and walks. *)

LEMMA SourceFacts ==
  ASSUME IsProgram(program), NEW q \in DOMAIN program
  PROVE  /\ q \in 1 .. Len(program) /\ Len(program) \in Nat
         /\ DOMAIN program = 1 .. Len(program)
         /\ AreOperands(program[q].args) /\ program[q].part = 1
         /\ program[q].cat = "alloc" => program[q].name \in Directives
         /\ program[q].cat = "section" => program[q].name \in Sections
         /\ program[q].cat \in {"section", "alloc", "instr", "label", "other"}
<1>1. /\ q \in 1 .. Len(program) /\ Len(program) \in Nat
      /\ DOMAIN program = 1 .. Len(program)
  BY ProgramFacts
<1>2. IsSourceLine(program[q])
  BY ProgramFacts
<1>3. /\ AreOperands(program[q].args) /\ program[q].part = 1
      /\ program[q].cat = "alloc" => program[q].name \in Directives
      /\ program[q].cat = "section" => program[q].name \in Sections
      /\ program[q].cat \in {"section", "alloc", "instr", "label", "other"}
  BY <1>2, Renumbered DEF IsSourceLine
<1> QED BY <1>1, <1>3

LEMMA SizesOfInstr ==
  ASSUME NEW name, NEW args
  PROVE  InstrSize(name, args) \in {4, 8}
  BY DEF InstrSize

LEMMA WrittenFacts ==
  ASSUME IsProgram(program), NEW l, Written(l)
  PROVE  /\ l.no \in 0 .. Len(program) /\ l.part = 1
         /\ IsInstr(l.no) <=> l.cat = "instr"
         /\ IsInstr(l.no) => InstrSize(l.name, l.args) = SizeOf(l.no)
         /\ l.no # 0 => /\ l.no \in DOMAIN program
                        /\ l.cat = program[l.no].cat /\ l.name = program[l.no].name
                        /\ l.args = program[l.no].args
         /\ l.no = 0 => l.cat = "instr"
<1>1. CASE l.no = 0 /\ (l = Line("instr", "nop", <<>>) \/ l = JumpToMain)
  <2>1. l.part = 1 /\ l.cat = "instr" /\ l.name \in {"nop", "j"}
    BY <1>1 DEF JumpToMain, Line, LineFrom
  <2>2. InstrSize(l.name, l.args) = 4
    BY <2>1 DEF InstrSize, IsAlias, Loads, Stores, BranchPseudo, BranchZeroPseudo
  <2>3. Len(program) \in Nat
    BY ProgramFacts
  <2> QED BY <1>1, <2>1, <2>2, <2>3, SMT DEF IsInstr, SizeOf
<1>2. CASE l.no \in DOMAIN program /\ l = [program[l.no] EXCEPT !.no = l.no]
  <2>1. l.no \in 1 .. Len(program) /\ Len(program) \in Nat /\ program[l.no].part = 1
    BY <1>2, SourceFacts
  <2>2. IsSourceLine(program[l.no])
    BY <1>2, ProgramFacts
  <2>3. /\ l.cat = program[l.no].cat /\ l.name = program[l.no].name
        /\ l.args = program[l.no].args /\ l.part = program[l.no].part
    BY <1>2, <2>2, Renumbered
  <2> QED BY <1>2, <2>1, <2>3, SMT DEF IsInstr, SizeOf
<1> QED BY <1>1, <1>2 DEF Written

LEMMA GrowthIsSize ==
  ASSUME IsProgram(program), NEW q \in 0 .. Len(program), NEW x \in Counts,
         Sound(q)
  PROVE  Growth(q, x) \in Nat /\ After(q, x) \in Counts
<1>1. Len(program) \in Nat /\ DOMAIN program = 1 .. Len(program)
  BY ProgramFacts
<1>2. x.sec \in Sections /\ x.sizes \in [Sections -> Nat]
  BY DEF Counts
<1>3. ~IsInstr(q) => q \in DOMAIN program
  BY <1>1, SMT DEF IsInstr
<1>4. Growth(q, x) \in Nat
  <2>1. CASE IsInstr(q)
    BY <2>1, SizesOfInstr DEF Growth, SizeOf
  <2>2. CASE Measured(q)
    <3>1. /\ q \in DOMAIN program /\ program[q].name \in Directives
          /\ AreOperands(ZeroedArgs(program[q].args))
      BY <1>3, <2>2, SourceFacts, ZeroedOperands DEF Measured
    <3>2. x.sizes[x.sec] \in Nat
      BY <1>2
    <3>3. BlockLength(x.sizes[x.sec], program[q].name, ZeroedArgs(program[q].args)) \in Nat
      BY <2>2, <3>1, <3>2, BlockShape DEF Sound
    <3> QED BY <2>2, <3>3 DEF Growth, Measured
  <2> QED BY <2>1, <2>2 DEF Growth
<1>5. (IF ~IsInstr(q) /\ program[q].cat = "section" THEN program[q].name ELSE x.sec)
        \in Sections
  BY <1>2, <1>3, SourceFacts
<1>6. [x.sizes EXCEPT ![x.sec] = @ + Growth(q, x)] \in [Sections -> Nat]
  <2>1. x.sizes[x.sec] + Growth(q, x) \in Nat
    BY <1>2, <1>4
  <2> QED BY <1>2, <2>1
<1> QED BY <1>4, <1>5, <1>6 DEF After, Counts

(* One line more. *)
LEMMA WalkOn ==
  ASSUME IsProgram(program), NEW g, NEW m \in 0 .. Len(program),
         Follows(g, m), Sound(m)
  PROVE  \E h : /\ Follows(h, m + 1) /\ h[m + 1] = After(m, g[m])
                /\ \A q \in 0 .. m : h[q] = g[q]
<1> DEFINE h == [g EXCEPT ![m + 1] = After(m, g[m])]
<1>1. Len(program) \in Nat /\ m \in Nat /\ m + 1 \in 0 .. Len(program) + 1
      /\ m \in 0 .. Len(program) + 1
  <2>1. Len(program) \in Nat
    BY ProgramFacts
  <2> QED BY <2>1, SMT
<1>2. g \in Walks /\ g[m] \in Counts
  BY <1>1 DEF Follows, Walks
<1>3. After(m, g[m]) \in Counts
  BY <1>2, GrowthIsSize
<1>4. h \in Walks
  BY <1>2, <1>3 DEF Walks
<1>5. h[m + 1] = After(m, g[m])
  BY <1>1, <1>2 DEF Walks
<1>6. \A q \in 0 .. m : h[q] = g[q]
  <2>1. \A q \in 0 .. m : q # m + 1 /\ q \in 0 .. Len(program) + 1
    BY <1>1, SMT
  <2> QED BY <1>2, <2>1 DEF Walks
<1>7. ASSUME NEW q \in 0 .. m PROVE h[q + 1] = After(q, h[q]) /\ Sound(q)
  <2>1. CASE q = m
    BY <1>5, <1>6, <2>1
  <2>2. CASE q # m
    <3>1. q \in 0 .. m - 1 /\ q + 1 \in 0 .. m
      BY <1>1, <2>2, SMT
    <3> QED BY <1>6, <3>1 DEF Follows
  <2> QED BY <2>1, <2>2
<1>8. h[0] = [sec |-> "text", sizes |-> [s \in Sections |-> 0]]
  <2>1. 0 \in 0 .. m
    BY <1>1, SMT
  <2> QED BY <1>6, <2>1 DEF Follows
<1>9. m + 1 - 1 = m
  BY <1>1, SMT
<1> HIDE DEF h
<1>10. Follows(h, m + 1)
  BY <1>4, <1>7, <1>8, <1>9 DEF Follows
<1>11. h[m + 1] = After(m, g[m]) /\ \A q \in 0 .. m : h[q] = g[q]
  BY <1>5, <1>6
<1> QED BY <1>10, <1>11

LEMMA CountsOnWalk ==
  ASSUME NEW g, NEW m, Follows(g, m), NEW q \in 0 .. Len(program) + 1
  PROVE  g[q] \in Counts /\ g[q].sec \in Sections /\ g[q].sizes \in [Sections -> Nat]
<1>1. g[q] \in Counts
  BY DEF Follows, Walks
<1> QED BY <1>1 DEF Counts

-----------------------------------------------------------------------------
(* Labels. *)

LEMMA LabelAtFacts ==
  ASSUME NEW loc
  PROVE  /\ DOMAIN LabelAt(loc) = pending \union DOMAIN labels
         /\ \A l \in pending : LabelAt(loc)[l] = loc
         /\ \A l \in DOMAIN labels \ pending : LabelAt(loc)[l] = labels[l]
  BY DEF LabelAt

(* Walks that agree up to a line give its items the same address. *)
LEMMA SameAddress ==
  ASSUME NEW g, NEW h, NEW m \in Nat, \A q \in 0 .. m : h[q] = g[q],
         program' = program, NEW e \in 0 .. m
  PROVE  AddressOf(h, e)' = AddressOf(g, e)
<1>1. h[e] = g[e]
  OBVIOUS
<1> QED BY <1>1 DEF AddressOf, Measured, IsInstr

(* A line that is no item: its label waits with the others. *)
LEMMA LabelsWait ==
  ASSUME IsProgram(program), NEW g, NEW h, NEW m \in DOMAIN program,
         LabelsInv(g, m), \A q \in 0 .. m : h[q] = g[q],
         ~IsItem(program[m]), program' = program, labels' = labels,
         \/ pending' = pending /\ program[m].cat # "label"
         \/ /\ program[m].cat = "label" /\ program[m].name \notin DOMAIN labels
            /\ pending' = pending \union {program[m].name}
  PROVE  LabelsInv(h, m + 1)'
<1>1. /\ m \in 1 .. Len(program) /\ Len(program) \in Nat
      /\ DOMAIN program = 1 .. Len(program)
  BY SourceFacts
<1>2. LabelsPlaced' /\ (pending \cap DOMAIN labels = {})'
  BY DEF LabelsInv, LabelsPlaced
<1>3. ASSUME NEW d \in DOMAIN program, NEW e \in DOMAIN program,
             Labelled(d, e), e < m + 1
      PROVE  /\ program[d].name \in DOMAIN labels'
             /\ labels'[program[d].name] = AddressOf(h, e)'
  <2>1. e # m
    BY <1>3 DEF Labelled
  <2>2. e < m /\ e \in 0 .. m /\ m \in Nat
    BY <1>1, <1>3, <2>1, SMT
  <2>3. AddressOf(h, e)' = AddressOf(g, e)
    BY <2>2, SameAddress
  <2> QED BY <1>3, <2>2, <2>3 DEF LabelsInv
<1>4. ASSUME NEW d \in DOMAIN program, d < m + 1, program[d].cat = "label",
             \A k \in d + 1 .. m : ~IsItem(program[k])
      PROVE  program[d].name \in pending'
  <2>1. CASE d = m
    BY <1>4, <2>1
  <2>2. CASE d # m
    <3>1. d < m /\ \A k \in d + 1 .. m - 1 : k \in d + 1 .. m
      BY <1>1, <1>4, <2>2, SMT
    <3>2. program[d].name \in pending
      BY <1>4, <3>1 DEF LabelsInv
    <3> QED BY <3>2
  <2> QED BY <2>1, <2>2
<1>5. m + 1 - 1 = m
  BY <1>1, SMT
<1>6. (\A d, e \in DOMAIN program : Labelled(d, e) /\ e < m + 1 =>
         /\ program[d].name \in DOMAIN labels
         /\ labels[program[d].name] = AddressOf(h, e))'
  <2> SUFFICES ASSUME NEW d \in DOMAIN program, NEW e \in DOMAIN program,
                      Labelled(d, e)', e < m + 1
               PROVE  /\ program[d].name \in DOMAIN labels'
                      /\ labels'[program[d].name] = AddressOf(h, e)'
    OBVIOUS
  <2>1. Labelled(d, e)
    BY DEF Labelled, IsItem
  <2> QED BY <1>3, <2>1
<1>7. (\A d \in DOMAIN program :
         /\ d < m + 1 /\ program[d].cat = "label"
         /\ \A k \in d + 1 .. m + 1 - 1 : ~IsItem(program[k])
         => program[d].name \in pending)'
  BY <1>4, <1>5
<1> QED BY <1>1, <1>2, <1>6, <1>7 DEF LabelsInv

(* An item: the labels that wait get its address. *)
LEMMA LabelsGet ==
  ASSUME IsProgram(program), NEW g, NEW h, NEW m \in 0 .. Len(program),
         LabelsInv(g, m), \A q \in 0 .. m : h[q] = g[q],
         m # 0 => IsItem(program[m]), program' = program, pending' = {},
         NEW loc \in Nat, loc > 3, labels' = LabelAt(loc),
         m # 0 => loc = AddressOf(g, m)
  PROVE  LabelsInv(h, m + 1)'
<1>1. Len(program) \in Nat /\ m \in Nat /\ DOMAIN program = 1 .. Len(program)
  <2>1. Len(program) \in Nat /\ DOMAIN program = 1 .. Len(program)
    BY ProgramFacts
  <2> QED BY <2>1, SMT
<1>2. /\ DOMAIN labels' = pending \union DOMAIN labels
      /\ \A l \in pending : labels'[l] = loc
      /\ \A l \in DOMAIN labels : labels'[l] = labels[l]
  <2>1. \A l \in DOMAIN labels : l \notin pending
    BY DEF LabelsInv
  <2> QED BY <2>1, LabelAtFacts
<1>3. LabelsPlaced'
  <2>1. \A l \in DOMAIN labels' : labels'[l] \in Nat /\ labels'[l] > 3
    BY <1>2 DEF LabelsInv, LabelsPlaced
  <2> QED BY <2>1 DEF LabelsPlaced
<1>4. ASSUME NEW d \in DOMAIN program, NEW e \in DOMAIN program,
             Labelled(d, e), e < m + 1
      PROVE  /\ program[d].name \in DOMAIN labels'
             /\ labels'[program[d].name] = AddressOf(h, e)'
  <2>1. e \in 0 .. m
    BY <1>1, <1>4, SMT
  <2>2. AddressOf(h, e)' = AddressOf(g, e)
    BY <1>1, <2>1, SameAddress
  <2>3. CASE e = m
    <3>1. m # 0
      BY <1>1, <2>3, SMT
    <3>2. /\ d < m /\ program[d].cat = "label"
          /\ \A k \in d + 1 .. m - 1 : ~IsItem(program[k])
      BY <1>4, <2>3 DEF Labelled
    <3>3. program[d].name \in pending
      BY <3>2 DEF LabelsInv
    <3> QED BY <1>2, <2>2, <2>3, <3>1, <3>3
  <2>4. CASE e # m
    <3>1. e < m
      BY <1>1, <2>1, <2>4, SMT
    <3> QED BY <1>2, <1>4, <2>2, <3>1 DEF LabelsInv
  <2> QED BY <2>3, <2>4
<1>5. ASSUME NEW d \in DOMAIN program, d < m + 1, program[d].cat = "label",
             \A k \in d + 1 .. m : ~IsItem(program[k])
      PROVE  FALSE
  <2>1. m # 0 /\ (d = m \/ m \in d + 1 .. m)
    BY <1>1, <1>5, SMT
  <2> QED BY <1>5, <2>1 DEF IsItem
<1>6. m + 1 - 1 = m
  BY <1>1, SMT
<1>7. \A d, e \in DOMAIN program' : Labelled(d, e)' /\ e < m + 1 =>
        /\ program'[d].name \in DOMAIN labels'
        /\ labels'[program'[d].name] = AddressOf(h, e)'
  BY <1>4 DEF Labelled, IsItem
<1>8. \A d \in DOMAIN program' :
        /\ d < m + 1 /\ program'[d].cat = "label"
        /\ \A k \in d + 1 .. m + 1 - 1 : ~IsItem(program'[k])
        => program'[d].name \in pending'
  BY <1>5, <1>6
<1> QED BY <1>3, <1>7, <1>8 DEF LabelsInv

-----------------------------------------------------------------------------
(* The first pass. *)

LEMMA OffsetFacts ==
  ASSUME NEW s \in Sections
  PROVE  Offset[s] \in Nat /\ Offset[s] % 8 = 0 /\ Offset[s] > 3
<1>1. Offset[s] \in Word \ {0} /\ Offset[s] % 8 = 0
  BY OffsetAssumption
<1>2. Offset[s] \in Nat \ {0}
  BY <1>1, SMT DEF Word
<1> QED BY <1>1, <1>2, SMT

LEMMA FollowsStays ==
  ASSUME NEW g, NEW m, Follows(g, m), program' = program
  PROVE  Follows(g, m)'
  BY DEF Follows, Walks, After, Growth, Measured, IsInstr, SizeOf, Sound

(* The line the first pass reads, and where it is there. *)
LEMMA FirstPassAt ==
  ASSUME IsProgram(program), NEW g, NEW m, FirstPass(g, m), at <= Len(lines)
  PROVE  /\ m \in 0 .. Len(program) /\ Len(program) \in Nat /\ at \in DOMAIN lines
         /\ Written(Current) /\ Current.no = m
         /\ section \in Sections /\ sizes \in [Sections -> Nat]
         /\ section = g[m].sec /\ sizes = g[m].sizes
<1>1. Len(program) \in Nat
  BY ProgramFacts
<1>2. /\ Sequence(lines) /\ Len(lines) = Len(program) + 1
      /\ at = m + 1 /\ m \in 0 .. Len(program) + 1
      /\ Follows(g, m) /\ g[m] = [sec |-> section, sizes |-> sizes]
  BY DEF FirstPass
<1>3. DOMAIN lines = 1 .. Len(lines)
  BY <1>2, LenProperties DEF Sequence
<1>4. at \in DOMAIN lines /\ m \in 0 .. Len(program) /\ at - 1 = m
  BY <1>1, <1>2, <1>3, SMT
<1>5. g[m].sec \in Sections /\ g[m].sizes \in [Sections -> Nat]
  BY <1>2, <1>4, CountsOnWalk
<1> QED BY <1>1, <1>2, <1>4, <1>5 DEF FirstPass, Current

LEMMA FirstPassOn ==
  ASSUME IsProgram(program), NEW g, NEW m, NEW h, FirstPass(g, m),
         at <= Len(lines),
         Follows(h, m + 1), h[m + 1] = [sec |-> section', sizes |-> sizes'],
         LabelsInv(h, m + 1)', at' = at + 1, program' = program, lines' = lines,
         layout' = layout
  PROVE  FirstPass(h, m + 1)'
<1>1. m + 1 \in 0 .. Len(program) + 1 /\ at' = m + 1 + 1
  <2>1. m \in 0 .. Len(program) /\ Len(program) \in Nat /\ at = m + 1
    BY FirstPassAt DEF FirstPass
  <2> QED BY <2>1, SMT
<1>3. Follows(h, m + 1)'
  BY FollowsStays
<1>5. (\A i \in DOMAIN lines : lines[i].no = i - 1 /\ Written(lines[i]))'
  BY DEF FirstPass, Written, JumpToMain, MangledMain
<1>6. (Sequence(lines) /\ Len(lines) = Len(program) + 1 /\ layout = Nothing)'
  BY DEF FirstPass, Sequence, Elements, Nothing
<1> QED BY <1>1, <1>3, <1>5, <1>6 DEF FirstPass

(* A program that is given up needs nothing more. *)
LEMMA FailKeeps ==
  ASSUME AsmInv, NEW why, Fail(why)
  PROVE  AsmInv'
  BY DEF AsmInv, Fail

LEMMA BeginKeeps ==
  ASSUME AsmInv, Begin
  PROVE  AsmInv'
<1> DEFINE n == Len(program)
           x == [sec |-> "text", sizes |-> [s \in Sections |-> 0]]
           g == [q \in 0 .. n + 1 |-> x]
<1>1. /\ IsProgram(program) /\ Idle /\ program' = program /\ phase' = "labels"
      /\ at' = at /\ section' = section /\ sizes' = sizes /\ pending' = pending
      /\ layout' = layout
  BY DEF AsmInv, Begin, passVars, outVars
<1>2. n \in Nat /\ DOMAIN program = 1 .. n /\ 0 \in 0 .. n + 1 /\ 0 - 1 < 0
  <2>1. n \in Nat /\ DOMAIN program = 1 .. n
    BY <1>1, ProgramFacts
  <2> QED BY <2>1, SMT
<1>3. (Sequence(lines) /\ Len(lines) = Len(program) + 1)'
      /\ (\A i \in DOMAIN lines : lines[i].no = i - 1 /\ Written(lines[i]))'
  <2> DEFINE nop  == Line("instr", "nop", <<>>)
             rest == [k \in DOMAIN program |-> [program[k] EXCEPT !.no = k]]
  <2>1. Sequence(<<nop>>) /\ Len(<<nop>>) = 1 /\ <<nop>>[1] = nop
    <3>1. <<nop>> \in Seq({nop})
      OBVIOUS
    <3> QED BY <3>1, SequenceOf
  <2>2. Sequence(rest) /\ Len(rest) = n
    BY <1>2, FunctionIsSequence
  <2>3. lines' = <<nop>> \o rest
    BY DEF Begin
  <2>4. nop.no = 0
    BY DEF Line, LineFrom
  <2>5. ASSUME NEW k \in DOMAIN program
        PROVE  rest[k].no = k /\ rest[k] = [program[k] EXCEPT !.no = k]
    <3>1. IsSourceLine(program[k])
      BY <1>1, ProgramFacts
    <3>2. [program[k] EXCEPT !.no = k].no = k
      BY <3>1, Renumbered
    <3> QED BY <3>2
  <2> HIDE DEF nop, rest
  <2>6. /\ Sequence(lines') /\ Len(lines') = n + 1 /\ DOMAIN lines' = 1 .. n + 1
        /\ lines'[1] = nop /\ \A k \in 1 .. n : lines'[1 + k] = rest[k]
    <3>1. /\ Sequence(lines') /\ Len(lines') = 1 + n /\ DOMAIN lines' = 1 .. 1 + n
          /\ \A k \in 1 .. 1 : lines'[k] = <<nop>>[k]
          /\ \A k \in 1 .. n : lines'[1 + k] = rest[k]
      BY <2>1, <2>2, <2>3, Joined
    <3> QED BY <1>2, <2>1, <3>1, SMT
  <2>7. ASSUME NEW i \in DOMAIN lines'
        PROVE  lines'[i].no = i - 1 /\ Written(lines'[i])
    <3>1. CASE i = 1
      BY <2>4, <2>6, <3>1 DEF Written, nop
    <3>2. CASE i # 1
      <4> DEFINE k == i - 1
      <4>1. k \in 1 .. n /\ i = 1 + k
        BY <1>2, <2>6, <3>2, SMT
      <4>2. lines'[i] = rest[k] /\ k \in DOMAIN program
        BY <1>2, <2>6, <4>1
      <4> QED BY <2>5, <4>2 DEF Written
    <3> QED BY <3>1, <3>2
  <2>8. (\A i \in DOMAIN lines : lines[i].no = i - 1 /\ Written(lines[i]))'
    BY <1>1, <2>7 DEF Written, JumpToMain, MangledMain
  <2>9. Sequence(lines)' /\ Len(lines') = Len(program') + 1
    BY <1>1, <2>6 DEF Sequence, Elements
  <2> QED BY <2>8, <2>9
<1> HIDE DEF n
<1>4. Follows(g, 0)
  <2>1. x \in Counts
    BY TextAssumption DEF Counts
  <2>2. g \in Walks /\ g[0] = x
    BY <1>2, <2>1 DEF Walks, n
  <2>3. 0 .. 0 - 1 = {}
    BY SMT
  <2> HIDE DEF g
  <2> QED BY <2>2, <2>3 DEF Follows
<1>5. PICK h : h = g
  OBVIOUS
<1>6. Follows(h, 0)'
  BY <1>1, <1>4, <1>5, FollowsStays
<1>7. LabelsInv(h, 0)'
  <2>1. labels' = [l \in {"_start"} |-> Offset["text"]] /\ pending' = {}
    BY <1>1 DEF Begin, Idle
  <2>2. Offset["text"] \in Nat /\ Offset["text"] > 3
    BY TextAssumption, OffsetFacts
  <2>3. LabelsPlaced'
    BY <2>1, <2>2 DEF LabelsPlaced
  <2>4. \A d \in DOMAIN program' : ~(d < 0)
    BY <1>1, <1>2, SMT
  <2> QED BY <2>1, <2>3, <2>4 DEF LabelsInv
<1>8. h[0] = [sec |-> section', sizes |-> sizes'] /\ layout' = Nothing /\ at' = 0 + 1
  <2>1. h[0] = x
    BY <1>2, <1>5
  <2> QED BY <1>1, <2>1 DEF Idle, Nothing
<1>9. FirstPass(h, 0)'
  BY <1>1, <1>2, <1>3, <1>6, <1>7, <1>8 DEF FirstPass, n, Nothing
<1> QED BY <1>1, <1>9 DEF AsmInv

(* A directive or an instruction: Measure, with where the walk goes on. *)
LEMMA MeasureKeeps ==
  ASSUME AsmInv, phase = "labels", NEW g, NEW m, FirstPass(g, m), at <= Len(lines),
         Sound(m), m # 0 => IsItem(program[m]),
         NEW pad \in Nat, NEW size, Measure(pad, size), size = Growth(m, g[m]),
         pad = IF Measured(m) THEN PaddingBefore(sizes[section], program[m].name) ELSE 0
  PROVE  AsmInv'
<1>1. /\ IsProgram(program)
      /\ m \in 0 .. Len(program) /\ Len(program) \in Nat
      /\ section \in Sections /\ sizes \in [Sections -> Nat]
      /\ section = g[m].sec /\ sizes = g[m].sizes
      /\ Follows(g, m) /\ LabelsInv(g, m)
  BY FirstPassAt DEF AsmInv, FirstPass
<1>2. /\ pending' = {} /\ program' = program /\ phase' = phase /\ section' = section
      /\ labels' = LabelAt(Offset[section] + sizes[section] + pad)
      /\ sizes' = [sizes EXCEPT ![section] = @ + size]
      /\ at' = at + 1 /\ lines' = lines /\ layout' = layout
  BY DEF Measure, NextLine, textVars, outVars
<1>3. PICK h : /\ Follows(h, m + 1) /\ h[m + 1] = After(m, g[m])
               /\ \A q \in 0 .. m : h[q] = g[q]
  BY <1>1, WalkOn
<1>4. ~(~IsInstr(m) /\ program[m].cat = "section")
  BY <1>1 DEF IsInstr, IsItem
<1>5. h[m + 1] = [sec |-> section', sizes |-> sizes']
  BY <1>1, <1>2, <1>3, <1>4 DEF After
<1>6. /\ Offset[section] + sizes[section] + pad \in Nat
      /\ Offset[section] + sizes[section] + pad > 3
  <2>1. Offset[section] \in Nat /\ Offset[section] > 3 /\ sizes[section] \in Nat
    BY <1>1, OffsetFacts
  <2> QED BY <2>1, SMT
<1>7. Offset[section] + sizes[section] + pad = AddressOf(g, m)
  BY <1>1 DEF AddressOf
<1>8. PICK loc \in Nat : loc = Offset[section] + sizes[section] + pad
  BY <1>6
<1>9. LabelsInv(h, m + 1)'
  BY <1>1, <1>2, <1>3, <1>6, <1>7, <1>8, LabelsGet
<1>10. FirstPass(h, m + 1)'
  BY <1>1, <1>2, <1>3, <1>5, <1>9, FirstPassOn
<1> QED BY <1>1, <1>2, <1>10 DEF AsmInv

LEMMA MeasureAllocKeeps ==
  ASSUME AsmInv, MeasureAlloc
  PROVE  AsmInv'
<1> DEFINE name == Current.name
           args == ZeroedArgs(Current.args)
           loc  == sizes[section]
<1>1. phase = "labels" /\ at <= Len(lines) /\ Current.cat = "alloc"
  BY DEF MeasureAlloc, Reading
<1>2. PICK g, m : FirstPass(g, m)
  BY <1>1 DEF AsmInv
<1>3. /\ IsProgram(program) /\ Written(Current) /\ Current.no = m
      /\ section \in Sections /\ sizes \in [Sections -> Nat]
      /\ section = g[m].sec /\ sizes = g[m].sizes
  BY <1>1, <1>2, FirstPassAt DEF AsmInv
<1>4. /\ ~IsInstr(m) /\ m \in DOMAIN program /\ program[m].cat = "alloc"
      /\ name = program[m].name /\ args = ZeroedArgs(program[m].args)
  <2>1. m # 0
    BY <1>1, <1>3, WrittenFacts
  <2> QED BY <1>1, <1>3, <2>1, WrittenFacts
<1>5. CASE AllocFault(name, args) # "none"
  BY <1>5, FailKeeps DEF MeasureAlloc
<1>6. CASE AllocFault(name, args) = "none"
  <2>1. Measure(PaddingBefore(loc, name), Len(AllocBlock(loc, name, args, 0)))
    BY <1>6 DEF MeasureAlloc
  <2>2. name \in Directives /\ AreOperands(args)
    BY <1>3, <1>4, SourceFacts, ZeroedOperands
  <2>3. loc \in Nat
    BY <1>3
  <2>4. Len(AllocBlock(loc, name, args, 0)) = BlockLength(loc, name, args)
    BY <1>6, <2>2, <2>3, BlockShape
  <2>5. PaddingBefore(loc, name) \in Nat
    <3>1. CASE name = "align"
      BY <3>1 DEF PaddingBefore
    <3>2. CASE name # "align"
      <4>1. ItemSize(name) \in {1, 2, 4, 8}
        BY <2>2, <3>2, ItemSizes
      <4> QED BY <2>3, <3>2, <4>1, PaddingRange DEF PaddingBefore
    <3> QED BY <3>1, <3>2
  <2>6. Sound(m) /\ Measured(m) /\ IsItem(program[m])
    BY <1>4, <1>6 DEF Sound, Measured, IsItem
  <2>7. Len(AllocBlock(loc, name, args, 0)) = Growth(m, g[m])
    BY <1>3, <1>4, <2>4, <2>6 DEF Growth
  <2> HIDE DEF name, args, loc
  <2>8. PaddingBefore(loc, name) = PaddingBefore(sizes[section], program[m].name)
    BY <1>4 DEF loc
  <2>9. PICK pad \in Nat : pad = PaddingBefore(loc, name)
    BY <2>5
  <2> QED BY <1>1, <1>2, <2>1, <2>6, <2>7, <2>8, <2>9, MeasureKeeps
<1> QED BY <1>5, <1>6

LEMMA MeasureInstrKeeps ==
  ASSUME AsmInv, MeasureInstr
  PROVE  AsmInv'
<1>1. /\ phase = "labels" /\ at <= Len(lines) /\ Current.cat = "instr"
      /\ Measure(0, InstrSize(Current.name, Current.args))
  BY DEF MeasureInstr, Reading
<1>2. PICK g, m : FirstPass(g, m)
  BY <1>1 DEF AsmInv
<1>3. IsProgram(program) /\ Written(Current) /\ Current.no = m
  BY <1>1, <1>2, FirstPassAt DEF AsmInv
<1>4. /\ IsInstr(m) /\ ~Measured(m) /\ Sound(m)
      /\ m # 0 => IsItem(program[m])
      /\ InstrSize(Current.name, Current.args) = Growth(m, g[m])
  BY <1>1, <1>3, WrittenFacts DEF Growth, Measured, Sound, IsItem, IsInstr
<1> QED BY <1>1, <1>2, <1>4, MeasureKeeps

(* A line that is no item. *)
LEMMA SkipKeeps ==
  ASSUME AsmInv, phase = "labels", NEW g, NEW m, FirstPass(g, m), at <= Len(lines),
         m \in DOMAIN program, ~IsItem(program[m]),
         \/ pending' = pending /\ program[m].cat # "label"
         \/ /\ program[m].cat = "label" /\ program[m].name \notin DOMAIN labels
            /\ pending' = pending \union {program[m].name},
         at' = at + 1, UNCHANGED <<program, sizes, labels, lines, layout, phase>>,
         section' = IF program[m].cat = "section" THEN program[m].name ELSE section
  PROVE  AsmInv'
<1>1. /\ IsProgram(program)
      /\ m \in 0 .. Len(program) /\ Len(program) \in Nat
      /\ section \in Sections /\ sizes \in [Sections -> Nat]
      /\ section = g[m].sec /\ sizes = g[m].sizes
      /\ Follows(g, m) /\ LabelsInv(g, m)
  BY FirstPassAt DEF AsmInv, FirstPass
<1>2. ~IsInstr(m) /\ ~Measured(m) /\ Sound(m)
  <2>1. m # 0
    BY <1>1, SourceFacts, SMT
  <2> QED BY <2>1 DEF IsInstr, Measured, Sound, IsItem
<1>3. PICK h : /\ Follows(h, m + 1) /\ h[m + 1] = After(m, g[m])
               /\ \A q \in 0 .. m : h[q] = g[q]
  BY <1>1, <1>2, WalkOn
<1>4. h[m + 1] = [sec |-> section', sizes |-> sizes']
  <2>1. Growth(m, g[m]) = 0
    BY <1>2 DEF Growth
  <2>2. [sizes EXCEPT ![section] = @ + 0] = sizes
    <3>1. sizes[section] + 0 = sizes[section]
      BY <1>1, SMT
    <3> QED BY <1>1, <3>1
  <2> QED BY <1>1, <1>2, <1>3, <2>1, <2>2 DEF After
<1>5. LabelsInv(h, m + 1)'
  BY <1>1, <1>3, LabelsWait
<1>6. FirstPass(h, m + 1)'
  BY <1>1, <1>3, <1>4, <1>5, FirstPassOn
<1> QED BY <1>1, <1>6 DEF AsmInv

LEMMA SkipsKeep ==
  ASSUME AsmInv, phase = "labels", EnterSection \/ DefineLabel \/ MeasureOther
  PROVE  AsmInv'
<1>1. CASE EnterSection
  <2>1. /\ at <= Len(lines) /\ Current.cat = "section" /\ section' = Current.name
        /\ at' = at + 1 /\ pending' = pending
        /\ UNCHANGED <<program, sizes, labels, lines, layout, phase>>
    BY <1>1 DEF EnterSection, Reading, mapVars, textVars, outVars
  <2>2. PICK g, m : FirstPass(g, m)
    BY DEF AsmInv
  <2>3. IsProgram(program) /\ Written(Current) /\ Current.no = m
    BY <2>1, <2>2, FirstPassAt DEF AsmInv
  <2>4. /\ m \in DOMAIN program /\ program[m].cat = "section"
        /\ Current.name = program[m].name
    BY <2>1, <2>3, WrittenFacts
  <2> QED BY <2>1, <2>2, <2>4, SkipKeeps DEF IsItem
<1>2. CASE DefineLabel
  <2>1. at <= Len(lines) /\ Current.cat = "label"
    BY <1>2 DEF DefineLabel, Reading
  <2>2. PICK g, m : FirstPass(g, m)
    BY DEF AsmInv
  <2>3. IsProgram(program) /\ Written(Current) /\ Current.no = m
    BY <2>1, <2>2, FirstPassAt DEF AsmInv
  <2>4. /\ m \in DOMAIN program /\ program[m].cat = "label"
        /\ Current.name = program[m].name
    BY <2>1, <2>3, WrittenFacts
  <2>5. CASE Current.name \in DOMAIN labels \union pending
    BY <1>2, <2>5, FailKeeps DEF DefineLabel
  <2>6. CASE Current.name \notin DOMAIN labels \union pending
    <3>1. /\ pending' = pending \union {Current.name} /\ at' = at + 1
          /\ UNCHANGED <<program, sizes, labels, lines, layout, phase, section>>
      BY <1>2, <2>6 DEF DefineLabel, NextLine, textVars, outVars
    <3> QED BY <2>1, <2>2, <2>4, <2>6, <3>1, SkipKeeps DEF IsItem
  <2> QED BY <2>5, <2>6
<1>3. CASE MeasureOther
  <2>1. /\ at <= Len(lines) /\ Current.cat = "other" /\ section' = section
        /\ at' = at + 1 /\ pending' = pending
        /\ UNCHANGED <<program, sizes, labels, lines, layout, phase>>
    BY <1>3 DEF MeasureOther, Reading, NextLine, mapVars, textVars, outVars
  <2>2. PICK g, m : FirstPass(g, m)
    BY DEF AsmInv
  <2>3. IsProgram(program) /\ Written(Current) /\ Current.no = m
    BY <2>1, <2>2, FirstPassAt DEF AsmInv
  <2>4. m \in DOMAIN program /\ program[m].cat = "other"
    BY <2>1, <2>3, WrittenFacts
  <2> QED BY <2>1, <2>2, <2>4, SkipKeeps DEF IsItem
<1> QED BY <1>1, <1>2, <1>3

-----------------------------------------------------------------------------
(* The second pass. *)

LEMMA MeasuredStays ==
  ASSUME NEW g, MeasuredInv(g), program' = program, labels' = labels,
         pending' = pending, sizes' = sizes
  PROVE  MeasuredInv(g)'
<1>1. Follows(g, Len(program) + 1)'
  BY DEF MeasuredInv, Follows, Walks, After, Growth, Measured, IsInstr, SizeOf, Sound
<1>2. LabelsInv(g, Len(program) + 1)'
  BY DEF MeasuredInv, LabelsInv, LabelsPlaced, Labelled, IsItem, AddressOf, Measured,
         IsInstr
<1> QED BY <1>1, <1>2 DEF MeasuredInv

LEMMA LinesStay ==
  ASSUME NEW a, LinesInv(a), program' = program, lines' = lines
  PROVE  LinesInv(a)'
  BY DEF LinesInv, Expanded, Written, IsInstr, SizeOf, Ends, Continues, NoAt, JumpToMain,
         MangledMain, Sequence, Elements

LEMMA StartExpandingKeeps ==
  ASSUME AsmInv, StartExpanding
  PROVE  AsmInv'
<1>1. /\ phase = "labels" /\ at > Len(lines) /\ phase' = "pseudo" /\ at' = 1
      /\ UNCHANGED <<program, sizes, pending, labels, layout>>
      /\ lines' = lines \/ lines' = [lines EXCEPT ![1] = JumpToMain]
  BY DEF StartExpanding, AllRead, mapVars, outVars
<1>2. PICK g, m : FirstPass(g, m)
  BY <1>1 DEF AsmInv
<1>3. IsProgram(program) /\ program' = program
  BY <1>1 DEF AsmInv
<1>4. /\ Len(program) \in Nat /\ Sequence(lines) /\ Len(lines) = Len(program) + 1
      /\ DOMAIN lines = 1 .. Len(program) + 1
      /\ \A i \in DOMAIN lines : lines[i].no = i - 1 /\ Written(lines[i])
  BY <1>2, <1>3, LenProperties, ProgramFacts DEF FirstPass, Sequence
<1>5. m = Len(program) + 1
  BY <1>1, <1>2, <1>4, SMT DEF FirstPass
<1>6. MeasuredInv(g)'
  <2>1. MeasuredInv(g)
    BY <1>2, <1>5 DEF FirstPass, MeasuredInv
  <2> QED BY <1>1, <2>1, MeasuredStays
<1>7. /\ Sequence(lines') /\ Len(lines') = Len(program) + 1
      /\ DOMAIN lines' = 1 .. Len(program) + 1
      /\ \A i \in DOMAIN lines' : lines'[i].no = i - 1 /\ Written(lines'[i])
  <2>1. CASE lines' = lines
    BY <1>4, <2>1
  <2>2. CASE lines' = [lines EXCEPT ![1] = JumpToMain]
    <3>1. DOMAIN lines' = DOMAIN lines /\ lines' = [i \in DOMAIN lines |-> lines'[i]]
      BY <2>2
    <3>2. Sequence(lines') /\ Len(lines') = Len(program) + 1
      BY <1>4, <3>1, FunctionIsSequence, SMT
    <3>3. 1 \in DOMAIN lines
      BY <1>4, SMT
    <3>4. lines'[1] = JumpToMain /\ \A i \in DOMAIN lines \ {1} : lines'[i] = lines[i]
      BY <2>2, <3>3
    <3>5. JumpToMain.no = 0
      BY DEF JumpToMain, Line, LineFrom
    <3>6. Written(JumpToMain)
      BY <3>5 DEF Written
    <3>7. lines'[1].no = 1 - 1
      BY <3>4, <3>5, SMT
    <3> QED BY <1>4, <3>1, <3>2, <3>4, <3>6, <3>7
  <2> QED BY <1>1, <2>1, <2>2
<1>8. LinesInv(1)'
  <2>1. Len(lines') > 0 /\ 1 \in DOMAIN lines'
    BY <1>4, <1>7, SMT
  <2>2. \A i \in DOMAIN lines' : lines'[i].part = 1
    BY <1>3, <1>7, WrittenFacts
  <2>3. lines'[1].no = 0 /\ lines'[1].part = 1
    BY <1>7, <2>1, <2>2, SMT
  <2>4. (\A i \in DOMAIN lines : IF i < 1 THEN Expanded(lines[i]) ELSE Written(lines[i]))'
    <3>1. \A i \in DOMAIN lines' : ~(i < 1)
      BY <1>4, <1>7, SMT
    <3> QED BY <1>3, <1>7, <3>1 DEF Written, JumpToMain, MangledMain
  <2>5. (\A i \in DOMAIN lines :
           /\ NoAt(i + 1) = lines[i].no + 1
           /\ i < Len(lines) => lines[i + 1].part = 1
           /\ i < 1 => Ends(lines[i]))'
    <3> SUFFICES ASSUME NEW i \in DOMAIN lines'
                 PROVE  /\ NoAt(i + 1)' = lines'[i].no + 1
                        /\ i < Len(lines') => lines'[i + 1].part = 1
                        /\ ~(i < 1)
      OBVIOUS
    <3>1. lines'[i].no + 1 = i /\ ~(i < 1)
      BY <1>4, <1>7, SMT
    <3>2. CASE i < Len(lines')
      <4>1. i + 1 \in DOMAIN lines' /\ i + 1 <= Len(lines') /\ (i + 1) - 1 = i
        BY <1>4, <1>7, <3>2, SMT
      <4>2. lines'[i + 1].no = (i + 1) - 1
        BY <1>7, <4>1
      <4> QED BY <2>2, <3>1, <4>1, <4>2 DEF NoAt
    <3>3. CASE ~(i < Len(lines'))
      <4>1. i = Len(program) + 1 /\ ~(i + 1 <= Len(lines'))
        BY <1>4, <1>7, <3>3, SMT
      <4> QED BY <1>3, <3>1, <3>3, <4>1 DEF NoAt
    <3> QED BY <3>2, <3>3
  <2>6. Sequence(lines)'
    BY <1>7 DEF Sequence, Elements
  <2> QED BY <2>1, <2>3, <2>4, <2>5, <2>6 DEF LinesInv
<1>9. 1 \in 1 .. Len(lines') + 1 /\ layout' = Nothing
  <2>1. layout = Nothing
    BY <1>2 DEF FirstPass
  <2> QED BY <1>1, <1>4, <1>7, <2>1, SMT DEF Nothing
<1>10. SecondPass(g, 1)'
  BY <1>1, <1>6, <1>8, <1>9 DEF SecondPass, Nothing
<1> QED BY <1>1, <1>3, <1>10 DEF AsmInv

(* One element of a sequence replaced by several. *)
Spliced(s, a, t) == SubSeq(s, 1, a - 1) \o t \o SubSeq(s, a + 1, Len(s))

LEMMA SpliceFacts ==
  ASSUME NEW s, Sequence(s), NEW a \in DOMAIN s, NEW t, Sequence(t)
  PROVE  LET u == Spliced(s, a, t)
         IN  /\ Sequence(u) /\ Len(u) = Len(s) + Len(t) - 1
             /\ \A i \in 1 .. a - 1 : u[i] = s[i]
             /\ \A k \in 1 .. Len(t) : u[a - 1 + k] = t[k]
             /\ \A j \in a + 1 .. Len(s) : u[j + Len(t) - 1] = s[j]
<1> DEFINE x == SubSeq(s, 1, a - 1)
           y == SubSeq(s, a + 1, Len(s))
           E == Elements(s)
           n == Len(t)
           L == Len(s)
<1>1. L \in Nat /\ DOMAIN s = 1 .. L /\ n \in Nat /\ DOMAIN t = 1 .. n /\ a \in 1 .. L
  BY LenProperties DEF Sequence
<1>2. \A i \in 1 .. L : s[i] \in E
  BY <1>1 DEF Elements
<1>3. /\ x \in Seq(E) /\ Len(x) = a - 1
      /\ \A i \in 1 .. a - 1 : x[i] = s[i]
  <2>1. /\ 1 \in Int /\ a - 1 \in Int
        /\ \A i \in 1 .. a - 1 : i \in 1 .. L
    BY <1>1, SMT
  <2>2. \A i \in 1 .. a - 1 : s[i] \in E
    BY <1>2, <2>1
  <2> HIDE DEF E
  <2>3. /\ x \in Seq(E)
        /\ Len(x) = IF 1 <= a - 1 THEN a - 1 - 1 + 1 ELSE 0
        /\ \A i \in 1 .. a - 1 - 1 + 1 : x[i] = s[1 + i - 1]
    BY <2>1, <2>2, SubSeqProperties
  <2> HIDE DEF x
  <2>4. \A i \in 1 .. a - 1 : i \in 1 .. a - 1 - 1 + 1 /\ 1 + i - 1 = i
    BY <1>1, SMT
  <2>5. Len(x) = a - 1
    BY <1>1, <2>3, SMT
  <2> QED BY <2>3, <2>4, <2>5
<1>4. /\ y \in Seq(E) /\ Len(y) = L - a
      /\ \A i \in 1 .. L - a : y[i] = s[a + i]
  <2>1. /\ a + 1 \in Int /\ L \in Int
        /\ \A i \in a + 1 .. L : i \in 1 .. L
    BY <1>1, SMT
  <2>2. \A i \in a + 1 .. L : s[i] \in E
    BY <1>2, <2>1
  <2> HIDE DEF E, L
  <2>3. /\ SubSeq(s, a + 1, L) \in Seq(E)
        /\ Len(SubSeq(s, a + 1, L)) = IF a + 1 <= L THEN L - (a + 1) + 1 ELSE 0
        /\ \A i \in 1 .. L - (a + 1) + 1 : SubSeq(s, a + 1, L)[i] = s[a + 1 + i - 1]
    BY <2>1, <2>2, SubSeqProperties
  <2>4. y = SubSeq(s, a + 1, L)
    BY DEF L
  <2> HIDE DEF y
  <2>5. \A i \in 1 .. L - a : i \in 1 .. L - (a + 1) + 1 /\ a + 1 + i - 1 = a + i
    BY <1>1, SMT
  <2>6. (IF a + 1 <= L THEN L - (a + 1) + 1 ELSE 0) = L - a
    BY <1>1, SMT
  <2> QED BY <2>3, <2>4, <2>5, <2>6
<1>5. Sequence(x) /\ Sequence(y)
  BY <1>3, <1>4, SequenceOf
<1> HIDE DEF x, y, E
<1>6. /\ Sequence(x \o t) /\ Len(x \o t) = a - 1 + n
      /\ \A i \in 1 .. a - 1 : (x \o t)[i] = x[i]
      /\ \A k \in 1 .. n : (x \o t)[a - 1 + k] = t[k]
  BY <1>3, <1>5, Joined
<1> DEFINE xt == x \o t
           v  == xt \o y
<1> HIDE DEF xt
<1>7. /\ Sequence(v) /\ Len(v) = a - 1 + n + (L - a)
      /\ DOMAIN v = 1 .. a - 1 + n + (L - a)
      /\ \A k \in 1 .. a - 1 + n : v[k] = xt[k]
      /\ \A k \in 1 .. L - a : v[a - 1 + n + k] = y[k]
  <2>1. Sequence(xt) /\ Len(xt) = a - 1 + n
    BY <1>6 DEF xt
  <2>2. /\ Sequence(v) /\ Len(v) = Len(xt) + Len(y) /\ DOMAIN v = 1 .. Len(xt) + Len(y)
        /\ \A k \in 1 .. Len(xt) : v[k] = xt[k]
        /\ \A k \in 1 .. Len(y) : v[Len(xt) + k] = y[k]
    BY <1>5, <2>1, Joined
  <2> HIDE DEF v, n, L
  <2> QED BY <1>4, <2>1, <2>2
<1> HIDE DEF v
<1>8. a - 1 + n + (L - a) = L + n - 1
  BY <1>1, SMT
<1>9. \A i \in 1 .. a - 1 : v[i] = s[i]
  <2>1. \A i \in 1 .. a - 1 : i \in 1 .. a - 1 + n
    BY <1>1, SMT
  <2> QED BY <1>3, <1>6, <1>7, <2>1 DEF xt
<1>10. \A k \in 1 .. n : v[a - 1 + k] = t[k]
  <2>1. \A k \in 1 .. n : a - 1 + k \in 1 .. a - 1 + n
    BY <1>1, SMT
  <2> QED BY <1>6, <1>7, <2>1 DEF xt
<1>11. ASSUME NEW j \in a + 1 .. L PROVE v[j + n - 1] = s[j]
  <2>1. /\ j - a \in 1 .. L - a
        /\ a - 1 + n + (j - a) = j + n - 1 /\ a + (j - a) = j
    BY <1>1, SMT
  <2> QED BY <1>4, <1>7, <2>1
<1> QED BY <1>1, <1>7, <1>8, <1>9, <1>10, <1>11 DEF v, xt, x, y, Spliced

LEMMA KeepLineKeeps ==
  ASSUME AsmInv, KeepLine
  PROVE  AsmInv'
<1>1. /\ phase = "pseudo" /\ at <= Len(lines) /\ at' = at + 1
      /\ ~(Current.cat = "instr" /\ IsPseudo(Current.name, Current.args))
      /\ UNCHANGED <<program, phase, lines, labels, pending, sizes, layout>>
  BY DEF KeepLine, Reading, NextLine, mapVars, textVars, outVars
<1>2. PICK g, a : SecondPass(g, a)
  BY <1>1 DEF AsmInv
<1>3. IsProgram(program)
  BY DEF AsmInv
<1>4. /\ MeasuredInv(g) /\ LinesInv(a) /\ layout = Nothing /\ at = a
      /\ DOMAIN lines = 1 .. Len(lines) /\ Len(lines) \in Nat /\ a \in 1 .. Len(lines) + 1
  BY <1>2, LenProperties DEF SecondPass, LinesInv, Sequence
<1>5. a \in DOMAIN lines /\ a + 1 \in 1 .. Len(lines) + 1 /\ ~(a < a)
  BY <1>1, <1>4, SMT
<1>6. /\ Written(lines[a])
      /\ ~(lines[a].cat = "instr" /\ IsPseudo(lines[a].name, lines[a].args))
  BY <1>1, <1>4, <1>5 DEF LinesInv, Current
<1>7. Expanded(lines[a]) /\ Ends(lines[a])
  <2>1. /\ lines[a].no \in 0 .. Len(program) /\ lines[a].part = 1
        /\ IsInstr(lines[a].no) <=> lines[a].cat = "instr"
        /\ IsInstr(lines[a].no) =>
             InstrSize(lines[a].name, lines[a].args) = SizeOf(lines[a].no)
    BY <1>3, <1>6, WrittenFacts
  <2>2. IsInstr(lines[a].no) => SizeOf(lines[a].no) = 4
    BY <1>6, <2>1, PlainSize
  <2> QED BY <1>6, <2>1, <2>2, SMT DEF Expanded, Ends
<1>8. LinesInv(a + 1)
  <2>1. \A i \in DOMAIN lines : i < a + 1 <=> i < a \/ i = a
    BY <1>4, SMT
  <2>2. \A i \in DOMAIN lines : IF i < a + 1 THEN Expanded(lines[i]) ELSE Written(lines[i])
    BY <1>4, <1>7, <2>1 DEF LinesInv
  <2>3. \A i \in DOMAIN lines : i + 1 < a => i + 1 < a + 1
    BY <1>4, SMT
  <2>4. \A i \in DOMAIN lines :
          \/ i + 1 < a + 1 /\ i < Len(lines) /\ Continues(lines[i], lines[i + 1])
          \/ /\ NoAt(i + 1) = lines[i].no + 1
             /\ i < Len(lines) => lines[i + 1].part = 1
             /\ i < a + 1 => Ends(lines[i])
    BY <1>4, <1>7, <2>1, <2>3 DEF LinesInv
  <2> QED BY <1>4, <2>2, <2>4 DEF LinesInv
<1>9. PICK b : b = a + 1
  OBVIOUS
<1>10. MeasuredInv(g)' /\ LinesInv(b)'
  BY <1>1, <1>4, <1>8, <1>9, MeasuredStays, LinesStay
<1>11. SecondPass(g, b)'
  BY <1>1, <1>4, <1>5, <1>9, <1>10 DEF SecondPass, Nothing
<1> QED BY <1>1, <1>3, <1>11 DEF AsmInv

LEMMA WrittenShape ==
  ASSUME IsProgram(program), NEW l, Written(l)
  PROVE  l = [cat |-> l.cat, name |-> l.name, args |-> l.args, file |-> l.file,
              src |-> l.src, no |-> l.no, part |-> l.part]
<1>1. CASE l = Line("instr", "nop", <<>>) \/ l = JumpToMain
  BY <1>1 DEF Line, LineFrom, JumpToMain
<1>2. CASE l.no \in DOMAIN program /\ l = [program[l.no] EXCEPT !.no = l.no]
  BY <1>2, ProgramFacts, Renumbered
<1> QED BY <1>1, <1>2 DEF Written

(* The lines that replace a pseudo instruction. *)
LEMMA ReplacementFacts ==
  ASSUME IsProgram(program), NEW l, Written(l), l.cat = "instr",
         IsPseudo(l.name, l.args)
  PROVE  LET t == ReplacementLines(l)
         IN  /\ Sequence(t) /\ Len(t) \in {1, 2} /\ 4 * Len(t) = SizeOf(l.no)
             /\ IsInstr(l.no)
             /\ \A k \in 1 .. Len(t) :
                  t[k].no = l.no /\ t[k].part = k /\ t[k].cat = "instr"
<1> DEFINE t == ReplacementLines(l)
           r == Replacement(l.name, l.args)
<1>1. IsInstr(l.no) /\ InstrSize(l.name, l.args) = SizeOf(l.no)
  BY WrittenFacts
<1>2. PICK n \in {1, 2} : DOMAIN r = 1 .. n /\ 4 * n = SizeOf(l.no)
  BY <1>1, ReplacementCount
<1>3. t = [k \in 1 .. n |-> [l EXCEPT !.name = r[k][1], !.args = r[k][2], !.part = k]]
  BY <1>2 DEF ReplacementLines
<1>4. l = [cat |-> l.cat, name |-> l.name, args |-> l.args, file |-> l.file,
           src |-> l.src, no |-> l.no, part |-> l.part]
  BY WrittenShape
<1> HIDE DEF r
<1> HIDE DEF t
<1>5. ASSUME NEW k \in 1 .. n
      PROVE  t[k].no = l.no /\ t[k].part = k /\ t[k].cat = "instr"
  <2>1. t[k] = [l EXCEPT !.name = r[k][1], !.args = r[k][2], !.part = k]
    BY <1>3, Zenon
  <2>2. PICK x, y, c : c = t[k] /\ x = r[k][1] /\ y = r[k][2]
    OBVIOUS
  <2>3. c = [l EXCEPT !.name = x, !.args = y, !.part = k]
    BY <2>1, <2>2
  <2>4. c.no = l.no /\ c.part = k /\ c.cat = l.cat
    BY <1>4, <2>3
  <2> QED BY <2>2, <2>4
<1>6. n \in Nat /\ t = [k \in 1 .. n |-> t[k]]
  <2>1. t = [k \in 1 .. n |-> t[k]]
    BY <1>3, Zenon
  <2> QED BY <2>1
<1>7. Sequence(t) /\ Len(t) = n
  BY <1>6, FunctionIsSequence
<1> QED BY <1>1, <1>2, <1>5, <1>7 DEF t

(* The lines with the pseudo instruction of line a replaced. *)
LEMMA LinesSpliced ==
  ASSUME IsProgram(program), NEW a \in 1 .. Len(lines), LinesInv(a),
         NEW t, t = ReplacementLines(lines[a]), lines[a].cat = "instr",
         IsPseudo(lines[a].name, lines[a].args),
         program' = program,
         Sequence(lines'), Len(lines') = Len(lines) + Len(t) - 1,
         \A i \in 1 .. a - 1 : lines'[i] = lines[i],
         \A k \in 1 .. Len(t) : lines'[a - 1 + k] = t[k],
         \A j \in a + 1 .. Len(lines) : lines'[j + Len(t) - 1] = lines[j],
         NEW b, b = a + Len(t)
  PROVE  LinesInv(b)' /\ b \in 1 .. Len(lines') + 1
<1> DEFINE cur == lines[a]
           L   == Len(lines)
           n   == Len(t)
<1>1. Sequence(lines) /\ Written(cur) /\ ~(a < a)
  <2>1. DOMAIN lines = 1 .. L
    BY LenProperties DEF LinesInv, Sequence
  <2>2. ~(a < a)
    BY <2>1, SMT
  <2> QED BY <2>2 DEF LinesInv
<1>2. /\ Sequence(t) /\ n \in {1, 2} /\ 4 * n = SizeOf(cur.no) /\ IsInstr(cur.no)
      /\ \A k \in 1 .. n : t[k].no = cur.no /\ t[k].part = k /\ t[k].cat = "instr"
      /\ cur.no \in 0 .. Len(program) /\ cur.part = 1
  BY <1>1, ReplacementFacts, WrittenFacts
<1>3. /\ Sequence(lines') /\ L \in Nat /\ DOMAIN lines = 1 .. L
      /\ Len(lines') = L + n - 1 /\ DOMAIN lines' = 1 .. L + n - 1
      /\ \A i \in 1 .. a - 1 : lines'[i] = lines[i]
      /\ \A k \in 1 .. n : lines'[a - 1 + k] = t[k]
      /\ \A j \in a + 1 .. L : lines'[j + n - 1] = lines[j]
  <2>1. L \in Nat /\ DOMAIN lines = 1 .. L /\ DOMAIN lines' = 1 .. Len(lines')
    BY <1>1, LenProperties DEF Sequence
  <2> QED BY <2>1
<1> HIDE DEF L, n
<1>a. n \in Nat /\ 1 <= n /\ n <= 2 /\ L \in Nat /\ a \in 1 .. L /\ b = a + n
  <2>1. n \in {1, 2} /\ L \in Nat /\ a \in 1 .. L /\ b = a + n
    BY <1>2, <1>3 DEF n, L
  <2> QED BY <2>1, SMT
<1>4. /\ \A i \in 1 .. L : IF i < a THEN Expanded(lines[i]) ELSE Written(lines[i])
      /\ \A i \in 1 .. L :
           \/ i + 1 < a /\ i < L /\ Continues(lines[i], lines[i + 1])
           \/ /\ NoAt(i + 1) = lines[i].no + 1
              /\ i < L => lines[i + 1].part = 1
              /\ i < a => Ends(lines[i])
      /\ lines[1].no = 0 /\ lines[1].part = 1
  BY <1>3 DEF LinesInv, L
<1>5. \A k \in 1 .. n : Expanded(t[k])
  <2>1. \A k \in 1 .. n : k \in {1, 2} /\ 4 * k <= 4 * n
    BY <1>a, SMT
  <2> QED BY <1>2, <2>1 DEF Expanded
<1>6. Ends(t[n])
  <2>1. n \in 1 .. n
    BY <1>a, SMT
  <2> QED BY <1>2, <2>1 DEF Ends
<1>7. ASSUME NEW i \in 1 .. L + n - 1
      PROVE  IF i < b THEN Expanded(lines'[i]) ELSE Written(lines'[i])
  <2>1. CASE i < a
    <3>1. i \in 1 .. a - 1 /\ i \in 1 .. L /\ i < b
      BY <1>a, <2>1, SMT
    <3> QED BY <1>3, <1>4, <2>1, <3>1
  <2>2. CASE a <= i /\ i < b
    <3> DEFINE k == i - a + 1
    <3>1. k \in 1 .. n /\ a - 1 + k = i
      BY <1>a, <2>2, SMT
    <3> QED BY <1>3, <1>5, <2>2, <3>1
  <2>3. CASE b <= i
    <3> DEFINE j == i - n + 1
    <3>1. j \in a + 1 .. L /\ j + n - 1 = i /\ j \in 1 .. L /\ ~(j < a) /\ ~(i < b)
      BY <1>a, <2>3, SMT
    <3>2. Written(lines[j])
      BY <1>4, <3>1
    <3> QED BY <1>3, <3>1, <3>2
  <2>4. i < a \/ (a <= i /\ i < b) \/ b <= i
    BY <1>a, SMT
  <2> QED BY <2>1, <2>2, <2>3, <2>4
<1> DEFINE NoAfter(i) == IF i + 1 <= L + n - 1 THEN lines'[i + 1].no ELSE Len(program) + 1
<1>8. ASSUME NEW i \in 1 .. L + n - 1
      PROVE  \/ i + 1 < b /\ i < L + n - 1 /\ Continues(lines'[i], lines'[i + 1])
             \/ /\ NoAfter(i) = lines'[i].no + 1
                /\ i < L + n - 1 => lines'[i + 1].part = 1
                /\ i < b => Ends(lines'[i])
  <2>1. CASE i + 1 < a
    <3>1. /\ i \in 1 .. a - 1 /\ i + 1 \in 1 .. a - 1 /\ i \in 1 .. L
          /\ i + 1 < b /\ i < L + n - 1 /\ i < L /\ i < a
          /\ i + 1 <= L + n - 1 /\ i + 1 <= L
      BY <1>a, <2>1, SMT
    <3>2. lines'[i] = lines[i] /\ lines'[i + 1] = lines[i + 1]
      BY <1>3, <3>1
    <3>3. NoAt(i + 1) = lines[i + 1].no /\ NoAfter(i) = lines'[i + 1].no
      BY <3>1 DEF NoAt, L
    <3> HIDE DEF NoAfter
    <3> QED BY <1>4, <3>1, <3>2, <3>3
  <2>2. CASE i + 1 = a
    <3>1. /\ i \in 1 .. a - 1 /\ 1 \in 1 .. n /\ a - 1 + 1 = a /\ i \in 1 .. L
          /\ i + 1 <= L + n - 1 /\ i + 1 <= L /\ i < a /\ ~(i + 1 < a)
      BY <1>a, <2>2, SMT
    <3>2. lines'[i] = lines[i] /\ lines'[i + 1] = t[1]
      BY <1>3, <2>2, <3>1
    <3>3. NoAt(i + 1) = cur.no /\ NoAfter(i) = cur.no /\ lines'[i + 1].part = 1
      <4>1. t[1].no = cur.no /\ t[1].part = 1
        BY <1>2, <3>1 DEF n
      <4>2. NoAt(i + 1) = lines[a].no
        BY <2>2, <3>1 DEF NoAt, L
      <4>3. NoAfter(i) = lines'[i + 1].no
        BY <3>1
      <4> QED BY <3>2, <4>1, <4>2, <4>3
    <3> HIDE DEF NoAfter, cur
    <3> QED BY <1>4, <3>1, <3>2, <3>3
  <2>3. CASE a <= i /\ i + 1 < b
    <3> DEFINE k == i - a + 1
    <3>1. /\ k \in 1 .. n /\ k + 1 \in 1 .. n /\ a - 1 + k = i /\ a - 1 + (k + 1) = i + 1
          /\ i < L + n - 1
      BY <1>a, <2>3, SMT
    <3>2. lines'[i] = t[k] /\ lines'[i + 1] = t[k + 1]
      BY <1>3, <3>1
    <3>3. Continues(t[k], t[k + 1])
      BY <1>2, <3>1 DEF Continues, n
    <3> QED BY <2>3, <3>1, <3>2, <3>3
  <2>4. CASE i + 1 = b
    <3>1. /\ n \in 1 .. n /\ a - 1 + n = i /\ ~(a + 1 < a)
      BY <1>a, <2>4, SMT
    <3>2. lines'[i] = t[n] /\ lines'[i].no = cur.no
      BY <1>2, <1>3, <3>1 DEF n
    <3>3. NoAt(a + 1) = cur.no + 1 /\ (a < L => lines[a + 1].part = 1)
      BY <1>a, <1>4, <3>1
    <3>4. CASE a < L
      <4>1. /\ a + 1 \in a + 1 .. L /\ (a + 1) + n - 1 = i + 1 /\ a + 1 <= L
            /\ i + 1 <= L + n - 1
        BY <1>a, <2>4, <3>1, <3>4, SMT
      <4>2. lines'[i + 1] = lines[a + 1]
        BY <1>3, <4>1
      <4>3. NoAfter(i) = NoAt(a + 1)
        BY <4>1, <4>2 DEF NoAt, L
      <4> HIDE DEF NoAfter
      <4> QED BY <1>6, <3>2, <3>3, <3>4, <4>2, <4>3
    <3>5. CASE ~(a < L)
      <4>1. ~(i + 1 <= L + n - 1) /\ ~(a + 1 <= L) /\ ~(i < L + n - 1)
        BY <1>a, <2>4, <3>5, SMT
      <4>2. NoAfter(i) = NoAt(a + 1)
        BY <4>1 DEF NoAt, L
      <4> HIDE DEF NoAfter
      <4> QED BY <1>6, <3>2, <3>3, <4>1, <4>2
    <3> QED BY <3>4, <3>5
  <2>5. CASE b < i + 1
    <3> DEFINE j == i - n + 1
    <3>1. /\ j \in a + 1 .. L /\ j + n - 1 = i /\ j \in 1 .. L /\ ~(j < a)
          /\ ~(j + 1 < a) /\ ~(i < b) /\ (i < L + n - 1 <=> j < L)
      BY <1>a, <2>5, SMT
    <3>2. lines'[i] = lines[j]
      BY <1>3, <3>1
    <3>3. NoAt(j + 1) = lines[j].no + 1 /\ (j < L => lines[j + 1].part = 1)
      BY <1>4, <3>1
    <3>4. CASE j < L
      <4>1. /\ j + 1 \in a + 1 .. L /\ (j + 1) + n - 1 = i + 1 /\ j + 1 <= L
            /\ i + 1 <= L + n - 1
        BY <1>a, <2>5, <3>1, <3>4, SMT
      <4>2. lines'[i + 1] = lines[j + 1]
        BY <1>3, <4>1
      <4>3. NoAfter(i) = NoAt(j + 1)
        BY <4>1, <4>2 DEF NoAt, L
      <4> HIDE DEF NoAfter, j
      <4> QED BY <3>1, <3>2, <3>3, <3>4, <4>2, <4>3
    <3>5. CASE ~(j < L)
      <4>1. ~(i + 1 <= L + n - 1) /\ ~(j + 1 <= L)
        BY <1>a, <2>5, <3>1, <3>5, SMT
      <4>2. NoAfter(i) = NoAt(j + 1)
        BY <4>1 DEF NoAt, L
      <4> HIDE DEF NoAfter, j
      <4> QED BY <3>1, <3>2, <3>3, <3>5, <4>2
    <3> QED BY <3>4, <3>5
  <2>6. i + 1 < a \/ i + 1 = a \/ (a <= i /\ i + 1 < b) \/ i + 1 = b \/ b < i + 1
    BY <1>a, SMT
  <2> QED BY <2>1, <2>2, <2>3, <2>4, <2>5, <2>6
<1>9x. Len(lines') = L + n - 1
  BY <1>3
<1>9. Len(lines') > 0 /\ b \in 1 .. Len(lines') + 1
  <2>1. L + n - 1 > 0 /\ b \in 1 .. L + n - 1 + 1
    BY <1>a, SMT
  <2> QED BY <1>9x, <2>1
<1>10. lines'[1].no = 0 /\ lines'[1].part = 1
  <2>1. CASE a = 1
    <3>1. 1 \in 1 .. n /\ a - 1 + 1 = 1
      BY <1>a, <2>1, SMT
    <3>2. lines'[1] = t[1] /\ cur.no = 0
      BY <1>3, <1>4, <2>1, <3>1
    <3> QED BY <1>2, <3>1, <3>2 DEF n
  <2>2. CASE a # 1
    <3>1. 1 \in 1 .. a - 1
      BY <1>a, <2>2, SMT
    <3> QED BY <1>3, <1>4, <3>1
  <2> QED BY <2>1, <2>2
<1>11. (\A i \in DOMAIN lines : IF i < b THEN Expanded(lines[i]) ELSE Written(lines[i]))'
  BY <1>3, <1>7 DEF Expanded, Written, IsInstr, SizeOf, JumpToMain, MangledMain
<1>12. (\A i \in DOMAIN lines :
          \/ i + 1 < b /\ i < Len(lines) /\ Continues(lines[i], lines[i + 1])
          \/ /\ NoAt(i + 1) = lines[i].no + 1
             /\ i < Len(lines) => lines[i + 1].part = 1
             /\ i < b => Ends(lines[i]))'
  <2> SUFFICES ASSUME NEW i \in DOMAIN lines'
               PROVE  \/ i + 1 < b /\ i < Len(lines') /\ Continues(lines[i], lines[i + 1])'
                      \/ /\ NoAt(i + 1)' = lines'[i].no + 1
                         /\ i < Len(lines') => lines'[i + 1].part = 1
                         /\ i < b => Ends(lines[i])'
    OBVIOUS
  <2>1. NoAt(i + 1)' = NoAfter(i)
    BY <1>3 DEF NoAt, L, n
  <2>2. Ends(lines[i])' <=> Ends(lines'[i])
    BY DEF Ends, IsInstr, SizeOf
  <2>3. Continues(lines[i], lines[i + 1])' <=> Continues(lines'[i], lines'[i + 1])
    BY DEF Continues
  <2> HIDE DEF NoAfter
  <2> QED BY <1>3, <1>8, <2>1, <2>2, <2>3 DEF L, n
<1>13. Sequence(lines)'
  BY <1>3 DEF Sequence, Elements
<1> QED BY <1>9, <1>10, <1>11, <1>12, <1>13 DEF LinesInv

LEMMA ExpandKeeps ==
  ASSUME AsmInv, Expand
  PROVE  AsmInv'
<1> DEFINE t == ReplacementLines(Current)
<1>1. /\ phase = "pseudo" /\ at <= Len(lines) /\ Current.cat = "instr"
      /\ IsPseudo(Current.name, Current.args)
  BY DEF Expand, Reading
<1>2. PICK g, a : SecondPass(g, a)
  BY <1>1 DEF AsmInv
<1>3. CASE PseudoFault(Current.name, Current.args) # "none"
  BY <1>3, FailKeeps DEF Expand
<1>4. CASE Lost
  BY <1>4 DEF AsmInv, Lost
<1>5. CASE /\ lines' = SubSeq(lines, 1, at - 1) \o t \o SubSeq(lines, at + 1, Len(lines))
           /\ at' = at + Len(t)
           /\ UNCHANGED <<program, section, mapVars, outVars, phase, reason>>
  <2>1. /\ IsProgram(program) /\ program' = program /\ phase' = "pseudo"
        /\ UNCHANGED <<labels, pending, sizes, layout>>
    BY <1>1, <1>5 DEF AsmInv, mapVars, outVars
  <2>2. /\ MeasuredInv(g) /\ LinesInv(a) /\ layout = Nothing /\ at = a
        /\ DOMAIN lines = 1 .. Len(lines) /\ Len(lines) \in Nat
        /\ a \in 1 .. Len(lines) + 1
    BY <1>2, LenProperties, ProgramFacts DEF SecondPass, LinesInv, Sequence
  <2>3. a \in DOMAIN lines /\ Current = lines[a]
    BY <1>1, <2>2, SMT DEF Current
  <2>4. PICK s, b : s = t /\ b = at + Len(t)
    OBVIOUS
  <2> HIDE DEF t
  <2>5. s = ReplacementLines(lines[a])
    BY <2>3, <2>4 DEF t
  <2>b. Written(lines[a])
    <3>1. ~(a < a)
      BY <2>2, SMT
    <3> QED BY <2>2, <2>3, <3>1 DEF LinesInv
  <2>a. Sequence(lines) /\ Sequence(s)
    BY <1>1, <2>1, <2>2, <2>3, <2>5, <2>b, ReplacementFacts DEF LinesInv
  <2>c. /\ Sequence(lines') /\ Len(lines') = Len(lines) + Len(s) - 1
        /\ \A i \in 1 .. a - 1 : lines'[i] = lines[i]
        /\ \A k \in 1 .. Len(s) : lines'[a - 1 + k] = s[k]
        /\ \A j \in a + 1 .. Len(lines) : lines'[j + Len(s) - 1] = lines[j]
    <3>1. lines' = SubSeq(lines, 1, a - 1) \o s \o SubSeq(lines, a + 1, Len(lines))
      BY <1>5, <2>2, <2>4 DEF t
    <3>2. PICK x : x = lines
      OBVIOUS
    <3>3. Sequence(x) /\ a \in DOMAIN x /\ Sequence(s)
      BY <2>3, <2>a, <3>2
    <3> DEFINE v == Spliced(x, a, s)
    <3>4. /\ Sequence(v) /\ Len(v) = Len(x) + Len(s) - 1
          /\ \A i \in 1 .. a - 1 : v[i] = x[i]
          /\ \A k \in 1 .. Len(s) : v[a - 1 + k] = s[k]
          /\ \A j \in a + 1 .. Len(x) : v[j + Len(s) - 1] = x[j]
      BY <3>3, SpliceFacts
    <3>5. lines' = v
      BY <3>1, <3>2 DEF Spliced
    <3> HIDE DEF v
    <3> QED BY <3>2, <3>4, <3>5
  <2>6. LinesInv(b)' /\ b \in 1 .. Len(lines') + 1
    BY <1>1, <2>1, <2>2, <2>3, <2>4, <2>5, <2>c, LinesSpliced
  <2>7. MeasuredInv(g)'
    BY <2>1, <2>2, MeasuredStays
  <2>8. SecondPass(g, b)'
    BY <1>5, <2>1, <2>2, <2>4, <2>6, <2>7 DEF SecondPass, Nothing
  <2> QED BY <2>1, <2>8 DEF AsmInv
<1> QED BY <1>3, <1>4, <1>5 DEF Expand

-----------------------------------------------------------------------------
(* The third pass. *)

LEMMA StartParsingKeeps ==
  ASSUME AsmInv, StartParsing
  PROVE  AsmInv'
<1>1. /\ phase = "pseudo" /\ at > Len(lines) /\ phase' = "parse" /\ at' = 1
      /\ section' = "text" /\ IsProgram(program)
      /\ UNCHANGED <<program, labels, pending, sizes, lines, layout>>
  BY DEF AsmInv, StartParsing, AllRead, mapVars, textVars, outVars
<1>2. PICK g, a : SecondPass(g, a)
  BY <1>1 DEF AsmInv
<1>3. /\ MeasuredInv(g) /\ LinesInv(a) /\ layout = Nothing /\ at = a
      /\ a \in 1 .. Len(lines) + 1 /\ Len(lines) \in Nat /\ Len(program) \in Nat
      /\ DOMAIN program = 1 .. Len(program)
  BY <1>1, <1>2, LenProperties, ProgramFacts DEF SecondPass, LinesInv, Sequence
<1>4. a = Len(lines) + 1 /\ 1 \in 1 .. Len(lines) + 1
  BY <1>1, <1>3, SMT
<1>5. MeasuredInv(g)' /\ LinesInv(Len(lines) + 1)'
  <2>1. LinesInv(a)'
    BY <1>1, <1>3, LinesStay
  <2> QED BY <1>1, <1>3, <1>4, <2>1, MeasuredStays
<1>6. lines[1].no = 0 /\ lines[1].part = 1 /\ 1 <= Len(lines)
  <2>1. lines[1].no = 0 /\ lines[1].part = 1 /\ Len(lines) > 0
    BY <1>3 DEF LinesInv
  <2> QED BY <1>3, <2>1, SMT
<1>7. NoAt(at)' = 0 /\ Inside' = 0
  <2>1. 4 * (1 - 1) = 0
    BY SMT
  <2> QED BY <1>1, <1>6, <2>1 DEF NoAt, Inside
<1>8. g[0] = [sec |-> "text", sizes |-> [s \in Sections |-> 0]]
  BY <1>3 DEF MeasuredInv, Follows
<1>9. LayoutInv(g, 0)'
  <2>1. DOMAIN layout' = Sections /\ \A s \in Sections : layout'[s] = <<>>
    BY <1>1, <1>3 DEF Nothing
  <2>2. Sequence(<<>>) /\ Len(<<>>) = 0
    <3>1. <<>> \in Seq({})
      OBVIOUS
    <3> QED BY <3>1, SequenceOf
  <2>3. (\A s \in Sections :
           /\ Sequence(layout[s])
           /\ Len(layout[s]) = g[0].sizes[s] + (IF s = section THEN Inside ELSE 0))'
    <3> SUFFICES ASSUME NEW s \in Sections
                 PROVE  /\ Sequence(layout'[s])
                        /\ Len(layout'[s]) = g[0].sizes[s]
                                             + (IF s = section' THEN Inside' ELSE 0)
      BY DEF Sequence, Elements, Sections
    <3>1. g[0].sizes[s] = 0 /\ 0 + 0 = 0
      BY <1>8, SMT
    <3> QED BY <1>7, <2>1, <2>2, <3>1
  <2> QED BY <1>1, <1>8, <2>1, <2>3 DEF LayoutInv
<1>10. PlacedInv(g, 0)'
  <2>1. \A e \in DOMAIN program' : ~(e < 0) /\ e # 0
    BY <1>1, <1>3, SMT
  <2> QED BY <2>1 DEF PlacedInv
<1>11. ItemsAligned'
  <2>1. \A s \in Sections : DOMAIN layout'[s] = {}
    BY <1>1, <1>3 DEF Nothing
  <2> QED BY <2>1 DEF ItemsAligned, Sections
<1>12. ThirdPass(g, 0)'
  BY <1>1, <1>4, <1>5, <1>7, <1>9, <1>10, <1>11 DEF ThirdPass
<1> QED BY <1>1, <1>12 DEF AsmInv

(* The line the third pass reads. *)
LEMMA ThirdPassAt ==
  ASSUME IsProgram(program), NEW g, NEW q, ThirdPass(g, q), at <= Len(lines)
  PROVE  /\ q \in 0 .. Len(program) /\ Len(program) \in Nat
         /\ DOMAIN program = 1 .. Len(program)
         /\ at \in 1 .. Len(lines) /\ Len(lines) \in Nat
         /\ Current.no = q /\ Expanded(Current) /\ Current.part \in {1, 2}
         /\ Inside = 4 * (Current.part - 1)
         /\ section = g[q].sec /\ section \in Sections
         /\ g[q].sizes \in [Sections -> Nat] /\ g[q] \in Counts
         /\ Sound(q) /\ g[q + 1] = After(q, g[q])
<1>1. /\ MeasuredInv(g) /\ LinesInv(Len(lines) + 1) /\ at \in 1 .. Len(lines) + 1
      /\ q = NoAt(at) /\ LayoutInv(g, q)
  BY DEF ThirdPass
<1>2. /\ Len(program) \in Nat /\ DOMAIN program = 1 .. Len(program)
      /\ Len(lines) \in Nat /\ DOMAIN lines = 1 .. Len(lines)
  BY <1>1, LenProperties, ProgramFacts DEF LinesInv, Sequence
<1>3. at \in 1 .. Len(lines) /\ at < Len(lines) + 1
  BY <1>1, <1>2, SMT
<1>4. Expanded(Current)
  BY <1>1, <1>2, <1>3 DEF LinesInv, Current
<1>5. Current.no = q /\ Inside = 4 * (Current.part - 1)
  BY <1>1 DEF NoAt, Current, Inside
<1>6. q \in 0 .. Len(program) /\ Current.part \in {1, 2}
  BY <1>4, <1>5 DEF Expanded
<1>7. q \in 0 .. Len(program) + 1 /\ q \in 0 .. Len(program) + 1 - 1
  BY <1>2, <1>6, SMT
<1>8. Follows(g, Len(program) + 1)
  BY <1>1 DEF MeasuredInv
<1>9. g[q] \in Counts /\ g[q].sec \in Sections /\ g[q].sizes \in [Sections -> Nat]
  BY <1>7, <1>8, CountsOnWalk
<1>10. Sound(q) /\ g[q + 1] = After(q, g[q])
  BY <1>7, <1>8 DEF Follows
<1> QED BY <1>1, <1>2, <1>3, <1>4, <1>5, <1>6, <1>9, <1>10 DEF LayoutInv

(* The next line continues an instruction, or is that of the next number. *)
LEMMA ThirdPassNext ==
  ASSUME IsProgram(program), NEW g, NEW q, ThirdPass(g, q), at <= Len(lines),
         at' = at + 1, lines' = lines, program' = program
  PROVE  /\ at' \in 1 .. Len(lines') + 1
         /\ \/ IsInstr(q) /\ Current.part = 1 /\ NoAt(at)' = q /\ Inside' = 4
            \/ NoAt(at)' = q + 1 /\ Inside' = 0 /\ Ends(Current)
<1>1. /\ at \in 1 .. Len(lines) /\ Len(lines) \in Nat
      /\ Current.no = q /\ Expanded(Current) /\ Current.part \in {1, 2}
  BY ThirdPassAt
<1>2. LinesInv(Len(lines) + 1) /\ DOMAIN lines = 1 .. Len(lines)
  BY LenProperties DEF ThirdPass, LinesInv, Sequence
<1>3. at + 1 \in 1 .. Len(lines) + 1 /\ at < Len(lines) + 1
  BY <1>1, SMT
<1>4. NoAt(at)' = NoAt(at + 1)
  BY DEF NoAt
<1>5. CASE at < Len(lines) /\ Continues(lines[at], lines[at + 1])
  <2>1. at + 1 \in 1 .. Len(lines) /\ at + 1 <= Len(lines) /\ at + 1 < Len(lines) + 1
    BY <1>1, <1>5, SMT
  <2>2. Expanded(lines[at + 1])
    BY <1>2, <2>1 DEF LinesInv
  <2>3. lines[at + 1].no = q /\ lines[at + 1].part = Current.part + 1
    BY <1>1, <1>5 DEF Continues, Current
  <2>4. lines[at + 1].part = 2 /\ Current.part = 1
    <3>1. lines[at + 1].part \in {1, 2}
      BY <2>2 DEF Expanded
    <3> QED BY <1>1, <2>3, <3>1, SMT
  <2>5. IsInstr(q)
    BY <2>2, <2>3, <2>4 DEF Expanded
  <2>6. NoAt(at + 1) = q
    BY <2>1, <2>3 DEF NoAt
  <2>7. Inside' = 4
    <3>1. Inside' = 4 * (2 - 1)
      BY <2>1, <2>4 DEF Inside
    <3> QED BY <3>1, SMT
  <2> QED BY <1>3, <1>4, <2>4, <2>5, <2>6, <2>7
<1>6. CASE /\ NoAt(at + 1) = lines[at].no + 1
           /\ at < Len(lines) => lines[at + 1].part = 1
           /\ Ends(lines[at])
  <2>1. Inside' = 0
    <3>1. CASE at + 1 <= Len(lines)
      <4>1. at < Len(lines)
        BY <1>1, <3>1, SMT
      <4>2. Inside' = 4 * (1 - 1)
        BY <1>6, <3>1, <4>1 DEF Inside
      <4> QED BY <4>2, SMT
    <3>2. CASE ~(at + 1 <= Len(lines))
      BY <3>2 DEF Inside
    <3> QED BY <3>1, <3>2
  <2> QED BY <1>1, <1>3, <1>4, <1>6, <2>1 DEF Current
<1> QED BY <1>1, <1>2, <1>3, <1>5, <1>6 DEF LinesInv

(* A block has the first byte of line q where the first pass said, and its *)
(* first items aligned, behind what its section has.                       *)
HasFirst(g, q, block) ==
  \E k \in DOMAIN block :
    /\ Offset[section] + (Len(layout[section]) + k) - 1 = AddressOf(g, q)
    /\ block[k].line = q /\ block[k].arg = 1 /\ block[k].byte = 0

IsAligned(block) ==
  \A k \in DOMAIN block :
    /\ block[k].line # 0 /\ block[k].arg = 1 /\ block[k].byte = 0
    /\ program[block[k].line].cat = "alloc"
    /\ program[block[k].line].name # "align"
    => (Offset[section] + (Len(layout[section]) + k) - 1)
         % ItemSize(program[block[k].line].name) = 0

(* The bytes the third pass lays out for a line of the expansion of q. *)
BytesOf(g, q) == IF IsInstr(q) THEN 4 ELSE Growth(q, g[q])

(* A line that is laid out. *)
LEMMA LayoutGrows ==
  ASSUME IsProgram(program), NEW g, NEW q, ThirdPass(g, q), at <= Len(lines),
         NEW block, Sequence(block), NEW info, Place(block, info),
         ~(~IsInstr(q) /\ program[q].cat = "section"),
         Len(block) = BytesOf(g, q),
         q # 0 /\ HasBytes(program[q]) /\ Current.part = 1 => HasFirst(g, q, block),
         IsAligned(block)
  PROVE  \E r : ThirdPass(g, r)'
<1> DEFINE old  == layout[section]
           part == Current.part
<1>0. /\ at' = at + 1 /\ layout' = [layout EXCEPT ![section] = @ \o block]
      /\ UNCHANGED <<program, lines, labels, pending, sizes, section>>
  BY DEF Place, NextLine, mapVars, textVars
<1>1. /\ q \in 0 .. Len(program) /\ Len(program) \in Nat
      /\ DOMAIN program = 1 .. Len(program)
      /\ Expanded(Current) /\ part \in {1, 2} /\ Current.no = q
      /\ Inside = 4 * (part - 1)
      /\ section = g[q].sec /\ section \in Sections
      /\ g[q].sizes \in [Sections -> Nat]
      /\ Sound(q) /\ g[q + 1] = After(q, g[q])
  BY ThirdPassAt
<1>2. /\ MeasuredInv(g) /\ LinesInv(Len(lines) + 1) /\ LayoutInv(g, q)
      /\ PlacedInv(g, q) /\ ItemsAligned
  BY DEF ThirdPass
<1>3. PICK r : r = NoAt(at)'
  OBVIOUS
<1>4. /\ at' \in 1 .. Len(lines') + 1
      /\ \/ IsInstr(q) /\ part = 1 /\ r = q /\ Inside' = 4
         \/ r = q + 1 /\ Inside' = 0 /\ Ends(Current)
  BY <1>0, <1>3, ThirdPassNext
<1>5. MeasuredInv(g)' /\ LinesInv(Len(lines) + 1)'
  <2>1. PICK a : a = Len(lines) + 1
    OBVIOUS
  <2>2. LinesInv(a)'
    BY <1>0, <1>2, <2>1, LinesStay
  <2> QED BY <1>0, <1>2, <2>1, <2>2, MeasuredStays
<1>6. /\ DOMAIN layout = Sections /\ DOMAIN layout' = Sections
      /\ layout'[section] = old \o block
      /\ \A s \in Sections \ {section} : layout'[s] = layout[s]
  BY <1>0, <1>1, <1>2 DEF LayoutInv
<1>7. /\ Sequence(old) /\ Len(old) = g[q].sizes[section] + Inside
      /\ \A s \in Sections \ {section} :
           Sequence(layout[s]) /\ Len(layout[s]) = g[q].sizes[s] + 0
  BY <1>1, <1>2 DEF LayoutInv
<1> HIDE DEF old
<1> DEFINE new == old \o block
<1>8. /\ Len(old) \in Nat /\ Len(block) \in Nat
      /\ DOMAIN old = 1 .. Len(old) /\ DOMAIN block = 1 .. Len(block)
  BY <1>7, LenProperties DEF Sequence
<1>b. /\ Sequence(new) /\ Len(new) = Len(old) + Len(block)
      /\ \A k \in 1 .. Len(old) : new[k] = old[k]
      /\ \A k \in 1 .. Len(block) : new[Len(old) + k] = block[k]
  <2>1. Sequence(old) /\ Sequence(block)
    BY <1>7
  <2> QED BY <2>1, JoinedCells
<1> HIDE DEF new
<1>9. /\ Sequence(new) /\ Len(new) = Len(old) + Len(block)
      /\ DOMAIN new = 1 .. Len(old) + Len(block) /\ layout'[section] = new
      /\ \A k \in 1 .. Len(old) : new[k] = old[k] /\ k \in DOMAIN new
      /\ \A k \in 1 .. Len(block) : new[Len(old) + k] = block[k] /\ Len(old) + k \in DOMAIN new
  <2>1. \A k \in 1 .. Len(old) : k \in 1 .. Len(old) + Len(block)
    BY <1>8, SMT
  <2>2. \A k \in 1 .. Len(block) : Len(old) + k \in 1 .. Len(old) + Len(block)
    BY <1>8, SMT
  <2>3. layout'[section] = new
    BY <1>6 DEF new
  <2>4. DOMAIN new = 1 .. Len(old) + Len(block)
    BY <1>b, LenProperties DEF Sequence
  <2> QED BY <1>b, <2>1, <2>2, <2>3, <2>4
<1>a. /\ Len(new) = Len(old) + Len(block) /\ Len(old) \in Nat /\ Len(block) \in Nat
      /\ g[q].sizes[section] \in Nat
  BY <1>1, <1>8, <1>9
<1>10. LayoutInv(g, r)'
  <2>1. /\ g[r].sec = section
        /\ \A s \in Sections \ {section} : g[r].sizes[s] = g[q].sizes[s]
        /\ Len(new) = g[r].sizes[section] + Inside'
    <3>1. CASE IsInstr(q) /\ part = 1 /\ r = q /\ Inside' = 4
      <4>1. Len(old) = g[q].sizes[section] + 4 * (1 - 1) /\ Len(block) = 4
        BY <1>1, <1>7, <3>1 DEF BytesOf
      <4>2. Len(new) = g[q].sizes[section] + 4
        BY <1>a, <4>1, SMT
      <4> QED BY <1>1, <3>1, <4>2
    <3>2. CASE r = q + 1 /\ Inside' = 0 /\ Ends(Current)
      <4>1. /\ g[r].sec = section
            /\ \A s \in Sections \ {section} : g[r].sizes[s] = g[q].sizes[s]
            /\ g[r].sizes[section] = g[q].sizes[section] + Growth(q, g[q])
        BY <1>1, <3>2 DEF After
      <4>2. CASE IsInstr(q)
        <5>1. /\ Growth(q, g[q]) = 4 * part /\ Len(block) = 4
              /\ Len(old) = g[q].sizes[section] + 4 * (part - 1)
          BY <1>1, <1>7, <3>2, <4>2 DEF Growth, Ends, BytesOf
        <5>2. g[q].sizes[section] \in Nat
          BY <1>1
        <5> HIDE DEF part
        <5>3. Len(new) = g[q].sizes[section] + 4 * part
          BY <1>1, <1>a, <5>1, SMT
        <5>4. g[r].sizes[section] + Inside' = g[q].sizes[section] + 4 * part
          BY <1>1, <3>2, <4>1, <5>1, <5>2, SMT
        <5> QED BY <4>1, <5>3, <5>4
      <4>3. CASE ~IsInstr(q)
        <5>1. part = 1
          BY <1>1, <4>3 DEF Expanded
        <5>2. /\ Len(old) = g[q].sizes[section] + 4 * (1 - 1)
              /\ Len(block) = Growth(q, g[q])
          BY <1>1, <1>7, <4>3, <5>1 DEF BytesOf
        <5>5. g[r].sizes[section] = g[q].sizes[section] + Growth(q, g[q])
          BY <4>1
        <5>4. Len(new) = g[r].sizes[section] + Inside'
          BY <1>a, <3>2, <5>2, <5>5, SMT
        <5> QED BY <4>1, <5>4
      <4> QED BY <4>2, <4>3
    <3> QED BY <1>4, <3>1, <3>2
  <2>2. (\A s \in Sections :
           /\ Sequence(layout[s])
           /\ Len(layout[s]) = g[r].sizes[s] + (IF s = section THEN Inside ELSE 0))'
    <3> SUFFICES ASSUME NEW s \in Sections
                 PROVE  /\ Sequence(layout'[s])
                        /\ Len(layout'[s]) = g[r].sizes[s]
                                             + (IF s = section THEN Inside' ELSE 0)
      BY <1>0 DEF Sequence, Elements, Sections
    <3>1. CASE s = section
      BY <1>9, <2>1, <3>1
    <3>2. CASE s # section
      BY <1>6, <1>7, <2>1, <3>2
    <3> QED BY <3>1, <3>2
  <2> QED BY <1>0, <1>6, <2>1, <2>2 DEF LayoutInv, Sections
<1>11. PlacedInv(g, r)'
  <2>1. ASSUME NEW e \in DOMAIN program, IsItem(program[e]), HasBytes(program[e]),
               e < r \/ (e = r /\ Inside' > 0)
        PROVE  \E k \in DOMAIN layout'[g[e].sec] :
                 /\ Offset[g[e].sec] + k - 1 = AddressOf(g, e)
                 /\ layout'[g[e].sec][k].line = e
                 /\ layout'[g[e].sec][k].arg = 1 /\ layout'[g[e].sec][k].byte = 0
    <3>1. CASE e < q \/ (e = q /\ Inside > 0)
      <4>1. PICK k \in DOMAIN layout[g[e].sec] :
              /\ Offset[g[e].sec] + k - 1 = AddressOf(g, e)
              /\ layout[g[e].sec][k].line = e
              /\ layout[g[e].sec][k].arg = 1 /\ layout[g[e].sec][k].byte = 0
        BY <1>2, <2>1, <3>1 DEF PlacedInv
      <4>2. g[e].sec \in Sections
        <5>1. e \in 0 .. Len(program) + 1
          BY <1>1, SMT
        <5> QED BY <1>2, <5>1, CountsOnWalk DEF MeasuredInv
      <4>3. k \in DOMAIN layout'[g[e].sec] /\ layout'[g[e].sec][k] = layout[g[e].sec][k]
        <5>1. CASE g[e].sec = section
          BY <1>8, <1>9, <4>1, <5>1 DEF old
        <5>2. CASE g[e].sec # section
          BY <1>6, <4>1, <4>2, <5>2
        <5> QED BY <5>1, <5>2
      <4> QED BY <4>1, <4>3
    <3>2. CASE ~(e < q \/ (e = q /\ Inside > 0))
      <4>1. e = q /\ ~(Inside > 0) /\ q # 0
        <5>1. e \in Nat /\ e > 0 /\ q \in Nat
          BY <1>1, SMT
        <5> QED BY <1>4, <2>1, <3>2, <5>1, SMT
      <4>2. part = 1
        BY <1>1, <4>1, SMT
      <4>3. PICK k \in DOMAIN block :
              /\ Offset[section] + (Len(old) + k) - 1 = AddressOf(g, q)
              /\ block[k].line = q /\ block[k].arg = 1 /\ block[k].byte = 0
        BY <2>1, <4>1, <4>2 DEF old, HasFirst
      <4>4. Len(old) + k \in DOMAIN new /\ new[Len(old) + k] = block[k]
        BY <1>8, <1>9, <4>3
      <4>5. PICK j : j = Len(old) + k
        OBVIOUS
      <4>6. /\ j \in DOMAIN layout'[g[e].sec] /\ layout'[g[e].sec][j] = block[k]
            /\ Offset[g[e].sec] + j - 1 = AddressOf(g, e)
        BY <1>1, <1>9, <4>1, <4>3, <4>4, <4>5
      <4> QED BY <4>1, <4>3, <4>6
    <3> QED BY <3>1, <3>2
  <2>2. \A e \in DOMAIN program' : AddressOf(g, e)' = AddressOf(g, e)
    BY <1>0 DEF AddressOf, Measured, IsInstr
  <2>3. \A e \in DOMAIN program' :
          /\ IsItem(program[e])' <=> IsItem(program[e])
          /\ HasBytes(program[e])' <=> HasBytes(program[e])
    BY <1>0 DEF IsItem, HasBytes
  <2> QED BY <1>0, <2>1, <2>2, <2>3 DEF PlacedInv
<1>12. ItemsAligned'
  <2> SUFFICES ASSUME NEW s \in Sections, NEW k \in DOMAIN layout'[s],
                      layout'[s][k].line # 0, layout'[s][k].arg = 1,
                      layout'[s][k].byte = 0,
                      program[layout'[s][k].line].cat = "alloc",
                      program[layout'[s][k].line].name # "align"
               PROVE  (Offset[s] + k - 1) % ItemSize(program[layout'[s][k].line].name) = 0
    BY <1>0 DEF ItemsAligned, Sections
  <2>1. CASE k \in DOMAIN layout[s] /\ layout'[s][k] = layout[s][k]
    <3>1. PICK c : c = layout[s][k]
      OBVIOUS
    <3>2. /\ c.line # 0 /\ c.arg = 1 /\ c.byte = 0
          /\ program[c.line].cat = "alloc" /\ program[c.line].name # "align"
      BY <2>1, <3>1
    <3>3. (Offset[s] + k - 1) % ItemSize(program[c.line].name) = 0
      BY <1>2, <2>1, <3>1, <3>2 DEF ItemsAligned
    <3> QED BY <2>1, <3>1, <3>3
  <2>2. CASE s = section /\ k \notin DOMAIN old
    <3>1. k \in 1 .. Len(old) + Len(block) /\ k \notin 1 .. Len(old)
      BY <1>8, <1>9, <2>2
    <3> DEFINE j == k - Len(old)
    <3>2. j \in 1 .. Len(block) /\ Len(old) + j = k
      BY <1>a, <3>1, SMT
    <3>3. layout'[s][k] = block[j]
      BY <1>9, <2>2, <3>2
    <3>4. PICK i : i = j
      OBVIOUS
    <3> HIDE DEF j
    <3>5. /\ i \in DOMAIN block /\ Len(old) + i = k /\ layout'[s][k] = block[i]
      BY <1>8, <3>2, <3>3, <3>4
    <3> QED BY <2>2, <3>5 DEF old, IsAligned
  <2>3. s = section /\ k \in DOMAIN old => layout'[s][k] = layout[s][k]
    BY <1>8, <1>9 DEF old
  <2>4. s # section => k \in DOMAIN layout[s] /\ layout'[s][k] = layout[s][k]
    BY <1>6
  <2> QED BY <2>1, <2>2, <2>3, <2>4 DEF old
<1>13. ThirdPass(g, r)'
  BY <1>3, <1>4, <1>5, <1>10, <1>11, <1>12 DEF ThirdPass
<1> QED BY <1>13

(* A line that is not laid out. *)
LEMMA LayoutStays ==
  ASSUME IsProgram(program), NEW g, NEW q, ThirdPass(g, q), at <= Len(lines),
         at' = at + 1, UNCHANGED <<program, lines, labels, pending, sizes, layout>>,
         q \in DOMAIN program, ~IsItem(program[q]),
         section' = IF program[q].cat = "section" THEN program[q].name ELSE section
  PROVE  \E r : ThirdPass(g, r)'
<1>1. /\ q \in 0 .. Len(program) /\ Len(program) \in Nat
      /\ DOMAIN program = 1 .. Len(program) /\ Expanded(Current) /\ Current.no = q
      /\ Inside = 4 * (Current.part - 1)
      /\ section = g[q].sec /\ section \in Sections
      /\ g[q].sizes \in [Sections -> Nat]
      /\ g[q + 1] = After(q, g[q])
  BY ThirdPassAt
<1>2. /\ MeasuredInv(g) /\ LinesInv(Len(lines) + 1) /\ LayoutInv(g, q)
      /\ PlacedInv(g, q) /\ ItemsAligned
  BY DEF ThirdPass
<1>3. ~IsInstr(q) /\ ~Measured(q)
  <2>1. q # 0
    BY <1>1, SMT
  <2> QED BY <2>1 DEF IsInstr, Measured, IsItem
<1>4. Inside = 0
  <2>1. Current.part = 1
    BY <1>1, <1>3 DEF Expanded
  <2> QED BY <1>1, <2>1, SMT
<1>5. PICK r : r = q + 1
  OBVIOUS
<1>6. at' \in 1 .. Len(lines') + 1 /\ NoAt(at)' = r /\ Inside' = 0
  BY <1>3, <1>5, ThirdPassNext
<1>7. MeasuredInv(g)' /\ LinesInv(Len(lines) + 1)'
  <2>1. PICK a : a = Len(lines) + 1
    OBVIOUS
  <2>2. LinesInv(a)'
    BY <1>2, <2>1, LinesStay
  <2> QED BY <1>2, <2>1, <2>2, MeasuredStays
<1>8. g[r].sec = section' /\ \A s \in Sections : g[r].sizes[s] = g[q].sizes[s]
  <2>1. Growth(q, g[q]) = 0
    BY <1>3 DEF Growth
  <2>2. g[q].sizes[section] + 0 = g[q].sizes[section]
    BY <1>1, SMT
  <2> QED BY <1>1, <1>3, <1>5, <2>1, <2>2 DEF After
<1>9. LayoutInv(g, r)'
  <2>1. /\ DOMAIN layout = Sections
        /\ \A s \in Sections : Sequence(layout[s]) /\ Len(layout[s]) = g[q].sizes[s] + 0
    BY <1>2, <1>4 DEF LayoutInv
  <2> QED BY <1>6, <1>8, <2>1 DEF LayoutInv, Sequence, Elements, Sections
<1>10. PlacedInv(g, r)'
  <2>1. ASSUME NEW e \in DOMAIN program, IsItem(program[e]), e < r
        PROVE  e < q
    <3>1. e # q
      BY <2>1
    <3> QED BY <1>1, <1>5, <2>1, <3>1, SMT
  <2>2. \A e \in DOMAIN program' :
          /\ AddressOf(g, e)' = AddressOf(g, e)
          /\ IsItem(program[e])' <=> IsItem(program[e])
          /\ HasBytes(program[e])' <=> HasBytes(program[e])
    BY DEF AddressOf, Measured, IsInstr, IsItem, HasBytes
  <2>3. ~(Inside' > 0)
    BY <1>6, SMT
  <2> QED BY <1>2, <2>1, <2>2, <2>3 DEF PlacedInv
<1>11. ItemsAligned'
  BY <1>2 DEF ItemsAligned, Sections
<1>12. ThirdPass(g, r)'
  BY <1>6, <1>7, <1>9, <1>10, <1>11 DEF ThirdPass
<1> QED BY <1>12

LEMMA ParseAllocKeeps ==
  ASSUME AsmInv, ParseAlloc
  PROVE  AsmInv'
<1> DEFINE name == Current.name
           args == ResolvedArgs(Current.args)
<1>1. /\ phase = "parse" /\ at <= Len(lines) /\ Current.cat = "alloc"
      /\ IsProgram(program)
  BY DEF AsmInv, ParseAlloc, Reading
<1>2. PICK g, q : ThirdPass(g, q)
  BY <1>1 DEF AsmInv
<1>3. /\ q \in 0 .. Len(program) /\ Current.no = q /\ Expanded(Current)
      /\ Inside = 4 * (Current.part - 1)
      /\ section = g[q].sec /\ section \in Sections
      /\ g[q].sizes \in [Sections -> Nat] /\ Sound(q)
  BY <1>1, <1>2, ThirdPassAt
<1>4. /\ ~IsInstr(q) /\ q \in DOMAIN program /\ program[q].cat = "alloc"
      /\ name = program[q].name /\ Current.args = program[q].args
      /\ Current.part = 1 /\ Measured(q)
  <2>1. ~IsInstr(q)
    BY <1>1, <1>3 DEF Expanded
  <2>2. Written(Current)
    BY <1>3, <2>1 DEF Expanded
  <2>3. q # 0
    BY <2>1 DEF IsInstr
  <2> QED BY <1>1, <1>3, <2>1, <2>2, <2>3, WrittenFacts DEF Measured
<1>5. CASE ~(RefsOf(Current.args) \subseteq DOMAIN labels)
  BY <1>5, FailKeeps DEF ParseAlloc
<1>6. CASE RefsOf(Current.args) \subseteq DOMAIN labels /\ AllocFault(name, args) # "none"
  BY <1>6, FailKeeps DEF ParseAlloc
<1>7. CASE RefsOf(Current.args) \subseteq DOMAIN labels /\ AllocFault(name, args) = "none"
  <2> DEFINE block == AllocBlock(MemLoc, name, args, Current.no)
  <2>1. PICK info : Place(block, info)
    BY <1>7 DEF ParseAlloc
  <2>2. phase' = "parse" /\ program' = program
    BY <1>1, <2>1 DEF Place, NextLine
  <2>3. PICK loc \in Nat : loc = g[q].sizes[section]
    BY <1>3
  <2>4. PICK o \in Nat : o = Offset[section] /\ o % 8 = 0
    BY <1>3, OffsetFacts
  <2>5. Len(layout[section]) = loc /\ MemLoc = o + loc /\ o + loc \in Nat
    <3>1. Len(layout[section]) = loc + Inside
      BY <1>2, <1>3, <2>3 DEF ThirdPass, LayoutInv
    <3>2. Len(layout[section]) = loc
      BY <1>3, <1>4, <2>3, <3>1, SMT
    <3>3. o + loc \in Nat
      BY <2>3, <2>4, SMT
    <3> QED BY <2>4, <3>2, <3>3 DEF MemLoc
  <2> DEFINE zs == ZeroedArgs(program[q].args)
  <2>6. /\ name \in Directives /\ AreOperands(program[q].args)
        /\ AreOperands(args) /\ args = ResolvedArgs(program[q].args)
        /\ LabelsPlaced /\ AllocFault(name, zs) = "none"
    <3>1. LabelsPlaced
      BY <1>2 DEF ThirdPass, MeasuredInv, LabelsInv
    <3>2. name \in Directives /\ AreOperands(program[q].args)
      BY <1>1, <1>4, SourceFacts
    <3>3. AllocFault(name, zs) = "none"
      BY <1>3, <1>4 DEF Sound
    <3> QED BY <1>4, <1>7, <3>1, <3>2, <3>3, ResolvedOperands
  <2>7. /\ Sequence(block) /\ Len(block) = BlockLength(o + loc, name, args)
        /\ \A k \in DOMAIN block :
             /\ block[k].line = q
             /\ IF name = "align" THEN block[k].byte < 0
                ELSE (block[k].arg = 1 /\ block[k].byte = 0)
                       <=> k = Padding(o + loc, ItemSize(name)) + 1
    BY <1>3, <1>7, <2>5, <2>6, BlockShape
  <2>8. /\ BlockLength(o + loc, name, args) = BlockLength(loc, name, zs)
        /\ PaddingBefore(o + loc, name) = PaddingBefore(loc, name)
        /\ name # "align" => /\ PaddingBefore(loc, name) = Padding(loc, ItemSize(name))
                             /\ PaddingBefore(loc, name) \in Nat
                             /\ (o + loc + PaddingBefore(loc, name)) % ItemSize(name) = 0
        /\ name # "align" /\ (name = "ascii" => program[q].args[1].len > 0) =>
             Padding(loc, ItemSize(name)) + 1 \in 1 .. BlockLength(loc, name, zs)
    <3>1. PICK n, as : n = program[q].name /\ as = program[q].args
      OBVIOUS
    <3>2. /\ n \in Directives /\ AreOperands(as) /\ RefsOf(as) \subseteq DOMAIN labels
          /\ AllocFault(n, ZeroedArgs(as)) = "none"
          /\ AllocFault(n, ResolvedArgs(as)) = "none"
          /\ LabelsPlaced /\ o \in Nat /\ o % 8 = 0 /\ loc \in Nat
      BY <1>4, <1>7, <2>3, <2>4, <2>6, <3>1
    <3>3. /\ BlockLength(o + loc, n, ResolvedArgs(as)) = BlockLength(loc, n, ZeroedArgs(as))
          /\ PaddingBefore(o + loc, n) = PaddingBefore(loc, n)
          /\ n # "align" => /\ PaddingBefore(loc, n) = Padding(loc, ItemSize(n))
                            /\ PaddingBefore(loc, n) \in Nat
                            /\ (o + loc + PaddingBefore(loc, n)) % ItemSize(n) = 0
          /\ n # "align" /\ (n = "ascii" => as[1].len > 0) =>
               Padding(loc, ItemSize(n)) + 1 \in 1 .. BlockLength(loc, n, ZeroedArgs(as))
      BY <3>2, BlocksAgree, Zenon
    <3>4. n = name /\ as = program[q].args /\ ResolvedArgs(as) = args /\ ZeroedArgs(as) = zs
      BY <1>4, <2>6, <3>1
    <3> HIDE DEF name, args, zs
    <3> QED BY <3>3, <3>4
  <2> HIDE DEF name, args, block, zs
  <2>9. Len(block) = BytesOf(g, q)
    BY <1>3, <1>4, <2>3, <2>7, <2>8 DEF BytesOf, Growth, zs
  <2>10. DOMAIN block = 1 .. Len(block)
    BY <2>7, LenProperties DEF Sequence
  <2>11. CASE name = "align"
    <3>1. ~HasBytes(program[q])
      BY <1>4, <2>11 DEF HasBytes
    <3>2. IsAligned(block)
      BY <1>4, <2>7, <2>11 DEF IsAligned
    <3> QED BY <1>1, <1>2, <1>4, <2>1, <2>2, <2>7, <2>9, <3>1, <3>2, LayoutGrows DEF AsmInv
  <2>12. CASE name # "align"
    <3>1. PICK pad \in Nat : pad = Padding(loc, ItemSize(name))
      BY <2>8, <2>12
    <3>2. Padding(o + loc, ItemSize(name)) = pad
      BY <2>8, <2>12, <3>1 DEF PaddingBefore
    <3>3. o + (loc + (pad + 1)) - 1 = o + loc + pad
      BY <2>3, <2>4, <3>1, SMT
    <3>4. AddressOf(g, q) = o + loc + pad
      BY <1>3, <1>4, <2>3, <2>4, <2>8, <2>12, <3>1 DEF AddressOf
    <3>5. ASSUME HasBytes(program[q]) PROVE HasFirst(g, q, block)
      <4>1. PICK k : k = pad + 1
        OBVIOUS
      <4>2. k \in DOMAIN block
        <5>1. name = "ascii" => program[q].args[1].len > 0
          BY <1>4, <3>5 DEF HasBytes
        <5> QED BY <2>7, <2>8, <2>10, <2>12, <3>1, <4>1, <5>1
      <4>3. block[k].line = q /\ block[k].arg = 1 /\ block[k].byte = 0
        BY <2>7, <2>12, <3>2, <4>1, <4>2
      <4>4. Offset[section] + (Len(layout[section]) + k) - 1 = AddressOf(g, q)
        BY <2>4, <2>5, <3>3, <3>4, <4>1
      <4> QED BY <4>2, <4>3, <4>4 DEF HasFirst
    <3>6. ASSUME NEW k \in DOMAIN block, block[k].arg = 1, block[k].byte = 0
          PROVE  (Offset[section] + (Len(layout[section]) + k) - 1)
                   % ItemSize(program[block[k].line].name) = 0
      <4>1. k = pad + 1 /\ block[k].line = q
        BY <2>7, <2>12, <3>2, <3>6
      <4>2. Offset[section] + (Len(layout[section]) + k) - 1 = o + loc + pad
        BY <2>4, <2>5, <3>3, <4>1
      <4>3. (o + loc + pad) % ItemSize(name) = 0
        BY <2>8, <2>12, <3>1
      <4> QED BY <1>4, <4>1, <4>2, <4>3
    <3>7. IsAligned(block)
      BY <3>6 DEF IsAligned
    <3> QED BY <1>1, <1>2, <1>4, <2>1, <2>2, <2>7, <2>9, <3>5, <3>7, LayoutGrows DEF AsmInv
  <2> QED BY <2>11, <2>12
<1> QED BY <1>5, <1>6, <1>7

LEMMA ParseInstrKeeps ==
  ASSUME AsmInv, ParseInstr
  PROVE  AsmInv'
<1>1. /\ phase = "parse" /\ at <= Len(lines) /\ Current.cat = "instr"
      /\ IsProgram(program)
  BY DEF AsmInv, ParseInstr, Reading
<1>2. PICK g, q : ThirdPass(g, q)
  BY <1>1 DEF AsmInv
<1>3. /\ q \in 0 .. Len(program) /\ Current.no = q /\ Expanded(Current)
      /\ Inside = 4 * (Current.part - 1)
      /\ section = g[q].sec /\ section \in Sections
      /\ g[q].sizes \in [Sections -> Nat]
  BY <1>1, <1>2, ThirdPassAt
<1>4. IsInstr(q) /\ ~Measured(q) /\ (q # 0 => program[q].cat = "instr")
  <2>1. ASSUME ~IsInstr(q) PROVE FALSE
    <3>1. Written(Current)
      BY <1>3, <2>1 DEF Expanded
    <3> QED BY <1>1, <1>3, <2>1, <3>1, WrittenFacts
  <2> QED BY <2>1 DEF Measured, IsInstr
<1>5. CASE InstrFault(MemLoc, Current.name, Current.args) # "none"
  BY <1>5, FailKeeps DEF ParseInstr
<1>6. CASE InstrFault(MemLoc, Current.name, Current.args) = "none"
  <2> DEFINE block == InstrBlock(MemLoc, Current)
  <2>1. PICK info : Place(block, info)
    BY <1>6 DEF ParseInstr
  <2>2. phase' = "parse" /\ program' = program
    BY <1>1, <2>1 DEF Place, NextLine
  <2>3. block = [k \in 1 .. 4 |->
                   [line |-> Current.no, arg |-> Current.part, byte |-> k - 1,
                    word |-> Encoding(MemLoc, Current.name, Current.args)]]
    BY DEF InstrBlock
  <2> HIDE DEF block
  <2>4. /\ DOMAIN block = 1 .. 4
        /\ \A k \in 1 .. 4 : /\ block[k].line = q /\ block[k].arg = Current.part
                             /\ block[k].byte = k - 1
    BY <1>3, <2>3
  <2>5. Sequence(block) /\ Len(block) = 4
    <3>1. 4 \in Nat /\ block = [k \in 1 .. 4 |-> block[k]]
      BY <2>3
    <3> QED BY <3>1, FunctionIsSequence
  <2>6. Len(block) = BytesOf(g, q)
    BY <1>4, <2>5 DEF BytesOf
  <2>7. IsAligned(block)
    BY <1>4, <2>4 DEF IsAligned
  <2>8. ASSUME q # 0, Current.part = 1 PROVE HasFirst(g, q, block)
    <3>1. PICK loc \in Nat : loc = g[q].sizes[section]
      BY <1>3
    <3>2. PICK o \in Nat : o = Offset[section]
      BY <1>3, OffsetFacts
    <3>3. Len(layout[section]) = loc + 4 * (1 - 1)
      BY <1>2, <1>3, <2>8, <3>1 DEF ThirdPass, LayoutInv
    <3>4. AddressOf(g, q) = o + loc + 0
      BY <1>3, <1>4, <3>1, <3>2 DEF AddressOf
    <3>5. o + (loc + 4 * (1 - 1) + 1) - 1 = o + loc + 0
      BY <3>1, <3>2, SMT
    <3>6. 1 \in 1 .. 4 /\ 1 - 1 = 0
      BY SMT
    <3>7. /\ 1 \in DOMAIN block /\ block[1].line = q /\ block[1].arg = 1
          /\ block[1].byte = 0
      BY <2>4, <2>8, <3>6
    <3>8. Offset[section] + (Len(layout[section]) + 1) - 1 = AddressOf(g, q)
      BY <3>2, <3>3, <3>4, <3>5
    <3> QED BY <3>7, <3>8 DEF HasFirst
  <2>9. ~(~IsInstr(q) /\ program[q].cat = "section")
    BY <1>4
  <2> QED BY <1>1, <1>2, <2>1, <2>2, <2>5, <2>6, <2>7, <2>8, <2>9, LayoutGrows DEF AsmInv
<1> QED BY <1>5, <1>6

(* Sections and labels in the third pass. *)
LEMMA PassKeeps ==
  ASSUME AsmInv, phase = "parse", EnterSection \/ PassLabel
  PROVE  AsmInv'
<1>1. /\ at <= Len(lines) /\ IsProgram(program) /\ at' = at + 1
      /\ UNCHANGED <<program, lines, labels, pending, sizes, layout, phase>>
      /\ \/ Current.cat = "section" /\ section' = Current.name
         \/ Current.cat = "label" /\ section' = section
  BY DEF AsmInv, EnterSection, PassLabel, Reading, NextLine, mapVars, textVars, outVars
<1>2. PICK g, q : ThirdPass(g, q)
  BY DEF AsmInv
<1>3. q \in 0 .. Len(program) /\ Current.no = q /\ Expanded(Current)
  BY <1>1, <1>2, ThirdPassAt
<1>4. /\ q \in DOMAIN program /\ program[q].cat = Current.cat
      /\ program[q].name = Current.name
  <2>1. ~IsInstr(q)
    BY <1>1, <1>3 DEF Expanded
  <2>2. Written(Current) /\ q # 0
    BY <1>3, <2>1 DEF Expanded, IsInstr
  <2> QED BY <1>1, <1>3, <2>2, WrittenFacts
<1>5. /\ ~IsItem(program[q])
      /\ section' = IF program[q].cat = "section" THEN program[q].name ELSE section
  BY <1>1, <1>4 DEF IsItem
<1>6. \E r : ThirdPass(g, r)'
  BY <1>1, <1>2, <1>4, <1>5, LayoutStays
<1> QED BY <1>1, <1>6 DEF AsmInv

(* Nothing happens, or nothing but the end. *)
LEMMA StayKeeps ==
  ASSUME AsmInv,
         UNCHANGED <<program, lines, at, section, sizes, pending, labels, layout>>,
         \/ phase' = phase /\ UNCHANGED <<capacity, debugInfo, reason>>
         \/ phase = "parse" /\ phase' = "done" /\ at > Len(lines)
  PROVE  AsmInv'
<1>1. ASSUME phase = "start", phase' = phase, UNCHANGED <<capacity, debugInfo, reason>>
      PROVE  Idle'
  BY <1>1 DEF AsmInv, Idle, Sections
<1>2. ASSUME NEW g, NEW m, FirstPass(g, m)
      PROVE  FirstPass(g, m)'
  <2>1. Follows(g, m)'
    BY <1>2, FollowsStays DEF FirstPass
  <2>2. LabelsInv(g, m)'
    BY <1>2 DEF FirstPass, LabelsInv, LabelsPlaced, Labelled, IsItem, AddressOf,
                Measured, IsInstr
  <2>3. (\A i \in DOMAIN lines : lines[i].no = i - 1 /\ Written(lines[i]))'
    BY <1>2 DEF FirstPass, Written, JumpToMain, MangledMain
  <2> QED BY <1>2, <2>1, <2>2, <2>3 DEF FirstPass, Sequence, Elements, Nothing
<1>3. ASSUME NEW g, NEW a, SecondPass(g, a)
      PROVE  SecondPass(g, a)'
  <2>1. MeasuredInv(g)' /\ LinesInv(a)'
    BY <1>3, MeasuredStays, LinesStay DEF SecondPass
  <2> QED BY <1>3, <2>1 DEF SecondPass, Nothing
<1>4. ASSUME NEW g, NEW q, ThirdPass(g, q)
      PROVE  ThirdPass(g, q)'
  <2>1. MeasuredInv(g)' /\ LinesInv(Len(lines) + 1)'
    <3>1. PICK a : a = Len(lines) + 1
      OBVIOUS
    <3>2. LinesInv(a)'
      BY <1>4, <3>1, LinesStay DEF ThirdPass
    <3> QED BY <1>4, <3>1, <3>2, MeasuredStays DEF ThirdPass
  <2>2. Inside' = Inside /\ NoAt(at)' = NoAt(at)
    BY DEF Inside, NoAt
  <2>3. LayoutInv(g, q)'
    BY <1>4, <2>2 DEF ThirdPass, LayoutInv, Sequence, Elements, Sections
  <2>4. PlacedInv(g, q)'
    <3>1. \A e \in DOMAIN program' :
            /\ AddressOf(g, e)' = AddressOf(g, e)
            /\ IsItem(program[e])' <=> IsItem(program[e])
            /\ HasBytes(program[e])' <=> HasBytes(program[e])
      BY DEF AddressOf, Measured, IsInstr, IsItem, HasBytes
    <3> QED BY <1>4, <2>2, <3>1 DEF ThirdPass, PlacedInv
  <2>5. ItemsAligned'
    BY <1>4 DEF ThirdPass, ItemsAligned, Sections
  <2> QED BY <1>4, <2>1, <2>2, <2>3, <2>4, <2>5 DEF ThirdPass
<1> QED BY <1>1, <1>2, <1>3, <1>4 DEF AsmInv

(* Every step of parse. *)
LEMMA AsmStep ==
  ASSUME AsmInv, [AsmNext]_asmVars
  PROVE  AsmInv'
<1>1. CASE Begin
  BY <1>1, BeginKeeps
<1>2. CASE EnterSection
  <2>1. phase = "labels" \/ phase = "parse"
    BY <1>2 DEF EnterSection, Reading
  <2> QED BY <1>2, <2>1, SkipsKeep, PassKeeps
<1>3. CASE NoFirstLine
  BY <1>3 DEF NoFirstLine, Lost, AsmInv
<1>4. CASE MeasureAlloc
  BY <1>4, MeasureAllocKeeps
<1>5. CASE MeasureInstr
  BY <1>5, MeasureInstrKeeps
<1>6. CASE DefineLabel
  <2>1. phase = "labels"
    BY <1>6 DEF DefineLabel, Reading
  <2> QED BY <1>6, <2>1, SkipsKeep
<1>7. CASE MeasureOther
  <2>1. phase = "labels"
    BY <1>7 DEF MeasureOther, Reading
  <2> QED BY <1>7, <2>1, SkipsKeep
<1>8. CASE StartExpanding
  BY <1>8, StartExpandingKeeps
<1>9. CASE KeepLine
  BY <1>9, KeepLineKeeps
<1>10. CASE Expand
  BY <1>10, ExpandKeeps
<1>11. CASE StartParsing
  BY <1>11, StartParsingKeeps
<1>12. CASE ParseAlloc
  BY <1>12, ParseAllocKeeps
<1>13. CASE ParseInstr
  BY <1>13, ParseInstrKeeps
<1>14. CASE PassLabel
  <2>1. phase = "parse"
    BY <1>14 DEF PassLabel, Reading
  <2> QED BY <1>14, <2>1, PassKeeps
<1>15. CASE RejectToken
  BY <1>15, FailKeeps DEF RejectToken
<1>16. CASE Finish
  BY <1>16, StayKeeps DEF Finish, AllRead, passVars, mapVars, textVars, outVars
<1>17. CASE UNCHANGED asmVars
  BY <1>17, StayKeeps DEF asmVars, passVars, mapVars, textVars, outVars
<1> QED
  BY <1>1, <1>2, <1>3, <1>4, <1>5, <1>6, <1>7, <1>8, <1>9, <1>10, <1>11, <1>12, <1>13,
     <1>14, <1>15, <1>16, <1>17 DEF AsmNext

-----------------------------------------------------------------------------
(* The theorems. *)

(* Whatever the program, the passes stand to each other as AsmInv says     *)
(* after every line each of them reads.                                    *)
THEOREM AsmInvariant == AsmSpec => []AsmInv
<1>1. Init => AsmInv
  <2> SUFFICES ASSUME Init PROVE AsmInv
    OBVIOUS
  <2>1. IsProgram(program)
    BY ProgramsAssumption DEF Init
  <2> QED BY <2>1 DEF Init, AsmInv
<1>2. AsmInv /\ [AsmNext]_asmVars => AsmInv'
  BY AsmStep
<1> QED BY <1>1, <1>2, PTL DEF AsmSpec

(* What the passes know of each other at the end. *)
LEMMA AllParsed ==
  ASSUME AsmInv, phase = "done"
  PROVE  \E g : /\ MeasuredInv(g) /\ LayoutInv(g, Len(program) + 1)
                /\ PlacedInv(g, Len(program) + 1) /\ ItemsAligned
                /\ Inside = 0 /\ Len(program) \in Nat
                /\ DOMAIN program = 1 .. Len(program)
<1>1. PICK g, q : ThirdPass(g, q)
  BY DEF AsmInv
<1>2. at > Len(lines) /\ Len(lines) \in Nat /\ at \in 1 .. Len(lines) + 1
  BY <1>1, LenProperties DEF AsmInv, ThirdPass, LinesInv, Sequence
<1>3. ~(at <= Len(lines))
  BY <1>2, SMT
<1>4. q = Len(program) + 1 /\ Inside = 0
  BY <1>1, <1>3 DEF ThirdPass, NoAt, Inside
<1>5. Len(program) \in Nat /\ DOMAIN program = 1 .. Len(program)
  BY ProgramFacts DEF AsmInv
<1> QED BY <1>1, <1>4, <1>5 DEF ThirdPass

LEMMA PassesMeet == AsmInv => PassesAgree
<1> SUFFICES ASSUME AsmInv, phase = "done", NEW s \in Sections
             PROVE  sizes[s] = Len(layout[s])
  BY DEF PassesAgree
<1>1. PICK g : /\ MeasuredInv(g) /\ LayoutInv(g, Len(program) + 1)
               /\ Inside = 0 /\ Len(program) \in Nat
  BY AllParsed
<1>2. Len(program) + 1 \in 0 .. Len(program) + 1
  BY <1>1, SMT
<1>3. sizes = g[Len(program) + 1].sizes /\ sizes \in [Sections -> Nat]
  BY <1>1, <1>2, CountsOnWalk DEF MeasuredInv
<1>4. Len(layout[s]) = sizes[s] + 0 /\ sizes[s] \in Nat
  BY <1>1, <1>3 DEF LayoutInv
<1> QED BY <1>4, SMT

(* The first pass counts, of lines as they are written, the bytes that the *)
(* third lays out, of lines as they are expanded: parse() leaves no gap    *)
(* and no overlap, whatever a pseudo instruction becomes.                  *)
THEOREM AssemblerPassesAgree == AsmSpec => []PassesAgree
<1> QED BY PassesMeet, AsmInvariant, PTL

LEMMA LabelsMeet == AsmInv => LabelsFindTheirLine
<1> SUFFICES ASSUME AsmInv, phase = "done",
                    NEW d \in DOMAIN program, NEW e \in DOMAIN program, Labelled(d, e)
             PROVE  /\ program[d].name \in DOMAIN labels
                    /\ HasBytes(program[e]) =>
                         \E c \in CellsAt(labels[program[d].name]) :
                           c.line = e /\ c.arg = 1 /\ c.byte = 0
  BY DEF LabelsFindTheirLine
<1>1. PICK g : /\ MeasuredInv(g) /\ LayoutInv(g, Len(program) + 1)
               /\ PlacedInv(g, Len(program) + 1) /\ Len(program) \in Nat
               /\ DOMAIN program = 1 .. Len(program)
  BY AllParsed
<1>2. e < Len(program) + 1 /\ e \in 0 .. Len(program) + 1
  BY <1>1, SMT
<1>3. /\ program[d].name \in DOMAIN labels
      /\ labels[program[d].name] = AddressOf(g, e)
  BY <1>1, <1>2 DEF MeasuredInv, LabelsInv
<1>4. ASSUME HasBytes(program[e])
      PROVE  \E c \in CellsAt(labels[program[d].name]) :
               c.line = e /\ c.arg = 1 /\ c.byte = 0
  <2>1. PICK s : s = g[e].sec
    OBVIOUS
  <2>2. s \in Sections
    BY <1>1, <1>2, <2>1, CountsOnWalk DEF MeasuredInv
  <2>3. IsItem(program[e])
    BY DEF Labelled
  <2>4. PICK k \in DOMAIN layout[s] :
          /\ Offset[s] + k - 1 = AddressOf(g, e)
          /\ layout[s][k].line = e
          /\ layout[s][k].arg = 1 /\ layout[s][k].byte = 0
    BY <1>1, <1>2, <1>4, <2>1, <2>3 DEF PlacedInv
  <2>5. k \in Nat
    <3>1. DOMAIN layout[s] = 1 .. Len(layout[s]) /\ Len(layout[s]) \in Nat
      BY <1>1, <2>2, LenProperties DEF LayoutInv, Sequence
    <3> QED BY <3>1, SMT
  <2>6. (Offset[s] + k - 1) - Offset[s] + 1 = k
    <3>1. PICK o \in Nat : o = Offset[s]
      BY <2>2, OffsetFacts
    <3>2. (o + k - 1) - o + 1 = k
      BY <2>5, SMT
    <3> QED BY <3>1, <3>2
  <2>7. PICK a : a = labels[program[d].name]
    OBVIOUS
  <2>8. a - Offset[s] + 1 = k
    BY <1>3, <2>4, <2>6, <2>7
  <2>9. layout[s][k] \in CellsAt(a)
    BY <2>2, <2>4, <2>8 DEF CellsAt
  <2> QED BY <2>4, <2>7, <2>9
<1> QED BY <1>3, <1>4

(* The address populateLabelMap gives a label is that of the first byte    *)
(* parseLine lays out for the item behind it, if that has a byte.          *)
THEOREM AssemblerLabelsFindTheirLine == AsmSpec => []LabelsFindTheirLine
<1> QED BY LabelsMeet, AsmInvariant, PTL

LEMMA ItemsMeet == AsmInv => FirstItemsAligned
<1> SUFFICES ASSUME AsmInv, phase = "done" PROVE FirstItemsAligned
  BY DEF FirstItemsAligned
<1>1. ItemsAligned
  BY AllParsed
<1> QED BY <1>1 DEF ItemsAligned, FirstItemsAligned

(* parsePaddedAllocDirective aligns the first value of every directive,    *)
(* wherever its section has got to.                                        *)
THEOREM AssemblerItemsAligned == AsmSpec => []FirstItemsAligned
<1> QED BY ItemsMeet, AsmInvariant, PTL
=============================================================================
