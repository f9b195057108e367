--------------------------------- MODULE Cpu ---------------------------------
(***************************************************************************)
(* One instruction of the CPU: execRType, execIType and execJType of       *)
(* cpu.cpp, with the loads and stores of memory.cpp they use.              *)
(*                                                                         *)
(* r holds the registers, pc, hi and lo as unsigned words, m the bytes     *)
(* that have been written.  What an instruction may do is the set of its   *)
(* outcomes: one, but where the code's shifts have no defined result.  An  *)
(* exc other than "none" is what was thrown (for "undefined" the process   *)
(* itself dies).  The words of the devices are not here: see Simulator.    *)
(***************************************************************************)
EXTENDS MachineWord, Instructions, Bitwise, FiniteSetsExt, TLC

Outcome(r, m, exc) == [reg |-> r, mem |-> m, exc |-> exc]

-----------------------------------------------------------------------------
(* Memory: byteAt, halfAt, wordAt and byteTo, halfTo, wordTo. *)

ByteAt(m, a) == IF a \in DOMAIN m THEN m[a] ELSE 0

ValueAt(m, a, n) ==
  MapThenSumSet(LAMBDA k : ByteAt(m, Wrap(a + k)) * 2 ^ (B * Rank(n, k)),
                0 .. n - 1)

WriteTo(m, a, n, v) ==
  [b \in {Wrap(a + k) : k \in 0 .. n - 1} |-> ByteOf(v, n, Wrap(b - a))] @@ m

Width(op) == CASE op \in {"lb", "lbu", "sb"} -> 1
               [] op \in {"lh", "lhu", "sh"} -> 2
               [] OTHER                      -> 4

-----------------------------------------------------------------------------
(* execRType *)

(* C++ division rounds toward zero, and the remainder has the sign of the  *)
(* dividend.                                                               *)
Magnitude(a)   == IF a < 0 THEN -a ELSE a
Quotient(a, b) ==
  IF (a < 0) = (b < 0) THEN Magnitude(a) \div Magnitude(b)
                       ELSE -(Magnitude(a) \div Magnitude(b))
Remainder(a, b) == a - b * Quotient(a, b)

ShiftRight(t, n) == Wrap(Signed(t) \div 2 ^ n)     \* >> of an int32_t

(* What SRA adds: 0xFFFFFFFF << (32 - n), which for n = 0 is undefined and *)
(* comes out as all ones (the shift count is taken mod 32) or as 0.        *)
SignExtension(t, n) ==
  IF Signed(t) >= 0 THEN {0}
  ELSE IF n = 0 THEN {0, WordMod - 1}
  ELSE {WordMod - 2 ^ (W - n)}

Bool(b) == IF b THEN 1 ELSE 0

RdValues(op, s, t, shamt) ==
  CASE op \in {"add", "addu"} -> {Wrap(s + t)}
    [] op \in {"sub", "subu"} -> {Wrap(s - t)}
    [] op = "and"  -> {s & t}
    [] op = "or"   -> {s | t}
    [] op = "xor"  -> {s ^^ t}
    [] op = "nor"  -> {WordMod - 1 - (s | t)}
    [] op = "sll"  -> {Wrap(t * 2 ^ shamt)}
    [] op = "sllv" -> {Wrap(t * 2 ^ (s % W))}
    [] op = "srl"  -> {ShiftRight(t, shamt)}
    [] op = "srlv" -> {ShiftRight(t, s % W)}
    [] op = "sra"  -> {ShiftRight(t, shamt) | e : e \in SignExtension(t, shamt)}
    [] op = "srav" -> {ShiftRight(t, s % W) | e : e \in SignExtension(t, s % W)}
    [] op = "slt"  -> {Bool(Signed(s) < Signed(t))}
    [] op = "sltu" -> {Bool(s < t)}

(* The mask of the low half forgotten. *)
ProductUncut(r, p) == [r EXCEPT !.lo = p % (2 * WordMod), !.hi = Wrap(p \div WordMod)]

(* The 64-bit product, cut in two. *)
Product(r, p) == [r EXCEPT !.lo = Wrap(p), !.hi = Wrap(p \div WordMod)]

ExecRType(i, r, m) ==
  LET s     == r[i.rs]
      t     == r[i.rt]
      ss    == Signed(s)
      st    == Signed(t)
      op    == i.op
      To(q)    == {Outcome(q, m, "none")}
      Throw(e) == {Outcome(r, m, e)}
  IN  CASE op = "add" /\ ~FitsInt(ss + st) -> Throw("overflow")
        [] op = "sub" /\ ~FitsInt(ss - st) -> Throw("overflow")
        [] op \in {"div", "divu"} /\ t = 0 -> Throw("division by zero")
        [] op = "div" /\ t # 0 ->
             IF ~FitsInt(Quotient(ss, st)) THEN Throw("undefined")
             ELSE To([r EXCEPT !.lo = Wrap(Quotient(ss, st)),
                               !.hi = Wrap(Remainder(ss, st))])
        [] op = "divu" /\ t # 0 ->
             To([r EXCEPT !.lo = s \div t, !.hi = s % t])
        [] op = "mult"  -> To(Product(r, ss * st))
        [] op = "multu" -> To(Product(r, s * t))
        [] op = "mfhi"  -> To([r EXCEPT ![i.rd] = r.hi])
        [] op = "mflo"  -> To([r EXCEPT ![i.rd] = r.lo])
        [] op = "mthi"  -> To([r EXCEPT !.hi = s])
        [] op = "mtlo"  -> To([r EXCEPT !.lo = s])
        [] op = "jr"    -> To([r EXCEPT !.pc = s])
        [] op = "jalr"  ->            \* ra is written before rs is read
             LET linked == [r EXCEPT !.ra = r.pc]
             IN  To([linked EXCEPT !.pc = linked[i.rs]])
        [] OTHER -> {Outcome([r EXCEPT ![i.rd] = v], m, "none") :
                       v \in IF op \in {"add", "sub"}
                             THEN RdValues(op, s, t, 0)
                             ELSE RdValues(op, s, t, i.imm)}

-----------------------------------------------------------------------------
(* execIType: the immediate is sign extended for arithmetic, comparison    *)
(* and branches, and used as it is by the logical instructions, the loads  *)
(* and the stores.                                                         *)

(* The sign extension forgotten. *)
ZeroExtImm(i) == i.imm

SignExtImm(i) == SignedBits(i.imm, H)

LoadedValue(op, v) ==
  CASE op = "lb" -> Wrap(SignedBits(v, B))
    [] op = "lh" -> Wrap(SignedBits(v, 2 * B))
    [] OTHER     -> v

ExecIType(i, r, m) ==
  LET s     == r[i.rs]
      t     == r[i.rt]
      imm   == SignExtImm(i)
      a     == Wrap(s + i.imm)
      op    == i.op
      Rt(v)    == {Outcome([r EXCEPT ![i.rt] = Wrap(v)], m, "none")}
      Throw(e) == {Outcome(r, m, e)}
      Branch(c) ==
        {Outcome([r EXCEPT !.pc = IF c THEN Wrap(@ + imm * 4) ELSE @],
                 m, "none")}
  IN  CASE op = "addi"  -> IF FitsInt(Signed(s) + imm) THEN Rt(s + imm)
                           ELSE Throw("overflow")
        [] op = "addiu" -> Rt(s + imm)
        [] op = "andi"  -> Rt(s & i.imm)
        [] op = "ori"   -> Rt(s | i.imm)
        [] op = "xori"  -> Rt(s ^^ i.imm)
        [] op = "slti"  -> Rt(Bool(Signed(s) < imm))
        [] op = "sltiu" -> Rt(Bool(s < Wrap(imm)))
        [] op = "lui"   -> Rt(imm * HalfMod)
        [] op = "beq"   -> Branch(s = t)
        [] op = "bne"   -> Branch(s # t)
        [] op \in Loads  ->
             IF a % Width(op) # 0 THEN Throw("load")
             ELSE Rt(LoadedValue(op, ValueAt(m, a, Width(op))))
        [] op \in Stores ->
             IF a % Width(op) # 0 THEN Throw("store")
             ELSE {Outcome(r, WriteTo(m, a, Width(op), t), "none")}

-----------------------------------------------------------------------------
(* execJType: the top four bits of the address stay those of pc. *)

Region(a) == (a \div 2 ^ (W - 4)) * 2 ^ (W - 4)

ExecJType(i, r, m) ==
  {Outcome([r EXCEPT !.ra = IF i.op = "jal" THEN r.pc ELSE @,
                     !.pc = Region(r.pc) + i.imm * 4], m, "none")}

(* Simulator::execInstruction but for co-processor 1, by the kind of the   *)
(* instruction; pc has been incremented.  syscall, eret and co-processor 0 *)
(* are the Simulator module's.                                             *)
IType == I_TYPE_T_S_I \union I_TYPE_S_T_L \union I_TYPE_T_I

ExecCpu(i, r, m) ==
  CASE i.op \in IType    -> ExecIType(i, r, m)
    [] i.op \in J_TYPE_L -> ExecJType(i, r, m)
    [] i.op = "break"    -> {Outcome(r, m, "exit")}
    [] i.op \in {"syscall", "eret"} \union CP0_TYPE_T_D ->
         {Outcome(r, m, "handed over")}
    [] OTHER             -> ExecRType(i, r, m)
=============================================================================
