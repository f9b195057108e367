--------------------------------- MODULE Cp1 ---------------------------------
(***************************************************************************)
(* Co-processor 1 (cp1.cpp): registers of a word each, of which an even    *)
(* one and the next hold a double, and one flag.  A float is its bits, in  *)
(* the layout of IEEE 754 with EBits bits of exponent: moves, negation,    *)
(* absolute value, comparisons, loads and stores are exact, and what the   *)
(* host's arithmetic makes is left open.                                   *)
(***************************************************************************)
EXTENDS Cpu

CONSTANTS FpResults   \* the words that arithmetic and conversions can make

EBits == 3            \* 8 in a float, 11 in a double

(* Four of the 32 registers: those that hold a double, or its lower word,  *)
(* and where its upper word is.                                            *)
UpperOf == [f0 |-> "f1", f2 |-> "f3"]

GetDouble(r, f)    == r[UpperOf[f]] * WordMod + r[f]
SetDouble(r, f, v) == [r EXCEPT ![f] = v % WordMod, ![UpperOf[f]] = v \div WordMod]

Doubles == CP1_TYPE_DP_D_S \union CP1_TYPE_DP_D_S_T \union CP1_TYPE_DP_S_T_C

(* The registers that getDouble, setDouble, ldc1 and sdc1 insist are even. *)
PairsOf(i) ==
  CASE i.op = "cvt.d.s"            -> {i.rd}
    [] i.op = "cvt.s.d"            -> {i.rs}
    [] i.op \in {"ldc1", "sdc1"}   -> {i.rt}
    [] i.op \in CP1_TYPE_DP_S_T_C  -> {i.rs, i.rt}
    [] i.op \in CP1_TYPE_DP_D_S    -> {i.rs, i.rd}
    [] i.op \in CP1_TYPE_DP_D_S_T  -> {i.rs, i.rt, i.rd}
    [] OTHER                       -> {}

-----------------------------------------------------------------------------
(* Floats of n bits. *)

Mantissa(v, n) == v % 2 ^ (n - 1 - EBits)
Exponent(v, n) == (v \div 2 ^ (n - 1 - EBits)) % 2 ^ EBits
IsNaN(v, n)    == Exponent(v, n) = 2 ^ EBits - 1 /\ Mantissa(v, n) # 0

(* The value, in units of the least: both zeros are 0, an infinity is the  *)
(* largest.                                                                *)
FpValue(v, n) ==
  LET e == Exponent(v, n)
      u == IF e = 0 THEN Mantissa(v, n)
           ELSE (2 ^ (n - 1 - EBits) + Mantissa(v, n)) * 2 ^ (e - 1)
  IN  IF v >= 2 ^ (n - 1) THEN -u ELSE u

Negated(v, n)  == (v + 2 ^ (n - 1)) % 2 ^ n
Absolute(v, n) == v % 2 ^ (n - 1)

Computed(n) == IF n = W THEN FpResults
               ELSE {u * WordMod + l : u, l \in FpResults}

(* execCP1RegType *)
FpMade(op, v, n) ==
  CASE op \in {"mov.s", "mov.d"} -> {v}
    [] op \in {"neg.s", "neg.d"} -> {Negated(v, n)}
    [] op \in {"abs.s", "abs.d"} -> {Absolute(v, n)}
    [] OTHER                     -> Computed(n)

ExecCP1RegType(i, r, m) ==
  LET wide   == i.op \in Doubles
      source == IF wide THEN GetDouble(r, i.rs) ELSE r[i.rs]
      made   == IF wide THEN i.op # "cvt.s.d" ELSE i.op = "cvt.d.s"
      n      == IF made THEN 2 * W ELSE W
  IN  {Outcome(IF made THEN SetDouble(r, i.rd, v)
               ELSE [r EXCEPT ![i.rd] = v], m, "none")
         : v \in FpMade(i.op, source, n)}

(* execCP1CondType: no comparison with a NaN holds. *)
Compares(op, x, y, n) ==
  /\ ~IsNaN(x, n) /\ ~IsNaN(y, n)
  /\ CASE op \in {"c.eq.s", "c.eq.d"} -> FpValue(x, n) = FpValue(y, n)
       [] op \in {"c.lt.s", "c.lt.d"} -> FpValue(x, n) < FpValue(y, n)
       [] OTHER                       -> FpValue(x, n) <= FpValue(y, n)

ExecCP1CondType(i, r, m) ==
  LET holds == IF i.op \in Doubles
               THEN Compares(i.op, GetDouble(r, i.rs), GetDouble(r, i.rt), 2 * W)
               ELSE Compares(i.op, r[i.rs], r[i.rt], W)
  IN  {Outcome([r EXCEPT !.flag = Bool(holds)], m, "none")}

(* execCP1CondImmType: the offset is not sign extended. *)
ExecCP1CondImmType(i, r, m) ==
  LET taken == r.flag = Bool(i.op = "bc1t")
  IN  {Outcome([r EXCEPT !.pc = IF taken THEN Wrap(@ + i.imm * 4) ELSE @],
               m, "none")}

(* execCP1RegImmType *)
ExecCP1RegImmType(i, r, m) ==
  {Outcome(IF i.op = "mfc1" THEN [r EXCEPT ![i.rt] = r[i.rs]]
                            ELSE [r EXCEPT ![i.rs] = r[i.rt]], m, "none")}

(* execCP1ImmType: the lower word of a double is at the address itself. *)
ExecCP1ImmType(i, r, m) ==
  LET a == Wrap(r[i.rs] + i.imm)
      WordAt(k) == ValueAt(m, Wrap(a + k), 4)
      To(q, n) == {Outcome(q, n, "none")}
  IN  IF a % 4 # 0
      THEN {Outcome(r, m, IF i.op \in {"lwc1", "ldc1"} THEN "load" ELSE "store")}
      ELSE CASE i.op = "lwc1" -> To([r EXCEPT ![i.rt] = WordAt(0)], m)
             [] i.op = "ldc1" -> To(SetDouble(r, i.rt, WordAt(4) * WordMod + WordAt(0)), m)
             [] i.op = "swc1" -> To(r, WriteTo(m, a, 4, r[i.rt]))
             [] i.op = "sdc1" ->
                  To(r, WriteTo(WriteTo(m, a, 4, r[i.rt]),
                                Wrap(a + 4), 4, r[UpperOf[i.rt]]))

(* Simulator::execInstruction for opcode 0x11 and the four loads and       *)
(* stores.  The runtime_error of an odd register comes before any write.   *)
ExecCp1(i, r, m) ==
  IF ~(PairsOf(i) \subseteq DOMAIN UpperOf)
  THEN {Outcome(r, m, "runtime error")}
  ELSE CASE i.op \in CP1_TYPE_L     -> ExecCP1CondImmType(i, r, m)
         [] i.op \in CP1_TYPE_T_S   -> ExecCP1RegImmType(i, r, m)
         [] i.op \in CP1_TYPE_T_S_I -> ExecCP1ImmType(i, r, m)
         [] i.op \in CP1_TYPE_S_T_C -> ExecCP1CondType(i, r, m)
         [] OTHER                   -> ExecCP1RegType(i, r, m)

ExecInstruction(i, r, m) ==
  IF i.op \in CP1Names THEN ExecCp1(i, r, m) ELSE ExecCpu(i, r, m)

(* The bytes an instruction reads or writes. *)
Touches(i, r) ==
  IF i.op \in Loads \union Stores \union CP1_TYPE_T_S_I
  THEN {Wrap(r[i.rs] + i.imm + k) :
          k \in 0 .. (IF i.op \in {"ldc1", "sdc1"} THEN 8 ELSE Width(i.op)) - 1}
  ELSE {}
=============================================================================
