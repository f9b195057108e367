----------------------------- MODULE MCToolchain -----------------------------
(* One or two lines between labels, after some data, on every combination  *)
(* of interesting values of $t0 and $t1.  The data starts at 272, the text *)
(* at 8: a byte has three bits.                                            *)
EXTENDS Toolchain

MCOffset == [text |-> 8, data |-> 272, ktext |-> 2048]
MCStack  == 2040
MCValues == {0, 1, 5, 12, 276, 2047, 2048, 4095}

Def(l) == Line("label", l, <<>>)
I(op, args)  == Line("instr", op, args)
Words(args)  == Line("alloc", "word", args)
Sec(s)       == Line("section", s, <<>>)

T0 == Reg("t0")
T1 == Reg("t1")
T2 == Reg("t2")

DST(ops) == {I(o, <<T2, T0, T1>>) : o \in ops}
Immediates == {-32, -1, 3, 31, 40}

Lines ==
       DST(R_TYPE_D_S_T \union R_TYPE_D_T_S \union {"mul", "div", "divu"})
  \union {I(o, <<T0, T1>>) : o \in R_TYPE_S_T \union {"move"}}
  \union {I(o, <<T2, T0, Imm(n)>>) : o \in R_TYPE_D_T_H, n \in {0, 3, 11}}
  \union {I(o, <<T2, T0, Imm(n)>>) :
            o \in {"addi", "addiu", "andi", "ori", "xori", "slti", "sltiu",
                   "subi"}, n \in Immediates}
  \union {I(o, <<T2>>) : o \in R_TYPE_D} \union {I(o, <<T0>>) : o \in R_TYPE_S}
  \union {I(o, <<T2, T0, Imm(n)>>) : o \in Loads \union Stores, n \in {0, 2, 5}}
  \union {I(o, <<T0, Ref("D")>>) : o \in Loads \union Stores \union {"la"}}
  \union {I(o, <<T0, Imm(300)>>) : o \in {"lw"} \union Stores}
  \union {I(o, <<T0, Imm(n)>>) : o \in {"la", "li", "lui"}, n \in {5, -1, 60}}
  \union {I(o, <<T0, T1, Ref(l)>>) :
            o \in I_TYPE_S_T_L \union BranchPseudo, l \in {"L", "M"}}
  \union {I(o, <<T0, Ref(l)>>) :
            o \in {"beqz", "bnez"} \union BranchZeroPseudo, l \in {"L", "M"}}
  \union {I(o, <<Ref(l)>>) : o \in J_TYPE_L, l \in {"L", "M"}}

(* Lines whose effects the next line can see. *)
Feeding == {
  I("la", <<T1, Ref("D")>>), I("sw", <<T0, Ref("D")>>), I("sb", <<T0, Ref("D")>>),
  I("mul", <<T2, T0, T1>>), I("mult", <<T0, T1>>), I("jal", <<Ref("M")>>),
  I("jr", <<Reg("ra")>>), I("lh", <<T1, Ref("D")>>), I("blt", <<T0, T1, Ref("M")>>),
  I("mfhi", <<T2>>), I("sh", <<T0, T1, Imm(2)>>), I("lw", <<T2, T1, Imm(0)>>)}

Frame(body) ==
  <<Sec("data"), Line("alloc", "byte", <<Imm(7)>>), Def("D"),
    Words(<<Imm(1234), Ref("L")>>), Sec("text"), Def("L")>>
  \o body
  \o <<Def("M"), I("nop", <<>>), I("break", <<Imm(1)>>)>>

(* The same of co-processor 1, where f0 to f3 start with the same values.  *)
F0 == Reg("f0")
F1 == Reg("f1")
F2 == Reg("f2")
F3 == Reg("f3")

FpLines ==
       {I(o, <<F2, F0>>) : o \in CP1_TYPE_D_S \union CP1_TYPE_S_T_C}
  \union {I(o, <<F2, F0, F1>>) : o \in CP1_TYPE_SP_D_S_T}
  \union {I(o, <<F2, F0, F2>>) : o \in CP1_TYPE_DP_D_S_T}
  \union {I(o, <<F1, F2>>) : o \in {"mov.d", "cvt.d.s", "cvt.s.d", "c.lt.d"}}
  \union {I(o, <<T2, F1>>) : o \in CP1_TYPE_T_S}
  \union {I(o, <<F2, T0, Imm(n)>>) : o \in CP1_TYPE_T_S_I, n \in {0, 2, 5}}
  \union {I(o, <<F1, T0, Imm(n)>>) : o \in {"ldc1", "sdc1"}, n \in {0, 2}}
  \union {I("div.d", <<F0, F3, F2>>), I("c.le.d", <<F0, F3>>)}

FpFeeding == {
  I("c.lt.s", <<F0, F1>>), I("c.eq.d", <<F0, F2>>), I("c.le.d", <<F2, F0>>),
  I("bc1t", <<Ref("M")>>), I("bc1f", <<Ref("M")>>), I("bc1t", <<Ref("L")>>),
  I("la", <<T0, Ref("D")>>), I("swc1", <<F1, T0, Imm(0)>>),
  I("sdc1", <<F2, T0, Imm(0)>>), I("ldc1", <<F0, T0, Imm(0)>>),
  I("cvt.d.s", <<F0, F1>>), I("neg.d", <<F0, F0>>), I("mtc1", <<T0, F1>>)}

FpPrograms == {Frame(<<l>>) : l \in FpLines}
              \union {Frame(<<l, k>>) : l \in FpFeeding, k \in FpFeeding}

MCFpResults == {0, 1234, 2048}

MCDoubles ==
  {<<Sec("data"), Def("D"), Line("alloc", "double", <<Imm(1234 * 4096 + 77)>>),
     Sec("text"), I("la", <<T0, Ref("D")>>), I("ldc1", <<F0, T0, Imm(0)>>),
     I("break", <<>>)>>}

MCShifts == {Frame(<<I("srl", <<T2, T0, Imm(3)>>)>>)}

MCPrograms == {Frame(<<l>>) : l \in Lines}
              \union {Frame(<<l, k>>) : l \in Feeding, k \in Feeding}
              \union FpPrograms
=============================================================================
