----------------------------- MODULE Instructions -----------------------------
(***************************************************************************)
(* The tables of instruction.cpp: the instructions by the type of their    *)
(* operands, the operands each accepts, and the size the first pass of the *)
(* assembler takes from them.                                              *)
(***************************************************************************)
EXTENDS Tokens

(* Instructions: instructionNameMap and instructionAliasMap, by the type   *)
(* of their operands.                                                      *)

R_TYPE_D_S_T == {"add", "addu", "and", "nor", "or", "sub", "subu", "xor",
                 "slt", "sltu"}
R_TYPE_D_T_S == {"sllv", "srav", "srlv"}
R_TYPE_D_T_H == {"sll", "sra", "srl"}
R_TYPE_D     == {"mfhi", "mflo"}
R_TYPE_S     == {"mthi", "mtlo", "jalr", "jr"}
R_TYPE_S_T   == {"div", "divu", "mult", "multu"}
Loads        == {"lb", "lbu", "lh", "lhu", "lw"}
Stores       == {"sb", "sh", "sw"}
I_TYPE_T_S_I == {"addi", "addiu", "andi", "ori", "xori", "slti", "sltiu"}
                \union Loads \union Stores
I_TYPE_S_T_L == {"beq", "bne"}
I_TYPE_T_I   == {"lui"}
J_TYPE_L     == {"j", "jal"}

CP0_TYPE_T_D      == {"mfc0", "mtc0"}
CP1_TYPE_SP_D_S   == {"abs.s", "neg.s", "sqrt.s", "mov.s", "cvt.d.s"}
CP1_TYPE_DP_D_S   == {"abs.d", "neg.d", "sqrt.d", "mov.d", "cvt.s.d"}
CP1_TYPE_SP_D_S_T == {"add.s", "sub.s", "mul.s", "div.s"}
CP1_TYPE_DP_D_S_T == {"add.d", "sub.d", "mul.d", "div.d"}
CP1_TYPE_SP_S_T_C == {"c.eq.s", "c.lt.s", "c.le.s"}
CP1_TYPE_DP_S_T_C == {"c.eq.d", "c.lt.d", "c.le.d"}
CP1_TYPE_T_S      == {"mfc1", "mtc1"}
CP1_TYPE_T_S_I    == {"lwc1", "ldc1", "swc1", "sdc1"}
CP1_TYPE_L        == {"bc1f", "bc1t"}

CP1_TYPE_D_S   == CP1_TYPE_SP_D_S \union CP1_TYPE_DP_D_S
CP1_TYPE_D_S_T == CP1_TYPE_SP_D_S_T \union CP1_TYPE_DP_D_S_T
CP1_TYPE_S_T_C == CP1_TYPE_SP_S_T_C \union CP1_TYPE_DP_S_T_C
CP1Names       == CP1_TYPE_D_S \union CP1_TYPE_D_S_T \union CP1_TYPE_S_T_C
                  \union CP1_TYPE_T_S \union CP1_TYPE_T_S_I \union CP1_TYPE_L

BranchPseudo     == {"blt", "bgt", "ble", "bge"}
BranchZeroPseudo == {"bltz", "bgtz", "blez", "bgez"}
PseudoNames      == {"beqz", "bnez", "li", "la", "move", "mul", "nop", "subi"}
                    \union BranchPseudo \union BranchZeroPseudo

(* validateInstructionArgs and validatePseudoInstruction *)
Patterns(name) ==
  CASE name \in R_TYPE_D_S_T \union R_TYPE_D_T_S \union {"mul"}
               \union CP1_TYPE_D_S_T
                                      -> {<<"reg", "reg", "reg">>}
    [] name \in R_TYPE_D_T_H \union I_TYPE_T_S_I \union {"subi"}
               \union CP1_TYPE_T_S_I
                                      -> {<<"reg", "reg", "imm">>}
    [] name \in I_TYPE_S_T_L \union BranchPseudo
                                      -> {<<"reg", "reg", "ref">>}
    [] name \in R_TYPE_S_T \union {"move"} \union CP0_TYPE_T_D
               \union CP1_TYPE_D_S \union CP1_TYPE_S_T_C \union CP1_TYPE_T_S
                                      -> {<<"reg", "reg">>}
    [] name \in R_TYPE_D \union R_TYPE_S   -> {<<"reg">>}
    [] name \in I_TYPE_T_I \union {"li"}   -> {<<"reg", "imm">>}
    [] name \in BranchZeroPseudo \union {"beqz", "bnez"} -> {<<"reg", "ref">>}
    [] name = "la"         -> {<<"reg", "ref">>, <<"reg", "imm">>}
    [] name \in J_TYPE_L \union CP1_TYPE_L -> {<<"ref">>}
    [] name = "break"      -> {<<>>, <<"imm">>}
    [] name \in {"nop", "syscall", "eret"} -> {<<>>}

(* nameToInstructionOp: the alias of a name is taken if its operands fit. *)
IsAlias(name, args) ==
  \/ /\ name \in Loads \union Stores
     /\ Categories(args) \in {<<"reg", "imm">>, <<"reg", "ref">>}
  \/ /\ name \in {"div", "divu"}
     /\ Categories(args) = <<"reg", "reg", "reg">>

IsPseudo(name, args) == IsAlias(name, args) \/ name \in PseudoNames

(* The alias rows of the table overlooked. *)
InstrSizeNoAlias(name, args) ==
  IF name \in {"la", "mul"} \union BranchPseudo \union BranchZeroPseudo
  THEN 8 ELSE 4

InstrSize(name, args) ==
  IF \/ IsAlias(name, args)
     \/ name \in {"la", "mul"} \union BranchPseudo \union BranchZeroPseudo
  THEN 8 ELSE 4
=============================================================================
