------------------------------ MODULE Toolchain ------------------------------
(***************************************************************************)
(* An assembled program on the CPU: Parser::parse, State::loadProgram and  *)
(* the steps of Simulator::step without devices or exception handler.      *)
(*                                                                         *)
(* It relates the two ends.  While the machine runs, `before` keeps the    *)
(* registers and memory from the start of a source line and `doing` the    *)
(* number of that line (0 where a line was entered in its middle), and the *)
(* properties compare what the line did with what it says: the expansion,  *)
(* the encoding, the layout and the execution are all in between.          *)
(***************************************************************************)
EXTENDS Assembler, Cp1

CONSTANTS
  Values,       \* what earlier code may have left in registers
  Stack,        \* memSectionOffset(STACK)
  MaxSteps      \* bound: the instructions of a run

VARIABLES
  reg,          \* registers: a function from their names, pc, hi and lo
  mem,          \* the bytes of memory that are not instructions
  run,          \* "off", "running", "ended", "stopped", "unmodelled"
  exc,          \* what the last instruction threw
  steps,        \* instructions executed
  before,       \* history: reg and mem at the start of the line
  doing         \* history: that line

cpuVars == <<reg, mem, run, exc, steps, before, doing>>
vars    == <<asmVars, cpuVars>>

RegNames   == Registers \union {"pc", "hi", "lo", "flag"}
TextSecEnd == 2 ^ (W - 4)

-----------------------------------------------------------------------------
ToolchainInit ==
  /\ Init
  /\ reg = [r \in RegNames |-> 0] /\ mem = <<>>
  /\ run = "off" /\ exc = "none" /\ steps = 0
  /\ before = [reg |-> reg, mem |-> mem] /\ doing = 0

Assemble == AsmNext /\ UNCHANGED cpuVars

IsCode(c)   == "word" \in DOMAIN c
CodeAt(a)   == {c \in CellsAt(a) : IsCode(c)}
DataAt(a)   == CellsAt(a) \ CodeAt(a)
FirstByteOf == {a \in Word : \E c \in CodeAt(a) : c.byte = 0}

Placed == UNION {Offset[s] .. Offset[s] + Len(layout[s]) - 1 : s \in Sections}

(* initProgram and loadProgram. *)
Boot ==
  /\ phase = "done" /\ run = "off"
  /\ \E v, w \in Values :
       reg' = [reg EXCEPT !.pc = Offset["text"], !.sp = Stack,
                          !.t0 = v, !.t1 = w, !.f0 = v, !.f1 = w,
                          !.f2 = w, !.f3 = v]
  /\ mem' = [a \in {x \in Placed : DataAt(x) # {}} |->
               (CHOOSE c \in DataAt(a) : TRUE).val]
  /\ run' = "running"
  /\ UNCHANGED <<asmVars, exc, steps, before, doing>>

(* What step does before it executes: nothing at pc, pc beyond user and    *)
(* kernel text, or misaligned.                                             *)
CannotFetch ==
  \/ CellsAt(reg.pc) = {} /\ reg.pc \notin DOMAIN mem
  \/ Signed(reg.pc) >= TextSecEnd
  \/ reg.pc % 4 # 0

Running == run = "running" /\ steps < MaxSteps

End ==
  /\ Running /\ CannotFetch
  /\ run' = "ended"
  /\ UNCHANGED <<asmVars, reg, mem, exc, steps, before, doing>>

(* Executing data, a misplaced instruction, or an instruction that reads   *)
(* or writes instructions: their bits are not modelled.                    *)
Instrs == {c \in CodeAt(reg.pc) : c.byte = 0}
Wild   == \/ Instrs = {}
          \/ \E c \in Instrs : \E a \in Touches(c.word, reg) : CodeAt(a) # {}

Leave ==
  /\ Running /\ ~CannotFetch /\ Wild
  /\ run' = "unmodelled"
  /\ UNCHANGED <<asmVars, reg, mem, exc, steps, before, doing>>

Execute ==
  /\ Running /\ ~CannotFetch /\ ~Wild
  /\ \E c \in Instrs :
       /\ \E o \in ExecInstruction(c.word, [reg EXCEPT !.pc = Wrap(@ + 4)],
                                   mem) :
            /\ reg' = o.reg /\ mem' = o.mem /\ exc' = o.exc
            /\ run' = IF o.exc = "none" THEN "running" ELSE "stopped"
       /\ before' = IF c.arg = 1 THEN [reg |-> reg, mem |-> mem] ELSE before
       /\ doing'  = IF c.arg = 1 \/ doing = c.line THEN c.line ELSE 0
  /\ steps' = steps + 1
  /\ UNCHANGED asmVars

Next == Assemble \/ Boot \/ End \/ Leave \/ Execute

Spec == ToolchainInit /\ [][Next]_vars

-----------------------------------------------------------------------------
(* What a source line says. *)

line   == program[doing]
name   == line.name
arg(k) == line.args[k]

(* The arguments that name a double. *)
Wide(k) == \/ name \in Doubles \ {"cvt.s.d"}
           \/ name = "cvt.s.d" /\ k = 2
           \/ name \in {"cvt.d.s", "ldc1", "sdc1"} /\ k = 1

Held(r, k) == IF Wide(k) THEN GetDouble(r, arg(k).reg) ELSE r[arg(k).reg]
Bits(k)    == IF Wide(k) THEN 2 * W ELSE W

(* The operand as the machine had it when the line began. *)
Operand(k) ==
  CASE arg(k).cat = "reg" -> Held(before.reg, k)
    [] arg(k).cat = "imm" -> arg(k).imm
    [] arg(k).cat = "ref" -> labels[arg(k).ref]
Dest     == Held(reg, 1)
IntOf(k) == IF arg(k).cat = "imm" THEN Operand(k) ELSE Signed(Operand(k))

Arity == Len(line.args)

InCode == doing # 0
MidLine ==
  \E c \in CodeAt(reg.pc) : c.line = doing /\ c.arg = 2 /\ c.byte = 0

(* The line is done and no other has begun. *)
Completed == InCode /\ run = "running" /\ ~MidLine
Trapped   == InCode /\ run = "stopped"

LastByte == CHOOSE a \in Placed : /\ \E c \in CellsAt(a) : c.line = doing
                                  /\ \A c \in CellsAt(a + 1) : c.line # doing
AfterLine == LastByte + 1

Memory == Loads \union Stores \union CP1_TYPE_T_S_I
AllStores == Stores \union {"swc1", "sdc1"}
Alias  == name \in Memory /\ Arity = 2
Address == IF Alias THEN Wrap(Operand(2)) ELSE Wrap(Operand(2) + Operand(3))

(* The immediates a line can mean: others are cut to H bits in silence,    *)
(* and a negative offset of a load or store is added as a positive one.    *)
Meant ==
  CASE name \in {"addi", "addiu", "slti", "sltiu"} ->
         arg(3).imm \in -(HalfMod \div 2) .. HalfMod \div 2 - 1
    [] name = "subi" -> -arg(3).imm \in -(HalfMod \div 2) .. HalfMod \div 2 - 1
    [] name = "li"   -> arg(2).imm \in -(HalfMod \div 2) .. HalfMod \div 2 - 1
    [] name = "lui"  -> arg(2).imm \in 0 .. HalfMod - 1
    [] name \in {"andi", "ori", "xori"} -> arg(3).imm \in 0 .. HalfMod - 1
    [] name \in Memory /\ Arity = 3     -> arg(3).imm \in 0 .. HalfMod - 1
    [] OTHER -> TRUE

Bit(v, k) == (v \div 2 ^ k) % 2

(* For each bit of the result, the number of ones among the operands'. *)
Ones(k, n) == Bit(Wrap(Operand(2)), n) + Bit(Wrap(Operand(3)), n)
Bitwise(S) == \A n \in 0 .. W - 1 : Bit(Dest, n) = IF Ones(2, n) \in S THEN 1
                                                   ELSE 0

Places == Operand(3) % W

(* q and rem are the quotient of a by b, toward zero, and what is left. *)
Divides(a, b, q, rem) ==
  /\ a = q * b + rem
  /\ Magnitude(rem) < Magnitude(b)
  /\ rem # 0 => (rem < 0) = (a < 0)

DividesTo(a, b, q) == Divides(a, b, q, a - q * b)

(* The bytes of the value are those of memory, in order, and what is above *)
(* them repeats the sign or is zero.                                       *)
LoadsValue ==
  LET n == Width(name)
  IN  /\ \A k \in 0 .. n - 1 :
           ByteOf(Dest, n, k) = ByteAt(before.mem, Wrap(Address + k))
      /\ IF name \in {"lbu", "lhu"} THEN Dest < 2 ^ (B * n)
         ELSE Signed(Dest) \in -(2 ^ (B * n - 1)) .. 2 ^ (B * n - 1) - 1

(* A float has four bytes in the order of a word; a double has those of    *)
(* its lower word and then those of its upper word.                        *)
FpByte(v, k) == ByteOf(IF k < 4 THEN v % WordMod ELSE v \div WordMod, 4, k % 4)
FpBytes      == 0 .. (IF name \in {"ldc1", "sdc1"} THEN 7 ELSE 3)

FpTransfers(m) ==
  \A k \in FpBytes : ByteAt(m, Wrap(Address + k)) = FpByte(Held(reg, 1), k)

StoresValue ==
  LET n   == IF name = "sdc1" THEN 8 ELSE Width(name)
      own == {Wrap(Address + k) : k \in 0 .. n - 1}
  IN  /\ IF name \in {"swc1", "sdc1"} THEN FpTransfers(mem)
         ELSE \A k \in 0 .. n - 1 :
           ByteAt(mem, Wrap(Address + k)) = ByteOf(Operand(1), n, k)
      /\ \A a \in (DOMAIN mem \union DOMAIN before.mem) \ own :
           ByteAt(mem, a) = ByteAt(before.mem, a)

(* Floats are in the order of their bits read as a sign and a magnitude,   *)
(* but for those that are no number.                                       *)
InOrder(v) == IF v < 2 ^ (Bits(1) - 1) THEN v ELSE 2 ^ (Bits(1) - 1) - v
Infinity   == (2 ^ EBits - 1) * 2 ^ (Bits(1) - 1 - EBits)
Number(v)  == InOrder(v) \in -Infinity .. Infinity

HoldsOfFloats ==
  LET x == InOrder(Operand(1))
      y == InOrder(Operand(2))
  IN  /\ Number(Operand(1)) /\ Number(Operand(2))
      /\ \/ name \in {"c.eq.s", "c.eq.d", "c.le.s", "c.le.d"} /\ x = y
         \/ name \in {"c.lt.s", "c.lt.d", "c.le.s", "c.le.d"} /\ x < y

Result ==
  CASE name \in {"add", "addu", "addi", "addiu"} ->
         Dest = Wrap(Operand(2) + Operand(3))
    [] name \in {"sub", "subu", "subi"} -> Dest = Wrap(Operand(2) - Operand(3))
    [] name \in {"li", "la", "move"}    -> Dest = Wrap(Operand(2))
    [] name = "lui"                     -> Dest = Wrap(Operand(2) * HalfMod)
    [] name \in {"and", "andi"}         -> Bitwise({2})
    [] name \in {"or", "ori"}           -> Bitwise({1, 2})
    [] name \in {"xor", "xori"}         -> Bitwise({1})
    [] name = "nor"                     -> Bitwise({0})
    [] name \in {"sll", "sllv"}         -> Dest = Wrap(Operand(2) * 2 ^ Places)
    [] name \in {"srl", "srlv"}         -> Signed(Operand(2)) >= 0 =>
                                             Dest = Operand(2) \div 2 ^ Places
    [] name \in {"sra", "srav"}         -> Places # 0 \/ IntOf(2) >= 0 =>
                                             Signed(Dest) = IntOf(2) \div 2 ^ Places
    [] name \in {"slt", "slti"}         -> Dest = Bool(IntOf(2) < IntOf(3))
    [] name \in {"sltu", "sltiu"}       -> Dest = Bool(Operand(2)
                                                       < Wrap(Operand(3)))
    [] name = "mul"                     -> Dest = Wrap(IntOf(2) * IntOf(3))
    [] name = "mult"  -> Signed(reg.hi) * WordMod + reg.lo = IntOf(1) * IntOf(2)
    [] name = "multu" -> reg.hi * WordMod + reg.lo = Operand(1) * Operand(2)
    [] name = "div"   -> IF Arity = 3 THEN DividesTo(IntOf(2), IntOf(3), Signed(Dest))
                         ELSE Divides(IntOf(1), IntOf(2), Signed(reg.lo),
                                      Signed(reg.hi))
    [] name = "divu"  -> IF Arity = 3
                         THEN DividesTo(Operand(2), Operand(3), Dest)
                         ELSE Divides(Operand(1), Operand(2), reg.lo, reg.hi)
    [] name = "mfhi"  -> Dest = before.reg.hi
    [] name = "mflo"  -> Dest = before.reg.lo
    [] name = "mthi"  -> reg.hi = Operand(1)
    [] name = "mtlo"  -> reg.lo = Operand(1)
    [] name \in Loads -> LoadsValue
    [] name \in {"lwc1", "ldc1"} -> FpTransfers(before.mem)
    [] name = "mfc1" -> Dest = Operand(2)
    [] name = "mtc1" -> Held(reg, 2) = Operand(1)
    [] name \in {"mov.s", "mov.d"} -> Dest = Operand(2)
    [] name \in {"neg.s", "neg.d"} ->     \* the sign bit and no other
         Dest \in {Operand(2) + s * 2 ^ (Bits(1) - 1) : s \in {1, -1}}
    [] name \in {"abs.s", "abs.d"} ->
         /\ Dest < 2 ^ (Bits(1) - 1)
         /\ Dest \in {Operand(2), Operand(2) - 2 ^ (Bits(1) - 1)}
    [] name \in CP1_TYPE_S_T_C -> (reg.flag = 1) = HoldsOfFloats
    [] name \in {"jal", "jalr"} -> reg.ra = AfterLine
    [] OTHER          -> TRUE

(* The registers a line may write. *)
Written ==
  (CASE name \in {"mult", "multu", "mthi", "mtlo"} -> {"hi", "lo"}
     [] name \in {"div", "divu"} /\ Arity = 2      -> {"hi", "lo"}
     [] name \in {"mul", "div", "divu"} /\ Arity = 3 ->
          {"hi", "lo", arg(1).reg}
     [] name \in {"jal", "jalr"}                   -> {"ra"}
     [] name \in {"j", "jr", "beq", "bne", "beqz", "bnez", "nop"}
                 \union AllStores \union BranchPseudo \union BranchZeroPseudo
                 \union CP1_TYPE_L -> {}
     [] name \in CP1_TYPE_S_T_C -> {"flag"}
     [] name = "mtc1"           -> {arg(2).reg}
     [] OTHER -> {arg(1).reg} \union
                 (IF Wide(1) THEN {UpperOf[arg(1).reg]} ELSE {}))
  \union (IF Alias \/ name \in {"la"} \union BranchPseudo \union BranchZeroPseudo
          THEN {"at"} ELSE {})

Kept(names) == \A r \in RegNames \ names : reg[r] = before.reg[r]

(* A line that has run has computed what it says and nothing else: the     *)
(* registers it does not name, but for $at where it is expanded, and the   *)
(* bytes it does not store to are as they were.                            *)
ComputesAsWritten ==
  Completed /\ Meant =>
    /\ Result
    /\ Kept(Written \union {"pc"})
    /\ IF name \in AllStores THEN StoresValue ELSE mem = before.mem

Taken ==
  CASE name = "beq"  -> Operand(1) = Operand(2)
    [] name = "bne"  -> Operand(1) # Operand(2)
    [] name = "beqz" -> Operand(1) = 0
    [] name = "bnez" -> Operand(1) # 0
    [] name = "blt"  -> IntOf(1) < IntOf(2)
    [] name = "bgt"  -> IntOf(1) > IntOf(2)
    [] name = "ble"  -> IntOf(1) <= IntOf(2)
    [] name = "bge"  -> IntOf(1) >= IntOf(2)
    [] name = "bltz" -> IntOf(1) < 0
    [] name = "bgtz" -> IntOf(1) > 0
    [] name = "blez" -> IntOf(1) <= 0
    [] name = "bgez" -> IntOf(1) >= 0
    [] name \in CP1_TYPE_L -> (before.reg.flag = 1) = (name = "bc1t")
    [] OTHER         -> FALSE

BackwardCp1 == name \in CP1_TYPE_L /\ Taken /\ Operand(1) < AfterLine

(* The target of a jump is within reach of its field: the same sixteenth   *)
(* of the addresses as the jump, and the low 2^JBits bytes of it.          *)
Reachable(a) ==
  Region(a) = Region(AfterLine) /\ a - Region(a) < 2 ^ JBits

(* Execution goes to the label a branch or jump names when its condition   *)
(* holds, and otherwise past the last byte of the line.  The branches of   *)
(* co-processor 1 do so forward only.                                      *)
GoesWhereWritten ==
  Completed /\ ~BackwardCp1 =>
    CASE name \in {"j", "jal"} ->
           Reachable(Operand(1)) /\ Operand(1) % 4 = 0 => reg.pc = Operand(1)
      [] name = "jr"   -> reg.pc = Operand(1)
      [] name = "jalr" -> arg(1).reg # "ra" => reg.pc = Operand(1)
      [] Taken -> Operand(Arity) % 4 = 0 => reg.pc = Operand(Arity)
      [] OTHER -> reg.pc = AfterLine

Misaligned == Address % Width(name) # 0

(* A double in an odd register. *)
OddPair == \E k \in 1 .. Arity :
             arg(k).cat = "reg" /\ Wide(k) /\ arg(k).reg \notin DOMAIN UpperOf

(* What a line must throw. *)
Due ==
  CASE name \in {"add", "addi"} /\ ~FitsInt(IntOf(2) + IntOf(3)) -> "overflow"
    [] name \in {"sub", "subi"} /\ ~FitsInt(IntOf(2) - IntOf(3)) -> "overflow"
    [] name \in {"div", "divu"} /\ IntOf(Arity) = 0 -> "division by zero"
    [] OddPair                       -> "runtime error"
    [] name \in Memory \ AllStores /\ Misaligned -> "load"
    [] name \in AllStores /\ Misaligned -> "store"
    [] name = "break"                -> "exit"
    [] OTHER                         -> "none"

(* A line raises the exception its operands call for and no other, and one *)
(* that does has changed nothing a handler could see but $at.  The         *)
(* quotient that does not fit kills the process.                           *)
TrapsWhenSpecified ==
  /\ Completed /\ Meant => Due = "none"
  /\ Trapped /\ Meant =>
       /\ exc = "undefined" => /\ name = "div"
                               /\ IntOf(Arity) = -1
                               /\ IntOf(Arity - 1) = -(WordMod \div 2)
       /\ exc # "undefined" => exc = Due
       /\ Kept({"pc", "at"}) /\ mem = before.mem

(* What the comments of cpu.cpp say of SRL and SRLV: zero-extended. *)
LogicalShifts ==
  Completed /\ name \in {"srl", "srlv"} => Dest = Operand(2) \div 2 ^ Places

(* A double goes to its pair of registers as the directive wrote it, if    *)
(* nothing was stored over it: ldc1 takes the first of its words as the    *)
(* "Lower 32 bits".                                                        *)
DoublesLoadAsWritten ==
  Completed /\ name = "ldc1" =>
    \A c \in CellsAt(Address) :
      /\ c.byte = 0 /\ program[c.line].name = "double"
      /\ \A k \in 0 .. 7 : \A d \in CellsAt(Address + k) :
           d.val = ByteAt(before.mem, Address + k)
      => Dest = program[c.line].args[c.arg].imm

(* Registers hold words and memory holds bytes, whatever has been loaded,  *)
(* computed, multiplied or jumped to.                                      *)
ToolchainTypeOK ==
  /\ reg \in [RegNames -> Word]
  /\ \A a \in DOMAIN mem : a \in Word /\ mem[a] \in 0 .. ByteMod - 1
  /\ run \in {"off", "running", "ended", "stopped", "unmodelled"}
  /\ doing \in 0 .. Len(program) /\ steps \in 0 .. MaxSteps
=============================================================================
