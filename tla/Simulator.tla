----------------------------- MODULE Simulator -----------------------------
(***************************************************************************)
(* The simulator's step function (Simulator::step, simulator.cpp) with     *)
(* everything it calls that a program can observe: the memory-mapped       *)
(* keyboard and display, the interrupts they raise, exceptions, eret, and  *)
(* the ways a run ends.                                                    *)
(*                                                                         *)
(* The program is abstracted to the effects its instructions can have on   *)
(* that state.  Code maps each loaded instruction word to the set of the   *)
(* abstract instructions it may act as: a singleton for a concrete         *)
(* program, more for a program whose data is not modelled.  Addresses are  *)
(* byte addresses of a machine with AddrSpace of them; those from KText up *)
(* are the ones whose sign bit is set in the code.                         *)
(*                                                                         *)
(* A character is a model value; NUL is the zero byte.  A word of the      *)
(* device is written whole, as lw and sw do.                               *)
(***************************************************************************)
EXTENDS Integers, Sequences, FiniteSets

CONSTANTS
  IOMode,       \* "syscall" or "mmio"
  AddrSpace,    \* the number of addresses (2^32 in the code)
  Text,         \* memSectionOffset(TEXT)
  TextSecEnd,   \* TEXT_SEC_END
  KText,        \* memSectionOffset(KTEXT), where the handler is
  Code,         \* loaded words: [word address -> set of instructions]
  Chars,        \* the characters other than NUL
  NUL,          \* the zero byte
  InitStream,   \* what the input stream holds when the program is loaded
  MaxTyped,     \* bound: the characters a behaviour ever has on its input
  MaxStored     \* bound: the characters a behaviour ever sends to output

Word == 0 .. AddrSpace - 1
Byte == Chars \union {NUL}

Causes == {"keyboard", "display", "load", "syscall", "overflow"}

Instr ==
     [op : {"alu", "lw_input_ready", "lw_output_ready", "lw_input_data",
            "sw_output_data", "sw_read_only", "mfc0_epc", "addi_k",
            "mtc0_epc", "jr_ra", "eret", "exit", "print_char", "read_char"}]
  \union [op : {"jump", "jal", "beqz"}, to : Word]
  \union [op : {"fault"}, cause : {"load", "syscall", "overflow"}]
  \union [op : {"mtc0_status"}, ie : BOOLEAN, kbd : BOOLEAN, dsp : BOOLEAN]

ASSUME ModeAssumption == IOMode \in {"syscall", "mmio"}
ASSUME LayoutAssumption ==
  /\ AddrSpace \in Nat /\ AddrSpace > 4
  /\ Text \in Word /\ TextSecEnd \in Word /\ KText \in Word
  /\ 0 < Text /\ Text < TextSecEnd /\ TextSecEnd < KText
  /\ Text % 4 = 0 /\ KText % 4 = 0
ASSUME CodeAssumption ==
  /\ DOMAIN Code \subseteq Word
  /\ \A a \in DOMAIN Code : a % 4 = 0 /\ Code[a] \subseteq Instr
ASSUME StreamAssumption == NUL \notin Chars /\ InitStream \in Seq(Byte)

VARIABLES
  pc,           \* registers[PC]
  reg,          \* the registers the modelled instructions use
  cp0,          \* STATUS (as its three bits), EPC and CAUSE
  dev,          \* the four MMIO words and the two streams of StreamHandle
  outcome,      \* how step returned: "running", or what it threw
  typed,        \* history: everything that was put on the input stream
  latched,      \* history: the characters readMMIO put in input_data
  loaded,       \* history: the characters the program read
  stored,       \* history: the characters the program sent to the display
  clobbered,    \* history: a store replaced a character not yet printed
  resume,       \* history: where the user program has to go on
  detoured      \* history: the handler will not return there, by its own act

vars == <<pc, reg, cp0, dev, outcome, typed, latched, loaded, stored,
          clobbered, resume, detoured>>

UserAddr(a) == a < KText            \* static_cast<uint32_t>(a) < KTEXT
InUser      == UserAddr(pc)

Valid(a)    == \E w \in DOMAIN Code : a \in w .. w + 3
NextAddr(a) == (a + 4) % AddrSpace

-----------------------------------------------------------------------------
(* The pump: writeMMIO and readMMIO at the head of step, outside kernel    *)
(* text.  A step that raises the display interrupt does not call readMMIO. *)

(* Faulty variants of the definitions below (and further down) are named   *)
(* for their fault; the properties are checked to fail on them.            *)
PumpsOnlyIfEnabled == IOMode = "mmio" /\ InUser /\ cp0.ie

Pumps       == IOMode = "mmio" /\ InUser
PutsCharWithoutReadyTest == Pumps
PutsChar    == Pumps /\ dev.outReady = 0
DisplayIntr == PutsChar /\ cp0.ie /\ cp0.dsp

ReadsStreamWithoutReadyTest == Pumps /\ ~DisplayIntr /\ dev.input # <<>>
ReadsStream == Pumps /\ ~DisplayIntr /\ dev.inReady = 0 /\ dev.input # <<>>
LatchesNulToo == ReadsStream
Latches     == ReadsStream /\ Head(dev.input) # NUL
KeyIntr     == Latches /\ cp0.ie /\ cp0.kbd

(* The devices after the pump. *)
Pumped ==
  [inReady  |-> IF Latches THEN 1 ELSE dev.inReady,
   inData   |-> IF Latches THEN Head(dev.input) ELSE dev.inData,
   outReady |-> IF PutsChar THEN 1 ELSE dev.outReady,
   outData  |-> IF PutsChar THEN NUL ELSE dev.outData,
   input    |-> IF ReadsStream THEN Tail(dev.input) ELSE dev.input,
   output   |-> IF PutsChar THEN Append(dev.output, dev.outData)
                ELSE dev.output]

LatchedNow == IF Latches THEN Append(latched, Head(dev.input)) ELSE latched

-----------------------------------------------------------------------------
(* The ways an instruction ends. *)

(* The instruction is done and execution goes on at address a. *)
Continue(a) ==
  /\ pc' = a
  /\ resume' = IF InUser THEN a ELSE resume
  /\ detoured' = IF InUser THEN ~UserAddr(a) ELSE detoured \/ UserAddr(a)
  /\ UNCHANGED outcome

TrapPastFault(cause) ==
  /\ cp0' = [cp0 EXCEPT !.epc = NextAddr(pc), !.cause = cause]
  /\ pc' = KText
  /\ resume' = IF InUser THEN pc ELSE resume
  /\ detoured' = ~InUser
  /\ UNCHANGED outcome

TrapWithoutHandlerTest(cause) ==
  /\ cp0' = [cp0 EXCEPT !.epc = pc, !.cause = cause]
  /\ pc' = KText
  /\ resume' = IF InUser THEN pc ELSE resume
  /\ detoured' = ~InUser
  /\ UNCHANGED outcome

(* Simulator::except: pc was incremented, so pc - 4 is the instruction     *)
(* that did not complete.                                                  *)
Trap(cause) ==
  IF Valid(KText)
  THEN /\ cp0' = [cp0 EXCEPT !.epc = pc, !.cause = cause]
       /\ pc' = KText
       /\ resume' = IF InUser THEN pc ELSE resume
       /\ detoured' = ~InUser
       /\ UNCHANGED outcome
  ELSE /\ outcome' = "runtimeError"
       /\ pc' = NextAddr(pc)
       /\ UNCHANGED <<cp0, resume, detoured>>

(* An exception that leaves step; pc is a. *)
Throw(kind, a) ==
  /\ outcome' = kind
  /\ pc' = a
  /\ UNCHANGED <<cp0, resume, detoured>>

NoIO == dev' = Pumped /\ latched' = LatchedNow
        /\ UNCHANGED <<loaded, stored, clobbered>>

-----------------------------------------------------------------------------
(* The abstract instructions (execInstruction and what it calls). *)

(* An instruction on data that is not modelled. *)
Alu(i) ==
  /\ i.op = "alu"
  /\ Continue(NextAddr(pc))
  /\ NoIO /\ UNCHANGED <<reg, cp0>>

(* lw of a ready word. *)
LoadReady(i) ==
  /\ \/ /\ i.op = "lw_input_ready"
        /\ reg' = [reg EXCEPT !.flag = Pumped.inReady]
     \/ /\ i.op = "lw_output_ready"
        /\ reg' = [reg EXCEPT !.flag = Pumped.outReady]
  /\ Continue(NextAddr(pc))
  /\ NoIO /\ UNCHANGED cp0

LoadInputWithoutSideEffect(i) ==
  /\ i.op = "lw_input_data"
  /\ reg' = [reg EXCEPT !.v = Pumped.inData]
  /\ dev' = Pumped
  /\ latched' = LatchedNow
  /\ loaded' = IF Pumped.inReady = 1 THEN Append(loaded, Pumped.inData)
               ELSE loaded
  /\ Continue(NextAddr(pc))
  /\ UNCHANGED <<cp0, stored, clobbered>>

(* lw of input_data: readSideEffect clears input_ready. *)
LoadInput(i) ==
  /\ i.op = "lw_input_data"
  /\ reg' = [reg EXCEPT !.v = Pumped.inData]
  /\ dev' = [Pumped EXCEPT !.inReady = 0]
  /\ latched' = LatchedNow
  /\ loaded' = IF Pumped.inReady = 1 THEN Append(loaded, Pumped.inData)
               ELSE loaded
  /\ Continue(NextAddr(pc))
  /\ UNCHANGED <<cp0, stored, clobbered>>

(* sw to output_data: writeSideEffect clears output_ready. *)
StoreOutput(i) ==
  /\ i.op = "sw_output_data"
  /\ Len(stored) < MaxStored
  /\ dev' = [Pumped EXCEPT !.outReady = 0, !.outData = reg.v]
  /\ stored' = Append(stored, reg.v)
  /\ clobbered' = (clobbered \/ Pumped.outReady = 0)
  /\ latched' = LatchedNow
  /\ Continue(NextAddr(pc))
  /\ UNCHANGED <<reg, cp0, loaded>>

(* sw to a read-only MMIO word: a runtime_error, not an exception of the   *)
(* simulated machine.                                                      *)
StoreReadOnly(i) ==
  /\ i.op = "sw_read_only"
  /\ Throw("runtimeError", NextAddr(pc))
  /\ NoIO /\ UNCHANGED reg

FaultUncaught(i) ==
  /\ i.op = "fault"
  /\ Throw("execExcept", NextAddr(pc))
  /\ NoIO /\ UNCHANGED reg

(* An instruction that throws ExecExcept. *)
Fault(i) ==
  /\ i.op = "fault"
  /\ Trap(i.cause)
  /\ NoIO /\ UNCHANGED reg

Jump(i) ==
  /\ \/ i.op = "jump" /\ Continue(i.to)
     \/ i.op = "beqz" /\ Continue(IF reg.flag = 0 THEN i.to ELSE NextAddr(pc))
     \/ i.op = "jr_ra" /\ Continue(reg.ra)
  /\ NoIO /\ UNCHANGED <<reg, cp0>>

Call(i) ==              \* pc was incremented, so it is the return address
  /\ i.op = "jal"
  /\ reg' = [reg EXCEPT !.ra = NextAddr(pc)]
  /\ Continue(i.to)
  /\ NoIO /\ UNCHANGED cp0

WriteStatus(i) ==
  /\ i.op = "mtc0_status"
  /\ cp0' = [cp0 EXCEPT !.ie = i.ie, !.kbd = i.kbd, !.dsp = i.dsp]
  /\ Continue(NextAddr(pc))
  /\ NoIO /\ UNCHANGED reg

ReadEpcBeforeFault(i) ==
  /\ i.op = "mfc0_epc" /\ reg' = [reg EXCEPT !.k = cp0.epc - 4]
  /\ Continue(NextAddr(pc))
  /\ NoIO /\ UNCHANGED cp0

ReadEpc(i) ==
  /\ \/ i.op = "mfc0_epc" /\ reg' = [reg EXCEPT !.k = cp0.epc]
     \/ i.op = "addi_k"   /\ reg' = [reg EXCEPT !.k = NextAddr(reg.k)]
  /\ Continue(NextAddr(pc))
  /\ NoIO /\ UNCHANGED cp0

WriteEpc(i) ==
  /\ i.op = "mtc0_epc"
  /\ cp0' = [cp0 EXCEPT !.epc = reg.k]
  /\ pc' = NextAddr(pc)
  /\ resume' = IF InUser THEN NextAddr(pc) ELSE resume
  /\ detoured' = ~(InUser /\ UserAddr(NextAddr(pc)))
  /\ NoIO /\ UNCHANGED <<reg, outcome>>

EretWithoutJump(i) ==
  /\ i.op = "eret"
  /\ cp0' = [cp0 EXCEPT !.epc = 0, !.cause = "none"]
  /\ Continue(NextAddr(pc))
  /\ NoIO /\ UNCHANGED reg

(* execEret. *)
Eret(i) ==
  /\ i.op = "eret"
  /\ pc' = cp0.epc
  /\ cp0' = [cp0 EXCEPT !.epc = 0, !.cause = "none"]
  /\ resume' = IF InUser THEN cp0.epc ELSE resume
  /\ detoured' = IF InUser THEN ~UserAddr(cp0.epc) ELSE detoured
  /\ NoIO /\ UNCHANGED <<reg, outcome>>

(* The exit syscalls and break: ExecExit leaves step. *)
Exit(i) ==
  /\ i.op = "exit"
  /\ Throw("exit", NextAddr(pc))
  /\ NoIO /\ UNCHANGED reg

(* The character syscalls, refused with an exception in MMIO mode. *)
RefusedSyscall(i) ==
  /\ i.op \in {"print_char", "read_char"}
  /\ IOMode # "syscall"
  /\ Trap("syscall")
  /\ NoIO /\ UNCHANGED reg

PrintChar(i) ==
  /\ i.op = "print_char"
  /\ IOMode = "syscall"
  /\ Len(stored) < MaxStored
  /\ dev' = [dev EXCEPT !.output = Append(dev.output, reg.v)]
  /\ stored' = Append(stored, reg.v)
  /\ Continue(NextAddr(pc))
  /\ UNCHANGED <<reg, cp0, latched, loaded, clobbered>>

ReadCharPeeks(i) ==
  /\ i.op = "read_char"
  /\ IOMode = "syscall"
  /\ dev.input # <<>> /\ Head(dev.input) # NUL
  /\ reg' = [reg EXCEPT !.v = Head(dev.input)]
  /\ latched' = Append(latched, Head(dev.input))
  /\ loaded' = Append(loaded, Head(dev.input))
  /\ Continue(NextAddr(pc))
  /\ UNCHANGED <<cp0, dev, stored, clobbered>>

ReadChar(i) ==          \* getCharBlocking waits for the stream
  /\ i.op = "read_char"
  /\ IOMode = "syscall"
  /\ dev.input # <<>>
  /\ LET c == Head(dev.input)
     IN  /\ reg' = [reg EXCEPT !.v = c]
         /\ latched' = IF c = NUL THEN latched ELSE Append(latched, c)
         /\ loaded' = IF c = NUL THEN loaded ELSE Append(loaded, c)
  /\ dev' = [dev EXCEPT !.input = Tail(dev.input)]
  /\ Continue(NextAddr(pc))
  /\ UNCHANGED <<cp0, stored, clobbered>>

Execute(i) ==
  \/ Alu(i) \/ LoadReady(i) \/ LoadInput(i) \/ StoreOutput(i)
  \/ StoreReadOnly(i) \/ Fault(i) \/ Jump(i) \/ Call(i)
  \/ WriteStatus(i) \/ ReadEpc(i) \/ WriteEpc(i) \/ Eret(i)
  \/ Exit(i) \/ RefusedSyscall(i) \/ PrintChar(i) \/ ReadChar(i)

-----------------------------------------------------------------------------
(* step: pump, check the address, fetch, then the interrupt the pump       *)
(* raised or the instruction, never both.                                  *)

OutOfText == TextSecEnd <= pc /\ pc < KText
Fetches   == Valid(pc) /\ ~OutOfText /\ pc % 4 = 0

BadAddress ==           \* ExecExit 139; pc is not incremented
  /\ ~Valid(pc)
  /\ Throw("exit", pc)
  /\ NoIO /\ UNCHANGED reg

BeyondText ==           \* MasmRuntimeError "Out of bounds read access"
  /\ Valid(pc) /\ OutOfText
  /\ Throw("runtimeError", pc)
  /\ NoIO /\ UNCHANGED reg

MisalignedFetch ==      \* wordAt(pc) throws outside the try block
  /\ Valid(pc) /\ ~OutOfText /\ pc % 4 # 0
  /\ Throw("execExcept", pc)
  /\ NoIO /\ UNCHANGED reg

Interrupt ==
  /\ Fetches
  /\ \/ DisplayIntr /\ Trap("display")
     \/ KeyIntr /\ Trap("keyboard")
  /\ NoIO /\ UNCHANGED reg

Instruction ==
  /\ Fetches /\ ~DisplayIntr /\ ~KeyIntr
  /\ pc \in DOMAIN Code
  /\ \E i \in Code[pc] : Execute(i)

Step ==
  /\ outcome = "running"
  /\ UNCHANGED typed
  /\ BadAddress \/ BeyondText \/ MisalignedFetch \/ Interrupt \/ Instruction

(* The user (or a pipe) puts a character on the input stream. *)
Type(c) ==
  /\ Len(typed) < MaxTyped
  /\ typed' = Append(typed, c)
  /\ dev' = [dev EXCEPT !.input = Append(dev.input, c)]
  /\ UNCHANGED <<pc, reg, cp0, outcome, latched, loaded, stored, clobbered,
                 resume, detoured>>

(* initProgram on a fresh State: the display is ready, and STATUS has the  *)
(* keyboard and display bits but not the enable bit.                       *)
ResetRegisters == [v |-> NUL, flag |-> 0, k |-> 0, ra |-> 0]

ResetCop0 ==
  [ie |-> FALSE, kbd |-> TRUE, dsp |-> TRUE, epc |-> 0, cause |-> "none"]

ResetDevices(in, out) ==
  [inReady |-> 0, inData |-> NUL, outReady |-> 1, outData |-> NUL,
   input |-> in, output |-> out]

Init ==
  /\ pc = Text
  /\ reg = ResetRegisters
  /\ cp0 = ResetCop0
  /\ dev = ResetDevices(InitStream, <<>>)
  /\ outcome = "running"
  /\ typed = InitStream
  /\ latched = <<>> /\ loaded = <<>> /\ stored = <<>>
  /\ clobbered = FALSE /\ resume = Text /\ detoured = FALSE

Next == Step \/ \E c \in Byte : Type(c)

Spec == Init /\ [][Next]_vars

(* simulate calls step in a loop, so a step that can be taken is taken. *)
FairSpec == Spec /\ WF_vars(Step)

-----------------------------------------------------------------------------
Outcomes == {"running", "exit", "runtimeError", "execExcept"}

Registers == [v : Byte, flag : {0, 1}, k : Word, ra : Word]
Cop0      == [ie : BOOLEAN, kbd : BOOLEAN, dsp : BOOLEAN, epc : Word,
              cause : Causes \union {"none"}]
Devices   == [inReady : {0, 1}, inData : Byte, outReady : {0, 1},
              outData : Byte, input : Seq(Byte), output : Seq(Byte)]

(* The types of the machine state and of the history variables. *)
TypeOK ==
  /\ pc \in Word
  /\ reg \in Registers
  /\ cp0 \in Cop0
  /\ dev \in Devices
  /\ outcome \in Outcomes
  /\ typed \in Seq(Byte)
  /\ latched \in Seq(Byte) /\ loaded \in Seq(Byte) /\ stored \in Seq(Byte)
  /\ clobbered \in BOOLEAN
  /\ resume \in Word
  /\ detoured \in BOOLEAN

Waiting == IF dev.inReady = 1 THEN <<dev.inData>> ELSE <<>>

(* s is the first n characters of t, NULs aside, each in its place. *)
Carried(t, n, s) ==
  LET kept == {i \in 1 .. n : t[i] # NUL}
  IN  /\ Len(s) = Cardinality(kept)
      /\ \A i \in kept : s[Cardinality({j \in kept : j <= i})] = t[i]

(***************************************************************************)
(* No character is lost, repeated or reordered between the input stream    *)
(* and the program, whatever the program does and whenever it is           *)
(* interrupted: of what was typed the stream still has the end; the rest,  *)
(* NULs aside (readMMIO drops them), is what the program has read and then *)
(* what waits in input_data (simulator.cpp:49-74, memory.cpp:48-74).       *)
(***************************************************************************)
NothingTypedIsLost ==
  LET n == Len(typed) - Len(dev.input)
  IN  /\ n >= 0
      /\ \A k \in 1 .. Len(dev.input) : dev.input[k] = typed[n + k]
      /\ Carried(typed, n, loaded \o Waiting)

K == INSTANCE CharChannel WITH taken <- latched, read <- loaded
(***************************************************************************)
(* The keyboard words are a lossless channel with room for one character   *)
(* (CharChannel): readMMIO leaves input_data alone until the program has   *)
(* read it, and a program's second read of the same word counts once.      *)
(***************************************************************************)
KeyboardIsChannel == K!ChannelSpec

(***************************************************************************)
(* What the program sends to the display is printed, in order, unless a    *)
(* store replaced a character that had not been printed yet                *)
(* (simulator.cpp:77-98).                                                  *)
(***************************************************************************)
OutputLossless ==
  IOMode = "mmio" /\ ~clobbered =>
    stored = IF dev.outReady = 0 THEN Append(dev.output, dev.outData)
             ELSE dev.output

(***************************************************************************)
(* A user program needs not poll output_ready: step prints before it       *)
(* executes, so only code in kernel text, where the pump is off, can       *)
(* replace an unprinted character (simulator.cpp:125-137).                 *)
(***************************************************************************)
OnlyHandlerClobbers ==
  [][clobbered' # clobbered => IOMode # "mmio" \/ ~InUser]_vars

(***************************************************************************)
(* Interrupts and exceptions are transparent: when user code runs, it runs *)
(* at the address where it was interrupted or faulted, or where its last   *)
(* instruction left off, unless the handler changed EPC, faulted itself or *)
(* jumped out (except, execEret, the pc -= 4 bookkeeping of step).         *)
(***************************************************************************)
TrapsTransparent ==
  outcome = "running" /\ ~detoured =>
    resume = IF InUser THEN pc ELSE cp0.epc

(***************************************************************************)
(* A handler that adds 4 to EPC and returns goes on after the instruction  *)
(* that faulted, since EPC is that instruction and nothing of it was done  *)
(* (simulator.cpp:107-117, cp0.cpp).                                       *)
(***************************************************************************)
FaultsCanBeSkipped ==
  [][cp0.cause # "none" /\ cp0'.cause = "none" => pc' = NextAddr(resume)]_vars

(***************************************************************************)
(* The only exception of the simulated machine that leaves step instead of *)
(* reaching its handler, or ending the run where there is none, is that of *)
(* a misaligned fetch, which is outside the try block                      *)
(* (simulator.cpp:145-163).                                                *)
(***************************************************************************)
OnlyMisalignedFetchEscapes ==
  outcome = "execExcept" => Valid(pc) /\ pc % 4 # 0

(* "When an interrupt event is detected, control of the program will be    *)
(* transferred at the interrupt handler" (README.md:57): with keyboard     *)
(* interrupts enabled, typed characters do not wait for ever on the        *)
(* stream while the program runs.                                          *)
TypedCharsInterrupt ==
  dev.input # <<>> /\ cp0.ie /\ cp0.kbd
    ~> dev.input = <<>> \/ ~cp0.ie \/ ~cp0.kbd \/ outcome # "running"

(***************************************************************************)
(* An echo program prints everything that is typed, in order, and nothing  *)
(* else, however typing and printing interleave with its loop or handler.  *)
(***************************************************************************)
EverythingIsEchoed == <>[]Carried(typed, Len(typed), dev.output)

(* A handler that is entered is left again. *)
HandlerReturns == ~InUser ~> InUser
=============================================================================
