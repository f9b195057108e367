--------------------------- MODULE DebuggerProofs ---------------------------
(***************************************************************************)
(* Proofs about Debugger, for every program, layout and set of addresses,  *)
(* and any commands in any order: types, the meaning of breakpoint IDs,    *)
(* where the program stops and what is shown when it has ended, and that   *)
(* a trap without a handler ends it.                                       *)
(*                                                                         *)
(* The parts of the invariant are kept by different mechanisms and proved  *)
(* one by one: the map of breakpoints by With and Without, the loop's part *)
(* by interactiveStep, the end of a program by step's exceptions.          *)
(***************************************************************************)
EXTENDS Debugger, SimulatorProofs

(* While a command that resumed the program is at work, the breakpoint it  *)
(* runs to is there.                                                       *)
StopInv ==
  /\ ctl \in {"go", "top"} =>
       /\ cmd = "step" => 0 \in SystemAddrs
       /\ target # NoAddr => target \in DOMAIN breakpoints
  /\ StopsWhereAsked

(* An exception in flight has left pc behind the instruction that threw    *)
(* it; once it is caught, pc is back at it and stays there until run.      *)
EndInv ==
  /\ outcome # "running" => /\ isRunning /\ ctl \in {"top", "closed"}
                            /\ Fetchable(offender) => pc = NextAddr(offender)
  /\ ShowsFetchedOffender

(* CAUSE is set only on the way into kernel text. *)
CauseInv == ~Valid(KText) => cp0.cause = "none"

-----------------------------------------------------------------------------
(* Breakpoints. *)

(* The addresses the debugger sets breakpoints at itself. *)
LEMMA AddressTypes ==
  ASSUME DTypeOK
  PROVE  /\ 0 \in Word /\ Text \in Word /\ pc \in Word /\ NextAddr(pc) \in Word
         /\ ReturnAddr \in Word /\ (pc - 4) % AddrSpace \in Word
<1>1. pc \in Word /\ reg.ra \in Word /\ cp0.epc \in Word
  BY DEF DTypeOK, TypeOK, Registers, Cop0
<1>2. (pc - 4) % AddrSpace \in Word
  BY <1>1, LayoutAssumption, SMT DEF Word
<1> QED BY <1>1, <1>2, LayoutFacts, NextAddrType DEF ReturnAddr

(* A step changes the map of breakpoints in one of these ways. *)
LEMMA MapSteps ==
  ASSUME DTypeOK, DNext
  PROVE  \/ UNCHANGED <<breakpoints, nextBreakpoint>>
         \/ \E a \in Word : /\ breakpoints' = With(breakpoints, a, 0)
                            /\ nextBreakpoint' = nextBreakpoint
         \/ \E S \in SUBSET DOMAIN breakpoints :
              /\ breakpoints' = Restrict(breakpoints, S)
              /\ nextBreakpoint' = nextBreakpoint
         \/ \E a \in Word : /\ breakpoints' = With(breakpoints, a, nextBreakpoint)
                            /\ nextBreakpoint' = nextBreakpoint + 1
                            /\ nextBreakpoint <= MaxBreaks
<1> USE AddressTypes
<1>1. CASE InteractiveStep
  BY <1>1 DEF InteractiveStep, Without
<1>2. CASE Go \/ Catch \/ Escape \/ ContinueCmd \/ List \/ ExitCmd
           \/ \E c \in Byte : Type(c) /\ UNCHANGED debug
  BY <1>2 DEF Go, Catch, CatchAt, Escape, ContinueCmd, Resume, List, ExitCmd, debug
<1>3. CASE NotRunning
  BY <1>3 DEF NotRunning
<1>4. CASE StepCmd \/ NextCmd \/ Finish
  BY <1>4 DEF StepCmd, NextCmd, Finish, Resume
<1>5. ASSUME NEW a \in BreakAddrs, Break(a) PROVE a \in Word
  BY BreakAssumption
<1>6. CASE \E a \in BreakAddrs : Break(a)
  BY <1>5, <1>6 DEF Break
<1>7. CASE \E a \in BreakAddrs : Delete(a)
  BY <1>7 DEF Delete, Without
<1>8. CASE DeleteAll
  BY <1>8 DEF DeleteAll, SystemAddrs
<1>9. CASE Run
  BY <1>9 DEF Run, Restart
<1> QED BY <1>1, <1>2, <1>3, <1>4, <1>6, <1>7, <1>8, <1>9 DEF DNext, Loop, Command

-----------------------------------------------------------------------------
(* Types. *)

(* Every step keeps the types of the machine. *)
LEMMA MachineTypes ==
  ASSUME DTypeOK, DNext
  PROVE  TypeOK'
<1> USE AddressTypes
<1>1. TypeOK
  BY DEF DTypeOK
<1>2. CASE Go
  BY <1>1, <1>2, StepTypes DEF Go
<1>3. CASE Catch
  BY <1>1, <1>3 DEF Catch, CatchAt, TypeOK, Outcomes
<1>4. CASE List
  BY <1>1, <1>4 DEF List, Stay, TypeOK, Devices
<1>5. CASE Run
  <2>1. NUL \in Byte /\ <<>> \in Seq(Byte)
    BY EmptySeq DEF Byte
  <2>2. ResetDevices(dev.input, dev.output) \in Devices
    BY <1>1, <2>1 DEF TypeOK, ResetDevices, Devices
  <2>3. ResetRegisters \in Registers /\ ResetCop0 \in Cop0 /\ dev.output \in Seq(Byte)
    BY <1>1, <2>1 DEF ResetRegisters, Registers, ResetCop0, Cop0, TypeOK, Devices
  <2> QED BY <1>1, <1>5, <2>1, <2>2, <2>3 DEF Run, Restart, TypeOK, Outcomes
<1>6. ASSUME NEW c \in Byte, Type(c) PROVE TypeOK'
  <2>1. Append(typed, c) \in Seq(Byte) /\ dev' \in Devices
    BY <1>1, <1>6, AppendProperties DEF Type, TypeOK, Devices
  <2> QED BY <1>1, <1>6, <2>1 DEF Type, TypeOK
<1>7. CASE UNCHANGED vars
  BY <1>1, <1>7 DEF vars, TypeOK
<1>8. DNext => Go \/ Catch \/ List \/ Run \/ (\E c \in Byte : Type(c)) \/ UNCHANGED vars
  BY DEF DNext, Loop, Command, InteractiveStep, NotRunning, Escape, StepCmd, NextCmd,
         ContinueCmd, Finish, Resume, Break, Delete, DeleteAll, ExitCmd
<1> QED BY <1>2, <1>3, <1>4, <1>5, <1>6, <1>7, <1>8

(* Every step keeps the types of the debugger. *)
LEMMA DebuggerTypes ==
  ASSUME DTypeOK, DNext
  PROVE  DTypeOK'
<1> USE AddressTypes
<1>1. TypeOK'
  BY MachineTypes
<1>2. /\ DOMAIN breakpoints' \subseteq Word
      /\ \A x \in DOMAIN breakpoints' : breakpoints'[x] \in Ids
      /\ nextBreakpoint' \in 1 .. MaxBreaks + 1
  <2>1. 0 \in Ids /\ MaxBreaks \in Nat
    BY BreakAssumption, SMT DEF Ids
  <2>2. ASSUME NEW a \in Word, NEW id \in Ids, breakpoints' = With(breakpoints, a, id)
        PROVE  /\ DOMAIN breakpoints' \subseteq Word
               /\ \A x \in DOMAIN breakpoints' : breakpoints'[x] \in Ids
    BY <2>2 DEF DTypeOK, With
  <2>3. ASSUME NEW S \in SUBSET DOMAIN breakpoints,
               breakpoints' = Restrict(breakpoints, S)
        PROVE  /\ DOMAIN breakpoints' \subseteq Word
               /\ \A x \in DOMAIN breakpoints' : breakpoints'[x] \in Ids
    BY <2>3 DEF DTypeOK, Restrict
  <2>4. nextBreakpoint <= MaxBreaks =>
          nextBreakpoint \in Ids /\ nextBreakpoint + 1 \in 1 .. MaxBreaks + 1
    BY <2>1, SMT DEF DTypeOK, Ids
  <2> QED BY <2>1, <2>2, <2>3, <2>4, MapSteps DEF DTypeOK
<1>3. wanted' \subseteq BreakAddrs
  BY DEF DTypeOK, DNext, Loop, Command, InteractiveStep, Go, NotRunning, Catch, CatchAt,
         Escape, history, StepCmd, NextCmd, ContinueCmd, Finish, Resume, Break,
         Delete, DeleteAll, List, Run, Restart, ExitCmd, debug
<1>4. /\ isRunning' \in BOOLEAN
      /\ ctl' \in {"top", "prompt", "go", "closed"}
  BY DEF DTypeOK, DNext, Loop, Command, InteractiveStep, Go, NotRunning, Catch, CatchAt,
         Escape, StepCmd, NextCmd, ContinueCmd, Finish, Resume, Stay, Break,
         Delete, DeleteAll, List, Run, Restart, ExitCmd, debug
<1>5. /\ cmd' \in {"none", "step", "next", "continue", "finish"}
      /\ target' \in Word \union {NoAddr}
      /\ ran' \in BOOLEAN
  BY DEF DTypeOK, DNext, Loop, Command, InteractiveStep, Resumed, Go, NotRunning, Catch,
         CatchAt, Escape, history, StepCmd, NextCmd, ContinueCmd, Finish, Resume, Stay,
         Break, Delete, DeleteAll, List, Run, Restart, ExitCmd, debug
<1>6. offender' \in Word \union {NoAddr}
  BY DEF DTypeOK, DNext, Loop, Command, InteractiveStep, Go, NotRunning, Catch, CatchAt,
         Escape, history, StepCmd, NextCmd, ContinueCmd, Finish, Resume, Break,
         Delete, DeleteAll, List, Run, Restart, ExitCmd, debug
<1> QED BY <1>1, <1>2, <1>3, <1>4, <1>5, <1>6 DEF DTypeOK, Ids
-----------------------------------------------------------------------------
(* The invariant, part by part. *)

(* A fresh breakpoint takes the next ID; system breakpoints have none.     *)
LEMMA IdsKept ==
  ASSUME DTypeOK, IdsAreUnique, DNext
  PROVE  IdsAreUnique'
<1>1. nextBreakpoint \in Nat \ {0} /\ \A x \in DOMAIN breakpoints : breakpoints[x] \in Nat
  BY BreakAssumption, SMT DEF DTypeOK, Ids
<1>2. CASE UNCHANGED <<breakpoints, nextBreakpoint>>
  BY <1>2 DEF IdsAreUnique
<1>3. ASSUME NEW a \in Word, breakpoints' = With(breakpoints, a, 0),
             nextBreakpoint' = nextBreakpoint
      PROVE  IdsAreUnique'
  BY <1>3 DEF IdsAreUnique, With
<1>4. ASSUME NEW S \in SUBSET DOMAIN breakpoints,
             breakpoints' = Restrict(breakpoints, S), nextBreakpoint' = nextBreakpoint
      PROVE  IdsAreUnique'
  BY <1>4 DEF IdsAreUnique, Restrict
<1>5. ASSUME NEW a \in Word, breakpoints' = With(breakpoints, a, nextBreakpoint),
             nextBreakpoint' = nextBreakpoint + 1
      PROVE  IdsAreUnique'
  <2> SUFFICES ASSUME NEW x \in DOMAIN breakpoints', NEW y \in DOMAIN breakpoints',
                      breakpoints'[x] # 0
               PROVE  /\ breakpoints'[x] < nextBreakpoint'
                      /\ breakpoints'[x] = breakpoints'[y] => x = y
    BY DEF IdsAreUnique
  <2>1. \A z \in DOMAIN breakpoints' :
          \/ z = a /\ breakpoints'[z] = nextBreakpoint
          \/ /\ z \in DOMAIN breakpoints /\ breakpoints'[z] = breakpoints[z]
             /\ breakpoints[z] # 0 => breakpoints[z] < nextBreakpoint
    BY <1>5 DEF With, IdsAreUnique
  <2>2. breakpoints'[x] < nextBreakpoint'
    BY <1>1, <1>5, <2>1, SMT
  <2>3. breakpoints'[x] = breakpoints'[y] => x = y
    BY <1>1, <2>1 DEF IdsAreUnique
  <2> QED BY <2>2, <2>3
<1> QED BY <1>2, <1>3, <1>4, <1>5, MapSteps

(* interactiveStep lets nothing pass that is at a breakpoint, and erases a *)
(* system breakpoint only to prompt; a command that resumes sets its own.  *)
LEMMA StopsKept ==
  ASSUME DTypeOK, StopInv, DNext
  PROVE  StopInv'
<1> USE AddressTypes DEF StopInv, StopsWhereAsked, SystemAddrs
<1>1. NoAddr \notin Word /\ pc \in Word
  BY LayoutAssumption, SMT DEF NoAddr, Word
<1>2. CASE InteractiveStep
  <2>1. CASE GetCommand
    BY <1>2, <2>1 DEF InteractiveStep, Resumed
  <2>2. CASE ~GetCommand
    <3>1. ~AtSystem
      BY <2>2 DEF GetCommand, AtSystem
    <3>2. pc \notin DOMAIN breakpoints /\ 0 \notin SystemAddrs
      BY <2>2 DEF GetCommand
    <3>3. UNCHANGED <<breakpoints, pc, cmd, target, ran, isRunning>> /\ ctl = "top"
      BY <1>2, <2>2, <3>1 DEF InteractiveStep, vars
    <3> QED BY <1>1, <3>2, <3>3
  <2> QED BY <2>1, <2>2
<1>3. CASE Go
  BY <1>3 DEF Go
<1>4. CASE NotRunning
  BY <1>4 DEF NotRunning, history, With
<1>5. CASE Catch \/ Escape
  BY <1>5 DEF Catch, CatchAt, Escape, history
<1>6. CASE StepCmd
  BY <1>6 DEF StepCmd, Resume, Resumed, With
<1>7. CASE NextCmd \/ Finish
  BY <1>7 DEF NextCmd, Finish, Resume, Resumed, With
<1>8. CASE ContinueCmd
  BY <1>8 DEF ContinueCmd, Resume, Resumed
<1>9. CASE ctl = "prompt" /\ ctl' = ctl
  BY <1>9
<1>10. (\E a \in BreakAddrs : Break(a) \/ Delete(a)) \/ DeleteAll \/ List \/ Run
         => ctl = "prompt" /\ ctl' = ctl
  BY DEF Break, Delete, DeleteAll, List, Run, Restart, Stay
<1>11. CASE ExitCmd
  BY <1>11 DEF ExitCmd
<1>12. CASE \E c \in Byte : Type(c) /\ UNCHANGED debug
  BY <1>12 DEF Type, debug, history
<1> QED BY <1>2, <1>3, <1>4, <1>5, <1>6, <1>7, <1>8, <1>9, <1>10, <1>11, <1>12
        DEF DNext, Loop, Command

(* An address that can be fetched from is a loaded word's, and pc gets     *)
(* back to it from the address behind it.                                  *)
LEMMA FetchableIsWord ==
  ASSUME NEW a, Fetchable(a)
  PROVE  a \in Word /\ (NextAddr(a) - 4) % AddrSpace = a
<1>1. PICK w \in DOMAIN Code : a \in w .. w + 3
  BY DEF Fetchable, Valid
<1>2. w \in Word /\ w % 4 = 0 /\ a % 4 = 0
  BY <1>1, CodeAssumption DEF Fetchable
<1>3. a = w
  BY <1>1, <1>2, SMT DEF Word
<1>4. (NextAddr(w) - 4) % AddrSpace = w
  BY <1>2, LayoutAssumption, SMT DEF NextAddr, Word
<1> QED BY <1>2, <1>3, <1>4

(* How a step that ends the program leaves pc: where it was if nothing was *)
(* fetched, behind the instruction otherwise.                              *)
LEMMA StepEnds ==
  ASSUME Step, outcome' # "running", Fetchable(pc)
  PROVE  pc' = NextAddr(pc)
<1>1. ~BadAddress /\ ~BeyondText /\ ~MisalignedFetch
  BY DEF BadAddress, BeyondText, OutOfText, MisalignedFetch, Fetchable
<1>2. outcome = "running"
  BY DEF Step
<1>3. \A c : Trap(c) => pc' = NextAddr(pc)
  BY <1>2 DEF Trap
<1>4. CASE Interrupt
  BY <1>3, <1>4 DEF Interrupt
<1>5. ASSUME NEW i, Execute(i) PROVE pc' = NextAddr(pc)
  BY <1>2, <1>3, <1>5 DEF Execute, Alu, LoadReady, LoadInput, StoreOutput, StoreReadOnly,
     Fault, Jump, Call, WriteStatus, ReadEpc, WriteEpc, Eret, Exit, RefusedSyscall,
     PrintChar, ReadChar, Continue, Throw
<1> QED BY <1>1, <1>4, <1>5 DEF Step, Instruction

(* The handlers of simulate take back the increment of step.               *)
LEMMA EndsKept ==
  ASSUME DTypeOK, EndInv, DNext
  PROVE  EndInv'
<1> USE DEF EndInv, ShowsFetchedOffender
<1>1. CASE Go
  <2>1. isRunning' = isRunning /\ isRunning /\ ctl' = "top"
    BY <1>1 DEF Go
  <2>2. outcome' # "running" /\ Fetchable(offender') => pc' = NextAddr(offender')
    BY <1>1, StepEnds DEF Go
  <2>3. outcome' # "running" /\ Fetchable(offender)' => pc' = NextAddr(offender)'
    BY <2>2 DEF Fetchable, Valid, NextAddr
  <2> QED BY <2>1, <2>3
<1>2. CASE Catch
  <2>1. /\ outcome' = "running" /\ offender' = offender
        /\ pc' = (pc - 4) % AddrSpace
        /\ outcome # "running"
    BY <1>2 DEF Catch, CatchAt, history
  <2>2. Fetchable(offender)' => Fetchable(offender)
    BY <2>1 DEF Fetchable, Valid
  <2>3. Fetchable(offender) => pc' = offender
    BY <2>1, FetchableIsWord
  <2> QED BY <2>1, <2>2, <2>3
<1>3. CASE Run
  <2>1. ~Fetchable(NoAddr)
    BY FetchableIsWord, LayoutAssumption, SMT DEF NoAddr, Word
  <2> QED BY <1>3, <2>1 DEF Run, Restart
<1>4. ASSUME UNCHANGED <<pc, outcome, isRunning, offender>>,
             outcome # "running" => ctl' \in {"top", "closed"}
      PROVE  EndInv'
  BY <1>4 DEF Fetchable, Valid, NextAddr
<1>5. CASE InteractiveStep \/ NotRunning \/ Escape
  BY <1>4, <1>5 DEF InteractiveStep, NotRunning, Escape, vars, history
<1>6. CASE StepCmd \/ NextCmd \/ ContinueCmd \/ Finish
  BY <1>4, <1>6 DEF StepCmd, NextCmd, ContinueCmd, Finish, Resume, vars
<1>7. CASE (\E a \in BreakAddrs : Break(a) \/ Delete(a)) \/ DeleteAll
  BY <1>4, <1>7 DEF Break, Delete, DeleteAll, Stay, vars
<1>8. CASE List \/ ExitCmd
  BY <1>4, <1>8 DEF List, Stay, ExitCmd, vars, history
<1>9. CASE \E c \in Byte : Type(c) /\ UNCHANGED debug
  BY <1>4, <1>9 DEF Type, debug, history
<1> QED BY <1>1, <1>2, <1>3, <1>5, <1>6, <1>7, <1>8, <1>9 DEF DNext, Loop, Command

(* Without a handler no step sets CAUSE.                                   *)
LEMMA CauseKept ==
  ASSUME DTypeOK, CauseInv, DNext
  PROVE  CauseInv'
<1> SUFFICES ASSUME ~Valid(KText), cp0.cause = "none"
             PROVE  cp0'.cause = "none"
  BY DEF CauseInv, Valid
<1>1. cp0 \in Cop0
  BY DEF DTypeOK, TypeOK
<1>2. \A c : Trap(c) => cp0' = cp0
  BY DEF Trap
<1>3. \A o, a : Throw(o, a) => cp0' = cp0
  BY DEF Throw
<1>4. ASSUME NEW i, Execute(i) PROVE cp0'.cause = "none"
  BY <1>1, <1>2, <1>3, <1>4
     DEF Execute, Alu, LoadReady, LoadInput, StoreOutput, StoreReadOnly,
     Fault, Jump, Call, WriteStatus, ReadEpc, WriteEpc, Eret, Exit, RefusedSyscall,
     PrintChar, ReadChar, Cop0
<1>5. CASE Go
  BY <1>2, <1>3, <1>4, <1>5 DEF Go, Step, BadAddress, BeyondText, MisalignedFetch,
     Interrupt, Instruction
<1>6. CASE Run
  BY <1>6 DEF Run, Restart, ResetCop0
<1>7. CASE UNCHANGED cp0
  BY <1>7
<1>8. DNext => Go \/ Run \/ UNCHANGED cp0
  BY DEF DNext, Loop, Command, InteractiveStep, NotRunning, Catch, CatchAt, Escape,
         StepCmd, NextCmd, ContinueCmd, Finish, Resume, Break, Delete, DeleteAll,
         List, ExitCmd, Type, vars
<1> QED BY <1>5, <1>6, <1>7, <1>8
-----------------------------------------------------------------------------
(* What holds between any two steps of the debugger. *)
DInv == DTypeOK /\ IdsAreUnique /\ StopInv /\ EndInv /\ CauseInv

(* DInv holds at the start. *)
LEMMA InitDInv == DInit => DInv
<1> SUFFICES ASSUME DInit PROVE DInv
  OBVIOUS
<1>1. TypeOK
  <2>1. NUL \in Byte /\ <<>> \in Seq(Byte)
    BY EmptySeq DEF Byte
  <2>2. ResetDevices(InitStream, <<>>) \in Devices
    BY <2>1, StreamAssumption DEF ResetDevices, Devices
  <2>3. ResetRegisters \in Registers /\ ResetCop0 \in Cop0
    BY <2>1, LayoutFacts DEF ResetRegisters, Registers, ResetCop0, Cop0
  <2> QED BY <2>1, <2>2, <2>3, LayoutFacts, StreamAssumption
          DEF DInit, Init, TypeOK, Outcomes
<1>2. 0 \in Ids /\ 1 \in 1 .. MaxBreaks + 1
  BY BreakAssumption, SMT DEF Ids
<1>3. DTypeOK
  BY <1>1, <1>2, LayoutFacts DEF DInit, DTypeOK
<1>4. IdsAreUnique /\ StopInv
  BY DEF DInit, IdsAreUnique, StopInv, StopsWhereAsked
<1>5. EndInv /\ CauseInv
  BY DEF DInit, Init, ResetCop0, EndInv, ShowsFetchedOffender, CauseInv
<1> QED BY <1>3, <1>4, <1>5 DEF DInv

(* DInv is inductive. *)
LEMMA StepDInv == DInv /\ [DNext]_dvars => DInv'
<1> SUFFICES ASSUME DInv, [DNext]_dvars PROVE DInv'
  OBVIOUS
<1>1. CASE DNext
  BY <1>1, DebuggerTypes, IdsKept, StopsKept, EndsKept, CauseKept DEF DInv
<1>2. CASE UNCHANGED dvars
  BY <1>2 DEF dvars, debug, history, vars, DInv, DTypeOK, TypeOK, IdsAreUnique, StopInv,
     StopsWhereAsked, SystemAddrs, EndInv, ShowsFetchedOffender, Fetchable, Valid,
     NextAddr, CauseInv
<1> QED BY <1>1, <1>2

(* DInv is an invariant. *)
LEMMA DebuggerInvariance == DSpec => []DInv
  BY InitDInv, StepDInv, PTL DEF DSpec

(* The types of machine and debugger, for every program and every sequence *)
(* of commands.                                                            *)
THEOREM DebuggerTypeOK == DSpec => []DTypeOK
<1>1. DInv => DTypeOK
  BY DEF DInv
<1> QED BY <1>1, DebuggerInvariance, PTL

(* A breakpoint ID names one address, and is never given twice.            *)
THEOREM DebuggerIdsAreUnique == DSpec => []IdsAreUnique
<1>1. DInv => IdsAreUnique
  BY DEF DInv
<1> QED BY <1>1, DebuggerInvariance, PTL

(* Nothing runs past a step, past the target of next or finish, or at a    *)
(* breakpoint before the user was asked.                                   *)
THEOREM DebuggerStopsWhereAsked == DSpec => []StopsWhereAsked
<1>1. DInv => StopsWhereAsked
  BY DEF DInv, StopInv
<1> QED BY <1>1, DebuggerInvariance, PTL

(* An ended program is shown at the instruction that ended it, until run.  *)
THEOREM DebuggerShowsOffender == DSpec => []ShowsFetchedOffender
<1>1. DInv => ShowsFetchedOffender
  BY DEF DInv, EndInv
<1> QED BY <1>1, DebuggerInvariance, PTL

(* Without a handler CAUSE stays clear, and the step that raises an        *)
(* interrupt is the program's last.                                        *)
THEOREM DebuggerTrapEnds == DSpec => UnhandledTrapEnds
<1>1. DInv /\ [DNext]_dvars
        => [ctl = "go" /\ ctl' = "top" /\ isRunning /\ ~Valid(KText) =>
              /\ cp0'.cause = "none"
              /\ KeyIntr \/ DisplayIntr => outcome' # "running"]_dvars
  <2> SUFFICES ASSUME DInv, DNext, ctl = "go", ctl' = "top", isRunning, ~Valid(KText)
               PROVE  /\ cp0'.cause = "none"
                      /\ KeyIntr \/ DisplayIntr => outcome' # "running"
    OBVIOUS
  <2>1. cp0'.cause = "none"
    <3>1. CauseInv'
      BY CauseKept DEF DInv
    <3> QED BY <3>1 DEF CauseInv, Valid
  <2>2. ASSUME Step, KeyIntr \/ DisplayIntr
        PROVE  outcome' # "running"
    <3>1. ~Instruction
      BY <2>2 DEF Instruction
    <3>2. CASE BadAddress \/ BeyondText \/ MisalignedFetch
      BY <3>2 DEF BadAddress, BeyondText, MisalignedFetch, Throw
    <3>3. CASE Interrupt
      BY <3>3 DEF Interrupt, Trap
    <3> QED BY <2>2, <3>1, <3>2, <3>3 DEF Step
  <2>3. Step
    BY DEF DNext, Loop, Command, InteractiveStep, Go, NotRunning, Catch, CatchAt, Escape,
           StepCmd, NextCmd, ContinueCmd, Finish, Resume, Stay, Break, Delete,
           DeleteAll, List, Run, Restart, ExitCmd, debug
  <2> QED BY <2>1, <2>2, <2>3
<1> QED BY <1>1, DebuggerInvariance, PTL DEF DSpec, UnhandledTrapEnds
=============================================================================
