-------------------------- MODULE SimulatorProofs --------------------------
(***************************************************************************)
(* Proofs about Simulator, for every program, every memory layout and      *)
(* every input: types, the losslessness of keyboard and display, and the   *)
(* transparency of traps.                                                  *)
(*                                                                         *)
(* The inductive invariant has two independent parts, which a step changes *)
(* by two independent mechanisms: IOInv by the pump and the loads and      *)
(* stores, CtlInv by Continue, Trap, Throw and eret.                       *)
(***************************************************************************)
EXTENDS Simulator, SequenceTheorems, FiniteSetTheorems, TLAPS

(* What has been latched but not read is what input_data holds. *)
ChannelOf(d, la, lo) ==
  /\ la = IF d.inReady = 1 THEN Append(lo, d.inData) ELSE lo
  /\ IOMode # "mmio" => d.inReady = 0

(* What has been stored but not printed is what output_data holds. *)
DisplayOf(d, st) ==
  st = IF d.outReady = 0 THEN Append(d.output, d.outData) ELSE d.output

IOInv ==
  /\ dev \in Devices
  /\ latched \in Seq(Byte) /\ loaded \in Seq(Byte) /\ stored \in Seq(Byte)
  /\ clobbered \in BOOLEAN
  /\ ChannelOf(dev, latched, loaded)
  /\ IOMode = "mmio" /\ ~clobbered => DisplayOf(dev, stored)

CtlInv ==
  /\ pc \in Word
  /\ cp0 \in Cop0
  /\ outcome \in Outcomes
  /\ resume \in Word
  /\ detoured \in BOOLEAN
  /\ ~detoured => resume < KText
  /\ TrapsTransparent

IInv == IOInv /\ CtlInv /\ reg \in Registers /\ typed \in Seq(Byte)

-----------------------------------------------------------------------------
(* The pump. *)

(* The pump leaves the devices well-formed. *)
LEMMA PumpTypes ==
  ASSUME dev \in Devices, latched \in Seq(Byte)
  PROVE  Pumped \in Devices /\ LatchedNow \in Seq(Byte)
<1>2. dev.input # <<>> => Head(dev.input) \in Byte /\ Tail(dev.input) \in Seq(Byte)
  BY HeadTailProperties DEF Devices
<1>3. Append(dev.output, dev.outData) \in Seq(Byte)
  BY AppendProperties DEF Devices
<1>4. NUL \in Byte
  BY DEF Byte
<1>5. Latches => ReadsStream
  BY DEF Latches
<1>6. ReadsStream => dev.input # <<>>
  BY DEF ReadsStream
<1>7. Pumped \in Devices
  BY <1>2, <1>3, <1>4, <1>5, <1>6 DEF Pumped, Devices
<1>8. Latches => Append(latched, Head(dev.input)) \in Seq(Byte)
  BY <1>2, <1>5, <1>6, AppendProperties
<1> QED BY <1>7, <1>8 DEF LatchedNow

(* The pump latches a character only into an empty keyboard word, so what  *)
(* the program has not loaded is still the one that waits.                 *)
LEMMA PumpChannel ==
  ASSUME IOInv
  PROVE  ChannelOf(Pumped, LatchedNow, loaded)
<1>1. Latches => dev.inReady = 0 /\ IOMode = "mmio"
  BY DEF Latches, ReadsStream, Pumps
<1>2. CASE Latches
  <2>1. latched = loaded
    BY <1>1, <1>2 DEF IOInv, ChannelOf
  <2> QED BY <1>1, <1>2, <2>1 DEF ChannelOf, Pumped, LatchedNow
<1>3. CASE ~Latches
  BY <1>3 DEF IOInv, ChannelOf, Pumped, LatchedNow
<1> QED BY <1>2, <1>3

(* The pump prints only a pending character, and then marks it printed. *)
LEMMA PumpDisplay ==
  ASSUME IOInv, IOMode = "mmio", ~clobbered
  PROVE  DisplayOf(Pumped, stored)
<1>1. CASE PutsChar
  <2>1. dev.outReady = 0
    BY <1>1 DEF PutsChar
  <2> QED BY <1>1, <2>1 DEF IOInv, DisplayOf, Pumped
<1>2. CASE ~PutsChar
  BY <1>2 DEF IOInv, DisplayOf, Pumped
<1> QED BY <1>1, <1>2

(* In user text the display is always ready after the pump. *)
LEMMA PumpMakesReady ==
  ASSUME IOInv, IOMode = "mmio", InUser
  PROVE  Pumped.outReady = 1
<1>1. dev.outReady \in {0, 1}
  BY DEF IOInv, Devices
<1> QED BY <1>1 DEF Pumped, PutsChar, Pumps

-----------------------------------------------------------------------------
(* The steps of the I/O part. *)

(* A step that touches no device is the pump alone. *)
LEMMA NoIOStep ==
  ASSUME IOInv, NoIO
  PROVE  IOInv'
<1>1. dev' = Pumped /\ latched' = LatchedNow
      /\ loaded' = loaded /\ stored' = stored /\ clobbered' = clobbered
  BY DEF NoIO
<1>2. ChannelOf(dev, latched, loaded)'
  BY <1>1, PumpChannel DEF ChannelOf
<1>3. (IOMode = "mmio" /\ ~clobbered => DisplayOf(dev, stored))'
  BY <1>1, PumpDisplay DEF DisplayOf
<1> QED BY <1>1, <1>2, <1>3, PumpTypes DEF IOInv

(* A load of input_data frees the word and hands its character over once. *)
LEMMA LoadInputStep ==
  ASSUME IOInv, NEW i, LoadInput(i)
  PROVE  IOInv'
<1>1. /\ dev' = [Pumped EXCEPT !.inReady = 0]
      /\ latched' = LatchedNow
      /\ loaded' = IF Pumped.inReady = 1 THEN Append(loaded, Pumped.inData)
                   ELSE loaded
      /\ stored' = stored /\ clobbered' = clobbered
  BY DEF LoadInput
<1>2. Pumped \in Devices /\ LatchedNow \in Seq(Byte) /\ loaded \in Seq(Byte)
  BY PumpTypes DEF IOInv
<1>3. dev' \in Devices /\ dev'.inReady = 0
  BY <1>1, <1>2 DEF Devices
<1>4. dev'.outReady = Pumped.outReady /\ dev'.outData = Pumped.outData
      /\ dev'.output = Pumped.output
  BY <1>1, <1>2 DEF Devices
<1>5. loaded' = LatchedNow
  BY <1>1, PumpChannel DEF ChannelOf
<1>6. ChannelOf(dev, latched, loaded)'
  BY <1>1, <1>3, <1>5 DEF ChannelOf
<1>7. (IOMode = "mmio" /\ ~clobbered => DisplayOf(dev, stored))'
  BY <1>1, <1>4, PumpDisplay DEF DisplayOf
<1> QED BY <1>1, <1>2, <1>3, <1>5, <1>6, <1>7 DEF IOInv

(* A store to output_data keeps the display's order unless it clobbers. *)
LEMMA StoreOutputStep ==
  ASSUME IOInv, NEW i, StoreOutput(i), reg \in Registers
  PROVE  IOInv'
<1>1. /\ dev' = [Pumped EXCEPT !.outReady = 0, !.outData = reg.v]
      /\ stored' = Append(stored, reg.v)
      /\ clobbered' = (clobbered \/ Pumped.outReady = 0)
      /\ latched' = LatchedNow /\ loaded' = loaded
  BY DEF StoreOutput
<1>2. Pumped \in Devices /\ LatchedNow \in Seq(Byte) /\ reg.v \in Byte
  BY PumpTypes DEF Registers, IOInv
<1>3. dev' \in Devices
  BY <1>1, <1>2 DEF Devices
<1>4. /\ dev'.inReady = Pumped.inReady /\ dev'.inData = Pumped.inData
      /\ dev'.outReady = 0 /\ dev'.outData = reg.v
      /\ dev'.output = Pumped.output
  BY <1>1, <1>2 DEF Devices
<1>5. stored' \in Seq(Byte)
  BY <1>1, <1>2, AppendProperties DEF IOInv
<1>6. ChannelOf(dev, latched, loaded)'
  BY <1>1, <1>4, PumpChannel DEF ChannelOf
<1>7. (IOMode = "mmio" /\ ~clobbered => DisplayOf(dev, stored))'
  <2> SUFFICES ASSUME IOMode = "mmio", ~clobbered' PROVE DisplayOf(dev, stored)'
    OBVIOUS
  <2>1. ~clobbered /\ Pumped.outReady # 0
    BY <1>1 DEF IOInv
  <2>2. stored = Pumped.output
    BY <2>1, PumpDisplay DEF DisplayOf
  <2> QED BY <1>1, <1>4, <2>2 DEF DisplayOf
<1>8. clobbered' \in BOOLEAN
  BY <1>1
<1> QED BY <1>1, <1>2, <1>3, <1>5, <1>6, <1>7, <1>8 DEF IOInv

(* The character syscalls bypass the words, which are idle in their mode. *)
LEMMA SyscallSteps ==
  ASSUME IOInv, NEW i, reg \in Registers, PrintChar(i) \/ ReadChar(i)
  PROVE  IOInv'
<1>1. IOMode # "mmio" /\ dev \in Devices
  BY DEF PrintChar, ReadChar, IOInv
<1>2. dev.inReady = 0 /\ latched = loaded
  BY <1>1 DEF IOInv, ChannelOf
<1>3. CASE PrintChar(i)
  <2>1. reg.v \in Byte
    BY DEF Registers
  <2>2. Append(dev.output, reg.v) \in Seq(Byte) /\ stored' \in Seq(Byte)
    BY <1>1, <1>3, <2>1, AppendProperties DEF Devices, PrintChar, IOInv
  <2>3. dev' \in Devices /\ dev'.inReady = 0
    BY <1>1, <1>2, <1>3, <2>2 DEF Devices, PrintChar
  <2> QED BY <1>1, <1>2, <1>3, <2>2, <2>3 DEF IOInv, ChannelOf, PrintChar
<1>4. CASE ReadChar(i)
  <2>1. Head(dev.input) \in Byte /\ Tail(dev.input) \in Seq(Byte)
    BY <1>1, <1>4, HeadTailProperties DEF ReadChar, Devices
  <2>2. dev' \in Devices /\ dev'.inReady = 0
    BY <1>1, <1>2, <1>4, <2>1 DEF Devices, ReadChar
  <2>3. latched' = loaded' /\ latched' \in Seq(Byte)
    BY <1>2, <1>4, <2>1, AppendProperties DEF IOInv, ReadChar
  <2> QED BY <1>1, <1>4, <2>2, <2>3 DEF IOInv, ChannelOf, ReadChar
<1> QED BY <1>3, <1>4

-----------------------------------------------------------------------------
(* The steps of the control part. *)

(* pc + 4 wraps and stays a word. *)
LEMMA NextAddrType == ASSUME NEW w \in Word PROVE NextAddr(w) \in Word
  BY LayoutAssumption, SMT DEF NextAddr, Word

(* What the layout assumption says of user and kernel text. *)
LEMMA LayoutFacts ==
  /\ Word \subseteq Int /\ 0 \in Word /\ 0 < KText
  /\ KText \in Word /\ Text \in Word /\ Text < KText
  BY LayoutAssumption, SMT DEF Word

(* Going on at an address is transparent: user code moves resume along.    *)
LEMMA ContinueStep ==
  ASSUME CtlInv, outcome = "running", NEW a \in Word, Continue(a),
         cp0' \in Cop0, cp0'.epc = cp0.epc
  PROVE  CtlInv'
<1>1. pc' = a /\ outcome' = outcome
  BY DEF Continue
<1>2. CASE InUser
  <2>1. resume' = a /\ detoured' = ~UserAddr(a)
    BY <1>2 DEF Continue
  <2> QED BY <1>1, <2>1 DEF CtlInv, TrapsTransparent, InUser, UserAddr
<1>3. CASE ~InUser
  <2>1. resume' = resume /\ detoured' = (detoured \/ UserAddr(a))
    BY <1>3 DEF Continue
  <2>2. ~detoured => resume = cp0.epc /\ resume < KText
    BY <1>3 DEF CtlInv, TrapsTransparent
  <2>3. detoured' \in BOOLEAN
    BY <2>1
  <2>4. ~detoured' => ~detoured /\ ~InUser'
    BY <1>1, <2>1 DEF InUser
  <2>5. TrapsTransparent'
    BY <2>1, <2>2, <2>4 DEF TrapsTransparent
  <2> QED BY <1>1, <2>1, <2>2, <2>3, <2>4, <2>5 DEF CtlInv
<1> QED BY <1>2, <1>3

(* An exception that leaves step ends the run and disturbs nothing else. *)
LEMMA ThrowStep ==
  ASSUME CtlInv, NEW kind \in Outcomes \ {"running"}, NEW a \in Word,
         Throw(kind, a)
  PROVE  CtlInv'
BY DEF CtlInv, Throw, TrapsTransparent

(* A trap from user code puts the address to go on with into EPC; a trap   *)
(* from the handler gives that up.                                         *)
LEMMA TrapStep ==
  ASSUME CtlInv, outcome = "running", NEW c \in Causes, Trap(c)
  PROVE  CtlInv'
<1>1. pc \in Word /\ cp0 \in Cop0 /\ NextAddr(pc) \in Word
  BY NextAddrType DEF CtlInv
<1>2. CASE Valid(KText)
  <2>1. /\ cp0' = [cp0 EXCEPT !.epc = pc, !.cause = c]
        /\ pc' = KText
        /\ resume' = IF pc < KText THEN pc ELSE resume
        /\ detoured' = ~ (pc < KText)
        /\ outcome' = outcome
    BY <1>2 DEF Trap, InUser, UserAddr
  <2>2. cp0' \in Cop0 /\ cp0'.epc = pc
    BY <1>1, <2>1 DEF Cop0
  <2>3. resume' \in Word /\ detoured' \in BOOLEAN /\ (~detoured' => resume' < KText)
    BY <1>1, <2>1 DEF CtlInv
  <2>4. ~ (pc' < KText)
    BY <2>1, LayoutFacts, SMT
  <2>5. TrapsTransparent'
    BY <2>1, <2>2, <2>4 DEF TrapsTransparent, InUser, UserAddr
  <2> QED BY <2>1, <2>2, <2>3, <2>5, LayoutFacts DEF CtlInv
<1>3. CASE ~Valid(KText)
  BY <1>1, <1>3 DEF Trap, CtlInv, TrapsTransparent, Outcomes
<1> QED BY <1>2, <1>3

(* A handler that writes EPC has detoured. *)
LEMMA WriteEpcStep ==
  ASSUME CtlInv, outcome = "running", reg \in Registers, NEW i, WriteEpc(i)
  PROVE  CtlInv'
<1>1. pc' = NextAddr(pc) /\ outcome' = outcome
  BY DEF WriteEpc
<1>2. cp0' \in Cop0 /\ NextAddr(pc) \in Word
  BY NextAddrType DEF WriteEpc, CtlInv, Cop0, Registers
<1>3. CASE InUser /\ UserAddr(NextAddr(pc))
  <2>1. resume' = pc' /\ InUser'
    BY <1>1, <1>3 DEF WriteEpc, InUser
  <2>2. detoured' \in BOOLEAN
    BY DEF WriteEpc
  <2> QED BY <1>1, <1>2, <2>1, <2>2 DEF CtlInv, TrapsTransparent, InUser, UserAddr
<1>4. CASE ~(InUser /\ UserAddr(NextAddr(pc)))
  <2>1. detoured' /\ detoured' \in BOOLEAN
    BY <1>4 DEF WriteEpc
  <2>2. resume' \in Word
    BY <1>2 DEF WriteEpc, CtlInv
  <2> QED BY <1>1, <1>2, <2>1, <2>2 DEF CtlInv, TrapsTransparent
<1> QED BY <1>3, <1>4

(* eret goes on at EPC, which is where user code was stopped. *)
LEMMA EretStep ==
  ASSUME CtlInv, outcome = "running", NEW i, Eret(i)
  PROVE  CtlInv'
<1>1. pc' = cp0.epc /\ outcome' = outcome
  BY DEF Eret
<1>2. cp0' \in Cop0 /\ cp0.epc \in Word
  BY LayoutFacts DEF Eret, CtlInv, Cop0
<1>3. CASE InUser
  <2>1. resume' = pc' /\ detoured' = ~UserAddr(pc')
    BY <1>1, <1>3 DEF Eret
  <2>2. detoured' \in BOOLEAN
    BY <2>1
  <2> QED BY <1>1, <1>2, <2>1, <2>2 DEF CtlInv, TrapsTransparent, InUser, UserAddr
<1>4. CASE ~InUser
  <2>1. resume' = resume /\ detoured' = detoured
    BY <1>4 DEF Eret
  <2>2. ~detoured => resume = cp0.epc /\ resume < KText
    BY <1>4 DEF CtlInv, TrapsTransparent
  <2> QED BY <1>1, <1>2, <2>1, <2>2 DEF CtlInv, TrapsTransparent, InUser, UserAddr
<1> QED BY <1>3, <1>4

-----------------------------------------------------------------------------
(* One instruction, by its disjunct of Execute. *)
LEMMA ExecuteStep ==
  ASSUME IInv, outcome = "running", NEW i \in Instr, Execute(i),
         UNCHANGED typed
  PROVE  IInv'
<1> USE DEF IInv
<1>0. /\ pc \in Word /\ NextAddr(pc) \in Word /\ cp0 \in Cop0
      /\ reg \in Registers /\ Pumped \in Devices
  BY NextAddrType, PumpTypes DEF CtlInv, IOInv
<1>1. CASE Alu(i)
  BY <1>0, <1>1, ContinueStep, NoIOStep DEF Alu
<1>2. CASE LoadReady(i)
  <2>1. reg' \in Registers
    BY <1>0, <1>2 DEF LoadReady, Registers, Devices
  <2> QED BY <1>0, <1>2, <2>1, ContinueStep, NoIOStep DEF LoadReady
<1>3. CASE LoadInput(i)
  <2>1. reg' \in Registers
    BY <1>0, <1>3 DEF LoadInput, Registers, Devices
  <2> QED BY <1>0, <1>3, <2>1, ContinueStep, LoadInputStep DEF LoadInput
<1>4. CASE StoreOutput(i)
  BY <1>0, <1>4, ContinueStep, StoreOutputStep DEF StoreOutput
<1>5. CASE StoreReadOnly(i)
  BY <1>0, <1>5, ThrowStep, NoIOStep DEF StoreReadOnly, Outcomes
<1>6. CASE Fault(i)
  <2>1. i.cause \in Causes
    BY <1>6 DEF Fault, Instr, Causes
  <2> QED BY <1>6, <2>1, TrapStep, NoIOStep DEF Fault
<1>7. CASE Jump(i)
  <2>1. i.op # "jr_ra" => i.to \in Word
    BY <1>7 DEF Jump, Instr
  <2>2. reg.ra \in Word
    BY <1>0 DEF Registers
  <2> QED BY <1>0, <1>7, <2>1, <2>2, ContinueStep, NoIOStep DEF Jump
<1>8. CASE WriteStatus(i)
  <2>1. i.ie \in BOOLEAN /\ i.kbd \in BOOLEAN /\ i.dsp \in BOOLEAN
    BY <1>8 DEF WriteStatus, Instr
  <2>2. cp0' \in Cop0 /\ cp0'.epc = cp0.epc
    BY <1>0, <1>8, <2>1 DEF WriteStatus, Cop0
  <2> QED BY <1>0, <1>8, <2>2, ContinueStep, NoIOStep DEF WriteStatus
<1>9. CASE ReadEpc(i)
  <2>1. cp0.epc \in Word /\ NextAddr(reg.k) \in Word
    BY <1>0, NextAddrType DEF Cop0, Registers
  <2>2. reg' \in Registers
    BY <1>0, <1>9, <2>1 DEF ReadEpc, Registers
  <2> QED BY <1>0, <1>9, <2>2, ContinueStep, NoIOStep DEF ReadEpc
<1>10. CASE WriteEpc(i)
  BY <1>10, WriteEpcStep, NoIOStep DEF WriteEpc
<1>11. CASE Eret(i)
  BY <1>11, EretStep, NoIOStep DEF Eret
<1>12. CASE Exit(i)
  BY <1>0, <1>12, ThrowStep, NoIOStep DEF Exit, Outcomes
<1>13. CASE RefusedSyscall(i)
  BY <1>13, TrapStep, NoIOStep DEF RefusedSyscall, Causes
<1>14. CASE PrintChar(i)
  BY <1>0, <1>14, ContinueStep, SyscallSteps DEF PrintChar
<1>15. CASE ReadChar(i)
  <2>1. Head(dev.input) \in Byte
    BY <1>15, HeadTailProperties DEF ReadChar, IOInv, Devices
  <2>2. reg' \in Registers
    BY <1>0, <1>15, <2>1 DEF ReadChar, Registers
  <2> QED BY <1>0, <1>15, <2>2, ContinueStep, SyscallSteps DEF ReadChar
<1>16. CASE Call(i)
  <2>1. i.to \in Word
    BY <1>16 DEF Call, Instr
  <2>2. reg' \in Registers
    BY <1>0, <1>16 DEF Call, Registers
  <2> QED BY <1>0, <1>16, <2>1, <2>2, ContinueStep, NoIOStep DEF Call
<1> QED BY <1>1, <1>2, <1>3, <1>4, <1>5, <1>6, <1>7, <1>8, <1>9, <1>10,
           <1>11, <1>12, <1>13, <1>14, <1>15, <1>16 DEF Execute

(* One call of step. *)
LEMMA StepStep ==
  ASSUME IInv, Step
  PROVE  IInv'
<1> USE DEF IInv
<1>0. outcome = "running" /\ typed' = typed /\ pc \in Word
  BY DEF Step, CtlInv
<1>1. CASE BadAddress
  BY <1>0, <1>1, ThrowStep, NoIOStep DEF BadAddress, Outcomes
<1>2. CASE BeyondText
  BY <1>0, <1>2, ThrowStep, NoIOStep DEF BeyondText, Outcomes
<1>3. CASE MisalignedFetch
  BY <1>0, <1>3, ThrowStep, NoIOStep DEF MisalignedFetch, Outcomes
<1>4. CASE Interrupt
  BY <1>0, <1>4, TrapStep, NoIOStep DEF Interrupt, Causes
<1>5. CASE Instruction
  <2>1. PICK i \in Code[pc] : Execute(i)
    BY <1>5 DEF Instruction
  <2>2. i \in Instr
    BY <1>5, <2>1, CodeAssumption DEF Instruction
  <2> QED BY <1>0, <2>1, <2>2, ExecuteStep
<1> QED BY <1>1, <1>2, <1>3, <1>4, <1>5 DEF Step

(* Typing only appends to the stream. *)
LEMMA TypeStep ==
  ASSUME IInv, NEW c \in Byte, Type(c)
  PROVE  IInv'
<1> USE DEF IInv
<1>1. /\ dev' = [dev EXCEPT !.input = Append(dev.input, c)]
      /\ typed' = Append(typed, c)
      /\ UNCHANGED <<pc, reg, cp0, outcome, latched, loaded, stored,
                     clobbered, resume, detoured>>
  BY DEF Type
<1>2. dev \in Devices /\ Append(dev.input, c) \in Seq(Byte)
      /\ Append(typed, c) \in Seq(Byte)
  BY AppendProperties DEF IOInv, Devices
<1>3. /\ dev' \in Devices
      /\ dev'.inReady = dev.inReady /\ dev'.inData = dev.inData
      /\ dev'.outReady = dev.outReady /\ dev'.outData = dev.outData
      /\ dev'.output = dev.output
  BY <1>1, <1>2 DEF Devices
<1>4. IOInv'
  BY <1>1, <1>3 DEF IOInv, ChannelOf, DisplayOf
<1>5. CtlInv'
  BY <1>1 DEF CtlInv, TrapsTransparent, InUser, UserAddr
<1> QED BY <1>1, <1>2, <1>4, <1>5

(* IInv is inductive. *)
LEMMA StepIInv == IInv /\ [Next]_vars => IInv'
<1> SUFFICES ASSUME IInv, [Next]_vars PROVE IInv'
  OBVIOUS
<1>1. CASE Step
  BY <1>1, StepStep
<1>2. ASSUME NEW c \in Byte, Type(c) PROVE IInv'
  BY <1>2, TypeStep
<1>3. CASE UNCHANGED vars
  BY <1>3 DEF vars, IInv, IOInv, CtlInv, ChannelOf, DisplayOf,
              TrapsTransparent, InUser, UserAddr
<1> QED BY <1>1, <1>2, <1>3 DEF Next

(* IInv holds at the start. *)
LEMMA InitIInv == Init => IInv
<1> SUFFICES ASSUME Init PROVE IInv
  OBVIOUS
<1>1. <<>> \in Seq(Byte) /\ NUL \in Byte
  BY EmptySeq DEF Byte
<1>2. IOInv
  <2>1. dev \in Devices /\ dev.inReady = 0 /\ dev.outReady = 1 /\ dev.output = <<>>
    BY <1>1, StreamAssumption DEF Init, Devices, ResetDevices
  <2>2. latched = <<>> /\ loaded = <<>> /\ stored = <<>> /\ clobbered = FALSE
    BY DEF Init
  <2>3. ChannelOf(dev, latched, loaded)
    BY <2>1, <2>2 DEF ChannelOf
  <2>4. DisplayOf(dev, stored)
    BY <2>1, <2>2 DEF DisplayOf
  <2> QED BY <1>1, <2>1, <2>2, <2>3, <2>4 DEF IOInv
<1>3. CtlInv
  BY LayoutFacts DEF Init, ResetCop0, CtlInv, Cop0, Outcomes, TrapsTransparent,
                     InUser, UserAddr
<1> QED BY <1>1, <1>2, <1>3, LayoutFacts, StreamAssumption
        DEF Init, ResetRegisters, IInv, Registers

(* IInv is an invariant. *)
LEMMA Invariance == Spec => []IInv
  BY InitIInv, StepIInv, PTL DEF Spec

-----------------------------------------------------------------------------
(* Types, for every program and layout. *)
THEOREM SimulatorTypeOK == Spec => []TypeOK
<1>1. IInv => TypeOK
  BY DEF IInv, IOInv, CtlInv, TypeOK
<1> QED BY <1>1, Invariance, PTL

(* Everything stored while no store replaced an unprinted character is     *)
(* printed or pending, in order.                                           *)
THEOREM SimulatorOutputLossless == Spec => []OutputLossless
<1>1. IInv => OutputLossless
  BY DEF IInv, IOInv, DisplayOf, OutputLossless
<1> QED BY <1>1, Invariance, PTL

(* Only code in kernel text can replace an unprinted character. *)
THEOREM SimulatorOnlyHandlerClobbers == Spec => OnlyHandlerClobbers
<1>1. IInv /\ [Next]_vars =>
        [clobbered' # clobbered => IOMode # "mmio" \/ ~InUser]_vars
  <2> SUFFICES ASSUME IInv, Next, clobbered' # clobbered,
                      IOMode = "mmio", InUser
               PROVE  FALSE
    BY DEF vars
  <2>1. PICK i : StoreOutput(i)
    BY DEF Next, Type, Step, BadAddress, BeyondText, MisalignedFetch, Interrupt,
           Instruction, Execute, Alu, LoadReady, LoadInput, StoreReadOnly,
           Fault, Jump, Call, WriteStatus, ReadEpc, WriteEpc, Eret, Exit,
           RefusedSyscall, PrintChar, ReadChar, NoIO
  <2>2. Pumped.outReady = 1
    BY PumpMakesReady DEF IInv
  <2> QED BY <2>1, <2>2 DEF StoreOutput, IInv, IOInv
<1> QED BY <1>1, Invariance, PTL DEF Spec, OnlyHandlerClobbers

-----------------------------------------------------------------------------
(* The types alone, which other modules need without the rest of IInv. *)

(* Every way an instruction goes on or ends leaves the control state typed. *)
ControlTyped == /\ pc \in Word /\ cp0 \in Cop0 /\ outcome \in Outcomes
                /\ resume \in Word /\ detoured \in BOOLEAN

LEMMA ControlTypes ==
  ASSUME ControlTyped
  PROVE  /\ \A a \in Word : Continue(a) /\ cp0' \in Cop0 => ControlTyped'
         /\ \A c \in Causes : Trap(c) => ControlTyped'
         /\ \A o \in Outcomes, a \in Word : Throw(o, a) => ControlTyped'
<1>1. \A a \in Word : Continue(a) /\ cp0' \in Cop0 => ControlTyped'
  <2> SUFFICES ASSUME NEW a \in Word, Continue(a), cp0' \in Cop0
               PROVE  ControlTyped'
    OBVIOUS
  <2>1. detoured' \in BOOLEAN
    BY DEF Continue, ControlTyped
  <2> QED BY <2>1 DEF Continue, ControlTyped
<1>2. \A c \in Causes : Trap(c) => ControlTyped'
  BY NextAddrType, LayoutFacts DEF Trap, ControlTyped, Cop0, Outcomes
<1>3. \A o \in Outcomes, a \in Word : Throw(o, a) => ControlTyped'
  BY DEF Throw, ControlTyped
<1> QED BY <1>1, <1>2, <1>3

(* One call of step keeps the types of everything. *)
LEMMA StepTypes ==
  ASSUME TypeOK, Step
  PROVE  TypeOK'
<1>0. /\ ControlTyped /\ NextAddr(pc) \in Word /\ typed' = typed
      /\ Pumped \in Devices /\ LatchedNow \in Seq(Byte)
      /\ outcome = "running"
  BY NextAddrType, PumpTypes DEF TypeOK, ControlTyped, Step
<1>1. NoIO => /\ dev' \in Devices /\ latched' \in Seq(Byte) /\ loaded' \in Seq(Byte)
              /\ stored' \in Seq(Byte) /\ clobbered' \in BOOLEAN
  BY <1>0 DEF NoIO, TypeOK
<1>2. CASE BadAddress \/ BeyondText \/ MisalignedFetch
  BY <1>0, <1>1, <1>2, ControlTypes
     DEF BadAddress, BeyondText, MisalignedFetch, TypeOK, ControlTyped, Outcomes
<1>3. CASE Interrupt
  BY <1>0, <1>1, <1>3, ControlTypes DEF Interrupt, TypeOK, ControlTyped, Causes
<1>4. ASSUME NEW i \in Instr, Execute(i)
      PROVE  TypeOK'
  <2> USE <1>0, ControlTypes
  <2>1. CASE Alu(i) \/ LoadReady(i) \/ ReadEpc(i) \/ Call(i)
    <3>1. \E a \in Word : Continue(a)
      <4>1. i.op = "jal" => i.to \in Word
        BY DEF Instr
      <4> QED BY <2>1, <4>1 DEF Alu, LoadReady, ReadEpc, Call
    <3>2. NextAddr(reg.k) \in Word /\ cp0.epc \in Word
      BY NextAddrType DEF TypeOK, Registers, Cop0
    <3>3. reg' \in Registers /\ NoIO /\ cp0' = cp0
      BY <2>1, <3>2 DEF Alu, LoadReady, ReadEpc, Call, TypeOK, Registers, Devices
    <3> QED BY <1>1, <3>1, <3>3 DEF TypeOK, ControlTyped
  <2>2. CASE LoadInput(i)
    <3>1. reg' \in Registers /\ dev' \in Devices
      BY <2>2 DEF LoadInput, TypeOK, Registers, Devices
    <3>2. loaded' \in Seq(Byte) /\ latched' \in Seq(Byte)
      BY <2>2, AppendProperties DEF LoadInput, TypeOK, Devices
    <3> QED BY <2>2, <3>1, <3>2 DEF LoadInput, TypeOK, ControlTyped
  <2>3. CASE StoreOutput(i)
    <3>1. reg.v \in Byte
      BY DEF TypeOK, Registers
    <3>2. dev' \in Devices /\ clobbered' \in BOOLEAN
      BY <2>3, <3>1 DEF StoreOutput, TypeOK, Devices
    <3>3. stored' \in Seq(Byte) /\ latched' \in Seq(Byte)
      BY <2>3, <3>1, AppendProperties DEF StoreOutput, TypeOK
    <3> QED BY <2>3, <3>2, <3>3 DEF StoreOutput, TypeOK, ControlTyped
  <2>4. CASE StoreReadOnly(i) \/ Exit(i)
    BY <1>1, <2>4 DEF StoreReadOnly, Exit, TypeOK, ControlTyped, Outcomes
  <2>5. CASE Fault(i) \/ RefusedSyscall(i)
    <3>1. \E c \in Causes : Trap(c)
      BY <2>5 DEF Fault, RefusedSyscall, Instr, Causes
    <3>2. reg' = reg /\ NoIO
      BY <2>5 DEF Fault, RefusedSyscall
    <3> QED BY <1>1, <3>1, <3>2 DEF TypeOK, ControlTyped
  <2>6. CASE Jump(i)
    <3>1. \E a \in Word : Continue(a)
      <4>1. i.op # "jr_ra" => i.to \in Word
        BY <2>6 DEF Jump, Instr
      <4>2. reg.ra \in Word
        BY DEF TypeOK, Registers
      <4> QED BY <2>6, <4>1, <4>2 DEF Jump
    <3> QED BY <1>1, <2>6, <3>1 DEF Jump, TypeOK, ControlTyped
  <2>7. CASE WriteStatus(i)
    <3>1. i.ie \in BOOLEAN /\ i.kbd \in BOOLEAN /\ i.dsp \in BOOLEAN
      BY <2>7 DEF WriteStatus, Instr
    <3>2. cp0' \in Cop0
      BY <2>7, <3>1 DEF WriteStatus, Cop0, TypeOK
    <3> QED BY <1>1, <2>7, <3>2 DEF WriteStatus, TypeOK, ControlTyped
  <2>8. CASE WriteEpc(i)
    <3>1. cp0' \in Cop0
      BY <2>8 DEF WriteEpc, Cop0, TypeOK, Registers
    <3>2. resume' \in Word /\ pc' \in Word
      BY <2>8 DEF WriteEpc, TypeOK
    <3>3. detoured' \in BOOLEAN
      BY <2>8 DEF WriteEpc
    <3> QED BY <1>1, <2>8, <3>1, <3>2, <3>3 DEF WriteEpc, TypeOK
  <2>9. CASE Eret(i)
    <3>1. cp0' \in Cop0 /\ cp0.epc \in Word
      BY <2>9, LayoutFacts DEF Eret, Cop0, TypeOK
    <3>2. detoured' \in BOOLEAN
      BY <2>9 DEF Eret, TypeOK
    <3> QED BY <1>1, <2>9, <3>1, <3>2 DEF Eret, TypeOK
  <2>10. CASE PrintChar(i)
    <3>1. reg.v \in Byte
      BY DEF TypeOK, Registers
    <3>2. dev' \in Devices /\ stored' \in Seq(Byte)
      BY <2>10, <3>1, AppendProperties DEF PrintChar, TypeOK, Devices
    <3> QED BY <2>10, <3>2 DEF PrintChar, TypeOK, ControlTyped
  <2>11. CASE ReadChar(i)
    <3>1. Head(dev.input) \in Byte /\ Tail(dev.input) \in Seq(Byte)
      BY <2>11, HeadTailProperties DEF ReadChar, TypeOK, Devices
    <3>2. dev' \in Devices /\ reg' \in Registers
      BY <2>11, <3>1 DEF ReadChar, TypeOK, Devices, Registers
    <3>3. latched' \in Seq(Byte) /\ loaded' \in Seq(Byte)
      BY <2>11, <3>1, AppendProperties DEF ReadChar, TypeOK
    <3> QED BY <2>11, <3>2, <3>3 DEF ReadChar, TypeOK, ControlTyped
  <2> QED BY <1>4, <2>1, <2>2, <2>3, <2>4, <2>5, <2>6, <2>7, <2>8, <2>9, <2>10,
             <2>11 DEF Execute
<1>5. CASE Instruction
  BY <1>4, <1>5, CodeAssumption DEF Instruction
<1> QED BY <1>2, <1>3, <1>5 DEF Step

(* An exception of the machine leaves step only from the fetch, and pc is  *)
(* still the address that was fetched from.                                *)
THEOREM SimulatorOnlyMisalignedEscapes == Spec => []OnlyMisalignedFetchEscapes
<1>1. Init => OnlyMisalignedFetchEscapes
  BY DEF Init, OnlyMisalignedFetchEscapes
<1>2. OnlyMisalignedFetchEscapes /\ [Next]_vars => OnlyMisalignedFetchEscapes'
  <2> SUFFICES ASSUME OnlyMisalignedFetchEscapes, [Next]_vars,
                      outcome' = "execExcept"
               PROVE  Valid(pc') /\ pc' % 4 # 0
    BY DEF OnlyMisalignedFetchEscapes, Valid
  <2>1. CASE outcome = "execExcept"
    BY <2>1 DEF Next, Step, Type, vars, OnlyMisalignedFetchEscapes
  <2>2. CASE outcome # "execExcept"
    <3>1. MisalignedFetch
      BY <2>2 DEF Next, Type, vars, Step, BadAddress, BeyondText, Interrupt,
             Instruction, Execute, Alu, LoadReady, LoadInput, StoreOutput,
             StoreReadOnly, Fault, Jump, Call, WriteStatus, ReadEpc, WriteEpc,
             Eret, Exit, RefusedSyscall, PrintChar, ReadChar, Throw, Trap, Continue
    <3> QED BY <3>1 DEF MisalignedFetch, Throw
  <2> QED BY <2>1, <2>2
<1> QED BY <1>1, <1>2, PTL DEF Spec

(* Unless the handler itself detours, user code goes on where it stopped.  *)
THEOREM SimulatorTrapsTransparent == Spec => []TrapsTransparent
<1>1. IInv => TrapsTransparent
  BY DEF IInv, CtlInv
<1> QED BY <1>1, Invariance, PTL

(* Appending a character is what the channel calls one more. *)
LEMMA AppendOneMore ==
  ASSUME NEW s \in Seq(Byte), NEW c \in Byte
  PROVE  K!OneMore(s, Append(s, c))
<1>1. /\ Append(s, c) \in Seq(Byte)
      /\ Len(Append(s, c)) = Len(s) + 1
      /\ Append(s, c)[Len(s) + 1] = c
      /\ Append(s, c) # <<>>
  BY AppendProperties
<1> QED BY <1>1 DEF K!OneMore

(* The keyboard words implement the one-place lossless channel. *)
THEOREM SimulatorKeyboardIsChannel == Spec => KeyboardIsChannel
<1>1. Init => K!ChannelInit
  BY DEF Init, K!ChannelInit
<1>2. IInv /\ [Next]_vars => [K!ChannelNext]_(K!channel)
  <2> SUFFICES ASSUME IInv, [Next]_vars, ~ UNCHANGED <<latched, loaded>>
               PROVE  K!ChannelNext
    BY DEF K!channel
  <2> USE DEF IInv
  <2>1. LatchedNow = latched \/ (latched = loaded /\ K!OneMore(latched, LatchedNow))
    <3>1. CASE Latches
      <4>1. dev.inReady = 0 /\ dev.input # <<>>
        BY <3>1 DEF Latches, ReadsStream
      <4>2. Head(dev.input) \in Byte
        BY <4>1, HeadTailProperties DEF IOInv, Devices
      <4>3. latched = loaded
        BY <4>1 DEF IOInv, ChannelOf
      <4>4. LatchedNow = Append(latched, Head(dev.input)) /\ latched \in Seq(Byte)
        BY <3>1 DEF LatchedNow, IOInv
      <4>5. K!OneMore(latched, LatchedNow)
        BY <4>2, <4>4, AppendOneMore
      <4> QED BY <4>3, <4>5
    <3>2. CASE ~Latches
      BY <3>2 DEF LatchedNow
    <3> QED BY <3>1, <3>2
  <2>2. CASE NoIO
    BY <2>1, <2>2 DEF NoIO, K!ChannelNext, K!Take
  <2>3. ASSUME NEW i, StoreOutput(i) PROVE K!ChannelNext
    BY <2>1, <2>3 DEF StoreOutput, K!ChannelNext, K!Take
  <2>4. ASSUME NEW i, LoadInput(i) PROVE K!ChannelNext
    <3>1. latched' = LatchedNow
      BY <2>4 DEF LoadInput
    <3>2. loaded' = LatchedNow
      BY <2>4, PumpChannel DEF LoadInput, ChannelOf
    <3>3. CASE LatchedNow = latched
      <4>1. Len(loaded) < Len(latched)
        <5>1. latched # loaded
          BY <3>1, <3>2, <3>3
        <5>2. latched = Append(loaded, dev.inData) /\ dev.inData \in Byte
              /\ loaded \in Seq(Byte)
          BY <5>1 DEF IOInv, ChannelOf, Devices
        <5>3. Len(latched) = Len(loaded) + 1 /\ Len(loaded) \in Nat
          BY <5>2, AppendProperties, LenProperties
        <5> QED BY <5>3, SMT
      <4> QED BY <3>1, <3>2, <3>3, <4>1 DEF K!ChannelNext, K!Read
    <3>4. CASE LatchedNow # latched
      BY <2>1, <3>1, <3>2, <3>4 DEF K!ChannelNext, K!TakeAndRead
    <3> QED BY <3>3, <3>4
  <2>5. ASSUME NEW i, ReadChar(i) PROVE K!ChannelNext
    <3>1. dev.input # <<>> /\ IOMode # "mmio"
      BY <2>5 DEF ReadChar
    <3>2. latched = loaded /\ latched \in Seq(Byte)
      BY <3>1 DEF IOInv, ChannelOf
    <3>3. Head(dev.input) \in Byte
      BY <3>1, HeadTailProperties DEF IOInv, Devices
    <3>4. latched' = Append(latched, Head(dev.input)) /\ loaded' = latched'
      BY <2>5, <3>2 DEF ReadChar
    <3>5. K!OneMore(latched, latched')
      BY <3>2, <3>3, <3>4, AppendOneMore
    <3> QED BY <3>2, <3>4, <3>5 DEF K!ChannelNext, K!TakeAndRead
  <2>6. ASSUME NEW i, PrintChar(i) PROVE FALSE
    BY <2>6 DEF PrintChar
  <2>7. NoIO \/ \E i : StoreOutput(i) \/ LoadInput(i) \/ ReadChar(i) \/ PrintChar(i)
    BY DEF Next, vars, Type, Step, BadAddress, BeyondText, MisalignedFetch,
           Interrupt, Instruction, Execute, Alu, LoadReady, StoreReadOnly,
           Fault, Jump, Call, WriteStatus, ReadEpc, WriteEpc, Eret, Exit,
           RefusedSyscall
  <2> QED BY <2>2, <2>3, <2>4, <2>5, <2>6, <2>7
<1> QED BY <1>1, <1>2, Invariance, PTL
        DEF Spec, KeyboardIsChannel, K!ChannelSpec
-----------------------------------------------------------------------------
(* What is typed arrives. *)

(* The places that Carried counts. *)
KeptIn(t, n) == {i \in 1 .. n : t[i] # NUL}

(* They are finite in number, and the next character adds one or none. *)
LEMMA KeptCounts ==
  ASSUME NEW t, NEW n \in Nat
  PROVE  /\ IsFiniteSet(KeptIn(t, n)) /\ Cardinality(KeptIn(t, n)) \in Nat
         /\ n + 1 \notin KeptIn(t, n)
         /\ KeptIn(t, n + 1) = IF t[n + 1] = NUL THEN KeptIn(t, n)
                               ELSE KeptIn(t, n) \union {n + 1}
         /\ t[n + 1] # NUL =>
              Cardinality(KeptIn(t, n + 1)) = Cardinality(KeptIn(t, n)) + 1
<1>1. IsFiniteSet(1 .. n)
  BY FS_Interval, SMT
<1>2. IsFiniteSet(KeptIn(t, n)) /\ Cardinality(KeptIn(t, n)) \in Nat
  BY <1>1, FS_Subset, FS_CardinalityType DEF KeptIn
<1>3. n + 1 \notin KeptIn(t, n)
  BY SMT DEF KeptIn
<1>4. KeptIn(t, n + 1) = IF t[n + 1] = NUL THEN KeptIn(t, n)
                         ELSE KeptIn(t, n) \union {n + 1}
  <2>1. 1 .. n + 1 = (1 .. n) \union {n + 1}
    BY SMT
  <2> QED BY <2>1 DEF KeptIn
<1> QED BY <1>2, <1>3, <1>4, FS_AddElement

(* A NUL more changes nothing. *)
LEMMA CarriedNul ==
  ASSUME NEW t, NEW n \in Nat, NEW s, Carried(t, n, s), t[n + 1] = NUL
  PROVE  Carried(t, n + 1, s)
  BY KeptCounts DEF Carried, KeptIn

(* A character more comes behind what was carried. *)
LEMMA CarriedChar ==
  ASSUME NEW t, NEW n \in Nat, NEW s \in Seq(Byte), Carried(t, n, s),
         t[n + 1] \in Byte, t[n + 1] # NUL
  PROVE  Carried(t, n + 1, Append(s, t[n + 1]))
<1> DEFINE old == KeptIn(t, n)
           new == KeptIn(t, n + 1)
           more == Append(s, t[n + 1])
<1>1. /\ new = old \union {n + 1} /\ n + 1 \notin old /\ IsFiniteSet(old)
      /\ Cardinality(old) \in Nat /\ Cardinality(new) = Cardinality(old) + 1
  BY KeptCounts
<1>2. Len(s) = Cardinality(old) /\ \A i \in old : s[Cardinality({j \in old : j <= i})] = t[i]
  BY DEF Carried, KeptIn
<1>3. /\ more \in Seq(Byte) /\ Len(more) = Len(s) + 1 /\ more[Len(s) + 1] = t[n + 1]
      /\ \A r \in 1 .. Len(s) : more[r] = s[r]
  BY AppendProperties
<1>4. old \subseteq 1 .. n
  BY DEF KeptIn
<1> HIDE DEF old, new, more
<1>5. ASSUME NEW i \in old
      PROVE  more[Cardinality({j \in new : j <= i})] = t[i]
  <2>1. {j \in new : j <= i} = {j \in old : j <= i}
    <3>1. ~(n + 1 <= i)
      BY <1>4, SMT
    <3> QED BY <1>1, <3>1
  <2> DEFINE below == {j \in old : j <= i}
  <2>2. below \subseteq old /\ i \in below
    BY <1>4, SMT
  <2> HIDE DEF below
  <2>3. /\ IsFiniteSet(below) /\ Cardinality(below) \in Nat
        /\ Cardinality(below) <= Cardinality(old)
    BY <1>1, <2>2, FS_Subset, FS_CardinalityType
  <2>4. Cardinality(below) # 0
    BY <2>2, <2>3, FS_EmptySet
  <2>5. Cardinality(below) \in 1 .. Len(s)
    BY <1>1, <1>2, <2>3, <2>4, SMT
  <2> QED BY <1>2, <1>3, <2>1, <2>5 DEF below
<1>6. more[Cardinality({j \in new : j <= n + 1})] = t[n + 1]
  <2>1. \A j \in new : j <= n + 1
    BY <1>1, <1>4, SMT
  <2>2. {j \in new : j <= n + 1} = new
    BY <2>1
  <2> QED BY <1>1, <1>2, <1>3, <2>2
<1>7. \A i \in new : more[Cardinality({j \in new : j <= i})] = t[i]
  BY <1>1, <1>5, <1>6
<1>8. Len(more) = Cardinality(new)
  BY <1>1, <1>2, <1>3
<1> QED BY <1>7, <1>8 DEF Carried, KeptIn, new, more

(* Of what was typed the stream has the end; the rest has been latched. *)
StreamInv ==
  LET n == Len(typed) - Len(dev.input)
  IN  /\ n >= 0
      /\ \A k \in 1 .. Len(dev.input) : dev.input[k] = typed[n + k]
      /\ Carried(typed, n, latched)

(* One character leaves the stream; a NUL is dropped. *)
LEMMA ConsumeStep ==
  ASSUME TypeOK, StreamInv, dev.input # <<>>, typed' = typed,
         dev'.input = Tail(dev.input),
         latched' = IF Head(dev.input) = NUL THEN latched
                    ELSE Append(latched, Head(dev.input))
  PROVE  StreamInv'
<1> DEFINE n == Len(typed) - Len(dev.input)
<1>1. /\ dev.input \in Seq(Byte) /\ typed \in Seq(Byte) /\ latched \in Seq(Byte)
      /\ Len(dev.input) \in Nat /\ Len(typed) \in Nat
  BY DEF TypeOK, Devices
<1>2. Len(dev.input) > 0
  BY <1>1, EmptySeq, SMT
<1>3. n \in Nat /\ n + 1 \in 1 .. Len(typed)
  BY <1>1, <1>2, SMT DEF StreamInv
<1>4. /\ Head(dev.input) = dev.input[1] /\ Len(dev'.input) = Len(dev.input) - 1
      /\ \A k \in 1 .. Len(dev.input) - 1 : dev'.input[k] = dev.input[k + 1]
  BY <1>1, <1>2, HeadTailProperties
<1>5. Head(dev.input) = typed[n + 1] /\ typed[n + 1] \in Byte
  <2>1. 1 \in 1 .. Len(dev.input)
    BY <1>1, <1>2, SMT
  <2>2. dev.input[1] = typed[n + 1]
    BY <2>1 DEF StreamInv
  <2>3. typed[n + 1] \in Byte
    <3> HIDE DEF n
    <3> QED BY <1>1, <1>3
  <2> QED BY <1>4, <2>2, <2>3
<1>6. Len(typed') - Len(dev'.input) = n + 1
  <2>1. ASSUME NEW l \in Nat, NEW m \in Nat PROVE l - (m - 1) = (l - m) + 1
    BY SMT
  <2> QED BY <1>1, <1>4, <2>1
<1>7. \A k \in 1 .. Len(dev'.input) : dev'.input[k] = typed'[(n + 1) + k]
  <2>1. \A k \in 1 .. Len(dev.input) - 1 :
          k + 1 \in 1 .. Len(dev.input) /\ n + (k + 1) = (n + 1) + k
    BY <1>1, <1>3, SMT
  <2> QED BY <1>4, <2>1 DEF StreamInv
<1>8. Carried(typed', n + 1, latched')
  <2>1. Carried(typed, n, latched)
    BY DEF StreamInv
  <2> HIDE DEF n
  <2> QED BY <1>1, <1>3, <1>5, <2>1, CarriedNul, CarriedChar
<1>9. n + 1 >= 0
  BY <1>3, SMT
<1> QED BY <1>6, <1>7, <1>8, <1>9 DEF StreamInv

(* A call of step takes at most one character from the stream: the pump or *)
(* the syscall, which never run in the same mode.                          *)
LEMMA StreamSteps ==
  ASSUME TypeOK, Step
  PROVE  /\ typed' = typed
         /\ \/ dev'.input = Pumped.input /\ latched' = LatchedNow
            \/ dev'.input = dev.input /\ latched' = latched
            \/ /\ dev.input # <<>> /\ dev'.input = Tail(dev.input)
               /\ latched' = IF Head(dev.input) = NUL THEN latched
                             ELSE Append(latched, Head(dev.input))
<1>1. typed' = typed /\ Pumped \in Devices /\ dev \in Devices
  BY PumpTypes DEF TypeOK, Step
<1>2. CASE NoIO
  BY <1>1, <1>2 DEF NoIO
<1>3. ASSUME NEW i, LoadInput(i)
      PROVE  dev'.input = Pumped.input /\ latched' = LatchedNow
  BY <1>1, <1>3 DEF LoadInput, Devices
<1>4. ASSUME NEW i, StoreOutput(i)
      PROVE  dev'.input = Pumped.input /\ latched' = LatchedNow
  BY <1>1, <1>4 DEF StoreOutput, Devices
<1>5. ASSUME NEW i, PrintChar(i)
      PROVE  dev'.input = dev.input /\ latched' = latched
  BY <1>1, <1>5 DEF PrintChar, Devices
<1>6. ASSUME NEW i, ReadChar(i)
      PROVE  /\ dev.input # <<>> /\ dev'.input = Tail(dev.input)
             /\ latched' = IF Head(dev.input) = NUL THEN latched
                           ELSE Append(latched, Head(dev.input))
  BY <1>1, <1>6 DEF ReadChar, Devices
<1>7. \/ NoIO
      \/ \E i : LoadInput(i) \/ StoreOutput(i) \/ PrintChar(i) \/ ReadChar(i)
  BY DEF Step, BadAddress, BeyondText, MisalignedFetch, Interrupt, Instruction,
         Execute, Alu, LoadReady, StoreReadOnly, Fault, Jump, Call, WriteStatus,
         ReadEpc, WriteEpc, Eret, Exit, RefusedSyscall
<1> QED BY <1>1, <1>2, <1>3, <1>4, <1>5, <1>6, <1>7

(* Where a step leaves stream and latch alone, StreamInv stays. *)
LEMMA StreamKept ==
  ASSUME StreamInv, typed' = typed, dev'.input = dev.input, latched' = latched
  PROVE  StreamInv'
  BY DEF StreamInv

(* A character typed goes behind the others, on the stream too. *)
LEMMA TypeStream ==
  ASSUME TypeOK, StreamInv, NEW c \in Byte, Type(c)
  PROVE  StreamInv'
<1> DEFINE n == Len(typed) - Len(dev.input)
<1>1. /\ dev.input \in Seq(Byte) /\ typed \in Seq(Byte)
      /\ Len(dev.input) \in Nat /\ Len(typed) \in Nat
  BY DEF TypeOK, Devices
<1>2. /\ typed' = Append(typed, c) /\ latched' = latched
      /\ dev'.input = Append(dev.input, c)
  BY DEF Type, TypeOK, Devices
<1>3. /\ Len(typed') = Len(typed) + 1 /\ Len(dev'.input) = Len(dev.input) + 1
      /\ \A k \in 1 .. Len(typed) : typed'[k] = typed[k]
      /\ \A k \in 1 .. Len(dev.input) : dev'.input[k] = dev.input[k]
      /\ typed'[Len(typed) + 1] = c /\ dev'.input[Len(dev.input) + 1] = c
  BY <1>1, <1>2, AppendProperties
<1>4. n \in Nat /\ Len(typed') - Len(dev'.input) = n
  BY <1>1, <1>3, SMT DEF StreamInv
<1>5. \A k \in 1 .. Len(dev'.input) : dev'.input[k] = typed'[n + k]
  <2>1. \A k \in 1 .. Len(dev'.input) :
          \/ k \in 1 .. Len(dev.input) /\ n + k \in 1 .. Len(typed)
          \/ k = Len(dev.input) + 1 /\ n + k = Len(typed) + 1
    <3>1. ASSUME NEW l \in Nat, NEW m \in Nat, l - m \in Nat, NEW k \in 1 .. m + 1
          PROVE  \/ k \in 1 .. m /\ (l - m) + k \in 1 .. l
                 \/ k = m + 1 /\ (l - m) + k = l + 1
      BY <3>1, SMT
    <3> QED BY <1>1, <1>3, <1>4, <3>1
  <2> QED BY <1>3, <2>1 DEF StreamInv
<1>6. Carried(typed', n, latched')
  <2>1. \A i \in 1 .. n : i \in 1 .. Len(typed)
    BY <1>1, <1>4, SMT
  <2>2. \A i \in 1 .. n : typed'[i] = typed[i]
    BY <1>3, <2>1
  <2>3. KeptIn(typed', n) = KeptIn(typed, n) /\ KeptIn(typed, n) \subseteq 1 .. n
    BY <2>2 DEF KeptIn
  <2>4. Carried(typed, n, latched)
    BY DEF StreamInv
  <2> HIDE DEF n
  <2> QED BY <1>2, <2>2, <2>3, <2>4 DEF Carried, KeptIn
<1>7. n >= 0
  BY <1>4, SMT
<1> QED BY <1>4, <1>5, <1>6, <1>7 DEF StreamInv

(* Nothing is latched at the start, and everything is on the stream. *)
LEMMA InitStreamInv == Init => StreamInv
<1> SUFFICES ASSUME Init PROVE StreamInv
  OBVIOUS
<1>1. typed \in Seq(Byte) /\ dev.input = typed /\ latched = <<>> /\ Len(typed) \in Nat
  BY StreamAssumption DEF Init, ResetDevices
<1>2. Len(typed) - Len(dev.input) = 0
  BY <1>1, SMT
<1>3. Carried(typed, 0, latched)
  <2>1. 1 .. 0 = {}
    BY SMT
  <2> QED BY <1>1, <2>1, FS_EmptySet DEF Carried
<1> QED BY <1>1, <1>2, <1>3 DEF StreamInv

(* Every character typed is on the stream, waits or has been read. *)
THEOREM SimulatorLosesNothing == Spec => []NothingTypedIsLost
<1>1. StreamInv /\ TypeOK /\ [Next]_vars => StreamInv'
  <2> SUFFICES ASSUME StreamInv, TypeOK, [Next]_vars PROVE StreamInv'
    OBVIOUS
  <2>1. CASE Step
    <3>1. CASE dev'.input = Pumped.input /\ latched' = LatchedNow
      <4>1. CASE ReadsStream
        BY <2>1, <3>1, <4>1, StreamSteps, ConsumeStep
           DEF Pumped, LatchedNow, Latches, ReadsStream
      <4>2. CASE ~ReadsStream
        BY <2>1, <3>1, <4>2, StreamSteps, StreamKept DEF Pumped, LatchedNow, Latches
      <4> QED BY <4>1, <4>2
    <3> QED BY <2>1, <3>1, StreamSteps, ConsumeStep, StreamKept
  <2>2. CASE \E c \in Byte : Type(c)
    BY <2>2, TypeStream
  <2>3. CASE UNCHANGED vars
    BY <2>3, StreamKept DEF vars
  <2> QED BY <2>1, <2>2, <2>3 DEF Next
<1>2. StreamInv /\ IInv => NothingTypedIsLost
  <2> SUFFICES ASSUME StreamInv, IInv PROVE latched = loaded \o Waiting
    BY DEF StreamInv, NothingTypedIsLost
  <2>1. dev.inData \in Byte /\ loaded \in Seq(Byte)
    BY DEF IInv, IOInv, Devices
  <2> QED BY <2>1, AppendIsConcat, ConcatEmptySeq
          DEF IInv, IOInv, ChannelOf, Waiting
<1> QED BY <1>1, <1>2, InitStreamInv, Invariance, SimulatorTypeOK, PTL DEF Spec
=============================================================================
