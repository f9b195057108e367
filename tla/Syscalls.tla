------------------------------ MODULE Syscalls ------------------------------
(***************************************************************************)
(* SystemHandle (syscalls.cpp) on the heap and the console.  A program     *)
(* makes any sequence of system calls; a call that reads waits for each    *)
(* character (StreamHandle::getCharBlocking), while the user types.        *)
(*                                                                         *)
(* buffer is the memory that READ_STRING and PRINT_STRING are called with: *)
(* a byte is a character or NUL, and the one after it is NUL.  A number    *)
(* read is the string that stoi, stof or stod took for it; a random number *)
(* is its place in the sequence of a seed.                                 *)
(***************************************************************************)
EXTENDS Heap, Console

CONSTANTS
  BufSize,      \* the bytes of the buffer
  Outputs,      \* what the calls that format a value write
  MaxDigits,    \* the digits of the longest number in range
  Seeds, Ids,   \* the arguments of SET_SEED
  MaxCalls      \* bound: the number of calls

ASSUME BufferAssumption == BufSize \in Nat /\ MaxDigits \in Nat

VARIABLES
  ioMode,
  call,         \* the call that waits for input, or Idle
  reg,          \* $v0, $a0, $a1 and $f0
  buffer,
  rngs,         \* rngMap: the generators, by id
  outcome,      \* how the last call ended
  calls,        \* history: the number of calls
  fresh         \* history: a waiting call began after output, no escape came

sys     == <<ioMode, call, reg, buffer, rngs, outcome, calls, fresh>>
sysVars == <<vars, console, sys>>

(* Faulty variants of the definitions below (and further down) are named   *)
(* for their fault; the properties are checked to fail on them.            *)
Idle  == [op |-> "idle"]
Ended == {"exit", "runtimeError"}
NUL   == "NUL"

(* The characters that are typed, stored and written. *)
ASSUME CharAssumption ==
  Keys \union {NUL} \subseteq STRING /\ Outputs \subseteq Seq(STRING)

Registers == {"v0", "a0", "a1", "f0"}
Zero      == [word |-> 0]

SysInit ==
  /\ Init /\ ConsoleInit
  /\ ioMode \in {"syscall", "mmio"}
  /\ call = Idle /\ calls = 0 /\ outcome = "ok" /\ fresh = FALSE
  /\ reg = [r \in Registers |-> Zero]
  /\ buffer = [k \in 1 .. BufSize |-> NUL]
  /\ rngs = [i \in {} |-> Zero]

(* exec: the program makes a call. *)
Call ==
  /\ call = Idle /\ outcome \notin Ended /\ calls < MaxCalls
  /\ calls' = calls + 1

Return(r) == reg' = r /\ outcome' = "ok"
Fail      == outcome' = "except" /\ UNCHANGED reg

NoIO   == UNCHANGED <<console, call, fresh, buffer>>
NoHeap == UNCHANGED vars
Static == UNCHANGED <<ioMode, rngs>>

-----------------------------------------------------------------------------
(* Input and output are refused in MMIO mode. *)
Refused ==
  /\ ioMode = "mmio"
  /\ Call /\ Fail
  /\ NoIO /\ NoHeap /\ Static

IOCall == ioMode = "syscall" /\ Call

PrintValue ==
  /\ IOCall /\ Return(reg)
  /\ \E s \in Outputs : PutStr(s)
  /\ NoHeap /\ Static /\ UNCHANGED <<call, fresh, buffer>>

(* The bytes up to the first NUL. *)
StringEnds(end) == /\ \A k \in 1 .. end : buffer[k] # NUL
                   /\ end # BufSize => buffer[end + 1] = NUL

PrintString ==
  /\ IOCall /\ Return(reg)
  /\ \E end \in 0 .. BufSize : StringEnds(end) /\ PutStr(SubSeq(buffer, 1, end))
  /\ NoHeap /\ Static /\ UNCHANGED <<call, fresh, buffer>>

-----------------------------------------------------------------------------
(* Reading.  A call of readString has length $a1 and currLen. *)

Read(c) ==
  /\ IOCall
  /\ call' = c
  /\ fresh' = (inputCursor = inputBase)
  /\ outcome' = "waiting"
  /\ NoHeap /\ Static /\ UNCHANGED <<console, reg, buffer>>

ReadChar   == Read([op |-> "char"])
ReadNumber == \E r \in {"v0", "f0"} : Read([op |-> "number", to |-> r, line |-> <<>>])

StringCall(length) == [op |-> "string", length |-> length, currLen |-> 0]

(* A first character taken whatever the length. *)
ReadStringAlways(length) == Read(StringCall(length))

ReadString(length) ==
  IF length > 0
  THEN Read(StringCall(length))
  ELSE IOCall /\ Return(reg) /\ NoIO /\ NoHeap /\ Static

Done == call' = Idle

CharRead(c) ==
  /\ call.op = "char"
  /\ Done /\ Return([reg EXCEPT !.v0 = [char |-> c]])
  /\ UNCHANGED buffer

(* stoi and its like: the digits the line begins with. *)
Number(line) ==
  LET n == CHOOSE k \in 0 .. Len(line) :
             /\ \A j \in 1 .. k : line[j] = "1"
             /\ k = Len(line) \/ line[k + 1] # "1"
  IN  SubSeq(line, 1, n)
Invalid(line) == Len(Number(line)) \notin 1 .. MaxDigits

(* getLine, and what readInt makes of the line. *)
NumberRead(c) ==
  /\ call.op = "number"
  /\ \/ /\ c = "NL"
        /\ Done
        /\ IF Invalid(call.line) THEN Fail
           ELSE Return([reg EXCEPT ![call.to] = [number |-> Number(call.line)]])
     \/ /\ c # "NL"
        /\ call' = [call EXCEPT !.line =
                      IF c # "BS" THEN Append(@, c)
                      ELSE IF @ = <<>> THEN @ ELSE Front(@)]
        /\ UNCHANGED <<reg, outcome>>
  /\ UNCHANGED buffer

(* The byte of a character that was deleted stays in memory. *)
StringRead(c) ==
  /\ call.op = "string"
  /\ LET n == call.currLen
         more == IF c = "BS" THEN (IF n > 0 THEN n - 1 ELSE 0) ELSE n + 1
     IN  /\ buffer' = IF c \in {"BS", "NL"} THEN buffer
                      ELSE [buffer EXCEPT ![n + 1] = c]
         /\ IF c = "NL" \/ more = call.length
            THEN Done /\ Return(reg)
            ELSE call' = [call EXCEPT !.currLen = more] /\ UNCHANGED <<reg, outcome>>

Receive ==
  /\ call # Idle
  /\ \E c \in Keys :
       /\ GetChar(c)
       /\ CharRead(Got(c)) \/ NumberRead(Got(c)) \/ StringRead(Got(c))
       /\ fresh' = (fresh /\ c # "ESC")
  /\ NoHeap /\ Static /\ UNCHANGED calls

-----------------------------------------------------------------------------
(* $v0 written before the check. *)
AllocAtOnce(size, sp) ==
  /\ Call
  /\ size > 0 /\ heapPointer + size < Half
  /\ HeapAlloc(size, sp)
  /\ reg' = [reg EXCEPT !.v0 = [word |-> NextFree(size)]]
  /\ outcome' = IF OutOfMemory(sp) THEN "except" ELSE "ok"
  /\ NoIO /\ Static

(* heapAlloc; $v0 is written after the check. *)
Alloc(size, sp) ==
  /\ Call
  /\ \/ size = 0 /\ AllocZero /\ Fail
     \/ /\ heapPointer + size < Half
        /\ HeapAlloc(size, sp)
        /\ IF OutOfMemory(sp) THEN Fail
           ELSE Return([reg EXCEPT !.v0 = [word |-> NextFree(size)]])
  /\ NoIO /\ Static

(* A generator of no seed is seeded by the clock. *)
Generators == [i \in Ids |-> IF i \in DOMAIN rngs THEN rngs[i]
                             ELSE [seed |-> "clock", drawn |-> 0]]

SetSeed(id, s) ==
  /\ Call /\ Return(reg)
  /\ rngs' = [i \in DOMAIN rngs \union {id} |->
                IF i = id THEN [seed |-> s, drawn |-> 0] ELSE rngs[i]]
  /\ NoIO /\ NoHeap /\ UNCHANGED ioMode

(* n numbers of the generator go into one of register r. *)
Rand(id, r, n) ==
  /\ Call /\ Return([reg EXCEPT ![r] = Generators[id]])
  /\ rngs' = [i \in DOMAIN rngs \union {id} |->
                IF i = id THEN [Generators[i] EXCEPT !.drawn = @ + n] ELSE rngs[i]]
  /\ NoIO /\ NoHeap /\ UNCHANGED ioMode

Random ==
  \E id \in Ids :
    \/ \E s \in Seeds : SetSeed(id, s)
    \/ Rand(id, "a0", 1)       \* randInt, randIntRange
    \/ Rand(id, "f0", 1)       \* randFloat
    \/ Rand(id, "f0", 2)       \* randDouble

Time ==
  /\ Call /\ Return([reg EXCEPT !.a0 = [clock |-> "low"], !.a1 = [clock |-> "high"]])
  /\ NoIO /\ NoHeap /\ Static

Sleep ==                \* refused if $a0 is negative
  /\ Call /\ (Fail \/ Return(reg))
  /\ NoIO /\ NoHeap /\ Static

End ==                  \* exit and exitVal; a code that is no call
  /\ Call /\ outcome' \in Ended
  /\ NoIO /\ NoHeap /\ Static /\ UNCHANGED reg

Calls ==
  \/ Refused \/ PrintValue \/ PrintString
  \/ ReadChar \/ ReadNumber \/ \E length \in 0 .. BufSize : ReadString(length)
  \/ \E size \in Sizes, sp \in StackPtrs : Alloc(size, sp)
  \/ Random \/ Time \/ Sleep \/ End

SysNext == Calls \/ Receive \/ (Type /\ UNCHANGED <<vars, sys>>)

(* The program goes on as long as there is something for it to read.       *)
SysSpec == SysInit /\ [][SysNext]_sysVars /\ WF_sysVars(Receive)
-----------------------------------------------------------------------------
(* Types, and when a call waits. *)
SysTypeOK ==
  /\ TypeOK
  /\ call.op \in {"idle", "char", "number", "string"}
  /\ call.op = "string" => call.currLen \in 0 .. call.length - 1
  /\ buffer \in [1 .. BufSize -> (Keys \ {"DEL", "NL"}) \union {NUL}]
  /\ inputBase <= inputCursor
  /\ (call # Idle) <=> (outcome = "waiting")

CharsOf(cells) == [k \in DOMAIN cells |-> cells[k].ch]

(* What the user typed since the program last wrote to the line. *)
TypedShown ==
  LET own == {k \in DOMAIN screen : screen[k].by = "program"}
  IN  CharsOf(SubSeq(screen, IF own = {} THEN 1 ELSE Max(own) + 1, Len(screen)))

Held == CASE call.op = "number" -> call.line
          [] call.op = "string" -> SubSeq(buffer, 1, call.currLen)
          [] OTHER              -> <<>>

(* While a line is read the user sees what the program will get: the       *)
(* console erases a character where getLine or readString drops one        *)
(* (consoleio.cpp:196, streamio.cpp:31, syscalls.cpp:184).  It takes a     *)
(* call that begins right after output, and no escape: see the README.     *)
ShownIsRead ==
  call.op \in {"number", "string"} /\ fresh => TypedShown = Held

(* A call that raises an exception leaves the registers, the buffer and    *)
(* the generators as they were (syscalls.cpp:198, 146, 226), so that a     *)
(* handler finds what the program had.                                     *)
FailureKeepsState ==
  [][outcome' = "except" => UNCHANGED <<reg, buffer, rngs>>]_sysVars

(* A call that reads a line ends once there is a newline for it: no        *)
(* character before it, deleted or not, keeps the reader from it.          *)
ReadsEnd ==
  (call # Idle /\ \E k \in DOMAIN pending : pending[k] = "NL") ~> (call = Idle)
=============================================================================
