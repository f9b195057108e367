--------------------------- MODULE SyscallsProofs ---------------------------
(***************************************************************************)
(* Proofs about Syscalls, for every alphabet, buffer and number of calls:  *)
(* what the program wrote stays on the screen, what the user sees of a     *)
(* line is what the program gets, a call that fails has changed nothing,   *)
(* and the other calls leave the heap what HeapProofs shows it to be.      *)
(***************************************************************************)
EXTENDS Syscalls, HeapProofs

Cells == [ch : STRING, by : {"user", "program"}]

(* The screen behind the last cell of the program is at least as long as   *)
(* the counters say the user may erase: without that a DEL could reach it. *)
ConsoleInv ==
  /\ screen \in Seq(Cells)
  /\ inputBase \in Int /\ inputCursor \in Int /\ inputBase <= inputCursor
  /\ \A p \in DOMAIN written : p + (inputCursor - inputBase) <= Len(screen)
  /\ OutputStays

(* The calls that wait, and what they hold. *)
Waiting ==
       [op : {"char"}]
  \union [op : {"number"}, to : {"v0", "f0"}, line : Seq(STRING)]
  \union [op : {"string"}, length : 1 .. BufSize, currLen : Nat]

CallInv ==
  /\ call \in Waiting \union {Idle}
  /\ call.op = "string" => call.currLen < call.length
  /\ buffer \in [1 .. BufSize -> (Keys \ {"DEL", "NL"}) \union {NUL}]
  /\ (call # Idle) <=> (outcome = "waiting")

-----------------------------------------------------------------------------
(* The functions OutputStays speaks about. *)

(* Cells put behind the line leave it as it was. *)
LEMMA AppendKeeps ==
  ASSUME NEW s \in Seq(Cells), NEW t \in Seq(Cells)
  PROVE  /\ s \o t \in Seq(Cells) /\ Len(s \o t) = Len(s) + Len(t)
         /\ \A p \in DOMAIN s : p \in DOMAIN (s \o t) /\ (s \o t)[p] = s[p]
         /\ \A k \in DOMAIN t : /\ Len(s) + k \in DOMAIN (s \o t)
                                /\ (s \o t)[Len(s) + k] = t[k]
  BY ConcatProperties, SMT

(* An echoed character is behind everything the program wrote. *)
LEMMA EchoBehind ==
  ASSUME ConsoleInv, NEW t \in Seq(Cells),
         screen' = screen \o t, inputCursor' = inputCursor + Len(t),
         UNCHANGED <<inputBase, written>>
  PROVE  ConsoleInv'
<1>1. Len(t) \in Nat
  OBVIOUS
<1>2. screen' \in Seq(Cells) /\ Len(screen') = Len(screen) + Len(t)
  BY AppendKeeps DEF ConsoleInv
<1>3. \A p \in DOMAIN screen : p \in DOMAIN screen' /\ screen'[p] = screen[p]
  BY AppendKeeps DEF ConsoleInv
<1>4. OutputStays'
  BY <1>3 DEF ConsoleInv, OutputStays
<1>5. \A p \in DOMAIN written :
        p + (inputCursor' - inputBase) <= Len(screen')
  <2>1. \A p \in DOMAIN written : p \in Int
    BY DEF ConsoleInv, OutputStays
  <2> QED BY <1>1, <1>2, <2>1, SMT DEF ConsoleInv
<1> QED BY <1>1, <1>2, <1>4, <1>5, SMT DEF ConsoleInv

(* A DEL takes a cell away only where the user has one. *)
LEMMA EraseSpares ==
  ASSUME ConsoleInv, inputCursor > inputBase,
         screen' = Erased(screen), inputCursor' = inputCursor - 1,
         UNCHANGED <<inputBase, written>>
  PROVE  ConsoleInv'
<1>1. CASE screen = <<>>
  BY <1>1, SMT DEF ConsoleInv, Erased, OutputStays
<1>2. CASE screen # <<>>
  <2>1. screen' = SubSeq(screen, 1, Len(screen) - 1) /\ Len(screen) \in Nat \ {0}
    BY <1>2, EmptySeq DEF Erased, Front, ConsoleInv
  <2> DEFINE m == Len(screen) - 1
  <2>2. m \in Nat /\ \A p \in 1 .. m : p \in 1 .. Len(screen)
    BY <2>1, SMT
  <2>3. \A p \in 1 .. m : screen[p] \in Cells
    BY <2>2 DEF ConsoleInv
  <2>4. /\ screen' \in Seq(Cells) /\ Len(screen') = m
        /\ \A p \in 1 .. m : screen'[p] = screen[p]
    <3>1. screen' = [p \in 1 .. m |-> screen[p]]
      BY <2>1, <2>2, SMT DEF ConsoleInv
    <3> QED BY <2>2, <2>3, <3>1, SMT
  <2>5. \A p \in DOMAIN written : p \in 1 .. m
    BY <2>1, SMT DEF ConsoleInv, OutputStays
  <2> QED BY <2>1, <2>4, <2>5, SMT DEF ConsoleInv, OutputStays
<1> QED BY <1>1, <1>2

(* getChar, for each kind of character. *)
LEMMA GetCharKeeps ==
  ASSUME ConsoleInv, NEW c \in STRING, GetChar(c)
  PROVE  ConsoleInv'
<1>1. CASE c = "DEL"
  <2>1. CASE inputCursor > inputBase
    BY <1>1, <2>1, EraseSpares DEF GetChar, Echo
  <2>2. CASE ~(inputCursor > inputBase)
    BY <1>1, <2>2 DEF GetChar, Echo, ConsoleInv, OutputStays
  <2> QED BY <2>1, <2>2
<1>2. CASE c = "ESC"
  <2>1. Escaped \in Seq(Cells) /\ Len(Escaped) = 4
    <3>1. Cell(c, "user") \in Cells
      BY DEF Cell, Cells
    <3>2. Escaped \in [1 .. 4 -> Cells]
      BY <1>2, <3>1 DEF Escaped
    <3> QED BY <3>2, LenProperties, SeqDef, SMT
  <2> QED BY <1>2, <2>1, EchoBehind DEF GetChar, Echo
<1>3. CASE c = "NL"
  <2>1. /\ screen' = <<>> /\ DOMAIN written' = {}
        /\ inputCursor' = inputCursor + 1 /\ inputBase' = inputBase
    BY <1>3 DEF GetChar, Echo, Shown
  <2>2. screen' \in Seq(Cells)
    BY <2>1
  <2> QED BY <2>1, <2>2 DEF ConsoleInv, OutputStays
<1>4. CASE c \notin {"DEL", "ESC", "NL"}
  <2> DEFINE t == <<Cell(c, "user")>>
  <2>1. t \in Seq(Cells) /\ Len(t) = 1
    BY DEF Cell, Cells
  <2>2. screen' = screen \o t
    BY <1>4, <2>1, AppendIsConcat DEF GetChar, Echo, Shown, ConsoleInv, Cell, Cells
  <2> QED BY <1>4, <2>1, <2>2, EchoBehind DEF GetChar, Echo
<1> QED BY <1>1, <1>2, <1>3, <1>4

(* What a string of which the first n characters are gone with their lines *)
(* adds to: the line so far, unless a newline ended it.                    *)
Left(n) == IF n = 0 THEN screen ELSE <<>>
Kept(n) == IF n = 0 THEN DOMAIN written ELSE {}

(* The cells and the history, place by place, after a string is written.   *)
LEMMA PutLineCells ==
  ASSUME ConsoleInv, NEW s \in Seq(STRING), PutLine(s)
  PROVE  \E n \in 0 .. Len(s) :
           /\ Left(n) \in Seq(Cells)
           /\ screen' \in Seq(Cells) /\ Len(screen') = Len(Left(n)) + (Len(s) - n)
           /\ \A p \in 1 .. Len(Left(n)) : screen'[p] = Left(n)[p]
           /\ \A k \in 1 .. Len(s) - n :
                screen'[Len(Left(n)) + k] = Cell(s[n + k], "program")
           /\ DOMAIN written' = Kept(n) \union {Len(Left(n)) + k : k \in 1 .. Len(s) - n}
           /\ \A p \in Kept(n) : written'[p] = written[p]
           /\ \A k \in 1 .. Len(s) - n :
                \/ Len(Left(n)) + k \in Kept(n)
                \/ written'[Len(Left(n)) + k] = s[n + k]
<1>1. PICK n \in 0 .. Len(s) :
        LET new  == [k \in 1 .. Len(s) - n |-> s[n + k]]
            left == IF n = 0 THEN screen ELSE <<>>
            kept == IF n = 0 THEN DOMAIN written ELSE {}
        IN  /\ LastLineFrom(s, n)
            /\ screen' = left \o [k \in DOMAIN new |-> Cell(new[k], "program")]
            /\ written' = [p \in kept \union {Len(left) + k : k \in DOMAIN new} |->
                             IF p \in kept THEN written[p] ELSE new[p - Len(left)]]
  BY DEF PutLine
<1> DEFINE new  == [k \in 1 .. Len(s) - n |-> s[n + k]]
           t    == [k \in DOMAIN new |-> Cell(new[k], "program")]
<1>2. /\ screen' = Left(n) \o t
      /\ written' = [p \in Kept(n) \union {Len(Left(n)) + k : k \in DOMAIN new} |->
                       IF p \in Kept(n) THEN written[p] ELSE new[p - Len(Left(n))]]
  BY <1>1 DEF Left, Kept
<1>3. Left(n) \in Seq(Cells) /\ Len(Left(n)) \in Nat
      /\ DOMAIN Left(n) = 1 .. Len(Left(n))
  BY DEF ConsoleInv, Left
<1>4. /\ Len(s) \in Nat /\ n \in Nat /\ Len(s) - n \in Nat
      /\ DOMAIN new = 1 .. Len(s) - n
      /\ \A k \in DOMAIN new : new[k] = s[n + k] /\ new[k] \in STRING
  BY SMT
<1>5. t \in Seq(Cells) /\ Len(t) = Len(s) - n /\ DOMAIN t = DOMAIN new
  <2>1. \A k \in DOMAIN new : t[k] \in Cells
    BY <1>4 DEF Cell, Cells
  <2>2. t \in [1 .. Len(s) - n -> Cells]
    BY <2>1, <1>4
  <2> HIDE DEF t
  <2> QED BY <2>2, <1>4, SMT
<1>6. \A k \in DOMAIN new : t[k] = Cell(s[n + k], "program")
  BY <1>4
<1> HIDE DEF new, t
<1>7. /\ screen' \in Seq(Cells) /\ Len(screen') = Len(Left(n)) + Len(t)
      /\ \A p \in DOMAIN Left(n) : screen'[p] = Left(n)[p]
      /\ \A k \in DOMAIN t : screen'[Len(Left(n)) + k] = t[k]
  BY <1>2, <1>3, <1>5, AppendKeeps
<1>8. /\ DOMAIN written' = Kept(n) \union {Len(Left(n)) + k : k \in DOMAIN new}
      /\ \A p \in Kept(n) : written'[p] = written[p]
  BY <1>2
<1>9. \A k \in DOMAIN new : \/ Len(Left(n)) + k \in Kept(n)
                            \/ written'[Len(Left(n)) + k] = s[n + k]
  <2> SUFFICES ASSUME NEW k \in DOMAIN new, Len(Left(n)) + k \notin Kept(n)
               PROVE  written'[Len(Left(n)) + k] = s[n + k]
    OBVIOUS
  <2>1. (Len(Left(n)) + k) - Len(Left(n)) = k
    BY <1>3, <1>4, SMT
  <2> QED BY <1>2, <1>4, <2>1
<1>10. /\ Len(screen') = Len(Left(n)) + (Len(s) - n)
       /\ \A p \in 1 .. Len(Left(n)) : screen'[p] = Left(n)[p]
       /\ \A k \in 1 .. Len(s) - n :
            screen'[Len(Left(n)) + k] = Cell(s[n + k], "program")
       /\ DOMAIN written' = Kept(n) \union {Len(Left(n)) + k : k \in 1 .. Len(s) - n}
  BY <1>3, <1>4, <1>5, <1>6, <1>7, <1>8, Zenon
<1>11. \A k \in 1 .. Len(s) - n : \/ Len(Left(n)) + k \in Kept(n)
                                  \/ written'[Len(Left(n)) + k] = s[n + k]
  BY <1>4, <1>9, Zenon
<1> QED BY <1>3, <1>7, <1>8, <1>10, <1>11, Zenon

(* putChar moves the base behind what it writes. *)
LEMMA PutStrKeeps ==
  ASSUME ConsoleInv, NEW s \in Seq(STRING), PutStr(s)
  PROVE  ConsoleInv'
<1>1. PICK n \in 0 .. Len(s) :
        /\ Left(n) \in Seq(Cells)
        /\ screen' \in Seq(Cells) /\ Len(screen') = Len(Left(n)) + (Len(s) - n)
        /\ \A p \in 1 .. Len(Left(n)) : screen'[p] = Left(n)[p]
        /\ \A k \in 1 .. Len(s) - n :
             screen'[Len(Left(n)) + k] = Cell(s[n + k], "program")
        /\ DOMAIN written' = Kept(n) \union {Len(Left(n)) + k : k \in 1 .. Len(s) - n}
        /\ \A p \in Kept(n) : written'[p] = written[p]
        /\ \A k \in 1 .. Len(s) - n : \/ Len(Left(n)) + k \in Kept(n)
                                      \/ written'[Len(Left(n)) + k] = s[n + k]
  BY PutLineCells DEF PutStr
<1>2. /\ Len(s) \in Nat /\ n \in Nat /\ Len(s) - n \in Nat /\ Len(Left(n)) \in Nat
      /\ \A p \in 1 .. Len(Left(n)) : p \in 1 .. Len(screen')
      /\ \A k \in 1 .. Len(s) - n : Len(Left(n)) + k \in 1 .. Len(screen')
  BY <1>1, SMT
<1>3. \A p \in Kept(n) : /\ p \in 1 .. Len(Left(n))
                         /\ Left(n)[p] = Cell(written[p], "program")
                         /\ p + (inputCursor - inputBase) <= Len(Left(n))
  BY DEF ConsoleInv, OutputStays, Left, Kept
<1>4. \A p \in DOMAIN written' :
        \/ p \in Kept(n) /\ written'[p] = written[p]
        \/ \E k \in 1 .. Len(s) - n :
             p = Len(Left(n)) + k /\ written'[p] = s[n + k]
  BY <1>1
<1>5. \A p \in DOMAIN written' : /\ p \in 1 .. Len(screen')
                                 /\ screen'[p] = Cell(written'[p], "program")
  BY <1>1, <1>2, <1>3, <1>4
<1>6. OutputStays'
  <2>1. DOMAIN screen' = 1 .. Len(screen')
    BY <1>1
  <2> QED BY <1>5, <2>1, Zenon DEF OutputStays
<1>7. /\ inputBase' \in Int /\ inputCursor' \in Int /\ inputBase' <= inputCursor'
      /\ inputCursor' - inputBase' = IF s = <<>> THEN inputCursor - inputBase ELSE 0
  BY <1>2, SMT DEF PutStr, ConsoleInv
<1>8. \A p \in DOMAIN written' : p + (inputCursor' - inputBase') <= Len(screen')
  <2>1. CASE s = <<>>
    <3>1. \A p \in DOMAIN written' : p \in Kept(n)
      BY <2>1, <1>2, <1>4, SMT
    <3>2. Len(screen') = Len(Left(n))
      BY <2>1, <1>1, <1>2, SMT
    <3> QED BY <2>1, <3>1, <3>2, <1>3, <1>7
  <2>2. CASE s # <<>>
    <3>1. inputCursor' - inputBase' = 0
      BY <2>2, <1>7
    <3>2. Len(screen') \in Nat
      BY <1>1
    <3>3. \A p \in DOMAIN written' : p \in Int /\ p <= Len(screen')
      BY <3>2, <1>5, SMT
    <3> QED BY <3>1, <3>3
  <2> QED BY <2>1, <2>2
<1> QED BY <1>1, <1>6, <1>7, <1>8 DEF ConsoleInv

-----------------------------------------------------------------------------
(* The bytes of the buffer are characters. *)
LEMMA BufferIsText ==
  ASSUME CallInv
  PROVE  buffer \in [1 .. BufSize -> STRING]
  BY CharAssumption DEF CallInv

(* A call of the program writes through putStr or leaves the console alone. *)
LEMMA CallsKeepConsole ==
  ASSUME ConsoleInv, CallInv, Calls
  PROVE  ConsoleInv'
<1>1. CASE PrintValue
  <2>1. PICK s \in Outputs : PutStr(s)
    BY <1>1 DEF PrintValue
  <2> QED BY <2>1, PutStrKeeps, CharAssumption
<1>2. CASE PrintString
  <2>1. PICK end \in 0 .. BufSize : PutStr(SubSeq(buffer, 1, end))
    BY <1>2 DEF PrintString
  <2>2. 1 \in Int /\ end \in Int /\ \A i \in 1 .. end : buffer[i] \in STRING
    <3>1. end \in Int /\ \A i \in 1 .. end : i \in 1 .. BufSize
      BY BufferAssumption, SMT
    <3> QED BY <3>1, BufferIsText
  <2>3. SubSeq(buffer, 1, end) \in Seq(STRING)
    BY <2>2, SubSeqProperties
  <2> QED BY <2>1, <2>3, PutStrKeeps
<1>3. CASE UNCHANGED console
  BY <1>3 DEF console, ConsoleInv, OutputStays
<1>4. Calls => PrintValue \/ PrintString \/ UNCHANGED console
  BY DEF Calls, Refused, ReadChar, ReadNumber, ReadString, Read, Alloc, Random, SetSeed,
         Rand, Time, Sleep, End, NoIO
<1> QED BY <1>1, <1>2, <1>3, <1>4

(* A call waits, or has an outcome when it returns. *)
LEMMA CallsKeepCall ==
  ASSUME CallInv, Calls
  PROVE  CallInv'
<1>1. ASSUME call = Idle, UNCHANGED <<call, buffer>>, outcome' # "waiting"
      PROVE  CallInv'
  BY <1>1 DEF CallInv, Idle
<1>2. ASSUME NEW c \in Waiting, Read(c), c.op = "string" => c.currLen < c.length
      PROVE  CallInv'
  <2>1. c # Idle
    BY DEF Waiting, Idle
  <2> QED BY <1>2, <2>1 DEF Read, CallInv, Idle
<1>3. CASE ReadChar
  <2>1. [op |-> "char"] \in Waiting
    BY DEF Waiting
  <2> QED BY <1>2, <1>3, <2>1 DEF ReadChar
<1>4. CASE ReadNumber
  <2>1. PICK r \in {"v0", "f0"} : Read([op |-> "number", to |-> r, line |-> <<>>])
    BY <1>4 DEF ReadNumber
  <2>2. [op |-> "number", to |-> r, line |-> <<>>] \in Waiting
    BY EmptySeq DEF Waiting
  <2> QED BY <1>2, <2>1, <2>2
<1>5. ASSUME NEW length \in 0 .. BufSize, ReadString(length)
      PROVE  CallInv'
  <2>1. CASE length > 0
    <3>1. /\ StringCall(length) \in Waiting
          /\ StringCall(length).currLen < StringCall(length).length
      BY <2>1, BufferAssumption, SMT DEF StringCall, Waiting
    <3> QED BY <1>2, <1>5, <2>1, <3>1 DEF ReadString
  <2>2. CASE ~(length > 0)
    BY <1>1, <1>5, <2>2 DEF ReadString, IOCall, Call, Return, NoIO
  <2> QED BY <2>1, <2>2
<1>6. CASE Refused \/ PrintValue \/ PrintString
  BY <1>1, <1>6 DEF Refused, PrintValue, PrintString, IOCall, Call, Return, Fail, NoIO
<1>7. CASE \E size \in Sizes, sp \in StackPtrs : Alloc(size, sp)
  BY <1>1, <1>7 DEF Alloc, Call, Return, Fail, NoIO
<1>8. CASE Random
  BY <1>1, <1>8 DEF Random, SetSeed, Rand, Call, Return, NoIO
<1>9. CASE Time \/ Sleep \/ End
  BY <1>1, <1>9 DEF Time, Sleep, End, Call, Return, Fail, NoIO, Ended
<1> QED BY <1>3, <1>4, <1>5, <1>6, <1>7, <1>8, <1>9 DEF Calls

(* A character received goes through getChar. *)
LEMMA ReceiveKeepsConsole ==
  ASSUME ConsoleInv, Receive
  PROVE  ConsoleInv'
<1>1. PICK c \in Keys : GetChar(c)
  BY DEF Receive
<1> QED BY <1>1, GetCharKeeps, CharAssumption

(* ... and then to the call that waits: it ends the call, or its line or   *)
(* its place in the buffer moves on by one.                                *)
LEMMA ReceiveKeepsCall ==
  ASSUME CallInv, Receive
  PROVE  CallInv'
<1>1. PICK c \in Keys : CharRead(Got(c)) \/ NumberRead(Got(c)) \/ StringRead(Got(c))
  BY DEF Receive
<1>2. c \in STRING /\ call \in Waiting /\ outcome = "waiting"
  BY CharAssumption DEF Receive, CallInv
<1>3. (Got(c) = c /\ c # "DEL") \/ Got(c) = "BS"
  BY DEF Got
<1>4. ASSUME Done, outcome' # "waiting", UNCHANGED buffer
      PROVE  CallInv'
  BY <1>4 DEF Done, CallInv, Idle
<1>5. CASE CharRead(Got(c))
  BY <1>4, <1>5 DEF CharRead, Return
<1>6. CASE NumberRead(Got(c))
  <2>1. CASE Got(c) = "NL"
    BY <1>4, <1>6, <2>1 DEF NumberRead, Return, Fail
  <2>2. CASE Got(c) # "NL"
    <3>1. call \in [op : {"number"}, to : {"v0", "f0"}, line : Seq(STRING)]
      BY <1>2, <1>6 DEF NumberRead, Waiting
    <3> DEFINE new == IF Got(c) # "BS" THEN Append(call.line, Got(c))
                      ELSE IF call.line = <<>> THEN call.line ELSE Front(call.line)
    <3>2. new \in Seq(STRING)
      <4>1. call.line \in Seq(STRING)
        BY <3>1
      <4>2. Append(call.line, c) \in Seq(STRING)
        BY <1>2, <4>1, AppendProperties
      <4>3. call.line # <<>> => Front(call.line) \in Seq(STRING)
        <5> SUFFICES ASSUME call.line # <<>> PROVE Front(call.line) \in Seq(STRING)
          OBVIOUS
        <5>1. /\ 1 \in Int /\ Len(call.line) - 1 \in Int
              /\ \A i \in 1 .. Len(call.line) - 1 : call.line[i] \in STRING
          BY <4>1, SMT
        <5> QED BY <5>1, SubSeqProperties DEF Front
      <4> QED BY <1>3, <4>1, <4>2, <4>3
    <3>3. call' = [call EXCEPT !.line = new] /\ outcome' = outcome /\ buffer' = buffer
      BY <1>6, <2>2 DEF NumberRead
    <3> HIDE DEF new
    <3>4. call' \in [op : {"number"}, to : {"v0", "f0"}, line : Seq(STRING)]
      BY <3>1, <3>2, <3>3
    <3>5. call' \in Waiting /\ call'.op # "string" /\ call' # Idle
      BY <3>4 DEF Waiting, Idle
    <3> QED BY <1>2, <3>3, <3>5 DEF CallInv, Idle
  <2> QED BY <2>1, <2>2
<1>7. CASE StringRead(Got(c))
  <2> DEFINE n    == call.currLen
             more == IF Got(c) = "BS" THEN (IF n > 0 THEN n - 1 ELSE 0) ELSE n + 1
  <2>1. /\ call \in [op : {"string"}, length : 1 .. BufSize, currLen : Nat]
        /\ n < call.length
    BY <1>2, <1>7 DEF StringRead, Waiting, CallInv
  <2>2. more \in Nat /\ (more # call.length => more < call.length)
    BY <2>1, BufferAssumption, SMT
  <2>3. buffer' \in [1 .. BufSize -> (Keys \ {"DEL", "NL"}) \union {NUL}]
    BY <1>3, <1>7 DEF StringRead, CallInv
  <2>4. CASE Got(c) = "NL" \/ more = call.length
    <3>1. Done /\ outcome' = "ok"
      BY <1>7, <2>4 DEF StringRead, Return
    <3> QED BY <2>3, <3>1 DEF Done, CallInv, Idle
  <2>5. CASE ~(Got(c) = "NL" \/ more = call.length)
    <3>1. call' = [call EXCEPT !.currLen = more] /\ outcome' = outcome
      BY <1>7, <2>5 DEF StringRead
    <3>2. more \in Nat /\ more < call.length
      BY <2>2, <2>5, <2>1, BufferAssumption, SMT
    <3> HIDE DEF more
    <3>3. /\ call' \in [op : {"string"}, length : 1 .. BufSize, currLen : Nat]
          /\ call'.currLen < call'.length
      BY <2>1, <3>1, <3>2
    <3>4. call' \in Waiting /\ call' # Idle
      BY <3>3 DEF Waiting, Idle
    <3> QED BY <1>2, <2>3, <3>1, <3>3, <3>4 DEF CallInv, Idle
  <2> QED BY <2>4, <2>5
<1> QED BY <1>1, <1>5, <1>6, <1>7

(* The counters never count a cell of the program among those that getChar *)
(* may erase, and a call that waits has not ended yet.                     *)
THEOREM SysInvariant == SysSpec => [](ConsoleInv /\ CallInv)
<1>1. SysInit => ConsoleInv /\ CallInv
  <2> SUFFICES ASSUME SysInit PROVE ConsoleInv /\ CallInv
    OBVIOUS
  <2>1. ConsoleInv
    BY SMT DEF SysInit, ConsoleInit, ConsoleInv, OutputStays
  <2>2. CallInv
    BY DEF SysInit, CallInv, Idle
  <2> QED BY <2>1, <2>2
<1>2. ConsoleInv /\ CallInv /\ [SysNext]_sysVars => (ConsoleInv /\ CallInv)'
  <2> SUFFICES ASSUME ConsoleInv, CallInv, [SysNext]_sysVars
               PROVE  ConsoleInv' /\ CallInv'
    OBVIOUS
  <2>1. CASE Calls
    BY <2>1, CallsKeepConsole, CallsKeepCall
  <2>2. CASE Receive
    BY <2>2, ReceiveKeepsConsole, ReceiveKeepsCall
  <2>3. CASE Type /\ UNCHANGED <<vars, sys>>
    BY <2>3 DEF Type, sys, ConsoleInv, OutputStays, CallInv
  <2>4. CASE UNCHANGED sysVars
    BY <2>4 DEF sysVars, console, sys, ConsoleInv, OutputStays, CallInv
  <2> QED BY <2>1, <2>2, <2>3, <2>4 DEF SysNext
<1> QED BY <1>1, <1>2, PTL DEF SysSpec

(* What the program wrote to the line stays where it wrote it. *)
THEOREM OutputIsKept == SysSpec => []OutputStays
<1>1. ConsoleInv => OutputStays
  BY DEF ConsoleInv
<1> QED BY <1>1, SysInvariant, PTL

(* A call that raises an exception changes no register, no byte of the     *)
(* buffer and no generator.                                                *)
THEOREM FailureIsClean == SysSpec => FailureKeepsState
<1>1. CallInv /\ [SysNext]_sysVars
        => [outcome' = "except" => UNCHANGED <<reg, buffer, rngs>>]_sysVars
  <2> SUFFICES ASSUME CallInv, SysNext, outcome' = "except"
               PROVE  UNCHANGED <<reg, buffer, rngs>>
    OBVIOUS
  <2>1. CASE Refused \/ Time \/ Sleep \/ End
    BY <2>1 DEF Refused, Time, Sleep, End, Fail, Return, NoIO, Static, Ended
  <2>2. CASE PrintValue \/ PrintString
    BY <2>2 DEF PrintValue, PrintString, Return
  <2>3. ~\E c : Read(c)
    BY DEF Read
  <2>4. CASE ReadChar \/ ReadNumber \/ \E length \in 0 .. BufSize : ReadString(length)
    BY <2>3, <2>4 DEF ReadChar, ReadNumber, ReadString, Return
  <2>5. CASE \E size \in Sizes, sp \in StackPtrs : Alloc(size, sp)
    BY <2>5 DEF Alloc, Fail, Return, NoIO, Static
  <2>6. CASE Random
    BY <2>6 DEF Random, SetSeed, Rand, Return
  <2>7. CASE Receive
    BY <2>7 DEF Receive, CharRead, NumberRead, StringRead, Fail, Return, Static, CallInv
  <2>8. CASE Type /\ UNCHANGED <<vars, sys>>
    BY <2>8 DEF sys
  <2> QED BY <2>1, <2>2, <2>4, <2>5, <2>6, <2>7, <2>8 DEF SysNext, Calls
<1> QED BY <1>1, SysInvariant, PTL DEF SysSpec, FailureKeepsState
-----------------------------------------------------------------------------
(* The heap among the other calls. *)

(* Of all the steps only heapAlloc touches the heap, and it does what the  *)
(* allocator alone does, so the calls implement the allocator.             *)
THEOREM SyscallsImplementHeap == SysSpec => ModestSpec
<1>1. SysInit => Init
  BY DEF SysInit
<1>2. [SysNext]_sysVars => [ModestNext]_vars
  <2> SUFFICES ASSUME [SysNext]_sysVars
               PROVE  ModestNext \/ UNCHANGED vars
    OBVIOUS
  <2>1. CASE \E size \in Sizes, sp \in StackPtrs : Alloc(size, sp)
    BY <2>1 DEF Alloc, ModestNext
  <2>2. CASE Refused \/ PrintValue \/ PrintString \/ Time \/ Sleep \/ End
    BY <2>2 DEF Refused, PrintValue, PrintString, Time, Sleep, End, NoHeap
  <2>3. CASE ReadChar \/ ReadNumber \/ \E length \in 0 .. BufSize : ReadString(length)
    BY <2>3 DEF ReadChar, ReadNumber, ReadString, Read, NoHeap
  <2>4. CASE Random
    BY <2>4 DEF Random, SetSeed, Rand, NoHeap
  <2>5. CASE Receive
    BY <2>5 DEF Receive, NoHeap
  <2>6. CASE Type /\ UNCHANGED <<vars, sys>>
    BY <2>6
  <2>7. CASE UNCHANGED sysVars
    BY <2>7 DEF sysVars
  <2> QED BY <2>1, <2>2, <2>3, <2>4, <2>5, <2>6, <2>7 DEF SysNext, Calls
<1> QED BY <1>1, <1>2, PTL DEF SysSpec, ModestSpec

(* With any other calls around it, the heap keeps its promises.            *)
THEOREM SyscallsKeepHeap ==
  SysSpec => []BlocksTileHeap /\ FailureIsSticky /\ GrantsDisjointBlocks
  BY SyscallsImplementHeap, HeapTiled, HeapFailureIsSticky, HeapImplementsArena, PTL

(* The types of the run, the waiting calls among them. *)
THEOREM SyscallsTypeOK == SysSpec => []SysTypeOK
<1>1. TypeOK /\ ConsoleInv /\ CallInv => SysTypeOK
  <2> SUFFICES ASSUME TypeOK, ConsoleInv, CallInv PROVE SysTypeOK
    OBVIOUS
  <2>1. call.op \in {"idle", "char", "number", "string"}
    BY DEF CallInv, Waiting, Idle
  <2>2. ASSUME call.op = "string" PROVE call.currLen \in 0 .. call.length - 1
    <3>1. /\ call \in [op : {"string"}, length : 1 .. BufSize, currLen : Nat]
          /\ call.currLen < call.length
      BY <2>2 DEF CallInv, Waiting, Idle
    <3> QED BY <3>1, BufferAssumption, SMT
  <2> QED BY <2>1, <2>2 DEF SysTypeOK, ConsoleInv, CallInv
<1> QED BY <1>1, SyscallsImplementHeap, HeapTypeOK, SysInvariant, PTL
-----------------------------------------------------------------------------
(* What is shown of a line while it is read. *)

(* Behind place m the line is the user's. *)
UsersFrom(m) ==
  /\ m > 0 => screen[m].by = "program"
  /\ \A k \in m + 1 .. Len(screen) : screen[k].by = "user"

Reading == call.op \in {"number", "string"} /\ fresh

(* The counters never fall behind the cells of the user; for a line read   *)
(* since the last output they count them, and each shows its character.    *)
ReadAt(m) ==
  /\ UsersFrom(m)
  /\ Len(screen) - m <= inputCursor - inputBase
  /\ Reading => /\ inputCursor - inputBase = Len(Held)
                /\ Len(screen) = m + Len(Held)
                /\ \A k \in 1 .. Len(Held) : screen[m + k].ch = Held[k]

(* Every cell of the program's is in the history, so that ConsoleInv keeps *)
(* a DEL from it.                                                          *)
OwnKnown == \A p \in DOMAIN screen : screen[p].by = "program" => p \in DOMAIN written

ReadInv == OwnKnown /\ \E m \in 0 .. Len(screen) : ReadAt(m)

HeldText ==
  /\ Held \in Seq(STRING)
  /\ call.op = "number" => Held = call.line
  /\ call.op = "string" => /\ Len(Held) = call.currLen /\ call.currLen < BufSize
                           /\ \A k \in 1 .. call.currLen : Held[k] = buffer[k]

(* What a call holds is a line of characters. *)
LEMMA HeldIsText == CallInv => HeldText
<1> SUFFICES ASSUME CallInv PROVE HeldText
  OBVIOUS
<1>1. CASE call.op = "number"
  <2>1. call.line \in Seq(STRING)
    BY <1>1 DEF CallInv, Waiting, Idle
  <2> QED BY <1>1, <2>1 DEF HeldText, Held
<1>2. CASE call.op = "string"
  <2>1. /\ call.currLen \in Nat /\ call.currLen < BufSize
        /\ \A k \in 1 .. call.currLen : k \in 1 .. BufSize
    <3>1. /\ call \in [op : {"string"}, length : 1 .. BufSize, currLen : Nat]
          /\ call.currLen < call.length
      BY <1>2 DEF CallInv, Waiting, Idle
    <3> QED BY <3>1, BufferAssumption, SMT
  <2>2. \A k \in 1 .. call.currLen : buffer[k] \in STRING
    BY <2>1, BufferIsText
  <2>3. Held = SubSeq(buffer, 1, call.currLen)
    BY <1>2 DEF Held
  <2>4. /\ Held \in Seq(STRING) /\ Len(Held) = call.currLen
        /\ \A k \in 1 .. call.currLen : Held[k] = buffer[k]
    <3>1. 1 \in Int /\ call.currLen \in Int
      BY <2>1
    <3>2. /\ Held \in Seq(STRING)
          /\ Len(Held) = IF 1 <= call.currLen THEN call.currLen - 1 + 1 ELSE 0
          /\ \A k \in 1 .. call.currLen - 1 + 1 : Held[k] = buffer[1 + k - 1]
      BY <2>2, <2>3, <3>1, SubSeqProperties
    <3> QED BY <2>1, <3>2, SMT
  <2> QED BY <1>2, <2>1, <2>4 DEF HeldText
<1>3. CASE call.op \notin {"number", "string"}
  BY <1>3, EmptySeq DEF HeldText, Held
<1> QED BY <1>1, <1>2, <1>3

(* A character moves what is held as getLine and readString say. *)
LEMMA HeldMoves ==
  ASSUME CallInv, HeldText, HeldText', NEW c \in Keys,
         CharRead(Got(c)) \/ NumberRead(Got(c)) \/ StringRead(Got(c)),
         call'.op \in {"number", "string"}
  PROVE  /\ call.op \in {"number", "string"} /\ c # "NL"
         /\ c = "DEL" =>
              /\ Len(Held') = IF Len(Held) = 0 THEN 0 ELSE Len(Held) - 1
              /\ \A k \in 1 .. Len(Held') : Held'[k] = Held[k]
         /\ c # "DEL" =>
              /\ Len(Held') = Len(Held) + 1
              /\ Held'[Len(Held) + 1] = c
              /\ \A k \in 1 .. Len(Held) : Held'[k] = Held[k]
<1>1. c \in STRING /\ c # "BS"
  BY CharAssumption, KeyAssumption
<1>2. IF c = "DEL" THEN Got(c) = "BS" ELSE Got(c) = c
  BY DEF Got
<1>3. ~CharRead(Got(c))
  BY DEF CharRead, Done, Idle
<1>4. CASE NumberRead(Got(c))
  <2>1. Got(c) # "NL"
    BY <1>4 DEF NumberRead, Done, Idle
  <2> DEFINE new == IF Got(c) # "BS" THEN Append(call.line, Got(c))
                    ELSE IF call.line = <<>> THEN call.line ELSE Front(call.line)
  <2>2. call \in [op : {"number"}, to : {"v0", "f0"}, line : Seq(STRING)]
    BY <1>4 DEF NumberRead, CallInv, Waiting, Idle
  <2>3. call' = [call EXCEPT !.line = new]
    BY <1>4, <2>1 DEF NumberRead
  <2>4. call'.op = "number" /\ call'.line = new /\ call.op = "number"
    <3> HIDE DEF new
    <3> QED BY <2>2, <2>3
  <2>5. Held = call.line /\ Held' = new /\ Held \in Seq(STRING)
    BY <2>4 DEF HeldText
  <2>6. CASE c = "DEL"
    <3>1. CASE Held = <<>>
      BY <1>2, <2>4, <2>5, <2>6, <3>1
    <3>2. CASE Held # <<>>
      <4>1. Held' = SubSeq(Held, 1, Len(Held) - 1)
        BY <1>2, <2>5, <2>6, <3>2 DEF Front
      <4>2. Len(Held) \in Nat \ {0}
        BY <2>5, <3>2, EmptySeq
      <4>3. /\ Len(Held') = Len(Held) - 1
            /\ \A k \in 1 .. Len(Held) - 1 : Held'[k] = Held[k]
        BY <2>5, <4>1, <4>2, SMT
      <4> QED BY <1>2, <2>1, <2>4, <2>6, <4>2, <4>3
    <3> QED BY <3>1, <3>2
  <2>7. CASE c # "DEL"
    <3>1. Held' = Append(Held, c)
      BY <1>1, <1>2, <2>5, <2>7
    <3>2. /\ Len(Held') = Len(Held) + 1 /\ Held'[Len(Held) + 1] = c
          /\ \A k \in 1 .. Len(Held) : Held'[k] = Held[k]
      BY <1>1, <2>5, <3>1, AppendProperties
    <3> QED BY <1>2, <2>1, <2>4, <2>7, <3>2
  <2> QED BY <2>6, <2>7
<1>5. CASE StringRead(Got(c))
  <2> DEFINE n    == call.currLen
             more == IF Got(c) = "BS" THEN (IF n > 0 THEN n - 1 ELSE 0) ELSE n + 1
  <2>1. call \in [op : {"string"}, length : 1 .. BufSize, currLen : Nat]
    BY <1>5 DEF StringRead, CallInv, Waiting, Idle
  <2>2. /\ Got(c) # "NL" /\ call' = [call EXCEPT !.currLen = more]
        /\ buffer' = IF Got(c) = "BS" THEN buffer ELSE [buffer EXCEPT ![n + 1] = Got(c)]
    BY <1>5 DEF StringRead, Done, Idle
  <2>3. call'.op = "string" /\ call'.currLen = more /\ call.op = "string"
    <3> HIDE DEF more
    <3> QED BY <2>1, <2>2
  <2>4. /\ Len(Held) = n /\ n \in Nat /\ n < BufSize
        /\ \A k \in 1 .. n : Held[k] = buffer[k]
        /\ Len(Held') = more /\ \A k \in 1 .. more : Held'[k] = buffer'[k]
    BY <2>1, <2>3 DEF HeldText
  <2>5. CASE c = "DEL"
    <3>1. buffer' = buffer /\ more = IF n = 0 THEN 0 ELSE n - 1
      BY <1>2, <2>2, <2>4, <2>5, SMT
    <3>2. \A k \in 1 .. more : k \in 1 .. n
      BY <2>4, <3>1, SMT
    <3> QED BY <1>2, <2>2, <2>3, <2>4, <2>5, <3>1, <3>2
  <2>6. CASE c # "DEL"
    <3>1. Got(c) = c /\ more = n + 1 /\ buffer' = [buffer EXCEPT ![n + 1] = c]
      BY <1>1, <1>2, <2>2, <2>6
    <3>2. DOMAIN buffer = 1 .. BufSize
      BY DEF CallInv
    <3>3. n + 1 \in 1 .. BufSize /\ \A k \in 1 .. n : k \in 1 .. BufSize /\ k # n + 1
      BY <2>4, BufferAssumption, SMT
    <3>4. buffer'[n + 1] = c /\ \A k \in 1 .. n : buffer'[k] = buffer[k]
      BY <3>1, <3>2, <3>3
    <3>5. n + 1 \in 1 .. more /\ \A k \in 1 .. n : k \in 1 .. more
      BY <2>4, <3>1, SMT
    <3> HIDE DEF more
    <3>6. /\ Len(Held') = Len(Held) + 1 /\ Held'[Len(Held) + 1] = c
          /\ \A k \in 1 .. Len(Held) : Held'[k] = Held[k]
      BY <2>4, <3>1, <3>4, <3>5
    <3> QED BY <2>2, <2>3, <2>6, <3>1, <3>6
  <2> QED BY <2>5, <2>6
<1> QED BY <1>3, <1>4, <1>5

(* Cells of the user put behind the line. *)
LEMMA EchoShows ==
  ASSUME ConsoleInv, OwnKnown, NEW m \in 0 .. Len(screen), UsersFrom(m),
         NEW t \in Seq(Cells), \A k \in DOMAIN t : t[k].by = "user",
         screen' = screen \o t, written' = written
  PROVE  /\ OwnKnown' /\ UsersFrom(m)'
         /\ Len(screen') = Len(screen) + Len(t) /\ m \in 0 .. Len(screen')
         /\ \A p \in 1 .. Len(screen) : screen'[p] = screen[p]
         /\ \A k \in 1 .. Len(t) : screen'[Len(screen) + k] = t[k]
<1>1. /\ screen' \in Seq(Cells) /\ Len(screen') = Len(screen) + Len(t)
      /\ \A p \in 1 .. Len(screen) : screen'[p] = screen[p]
      /\ \A k \in 1 .. Len(t) : screen'[Len(screen) + k] = t[k]
  BY AppendKeeps DEF ConsoleInv
<1>2. Len(screen) \in Nat /\ Len(t) \in Nat /\ Len(screen') \in Nat /\ m \in Nat
      /\ DOMAIN t = 1 .. Len(t) /\ DOMAIN screen' = 1 .. Len(screen')
      /\ DOMAIN screen = 1 .. Len(screen)
  BY <1>1, SMT DEF ConsoleInv
<1>3. \A p \in 1 .. Len(screen') :
        \/ p \in 1 .. Len(screen)
        \/ \E k \in 1 .. Len(t) : p = Len(screen) + k
  <2>1. \A p \in 1 .. Len(screen') :
          \/ p \in 1 .. Len(screen)
          \/ p - Len(screen) \in 1 .. Len(t) /\ p = Len(screen) + (p - Len(screen))
    BY <1>1, <1>2, SMT
  <2> QED BY <2>1
<1>4. \A p \in 1 .. Len(screen') : \/ p \in 1 .. Len(screen) /\ screen'[p] = screen[p]
                                   \/ p > Len(screen) /\ screen'[p].by = "user"
  <2>1. \A k \in 1 .. Len(t) : /\ Len(screen) + k > Len(screen)
                               /\ screen'[Len(screen) + k].by = "user"
    BY <1>1, <1>2, SMT
  <2> QED BY <1>1, <1>3, <2>1
<1>5. OwnKnown'
  BY <1>2, <1>4 DEF OwnKnown
<1>6. m > 0 => m \in 1 .. Len(screen)
  BY <1>2, SMT
<1>7. \A k \in m + 1 .. Len(screen') :
        k \in 1 .. Len(screen') /\ (k \in 1 .. Len(screen) => k \in m + 1 .. Len(screen))
  BY <1>2, SMT
<1>8. UsersFrom(m)'
  BY <1>1, <1>4, <1>6, <1>7 DEF UsersFrom
<1>9. m \in 0 .. Len(screen')
  BY <1>1, <1>2, SMT
<1> QED BY <1>1, <1>5, <1>8, <1>9

(* A DEL with a cell to take away takes one of the user's. *)
LEMMA EraseShows ==
  ASSUME ConsoleInv, OwnKnown, NEW m \in 0 .. Len(screen), UsersFrom(m),
         Len(screen) - m <= inputCursor - inputBase,
         inputCursor > inputBase, screen' = Erased(screen), written' = written
  PROVE  /\ OwnKnown' /\ UsersFrom(m)' /\ m \in 0 .. Len(screen')
         /\ Len(screen') = IF Len(screen) = 0 THEN 0 ELSE Len(screen) - 1
         /\ Len(screen') - m <= (inputCursor - 1) - inputBase
         /\ \A p \in 1 .. Len(screen') : screen'[p] = screen[p]
<1>1. screen \in Seq(Cells) /\ Len(screen) \in Nat /\ m \in Nat
      /\ DOMAIN screen = 1 .. Len(screen)
      /\ inputBase \in Int /\ inputCursor \in Int
  BY SMT DEF ConsoleInv
<1>2. CASE screen = <<>>
  <2>1. Len(screen) = 0 /\ m = 0 /\ screen' = screen
    BY <1>1, <1>2, SMT DEF Erased
  <2> QED BY <1>1, <1>2, <2>1, SMT DEF OwnKnown, UsersFrom
<1>3. CASE screen # <<>>
  <2>1. Len(screen) \in Nat \ {0} /\ screen' = SubSeq(screen, 1, Len(screen) - 1)
    BY <1>1, <1>3, EmptySeq DEF Erased, Front
  <2>2. /\ screen' \in Seq(Cells) /\ Len(screen') = Len(screen) - 1
        /\ DOMAIN screen' = 1 .. Len(screen')
        /\ \A p \in 1 .. Len(screen') : screen'[p] = screen[p]
    BY <1>1, <2>1, SMT
  <2>3. \A p \in 1 .. Len(screen') : p \in 1 .. Len(screen)
    BY <1>1, <2>2, SMT
  <2>4. m < Len(screen)
    <3>1. CASE m = 0
      BY <2>1, <3>1, SMT
    <3>2. CASE m > 0
      <4>1. m \in DOMAIN screen
        BY <1>1, <3>2, SMT
      <4>2. m \in DOMAIN written
        BY <3>2, <4>1 DEF UsersFrom, OwnKnown
      <4>3. m + (inputCursor - inputBase) <= Len(screen)
        BY <4>2 DEF ConsoleInv
      <4> QED BY <1>1, <4>3, SMT
    <3> QED BY <1>1, <3>1, <3>2, SMT
  <2>5. OwnKnown'
    BY <1>1, <2>2, <2>3 DEF OwnKnown
  <2>6. /\ m \in 0 .. Len(screen') /\ (m > 0 => m \in 1 .. Len(screen'))
        /\ \A k \in m + 1 .. Len(screen') : /\ k \in m + 1 .. Len(screen)
                                            /\ k \in 1 .. Len(screen')
    BY <1>1, <2>2, <2>4, SMT
  <2>7. UsersFrom(m)'
    BY <2>2, <2>6 DEF UsersFrom
  <2>8. Len(screen') - m <= (inputCursor - 1) - inputBase
    BY <1>1, <2>2, SMT
  <2> QED BY <2>1, <2>2, <2>5, <2>6, <2>7, <2>8
<1> QED BY <1>2, <1>3

(* What the program writes leaves no cell of the user behind it, or is     *)
(* nothing.                                                                *)
LEMMA PutStrShows ==
  ASSUME ConsoleInv, ReadInv, NEW s \in Seq(STRING), PutStr(s), ~Reading'
  PROVE  ReadInv'
<1>1. PICK n \in 0 .. Len(s) :
        /\ screen' \in Seq(Cells) /\ Len(screen') = Len(Left(n)) + (Len(s) - n)
        /\ \A p \in 1 .. Len(Left(n)) : screen'[p] = Left(n)[p]
        /\ \A k \in 1 .. Len(s) - n :
             screen'[Len(Left(n)) + k] = Cell(s[n + k], "program")
        /\ DOMAIN written' = Kept(n) \union {Len(Left(n)) + k : k \in 1 .. Len(s) - n}
  BY PutLineCells DEF PutStr
<1>2. /\ Len(s) \in Nat /\ n \in Nat /\ Len(s) - n \in Nat
      /\ Len(Left(n)) \in Nat /\ Len(screen') \in Nat
      /\ DOMAIN screen' = 1 .. Len(screen') /\ DOMAIN Left(n) = 1 .. Len(Left(n))
  BY <1>1, SMT DEF Left, ConsoleInv
<1>3. \A p \in 1 .. Len(screen') :
        \/ p \in 1 .. Len(Left(n)) /\ screen'[p] = Left(n)[p]
        \/ \E k \in 1 .. Len(s) - n : p = Len(Left(n)) + k
  <2>1. \A p \in 1 .. Len(screen') :
          \/ p \in 1 .. Len(Left(n))
          \/ /\ p - Len(Left(n)) \in 1 .. Len(s) - n
             /\ p = Len(Left(n)) + (p - Len(Left(n)))
    BY <1>1, <1>2, SMT
  <2> QED BY <1>1, <2>1
<1>4. \A p \in DOMAIN Left(n) : Left(n)[p].by = "program" => p \in Kept(n)
  BY DEF ReadInv, OwnKnown, Left, Kept
<1>5. OwnKnown'
  BY <1>1, <1>2, <1>3, <1>4 DEF OwnKnown
<1>6. \E m \in 0 .. Len(screen') : ReadAt(m)'
  <2>1. /\ inputBase \in Int /\ inputCursor \in Int /\ inputBase' \in Int
        /\ inputCursor' - inputBase' = IF s = <<>> THEN inputCursor - inputBase ELSE 0
    BY <1>2, SMT DEF PutStr, ConsoleInv
  <2>2. CASE Len(s) - n > 0
    <3> PICK m \in Nat : m = Len(screen')
      BY <1>2
    <3>1. m = Len(Left(n)) + (Len(s) - n) /\ Len(s) - n \in 1 .. Len(s) - n
      BY <1>1, <1>2, <2>2, SMT
    <3>2. screen'[m].by = "program"
      <4>1. screen'[m] = Cell(s[n + (Len(s) - n)], "program")
        BY <1>1, <3>1, Zenon
      <4> QED BY <4>1 DEF Cell
    <3>3. s # <<>>
      BY <1>2, <2>2, SMT
    <3>4. inputCursor' - inputBase' = 0 /\ m - m = 0 /\ m \in 0 .. Len(screen')
      BY <1>2, <2>1, <3>3, SMT
    <3>5. \A k \in m + 1 .. Len(screen') : FALSE
      BY <1>2, SMT
    <3>6. UsersFrom(m)'
      BY <3>2, <3>5 DEF UsersFrom
    <3>7. Len(screen') - m <= inputCursor' - inputBase'
      BY <3>4
    <3> QED BY <3>4, <3>6, <3>7 DEF ReadAt
  <2>3. CASE Len(s) - n = 0 /\ n > 0
    <3>1. Len(screen') = 0
      BY <1>1, <1>2, <2>3, SMT DEF Left
    <3>2. s # <<>>
      BY <1>2, <2>3, SMT
    <3>3. UsersFrom(0)'
      BY <3>1, SMT DEF UsersFrom
    <3>4. Len(screen') - 0 <= inputCursor' - inputBase'
      BY <2>1, <3>1, <3>2
    <3> QED BY <3>1, <3>3, <3>4 DEF ReadAt
  <2>4. CASE Len(s) - n = 0 /\ n = 0
    <3>1. s = <<>> /\ Left(n) = screen /\ Len(screen') = Len(screen)
      BY <1>1, <1>2, <2>4, SMT DEF Left
    <3>2. \A p \in 1 .. Len(screen) : screen'[p] = screen[p]
      BY <1>1, <3>1
    <3>3. PICK m \in 0 .. Len(screen) : ReadAt(m)
      BY DEF ReadInv
    <3>4. /\ m > 0 => m \in 1 .. Len(screen)
          /\ \A k \in m + 1 .. Len(screen) : k \in 1 .. Len(screen)
      BY <1>2, <3>1, SMT
    <3>5. UsersFrom(m)'
      BY <3>1, <3>2, <3>3, <3>4 DEF UsersFrom, ReadAt
    <3>6. Len(screen') - m <= inputCursor' - inputBase'
      BY <2>1, <3>1, <3>3 DEF ReadAt
    <3> QED BY <3>1, <3>5, <3>6 DEF ReadAt
  <2> QED BY <1>2, <2>2, <2>3, <2>4, SMT
<1> QED BY <1>5, <1>6 DEF ReadInv

(* A call begins with nothing held: right after output there is nothing of *)
(* the user's on the line either.                                          *)
LEMMA CallsShow ==
  ASSUME ConsoleInv, CallInv, ReadInv, HeldText', Calls
  PROVE  ReadInv'
<1>1. call = Idle
  BY DEF Calls, Refused, PrintValue, PrintString, ReadChar, ReadNumber, ReadString, Read,
         Alloc, Random, SetSeed, Rand, Time, Sleep, End, IOCall, Call
<1>2. ASSUME NEW s \in Seq(STRING), PutStr(s), call' = call
      PROVE  ReadInv'
  <2>1. ~Reading'
    BY <1>1, <1>2 DEF Reading, Idle
  <2> QED BY <1>2, <2>1, PutStrShows
<1>3. CASE PrintValue
  <2>1. PICK s \in Outputs : PutStr(s)
    BY <1>3 DEF PrintValue
  <2>2. s \in Seq(STRING) /\ call' = call
    BY <1>3, CharAssumption DEF PrintValue
  <2> QED BY <1>2, <2>1, <2>2
<1>4. CASE PrintString
  <2>1. PICK end \in 0 .. BufSize : PutStr(SubSeq(buffer, 1, end))
    BY <1>4 DEF PrintString
  <2>2. 1 \in Int /\ end \in Int /\ \A i \in 1 .. end : buffer[i] \in STRING
    <3>1. end \in Int /\ \A i \in 1 .. end : i \in 1 .. BufSize
      BY BufferAssumption, SMT
    <3> QED BY <3>1, BufferIsText
  <2>3. SubSeq(buffer, 1, end) \in Seq(STRING)
    BY <2>2, SubSeqProperties
  <2> QED BY <1>2, <1>4, <2>1, <2>3 DEF PrintString
<1>5. ASSUME UNCHANGED console,
             Reading' => fresh' = (inputCursor = inputBase) /\ Held' = <<>>
      PROVE  ReadInv'
  <2>1. PICK m \in 0 .. Len(screen) : ReadAt(m)
    BY DEF ReadInv
  <2>2. screen' = screen /\ written' = written
        /\ inputBase' = inputBase /\ inputCursor' = inputCursor
    BY <1>5 DEF console
  <2>3. OwnKnown'
    BY <2>2 DEF ReadInv, OwnKnown
  <2>4. UsersFrom(m)' /\ Len(screen') - m <= inputCursor' - inputBase'
    BY <2>1, <2>2 DEF ReadAt, UsersFrom
  <2>5. ASSUME Reading'
        PROVE  /\ inputCursor' - inputBase' = Len(Held')
               /\ Len(screen') = m + Len(Held')
               /\ \A k \in 1 .. Len(Held') : screen'[m + k].ch = Held'[k]
    <3>1. inputCursor = inputBase /\ Held' = <<>>
      BY <1>5, <2>5 DEF Reading
    <3>2. inputBase \in Int /\ Len(screen) \in Nat /\ m \in Nat
      BY SMT DEF ConsoleInv
    <3>3. Len(screen) - m <= inputCursor - inputBase
      BY <2>1 DEF ReadAt
    <3>4. Len(screen) = m + 0 /\ inputCursor - inputBase = 0
      BY <3>1, <3>2, <3>3, SMT
    <3> QED BY <2>2, <3>1, <3>4
  <2>6. ReadAt(m)'
    BY <2>4, <2>5 DEF ReadAt
  <2> QED BY <2>2, <2>3, <2>6 DEF ReadInv
<1>6. ASSUME UNCHANGED console, call' = Idle
      PROVE  ReadInv'
  BY <1>5, <1>6 DEF Reading, Idle
<1>7. ASSUME NEW c, Read(c), c.op = "number" => c.line = <<>>,
             c.op = "string" => c.currLen = 0
      PROVE  ReadInv'
  <2>1. UNCHANGED console /\ call' = c /\ fresh' = (inputCursor = inputBase)
    BY <1>7 DEF Read
  <2>2. ASSUME Reading' PROVE Held' = <<>>
    <3>1. Held' \in Seq(STRING)
      BY DEF HeldText
    <3>2. CASE c.op = "number"
      BY <1>7, <2>1, <3>2 DEF HeldText
    <3>3. CASE c.op = "string"
      <4>1. Len(Held') = 0
        BY <1>7, <2>1, <3>3 DEF HeldText
      <4> QED BY <3>1, <4>1, EmptySeq
    <3> QED BY <2>1, <2>2, <3>2, <3>3 DEF Reading
  <2> QED BY <1>5, <2>1, <2>2
<1>8. CASE ReadChar
  BY <1>7, <1>8 DEF ReadChar
<1>9. CASE ReadNumber
  BY <1>7, <1>9 DEF ReadNumber
<1>10. ASSUME NEW length \in 0 .. BufSize, ReadString(length)
       PROVE  ReadInv'
  <2>1. CASE length > 0
    BY <1>7, <1>10, <2>1 DEF ReadString, StringCall
  <2>2. CASE ~(length > 0)
    BY <1>1, <1>6, <1>10, <2>2 DEF ReadString, NoIO
  <2> QED BY <2>1, <2>2
<1>11. CASE Refused \/ (\E size \in Sizes, sp \in StackPtrs : Alloc(size, sp))
            \/ Random \/ Time \/ Sleep \/ End
  BY <1>1, <1>6, <1>11
     DEF Refused, Alloc, Random, SetSeed, Rand, Time, Sleep, End, NoIO
<1> QED BY <1>3, <1>4, <1>8, <1>9, <1>10, <1>11 DEF Calls

(* What getChar does to the line, the call does to what it holds. *)
LEMMA ReceiveShows ==
  ASSUME ConsoleInv, CallInv, ReadInv, HeldText, HeldText', Receive
  PROVE  ReadInv'
<1>1. PICK c \in Keys : /\ GetChar(c)
                        /\ CharRead(Got(c)) \/ NumberRead(Got(c)) \/ StringRead(Got(c))
                        /\ fresh' = (fresh /\ c # "ESC")
  BY DEF Receive
<1>2. PICK m \in 0 .. Len(screen) : ReadAt(m)
  BY DEF ReadInv
<1>3. /\ c \in STRING /\ OwnKnown /\ UsersFrom(m)
      /\ Len(screen) - m <= inputCursor - inputBase
  BY <1>2, CharAssumption DEF ReadInv, ReadAt
<1>4. /\ screen \in Seq(Cells) /\ Len(screen) \in Nat /\ m \in Nat
      /\ inputBase \in Int /\ inputCursor \in Int /\ inputBase <= inputCursor
      /\ Len(Held) \in Nat /\ inputBase' = inputBase
  BY <1>1, SMT DEF ConsoleInv, HeldText, GetChar
<1>5. ASSUME Reading'
      PROVE  /\ c # "ESC" /\ c # "NL"
             /\ inputCursor - inputBase = Len(Held) /\ Len(screen) = m + Len(Held)
             /\ \A k \in 1 .. Len(Held) : screen[m + k].ch = Held[k]
             /\ c = "DEL" =>
                  /\ Len(Held') = IF Len(Held) = 0 THEN 0 ELSE Len(Held) - 1
                  /\ \A k \in 1 .. Len(Held') : Held'[k] = Held[k]
             /\ c # "DEL" =>
                  /\ Len(Held') = Len(Held) + 1
                  /\ Held'[Len(Held) + 1] = c
                  /\ \A k \in 1 .. Len(Held) : Held'[k] = Held[k]
  <2>1. call'.op \in {"number", "string"} /\ fresh /\ c # "ESC"
    BY <1>1, <1>5 DEF Reading
  <2>2. Reading
    BY <1>1, <2>1, HeldMoves DEF Reading
  <2> QED BY <1>1, <1>2, <2>1, <2>2, HeldMoves DEF ReadAt
<1>6. CASE c = "DEL" /\ inputCursor > inputBase
  <2>1. /\ screen' = Erased(screen) /\ inputCursor' = inputCursor - 1
        /\ written' = written
    BY <1>1, <1>6 DEF GetChar, Echo
  <2>2. /\ OwnKnown' /\ UsersFrom(m)' /\ m \in 0 .. Len(screen')
        /\ Len(screen') = IF Len(screen) = 0 THEN 0 ELSE Len(screen) - 1
        /\ Len(screen') - m <= inputCursor' - inputBase'
        /\ \A p \in 1 .. Len(screen') : screen'[p] = screen[p]
    BY <1>3, <1>4, <1>6, <2>1, EraseShows
  <2>3. ASSUME Reading'
        PROVE  /\ inputCursor' - inputBase' = Len(Held')
               /\ Len(screen') = m + Len(Held')
               /\ \A k \in 1 .. Len(Held') : screen'[m + k].ch = Held'[k]
    <3>1. Len(Held) > 0 /\ Len(Held') = Len(Held) - 1
      BY <1>4, <1>5, <1>6, <2>3, SMT
    <3>2. /\ inputCursor' - inputBase' = Len(Held')
          /\ Len(screen') = m + Len(Held')
      BY <1>4, <1>5, <2>1, <2>2, <2>3, <3>1, SMT
    <3>3. \A k \in 1 .. Len(Held') : m + k \in 1 .. Len(screen') /\ k \in 1 .. Len(Held)
      BY <1>4, <3>1, <3>2, SMT
    <3> QED BY <1>5, <1>6, <2>2, <2>3, <3>2, <3>3
  <2> QED BY <2>2, <2>3 DEF ReadInv, ReadAt
<1>7. CASE c = "DEL" /\ ~(inputCursor > inputBase)
  <2>1. screen' = screen /\ inputCursor' = inputCursor /\ written' = written
    BY <1>1, <1>7 DEF GetChar, Echo
  <2>2. OwnKnown' /\ UsersFrom(m)' /\ Len(screen') - m <= inputCursor' - inputBase'
    BY <1>3, <1>4, <2>1 DEF OwnKnown, UsersFrom
  <2>3. ASSUME Reading'
        PROVE  /\ inputCursor' - inputBase' = Len(Held')
               /\ Len(screen') = m + Len(Held')
               /\ \A k \in 1 .. Len(Held') : screen'[m + k].ch = Held'[k]
    <3>1. Len(Held) = 0
      BY <1>4, <1>5, <1>7, <2>3, SMT
    <3> QED BY <1>4, <1>5, <1>7, <2>1, <2>3, <3>1
  <2> QED BY <2>1, <2>2, <2>3 DEF ReadInv, ReadAt
<1>8. CASE c = "ESC"
  <2>1. /\ Escaped \in Seq(Cells) /\ Len(Escaped) = 4
        /\ \A k \in DOMAIN Escaped : Escaped[k].by = "user"
    <3>1. Cell(c, "user") \in Cells
      BY <1>3 DEF Cell, Cells
    <3>2. Escaped \in [1 .. 4 -> Cells]
      BY <1>8, <3>1 DEF Escaped
    <3> QED BY <3>2, LenProperties, SeqDef, SMT DEF Escaped, Cell
  <2>2. /\ screen' = screen \o Escaped /\ inputCursor' = inputCursor + 4
        /\ written' = written
    BY <1>1, <1>8 DEF GetChar, Echo
  <2>3. /\ OwnKnown' /\ UsersFrom(m)' /\ m \in 0 .. Len(screen')
        /\ Len(screen') = Len(screen) + 4
    BY <1>3, <2>1, <2>2, EchoShows
  <2>4. Len(screen') - m <= inputCursor' - inputBase'
    BY <1>3, <1>4, <2>2, <2>3, SMT
  <2>5. ~Reading'
    BY <1>1, <1>8 DEF Reading
  <2> QED BY <2>3, <2>4, <2>5 DEF ReadInv, ReadAt
<1>9. CASE c = "NL"
  <2>1. screen' = <<>> /\ inputCursor' = inputCursor + 1
    BY <1>1, <1>9 DEF GetChar, Echo, Shown
  <2>2. OwnKnown' /\ UsersFrom(0)' /\ 0 \in 0 .. Len(screen')
    BY <2>1, SMT DEF OwnKnown, UsersFrom
  <2>3. Len(screen') - 0 <= inputCursor' - inputBase'
    BY <1>4, <2>1, SMT
  <2>4. ~Reading'
    BY <1>5, <1>9
  <2> QED BY <2>2, <2>3, <2>4 DEF ReadInv, ReadAt
<1>10. CASE c \notin {"DEL", "ESC", "NL"}
  <2> DEFINE t == <<Cell(c, "user")>>
  <2>1. /\ t \in Seq(Cells) /\ Len(t) = 1 /\ t[1].ch = c
        /\ \A k \in DOMAIN t : t[k].by = "user"
    BY <1>3 DEF Cell, Cells
  <2>2. /\ screen' = screen \o t /\ inputCursor' = inputCursor + 1
        /\ written' = written
    BY <1>1, <1>4, <1>10, <2>1, AppendIsConcat
       DEF GetChar, Echo, Shown, Cell, Cells
  <2> HIDE DEF t
  <2>3. /\ OwnKnown' /\ UsersFrom(m)' /\ m \in 0 .. Len(screen')
        /\ Len(screen') = Len(screen) + 1
        /\ \A p \in 1 .. Len(screen) : screen'[p] = screen[p]
        /\ screen'[Len(screen) + 1] = t[1]
    <3>1. 1 \in 1 .. Len(t)
      BY <2>1, SMT
    <3> QED BY <1>3, <2>1, <2>2, <3>1, EchoShows
  <2>4. Len(screen') - m <= inputCursor' - inputBase'
    BY <1>3, <1>4, <2>2, <2>3, SMT
  <2>5. ASSUME Reading'
        PROVE  /\ inputCursor' - inputBase' = Len(Held')
               /\ Len(screen') = m + Len(Held')
               /\ \A k \in 1 .. Len(Held') : screen'[m + k].ch = Held'[k]
    <3>1. Len(Held') = Len(Held) + 1
      BY <1>5, <1>10, <2>5
    <3>2. /\ inputCursor' - inputBase' = Len(Held')
          /\ Len(screen') = m + Len(Held')
          /\ m + (Len(Held) + 1) = Len(screen) + 1
      <4>1. /\ inputCursor - inputBase = Len(Held) /\ Len(screen) = m + Len(Held)
            /\ inputCursor' = inputCursor + 1 /\ Len(screen') = Len(screen) + 1
        BY <1>5, <2>2, <2>3, <2>5
      <4> QED BY <1>4, <3>1, <4>1, SMT
    <3>3. screen'[m + (Len(Held) + 1)].ch = Held'[Len(Held) + 1]
      BY <1>5, <1>10, <2>1, <2>3, <2>5, <3>2
    <3>4. \A k \in 1 .. Len(Held') :
            \/ k = Len(Held) + 1
            \/ k \in 1 .. Len(Held) /\ m + k \in 1 .. Len(screen)
      BY <1>4, <1>5, <2>5, <3>1, SMT
    <3>5. \A k \in 1 .. Len(Held) :
            m + k \in 1 .. Len(screen) => screen'[m + k].ch = Held'[k]
      BY <1>5, <1>10, <2>3, <2>5
    <3> QED BY <3>2, <3>3, <3>4, <3>5
  <2> QED BY <2>3, <2>4, <2>5 DEF ReadInv, ReadAt
<1> QED BY <1>6, <1>7, <1>8, <1>9, <1>10

(* The counters and the screen agree with the line a call holds. *)
THEOREM ReadInvariant == SysSpec => []ReadInv
<1>1. SysInit => ReadInv
  <2> SUFFICES ASSUME SysInit PROVE ReadInv
    OBVIOUS
  <2>1. /\ screen = <<>> /\ Len(screen) = 0 /\ inputBase = 0 /\ inputCursor = 0
        /\ call = Idle
    BY SMT DEF SysInit, ConsoleInit
  <2>2. ~Reading /\ OwnKnown /\ UsersFrom(0)
    BY <2>1, SMT DEF Reading, Idle, OwnKnown, UsersFrom
  <2>3. ReadAt(0) /\ 0 \in 0 .. Len(screen)
    BY <2>1, <2>2, SMT DEF ReadAt
  <2> QED BY <2>2, <2>3 DEF ReadInv
<1>2. ReadInv /\ ConsoleInv /\ CallInv /\ CallInv' /\ [SysNext]_sysVars => ReadInv'
  <2> SUFFICES ASSUME ReadInv, ConsoleInv, CallInv, CallInv', [SysNext]_sysVars
               PROVE  ReadInv'
    OBVIOUS
  <2>1. HeldText
    BY HeldIsText
  <2>2. HeldText'
    BY HeldIsText, PTL
  <2>3. CASE Calls
    BY <2>2, <2>3, CallsShow
  <2>4. CASE Receive
    BY <2>1, <2>2, <2>4, ReceiveShows
  <2>5. CASE UNCHANGED <<screen, written, inputBase, inputCursor, call, buffer, fresh>>
    BY <2>5 DEF ReadInv, OwnKnown, ReadAt, UsersFrom, Reading, Held
  <2>6. CASE Type /\ UNCHANGED <<vars, sys>>
    BY <2>5, <2>6 DEF Type, sys
  <2>7. CASE UNCHANGED sysVars
    BY <2>5, <2>7 DEF sysVars, console, sys
  <2> QED BY <2>3, <2>4, <2>6, <2>7 DEF SysNext
<1> QED BY <1>1, <1>2, SysInvariant, PTL DEF SysSpec

(* While a line is read that began right after output, what the user sees  *)
(* of it is what the program will get.                                     *)
THEOREM WhatIsShownIsRead == SysSpec => []ShownIsRead
<1>1. ConsoleInv /\ HeldText /\ ReadInv => ShownIsRead
  <2> SUFFICES ASSUME ConsoleInv, HeldText, ReadInv, Reading PROVE TypedShown = Held
    BY DEF ShownIsRead, Reading
  <2>1. PICK m \in 0 .. Len(screen) : ReadAt(m)
    BY DEF ReadInv
  <2>2. /\ screen \in Seq(Cells) /\ Len(screen) \in Nat /\ m \in Nat
        /\ DOMAIN screen = 1 .. Len(screen)
        /\ Held \in Seq(STRING) /\ Len(Held) \in Nat
    BY SMT DEF ConsoleInv, HeldText
  <2>3. /\ Len(screen) = m + Len(Held) /\ UsersFrom(m)
        /\ \A k \in 1 .. Len(Held) : screen[m + k].ch = Held[k]
    BY <2>1 DEF ReadAt
  <2> DEFINE own == {k \in DOMAIN screen : screen[k].by = "program"}
  <2>4. \A k \in own : k \in Nat \ {0} /\ k <= m
    <3>1. \A k \in own : k \in 1 .. Len(screen) /\ k \notin m + 1 .. Len(screen)
      BY <2>2, <2>3 DEF UsersFrom
    <3> QED BY <2>2, <3>1, SMT
  <2>5. (IF own = {} THEN 1 ELSE Max(own) + 1) = m + 1
    <3>1. CASE m = 0
      <4>1. own = {}
        BY <2>4, <3>1, SMT
      <4> QED BY <3>1, <4>1
    <3>2. CASE m > 0
      <4>1. m \in own
        BY <2>2, <2>3, <3>2, SMT DEF UsersFrom
      <4>2. \A y \in own : m >= y
        BY <2>2, <2>4, SMT
      <4>3. \E x \in own : \A y \in own : x >= y
        BY <4>1, <4>2
      <4>4. Max(own) \in own /\ \A y \in own : Max(own) >= y
        <5> HIDE DEF own
        <5> QED BY <4>3, Zenon DEF Max
      <4>5. Max(own) = m
        <5>1. Max(own) \in Nat /\ Max(own) <= m /\ Max(own) >= m
          BY <2>4, <4>1, <4>4, Zenon
        <5> QED BY <2>2, <5>1, SMT
      <4> QED BY <4>1, <4>5
    <3> QED BY <2>2, <3>1, <3>2, SMT
  <2>6. TypedShown = CharsOf(SubSeq(screen, m + 1, Len(screen)))
    BY <2>5 DEF TypedShown
  <2> DEFINE shown == SubSeq(screen, m + 1, Len(screen))
  <2>7. /\ DOMAIN shown = 1 .. Len(Held)
        /\ \A k \in 1 .. Len(Held) : shown[k] = screen[m + k]
    <3>1. shown = [k \in 1 .. Len(screen) - (m + 1) + 1 |-> screen[(m + 1) + k - 1]]
      BY <2>2, SMT
    <3>2. /\ Len(screen) - (m + 1) + 1 = Len(Held)
          /\ \A k \in 1 .. Len(Held) : (m + 1) + k - 1 = m + k
      BY <2>2, <2>3, SMT
    <3> HIDE DEF shown
    <3> QED BY <3>1, <3>2
  <2> HIDE DEF shown
  <2>8. CharsOf(shown) = [k \in 1 .. Len(Held) |-> Held[k]]
    BY <2>3, <2>7 DEF CharsOf
  <2>9. Held = [k \in 1 .. Len(Held) |-> Held[k]]
    BY <2>2
  <2> QED BY <2>6, <2>8, <2>9 DEF shown
<1> QED BY <1>1, SysInvariant, ReadInvariant, HeldIsText, PTL
=============================================================================
