------------------------------- MODULE Console -------------------------------
(***************************************************************************)
(* ConsoleHandle (consoleio.cpp): the terminal in raw mode.  What is typed *)
(* waits until the program reads it; getChar echoes it, and takes a        *)
(* character off the screen for a DEL, as far as its two counters say that *)
(* there is one of the user's.  The screen is the line the cursor is in,   *)
(* which never gets to the right margin.                                   *)
(*                                                                         *)
(* A character is "a", a digit "1", "NL", "DEL", "ESC", or "x", which only *)
(* the program writes; getChar makes a "BS" of a DEL.                      *)
(***************************************************************************)
EXTENDS Integers, Sequences, SequencesExt

CONSTANTS
  Keys,         \* the characters that are typed
  MaxTyped      \* bound: how many

VARIABLES
  pending,      \* what the terminal has for the program
  typed,        \* history: the number of characters typed
  screen,       \* the cells of the line, [ch, by]
  inputBase,
  inputCursor,
  written       \* history: what the program wrote to the line, by place

(* The backspace key sends a DEL; a typed control-H is not modelled. *)
ASSUME KeyAssumption == "BS" \notin Keys

console == <<pending, typed, screen, inputBase, inputCursor, written>>

ConsoleInit ==
  /\ pending = <<>> /\ typed = 0 /\ screen = <<>>
  /\ inputBase = 0 /\ inputCursor = 0 /\ written = [p \in {} |-> ""]

Cell(c, who) == [ch |-> c, by |-> who]

(* A newline begins a new line. *)
Shown(s, c, who)  == IF c = "NL" THEN <<>> ELSE Append(s, Cell(c, who))

(* "\b \b": at the start of the line there is nowhere to go back to. *)
Erased(s) == IF s = <<>> THEN s ELSE Front(s)

Type ==
  /\ typed < MaxTyped
  /\ \E c \in Keys : pending' = Append(pending, c)
  /\ typed' = typed + 1
  /\ UNCHANGED <<screen, inputBase, inputCursor, written>>

-----------------------------------------------------------------------------
(* getChar.  An escape takes four cells: it is shown as \033. *)

Escaped == [k \in 1 .. 4 |-> Cell("ESC", "user")]

(* A DEL with nothing to take away left in the terminal. *)
TakeUnlessAtBase ==
  pending' = IF Head(pending) = "DEL" /\ inputCursor = inputBase
             THEN pending ELSE Tail(pending)

Take == pending' = Tail(pending)

(* The cursor left where it was. *)
EchoUncounted(c) ==
  /\ screen' = Shown(screen, c, "user")
  /\ UNCHANGED inputCursor

Echo(c) ==
  CASE c = "DEL" -> IF inputCursor > inputBase
                    THEN screen' = Erased(screen) /\ inputCursor' = inputCursor - 1
                    ELSE UNCHANGED <<screen, inputCursor>>
    [] c = "ESC" -> screen' = screen \o Escaped /\ inputCursor' = inputCursor + 4
    [] OTHER     -> screen' = Shown(screen, c, "user")
                    /\ inputCursor' = inputCursor + 1

GetChar(c) ==
  /\ pending # <<>> /\ c = Head(pending)
  /\ Take
  /\ Echo(c)
  /\ written' = IF c = "NL" THEN [p \in {} |-> ""] ELSE written
  /\ UNCHANGED <<typed, inputBase>>

Got(c) == IF c = "DEL" THEN "BS" ELSE c

-----------------------------------------------------------------------------
(* putChar for each character of a string: the part after its last newline *)
(* is on the line in the end.                                              *)

LastLineFrom(chars, n) ==
  /\ n > 0 => chars[n] = "NL"
  /\ \A k \in n + 1 .. Len(chars) : chars[k] # "NL"

PutLine(chars) ==
  \E n \in 0 .. Len(chars) :
    LET new  == [k \in 1 .. Len(chars) - n |-> chars[n + k]]
        left == IF n = 0 THEN screen ELSE <<>>
        kept == IF n = 0 THEN DOMAIN written ELSE {}
    IN  /\ LastLineFrom(chars, n)
        /\ screen' = left \o [k \in DOMAIN new |-> Cell(new[k], "program")]
        /\ written' = [p \in kept \union {Len(left) + k : k \in DOMAIN new} |->
                         IF p \in kept THEN written[p] ELSE new[p - Len(left)]]

(* The counters left for the next character of the user. *)
PutStrUncounted(chars) ==
  /\ PutLine(chars)
  /\ UNCHANGED <<pending, typed, inputBase, inputCursor>>

PutStr(chars) ==
  /\ PutLine(chars)
  /\ inputBase' = inputBase + Len(chars)
  /\ inputCursor' = IF chars = <<>> THEN inputCursor ELSE inputBase'
  /\ UNCHANGED <<pending, typed>>
-----------------------------------------------------------------------------
(* What the program wrote to the line stays where it wrote it, however     *)
(* much is typed and deleted before, between and after (the guard of       *)
(* consoleio.cpp:198 with the counters that putChar moves).                *)
OutputStays ==
  \A p \in DOMAIN written : /\ p \in DOMAIN screen
                            /\ screen[p] = Cell(written[p], "program")
=============================================================================
