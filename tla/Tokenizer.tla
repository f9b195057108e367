------------------------------ MODULE Tokenizer ------------------------------
(***************************************************************************)
(* Tokenizer::tokenizeLine: a line of source becomes lines of tokens, one  *)
(* more after each label.  A character is one of those the loop tells      *)
(* apart, or a whole word that it would only append letter by letter.      *)
(* Numbers are decimal: nothing in the alphabet makes one that begins with *)
(* 0x.                                                                     *)
(***************************************************************************)
EXTENDS Instructions, Integers, SequencesExt, FiniteSetsExt, TLC

CONSTANTS
  Alphabet,     \* the characters and words of a line
  MaxChars      \* bound: how many

VARIABLES
  source,       \* the line as far as it has been read
  tokens,       \* the lines of tokens
  currentToken,
  currentType,
  prevChar,
  verdict       \* "reading", "read", "ok", or why it was refused

scanned == <<tokens, currentToken, currentType, prevChar>>
tokVars == <<source, scanned, verdict>>

Stops     == {",", ":", "(", ")"}
Quote     == "\""
Mark      == [c \in {".", "$", "%"} |->
                CASE c = "." -> "alloc" [] c = "$" -> "reg" [] OTHER -> "param"]
Digits    == {"1", "-"}

MEM_SEC_DIRECTIVES == {"data", "text", "ktext", "kdata"}
META_DIRECTIVES    == {"include", "globl", "eqv", "macro", "end_macro"}
InstructionNames   ==
  R_TYPE_D_S_T \union R_TYPE_D_T_S \union R_TYPE_D_T_H \union R_TYPE_D
  \union R_TYPE_S \union R_TYPE_S_T \union I_TYPE_T_S_I \union I_TYPE_S_T_L
  \union I_TYPE_T_I \union J_TYPE_L \union CP0_TYPE_T_D \union CP1Names
  \union PseudoNames \union {"break", "syscall", "eret"}

IsIn(t, names) == \E n \in names : t = <<n>>
Tok(cat, val)  == [cat |-> cat, val |-> val]

tokenLine == Last(tokens)
InLine(t) == Append(Front(tokens), Append(tokenLine, t))

TokIdle ==
  /\ source = <<>> /\ tokens = <<<<>>>> /\ currentToken = <<>>
  /\ currentType = "unknown" /\ prevChar = "NUL"

TokInit == TokIdle /\ verdict = "reading"
-----------------------------------------------------------------------------
(* The branches of the loop, for character c; the verdict is then v. *)

Reject(why) == verdict' = why /\ UNCHANGED scanned

(* prevChar is that of the string only. *)
InString(c, v) ==
  /\ currentType = "str"
  /\ \/ /\ c = Quote /\ prevChar # "\\"
        /\ tokens' = InLine(Tok("str", currentToken))
        /\ currentToken' = <<>> /\ currentType' = "unknown"
     \/ /\ ~(c = Quote /\ prevChar # "\\")
        /\ currentToken' = Append(currentToken, c)
        /\ UNCHANGED <<tokens, currentType>>
  /\ prevChar' = c /\ verdict' = v

OpenString(c, v) ==
  /\ currentType # "str" /\ c = Quote
  /\ IF currentToken # <<>> THEN Reject("unexpected token")
     ELSE /\ currentType' = "str" /\ verdict' = v
          /\ UNCHANGED <<tokens, currentToken, prevChar>>

Comment(c) ==
  /\ currentType # "str" /\ c = "#"
  /\ verdict' = "read" /\ UNCHANGED scanned

(* terminateToken: what follows the token, or where it is, may change what *)
(* it was taken for.                                                       *)
CategoryAt(c) ==
  IF c = ":" THEN "label"
  ELSE CASE currentType = "alloc" /\ IsIn(currentToken, MEM_SEC_DIRECTIVES) -> "section"
         [] currentType = "alloc" /\ IsIn(currentToken, META_DIRECTIVES)    -> "meta"
         [] currentType = "instr" /\ ~IsIn(currentToken, InstructionNames)  -> "ref"
         [] OTHER -> currentType

Separator == [c \in {",", "(", ")"} |->
                CASE c = "," -> "sep" [] c = "(" -> "open" [] OTHER -> "close"]

Terminated(c, v, nextType) ==
  /\ currentType # "str" /\ c \in Stops \union {" "}
  /\ IF c # " " /\ currentToken = <<>> /\ tokenLine = <<>>
     THEN Reject("unexpected token")
     ELSE LET done == IF currentToken = <<>> THEN tokens
                      ELSE InLine(Tok(CategoryAt(c), currentToken))
          IN  /\ tokens' = CASE c = " " -> done
                             [] c = ":" -> Append(done, <<>>)
                             [] OTHER   -> Append(Front(done),
                                   Append(Last(done), Tok(Separator[c], <<c>>)))
              /\ currentToken' = <<>> /\ currentType' = nextType
              /\ verdict' = v /\ UNCHANGED prevChar

(* The category kept for the token after. *)
TerminateKeepingType(c, v) == Terminated(c, v, CategoryAt(c))

(* Without a token the category stays, for the next one. *)
Terminate(c, v) ==
  Terminated(c, v, IF currentToken = <<>> THEN CategoryAt(c) ELSE "unknown")

InToken(c) == currentType # "str" /\ c \notin Stops \union {" ", Quote, "#"}

Accumulate(c, v) ==
  /\ InToken(c) /\ currentType # "unknown"
  /\ currentToken' = Append(currentToken, c)
  /\ verdict' = v /\ UNCHANGED <<tokens, currentType, prevChar>>

BeginMarked(c, v) ==
  /\ InToken(c) /\ currentType = "unknown" /\ c \in DOMAIN Mark
  /\ currentType' = Mark[c]
  /\ verdict' = v /\ UNCHANGED <<tokens, currentToken, prevChar>>

(* A name at the start of a line, or as the third token of an .eqv, may be *)
(* an instruction.                                                         *)
BeginName(c, v) ==
  /\ InToken(c) /\ currentType = "unknown" /\ c \notin DOMAIN Mark
  /\ currentToken' = Append(currentToken, c)
  /\ currentType' =
       IF c \in Digits THEN "imm"
       ELSE IF \/ tokenLine = <<>>
               \/ Len(tokenLine) = 2 /\ tokenLine[1] = Tok("meta", <<"eqv">>)
       THEN "instr" ELSE "ref"
  /\ verdict' = v /\ UNCHANGED <<tokens, prevChar>>

Loop(c, v) ==
  \/ InString(c, v) \/ OpenString(c, v) \/ Comment(c) \/ Terminate(c, v)
  \/ Accumulate(c, v) \/ BeginMarked(c, v) \/ BeginName(c, v)

ReadChar ==
  /\ verdict = "reading" /\ Len(source) < MaxChars
  /\ \E c \in Alphabet : source' = Append(source, c) /\ Loop(c, "reading")

(* A blank is added to the line. *)
EndLine == verdict = "reading" /\ Loop(" ", "read") /\ UNCHANGED source

Conclude ==
  /\ verdict = "read"
  /\ verdict' = IF currentToken = <<>> THEN "ok" ELSE "unexpected end"
  /\ UNCHANGED <<source, scanned>>

TokNext == ReadChar \/ EndLine \/ Conclude

(* tokenizeFile keeps the lines that have tokens. *)
Tokenized ==
  FlattenSeq([n \in DOMAIN tokens |-> IF tokens[n] = <<>> THEN <<>> ELSE <<tokens[n]>>])
-----------------------------------------------------------------------------
(* What a line s says: its strings, and between them stops and words,      *)
(* which end where a blank, a stop, a quote or the comment is.             *)

(* Whether a place is in a string, or is the quote that closes it. *)
Quoted(s) ==
  LET quoted[p \in 0 .. Len(s) + 1] ==
        IF p <= 1 THEN FALSE
        ELSE IF quoted[p - 1] THEN s[p - 1] # Quote \/ s[p - 2] = "\\"
        ELSE s[p - 1] = Quote
  IN  quoted

Has(s, p, cs) == p \in DOMAIN s /\ ~Quoted(s)[p] /\ s[p] \in cs
InWord(s, p)  == /\ p \in DOMAIN s /\ ~Quoted(s)[p]
                 /\ s[p] \notin Stops \union {" ", Quote, "#"}
Begins(s, p)  == InWord(s, p) /\ ~InWord(s, p - 1)

Items(s) == {p \in DOMAIN s : Has(s, p, {Quote, ",", "(", ")"}) \/ Begins(s, p)}
ItemsBefore(s, p) ==
  {k \in Items(s) : k < p /\ \A j \in k .. p - 1 : ~Has(s, j, {":"})}

(* The labels before a place, each of which ends a line of tokens. *)
LineOf(s, p)  == Cardinality({k \in 1 .. p - 1 : Has(s, k, {":"})}) + 1
PlaceOf(s, p) == Cardinality(ItemsBefore(s, p)) + 1

IsWord(s, p, q) ==
  /\ Begins(s, p) /\ q \in p .. Len(s)
  /\ \A k \in p .. q : InWord(s, k)
  /\ ~InWord(s, q + 1)
Body(s, p, q) == SubSeq(s, IF s[p] \in DOMAIN Mark THEN p + 1 ELSE p, q)

(* The third item of a line that begins with .eqv. *)
AfterEqv(s, p) ==
  /\ PlaceOf(s, p) = 3
  /\ \E k \in ItemsBefore(s, p) : /\ PlaceOf(s, k) = 1 /\ s[k] = "."
                                 /\ IsWord(s, k, k + 1) /\ s[k + 1] = "eqv"

Category(s, p, q) ==
  LET t == Body(s, p, q)
  IN  IF Has(s, q + 1, {":"}) THEN "label"
      ELSE CASE s[p] = "." -> (CASE IsIn(t, MEM_SEC_DIRECTIVES) -> "section"
                                 [] IsIn(t, META_DIRECTIVES)    -> "meta"
                                 [] OTHER                       -> "alloc")
             [] s[p] \in {"$", "%"} -> Mark[s[p]]
             [] s[p] \in Digits     -> "imm"
             [] OTHER -> IF /\ PlaceOf(s, p) = 1 \/ AfterEqv(s, p)
                            /\ IsIn(t, InstructionNames)
                         THEN "instr" ELSE "ref"

IsString(s, p, q) ==
  /\ Has(s, p, {Quote}) /\ q \in p + 1 .. Len(s)
  /\ \A k \in p + 1 .. q : Quoted(s)[k]
  /\ ~Quoted(s)[q + 1]

Says(s, p, token) ==
  \/ Has(s, p, DOMAIN Separator) /\ token = Tok(Separator[s[p]], <<s[p]>>)
  \/ \E q \in DOMAIN s :
       \/ IsString(s, p, q) /\ token = Tok("str", SubSeq(s, p + 1, q - 1))
       \/ IsWord(s, p, q) /\ token = Tok(Category(s, p, q), Body(s, p, q))

(* The lines of tokens have what the items say, each at its place, and no  *)
(* more.                                                                   *)
AreSaid(lines, s) ==
  /\ Len(lines) = Cardinality({LineOf(s, p) : p \in Items(s)})
  /\ \A n \in DOMAIN lines :
       Len(lines[n]) = Cardinality({p \in Items(s) : LineOf(s, p) = n})
  /\ \A p \in Items(s) : Says(s, p, lines[LineOf(s, p)][PlaceOf(s, p)])

(* A mark without a name, or a colon without one right before it: its      *)
(* category goes to the next token (see the README).                       *)
Stray(s) ==
  \E p \in DOMAIN s : \/ Has(s, p, DOMAIN Mark) /\ IsWord(s, p, p)
                      \/ Has(s, p, {":"}) /\ ~InWord(s, p - 1)

Malformed(s) ==
  \/ Quoted(s)[Len(s) + 1]
  \/ \E p \in DOMAIN s : \/ Has(s, p, {Quote, "#"}) /\ InWord(s, p - 1)
                         \/ Has(s, p, Stops) /\ ItemsBefore(s, p) = {}

(* A line is refused exactly if a string is not closed, a string or the    *)
(* comment touches a word, or a stop comes first; otherwise the tokens are *)
(* what the line says: no character is lost, none gets into another token, *)
(* and a token has the category its own text and place give it, whatever   *)
(* was in the line before it.                                              *)
TokensAsWritten ==
  verdict \notin {"reading", "read"} /\ ~Stray(source) =>
    /\ verdict = "ok" <=> ~Malformed(source)
    /\ verdict = "ok" => AreSaid(Tokenized, source)
=============================================================================
