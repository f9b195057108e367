---------------------------- MODULE Postprocessor ----------------------------
(***************************************************************************)
(* Tokenizer::tokenize and the Postprocessor it drives: the files of a     *)
(* command line, as lines of tokens, become one program.  Includes are     *)
(* replaced in every file, then each file has its .eqv names replaced and  *)
(* its macros expanded, then the labels that are not global are renamed    *)
(* after their file, and the files are put together in the order given.    *)
(*                                                                         *)
(* Each loop of the code works on a vector that it edits under its own     *)
(* index, so the actions move an index over the lines; lines the loop does *)
(* nothing to are passed over.  Separators are left out, and so is what    *)
(* only their absence or doubling makes an error.  A file that includes    *)
(* itself copies a vector into itself: undefined.                          *)
(***************************************************************************)
EXTENDS Tokens, Integers, SequencesExt, TLC

CONSTANTS
  Projects,     \* [order, text]: the command line, and the lines of its files
  ByName        \* every name of a file, in the order of a std::map

FileNames == {ByName[k] : k \in DOMAIN ByName}

ASSUME ByNameAssumption == ByName \in Seq(FileNames) /\ ByName # <<>>

(* A token, and as a history of it the name it was written with and where  *)
(* it comes from: the expansions of macros, innermost first, and at last   *)
(* the file, as a negative number.                                         *)
Token(cat, val) == [cat |-> cat, val |-> val, was |-> val, home |-> <<>>]

VARIABLES
  project,
  files,        \* rawProgramMap, then programMap
  stage,        \* the loop, or how it ended
  file,         \* the index in ByName of the file it is at
  pos,          \* the line
  opened,       \* macroStart of the definition it is in, or 0
  eqvs,         \* eqvMapping
  macros,       \* macroMap
  globals,      \* the names of the .globl lines, in order
  expansions    \* history: the number of macro calls expanded

cursor     == <<file, pos, opened>>
tables     == <<eqvs, macros, globals>>
postVars   == <<project, files, stage, cursor, tables, expansions>>

Name       == ByName[file]
text       == files[Name]
First(k)   == text[k].toks[1]
Rest(t, k) == SubSeq(t, k, Len(t))

IsMeta(tok, name) == tok.cat = "meta" /\ tok.val = name

NoFile == [n \in {} |-> <<>>]

(* map[key] = value *)
Stored(map, key, value) ==
  [n \in {key} \union DOMAIN map |-> IF n = key THEN value ELSE map[n]]

PostIdle ==
  /\ files = [n \in FileNames |-> <<>>]
  /\ file = 1 /\ pos = 1 /\ opened = 0
  /\ eqvs = NoFile /\ macros = NoFile /\ globals = <<>>
  /\ expansions = 0

PostInit == project \in Projects /\ stage = "read" /\ PostIdle

Refuse(why) ==
  /\ stage' = why
  /\ UNCHANGED <<project, files, cursor, tables, expansions>>

(* The loop goes to another line, or from one file to the next. *)
GoTo(k)    == pos' = k /\ UNCHANGED <<file, opened>>
SetText(t) == files' = [files EXCEPT ![Name] = t]
(* The lines put in before the old ones are counted off. *)
SpliceOverNext(k, n, t) == SubSeq(text, 1, k - 1) \o t \o Rest(text, k + n + 1)
Splice(k, n, t) == SubSeq(text, 1, k - 1) \o t \o Rest(text, k + n)

NextFile(same, next) ==
  /\ IF file < Len(ByName) THEN file' = file + 1 /\ stage' = same
                           ELSE file' = 1 /\ stage' = next
  /\ pos' = 1 /\ opened' = 0

(* A loop goes to the first of the lines it does something to. *)
FirstOf(ks, k) == k \in ks /\ \A j \in ks : k <= j
Ahead          == pos .. Len(text)

-----------------------------------------------------------------------------
(* processBaseAddressing: what ends in "4($t0)" becomes "$t0, 4".          *)

AddressFault(t) ==
  LET n == Len(t)
  IN  \/ n < 4
      \/ <<t[n - 2].cat, t[n - 1].cat, t[n].cat>> # <<"open", "reg", "close">>

BaseAddressed(t) ==
  LET n == Len(t)
  IN  IF t[n - 3].cat = "imm"
      THEN SubSeq(t, 1, n - 4) \o <<t[n - 1], t[n - 3]>>
      ELSE SubSeq(t, 1, n - 3) \o <<t[n - 1], Token("imm", 0)>>

HasBase(t) == t[1].cat = "instr" /\ \E k \in DOMAIN t : t[k].cat = "open"

Read ==
  /\ stage = "read"
  /\ LET raw == IF Name \in DOMAIN project.text THEN project.text[Name] ELSE <<>>
         based == {k \in DOMAIN raw : HasBase(raw[k])}
     IN  IF \E k \in based : AddressFault(raw[k])
         THEN Refuse("malformed address")
         ELSE /\ SetText([k \in DOMAIN raw |->
                            [file |-> Name, src |-> k,
                             toks |-> IF k \in based THEN BaseAddressed(raw[k])
                                      ELSE raw[k]]])
              /\ NextFile("read", "include")
              /\ UNCHANGED <<project, tables, expansions>>

-----------------------------------------------------------------------------
(* processIncludes: the loop goes on with the second of the lines put in.  *)

IncludeLines == {k \in Ahead : IsMeta(First(k), "include")}

Include ==
  /\ stage = "include"
  /\ \E k \in Ahead :
       /\ FirstOf(IncludeLines, k)
       /\ LET toks == text[k].toks
          IN  IF Len(toks) # 2 \/ toks[2].cat # "str"
              THEN Refuse("invalid include")
              ELSE IF toks[2].val = Name
              THEN Refuse("undefined")
              ELSE /\ SetText(Splice(k, 1, files[toks[2].val]))
                   /\ GoTo(k + 1)
                   /\ UNCHANGED <<project, stage, tables, expansions>>

IncludesDone ==
  /\ stage = "include" /\ IncludeLines = {}
  /\ NextFile("include", "eqv")
  /\ UNCHANGED <<project, files, tables, expansions>>

-----------------------------------------------------------------------------
(* replaceEqv: a name stands for its tokens from its declaration on.       *)

IsEqv(k)     == IsMeta(First(k), "eqv")
Stands(tok)  == tok.cat = "ref" /\ tok.val \in DOMAIN eqvs
EqvLines     == {k \in Ahead : \/ IsEqv(k)
                               \/ \E j \in DOMAIN text[k].toks : Stands(text[k].toks[j])}

Replaced(t) ==
  FlattenSeq([j \in DOMAIN t |-> IF Stands(t[j]) THEN eqvs[t[j].val] ELSE <<t[j]>>])

Eqv ==
  /\ stage = "eqv"
  /\ \E k \in Ahead :
       /\ FirstOf(EqvLines, k)
       /\ LET toks == text[k].toks
          IN  IF ~IsEqv(k)
              THEN /\ SetText([text EXCEPT ![k].toks = Replaced(toks)])
                   /\ GoTo(k + 1)
                   /\ UNCHANGED <<project, stage, tables, expansions>>
              ELSE IF Len(toks) < 3 \/ toks[2].cat # "ref"
              THEN Refuse("invalid eqv")
              ELSE /\ eqvs' = Stored(eqvs, toks[2].val, Rest(toks, 3))
                   /\ SetText(Splice(k, 1, <<>>))
                   /\ GoTo(k)
                   /\ UNCHANGED <<project, stage, macros, globals, expansions>>

EqvDone ==
  /\ stage = "eqv" /\ EqvLines = {}
  /\ stage' = "macro" /\ eqvs' = NoFile
  /\ GoTo(1)
  /\ UNCHANGED <<project, files, macros, globals, expansions>>

-----------------------------------------------------------------------------
(* processMacros: calls are expanded where they are, also in the body of   *)
(* a definition, which is taken out of the file when it ends.              *)

IsCall(k) == First(k).cat = "ref" /\ First(k).val \in DOMAIN macros

MacroLines ==
  {k \in Ahead : \/ IsCall(k)
                 \/ IsMeta(First(k), IF opened = 0 THEN "macro" ELSE "end_macro")}

(* parseMacroParams *)
ParamFault(t) ==
  /\ Len(t) > 2
  /\ \/ t[3].cat # "open" \/ t[Len(t)].cat # "close"
     \/ \E k \in 4 .. Len(t) - 1 : t[k].cat # "param"

Params(t) == SubSeq(t, 4, Len(t) - 1)

OpenMacro ==
  /\ stage = "macro" /\ opened = 0
  /\ \E k \in Ahead :
       /\ FirstOf(MacroLines, k) /\ ~IsCall(k)
       /\ LET toks == text[k].toks
          IN  IF Len(toks) < 2 \/ toks[2].cat # "ref" \/ ParamFault(toks)
              THEN Refuse("invalid macro")
              ELSE /\ opened' = k /\ pos' = k + 1
                   /\ UNCHANGED <<project, files, stage, file, tables, expansions>>

(* The place of the call left out. *)
MangleMacroLabelOnly(label, m, k) ==
  MangleLabel(label, m.file) \o ":" \o m.name

(* mangleMacroLabels: the labels of the body, after the place of the call. *)
MangleMacroLabel(label, m, k) ==
  MangleMacroLabelOnly(label, m, k) \o ":" \o ToString(k)

MangledBody(m, k) ==
  LET defs == {m.body[j].toks[1].val :
                 j \in {i \in DOMAIN m.body : m.body[i].toks[1].cat = "label"}}
      Mangled(tok) ==
        [tok EXCEPT !.home = Append(@, expansions + 1),
                    !.val = IF tok.cat \in {"label", "ref"} /\ tok.val \in defs
                            THEN MangleMacroLabel(@, m, k) ELSE @]
  IN  [j \in DOMAIN m.body |->
         [m.body[j] EXCEPT !.toks = [i \in DOMAIN @ |-> Mangled(@[i])]]]

ParamsOf(t) == {t[i].val : i \in {j \in DOMAIN t : t[j].cat = "param"}}

(* A parameter's tokens give way to the argument. *)
Bound(t, params, args) ==
  [i \in DOMAIN t |->
     IF t[i].cat = "param"
     THEN args[SelectInSeq(params, LAMBDA p : p.val = t[i].val)] ELSE t[i]]

(* expandMacro; a call of two tokens makes a vector of negative length.    *)
ExpandCall ==
  /\ stage = "macro"
  /\ \E k \in Ahead :
       /\ FirstOf(MacroLines, k) /\ IsCall(k)
       /\ LET toks == text[k].toks
              m    == macros[toks[1].val]
              args == SubSeq(toks, 3, Len(toks) - 1)
              body == MangledBody(m, k)
          IN  IF Len(toks) = 2 THEN Refuse("escaped")
              ELSE IF Len(args) # Len(m.params)
              THEN Refuse("number of arguments")
              ELSE IF \E j \in DOMAIN body :
                        ~(ParamsOf(body[j].toks) \subseteq ParamsOf(m.params))
              THEN Refuse("invalid parameter")
              ELSE /\ SetText(Splice(k, 1,
                        [j \in DOMAIN body |->
                           [body[j] EXCEPT !.toks = Bound(@, m.params, args)]]))
                   /\ GoTo(k + Len(body))
                   /\ expansions' = expansions + 1
                   /\ UNCHANGED <<project, stage, tables>>

CloseMacro ==
  /\ stage = "macro" /\ opened # 0
  /\ \E k \in Ahead :
       /\ FirstOf(MacroLines, k) /\ ~IsCall(k)
       /\ LET toks == text[opened].toks
              m    == [name |-> toks[2].val, params |-> Params(toks),
                       body |-> SubSeq(text, opened + 1, k - 1),
                       file |-> text[opened].file]
          IN  macros' = Stored(macros, m.name, m)
       /\ SetText(Splice(opened, k - opened + 1, <<>>))
       /\ pos' = opened /\ opened' = 0
       /\ UNCHANGED <<project, stage, file, eqvs, globals, expansions>>

MacrosDone ==
  /\ stage = "macro" /\ MacroLines = {}
  /\ IF opened # 0 THEN Refuse("unmatched macro")
     ELSE /\ macros' = NoFile
          /\ NextFile("eqv", "globals")
          /\ UNCHANGED <<project, files, eqvs, globals, expansions>>

-----------------------------------------------------------------------------
(* mangleLabels *)

IsGlobl(k)  == IsMeta(First(k), "globl")
GloblLines  == {k \in Ahead : IsGlobl(k)}

(* collectGlobals *)
CollectGlobal ==
  /\ stage = "globals"
  /\ \E k \in Ahead :
       /\ FirstOf(GloblLines, k)
       /\ LET toks == text[k].toks
          IN  IF Len(toks) # 2 \/ toks[2].cat # "ref"
              THEN Refuse("invalid global")
              ELSE /\ globals' = Append(globals, toks[2].val)
                   /\ SetText(Splice(k, 1, <<>>))
                   /\ GoTo(k)
                   /\ UNCHANGED <<project, stage, eqvs, macros, expansions>>

GlobalsDone ==
  /\ stage = "globals" /\ GloblLines = {}
  /\ NextFile("globals", "mangle")
  /\ UNCHANGED <<project, files, tables, expansions>>

GlobalNames == {globals[k] : k \in DOMAIN globals}

(* mangleLabelsInLine *)
MangledInFile(tok) ==
  IF tok.cat \in {"label", "ref"}
  THEN [tok EXCEPT !.home = Append(@, -file),
                   !.val = IF @ \in GlobalNames THEN @ ELSE MangleLabel(@, Name)]
  ELSE tok

MangleLabels ==
  /\ stage = "mangle"
  /\ SetText([k \in DOMAIN text |->
                [text[k] EXCEPT !.toks = [j \in DOMAIN @ |-> MangledInFile(@[j])]]])
  /\ NextFile("mangle", "match")
  /\ UNCHANGED <<project, tables, expansions>>

(* A declaration answers one .globl line of its name. *)
Declarations(g) ==
  {d \in UNION {{n} \X DOMAIN files[n] : n \in DOMAIN files} :
     LET tok == files[d[1]][d[2]].toks[1] IN tok.cat = "label" /\ tok.val = g}

Undeclared == {g \in GlobalNames :
                 Cardinality(Declarations(g)) <
                 Cardinality({k \in DOMAIN globals : globals[k] = g})}

MatchGlobals ==
  /\ stage = "match"
  /\ stage' = IF Undeclared = {} THEN "combined" ELSE "undeclared global"
  /\ UNCHANGED <<project, files, cursor, tables, expansions>>

PostNext ==
  \/ Read
  \/ Include \/ IncludesDone
  \/ Eqv \/ EqvDone
  \/ OpenMacro \/ ExpandCall \/ CloseMacro \/ MacrosDone
  \/ CollectGlobal \/ GlobalsDone
  \/ MangleLabels \/ MatchGlobals

PostSpec == PostInit /\ [][PostNext]_postVars

-----------------------------------------------------------------------------
(* What tokenize returns. *)

Combined == FlattenSeq([k \in DOMAIN project.order |-> files[project.order[k]]])

Argument(tok) ==
  CASE tok.cat = "reg" -> Reg(tok.val)
    [] tok.cat = "imm" -> Imm(tok.val)
    [] tok.cat = "ref" -> Ref(tok.val)
    [] tok.cat = "str" -> Str(tok.val)
    [] OTHER           -> [cat |-> "other"]

Parsed(line) ==
  LET tok == line.toks[1]
  IN  IF tok.cat \in {"instr", "alloc", "section", "label"}
      THEN LineFrom(line.file, line.src, tok.cat, tok.val,
                    [k \in 1 .. Len(line.toks) - 1 |-> Argument(line.toks[k + 1])])
      ELSE LineFrom(line.file, line.src, "other", "", <<>>)

Program == [k \in DOMAIN Combined |-> Parsed(Combined[k])]
=============================================================================
