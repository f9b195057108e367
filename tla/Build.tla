-------------------------------- MODULE Build --------------------------------
(***************************************************************************)
(* The assembler from the files of the command line to the object file and *)
(* back: tokenize, parse, saveLayout, and what loadLayout makes of it.     *)
(*                                                                         *)
(* tokenizeLine takes every line by itself, and all that follows works on  *)
(* tokens: a behaviour is that of one line of source, or that of files     *)
(* whose lines have been tokenized.                                        *)
(***************************************************************************)
EXTENDS Tokenizer, Assembler, Postprocessor, ObjectFile

(* What tokenizeLine makes of a line that has a token: integers, strings   *)
(* (here, how long they are), sections and directives are what they say.   *)
(* The string of an include is the name of a file instead.                 *)
IsToken(t)  == t = [cat |-> t.cat, val |-> t.val, was |-> t.was, home |-> t.home]
HasValue(t) ==
  /\ t.cat = "imm"     => t.val \in Int
  /\ t.cat = "str"     => t.val \in Nat
  /\ t.cat = "section" => t.val \in Sections
  /\ t.cat = "alloc"   => t.val \in Directives
IsTokenLine(t) ==
  /\ t \in Seq({t[k] : k \in DOMAIN t}) /\ t # <<>>
  /\ \A k \in DOMAIN t : IsToken(t[k])
  /\ IsMeta(t[1], "include") \/ \A k \in DOMAIN t : HasValue(t[k])
NamesFile(t) ==
  IsMeta(t[1], "include") /\ Len(t) = 2 /\ t[2].cat = "str" => t[2].val \in FileNames

ASSUME ProjectsAssumption ==
  \A p \in Projects :
    /\ p.order \in Seq(FileNames)
    /\ \A n \in DOMAIN p.text :
         /\ p.text[n] \in Seq({p.text[n][k] : k \in DOMAIN p.text[n]})
         /\ \A k \in DOMAIN p.text[n] :
              IsTokenLine(p.text[n][k]) /\ NamesFile(p.text[n][k])

(* Those a section directive can name. *)
ASSUME SectionsAssumption == Sections \subseteq MEM_SEC_DIRECTIVES

VARIABLES
  binary,       \* what saveLayout returned
  loaded,       \* what loadLayout returned
  withDebug     \* history: whether saveLayout was asked for debug information

objVars   == <<binary, loaded, withDebug>>
buildVars == <<tokVars, postVars, asmVars, objVars>>

NoProject == [order |-> <<>>, text |-> NoFile]

BuildInit ==
  /\ \/ TokIdle /\ verdict = "ok" /\ PostInit
     \/ TokInit /\ PostIdle /\ project = NoProject /\ stage = "line"
  /\ program = <<>> /\ phase = "tokens" /\ Idle
  /\ binary = <<>> /\ loaded = <<>> /\ withDebug = FALSE

TokenizeLine == TokNext /\ UNCHANGED <<postVars, asmVars, objVars>>

Tokenize == PostNext /\ UNCHANGED <<tokVars, asmVars, objVars>>

Parse ==
  /\ phase = "tokens" /\ stage = "combined"
  /\ program' = Program /\ phase' = "start"
  /\ UNCHANGED <<tokVars, postVars, passVars, mapVars, textVars, outVars, reason, objVars>>

Assemble == AsmNext /\ UNCHANGED <<tokVars, postVars, objVars>>

(* The sections of the layout: text, and those a line goes to.             *)
Present == {"text"} \union {lines[k].name : k \in {j \in DOMAIN lines :
                                                   lines[j].cat = "section"}}
LayoutData == [s \in Present |-> layout[s]]

(* The text of a line is kept for instructions only. *)
TextOf(info) ==
  IF \E k \in DOMAIN lines : /\ lines[k].cat = "alloc"
                            /\ lines[k].file = info.file /\ lines[k].src = info.src
  THEN "" ELSE "text"

LayoutInfo == [a \in DOMAIN debugInfo |->
                 [file |-> debugInfo[a].file, src |-> debugInfo[a].src,
                  text |-> TextOf(debugInfo[a]), label |-> debugInfo[a].label]]

Save ==
  /\ phase = "done" /\ binary = <<>>
  /\ withDebug' \in BOOLEAN
  /\ binary' = SaveLayout(LayoutData, LayoutInfo, withDebug')
  /\ UNCHANGED <<tokVars, postVars, asmVars, loaded>>

Load ==
  /\ binary # <<>> /\ loaded = <<>>
  /\ loaded' = LoadLayout(binary)
  /\ UNCHANGED <<tokVars, postVars, asmVars, binary, withDebug>>

BuildNext == TokenizeLine \/ Tokenize \/ Parse \/ Assemble \/ Save \/ Load

BuildSpec == BuildInit /\ [][BuildNext]_buildVars
-----------------------------------------------------------------------------
(* Labels and what refers to them, in the program that tokenize returns.   *)

Combining == stage = "combined" /\ phase = "tokens"
Lines     == Combined

DefLines   == {k \in DOMAIN Lines : Lines[k].toks[1].cat = "label"}
Def(k)     == Lines[k].toks[1]
References == UNION {{Lines[k].toks[j] :
                        j \in {i \in DOMAIN Lines[k].toks :
                                Lines[k].toks[i].cat = "ref"}} : k \in DOMAIN Lines}

(* A label of the file itself, not of a macro. *)
OfFile(tok) == Len(tok.home) = 1

(* Each scope, an expansion or a file, defines a name once, and a global   *)
(* name is defined in one file.                                            *)
SourceUnique ==
  \A j, k \in DefLines : j # k /\ Def(j).was = Def(k).was =>
    /\ Def(j).home # Def(k).home
    /\ Def(j).was \in GlobalNames => ~(OfFile(Def(j)) /\ OfFile(Def(k)))

(* What a reference means: the definition of the innermost scope around it *)
(* that has one, or else that of a global.                                 *)
Around(ref)  == {k \in DefLines : /\ Def(k).was = ref.was
                                  /\ IsSuffix(Def(k).home, ref.home)}
Denoted(ref) ==
  LET inner == {k \in Around(ref) :
                  \A j \in Around(ref) : Len(Def(j).home) <= Len(Def(k).home)}
  IN  IF inner # {} THEN inner
      ELSE {k \in DefLines : /\ Def(k).was = ref.was /\ OfFile(Def(k))
                             /\ ref.was \in GlobalNames}

(* The names the post-processor makes keep the scopes of the source apart: *)
(* however macros are nested, called and redefined, and in whatever file   *)
(* their text ends up, a name in the program is defined once and a         *)
(* reference has the name of the definition it means.                      *)
ScopesRespected ==
  Combining /\ SourceUnique =>
    /\ \A j, k \in DefLines : Def(j).val = Def(k).val => j = k
    /\ \A ref \in References :
         {k \in DefLines : Def(k).val = ref.val} = Denoted(ref)

(* How often the text of a file is part of the program: once if it is on   *)
(* the command line, and once for every time a file is that includes it.   *)
RawText(f)  == IF f \in DOMAIN project.text THEN project.text[f] ELSE <<>>
Includes(g, f) == {k \in DOMAIN RawText(g) :
                     /\ IsMeta(RawText(g)[k][1], "include")
                     /\ RawText(g)[k][2].val = f}

Copies(f) ==
  LET reached[n \in 0 .. Len(ByName), g \in FileNames] ==
        IF n = 0
        THEN Cardinality({k \in DOMAIN project.order : project.order[k] = g})
        ELSE MapThenSumSet(LAMBDA h : Cardinality(Includes(h, g)) * reached[n - 1, h],
                           FileNames)
  IN  MapThenSumSet(LAMBDA n : reached[n, f], 0 .. Len(ByName))

InDefinition(f, k) ==
  \E j \in 1 .. k - 1 :
    /\ IsMeta(RawText(f)[j][1], "macro")
    /\ \A i \in j .. k : ~IsMeta(RawText(f)[i][1], "end_macro")

PlainLines(f) ==
  {k \in DOMAIN RawText(f) : /\ ~InDefinition(f, k)
                             /\ RawText(f)[k][1].cat \in {"instr", "alloc", "section",
                                                          "label"}}

(* A definition of a macro is in one file with its end, and includes       *)
(* nothing, which each call would do again; and no .eqv stands for a       *)
(* directive that begins or ends one.                                      *)
MacrosClosed ==
  \A f \in FileNames : \A k \in DOMAIN RawText(f) :
    /\ InDefinition(f, k) =>
         /\ ~IsMeta(RawText(f)[k][1], "include")
         /\ \E j \in DOMAIN RawText(f) : j > k /\ IsMeta(RawText(f)[j][1], "end_macro")
    /\ IsMeta(RawText(f)[k][1], "macro") => k # Len(RawText(f))
    /\ \A j \in 2 .. Len(RawText(f)[k]) : RawText(f)[k][j].cat # "meta"

(* Every line outside macros is in the program exactly as often as the     *)
(* text of its file, whatever is inserted, erased and replaced around it.  *)
(* A program in which an include is left is not one: parse refuses it.     *)
AllTextKept ==
  /\ Combining /\ MacrosClosed
  /\ \A k \in DOMAIN Lines : ~IsMeta(Lines[k].toks[1], "include")
  => \A f \in FileNames : \A k \in PlainLines(f) :
       Cardinality({j \in DOMAIN Lines : Lines[j].file = f /\ Lines[j].src = k})
         = Copies(f)

(* The offsets, sizes, addresses and line numbers of a file are words.     *)
FileFits ==
  /\ Len(binary) < WordMod
  /\ \A a \in DOMAIN debugInfo : a \in Word /\ debugInfo[a].src \in Word

(* What mdb and msim load is what was assembled: the sections that are     *)
(* there, empty ones too, byte for byte, and the debug information if it   *)
(* was asked for.                                                          *)
LoadsWhatWasSaved ==
  loaded # <<>> /\ FileFits =>
                   /\ loaded.data = LayoutData
                   /\ loaded.info = IF withDebug THEN LayoutInfo ELSE <<>>

(* A first file with a local main starts there, wherever its text has it,  *)
(* if the program begins with a line of its own.                           *)
MainRunsFirst ==
  LET main == MangleLabel("main", project.order[1])
  IN  /\ phase = "done" /\ main \in DOMAIN labels
      /\ program[1].file = project.order[1] /\ labels[main] % 4 = 0
      => StartsAt(labels[main])

(* What the README says of a main that is global. *)
GlobalMainRunsFirst ==
  phase = "done" /\ "main" \in DOMAIN labels
    => StartsAt(labels["main"])
=============================================================================
