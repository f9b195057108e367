------------------------------- MODULE MCBuild -------------------------------
(***************************************************************************)
(* Lines of source of a few characters and words, and two kinds of         *)
(* projects.  One file with every program of a few lines out of a small    *)
(* set: labels, data of every alignment, expanded and plain instructions,  *)
(* section changes.  And a file made of pieces that define and call        *)
(* macros, name, export, include and refer, with a library.                *)
(***************************************************************************)
EXTENDS Build

CONSTANTS
  Length,  \* bound: the most lines of a program
  Pieces   \* bound: the most pieces of a file

MCChars  == {"a", "add", "data", "eqv", "1", " ", ",", ":", "(", "\"", "\\", "#",
             ".", "$"}

MCOffset == [text |-> 8, data |-> 272, ktext |-> 2048]
MCByName == <<"1", "2", "3">>

R(r) == Token("reg", r)
N(v) == Token("imm", v)
L(l) == Token("ref", l)
S(s) == Token("str", s)
P(p) == Token("param", p)
Open  == Token("open", "(")
Close == Token("close", ")")

Label(l)      == <<Token("label", l)>>
I(name, args) == <<Token("instr", name)>> \o args
D(name, args) == <<Token("alloc", name)>> \o args
Sec(name)     == <<Token("section", name)>>
M(name, args) == <<Token("meta", name)>> \o args

MCLines == {
  Label("A"), Label("main"),
  D("byte", <<N(3)>>), D("word", <<L("A"), N(7)>>),
  D("align", <<N(2)>>), D("asciiz", <<S(2)>>), D("ascii", <<S(0)>>),
  Sec("data"), Sec("ktext"),
  I("lw", <<R("t0"), L("A")>>), I("mul", <<R("t0"), R("t1"), R("t2")>>),
  I("beqz", <<R("t0"), L("A")>>), I("j", <<L("main")>>),
  I("move", <<R("fp"), R("sp")>>),
  I("add", <<R("t0"), R("t1"), R("t2")>>),
  <<L("ad")>>}

OneFile(prog) == [order |-> <<"1">>, text |-> ("1" :> prog)]

OneFiles == {OneFile(prog) : prog \in UNION {[1 .. n -> MCLines] : n \in 1 .. Length}}

(* m jumps to its own L and to its argument, n calls m with its own L. *)
DefM == << M("macro", <<L("m"), Open, P("a"), Close>>), Label("L"),
           I("j", <<L("L")>>), I("j", <<P("a")>>), M("end_macro", <<>>) >>
DefN == << M("macro", <<L("n")>>), Label("L"),
           <<L("m"), Open, L("L"), Close>>, I("j", <<L("K")>>),
           M("end_macro", <<>>) >>
CallM == << <<L("m"), Open, L("L"), Close>> >>
CallN == << <<L("n")>> >>

Export    == << M("globl", <<L("L")>>) >>
Equate    == << M("eqv", <<L("K"), L("L")>>) >>
Include2  == << M("include", <<S("2")>>) >>
Jumps     == << I("j", <<L("K")>>) >>
LoadBase  == << I("lw", <<R("t0"), N(4), Open, R("t1"), Close>>) >>

MCPieces == {DefM, DefN, CallM, CallN, Export, Equate, Include2, Jumps,
             << Label("L") >>, << Label("K"), I("nop", <<>>) >>}

Libraries == {
  DefM \o << Label("K"), I("nop", <<>>) >>,
  << M("include", <<S("3")>>), Label("L"), I("nop", <<>>) >>,
  LoadBase \o << M("include", <<S("3")>>), M("globl", <<L("L")>>), Label("L"),
                 I("j", <<L("L")>>) >>}

Texts == {FlattenSeq(<<DefM>> \o ps) :
            ps \in UNION {[1 .. n -> MCPieces] : n \in 0 .. Pieces}}

(* File 3 is never there. *)
TwoFiles ==
  {OneFile(t) : t \in Texts} \union
  {[order |-> o, text |-> ("1" :> t @@ "2" :> lib)] :
     o \in {<<"1", "2">>, <<"2", "1">>}, lib \in Libraries, t \in Texts}

(* The label that parse defines itself, defined once more. *)
StartTwice == OneFile(<<M("globl", <<L("_start")>>), Label("_start"),
                        I("jr", <<R("ra")>>)>>)

MCProjects == OneFiles \union TwoFiles \union {StartTwice}

(* A first file whose main is global. *)
MCGlobal ==
  {OneFile(g \o <<I("add", <<R("t0"), R("t1"), R("t2")>>), Label("main"),
                  I("jr", <<R("ra")>>)>>) :
     g \in {<<>>, <<M("globl", <<L("main")>>)>>}}
=============================================================================
