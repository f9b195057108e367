-------------------------------- MODULE Tokens --------------------------------
(***************************************************************************)
(* The tokens of a source line, as the tokenizer, the post-processor, the  *)
(* parser and the tables of instructions pass them on (tokenizer.hpp).     *)
(***************************************************************************)
EXTENDS Sequences

(* Tokens: a register, an integer, a reference to a label, a string of n   *)
(* characters.                                                             *)
Reg(r) == [cat |-> "reg", reg |-> r]
Imm(v) == [cat |-> "imm", imm |-> v]
Ref(l) == [cat |-> "ref", ref |-> l]
Str(n) == [cat |-> "str", len |-> n]

Categories(args) == [k \in DOMAIN args |-> args[k].cat]
RefsOf(args)     == {args[k].ref : k \in {j \in DOMAIN args :
                                            args[j].cat = "ref"}}

(* A line on its way to the parser: its first token, its arguments, where  *)
(* it was written, its number in the program (0 for the line parse adds),  *)
(* and which instruction of an expanded line it is.                        *)
LineFrom(file, src, cat, name, args) ==
  [cat |-> cat, name |-> name, args |-> args, file |-> file, src |-> src,
   no |-> 0, part |-> 1]

Line(cat, name, args) == LineFrom("<internal>", 0, cat, name, args)

(* mangleLabel: the name of a label of one file. *)
MangleLabel(label, file) == label \o "@" \o file
=============================================================================
