----------------------------- MODULE ObjectFile -----------------------------
(***************************************************************************)
(* saveLayout and loadLayout of serialization.cpp.  A file is a sequence   *)
(* of bytes: four of magic, five offsets, and for each section that is     *)
(* there its size, its bytes and what fills the word up; at last the debug *)
(* information, whose strings end with a zero byte.  The bytes of a        *)
(* section are the cells of the Assembler module, a string is one byte and *)
(* the zero.                                                               *)
(***************************************************************************)
EXTENDS MachineWord, SequencesExt, FiniteSets

MagicSize == 4
SectionOrder == <<"text", "data", "ktext", "kdata">>
HeaderSize == MagicSize + 4 * (Len(SectionOrder) + 1)

(* insertOffset and extractOffset; i32ToBEByte and BEByteToi32. *)
LEBytes(v) ==
  LET w == v \div ByteMod
      x == w \div ByteMod
      y == x \div ByteMod
  IN  <<v % ByteMod, w % ByteMod, x % ByteMod, y % ByteMod>>
BEBytes(v) == Reverse(LEBytes(v))
OfBytes(a, b, c, d) == a + ByteMod * (b + ByteMod * (c + ByteMod * d))
LEValue(f, i) == OfBytes(f[i], f[i + 1], f[i + 2], f[i + 3])
BEValue(f, i) == OfBytes(f[i + 3], f[i + 2], f[i + 1], f[i])

(* padBinary *)
Padded(f) == f \o [k \in 1 .. (4 - (Len(f) % 4)) % 4 |-> 0]

(* stringToBytes and bytesToString: the zero byte is the empty string.     *)
Chars(s)      == IF s = "" THEN <<"">> ELSE <<s, "">>
CharsAt(f, i) == f[i]

(* A block of the file: the offset of its size goes to the header.         *)
BlockAdded(f, header, bytes) ==
  LET at == LEBytes(Len(f))
  IN  Padded([k \in DOMAIN f |-> IF k - header \in 1 .. 4 THEN at[k - header]
                                 ELSE f[k]]
             \o LEBytes(Len(bytes)) \o bytes)

(* No block where there is nothing to write. *)
AddBlockUnlessEmpty(f, header, bytes) ==
  IF bytes = <<>> THEN f ELSE BlockAdded(f, header, bytes)

AddBlock(f, header, bytes) == BlockAdded(f, header, bytes)

HeaderOf(k) == MagicSize + 4 * (k - 1)

BlockAt(f, header) ==
  LET at == LEValue(f, header + 1)
  IN  SubSeq(f, at + 5, at + 4 + LEValue(f, at + 1))
HasBlock(f, header) == LEValue(f, header + 1) > 0

-----------------------------------------------------------------------------
(* serializeDebugInfo and deSerializeDebugInfo *)

(* The addresses in the order of a std::map. *)
NthAddress(info, n) ==
  CHOOSE a \in DOMAIN info : Cardinality({b \in DOMAIN info : b < a}) = n - 1

DebugBytes(info) ==
  FlattenSeq([n \in 1 .. Cardinality(DOMAIN info) |->
    LET a == NthAddress(info, n)
    IN  BEBytes(a) \o Chars(info[a].file) \o BEBytes(info[a].src)
        \o Chars(info[a].text) \o Chars(info[a].label)])

EndOfChars(f, i) == i + Len(Chars(CharsAt(f, i)))

(* A turn of the loop that reads: byteIdx and the map. *)
ReadInfo(f, r) ==
  LET src   == EndOfChars(f, r.at + 4)
      label == EndOfChars(f, src + 4)
      addr  == BEValue(f, r.at)
      entry == [file |-> CharsAt(f, r.at + 4), src |-> BEValue(f, src),
                text |-> CharsAt(f, src + 4), label |-> CharsAt(f, label)]
  IN  [at   |-> EndOfChars(f, label),
       info |-> [a \in {addr} \union DOMAIN r.info |->
                   IF a = addr THEN entry ELSE r.info[a]]]

DebugInfoOf(f) ==
  LET turn[n \in 0 .. Len(f)] ==
        IF n = 0 THEN [at |-> 1, info |-> <<>>]
        ELSE LET r == turn[n - 1]
             IN  IF r.at > Len(f) THEN r ELSE ReadInfo(f, r)
  IN  turn[Len(f)].info

-----------------------------------------------------------------------------
(* data has the sections that are there, info the debug information. *)
EmptyFile == <<"M", "A", "S", "M">> \o [k \in 1 .. HeaderSize - MagicSize |-> 0]

WithSection(f, k, data) ==
  IF SectionOrder[k] \in DOMAIN data
  THEN AddBlock(f, HeaderOf(k), data[SectionOrder[k]]) ELSE f

SaveLayout(data, info, debug) ==
  LET f1 == WithSection(EmptyFile, 1, data)
      f2 == WithSection(f1, 2, data)
      f3 == WithSection(f2, 3, data)
      f4 == WithSection(f3, 4, data)
  IN  IF debug /\ DOMAIN info # {} THEN AddBlock(f4, HeaderOf(5), DebugBytes(info)) ELSE f4

LoadLayout(f) ==
  LET found == {k \in DOMAIN SectionOrder : HasBlock(f, HeaderOf(k))}
      Nr(s) == CHOOSE k \in DOMAIN SectionOrder : SectionOrder[k] = s
  IN  [data |-> [s \in {SectionOrder[k] : k \in found} |->
                   BlockAt(f, HeaderOf(Nr(s)))],
       info |-> IF HasBlock(f, HeaderOf(5))
                THEN DebugInfoOf(BlockAt(f, HeaderOf(5))) ELSE <<>>]
=============================================================================
