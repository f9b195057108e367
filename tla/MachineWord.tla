----------------------------- MODULE MachineWord -----------------------------
(***************************************************************************)
(* The integers the assembler and the CPU share: a byte has B bits (8 in   *)
(* the code), a word four bytes.  A word is kept unsigned; Signed reads it *)
(* as an int32_t.  Values of n bytes go to memory in the order of          *)
(* conversion.cpp and come back in that of memory.cpp.                     *)
(***************************************************************************)
EXTENDS Integers

CONSTANTS
  B,            \* the bits of a byte
  LittleEndian  \* useLittleEndian

ASSUME ByteAssumption   == B \in Nat /\ B > 1
ASSUME EndianAssumption == LittleEndian \in BOOLEAN

W       == 4 * B         \* bits of a word
H       == 2 * B         \* bits of a half and of an immediate
JBits   == W - 6         \* bits of a jump's field

ByteMod == 2 ^ B
HalfMod == 2 ^ H
WordMod == 2 ^ W
Word    == 0 .. WordMod - 1

Wrap(v) == v % WordMod

(* The low n bits of v as a two's complement number. *)
SignedBits(v, n) ==
  LET u == v % 2 ^ n IN IF u >= 2 ^ (n - 1) THEN u - 2 ^ n ELSE u

Signed(v)    == SignedBits(v, W)
FitsInt(v)   == -(WordMod \div 2) <= v /\ v < WordMod \div 2

UpperHalf(v) == Wrap(v) \div HalfMod
LowerHalf(v) == v % HalfMod

(* The rank, from the least significant, of the k-th byte in memory of n. *)
Rank(n, k) == IF LittleEndian THEN k ELSE n - 1 - k

ByteOf(v, n, k) == (v \div 2 ^ (B * Rank(n, k))) % ByteMod
=============================================================================
