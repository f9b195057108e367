------------------------------- MODULE Arena -------------------------------
(***************************************************************************)
(* What a heap promises the program that asks it for memory, without       *)
(* saying how the addresses are found: each granted block lies inside the  *)
(* arena Lo .. Hi-1 and shares no address with a block granted before.     *)
(* There is no operation that gives a block back.                          *)
(***************************************************************************)
EXTENDS Integers

CONSTANTS Lo, Hi      \* the arena is the interval Lo .. Hi-1

VARIABLE granted      \* the set of blocks [addr, size] granted so far

Disjoint(b, c) == b.addr + b.size <= c.addr \/ c.addr + c.size <= b.addr

Inside(b) == Lo <= b.addr /\ b.size > 0 /\ b.addr + b.size <= Hi

ArenaInit == granted = {}

Grant(b) ==
  /\ Inside(b)
  /\ \A c \in granted : Disjoint(b, c)
  /\ granted' = granted \union {b}

ArenaNext == \E b \in granted' : Grant(b)

ArenaSpec == ArenaInit /\ [][ArenaNext]_granted
=============================================================================
