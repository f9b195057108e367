----------------------------- MODULE MCSyscalls -----------------------------
(***************************************************************************)
(* Instances of Syscalls for TLC: a 6-bit machine whose heap starts at 16  *)
(* and whose stack starts at 28, just below the sign bit at 32; a buffer   *)
(* of two bytes, and the keys a reader or the console tells apart.         *)
(***************************************************************************)
EXTENDS Syscalls

MCModulus   == 64
MCHeapBase  == 16
MCStackTop  == 28
MCSizes     == {0, 1, 4, 7}
MCStackPtrs == {22, 28}

MCKeys      == {"a", "1", "NL", "DEL", "ESC"}
MCOutputs   == {<<"x">>, <<"x", "NL">>}
=============================================================================
