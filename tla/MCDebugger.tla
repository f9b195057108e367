----------------------------- MODULE MCDebugger -----------------------------
(***************************************************************************)
(* A program for Debugger, on a machine of 64 addresses: user text from 4, *)
(* data from 28, nothing in kernel text from 32.                           *)
(***************************************************************************)
EXTENDS Debugger, TLC

CONSTANT a                           \* a character

MCText    == 4
MCTextEnd == 28
MCKText   == 32
MCBreaks  == {8, 12}
MCStream  == <<>>

Op(name)       == [op |-> name]
To(name, dest) == [op |-> name, to |-> dest]

(* A loop that calls a procedure and may end in every way: exit, a fault   *)
(* or an interrupt that nothing handles, pc invalid or misaligned.         *)
Calls ==
  4  :> {To("jal", 12)} @@
  8  :> {To("jump", 4), Op("exit"), [op |-> "fault", cause |-> "load"],
         To("jump", 0), To("jump", 6)} @@
  12 :> {[op |-> "mtc0_status", ie |-> TRUE, kbd |-> TRUE, dsp |-> FALSE]} @@
  16 :> {Op("jr_ra")}
=============================================================================
