---------------------------- MODULE MCSimulator ----------------------------
(***************************************************************************)
(* Programs for Simulator, most on a machine of 64 addresses: user text    *)
(* from 4, data from 28, kernel text from 32.                              *)
(***************************************************************************)
EXTENDS Simulator, TLC

CONSTANTS a, b                       \* characters

MCChars     == {a, b}
MCText      == 4
MCTextEnd   == 28
MCKText     == 32

Op(name)         == [op |-> name]
To(name, target) == [op |-> name, to |-> target]
Enable           == [op |-> "mtc0_status", ie |-> TRUE, kbd |-> TRUE, dsp |-> TRUE]
KeyboardOnly     == [op |-> "mtc0_status", ie |-> TRUE, kbd |-> TRUE, dsp |-> FALSE]
Fail(c)          == [op |-> "fault", cause |-> c]

(* Any program of two user words, a data word and two handler words that   *)
(* is made of these instructions.                                          *)
MCStream == <<a>>

AnyDeviceOp == {Op("lw_input_ready"), Op("lw_input_data"), Op("sw_output_data")}

AnyMmio ==
  4  :> AnyDeviceOp \union {Enable, KeyboardOnly} @@
  8  :> {To("jump", 4), To("jump", 32), Op("sw_output_data"), Op("print_char")} @@
  28 :> {Op("alu")} @@
  32 :> AnyDeviceOp \union {Op("mfc0_epc"), Fail("load"), To("jump", 4)} @@
  36 :> {Op("eret"), Op("sw_output_data"), Op("mtc0_epc")} @@
  40 :> {Op("eret"), To("jump", 36)}

(* User code that faults, reads and prints with syscalls and may leave its *)
(* text, under a handler that steps over the instruction that faulted.     *)
SkipHandler ==
  32 :> {Op("mfc0_epc")} @@ 36 :> {Op("addi_k")} @@ 40 :> {Op("mtc0_epc")} @@
  44 :> {Op("eret")}

Faulty ==
  4  :> {Op("read_char"), Fail("overflow"), Op("alu"), Op("sw_read_only")} @@
  8  :> {Op("print_char"), Fail("load"), Op("exit")} @@
  12 :> {Op("read_char"), To("beqz", 8), To("jump", 6), To("jal", 4)} @@
  16 :> {To("jump", 4), To("jump", 28), To("jump", 52), Fail("syscall"),
         Op("jr_ra")} @@
  28 :> {Op("alu")} @@
  SkipHandler

(* The two ways a program of the examples echoes its input, behind a first *)
(* word that starts either: mmio.asm polls, waiting for a character and    *)
(* then for the display; echointer.asm enables interrupts and loops, and   *)
(* its handler echoes.                                                     *)
Echoes ==
  4  :> {Enable, To("jump", 16)} @@
  8  :> {Op("alu")} @@ 12 :> {To("jump", 8)} @@
  16 :> {Op("lw_input_ready")}  @@ 20 :> {To("beqz", 16)} @@
  24 :> {Op("lw_input_data")}   @@
  28 :> {Op("lw_output_ready")} @@ 32 :> {To("beqz", 28)} @@
  36 :> {Op("sw_output_data")}  @@
  40 :> {To("jump", 16)} @@
  64 :> {Op("lw_input_ready")}  @@ 68 :> {To("beqz", 88)} @@
  72 :> {Op("lw_input_data")}   @@
  76 :> {Op("lw_output_ready")} @@ 80 :> {To("beqz", 88)} @@
  84 :> {Op("sw_output_data")}  @@
  88 :> {Op("eret")}

MCTwoChars == <<a, b>>
MCPadded   == <<NUL, NUL, a, b, NUL, b>>   \* the padding of the echo test
MCTextEnd2 == 60
MCKText2   == 64
=============================================================================
