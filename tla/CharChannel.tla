---------------------------- MODULE CharChannel ----------------------------
(***************************************************************************)
(* What the memory-mapped keyboard promises: a lossless channel with room  *)
(* for one character.  The device takes a character only when everything   *)
(* taken so far has been read, and the program reads each of them once, in *)
(* order.                                                                  *)
(***************************************************************************)
EXTENDS Sequences, Naturals

VARIABLES
  taken,        \* the characters the device has taken from its source
  read          \* the characters the program has read from the device

channel == <<taken, read>>

ChannelInit == taken = <<>> /\ read = <<>>

OneMore(s, t) == t # <<>> /\ t = Append(s, t[Len(t)])

Take ==
  /\ taken = read
  /\ OneMore(taken, taken')
  /\ UNCHANGED read

Read ==
  /\ Len(read) < Len(taken)
  /\ read' = taken
  /\ UNCHANGED taken

TakeAndRead ==          \* the program reads what the device takes, at once
  /\ taken = read
  /\ OneMore(taken, taken')
  /\ read' = taken'

ChannelNext == Take \/ Read \/ TakeAndRead

ChannelSpec == ChannelInit /\ [][ChannelNext]_channel
=============================================================================
