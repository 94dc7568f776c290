---------------------------- MODULE SampleStream ----------------------------
(***************************************************************************)
(* What the delta modulation channel promises the programmer: a sample of  *)
(* `remaining` bytes is delivered one byte at a time to a one-byte buffer  *)
(* that the output unit empties; no byte is overwritten before it is       *)
(* taken, none is delivered after the sample has ended or been stopped,    *)
(* and only a restart, or the last byte of a sample that starts over,      *)
(* makes bytes available again.                                            *)
(***************************************************************************)
EXTENDS Naturals

CONSTANT Lengths

VARIABLES remaining, full

stream == <<remaining, full>>

StreamInit == remaining = 0 /\ full = FALSE

(* The sample starts over from its first byte. *)
Restart ==
  /\ remaining = 0
  /\ remaining' \in Lengths
  /\ UNCHANGED full

(* A byte reaches the empty buffer; the last one may start the sample over. *)
Deliver ==
  /\ remaining > 0
  /\ ~full
  /\ full' = TRUE
  /\ \/ remaining' = remaining - 1
     \/ remaining = 1 /\ remaining' \in Lengths

(* The output unit takes the byte; a stop may take effect on that cycle. *)
Take ==
  /\ full
  /\ full' = FALSE
  /\ remaining' \in {remaining, 0}

Stop ==
  /\ remaining' = 0
  /\ UNCHANGED full

StreamNext == Restart \/ Deliver \/ Take \/ Stop

StreamSpec == StreamInit /\ [][StreamNext]_stream
=============================================================================
