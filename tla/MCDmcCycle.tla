----------------------------- MODULE MCDmcCycle -----------------------------
(* The channel against the CPU, with an observer that counts the cycles in *)
(* a row for which the CPU has been kept off the bus.                      *)
EXTENDS DmcCycle

VARIABLE stalled

MCvars == <<vars, stalled>>

MCInit == Init /\ stalled = 0

Stalls == phase = "dma" /\ phase' = "apu"

MCNext ==
  /\ Next
  /\ stalled' = CASE Stalls -> stalled + 1
                  [] phase = "cpu" -> 0
                  [] OTHER -> stalled

MCSpec == MCInit /\ [][MCNext]_MCvars /\ Fairness

(* A transfer keeps the CPU off the bus for at most four cycles, and the   *)
(* CPU runs between two of them, even when a fetch lands on the boundary   *)
(* at which the output unit asks for the next byte (reload_suppress).      *)
StallBounded == stalled <= 4
=============================================================================
