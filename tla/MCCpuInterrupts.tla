-------------------------- MODULE MCCpuInterrupts --------------------------
(* The CPU's interrupts with an observer: whether an IRQ was up with the I *)
(* flag clear at some tick of the instruction under way.                   *)
EXTENDS CpuInterrupts

VARIABLE unmasked

MCvars == <<vars, unmasked>>

MCInit == Init /\ unmasked = FALSE

(* The interrupt the CPU has as its poll finds it. *)
IrqUnmasked == LET c == Started("implied") IN c.pending_interrupt = "irq" /\ ~c.i

Observe ==
  IF phase = "cpu" /\ (cpu' # cpu \/ phase' = "cpu")
  THEN unmasked' = (IrqUnmasked \/ (unmasked /\ ~cpu.finished))
  ELSE UNCHANGED unmasked

MCSpec == MCInit /\ [][Next /\ Observe]_MCvars /\ Fairness

(* A masked interrupt is never serviced: when an IRQ sequence begins, the  *)
(* line was up with the I flag clear at some cycle of the instruction that *)
(* ended, though the line and the flag may both have changed since.        *)
MaskedIrqNotServiced == [][Begins("irq") => unmasked]_MCvars
=============================================================================
