----------------------------- MODULE NmiSource -----------------------------
(***************************************************************************)
(* What the PPU and the CPU may do to the NMI request, whatever the beam   *)
(* does: the PPU sets or clears VBL on some dot, and the CPU reads $2002,  *)
(* writes $2000 or takes the request.  CpuInterrupts runs the CPU against  *)
(* this source; PpuBeam shows that the beam is one.                        *)
(***************************************************************************)
EXTENDS NmiLine

VARIABLE nmi  \* the request, and since: the dots since the PPU last came by the
              \* dot that sets VBL, counted to 2

NmiTypeOK == nmi \in [since : 0..2, vbl : BOOLEAN, enable : BOOLEAN,
                      line_low : BOOLEAN, low_for : 0..2, delay : 0..1,
                      requested : BOOLEAN, cancel_requested : BOOLEAN]

Source(line, since) ==
  [vbl |-> line.vbl, enable |-> line.enable, line_low |-> line.line_low,
   low_for |-> line.low_for, delay |-> line.delay, requested |-> line.requested,
   cancel_requested |-> line.cancel_requested, since |-> since]

NmiInit == nmi = Source(NmiLineInit, 2)

VblEvents == {"none", "set", "suppressed", "clear"}

(* One dot of the PPU; last is whether it is the third of the CPU's cycle. *)
SourceDot(n, event, last) ==
  LET counted == [CountDot(n) EXCEPT !.since = OneMore(@)]
      passed == [counted EXCEPT !.since = 0]
  IN CASE event = "none" -> counted
       [] event = "set" -> SetVbl(passed, TRUE, last)
       [] event = "suppressed" -> passed
       [] event = "clear" -> SetVbl(counted, FALSE, last)

(* The three dots of a cycle, with at most one event, on dot d. *)
SourceCycle(n, event, d) ==
  LET at(k) == IF k = d THEN event ELSE "none"
  IN SourceDot(SourceDot(SourceDot(n, at(1), FALSE), at(2), FALSE), at(3), TRUE)

ReadStatus(n) == StatusRead(n, n.since <= 1)

(* A sprite transfer moves the beam on to s dots past the one that sets    *)
(* VBL, without running any.                                               *)
Passed(n, s) == [n EXCEPT !.since = s]

NmiNext ==
  \/ \E event \in VblEvents, last \in BOOLEAN : nmi' = SourceDot(nmi, event, last)
  \/ nmi' = AfterChecks(nmi)
  \/ \E n \in {nmi, AfterChecks(nmi)} : nmi' = ReadStatus(n)
  \/ \E e \in BOOLEAN : nmi' = ControlWrite(AfterChecks(nmi), e)
  \/ \E n \in {nmi, ReadStatus(nmi)}, s \in 0..2 : nmi' = Passed(n, s)

NmiSpec == NmiInit /\ [][NmiNext]_nmi
=============================================================================
