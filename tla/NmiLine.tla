------------------------------ MODULE NmiLine ------------------------------
(***************************************************************************)
(* The NMI request of NesMemory (nes_memory.rs): the VBL flag of $2002,    *)
(* its enable in $2000, the line they drive and the request the CPU takes. *)
(* The operators take and return a record with (at least) these fields.    *)
(***************************************************************************)
EXTENDS Naturals

(* low_for: total_ppu_dots - nmi_low_start_dot, of which only the values   *)
(* up to 1 are told apart.                                                 *)
NmiLineState ==
  [vbl : BOOLEAN, enable : BOOLEAN, line_low : BOOLEAN, low_for : 0..2,
   delay : 0..1, requested : BOOLEAN, cancel_requested : BOOLEAN]

NmiLineInit ==
  [vbl |-> FALSE, enable |-> FALSE, line_low |-> FALSE, low_for |-> 2,
   delay |-> 0, requested |-> FALSE, cancel_requested |-> FALSE]

(* One more dot, counted to 2. *)
OneMore(n) == IF n < 2 THEN n + 1 ELSE 2

(* total_ppu_dots counts a dot. *)
CountDot(n) == [n EXCEPT !.low_for = OneMore(@)]

(* The line falls: the request is immediate, or delayed when it falls on   *)
(* the last of the cycle's three dots.                                     *)
LineFalls(n, last_dot) ==
  [n EXCEPT !.line_low = TRUE, !.low_for = 0,
            !.delay = IF last_dot THEN 1 ELSE 0, !.requested = ~last_dot]

(* The line rises: a fall of at most one dot ago is cancelled. *)
LineRises(n) ==
  IF n.low_for > 1 THEN [n EXCEPT !.line_low = FALSE]
  ELSE [n EXCEPT !.line_low = FALSE, !.delay = 0, !.requested = FALSE,
                 !.cancel_requested = TRUE]

(* What update_nmi_line leaves after VBL or its enable changed. *)
UpdateNmiLine(n, last_dot) ==
  LET low == n.vbl /\ n.enable
  IN CASE low /\ ~n.line_low -> LineFalls(n, last_dot)
       [] ~low /\ n.line_low -> LineRises(n)
       [] OTHER -> n

SetVbl(n, v, last_dot) == UpdateNmiLine([n EXCEPT !.vbl = v], last_dot)

(* A read of $2002: it clears VBL, and on the dot that sets VBL or the     *)
(* next one (early) it cancels the request.                                *)
StatusRead(n, early) ==
  SetVbl([n EXCEPT !.requested = @ /\ ~early,
                   !.cancel_requested = @ \/ early], FALSE, TRUE)

ControlWrite(n, e) == UpdateNmiLine([n EXCEPT !.enable = e], TRUE)

(* check_cancel_nmi and check_nmi, as one tick of the CPU calls them. *)
NmiTaken(n) == n.delay = 0 /\ n.requested
AfterChecks(n) ==
  [n EXCEPT !.cancel_requested = FALSE,
            !.requested = n.delay > 0,
            !.delay = 0]
=============================================================================
