----------------------------- MODULE MCPpuBeam -----------------------------
(* The beam with two observers of the sprite transfers: whether one moved  *)
(* the beam over the dot that clears VBL, and whether the copy of one read *)
(* $2002 on the dot before VBL.                                            *)
EXTENDS PpuBeam

VARIABLES clear_passed, copied

MCvars == <<vars, clear_passed, copied>>

MCInit == Init /\ clear_passed = FALSE /\ copied = FALSE

Observe ==
  /\ clear_passed' = ( \/ UpdateBeam /\ ClearEvent
                       \/ clear_passed /\ ~(Dot /\ (ClearEvent \/ VblEvent)) )
  /\ copied' = ( \/ SpriteDma /\ vblank_suppressed'
                 \/ copied /\ ~(Dot /\ VblEvent) )

MCSpec == MCInit /\ [][Next /\ Observe]_MCvars

(* VBL is set in vertical blank only, however frames are shortened, unless *)
(* a transfer moved the beam over the dot that clears it.                  *)
VblWithinBlank ==
  LET At(l, d) == l * Width + d  \* the beam's order
  IN nmi.vbl => \/ At(line, dot) \in At(VblLine, 2) .. At(PreRender, 1)
                \/ clear_passed

(* A read that suppresses VBL suppresses the one that the next dot would   *)
(* have set and none after it, unless it was the copy of a transfer, which *)
(* moves the beam on past that dot.                                        *)
SuppressionIsFresh ==
  vblank_suppressed => (VblEvent /\ turn = 0) \/ copied
=============================================================================
