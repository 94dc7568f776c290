------------------------------ MODULE MCSprites ------------------------------
(* Lines of three sprites with room for two in secondary OAM, at every      *)
(* mixture of sprites on the lines and not, and with rendering, the         *)
(* address and the beam disturbed at every dot.                             *)
EXTENDS Sprites

VARIABLES
  steady,    \* history: the line has been rendered from its start, undisturbed, from sprite 0
  began      \* history: the address this line's first evaluation step began at, if it has, or Blank

MCvars == <<vars, steady, began>>

MCInit == Init /\ steady = FALSE /\ began = Blank

Observe ==
  /\ steady' = CASE dot' = dot \/ passing -> FALSE
                 [] dot = 0 /\ dot' # dot /\ ~passing ->
                      rendering /\ Visible /\ eval.oam_address = 0
                 [] OTHER -> steady
  /\ began' = CASE dot' = 0 \/ (dot = LastClear + 2 /\ dot' = dot) -> Blank
                [] dot = LastClear + 1 /\ dot' # dot /\ ~passing /\ rendering /\ Visible ->
                     eval.oam_address
                [] OTHER -> began

MCNext == Next /\ Observe

MCSpec == MCInit /\ [][MCNext]_MCvars

-----------------------------------------------------------------------------
(* The instance: a sprite is on the first line, on the second, or on none,  *)
(* and its other bytes look like such a position or not.                    *)

OamOf(y, other) == [a \in 0 .. 11 |-> IF a % 4 = 0 THEN y[(a \div 4) + 1] ELSE other]
MCOams == { OamOf(<<0, 0, 1>>, Blank), OamOf(<<1, 0, 0>>, 0), OamOf(<<1, 1, 1>>, 0) }

-----------------------------------------------------------------------------
(* Properties                                                               *)

(* No index leaves its array, whatever is disturbed and when: the code      *)
(* would panic.                                                             *)
IndicesInBounds ==
  /\ eval.index \in 0 .. Full /\ eval.byte \in 0 .. 3
  /\ eval.index < Full => eval.index \div 4 < Slots
  /\ Len(sprite_latches) <= Sprites

OnLine == {n \in 0 .. Sprites - 1 : InRange(oam[4 * n])}

(* The dots of a line are enough to look at every sprite, whatever is       *)
(* copied and however the search for one too many goes.                     *)
EvaluationEnds == steady /\ dot > LastEval => eval.finished

(* An undisturbed line is followed by one that shows every sprite on it     *)
(* once and in order, those of the slots and those beyond, and none but     *)
(* sprite zero as sprite zero.                                              *)
EverySpriteShown ==
  steady /\ dot > LastFetch =>
    LET shown == {k \in DOMAIN sprite_latches : sprite_latches[k].shown}
        number(k) == sprite_latches[k].source \div 4
    IN /\ {number(k) : k \in shown} = OnLine
       /\ \A j, k \in shown : j < k => number(j) < number(k)
       /\ \A k \in shown : sprite_latches[k].is_sprite_0 <=> sprite_latches[k].source = 0

(* Whatever address it begins at, the evaluation takes its first sprite for *)
(* sprite zero, or none.                                                    *)
SpriteZeroIsFirst ==
  began # Blank /\ dot > LastClear + 2 /\ eval.has_sprite_zero => eval.source[0] = began
=============================================================================
