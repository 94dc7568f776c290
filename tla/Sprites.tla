------------------------------ MODULE Sprites ------------------------------
(***************************************************************************)
(* The sprites of a line (Ppu2::tick, ppu2.rs): secondary OAM is cleared,  *)
(* the first Slots sprites in range of the line are copied to it, those    *)
(* are fetched into latches for the next line, and the emulator adds the   *)
(* sprites beyond them that the hardware drops.  Rendering may be turned   *)
(* off and on before any dot, the CPU may write OAMADDR and OAMDATA, and a *)
(* sprite transfer moves the beam on without running its dots.             *)
(*                                                                         *)
(* The code's values are Sprites = 64, Slots = 8, Width = 341, PostRender  *)
(* = 240, PreRender = 261, LastClear = 64, LastEval = 256, Span = 8 and    *)
(* Lines = 256.                                                            *)
(* The dot the last line of an odd frame skips is PpuBeam's.               *)
(***************************************************************************)
EXTENDS Integers, Sequences, FiniteSets

CONSTANTS
  Sprites,      \* sprites in OAM, four bytes each
  Slots,        \* sprites secondary OAM has room for
  Width,        \* dots of a line
  PostRender,   \* the first line that is not visible
  PreRender,    \* the last line
  LastClear,    \* the last dot of a line that clears secondary OAM
  LastEval,     \* the last dot of a line that evaluates sprites
  Span,         \* the dots the fetch of a slot takes
  Lines,        \* line numbers a sprite's position is compared with
  Oams,         \* the contents OAM may have
  Heights,      \* the heights sprites may have
  Addresses,    \* what may be written to OAMADDR
  Disturbances  \* how often the CPU interferes

Byte == 0 .. 255
Address == 0 .. 4 * Sprites - 1
Full == 4 * Slots
Blank == 255

(* Clearing reaches all of secondary OAM, and what it leaves there is on   *)
(* no visible line.                                                        *)
ASSUME SpritesAssumption ==
  /\ Sprites \in Nat /\ Slots \in Nat \ {0} /\ Sprites > Slots
  /\ Width \in Nat /\ PostRender \in Nat /\ PreRender \in Nat
  /\ LastClear \in Nat /\ LastEval \in Nat /\ Span \in Nat /\ Span >= 5
  /\ LastClear % 2 = 0 /\ Full <= LastClear /\ LastClear < LastEval
  /\ LastEval + Slots * Span + 2 < Width
  /\ 0 < PostRender /\ PostRender < PreRender /\ PostRender <= Blank
  /\ Lines \in Nat /\ PostRender <= Lines
  /\ Oams \subseteq [Address -> Byte]
  /\ Heights \subseteq Nat \ {0}
  /\ Addresses \subseteq Address
  /\ Disturbances \in Nat

(* The steps an evaluation may need: one to pass each sprite, three more   *)
(* to copy it, and three for the one too many.  The code has 96 for 91.    *)
ASSUME EnoughDots == (LastEval - LastClear) \div 2 >= Sprites + 3 * Slots + 3

VARIABLES
  line, dot,               \* the dot that runs next
  rendering,               \* whether the background or the sprites are on
  oam, height,
  eval,                    \* the evaluation: see EvalState
  render_has_sprite_zero,  \* whether slot 0 is fetched as sprite zero
  sprite_latches,
  passing,                 \* a sprite transfer moves the beam
  disturbed                \* how often the CPU has interfered

vars == <<line, dot, rendering, oam, height, eval, render_has_sprite_zero, sprite_latches,
          passing, disturbed>>

EvalState ==
  [oam_address : Address, oam_buffer : Byte,
   oam2 : [0 .. Full - 1 -> Byte], source : [0 .. Slots - 1 -> Address],
   index : 0 .. Full, clear_index : 0 .. Full, byte : 0 .. 3,
   finished : BOOLEAN, overflow_count : 0 .. 3,
   has_sprite_zero : BOOLEAN, overflow : BOOLEAN]

(* What a latch was fetched from, and whether its sprite is on the line:   *)
(* the others draw nothing.                                                *)
Latch == [source : Address \union {Blank}, is_sprite_0 : BOOLEAN, shown : BOOLEAN]

TypeOK ==
  /\ line \in 0 .. PreRender /\ dot \in 0 .. Width - 1
  /\ rendering \in BOOLEAN
  /\ oam \in [Address -> Byte] /\ height \in Nat
  /\ eval \in EvalState
  /\ render_has_sprite_zero \in BOOLEAN
  /\ sprite_latches \in Seq(Latch) /\ Len(sprite_latches) <= Sprites
  /\ passing \in BOOLEAN /\ disturbed \in 0 .. Disturbances

Init ==
  /\ line = 0 /\ dot = 0 /\ rendering \in BOOLEAN
  /\ oam \in Oams /\ height \in Heights
  /\ eval = [oam_address |-> 0, oam_buffer |-> 0,
             oam2 |-> [k \in 0 .. Full - 1 |-> 0], source |-> [k \in 0 .. Slots - 1 |-> 0],
             index |-> 0, clear_index |-> 0, byte |-> 0,
             finished |-> FALSE, overflow_count |-> 0,
             has_sprite_zero |-> FALSE, overflow |-> FALSE]
  /\ render_has_sprite_zero = FALSE
  /\ sprite_latches = <<>>
  /\ passing = FALSE /\ disturbed = 0

-----------------------------------------------------------------------------
(* Evaluation: one step every two dots.                                    *)

Plus(address, n) == (address + n) % (4 * Sprites)
Aligned(address) == 4 * (address \div 4)
NextSprite(address) == Aligned(Plus(address, 4))
IsLast(address) == address \div 4 = Sprites - 1

(* The line before the first counts as another one.                        *)
InRange(y) == y <= line % Lines /\ line % Lines < y + height

(* The byte a sprite's copy has come to; a sprite out of range leaves its  *)
(* first byte to be overwritten by the next one's.                         *)
Copied(e) == [e EXCEPT !.oam2[e.index] = e.oam_buffer]

(* Mutant: a sprite found in the second step counts as sprite zero too.    *)
FoundLate(e) ==
  [Copied(e) EXCEPT !.source[e.index \div 4] = e.oam_address,
                    !.has_sprite_zero = @ \/ dot <= LastClear + 4,
                    !.index = @ + 1, !.oam_address = Plus(@, 1), !.byte = 1]

Found(e) ==
  [Copied(e) EXCEPT !.source[e.index \div 4] = e.oam_address,
                    !.has_sprite_zero = @ \/ dot = LastClear + 2,
                    !.index = @ + 1, !.oam_address = Plus(@, 1), !.byte = 1]

(* Mutant: the last sprite does not end the search when it is out of range. *)
NotFoundOnward(e) == [Copied(e) EXCEPT !.oam_address = NextSprite(@)]

NotFound(e) ==
  [Copied(e) EXCEPT !.oam_address = NextSprite(@), !.finished = IsLast(e.oam_address)]

CopyByte(e) ==
  [Copied(e) EXCEPT !.index = @ + 1, !.oam_address = Plus(@, 1), !.byte = @ + 1]

CopyLastByte(e) ==
  [Copied(e) EXCEPT !.index = @ + 1, !.oam_address = Plus(@, 1), !.byte = 0,
                    !.finished = IsLast(e.oam_address)]

(* Secondary OAM is full: the search for one sprite more goes on from byte *)
(* to byte, as the hardware's does.                                        *)
Overflowing(e) ==
  CASE e.overflow_count > 1 ->
         [e EXCEPT !.overflow_count = @ - 1, !.oam_address = Plus(@, 1)]
    [] e.overflow_count = 1 ->
         [e EXCEPT !.overflow_count = 0, !.finished = TRUE,
                   !.oam_address = Aligned(IF @ % 4 = 3 THEN Plus(@, 1) ELSE @)]
    [] e.overflow_count = 0 /\ InRange(e.oam_buffer) ->
         [e EXCEPT !.overflow = TRUE, !.overflow_count = 3, !.oam_address = Plus(@, 1)]
    [] OTHER ->
         [e EXCEPT !.oam_address = Plus(Aligned(@), 4 + ((@ + 1) % 4)),
                   !.finished = IsLast(e.oam_address)]

EvalStep(e) ==
  CASE e.finished ->
         [e EXCEPT !.oam_buffer = e.oam2[e.index % Full], !.oam_address = NextSprite(@)]
    [] ~e.finished /\ e.index = Full ->
         [Overflowing(e) EXCEPT !.oam_buffer = e.oam2[0]]
    [] ~e.finished /\ e.index < Full /\ e.byte = 0 /\ InRange(e.oam_buffer) -> Found(e)
    [] ~e.finished /\ e.index < Full /\ e.byte = 0 /\ ~InRange(e.oam_buffer) -> NotFound(e)
    [] ~e.finished /\ e.index < Full /\ e.byte \in {1, 2} -> CopyByte(e)
    [] ~e.finished /\ e.index < Full /\ e.byte = 3 -> CopyLastByte(e)

(* The attribute byte has no bits 2 to 4.                                  *)
ReadOam(address) == IF address % 4 = 2 THEN oam[address] - 4 * ((oam[address] \div 4) % 8)
                                       ELSE oam[address]

Restarted(e) ==
  [e EXCEPT !.index = 0, !.byte = 0, !.finished = FALSE, !.overflow_count = 0]

-----------------------------------------------------------------------------
(* One dot.                                                                *)

Visible == line < PostRender
Rendered == Visible \/ line = PreRender
LastFetch == LastEval + Slots * Span

(* The beam goes on, and the indices of a line start again with it.        *)
Advance ==
  /\ ~passing
  /\ dot' = (dot + 1) % Width
  /\ line' = IF dot = Width - 1 THEN (line + 1) % (PreRender + 1) ELSE line
  /\ UNCHANGED <<rendering, oam, height, passing, disturbed>>

AtLineStart(e) == [e EXCEPT !.index = 0, !.clear_index = 0]

(* On the last dot of a frame the beam already is on the first.            *)
LineStart ==
  /\ dot = 0 \/ (line = PreRender /\ dot = Width - 1)
  /\ eval' = IF rendering /\ (Visible \/ dot # 0)
             THEN [AtLineStart(eval) EXCEPT !.oam_buffer = eval.oam2[0]]
             ELSE AtLineStart(eval)
  /\ Advance
  /\ UNCHANGED <<render_has_sprite_zero, sprite_latches>>

Cleared(e) ==
  IF e.clear_index < Full
  THEN [e EXCEPT !.oam_buffer = Blank, !.oam2[e.clear_index] = Blank, !.clear_index = @ + 1]
  ELSE [e EXCEPT !.oam_buffer = Blank]

(* CLEAR_FLAGS falls in the first dot of the line before the first.        *)
Clear ==
  /\ dot \in 1 .. LastClear
  /\ eval' = CASE rendering /\ Visible -> Cleared(eval)
               [] line = PreRender /\ dot = 1 -> [eval EXCEPT !.overflow = FALSE]
               [] OTHER -> eval
  /\ Advance
  /\ UNCHANGED <<render_has_sprite_zero, sprite_latches>>

(* The evaluation starts with a line that is rendered when it is due; one  *)
(* that is not goes on with what the line before left.                     *)
Evaluate ==
  /\ dot \in LastClear + 1 .. LastEval
  /\ LET starts == rendering /\ Rendered /\ dot = LastClear + 1
         e == IF starts THEN [eval EXCEPT !.has_sprite_zero = FALSE] ELSE eval
         f == IF starts THEN Restarted(e) ELSE e
     IN eval' = CASE ~(rendering /\ Visible) -> e
                  [] rendering /\ Visible /\ dot % 2 = 1 ->
                       [f EXCEPT !.oam_buffer = ReadOam(f.oam_address)]
                  [] OTHER -> EvalStep(f)
  /\ Advance
  /\ UNCHANGED <<render_has_sprite_zero, sprite_latches>>

-----------------------------------------------------------------------------
(* The fetch of the latches.                                               *)

Slot == (dot - LastEval - 5) \div Span
FetchesSlot == dot >= LastEval + 5 /\ (dot - LastEval - 5) % Span = 0 /\ Slot < Slots

Unused == [source |-> Blank, is_sprite_0 |-> FALSE, shown |-> FALSE]

(* The latches of the slots; those the line before had beyond them go.     *)
OfSlots ==
  [k \in 1 .. Slots |-> IF k <= Len(sprite_latches) THEN sprite_latches[k] ELSE Unused]

Fetched(slot) ==
  [source |-> eval.source[slot],
   is_sprite_0 |-> slot = 0 /\ render_has_sprite_zero,
   shown |-> InRange(eval.oam2[4 * slot])]

(* Mutant: the sprites beyond are those whose numbers are.                 *)
BeyondSlots ==
  LET extras == {n \in Slots .. Sprites - 1 : InRange(oam[4 * n])}
      Nth(k) == CHOOSE n \in extras : Cardinality({o \in extras : o <= n}) = k
  IN [k \in 1 .. Cardinality(extras) |->
        [source |-> 4 * Nth(k), is_sprite_0 |-> FALSE, shown |-> TRUE]]

(* The sprites after the last slot's that are on the line as well.         *)
Beyond ==
  LET first == (eval.source[Slots - 1] \div 4) + 1
      extras == {n \in first .. Sprites - 1 : InRange(oam[4 * n])}
      Nth(k) == CHOOSE n \in extras : Cardinality({o \in extras : o <= n}) = k
  IN [k \in 1 .. Cardinality(extras) |->
        [source |-> 4 * Nth(k), is_sprite_0 |-> FALSE, shown |-> TRUE]]

(* Mutant: the sprites beyond are added without a limit.                   *)
WithoutLimit(slot) ==
  LET kept == IF slot = 0 \/ Len(sprite_latches) < Slots THEN OfSlots ELSE sprite_latches
      ofSlots == SubSeq([kept EXCEPT ![slot + 1] = Fetched(slot)], 1, Slots)
  IN IF slot = Slots - 1 /\ Visible /\ eval.index = Full THEN ofSlots \o Beyond ELSE ofSlots

WithSlot(slot) ==
  LET kept == IF slot = 0 \/ Len(sprite_latches) < Slots THEN OfSlots ELSE sprite_latches
      fetched == [kept EXCEPT ![slot + 1] = Fetched(slot)]
      ofSlots == SubSeq(fetched, 1, Slots)
  IN IF slot < Slots - 1 THEN fetched
     ELSE IF Visible /\ eval.index = Full
     THEN SubSeq(ofSlots \o Beyond, 1, IF Slots + Len(Beyond) < Sprites
                                       THEN Slots + Len(Beyond) ELSE Sprites)
     ELSE ofSlots

Fetch ==
  /\ dot \in LastEval + 1 .. LastFetch
  /\ LET sub == (dot - LastEval - 1) % Span
         slot == (dot - LastEval - 1) \div Span
     IN eval' = CASE rendering /\ Visible ->
                       [eval EXCEPT !.oam_address = 0,
                                    !.oam_buffer = eval.oam2[4 * slot + (IF sub > 3 THEN 3 ELSE sub)]]
                  [] rendering /\ ~Visible /\ Rendered -> [eval EXCEPT !.oam_address = 0]
                  [] OTHER -> eval
  /\ render_has_sprite_zero' =
       IF dot = LastEval + 4 /\ rendering /\ Rendered THEN eval.has_sprite_zero
                                                      ELSE render_has_sprite_zero
  /\ sprite_latches' =
       IF FetchesSlot /\ rendering /\ Rendered THEN WithSlot(Slot) ELSE sprite_latches
  /\ Advance

Prefetch ==
  /\ dot \in LastFetch + 1 .. Width - 1
  /\ ~(line = PreRender /\ dot = Width - 1)
  /\ eval' = IF rendering /\ Visible THEN [eval EXCEPT !.oam_buffer = eval.oam2[0]] ELSE eval
  /\ Advance
  /\ UNCHANGED <<render_has_sprite_zero, sprite_latches>>

-----------------------------------------------------------------------------
(* What the CPU does between two dots.                                     *)

Disturb == ~passing /\ disturbed < Disturbances /\ disturbed' = disturbed + 1

(* The delayed effect of a write of $2001.  Turning rendering on again is  *)
(* not counted.                                                            *)
Toggle ==
  /\ IF rendering THEN Disturb ELSE ~passing /\ UNCHANGED disturbed
  /\ rendering' = ~rendering
  /\ UNCHANGED <<line, dot, oam, height, eval, render_has_sprite_zero, sprite_latches, passing>>

(* A write of $2003.                                                       *)
WriteOamAddress ==
  /\ Disturb
  /\ \E address \in Addresses : eval' = [eval EXCEPT !.oam_address = address]
  /\ UNCHANGED <<line, dot, rendering, oam, height, render_has_sprite_zero, sprite_latches,
                 passing>>

(* The line the CPU finds is that of the dot before its access.            *)
LineSeen == IF dot = 0 /\ line > 0 THEN line - 1 ELSE line

(* A write of $2004, which while rendering only moves the address.         *)
WriteOamData ==
  /\ Disturb
  /\ IF rendering /\ (LineSeen < PostRender \/ LineSeen = PreRender)
     THEN eval' = [eval EXCEPT !.oam_address = NextSprite(@)] /\ UNCHANGED oam
     ELSE /\ \E value \in {0, Blank} : oam' = [oam EXCEPT ![eval.oam_address] = value]
          /\ eval' = [eval EXCEPT !.oam_address = Plus(@, 1)]
  /\ UNCHANGED <<line, dot, rendering, height, render_has_sprite_zero, sprite_latches, passing>>

(* A transfer fills OAM and then moves the beam on.                        *)
Transfer ==
  /\ Disturb
  /\ oam' \in Oams /\ passing' = TRUE
  /\ UNCHANGED <<line, dot, rendering, height, eval, render_has_sprite_zero, sprite_latches>>

(* update_beam, once or for the last time.                                 *)
UpdateBeam ==
  /\ passing
  /\ dot' = (dot + 1) % Width
  /\ line' = IF dot = Width - 1 THEN (line + 1) % (PreRender + 1) ELSE line
  /\ eval' = IF dot = Width - 1 THEN AtLineStart(eval) ELSE eval
  /\ passing' \in BOOLEAN
  /\ UNCHANGED <<rendering, oam, height, render_has_sprite_zero, sprite_latches, disturbed>>

Next ==
  \/ LineStart \/ Clear \/ Evaluate \/ Fetch \/ Prefetch
  \/ Toggle \/ WriteOamAddress \/ WriteOamData \/ Transfer \/ UpdateBeam

Spec == Init /\ [][Next]_vars
=============================================================================
