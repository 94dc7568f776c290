------------------------------ MODULE PpuBeam ------------------------------
(***************************************************************************)
(* The beam of the PPU (Ppu2::tick and update_beam, ppu2.rs), the VBL flag *)
(* it drives, the delayed rendering bits of $2001 (ppu_mask.rs) and the    *)
(* corruption of OAM that turning them off seeds, run by tick_one: three   *)
(* dots, then one cycle of the CPU, which may access a register.  A sprite *)
(* transfer moves the beam on without running its dots.                    *)
(*                                                                         *)
(* The frame's geometry is a parameter; the code's is Width = 341,         *)
(* PostRender = 240, PreRender = 261, LastClear = 64 and LastEval = 256.       *)
(***************************************************************************)
EXTENDS NmiLine

CONSTANTS
  Width,       \* dots of a line
  PostRender,  \* the first line that is not visible
  PreRender,   \* the last line
  LastClear,   \* the last dot of a line that clears secondary OAM
  LastEval,    \* the last dot of a line that evaluates sprites
  Transfers    \* the dots a sprite transfer may take

ASSUME PpuBeamAssumption ==
  /\ Width \in Nat /\ PostRender \in Nat /\ PreRender \in Nat
  /\ LastClear \in Nat /\ LastEval \in Nat
  /\ LastClear < LastEval /\ LastEval <= Width - 4
  /\ PostRender > 0 /\ PreRender > PostRender + 1
  /\ Transfers \subseteq Nat \ {0}

BgDelay == 3      \* BG_RENDER_DELAY
SpriteDelay == 4  \* SPRITE_RENDER_DELAY

VblLine == PostRender + 1
Rendered(line) == line < PostRender \/ line = PreRender

VARIABLES
  line, dot,         \* event_index: the next dot
  scanline, x,       \* where registers see the beam
  is_odd_frame,
  vblank_suppressed,
  mask,              \* the rendering bits in effect and their delayed changes
  written,           \* those of memory[0x2001], the last write
  corruption,        \* pending_oam_corruption_row.is_some()
  armed,             \* oam_corruption_armed
  nmi,               \* the NMI line and request
  scheduled,         \* oam_dma.is_some()
  passing,           \* dots the transfer under way still moves the beam on
  turn               \* dots of this cycle that have run; 3: the CPU's turn

beamVars == <<line, dot, scanline, x, is_odd_frame>>
vars == <<beamVars, vblank_suppressed, mask, written, corruption, armed, nmi,
          scheduled, passing, turn>>

(* A pending change is to the opposite of the bit in effect; 0 is none. *)
MaskState == [bg : BOOLEAN, sprite : BOOLEAN,
              bg_pending : 0..BgDelay, sprite_pending : 0..SpriteDelay]

Bits == [bg : BOOLEAN, sprite : BOOLEAN]
Both(b) == [bg |-> b, sprite |-> b]

TypeOK ==
  /\ line \in 0..PreRender /\ dot \in 0 .. Width - 1
  /\ scanline \in 0..PreRender /\ x \in 0 .. Width - 1
  /\ is_odd_frame \in BOOLEAN /\ vblank_suppressed \in BOOLEAN
  /\ mask \in MaskState /\ written \in Bits
  /\ corruption \in BOOLEAN /\ armed \in BOOLEAN
  /\ nmi \in NmiLineState
  /\ scheduled \in BOOLEAN /\ passing \in Nat /\ turn \in 0..3

Init ==
  /\ line = 0 /\ dot = 0 /\ scanline = 0 /\ x = 0
  /\ is_odd_frame = FALSE /\ vblank_suppressed = FALSE
  /\ mask = [bg |-> FALSE, sprite |-> FALSE, bg_pending |-> 0, sprite_pending |-> 0]
  /\ written = Both(FALSE)
  /\ corruption = FALSE /\ armed = FALSE
  /\ nmi = NmiLineInit
  /\ scheduled = FALSE /\ passing = 0 /\ turn = 0

-----------------------------------------------------------------------------
(* PpuMask.                                                                *)

Rendering(m) == m.bg \/ m.sprite

(* PpuMask::tick: a change takes effect when its delay reaches 0. *)
MaskTick(m) ==
  [bg |-> IF m.bg_pending = 1 THEN ~m.bg ELSE m.bg,
   bg_pending |-> IF m.bg_pending = 0 THEN 0 ELSE m.bg_pending - 1,
   sprite |-> IF m.sprite_pending = 1 THEN ~m.sprite ELSE m.sprite,
   sprite_pending |-> IF m.sprite_pending = 0 THEN 0 ELSE m.sprite_pending - 1]

(* Mutation: a write of the bits in effect leaves a pending change alone. *)
FromWriteKeepingPending(m, bits) ==
  [m EXCEPT !.bg_pending = IF bits.bg # m.bg THEN BgDelay ELSE @,
            !.sprite_pending = IF bits.sprite = m.sprite THEN @
                               ELSE IF bits.sprite THEN SpriteDelay ELSE BgDelay]

(* PpuMask::from_write. *)
FromWrite(m, bits) ==
  [m EXCEPT !.bg_pending = IF bits.bg # m.bg THEN BgDelay ELSE 0,
            !.sprite_pending = IF bits.sprite = m.sprite THEN 0
                               ELSE IF bits.sprite THEN SpriteDelay ELSE BgDelay]

-----------------------------------------------------------------------------
(* The beam.                                                               *)

(* The last dot but one of an odd frame that is rendered ends it. *)
Skips(l, d, odd, rendering) ==
  l = PreRender /\ d = Width - 2 /\ odd /\ rendering

(* One dot further; a frame that ends changes its parity. *)
Advance(rendering) ==
  LET skips == Skips(line, dot, is_odd_frame, rendering)
      wraps == line = PreRender /\ dot = Width - 1
  IN /\ dot' = IF skips \/ dot = Width - 1 THEN 0 ELSE dot + 1
     /\ line' = CASE skips \/ wraps -> 0
                  [] ~skips /\ ~wraps /\ dot = Width - 1 -> line + 1
                  [] OTHER -> line
     /\ is_odd_frame' = (is_odd_frame # (skips \/ wraps))

(* Where the registers see the beam once tick has run a dot: on that dot,  *)
(* except that the last one of a frame already is the first of the next.   *)
Seen(rendering) ==
  IF Skips(line, dot, is_odd_frame, rendering) \/ (line = PreRender /\ dot = Width - 1)
  THEN scanline' = 0 /\ x' = 0
  ELSE scanline' = line /\ x' = dot

(* SET_VBLANK_FLAG and CLEAR_FLAGS. *)
VblEvent == line = VblLine /\ dot = 1

(* Mutation: VBL is cleared a dot late. *)
ClearsOnNextDot == line = PreRender /\ dot = 2

ClearEvent == line = PreRender /\ dot = 1

(* Mutation: a suppression outlives the VBL it suppressed. *)
FlagsStaySuppressed ==
  LET n == CountDot(nmi)
  IN /\ nmi' = CASE VblEvent /\ ~vblank_suppressed -> SetVbl(n, TRUE, turn = 2)
                 [] ClearEvent -> SetVbl(n, FALSE, turn = 2)
                 [] OTHER -> n
     /\ UNCHANGED vblank_suppressed

Flags ==
  LET n == CountDot(nmi)
  IN /\ nmi' = CASE VblEvent /\ ~vblank_suppressed -> SetVbl(n, TRUE, turn = 2)
                 [] ClearEvent -> SetVbl(n, FALSE, turn = 2)
                 [] OTHER -> n
     /\ vblank_suppressed' = (vblank_suppressed /\ ~VblEvent)

(* A seeded corruption is armed once rendering is off and happens on the   *)
(* first dot that renders after it.                                        *)
Corrupt(rendering) ==
  LET arms == armed \/ (corruption /\ ~rendering)
      fires == rendering /\ arms /\ Rendered(line)
  IN armed' = (arms /\ ~fires) /\ corruption' = (corruption /\ ~fires)

(* Ppu2::tick. *)
Dot ==
  /\ turn < 3
  /\ mask' = MaskTick(mask)
  /\ Seen(Rendering(mask'))
  /\ Advance(Rendering(mask'))
  /\ Corrupt(Rendering(mask'))
  /\ Flags
  /\ turn' = turn + 1
  /\ UNCHANGED <<written, scheduled, passing>>

-----------------------------------------------------------------------------
(* The CPU's cycle.                                                        *)

CpuTurn == turn = 3 /\ passing = 0 /\ turn' = 0 /\ passing' = 0

(* Mutation: the window in which a read cancels the NMI is a dot longer. *)
LateReadEarly == scanline = VblLine /\ x \in {1, 2, 3}

(* A read of $2002: on the dot before VBL it suppresses the flag, on the   *)
(* two dots from VBL on it cancels the NMI.                                *)
ReadsEarly == scanline = VblLine /\ x \in {1, 2}
Suppresses == scanline = VblLine /\ x = 0

ReadStatus(n) ==
  /\ nmi' = StatusRead(n, ReadsEarly)
  /\ vblank_suppressed' = (vblank_suppressed \/ Suppresses)

(* A cycle without an access that matters here: it may be the write cycle  *)
(* that keeps a scheduled transfer waiting.  again: a tick that does not   *)
(* count as a cycle.                                                       *)
CpuTick ==
  \/ /\ CpuTurn
     /\ nmi' = AfterChecks(nmi)
     /\ UNCHANGED <<beamVars, vblank_suppressed, mask, written, corruption,
                    armed, scheduled>>
  \/ /\ turn = 3 /\ passing = 0 /\ ~scheduled
     /\ nmi' = AfterChecks(nmi)
     /\ UNCHANGED <<beamVars, vblank_suppressed, mask, written, corruption,
                    armed, scheduled, turn, passing>>

CpuReadsStatus ==
  /\ CpuTurn /\ ~scheduled
  /\ ReadStatus(AfterChecks(nmi))
  /\ UNCHANGED <<beamVars, mask, written, corruption, armed, scheduled>>

CpuWritesControl ==
  /\ CpuTurn /\ ~scheduled
  /\ \E e \in BOOLEAN : nmi' = ControlWrite(AfterChecks(nmi), e)
  /\ UNCHANGED <<beamVars, vblank_suppressed, mask, written, corruption,
                 armed, scheduled>>

(* Mutation: turning rendering off seeds a corruption on any line. *)
SeedsOnAnyLine(second) ==
  x \in 1..LastClear \/ (second /\ x \in LastClear + 1 .. LastEval)

(* Where turning rendering off corrupts: on a line that is rendered, while *)
(* secondary OAM is cleared, or while it is evaluated and its first sprite *)
(* has been found (second).                                                *)
Seeds(second) ==
  /\ Rendered(scanline)
  /\ x \in 1..LastClear \/ (second /\ x \in LastClear + 1 .. LastEval)

(* A write of $2001. *)
CpuWritesMask ==
  /\ CpuTurn /\ ~scheduled
  /\ \E bits \in Bits, second \in BOOLEAN :
       /\ corruption' = (corruption \/ ( /\ Rendering(mask) /\ bits = Both(FALSE)
                                         /\ Seeds(second) ))
       /\ mask' = FromWrite(mask, bits)
       /\ written' = bits
  /\ nmi' = AfterChecks(nmi)
  /\ UNCHANGED <<beamVars, vblank_suppressed, armed, scheduled>>

(* A write of $4014. *)
CpuWritesSpriteDma ==
  /\ CpuTurn
  /\ scheduled' = TRUE /\ corruption' = FALSE /\ armed' = FALSE
  /\ nmi' = AfterChecks(nmi)
  /\ UNCHANGED <<beamVars, vblank_suppressed, mask, written>>

(* A cycle of a DMA of the delta modulation channel, which may repeat the  *)
(* CPU's read of $2002.                                                    *)
Stall ==
  /\ CpuTurn /\ ~scheduled
  /\ \/ ReadStatus(nmi)
     \/ UNCHANGED <<nmi, vblank_suppressed>>
  /\ UNCHANGED <<beamVars, mask, written, corruption, armed, scheduled>>

(* run_oam_dma_with_dmc, as far as the PPU goes: it copies the page, which *)
(* may be one that holds $2002, and then moves the beam on.                *)
SpriteDma ==
  /\ turn = 3 /\ passing = 0 /\ scheduled
  /\ \/ ReadStatus(nmi)
     \/ UNCHANGED <<nmi, vblank_suppressed>>
  /\ passing' \in Transfers
  /\ scheduled' = FALSE
  /\ corruption' = FALSE
  /\ UNCHANGED <<beamVars, mask, written, armed, turn>>

(* update_beam: a dot that has no other effect than to move the beam. *)
UpdateBeam ==
  /\ passing > 0
  /\ Advance(mask.bg /\ mask.sprite)
  /\ scanline' = line' /\ x' = dot'
  /\ passing' = passing - 1
  /\ turn' = IF passing = 1 THEN 0 ELSE turn
  /\ UNCHANGED <<vblank_suppressed, mask, written, corruption, armed, nmi,
                 scheduled>>

Next ==
  \/ Dot \/ CpuTick \/ CpuReadsStatus \/ CpuWritesControl
  \/ CpuWritesMask \/ CpuWritesSpriteDma \/ Stall \/ SpriteDma
  \/ UpdateBeam

Spec == Init /\ [][Next]_vars

-----------------------------------------------------------------------------
(* The rendering bits in effect are those last written, or a change to     *)
(* them is pending: no sequence of writes within the delays loses one.     *)
MaskFollowsWrite ==
  /\ mask.bg_pending = 0 <=> mask.bg = written.bg
  /\ mask.sprite_pending = 0 <=> mask.sprite = written.sprite

(* A corruption is armed on the very dot on which rendering goes off, and  *)
(* on a line that is rendered: a seed never outlives the write it comes    *)
(* from to be armed by a later one, which may fall in vertical blank.      *)
ArmedByTurningOff ==
  [][~armed /\ armed' =>
       Rendering(mask) /\ ~Rendering(mask') /\ Rendered(line)]_vars

(* The dots since the beam came by VBL, or by which a transfer has put it  *)
(* past that dot.                                                          *)
Since == IF line = VblLine /\ dot \in {2, 3} THEN dot - 2 ELSE 2

SourceLine == INSTANCE NmiSource WITH nmi <-
  [vbl |-> nmi.vbl, enable |-> nmi.enable, line_low |-> nmi.line_low,
   low_for |-> nmi.low_for, delay |-> nmi.delay, requested |-> nmi.requested,
   cancel_requested |-> nmi.cancel_requested, since |-> Since]

(* The beam, its frames of two lengths and the transfers that move it on   *)
(* give the CPU the NMI source that CpuInterrupts runs against.            *)
ImplementsSource == SourceLine!NmiSpec
=============================================================================
