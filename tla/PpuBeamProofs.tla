--------------------------- MODULE PpuBeamProofs ---------------------------
(***************************************************************************)
(* Proofs about the beam, for every geometry of the frame: the types, that *)
(* the rendering bits follow the writes, that a corruption is only armed   *)
(* by the disable that seeded it, and that the beam is an NMI source.      *)
(***************************************************************************)
EXTENDS MCPpuBeam, TLAPS

(* On the CPU's turn registers see the beam on the dot before the next     *)
(* one, the ends of lines apart.                                           *)
BeamSeen ==
  turn > 0 /\ passing = 0 =>
    /\ x \in 1 .. Width - 2 => line = scanline /\ dot = x + 1
    /\ dot >= 2 => line = scanline /\ x = dot - 1
    /\ x = 0 /\ scanline > 0 => line = scanline /\ dot = 1

(* A transfer is under way on the CPU's turn only, with nothing seeded.    *)
TransferAlone ==
  /\ passing > 0 => turn = 3 /\ ~scheduled
  /\ passing > 0 \/ scheduled => ~corruption /\ ~armed

(* A seed that is not armed yet belongs to a write of this very cycle, and *)
(* the disable takes effect on its third dot, before the line's end.       *)
SeedAwaitsDisable ==
  corruption /\ ~armed =>
    /\ turn < 3
    /\ ~written.bg /\ ~written.sprite
    /\ mask.bg \/ mask.sprite
    /\ mask.bg => mask.bg_pending = 3 - turn
    /\ mask.sprite => mask.sprite_pending = 3 - turn
    /\ Rendered(line) /\ dot <= LastEval + 1 + turn

IInv == TypeOK /\ MaskFollowsWrite /\ BeamSeen /\ TransferAlone /\ SeedAwaitsDisable

-----------------------------------------------------------------------------
(* The NMI line's operators keep its type.                                 *)

LEMMA FallType ==
  ASSUME NEW n \in NmiLineState, NEW l \in BOOLEAN, NEW f \in 0..2,
         NEW d \in 0..1, NEW r \in BOOLEAN
  PROVE  [n EXCEPT !.line_low = l, !.low_for = f, !.delay = d, !.requested = r]
           \in NmiLineState
BY DEF NmiLineState

LEMMA RiseType ==
  ASSUME NEW n \in NmiLineState, NEW l \in BOOLEAN, NEW d \in 0..1,
         NEW r \in BOOLEAN, NEW c \in BOOLEAN
  PROVE  [n EXCEPT !.line_low = l, !.delay = d, !.requested = r,
                   !.cancel_requested = c] \in NmiLineState
BY DEF NmiLineState

LEMMA CheckType ==
  ASSUME NEW n \in NmiLineState, NEW d \in 0..1, NEW r \in BOOLEAN,
         NEW c \in BOOLEAN
  PROVE  [n EXCEPT !.cancel_requested = c, !.requested = r, !.delay = d]
           \in NmiLineState
BY DEF NmiLineState

LEMMA UpdateType ==
  ASSUME NEW n \in NmiLineState, NEW last \in BOOLEAN
  PROVE  UpdateNmiLine(n, last) \in NmiLineState
<1>. 0 \in 0..1 /\ 0 \in 0..2 /\ (IF last THEN 1 ELSE 0) \in 0..1
     /\ TRUE \in BOOLEAN /\ FALSE \in BOOLEAN /\ (~last) \in BOOLEAN
  OBVIOUS
<1>1. LineFalls(n, last) \in NmiLineState
  BY FallType, Zenon DEF LineFalls
<1>2. LineRises(n) \in NmiLineState
  <2>1. [n EXCEPT !.line_low = FALSE, !.delay = 0, !.requested = FALSE,
                  !.cancel_requested = TRUE] \in NmiLineState
    BY RiseType, Zenon
  <2>2. [n EXCEPT !.line_low = FALSE] \in NmiLineState
    BY DEF NmiLineState
  <2>. QED BY <2>1, <2>2, Zenon DEF LineRises
<1>3. \/ UpdateNmiLine(n, last) = LineFalls(n, last)
      \/ UpdateNmiLine(n, last) = LineRises(n)
      \/ UpdateNmiLine(n, last) = n
  BY Zenon DEF UpdateNmiLine
<1>. QED BY <1>1, <1>2, <1>3

LEMMA CountType ==
  ASSUME NEW n \in NmiLineState
  PROVE  CountDot(n) \in NmiLineState
BY DEF CountDot, OneMore, NmiLineState

LEMMA SetVblType ==
  ASSUME NEW n \in NmiLineState, NEW v \in BOOLEAN, NEW last \in BOOLEAN
  PROVE  SetVbl(n, v, last) \in NmiLineState
<1>1. [n EXCEPT !.vbl = v] \in NmiLineState
  BY DEF NmiLineState
<1>. QED BY <1>1, UpdateType DEF SetVbl

LEMMA ChecksType ==
  ASSUME NEW n \in NmiLineState
  PROVE  AfterChecks(n) \in NmiLineState
<1>1. 0 \in 0..1 /\ FALSE \in BOOLEAN /\ (n.delay > 0) \in BOOLEAN
  OBVIOUS
<1>. QED BY <1>1, CheckType, Zenon DEF AfterChecks

LEMMA ControlType ==
  ASSUME NEW n \in NmiLineState, NEW e \in BOOLEAN
  PROVE  ControlWrite(n, e) \in NmiLineState
<1>1. [n EXCEPT !.enable = e] \in NmiLineState
  BY DEF NmiLineState
<1>. QED BY <1>1, UpdateType DEF ControlWrite

LEMMA ReadType ==
  ASSUME NEW n \in NmiLineState, NEW early \in BOOLEAN
  PROVE  StatusRead(n, early) \in NmiLineState
<1>1. [n EXCEPT !.requested = @ /\ ~early,
                !.cancel_requested = @ \/ early] \in NmiLineState
  BY DEF NmiLineState
<1>. QED BY <1>1, SetVblType DEF StatusRead

-----------------------------------------------------------------------------
(* The beam.                                                               *)

LEMMA AdvanceType ==
  ASSUME TypeOK, NEW r \in BOOLEAN, Advance(r)
  PROVE  line' \in 0..PreRender /\ dot' \in 0 .. Width - 1 /\ is_odd_frame' \in BOOLEAN
BY PpuBeamAssumption DEF TypeOK, Advance, Skips

LEMMA SeenType ==
  ASSUME TypeOK, NEW r \in BOOLEAN, Seen(r)
  PROVE  scanline' \in 0..PreRender /\ x' \in 0 .. Width - 1
BY PpuBeamAssumption DEF TypeOK, Seen

LEMMA MaskTickType ==
  ASSUME NEW m \in MaskState
  PROVE  MaskTick(m) \in MaskState
<1>1. ASSUME NEW b \in BOOLEAN, NEW s \in BOOLEAN, NEW i \in 0..BgDelay,
             NEW j \in 0..SpriteDelay
      PROVE  [bg |-> b, bg_pending |-> i, sprite |-> s, sprite_pending |-> j]
               \in MaskState
  BY DEF MaskState
<1>2. /\ (IF m.bg_pending = 1 THEN ~m.bg ELSE m.bg) \in BOOLEAN
      /\ (IF m.sprite_pending = 1 THEN ~m.sprite ELSE m.sprite) \in BOOLEAN
  BY DEF MaskState
<1>3. /\ (IF m.bg_pending = 0 THEN 0 ELSE m.bg_pending - 1) \in 0..BgDelay
      /\ (IF m.sprite_pending = 0 THEN 0 ELSE m.sprite_pending - 1) \in 0..SpriteDelay
  BY DEF MaskState, BgDelay, SpriteDelay
<1>. QED BY <1>1, <1>2, <1>3, Zenon DEF MaskTick

LEMMA FromWriteType ==
  ASSUME NEW m \in MaskState, NEW bits \in Bits
  PROVE  FromWrite(m, bits) \in MaskState
<1>1. ASSUME NEW i \in 0..BgDelay, NEW j \in 0..SpriteDelay
      PROVE  [m EXCEPT !.bg_pending = i, !.sprite_pending = j] \in MaskState
  BY DEF MaskState
<1>2. /\ (IF bits.bg # m.bg THEN BgDelay ELSE 0) \in 0..BgDelay
      /\ (IF bits.sprite = m.sprite THEN 0
           ELSE IF bits.sprite THEN SpriteDelay ELSE BgDelay) \in 0..SpriteDelay
  BY DEF BgDelay, SpriteDelay
<1>. QED BY <1>1, <1>2, Zenon DEF FromWrite

LEMMA RenderingType ==
  ASSUME NEW m \in MaskState
  PROVE  Rendering(m) \in BOOLEAN /\ (m.bg /\ m.sprite) \in BOOLEAN
BY DEF Rendering, MaskState

LEMMA FlagsType ==
  ASSUME TypeOK, Flags
  PROVE  nmi' \in NmiLineState /\ vblank_suppressed' \in BOOLEAN
<1>1. CountDot(nmi) \in NmiLineState
  BY CountType DEF TypeOK
<1>2. SetVbl(CountDot(nmi), TRUE, turn = 2) \in NmiLineState
  BY <1>1, SetVblType
<1>3. SetVbl(CountDot(nmi), FALSE, turn = 2) \in NmiLineState
  BY <1>1, SetVblType
<1>. QED BY <1>1, <1>2, <1>3 DEF Flags, TypeOK

LEMMA ReadStatusType ==
  ASSUME TypeOK, NEW n \in NmiLineState, ReadStatus(n)
  PROVE  nmi' \in NmiLineState /\ vblank_suppressed' \in BOOLEAN
<1>1. ReadsEarly \in BOOLEAN /\ Suppresses \in BOOLEAN
  BY DEF ReadsEarly, Suppresses
<1>. QED BY <1>1, ReadType DEF ReadStatus, TypeOK

-----------------------------------------------------------------------------
(* Types.                                                                  *)

LEMMA TypeStep ==
  ASSUME TypeOK, Next
  PROVE  TypeOK'
<1>. AfterChecks(nmi) \in NmiLineState
  BY ChecksType DEF TypeOK
<1>1. CASE Dot
  <2>1. MaskTick(mask) \in MaskState
    BY MaskTickType DEF TypeOK
  <2>2. mask' \in MaskState /\ Rendering(mask') \in BOOLEAN
    BY <1>1, <2>1, RenderingType DEF Dot
  <2>3. line' \in 0..PreRender /\ dot' \in 0 .. Width - 1 /\ is_odd_frame' \in BOOLEAN
    BY <1>1, <2>2, AdvanceType DEF Dot
  <2>4. scanline' \in 0..PreRender /\ x' \in 0 .. Width - 1
    BY <1>1, <2>2, SeenType DEF Dot
  <2>5. nmi' \in NmiLineState /\ vblank_suppressed' \in BOOLEAN
    BY <1>1, FlagsType DEF Dot
  <2>6. corruption' \in BOOLEAN /\ armed' \in BOOLEAN
    BY <1>1 DEF Dot, Corrupt, TypeOK
  <2>. QED BY <1>1, <2>2, <2>3, <2>4, <2>5, <2>6 DEF Dot, TypeOK
<1>2. CASE CpuTick
  BY <1>2 DEF CpuTick, CpuTurn, TypeOK, beamVars
<1>3. CASE CpuReadsStatus
  <2>1. nmi' \in NmiLineState /\ vblank_suppressed' \in BOOLEAN
    BY <1>3, ReadStatusType DEF CpuReadsStatus
  <2>. QED BY <1>3, <2>1 DEF CpuReadsStatus, CpuTurn, TypeOK, beamVars
<1>4. CASE CpuWritesControl
  <2>1. nmi' \in NmiLineState
    BY <1>4, ControlType DEF CpuWritesControl
  <2>. QED BY <1>4, <2>1 DEF CpuWritesControl, CpuTurn, TypeOK, beamVars
<1>5. CASE CpuWritesMask
  <2>1. PICK bits \in Bits, second \in BOOLEAN :
          /\ corruption' = (corruption \/ ( /\ Rendering(mask) /\ bits = Both(FALSE)
                                            /\ Seeds(second) ))
          /\ mask' = FromWrite(mask, bits)
          /\ written' = bits
    BY <1>5 DEF CpuWritesMask
  <2>2. mask' \in MaskState /\ corruption' \in BOOLEAN
    BY <2>1, FromWriteType DEF TypeOK
  <2>. QED BY <1>5, <2>1, <2>2 DEF CpuWritesMask, CpuTurn, TypeOK, beamVars
<1>6. CASE CpuWritesSpriteDma
  <2>1. nmi' \in NmiLineState
    BY <1>6 DEF CpuWritesSpriteDma
  <2>2. passing' \in Nat /\ turn' \in 0..3
    BY <1>6 DEF CpuWritesSpriteDma, CpuTurn
  <2>. QED BY <1>6, <2>1, <2>2 DEF CpuWritesSpriteDma, TypeOK, beamVars
<1>7. CASE Stall
  <2>1. nmi' \in NmiLineState /\ vblank_suppressed' \in BOOLEAN
    BY <1>7, ReadStatusType DEF Stall, TypeOK
  <2>. QED BY <1>7, <2>1 DEF Stall, CpuTurn, TypeOK, beamVars
<1>8. CASE SpriteDma
  <2>1. nmi' \in NmiLineState /\ vblank_suppressed' \in BOOLEAN
    BY <1>8, ReadStatusType DEF SpriteDma, TypeOK
  <2>2. passing' \in Nat
    BY <1>8, PpuBeamAssumption DEF SpriteDma
  <2>3. scheduled' \in BOOLEAN /\ corruption' \in BOOLEAN
    BY <1>8 DEF SpriteDma
  <2>. QED BY <1>8, <2>1, <2>2, <2>3, Zenon DEF SpriteDma, TypeOK, beamVars
<1>9. CASE UpdateBeam
  <2>1. (mask.bg /\ mask.sprite) \in BOOLEAN
    BY RenderingType DEF TypeOK
  <2>2. line' \in 0..PreRender /\ dot' \in 0 .. Width - 1 /\ is_odd_frame' \in BOOLEAN
    BY <1>9, <2>1, AdvanceType DEF UpdateBeam
  <2>3. scanline' \in 0..PreRender /\ x' \in 0 .. Width - 1
    BY <1>9, <2>2 DEF UpdateBeam
  <2>4. passing' \in Nat /\ turn' \in 0..3
    BY <1>9 DEF UpdateBeam, TypeOK
  <2>. QED BY <1>9, <2>2, <2>3, <2>4 DEF UpdateBeam, TypeOK
<1>. QED
  BY <1>1, <1>2, <1>3, <1>4, <1>5, <1>6, <1>7, <1>8, <1>9 DEF Next

(* TypeOK: every variable of the beam, the mask and the NMI line keeps its *)
(* range in frames of every geometry.                                      *)
THEOREM TypeCorrect == Spec => []TypeOK
<1>1. Init => TypeOK
  <2>1. NmiLineInit \in NmiLineState
    BY DEF NmiLineInit, NmiLineState
  <2>2. [bg |-> FALSE, sprite |-> FALSE, bg_pending |-> 0, sprite_pending |-> 0]
          \in MaskState
    BY DEF MaskState, BgDelay, SpriteDelay
  <2>3. Both(FALSE) \in Bits
    BY DEF Both, Bits
  <2>4. 0 \in 0..PreRender /\ 0 \in 0 .. Width - 1 /\ 0 \in Nat /\ 0 \in 0..3
        /\ FALSE \in BOOLEAN
    BY PpuBeamAssumption
  <2>. QED BY <2>1, <2>2, <2>3, <2>4, Zenon DEF Init, TypeOK
<1>2. TypeOK /\ [Next]_vars => TypeOK'
  <2>1. ASSUME TypeOK, UNCHANGED vars PROVE TypeOK'
    BY <2>1 DEF TypeOK, vars, beamVars
  <2>. QED BY <2>1, TypeStep
<1>. QED BY <1>1, <1>2, PTL DEF Spec

-----------------------------------------------------------------------------
(* The mask.                                                               *)

LEMMA MaskFields ==
  ASSUME NEW m \in MaskState
  PROVE  /\ m.bg \in BOOLEAN /\ m.sprite \in BOOLEAN
         /\ m.bg_pending \in Nat /\ m.sprite_pending \in Nat
         /\ MaskTick(m).bg = IF m.bg_pending = 1 THEN ~m.bg ELSE m.bg
         /\ MaskTick(m).sprite = IF m.sprite_pending = 1 THEN ~m.sprite ELSE m.sprite
         /\ MaskTick(m).bg_pending = IF m.bg_pending = 0 THEN 0 ELSE m.bg_pending - 1
         /\ MaskTick(m).sprite_pending =
              IF m.sprite_pending = 0 THEN 0 ELSE m.sprite_pending - 1
BY DEF MaskState, MaskTick, BgDelay, SpriteDelay

LEMMA WriteFields ==
  ASSUME NEW m \in MaskState, NEW bits \in Bits
  PROVE  /\ FromWrite(m, bits).bg = m.bg /\ FromWrite(m, bits).sprite = m.sprite
         /\ FromWrite(m, bits).bg_pending = IF bits.bg # m.bg THEN BgDelay ELSE 0
         /\ FromWrite(m, bits).sprite_pending =
              IF bits.sprite = m.sprite THEN 0
              ELSE IF bits.sprite THEN SpriteDelay ELSE BgDelay
BY DEF MaskState, FromWrite, Bits

LEMMA TickFollows ==
  ASSUME NEW bit \in BOOLEAN, NEW last \in BOOLEAN, NEW pending \in Nat,
         pending = 0 <=> bit = last
  PROVE  (IF pending = 0 THEN 0 ELSE pending - 1) = 0
           <=> (IF pending = 1 THEN ~bit ELSE bit) = last
OBVIOUS

LEMMA WriteFollows ==
  ASSUME NEW m \in MaskState, NEW bits \in Bits
  PROVE  /\ FromWrite(m, bits).bg_pending = 0 <=> FromWrite(m, bits).bg = bits.bg
         /\ FromWrite(m, bits).sprite_pending = 0
              <=> FromWrite(m, bits).sprite = bits.sprite
<1>1. BgDelay # 0 /\ SpriteDelay # 0
  BY DEF BgDelay, SpriteDelay
<1>2. FromWrite(m, bits).bg_pending = 0 <=> m.bg = bits.bg
  <2>1. CASE bits.bg = m.bg
    BY <2>1, WriteFields
  <2>2. CASE bits.bg # m.bg
    BY <2>2, <1>1, WriteFields
  <2>. QED BY <2>1, <2>2
<1>3. FromWrite(m, bits).sprite_pending = 0 <=> m.sprite = bits.sprite
  <2>1. CASE bits.sprite = m.sprite
    BY <2>1, WriteFields
  <2>2. CASE bits.sprite # m.sprite
    BY <2>2, <1>1, WriteFields
  <2>. QED BY <2>1, <2>2
<1>. QED BY <1>2, <1>3, WriteFields, Zenon

LEMMA MaskTickFollows ==
  ASSUME NEW m \in MaskState, NEW w \in Bits,
         m.bg_pending = 0 <=> m.bg = w.bg,
         m.sprite_pending = 0 <=> m.sprite = w.sprite
  PROVE  /\ MaskTick(m).bg_pending = 0 <=> MaskTick(m).bg = w.bg
         /\ MaskTick(m).sprite_pending = 0 <=> MaskTick(m).sprite = w.sprite
<1>1. w.bg \in BOOLEAN /\ w.sprite \in BOOLEAN
  BY DEF Bits
<1>2. (IF m.bg_pending = 0 THEN 0 ELSE m.bg_pending - 1) = 0
        <=> (IF m.bg_pending = 1 THEN ~m.bg ELSE m.bg) = w.bg
  BY <1>1, MaskFields, TickFollows
<1>3. (IF m.sprite_pending = 0 THEN 0 ELSE m.sprite_pending - 1) = 0
        <=> (IF m.sprite_pending = 1 THEN ~m.sprite ELSE m.sprite) = w.sprite
  BY <1>1, MaskFields, TickFollows
<1>. QED BY <1>2, <1>3, MaskFields, ZenonT(30)

LEMMA FollowStep ==
  ASSUME TypeOK, MaskFollowsWrite, Next
  PROVE  MaskFollowsWrite'
<1>1. CASE Dot
  <2>1. mask \in MaskState /\ written \in Bits
    BY DEF TypeOK
  <2>2. mask' = MaskTick(mask) /\ written' = written
    BY <1>1 DEF Dot
  <2>. QED BY <2>1, <2>2, MaskTickFollows, Zenon DEF MaskFollowsWrite
<1>2. CASE CpuWritesMask
  <2>1. PICK bits \in Bits : mask' = FromWrite(mask, bits) /\ written' = bits
    BY <1>2 DEF CpuWritesMask
  <2>2. mask \in MaskState
    BY DEF TypeOK
  <2>. QED BY <2>1, <2>2, WriteFollows, Zenon DEF MaskFollowsWrite
<1>3. CASE UNCHANGED <<mask, written>>
  BY <1>3 DEF MaskFollowsWrite
<1>. QED
  BY <1>1, <1>2, <1>3 DEF Next, CpuTick, CpuReadsStatus, CpuWritesControl,
     CpuWritesSpriteDma, Stall, SpriteDma, UpdateBeam

(* MaskFollowsWrite: whatever the writes of $2001 and the dots between     *)
(* them, the bits in effect end up as last written.                        *)
THEOREM MaskCorrect == Spec => []MaskFollowsWrite
<1>1. Init => MaskFollowsWrite
  BY DEF Init, MaskFollowsWrite, Both
<1>2. TypeOK /\ MaskFollowsWrite /\ [Next]_vars => MaskFollowsWrite'
  <2>1. ASSUME MaskFollowsWrite, UNCHANGED vars PROVE MaskFollowsWrite'
    BY <2>1 DEF MaskFollowsWrite, vars
  <2>. QED BY <2>1, FollowStep
<1>. QED BY <1>1, <1>2, TypeCorrect, PTL DEF Spec

-----------------------------------------------------------------------------
(* The seed of a corruption.                                               *)

LEMMA BeamStep ==
  ASSUME TypeOK, BeamSeen, Next
  PROVE  BeamSeen'
<1>1. CASE Dot
  <2>1. PICK r : Seen(r) /\ Advance(r)
    BY <1>1 DEF Dot
  <2>. QED BY <2>1, PpuBeamAssumption DEF Seen, Advance, Skips, BeamSeen, TypeOK
<1>2. CASE turn' = 0 \/ passing' # 0
  BY <1>2 DEF BeamSeen
<1>3. CASE UNCHANGED <<beamVars, turn, passing>>
  BY <1>3 DEF BeamSeen, beamVars
<1>4. CASE SpriteDma
  BY <1>4, <1>2, PpuBeamAssumption DEF SpriteDma
<1>5. CASE UpdateBeam
  BY <1>5, <1>2 DEF UpdateBeam, TypeOK
<1>. QED
  BY <1>1, <1>2, <1>3, <1>4, <1>5 DEF Next, CpuTick, CpuTurn, CpuReadsStatus,
     CpuWritesControl, CpuWritesMask, CpuWritesSpriteDma, Stall

LEMMA AloneStep ==
  ASSUME TypeOK, TransferAlone, Next
  PROVE  TransferAlone'
<1>1. CASE Dot
  <2>1. passing = 0 /\ passing' = passing /\ scheduled' = scheduled
    BY <1>1 DEF Dot, TransferAlone, TypeOK
  <2>2. (corruption' => corruption) /\ (armed' => armed \/ corruption)
    BY <1>1 DEF Dot, Corrupt
  <2>. QED BY <2>1, <2>2 DEF TransferAlone
<1>2. CASE passing' = 0 /\ (scheduled' => ~corruption' /\ ~armed')
  BY <1>2 DEF TransferAlone
<1>3. CASE UNCHANGED <<corruption, armed, scheduled>> /\ passing' = 0
  BY <1>3 DEF TransferAlone
<1>4. CASE CpuTick
  BY <1>4, <1>3 DEF CpuTick, CpuTurn
<1>5. CASE SpriteDma
  BY <1>5 DEF SpriteDma, TransferAlone
<1>6. CASE UpdateBeam
  BY <1>6 DEF UpdateBeam, TransferAlone, TypeOK
<1>7. CASE CpuReadsStatus \/ CpuWritesControl \/ Stall
  <2>1. UNCHANGED <<corruption, armed, scheduled>> /\ passing' = 0
    BY <1>7, Zenon DEF CpuTurn, CpuReadsStatus, CpuWritesControl, Stall
  <2>. QED BY <2>1, <1>3
<1>8. CASE CpuWritesMask
  <2>1. passing' = 0 /\ ~scheduled /\ scheduled' = scheduled
    BY <1>8, Zenon DEF CpuTurn, CpuWritesMask
  <2>. QED BY <2>1 DEF TransferAlone
<1>9. CASE CpuWritesSpriteDma
  BY <1>9, <1>2 DEF CpuTurn, CpuWritesSpriteDma
<1>. QED BY <1>1, <1>4, <1>5, <1>6, <1>7, <1>8, <1>9 DEF Next

(* On the dot that turns rendering off the bits in effect are those of the *)
(* write: an unarmed seed is gone, or it waits for one dot less.           *)
LEMMA SeedDot ==
  ASSUME TypeOK, MaskFollowsWrite, SeedAwaitsDisable, Dot, corruption', ~armed'
  PROVE  SeedAwaitsDisable'
<1>1. corruption /\ ~armed /\ Rendering(mask')
  BY Zenon DEF Dot, Corrupt
<1>2. /\ turn \in 0..2 /\ turn' = turn + 1 /\ written' = written
      /\ mask' = MaskTick(mask)
  BY DEF Dot, TypeOK
<1>3. /\ ~written.bg /\ ~written.sprite
      /\ mask.bg => mask.bg_pending = 3 - turn
      /\ mask.sprite => mask.sprite_pending = 3 - turn
      /\ Rendered(line) /\ dot <= LastEval + 1 + turn
  BY <1>1, Zenon DEF SeedAwaitsDisable
<1>4. /\ ~mask.bg => mask.bg_pending = 0
      /\ ~mask.sprite => mask.sprite_pending = 0
  BY <1>3, MaskFields DEF MaskFollowsWrite, TypeOK, Bits
<1>5. /\ mask'.bg => mask.bg /\ mask'.bg_pending = 3 - turn' /\ turn # 2
      /\ mask'.sprite => mask.sprite /\ mask'.sprite_pending = 3 - turn' /\ turn # 2
  <2>. mask \in MaskState
    BY DEF TypeOK
  <2>1. mask'.bg => mask.bg /\ mask.bg_pending # 1
    <3>1. CASE mask.bg
      BY <3>1, <1>2, MaskFields
    <3>2. CASE ~mask.bg
      BY <3>2, <1>2, <1>4, MaskFields
    <3>. QED BY <3>1, <3>2
  <2>2. mask'.sprite => mask.sprite /\ mask.sprite_pending # 1
    <3>1. CASE mask.sprite
      BY <3>1, <1>2, MaskFields
    <3>2. CASE ~mask.sprite
      BY <3>2, <1>2, <1>4, MaskFields
    <3>. QED BY <3>1, <3>2
  <2>3. mask'.bg => mask'.bg_pending = 3 - turn' /\ turn # 2
    BY <2>1, <1>2, <1>3, MaskFields
  <2>4. mask'.sprite => mask'.sprite_pending = 3 - turn' /\ turn # 2
    BY <2>2, <1>2, <1>3, MaskFields
  <2>. QED BY <2>1, <2>2, <2>3, <2>4
<1>6. mask'.bg \/ mask'.sprite
  BY <1>1 DEF Rendering
<1>7. turn' < 3
  BY <1>2, <1>5, <1>6
<1>8. Rendered(line)' /\ dot' <= LastEval + 1 + turn'
  <2>1. Advance(Rendering(mask'))
    BY DEF Dot
  <2>. QED
    BY <2>1, <1>2, <1>3, <1>7, PpuBeamAssumption DEF Advance, Skips, Rendered, TypeOK
<1>. QED
  BY <1>2, <1>3, <1>5, <1>6, <1>7, <1>8, Zenon DEF SeedAwaitsDisable

LEMMA SeedStep ==
  ASSUME IInv, Next
  PROVE  SeedAwaitsDisable'
<1>. USE DEF IInv
<1>1. CASE Dot
  BY <1>1, SeedDot, Zenon DEF SeedAwaitsDisable
<1>2. CASE ~corruption'
  BY <1>2, Zenon DEF SeedAwaitsDisable
<1>3. CASE turn = 3 /\ UNCHANGED <<corruption, armed>>
  BY <1>3 DEF SeedAwaitsDisable
<1>4. CASE CpuWritesMask
  <2>1. PICK bits \in Bits, second \in BOOLEAN :
          /\ corruption' = (corruption \/ ( /\ Rendering(mask) /\ bits = Both(FALSE)
                                            /\ Seeds(second) ))
          /\ mask' = FromWrite(mask, bits)
          /\ written' = bits
    BY <1>4 DEF CpuWritesMask
  <2>2. turn = 3 /\ passing = 0 /\ turn' = 0 /\ UNCHANGED <<line, dot, armed>>
    BY <1>4 DEF CpuWritesMask, CpuTurn, beamVars
  <2>. SUFFICES ASSUME corruption', ~armed' PROVE SeedAwaitsDisable'
    BY Zenon DEF SeedAwaitsDisable
  <2>3. ~corruption
    BY <2>2 DEF SeedAwaitsDisable
  <2>4. Rendering(mask) /\ bits = Both(FALSE) /\ Seeds(second)
    BY <2>1, <2>3, Zenon
  <2>5. /\ ~bits.bg /\ ~bits.sprite
        /\ mask'.bg = mask.bg /\ mask'.sprite = mask.sprite
        /\ mask.bg => mask'.bg_pending = 3
        /\ mask.sprite => mask'.sprite_pending = 3
    BY <2>1, <2>4, WriteFields, MaskFields DEF Both, BgDelay, SpriteDelay, TypeOK
  <2>6. Rendered(scanline) /\ x \in 1..LastEval
    BY <2>4, PpuBeamAssumption DEF Seeds, TypeOK
  <2>7. line = scanline /\ dot = x + 1
    BY <2>2, <2>6, PpuBeamAssumption DEF BeamSeen
  <2>8. Rendered(line)' /\ dot' <= LastEval + 1 + turn'
    BY <2>2, <2>6, <2>7, PpuBeamAssumption DEF Rendered
  <2>9. mask.bg \/ mask.sprite
    BY <2>4 DEF Rendering
  <2>. QED BY <2>1, <2>2, <2>5, <2>8, <2>9 DEF SeedAwaitsDisable
<1>5. CASE UpdateBeam
  BY <1>5, <1>2 DEF UpdateBeam, TransferAlone
<1>. QED
  BY <1>1, <1>2, <1>3, <1>4, <1>5 DEF Next, CpuTick, CpuTurn, CpuReadsStatus,
     CpuWritesControl, CpuWritesSpriteDma, Stall, SpriteDma

LEMMA Induction == Spec => []IInv
<1>1. Init => BeamSeen /\ TransferAlone /\ SeedAwaitsDisable
  BY DEF Init, BeamSeen, TransferAlone, SeedAwaitsDisable
<1>2. IInv /\ [Next]_vars => (BeamSeen /\ TransferAlone /\ SeedAwaitsDisable)'
  <2>1. ASSUME IInv, UNCHANGED vars
        PROVE  (BeamSeen /\ TransferAlone /\ SeedAwaitsDisable)'
    BY <2>1 DEF IInv, BeamSeen, TransferAlone, SeedAwaitsDisable, vars, beamVars
  <2>. QED BY <2>1, BeamStep, AloneStep, SeedStep DEF IInv
<1>3. IInv <=> TypeOK /\ MaskFollowsWrite
               /\ (BeamSeen /\ TransferAlone /\ SeedAwaitsDisable)
  BY DEF IInv
<1>. QED BY <1>1, <1>2, <1>3, TypeCorrect, MaskCorrect, PTL DEF Spec

(* ArmedByTurningOff: a corruption is armed by the disable that seeded it, *)
(* as that takes effect within the cycle and on the line of the write.     *)
THEOREM ArmedCorrect == Spec => ArmedByTurningOff
<1>1. ASSUME IInv, Next, ~armed, armed'
      PROVE  Rendering(mask) /\ ~Rendering(mask') /\ Rendered(line)
  <2>1. corruption /\ ~Rendering(mask')
    BY <1>1, Zenon DEF Next, Dot, Corrupt, CpuTick, CpuReadsStatus, CpuWritesControl,
       CpuWritesMask, CpuWritesSpriteDma, Stall, SpriteDma, UpdateBeam
  <2>. QED BY <1>1, <2>1, Zenon DEF IInv, SeedAwaitsDisable, Rendering
<1>2. IInv /\ [Next]_vars =>
        [~armed /\ armed' => Rendering(mask) /\ ~Rendering(mask') /\ Rendered(line)]_vars
  BY <1>1, Zenon
<1>. QED BY <1>2, Induction, PTL DEF Spec, ArmedByTurningOff

-----------------------------------------------------------------------------
(* The beam as an NMI source: the operators on the line carry since along. *)

With(n, s) == SourceLine!Source(n, s)

LEMMA WithFields ==
  ASSUME NEW n \in NmiLineState, NEW s \in 0..2
  PROVE  /\ With(n, s).vbl = n.vbl /\ With(n, s).enable = n.enable
         /\ With(n, s).line_low = n.line_low /\ With(n, s).low_for = n.low_for
         /\ With(n, s).delay = n.delay /\ With(n, s).requested = n.requested
         /\ With(n, s).since = s
BY DEF With, SourceLine!Source

LEMMA WithLow ==
  ASSUME NEW n \in NmiLineState, NEW s \in 0..2, NEW l \in BOOLEAN
  PROVE  /\ [With(n, s) EXCEPT !.line_low = l] = With([n EXCEPT !.line_low = l], s)
         /\ [n EXCEPT !.line_low = l] \in NmiLineState
BY DEF With, SourceLine!Source, NmiLineState

LEMMA WithLowFor ==
  ASSUME NEW n \in NmiLineState, NEW s \in 0..2, NEW f \in 0..2
  PROVE  /\ [With(n, s) EXCEPT !.low_for = f] = With([n EXCEPT !.low_for = f], s)
         /\ [n EXCEPT !.low_for = f] \in NmiLineState
BY DEF With, SourceLine!Source, NmiLineState

LEMMA WithDelay ==
  ASSUME NEW n \in NmiLineState, NEW s \in 0..2, NEW d \in 0..1
  PROVE  /\ [With(n, s) EXCEPT !.delay = d] = With([n EXCEPT !.delay = d], s)
         /\ [n EXCEPT !.delay = d] \in NmiLineState
BY DEF With, SourceLine!Source, NmiLineState

LEMMA WithRequested ==
  ASSUME NEW n \in NmiLineState, NEW s \in 0..2, NEW r \in BOOLEAN
  PROVE  /\ [With(n, s) EXCEPT !.requested = r] = With([n EXCEPT !.requested = r], s)
         /\ [n EXCEPT !.requested = r] \in NmiLineState
BY DEF With, SourceLine!Source, NmiLineState

LEMMA WithCancel ==
  ASSUME NEW n \in NmiLineState, NEW s \in 0..2, NEW c \in BOOLEAN
  PROVE  /\ [With(n, s) EXCEPT !.cancel_requested = c]
              = With([n EXCEPT !.cancel_requested = c], s)
         /\ [n EXCEPT !.cancel_requested = c] \in NmiLineState
BY DEF With, SourceLine!Source, NmiLineState

LEMMA WithFall ==
  ASSUME NEW n \in NmiLineState, NEW s \in 0..2, NEW last \in BOOLEAN
  PROVE  SourceLine!LineFalls(With(n, s), last) = With(LineFalls(n, last), s)
<1>. DEFINE low == TRUE
            delay == IF last THEN 1 ELSE 0
            now == ~last
            n1 == [n EXCEPT !.line_low = low]
            n2 == [n1 EXCEPT !.low_for = 0]
            n3 == [n2 EXCEPT !.delay = delay]
            n4 == [n3 EXCEPT !.requested = now]
<1>1. low \in BOOLEAN /\ 0 \in 0..2 /\ delay \in 0..1 /\ now \in BOOLEAN
  OBVIOUS
<1>2. /\ SourceLine!LineFalls(With(n, s), last)
           = [[[[With(n, s) EXCEPT !.line_low = low] EXCEPT !.low_for = 0]
                 EXCEPT !.delay = delay] EXCEPT !.requested = now]
      /\ LineFalls(n, last) = n4
  BY Zenon DEF SourceLine!LineFalls, LineFalls
<1>. HIDE DEF low, delay, now
<1>3. [With(n, s) EXCEPT !.line_low = low] = With(n1, s) /\ n1 \in NmiLineState
  BY <1>1, WithLow, Zenon
<1>4. [With(n1, s) EXCEPT !.low_for = 0] = With(n2, s) /\ n2 \in NmiLineState
  BY <1>1, <1>3, WithLowFor, Zenon
<1>5. [With(n2, s) EXCEPT !.delay = delay] = With(n3, s) /\ n3 \in NmiLineState
  BY <1>1, <1>4, WithDelay, Zenon
<1>. HIDE DEF n1, n2, n3
<1>6. [With(n3, s) EXCEPT !.requested = now] = With(n4, s)
  BY <1>1, <1>5, WithRequested
<1>. HIDE DEF n4
<1>. QED BY <1>2, <1>3, <1>4, <1>5, <1>6, Zenon

LEMMA WithRise ==
  ASSUME NEW n \in NmiLineState, NEW s \in 0..2
  PROVE  SourceLine!LineRises(With(n, s)) = With(LineRises(n), s)
BY DEF With, SourceLine!Source, SourceLine!LineRises, LineRises, NmiLineState

LEMMA WithUpdate ==
  ASSUME NEW n \in NmiLineState, NEW s \in 0..2, NEW last \in BOOLEAN
  PROVE  SourceLine!UpdateNmiLine(With(n, s), last) = With(UpdateNmiLine(n, last), s)
BY WithFields, WithFall, WithRise DEF SourceLine!UpdateNmiLine, UpdateNmiLine

LEMMA WithVbl ==
  ASSUME NEW n \in NmiLineState, NEW s \in 0..2, NEW v \in BOOLEAN,
         NEW last \in BOOLEAN
  PROVE  SourceLine!SetVbl(With(n, s), v, last) = With(SetVbl(n, v, last), s)
<1>1. [n EXCEPT !.vbl = v] \in NmiLineState
  BY DEF NmiLineState
<1>2. [With(n, s) EXCEPT !.vbl = v] = With([n EXCEPT !.vbl = v], s)
  BY DEF With, SourceLine!Source, NmiLineState
<1>. QED BY <1>1, <1>2, WithUpdate DEF SourceLine!SetVbl, SetVbl

LEMMA WithControl ==
  ASSUME NEW n \in NmiLineState, NEW s \in 0..2, NEW e \in BOOLEAN
  PROVE  SourceLine!ControlWrite(With(n, s), e) = With(ControlWrite(n, e), s)
<1>1. [n EXCEPT !.enable = e] \in NmiLineState
  BY DEF NmiLineState
<1>2. [With(n, s) EXCEPT !.enable = e] = With([n EXCEPT !.enable = e], s)
  BY DEF With, SourceLine!Source, NmiLineState
<1>. QED BY <1>1, <1>2, WithUpdate DEF SourceLine!ControlWrite, ControlWrite

LEMMA WithRead ==
  ASSUME NEW n \in NmiLineState, NEW s \in 0..2, NEW early \in BOOLEAN
  PROVE  SourceLine!StatusRead(With(n, s), early) = With(StatusRead(n, early), s)
<1>1. ASSUME NEW r \in BOOLEAN, NEW c \in BOOLEAN
      PROVE  /\ [With(n, s) EXCEPT !.requested = r, !.cancel_requested = c]
                  = With([n EXCEPT !.requested = r, !.cancel_requested = c], s)
             /\ [n EXCEPT !.requested = r, !.cancel_requested = c] \in NmiLineState
  <2>. DEFINE n1 == [n EXCEPT !.requested = r]
              n2 == [n1 EXCEPT !.cancel_requested = c]
  <2>1. [With(n, s) EXCEPT !.requested = r] = With(n1, s)
        /\ n1 \in NmiLineState
    BY WithRequested, Zenon
  <2>2. [With(n1, s) EXCEPT !.cancel_requested = c] = With(n2, s)
        /\ n2 \in NmiLineState
    BY <2>1, WithCancel, Zenon
  <2>3. [n EXCEPT !.requested = r, !.cancel_requested = c] = n2
    BY Zenon
  <2>4. [With(n, s) EXCEPT !.requested = r, !.cancel_requested = c]
        = [[With(n, s) EXCEPT !.requested = r] EXCEPT !.cancel_requested = c]
    BY Zenon
  <2>. HIDE DEF n1, n2
  <2>. QED BY <2>1, <2>2, <2>3, <2>4, Zenon
<1>2. /\ (n.requested /\ ~early) \in BOOLEAN
      /\ (n.cancel_requested \/ early) \in BOOLEAN
  OBVIOUS
<1>3. /\ With(n, s).requested = n.requested
      /\ With(n, s).cancel_requested = n.cancel_requested
  BY DEF With, SourceLine!Source
<1>4. /\ [With(n, s) EXCEPT !.requested = @ /\ ~early,
                            !.cancel_requested = @ \/ early]
           = With([n EXCEPT !.requested = @ /\ ~early,
                            !.cancel_requested = @ \/ early], s)
      /\ [n EXCEPT !.requested = @ /\ ~early,
                   !.cancel_requested = @ \/ early] \in NmiLineState
  BY <1>1, <1>2, <1>3, Zenon
<1>5. FALSE \in BOOLEAN /\ TRUE \in BOOLEAN
  OBVIOUS
<1>. DEFINE m == [n EXCEPT !.requested = @ /\ ~early,
                          !.cancel_requested = @ \/ early]
<1>6. SourceLine!SetVbl(With(m, s), FALSE, TRUE) = With(SetVbl(m, FALSE, TRUE), s)
  BY <1>4, <1>5, WithVbl, Zenon
<1>. QED BY <1>4, <1>6 DEF SourceLine!StatusRead, StatusRead

LEMMA WithChecks ==
  ASSUME NEW n \in NmiLineState, NEW s \in 0..2
  PROVE  SourceLine!AfterChecks(With(n, s)) = With(AfterChecks(n), s)
<1>1. ASSUME NEW d \in 0..1, NEW r \in BOOLEAN, NEW c \in BOOLEAN
      PROVE  [With(n, s) EXCEPT !.cancel_requested = c, !.requested = r, !.delay = d]
               = With([n EXCEPT !.cancel_requested = c, !.requested = r,
                                !.delay = d], s)
  <2>. DEFINE n1 == [n EXCEPT !.cancel_requested = c]
              n2 == [n1 EXCEPT !.requested = r]
              n3 == [n2 EXCEPT !.delay = d]
  <2>1. [With(n, s) EXCEPT !.cancel_requested = c] = With(n1, s)
        /\ n1 \in NmiLineState
    BY WithCancel, Zenon
  <2>2. [With(n1, s) EXCEPT !.requested = r] = With(n2, s)
        /\ n2 \in NmiLineState
    BY <2>1, WithRequested, Zenon
  <2>3. [With(n2, s) EXCEPT !.delay = d] = With(n3, s)
        /\ n3 \in NmiLineState
    BY <2>2, WithDelay, Zenon
  <2>4. [n EXCEPT !.cancel_requested = c, !.requested = r, !.delay = d] = n3
    BY Zenon
  <2>5. [With(n, s) EXCEPT !.cancel_requested = c, !.requested = r, !.delay = d]
        = [[[With(n, s) EXCEPT !.cancel_requested = c] EXCEPT !.requested = r] EXCEPT !.delay = d]
    BY Zenon
  <2>. HIDE DEF n1, n2, n3
  <2>. QED BY <2>1, <2>2, <2>3, <2>4, <2>5, Zenon
<1>2. 0 \in 0..1 /\ FALSE \in BOOLEAN /\ (n.delay > 0) \in BOOLEAN
  OBVIOUS
<1>. QED BY <1>1, <1>2, WithFields, ZenonT(30) DEF SourceLine!AfterChecks, AfterChecks

LEMMA WithSince ==
  ASSUME NEW n \in NmiLineState, NEW s \in 0..2, NEW t \in 0..2
  PROVE  [With(n, s) EXCEPT !.since = t] = With(n, t)
BY DEF With, SourceLine!Source, NmiLineState

LEMMA WithCount ==
  ASSUME NEW n \in NmiLineState, NEW s \in 0..2
  PROVE  SourceLine!CountDot(With(n, s)) = With(CountDot(n), s)
BY DEF With, SourceLine!Source, SourceLine!CountDot, CountDot, SourceLine!OneMore,
   OneMore, NmiLineState

Bar == With(nmi, Since)

LEMMA SourceDots ==
  ASSUME NEW n \in NmiLineState, NEW s \in 0..2, NEW last \in BOOLEAN
  PROVE  LET one == SourceLine!OneMore(s)
         IN /\ SourceLine!SourceDot(With(n, s), "none", last) = With(CountDot(n), one)
            /\ SourceLine!SourceDot(With(n, s), "set", last)
                 = With(SetVbl(CountDot(n), TRUE, last), 0)
            /\ SourceLine!SourceDot(With(n, s), "suppressed", last) = With(CountDot(n), 0)
            /\ SourceLine!SourceDot(With(n, s), "clear", last)
                 = With(SetVbl(CountDot(n), FALSE, last), one)
<1>. DEFINE one == SourceLine!OneMore(s)
            counted == [SourceLine!CountDot(With(n, s)) EXCEPT !.since = SourceLine!OneMore(@)]
            passed == [counted EXCEPT !.since = 0]
<1>1. CountDot(n) \in NmiLineState /\ one \in 0..2 /\ 0 \in 0..2
  BY CountType DEF SourceLine!OneMore
<1>2. counted = With(CountDot(n), one)
  <2>1. SourceLine!CountDot(With(n, s)) = With(CountDot(n), s)
    BY WithCount
  <2>2. With(CountDot(n), s).since = s
    BY <1>1, WithFields
  <2>3. counted = [With(CountDot(n), s) EXCEPT !.since = one]
    BY <2>1, <2>2, Zenon
  <2>. HIDE DEF counted, one
  <2>. QED BY <1>1, <2>3, WithSince, Zenon
<1>3. passed = With(CountDot(n), 0)
  <2>. HIDE DEF counted, one
  <2>. QED BY <1>1, <1>2, WithSince, Zenon
<1>4. /\ SourceLine!SourceDot(With(n, s), "none", last) = counted
      /\ SourceLine!SourceDot(With(n, s), "set", last)
           = SourceLine!SetVbl(passed, TRUE, last)
      /\ SourceLine!SourceDot(With(n, s), "suppressed", last) = passed
      /\ SourceLine!SourceDot(With(n, s), "clear", last)
           = SourceLine!SetVbl(counted, FALSE, last)
  BY DEF SourceLine!SourceDot
<1>. HIDE DEF counted, passed, one
<1>5. /\ SourceLine!SetVbl(passed, TRUE, last) = With(SetVbl(CountDot(n), TRUE, last), 0)
      /\ SourceLine!SetVbl(counted, FALSE, last)
           = With(SetVbl(CountDot(n), FALSE, last), one)
  BY <1>1, <1>2, <1>3, WithVbl
<1>. QED BY <1>2, <1>3, <1>4, <1>5, Zenon DEF one

LEMMA SinceStep ==
  ASSUME TypeOK, Dot
  PROVE  /\ Since \in 0..2 /\ Since' \in 0..2
         /\ VblEvent => Since' = 0
         /\ ~VblEvent => Since' = SourceLine!OneMore(Since)
<1>1. PICK r : Advance(r)
  BY DEF Dot
<1>. QED
  BY <1>1, PpuBeamAssumption DEF Since, VblEvent, VblLine, Advance, Skips,
     SourceLine!OneMore, TypeOK

LEMMA DotIsSource ==
  ASSUME TypeOK, Dot
  PROVE  \E event \in SourceLine!VblEvents, last \in BOOLEAN :
           Bar' = SourceLine!SourceDot(Bar, event, last)
<1>. DEFINE last == turn = 2
<1>1. /\ nmi \in NmiLineState /\ last \in BOOLEAN
      /\ Since \in 0..2
  BY SinceStep DEF TypeOK
<1>. HIDE DEF last
<1>2. CASE VblEvent /\ ~vblank_suppressed
  <2>1. Since' = 0
    BY <1>2, SinceStep
  <2>2. nmi' = SetVbl(CountDot(nmi), TRUE, last)
    <3>1. ~ClearEvent
      BY <1>2, PpuBeamAssumption DEF VblEvent, ClearEvent, VblLine
    <3>. QED BY <1>2, <3>1, Zenon DEF Dot, Flags, last
  <2>3. Bar' = SourceLine!SourceDot(Bar, "set", last)
    BY <1>1, <2>1, <2>2, SourceDots, Zenon DEF Bar
  <2>. QED BY <1>1, <2>3 DEF SourceLine!VblEvents
<1>3. CASE VblEvent /\ vblank_suppressed
  <2>1. ~ClearEvent
    BY <1>3, PpuBeamAssumption DEF VblEvent, ClearEvent, VblLine
  <2>2. nmi' = CountDot(nmi) /\ Since' = 0
    BY <1>3, <2>1, SinceStep DEF Dot, Flags
  <2>3. Bar' = SourceLine!SourceDot(Bar, "suppressed", last)
    BY <1>1, <2>2, SourceDots, Zenon DEF Bar
  <2>. QED BY <1>1, <2>3 DEF SourceLine!VblEvents
<1>4. CASE ~VblEvent /\ ClearEvent
  <2>1. nmi' = SetVbl(CountDot(nmi), FALSE, last) /\ Since' = SourceLine!OneMore(Since)
    BY <1>4, SinceStep DEF Dot, Flags, last
  <2>2. Bar' = SourceLine!SourceDot(Bar, "clear", last)
    BY <1>1, <2>1, SourceDots, Zenon DEF Bar
  <2>. QED BY <1>1, <2>2 DEF SourceLine!VblEvents
<1>5. CASE ~VblEvent /\ ~ClearEvent
  <2>1. nmi' = CountDot(nmi) /\ Since' = SourceLine!OneMore(Since)
    BY <1>5, SinceStep DEF Dot, Flags
  <2>2. Bar' = SourceLine!SourceDot(Bar, "none", last)
    BY <1>1, <2>1, SourceDots, Zenon DEF Bar
  <2>. QED BY <1>1, <2>2 DEF SourceLine!VblEvents
<1>. QED BY <1>2, <1>3, <1>4, <1>5, Zenon

(* On the CPU's turn a read is early when at most one dot has run since    *)
(* the one of VBL.                                                         *)
LEMMA EarlyIsSince ==
  ASSUME TypeOK, BeamSeen, turn = 3, passing = 0
  PROVE  Since \in 0..2 /\ (Since <= 1 <=> ReadsEarly)
BY PpuBeamAssumption DEF Since, ReadsEarly, BeamSeen, TypeOK, VblLine

LEMMA ReadIsSource ==
  ASSUME TypeOK, BeamSeen, turn = 3, passing = 0,
         NEW n \in NmiLineState, ReadStatus(n), UNCHANGED <<line, dot>>
  PROVE  Bar' = SourceLine!ReadStatus(With(n, Since))
<1>1. Since \in 0..2 /\ ReadsEarly \in BOOLEAN
  BY EarlyIsSince DEF ReadsEarly
<1>2. With(n, Since).since = Since
  BY <1>1, WithFields
<1>3. (With(n, Since).since <= 1) = ReadsEarly
  BY <1>1, <1>2, EarlyIsSince
<1>4. nmi' = StatusRead(n, ReadsEarly) /\ Since' = Since
  BY DEF ReadStatus, Since
<1>5. SourceLine!ReadStatus(With(n, Since))
        = SourceLine!StatusRead(With(n, Since), ReadsEarly)
  BY <1>3, Zenon DEF SourceLine!ReadStatus
<1>. QED BY <1>1, <1>4, <1>5, WithRead, Zenon DEF Bar

LEMMA StepIsSource ==
  ASSUME IInv, Next
  PROVE  SourceLine!NmiNext \/ Bar' = Bar
<1>. TypeOK /\ BeamSeen /\ nmi \in NmiLineState /\ Since \in 0..2
  BY DEF IInv, TypeOK, Since
<1>. AfterChecks(nmi) \in NmiLineState
  BY ChecksType
<1>1. Bar = [vbl |-> nmi.vbl, enable |-> nmi.enable, line_low |-> nmi.line_low,
             low_for |-> nmi.low_for, delay |-> nmi.delay,
             requested |-> nmi.requested,
             cancel_requested |-> nmi.cancel_requested, since |-> Since]
  BY Zenon DEF Bar, With, SourceLine!Source
<1>2. Bar' = [vbl |-> nmi'.vbl, enable |-> nmi'.enable, line_low |-> nmi'.line_low,
              low_for |-> nmi'.low_for, delay |-> nmi'.delay,
              requested |-> nmi'.requested,
              cancel_requested |-> nmi'.cancel_requested, since |-> Since']
  BY Zenon DEF Bar, With, SourceLine!Source
<1>3. SourceLine!AfterChecks(Bar) = With(AfterChecks(nmi), Since)
  BY WithChecks DEF Bar
<1>4. ASSUME UNCHANGED <<nmi, line, dot>>
      PROVE  Bar' = Bar
  BY <1>4, <1>1, <1>2 DEF Since
<1>5. ASSUME nmi' = AfterChecks(nmi), UNCHANGED <<line, dot>>
      PROVE  SourceLine!NmiNext
  <2>1. Since' = Since
    BY <1>5 DEF Since
  <2>2. Bar' = SourceLine!AfterChecks(Bar)
    BY <1>5, <1>3, <2>1, Zenon DEF Bar
  <2>. QED BY <2>2, <1>1, <1>2, Zenon DEF SourceLine!NmiNext
<1>6. ASSUME NEW n \in {nmi, AfterChecks(nmi)}, ReadStatus(n), turn = 3, passing = 0,
             UNCHANGED <<line, dot>>
      PROVE  SourceLine!NmiNext
  <2>1. Bar' = SourceLine!ReadStatus(With(n, Since))
    BY <1>6, ReadIsSource
  <2>2. With(n, Since) \in {Bar, SourceLine!AfterChecks(Bar)}
    BY <1>3 DEF Bar
  <2>. QED BY <2>1, <2>2, <1>1, <1>2, Zenon DEF SourceLine!NmiNext
<1>7. CASE Dot
  BY <1>7, DotIsSource, <1>1, <1>2, Zenon DEF SourceLine!NmiNext
<1>8. CASE CpuTick \/ CpuWritesMask \/ CpuWritesSpriteDma
  BY <1>8, <1>5, Zenon DEF CpuTick, CpuWritesMask, CpuWritesSpriteDma, beamVars
<1>9. CASE CpuReadsStatus
  BY <1>9, <1>6 DEF CpuReadsStatus, CpuTurn, beamVars
<1>10. CASE CpuWritesControl
  <2>1. PICK e \in BOOLEAN : nmi' = ControlWrite(AfterChecks(nmi), e)
    BY <1>10 DEF CpuWritesControl
  <2>2. Since' = Since
    BY <1>10 DEF CpuWritesControl, Since, beamVars
  <2>3. Bar' = SourceLine!ControlWrite(SourceLine!AfterChecks(Bar), e)
    BY <2>1, <2>2, <1>3, WithControl, Zenon DEF Bar
  <2>. QED BY <2>1, <2>3, <1>1, <1>2, Zenon DEF SourceLine!NmiNext
<1>11. CASE Stall
  BY <1>11, <1>4, <1>6 DEF Stall, CpuTurn, beamVars
<1>12. CASE SpriteDma
  BY <1>12, <1>4, <1>6 DEF SpriteDma, beamVars
<1>13. CASE UpdateBeam
  <2>1. nmi' = nmi /\ Since' \in 0..2
    <3>1. (mask.bg /\ mask.sprite) \in BOOLEAN
      BY RenderingType DEF TypeOK
    <3>2. PICK r \in BOOLEAN : Advance(r)
      BY <1>13, <3>1, Zenon DEF UpdateBeam
    <3>3. dot' \in Nat
      BY <3>2, AdvanceType
    <3>. QED BY <1>13, <3>3 DEF UpdateBeam, Since
  <2>2. Bar' = SourceLine!Passed(Bar, Since')
    BY <2>1, WithSince DEF Bar, SourceLine!Passed
  <2>. QED BY <2>1, <2>2, <1>1, <1>2, Zenon DEF SourceLine!NmiNext
<1>. QED
  BY <1>7, <1>8, <1>9, <1>10, <1>11, <1>12, <1>13, Zenon DEF Next

(* ImplementsSource: the beam, at every geometry and however transfers     *)
(* move it, is the NMI source that the CPU is checked against.             *)
THEOREM BeamIsSource == Spec => ImplementsSource
<1>1. Init => SourceLine!NmiInit
  BY PpuBeamAssumption DEF Init, NmiLineInit, Since, VblLine, SourceLine!NmiInit,
     SourceLine!Source, SourceLine!NmiLineInit
<1>. DEFINE source ==
       [vbl |-> nmi.vbl, enable |-> nmi.enable, line_low |-> nmi.line_low,
        low_for |-> nmi.low_for, delay |-> nmi.delay, requested |-> nmi.requested,
        cancel_requested |-> nmi.cancel_requested, since |-> Since]
<1>2. source = Bar /\ source' = Bar'
  BY Zenon DEF Bar, With, SourceLine!Source
<1>3. IInv /\ [Next]_vars => [SourceLine!NmiNext]_source
  <2>1. ASSUME UNCHANGED vars PROVE Bar' = Bar
    BY <2>1 DEF vars, beamVars, Bar, Since
  <2>. QED BY <1>2, <2>1, StepIsSource, Zenon
<1>. QED BY <1>1, <1>3, Induction, PTL DEF Spec, ImplementsSource, SourceLine!NmiSpec

-----------------------------------------------------------------------------
(* VBL and its suppression against the beam.                               *)

(* The dots from the one after VBL is set to the one that clears it. *)
InBlank(l, d) ==
  \/ l = VblLine /\ d >= 2
  \/ l > VblLine /\ l < PreRender
  \/ l = PreRender /\ d <= 1

VblInBlank == nmi.vbl => InBlank(line, dot) \/ clear_passed

(* What the operators on the line do to the flag. *)
LEMMA FlagFields ==
  ASSUME NEW n \in NmiLineState, NEW v \in BOOLEAN, NEW last \in BOOLEAN,
         NEW early \in BOOLEAN, NEW e \in BOOLEAN
  PROVE  /\ CountDot(n).vbl = n.vbl
         /\ AfterChecks(n).vbl = n.vbl
         /\ SetVbl(n, v, last).vbl = v
         /\ ControlWrite(n, e).vbl = n.vbl
         /\ StatusRead(n, early).vbl = FALSE
<1>1. ASSUME NEW m \in NmiLineState, NEW l \in BOOLEAN
      PROVE  UpdateNmiLine(m, l).vbl = m.vbl
  BY DEF UpdateNmiLine, LineFalls, LineRises, NmiLineState
<1>2. CountDot(n).vbl = n.vbl /\ AfterChecks(n).vbl = n.vbl
  BY DEF CountDot, AfterChecks, NmiLineState
<1>3. ASSUME NEW m \in NmiLineState, NEW w \in BOOLEAN, NEW l \in BOOLEAN
      PROVE  SetVbl(m, w, l).vbl = w
  <2>1. [m EXCEPT !.vbl = w] \in NmiLineState /\ [m EXCEPT !.vbl = w].vbl = w
    BY DEF NmiLineState
  <2>. QED BY <2>1, <1>1, Zenon DEF SetVbl
<1>4. ControlWrite(n, e).vbl = n.vbl
  <2>1. /\ [n EXCEPT !.enable = e] \in NmiLineState
        /\ [n EXCEPT !.enable = e].vbl = n.vbl
    BY DEF NmiLineState
  <2>. QED BY <2>1, <1>1, Zenon DEF ControlWrite
<1>5. StatusRead(n, early).vbl = FALSE
  <2>1. PICK b \in BOOLEAN, c \in BOOLEAN :
          b = (n.requested /\ ~early) /\ c = (n.cancel_requested \/ early)
    OBVIOUS
  <2>2. [n EXCEPT !.requested = b, !.cancel_requested = c] \in NmiLineState
    BY DEF NmiLineState
  <2>3. StatusRead(n, early) = SetVbl([n EXCEPT !.requested = b, !.cancel_requested = c], FALSE, TRUE)
    BY <2>1 DEF StatusRead
  <2>4. FALSE \in BOOLEAN /\ TRUE \in BOOLEAN
    OBVIOUS
  <2>. QED BY <2>2, <2>3, <2>4, <1>3, Zenon
<1>. QED BY <1>2, <1>3, <1>4, <1>5

(* The beam leaves the blank only by the dot that clears the flag. *)
LEMMA BlankAdvance ==
  ASSUME TypeOK, NEW r \in BOOLEAN, Advance(r)
  PROVE  /\ InBlank(line, dot) /\ ~ClearEvent => InBlank(line', dot')
         /\ VblEvent => InBlank(line', dot')
BY PpuBeamAssumption DEF TypeOK, Advance, Skips, InBlank, VblLine, ClearEvent, VblEvent

(* On the CPU's turn nothing else of a step moves the beam. *)
LEMMA CpuTurnStep ==
  ASSUME TypeOK, TransferAlone, Next
  PROVE  \/ Dot /\ turn < 3 /\ ~UpdateBeam /\ ~SpriteDma
         \/ UpdateBeam /\ turn = 3 /\ ~Dot /\ passing > 0
         \/ turn = 3 /\ passing = 0 /\ ~Dot /\ ~UpdateBeam /\ UNCHANGED beamVars
<1>1. CASE Dot
  BY <1>1 DEF TransferAlone, Dot, UpdateBeam, SpriteDma, TypeOK
<1>2. CASE UpdateBeam
  BY <1>2 DEF TransferAlone, Dot, UpdateBeam, TypeOK
<1>3. CASE ~Dot /\ ~UpdateBeam
  BY <1>3 DEF Next, CpuTick, CpuTurn, CpuReadsStatus, CpuWritesControl, CpuWritesMask,
     CpuWritesSpriteDma, Stall, SpriteDma, UpdateBeam
<1>. QED BY <1>1, <1>2, <1>3

(* The CPU's turn never sets the flag. *)
LEMMA CpuTurnFlag ==
  ASSUME TypeOK, Next, ~Dot
  PROVE  nmi'.vbl => nmi.vbl
<1>. nmi \in NmiLineState /\ AfterChecks(nmi) \in NmiLineState
  BY ChecksType DEF TypeOK
<1>. TRUE \in BOOLEAN /\ FALSE \in BOOLEAN
  OBVIOUS
<1>1. AfterChecks(nmi).vbl = nmi.vbl
  BY FlagFields
<1>2. ASSUME NEW n \in {nmi, AfterChecks(nmi)}, ReadStatus(n)
      PROVE  ~nmi'.vbl
  <2>1. ReadsEarly \in BOOLEAN
    BY DEF ReadsEarly
  <2>. QED BY <1>2, <2>1, FlagFields, Zenon DEF ReadStatus
<1>3. CASE nmi' = nmi \/ nmi' = AfterChecks(nmi)
  BY <1>1, <1>3, Zenon
<1>4. CASE CpuReadsStatus
  BY <1>2, <1>4, Zenon DEF CpuReadsStatus
<1>5. CASE CpuWritesControl
  <2>1. PICK e \in BOOLEAN : nmi' = ControlWrite(AfterChecks(nmi), e)
    BY <1>5, Zenon DEF CpuWritesControl
  <2>2. ControlWrite(AfterChecks(nmi), e).vbl = AfterChecks(nmi).vbl
    BY FlagFields, ZenonT(40)
  <2>. QED BY <1>1, <2>1, <2>2, Zenon
<1>6. CASE Stall \/ SpriteDma
  BY <1>2, <1>3, <1>6, Zenon DEF Stall, SpriteDma
<1>. QED
  BY <1>3, <1>4, <1>5, <1>6, Zenon DEF Next, CpuTick, CpuWritesMask, CpuWritesSpriteDma,
     UpdateBeam

LEMMA BlankStep ==
  ASSUME IInv, VblInBlank, Next, Observe
  PROVE  VblInBlank'
<1>. USE DEF IInv
<1>0. clear_passed' <=> ( \/ UpdateBeam /\ ClearEvent
                          \/ clear_passed /\ ~(Dot /\ (ClearEvent \/ VblEvent)) )
  BY Zenon DEF Observe
<1>1. CASE Dot /\ ~UpdateBeam
  <2>1. PICK r \in BOOLEAN : Advance(r)
    <3>1. mask' \in MaskState
      BY <1>1, MaskTickType DEF Dot, TypeOK
    <3>. QED BY <1>1, <3>1, RenderingType, Zenon DEF Dot
  <2>2. /\ CountDot(nmi) \in NmiLineState /\ CountDot(nmi).vbl = nmi.vbl
        /\ nmi \in NmiLineState /\ (turn = 2) \in BOOLEAN
    BY CountType, FlagFields DEF TypeOK
  <2>3. CASE VblEvent
    BY <2>1, <2>3, BlankAdvance, Zenon DEF VblInBlank
  <2>4. CASE ~VblEvent /\ ClearEvent
    <3>1. nmi' = SetVbl(CountDot(nmi), FALSE, turn = 2)
      BY <1>1, <2>4 DEF Dot, Flags
    <3>2. FALSE \in BOOLEAN
      OBVIOUS
    <3>3. nmi'.vbl = FALSE
      BY <2>2, <3>1, <3>2, FlagFields, Zenon
    <3>. QED BY <3>3, Zenon DEF VblInBlank
  <2>5. CASE ~VblEvent /\ ~ClearEvent
    <3>1. nmi' = CountDot(nmi)
      BY <1>1, <2>5 DEF Dot, Flags
    <3>. QED BY <1>0, <2>1, <2>2, <2>5, <3>1, BlankAdvance, Zenon DEF VblInBlank
  <2>. QED BY <2>3, <2>4, <2>5
<1>2. CASE UpdateBeam /\ ~Dot
  <2>1. PICK r \in BOOLEAN : Advance(r)
    <3>1. mask \in MaskState
      BY DEF TypeOK
    <3>. QED BY <1>2, <3>1, RenderingType, Zenon DEF UpdateBeam
  <2>2. nmi' = nmi
    BY <1>2 DEF UpdateBeam
  <2>. QED BY <1>0, <1>2, <2>1, <2>2, BlankAdvance, Zenon DEF VblInBlank
<1>3. CASE ~Dot /\ ~UpdateBeam
  <2>1. line' = line /\ dot' = dot
    BY <1>3, CpuTurnStep DEF beamVars
  <2>2. nmi'.vbl => nmi.vbl
    BY <1>3, CpuTurnFlag
  <2>. QED BY <1>0, <1>3, <2>1, <2>2, Zenon DEF VblInBlank
<1>. QED BY <1>1, <1>2, <1>3, CpuTurnStep

(* A read on the dot before VBL sees line and dot where tick will find     *)
(* them: its suppression is consumed by the very next dot.                 *)
LEMMA SuppressionStep ==
  ASSUME IInv, SuppressionIsFresh, Next, Observe
  PROVE  SuppressionIsFresh'
<1>. USE DEF IInv
<1>0. copied' <=> ( \/ SpriteDma /\ vblank_suppressed'
                    \/ copied /\ ~(Dot /\ VblEvent) )
  BY Zenon DEF Observe
<1>1. CASE Dot
  <2>1. vblank_suppressed' <=> vblank_suppressed /\ ~VblEvent
    BY <1>1, Zenon DEF Dot, Flags
  <2>. QED BY <1>0, <2>1, Zenon DEF SuppressionIsFresh
<1>2. CASE ~Dot /\ (vblank_suppressed' => vblank_suppressed \/ SpriteDma)
  <2>1. turn = 3
    BY <1>2, CpuTurnStep
  <2>2. ~(turn = 0)
    BY <2>1
  <2>. QED BY <1>0, <1>2, <2>2, Zenon DEF SuppressionIsFresh
<1>3. ASSUME NEW n, ReadStatus(n), CpuTurn, UNCHANGED beamVars, ~Dot,
             vblank_suppressed', ~vblank_suppressed
      PROVE  (VblEvent /\ turn = 0)'
  <2>1. Suppresses
    BY <1>3, Zenon DEF ReadStatus
  <2>2. line = VblLine /\ dot = 1
    BY <1>3, <2>1, PpuBeamAssumption DEF Suppresses, BeamSeen, CpuTurn, VblLine
  <2>. QED BY <1>3, <2>2 DEF VblEvent, CpuTurn, beamVars, VblLine
<1>4. CASE CpuReadsStatus /\ ~Dot
  BY <1>2, <1>3, <1>4, Zenon DEF CpuReadsStatus, SuppressionIsFresh
<1>5. CASE Stall /\ ~Dot
  BY <1>2, <1>3, <1>5, Zenon DEF Stall, SuppressionIsFresh
<1>6. CASE ~Dot /\ ~CpuReadsStatus /\ ~Stall
  <2>1. vblank_suppressed' = vblank_suppressed \/ SpriteDma
    BY <1>6 DEF Next, CpuTick, CpuWritesControl, CpuWritesMask, CpuWritesSpriteDma,
       UpdateBeam
  <2>. QED BY <1>2, <1>6, <2>1, Zenon
<1>. QED
  BY <1>1, <1>4, <1>5, <1>6

(* The order of the dots: by line, and by dot on a line. *)
LEMMA LineOrder ==
  ASSUME NEW k \in Nat, NEW l \in Nat, k < l
  PROVE  k * Width + Width <= l * Width
<1>1. Width \in Nat
  BY PpuBeamAssumption
<1>2. PICK m \in Nat : l = k + 1 + m
  <2>1. l - k - 1 \in Nat /\ l = k + 1 + (l - k - 1)
    OBVIOUS
  <2>. QED BY <2>1
<1>3. l * Width = k * Width + Width + m * Width
  BY <1>1, <1>2
<1>4. m * Width \in Nat /\ k * Width \in Nat
  BY <1>1
<1>. QED BY <1>1, <1>3, <1>4

LEMMA BlankInOrder ==
  ASSUME TypeOK, InBlank(line, dot)
  PROVE  line * Width + dot \in VblLine * Width + 2 .. PreRender * Width + 1
<1>1. /\ line \in Nat /\ dot \in 0 .. Width - 1 /\ VblLine \in Nat /\ PreRender \in Nat
      /\ VblLine < PreRender /\ Width \in Nat /\ Width >= 2
  BY PpuBeamAssumption DEF TypeOK, VblLine
<1>2. /\ line * Width \in Nat /\ VblLine * Width \in Nat /\ PreRender * Width \in Nat
  BY <1>1
<1>3. VblLine * Width + Width <= PreRender * Width
  BY <1>1, LineOrder
<1>. DEFINE L == line * Width
            V == VblLine * Width
            P == PreRender * Width
<1>4. CASE line = VblLine /\ dot >= 2
  <2>1. L = V
    BY <1>4
  <2>. HIDE DEF L, V, P
  <2>2. L \in Nat /\ V \in Nat /\ P \in Nat /\ V + Width <= P
    BY <1>2, <1>3 DEF L, V, P
  <2>3. L + dot \in V + 2 .. P + 1
    BY <1>1, <1>4, <2>1, <2>2
  <2>. QED BY <2>3 DEF L, V, P
<1>5. CASE line > VblLine /\ line < PreRender
  <2>1. V + Width <= L /\ L + Width <= P
    BY <1>1, <1>5, LineOrder
  <2>2. L \in Nat /\ V \in Nat /\ P \in Nat
    BY <1>2
  <2>. HIDE DEF L, V, P
  <2>3. L + dot \in V + 2 .. P + 1
    BY <1>1, <2>1, <2>2
  <2>. QED BY <2>3 DEF L, V, P
<1>6. CASE line = PreRender /\ dot <= 1
  <2>1. L = P
    BY <1>6
  <2>2. L \in Nat /\ V \in Nat /\ P \in Nat /\ V + Width <= P
    BY <1>2, <1>3
  <2>. HIDE DEF L, V, P
  <2>3. L + dot \in V + 2 .. P + 1
    BY <1>1, <1>6, <2>1, <2>2
  <2>. QED BY <2>3 DEF L, V, P
<1>. QED BY <1>4, <1>5, <1>6 DEF InBlank

LEMMA ObservedInduction == MCSpec => [](IInv /\ VblInBlank /\ SuppressionIsFresh)
<1>1. MCSpec => Spec
  <2>1. MCInit => Init
    BY DEF MCInit
  <2>2. [Next /\ Observe]_MCvars => [Next]_vars
    BY DEF MCvars
  <2>. QED BY <2>1, <2>2, PTL DEF MCSpec, Spec
<1>2. MCInit => VblInBlank /\ SuppressionIsFresh
  <2>1. NmiLineInit.vbl = FALSE
    BY DEF NmiLineInit
  <2>. QED BY <2>1, Zenon DEF MCInit, Init, VblInBlank, SuppressionIsFresh
<1>3. IInv /\ VblInBlank /\ SuppressionIsFresh /\ [Next /\ Observe]_MCvars
        => (VblInBlank /\ SuppressionIsFresh)'
  <2>1. ASSUME VblInBlank, SuppressionIsFresh, UNCHANGED MCvars
        PROVE  (VblInBlank /\ SuppressionIsFresh)'
    BY <2>1 DEF MCvars, vars, beamVars, VblInBlank, InBlank, SuppressionIsFresh, VblEvent,
       VblLine
  <2>. QED BY <2>1, BlankStep, SuppressionStep
<1>. QED BY <1>1, <1>2, <1>3, Induction, PTL DEF MCSpec

(* VblWithinBlank: the flag is up in vertical blank only, at every         *)
(* geometry and however frames are shortened, unless a transfer passed     *)
(* over the dot that clears it.                                            *)
THEOREM VblFlagInBlank == MCSpec => []VblWithinBlank
<1>1. IInv /\ VblInBlank => VblWithinBlank
  BY BlankInOrder, Zenon DEF IInv, VblInBlank, VblWithinBlank
<1>. QED BY <1>1, ObservedInduction, PTL

(* SuppressionIsFresh: a suppressing read takes the flag from the next dot *)
(* and from no other, unless it was the copy of a transfer.                *)
THEOREM SuppressionFresh == MCSpec => []SuppressionIsFresh
BY ObservedInduction, PTL
=============================================================================
