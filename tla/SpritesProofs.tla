---------------------------- MODULE SpritesProofs ----------------------------
(***************************************************************************)
(* Proofs about the sprites of a line, for every number of sprites and of  *)
(* slots and every length of a line: the indices stay within their arrays, *)
(* sprite zero is the first, the evaluation ends, and the next line shows  *)
(* every sprite on it.                                                     *)
(***************************************************************************)
EXTENDS MCSprites, FiniteSetTheorems, SequenceTheorems, TLAPS

-----------------------------------------------------------------------------
(* Addresses                                                               *)

LEMMA PlusType ==
  ASSUME NEW a \in Address, NEW n \in Nat
  PROVE  Plus(a, n) \in Address
BY SpritesAssumption DEF Plus, Address

LEMMA AlignedType ==
  ASSUME NEW a \in Address
  PROVE  Aligned(a) \in Address
BY SpritesAssumption DEF Aligned, Address

LEMMA NextSpriteType ==
  ASSUME NEW a \in Address
  PROVE  NextSprite(a) \in Address
BY PlusType, AlignedType, 4 \in Nat DEF NextSprite

(* The next byte of a sprite is another one's only after its last.         *)
LEMMA PlusOne ==
  ASSUME NEW a \in Address, a % 4 < 3
  PROVE  /\ Plus(a, 1) % 4 = (a % 4) + 1
         /\ Plus(a, 1) \div 4 = a \div 4
<1>1. a + 1 < 4 * Sprites
  BY SpritesAssumption DEF Address
<1>2. Plus(a, 1) = a + 1
  BY <1>1, SpritesAssumption DEF Plus, Address
<1>. QED BY <1>2, SpritesAssumption DEF Address

LEMMA PlusOneLast ==
  ASSUME NEW a \in Address, a % 4 = 3, ~IsLast(a)
  PROVE  /\ Plus(a, 1) % 4 = 0
         /\ Plus(a, 1) \div 4 = (a \div 4) + 1
<1>1. a + 1 < 4 * Sprites
  BY SpritesAssumption DEF Address, IsLast
<1>2. Plus(a, 1) = a + 1
  BY <1>1, SpritesAssumption DEF Plus, Address
<1>. QED BY <1>2, SpritesAssumption DEF Address

LEMMA OntoNext ==
  ASSUME NEW a \in Address, ~IsLast(a)
  PROVE  /\ NextSprite(a) % 4 = 0
         /\ NextSprite(a) \div 4 = (a \div 4) + 1
<1>1. a + 4 < 4 * Sprites
  BY SpritesAssumption DEF Address, IsLast
<1>2. Plus(a, 4) = a + 4
  BY <1>1, SpritesAssumption DEF Plus, Address
<1>. QED BY <1>2, SpritesAssumption DEF Address, NextSprite, Aligned

LEMMA OntoDiagonal ==
  ASSUME NEW a \in Address, ~IsLast(a)
  PROVE  /\ Plus(Aligned(a), 4 + ((a + 1) % 4)) \in Address
         /\ Plus(Aligned(a), 4 + ((a + 1) % 4)) \div 4 = (a \div 4) + 1
<1>1. Aligned(a) + (4 + ((a + 1) % 4)) < 4 * Sprites
  BY SpritesAssumption DEF Address, IsLast, Aligned
<1>2. Plus(Aligned(a), 4 + ((a + 1) % 4)) = Aligned(a) + (4 + ((a + 1) % 4))
  BY <1>1, SpritesAssumption DEF Plus, Address, Aligned
<1>. QED BY <1>2, <1>1, SpritesAssumption DEF Address, Aligned

-----------------------------------------------------------------------------
(* The evaluation keeps its type.                                          *)

LEMMA CopiedType ==
  ASSUME NEW e \in EvalState, e.index < Full
  PROVE  Copied(e) \in EvalState
<1>1. e.index \in 0 .. Full - 1
  BY SpritesAssumption DEF EvalState, Full
<1>2. [e.oam2 EXCEPT ![e.index] = e.oam_buffer] \in [0 .. Full - 1 -> Byte]
  BY <1>1 DEF EvalState
<1>. QED BY <1>2 DEF Copied, EvalState

LEMMA SourceType ==
  ASSUME NEW e \in EvalState, e.index < Full
  PROVE  /\ e.index \div 4 \in 0 .. Slots - 1
         /\ [e.source EXCEPT ![e.index \div 4] = e.oam_address] \in [0 .. Slots - 1 -> Address]
<1>1. e.index \div 4 \in 0 .. Slots - 1
  BY SpritesAssumption DEF EvalState, Full
<1>. QED BY <1>1 DEF EvalState

(* A record of these fields, whatever they range over.                     *)
EvalOver(A, B, C, D, I, J) ==
  [oam_address : A, oam_buffer : B, oam2 : C, source : D, index : I, clear_index : I, byte : J,
   finished : BOOLEAN, overflow_count : J, has_sprite_zero : BOOLEAN, overflow : BOOLEAN]

LEMMA EvalIsOver ==
  EvalState = EvalOver(Address, Byte, [0 .. Full - 1 -> Byte], [0 .. Slots - 1 -> Address],
                       0 .. Full, 0 .. 3)
BY Zenon DEF EvalState, EvalOver

LEMMA OverSource ==
  ASSUME NEW A, NEW B, NEW C, NEW D, NEW I, NEW J, NEW c \in EvalOver(A, B, C, D, I, J),
         NEW source \in D, NEW has \in BOOLEAN, NEW index \in I, NEW address \in A,
         NEW byte \in J
  PROVE  [c EXCEPT !.source = source, !.has_sprite_zero = has, !.index = index,
                   !.oam_address = address, !.byte = byte] \in EvalOver(A, B, C, D, I, J)
BY DEF EvalOver

LEMMA OverMove ==
  ASSUME NEW A, NEW B, NEW C, NEW D, NEW I, NEW J, NEW c \in EvalOver(A, B, C, D, I, J),
         NEW index \in I, NEW address \in A, NEW byte \in J, NEW finished \in BOOLEAN
  PROVE  [c EXCEPT !.index = index, !.oam_address = address, !.byte = byte,
                   !.finished = finished] \in EvalOver(A, B, C, D, I, J)
BY DEF EvalOver

LEMMA SourceFields ==
  ASSUME NEW c \in EvalState, NEW source \in [0 .. Slots - 1 -> Address], NEW has \in BOOLEAN,
         NEW index \in 0 .. Full, NEW address \in Address, NEW byte \in 0 .. 3
  PROVE  [c EXCEPT !.source = source, !.has_sprite_zero = has, !.index = index,
                   !.oam_address = address, !.byte = byte] \in EvalState
<1>1. c \in EvalOver(Address, Byte, [0 .. Full - 1 -> Byte], [0 .. Slots - 1 -> Address],
                   0 .. Full, 0 .. 3)
  BY EvalIsOver, Zenon
<1>2. [c EXCEPT !.source = source, !.has_sprite_zero = has, !.index = index,
                  !.oam_address = address, !.byte = byte]
        \in EvalOver(Address, Byte, [0 .. Full - 1 -> Byte], [0 .. Slots - 1 -> Address],
                   0 .. Full, 0 .. 3)
  BY <1>1, OverSource, Zenon
<1>. QED BY <1>2, EvalIsOver, Zenon

LEMMA MoveFields ==
  ASSUME NEW c \in EvalState, NEW index \in 0 .. Full, NEW address \in Address,
         NEW byte \in 0 .. 3, NEW finished \in BOOLEAN
  PROVE  [c EXCEPT !.index = index, !.oam_address = address, !.byte = byte,
                   !.finished = finished] \in EvalState
<1>1. c \in EvalOver(Address, Byte, [0 .. Full - 1 -> Byte], [0 .. Slots - 1 -> Address],
                   0 .. Full, 0 .. 3)
  BY EvalIsOver, Zenon
<1>2. [c EXCEPT !.index = index, !.oam_address = address, !.byte = byte,
                  !.finished = finished]
        \in EvalOver(Address, Byte, [0 .. Full - 1 -> Byte], [0 .. Slots - 1 -> Address],
                   0 .. Full, 0 .. 3)
  BY <1>1, OverMove, Zenon
<1>. QED BY <1>2, EvalIsOver, Zenon

(* What Found changes in a copy.                                           *)
LEMMA FoundFields ==
  ASSUME NEW e \in EvalState, e.index < Full
  PROVE  /\ Found(e) \in EvalState
         /\ Found(e).index = e.index + 1
         /\ Found(e).oam_address = Plus(e.oam_address, 1)
         /\ Found(e).byte = 1
         /\ Found(e).finished = e.finished
         /\ Found(e).overflow_count = e.overflow_count
         /\ Found(e).source = [e.source EXCEPT ![e.index \div 4] = e.oam_address]
         /\ Found(e).has_sprite_zero = (e.has_sprite_zero \/ dot = LastClear + 2)
         /\ Found(e).oam2 = [e.oam2 EXCEPT ![e.index] = e.oam_buffer]
<1>. DEFINE c == Copied(e)
            source == [e.source EXCEPT ![e.index \div 4] = e.oam_address]
            has == e.has_sprite_zero \/ dot = LastClear + 2
<1>1. c \in EvalState /\ c.source = e.source /\ c.index = e.index /\ c.finished = e.finished
        /\ c.oam_address = e.oam_address /\ c.has_sprite_zero = e.has_sprite_zero
        /\ c.overflow_count = e.overflow_count
        /\ c.oam2 = [e.oam2 EXCEPT ![e.index] = e.oam_buffer]
  BY CopiedType DEF Copied, EvalState
<1>2. source \in [0 .. Slots - 1 -> Address] /\ has \in BOOLEAN
  BY SourceType DEF EvalState
<1>3. e.index + 1 \in 0 .. Full /\ Plus(e.oam_address, 1) \in Address
  BY PlusType, SpritesAssumption, SMTT(30) DEF EvalState, Full
<1>4. Found(e) = [c EXCEPT !.source = source, !.has_sprite_zero = has,
                           !.index = e.index + 1, !.oam_address = Plus(e.oam_address, 1),
                           !.byte = 1]
  BY <1>1 DEF Found
<1>. HIDE DEF c, source, has
<1>5. Found(e) \in EvalState
  <2>1. 1 \in 0 .. 3
    OBVIOUS
  <2>2. [c EXCEPT !.source = source, !.has_sprite_zero = has, !.index = e.index + 1,
                  !.oam_address = Plus(e.oam_address, 1), !.byte = 1] \in EvalState
    BY <1>1, <1>2, <1>3, <2>1, SourceFields
  <2>. QED BY <1>4, <2>2
<1>6. /\ Found(e).index = e.index + 1
      /\ Found(e).oam_address = Plus(e.oam_address, 1)
      /\ Found(e).byte = 1
      /\ Found(e).finished = e.finished
      /\ Found(e).overflow_count = e.overflow_count
      /\ Found(e).source = source
      /\ Found(e).has_sprite_zero = has
      /\ Found(e).oam2 = [e.oam2 EXCEPT ![e.index] = e.oam_buffer]
  BY <1>1, <1>4 DEF EvalState
<1>. QED BY <1>5, <1>6 DEF source, has

LEMMA NotFoundFields ==
  ASSUME NEW e \in EvalState, e.index < Full
  PROVE  /\ NotFound(e) \in EvalState
         /\ NotFound(e).index = e.index
         /\ NotFound(e).oam_address = NextSprite(e.oam_address)
         /\ NotFound(e).byte = e.byte
         /\ NotFound(e).finished = IsLast(e.oam_address)
         /\ NotFound(e).overflow_count = e.overflow_count
         /\ NotFound(e).source = e.source
         /\ NotFound(e).has_sprite_zero = e.has_sprite_zero
         /\ NotFound(e).oam2 = [e.oam2 EXCEPT ![e.index] = e.oam_buffer]
<1>. DEFINE c == Copied(e)
<1>1. c \in EvalState /\ c.source = e.source /\ c.index = e.index /\ c.byte = e.byte
        /\ c.oam_address = e.oam_address /\ c.has_sprite_zero = e.has_sprite_zero
        /\ c.overflow_count = e.overflow_count
        /\ c.oam2 = [e.oam2 EXCEPT ![e.index] = e.oam_buffer]
  BY CopiedType DEF Copied, EvalState
<1>2. NextSprite(e.oam_address) \in Address /\ IsLast(e.oam_address) \in BOOLEAN
  BY NextSpriteType DEF EvalState, IsLast
<1>3. NotFound(e) = [c EXCEPT !.oam_address = NextSprite(e.oam_address),
                              !.finished = IsLast(e.oam_address)]
  BY <1>1 DEF NotFound
<1>. HIDE DEF c
<1>. QED BY <1>1, <1>2, <1>3 DEF EvalState

LEMMA CopyFields ==
  ASSUME NEW e \in EvalState, e.index < Full, e.byte < 3
  PROVE  /\ CopyByte(e) \in EvalState
         /\ CopyByte(e).index = e.index + 1
         /\ CopyByte(e).oam_address = Plus(e.oam_address, 1)
         /\ CopyByte(e).byte = e.byte + 1
         /\ CopyByte(e).finished = e.finished
         /\ CopyByte(e).overflow_count = e.overflow_count
         /\ CopyByte(e).source = e.source
         /\ CopyByte(e).has_sprite_zero = e.has_sprite_zero
         /\ CopyByte(e).oam2 = [e.oam2 EXCEPT ![e.index] = e.oam_buffer]
<1>. DEFINE c == Copied(e)
<1>1. c \in EvalState /\ c.source = e.source /\ c.index = e.index /\ c.byte = e.byte
        /\ c.oam_address = e.oam_address /\ c.has_sprite_zero = e.has_sprite_zero
        /\ c.overflow_count = e.overflow_count /\ c.finished = e.finished
        /\ c.oam2 = [e.oam2 EXCEPT ![e.index] = e.oam_buffer]
  BY CopiedType DEF Copied, EvalState
<1>2. e.index + 1 \in 0 .. Full /\ e.byte + 1 \in 0 .. 3
  BY SpritesAssumption DEF EvalState, Full
<1>3. Plus(e.oam_address, 1) \in Address
  BY PlusType DEF EvalState
<1>4. CopyByte(e) = [c EXCEPT !.index = e.index + 1, !.oam_address = Plus(e.oam_address, 1),
                              !.byte = e.byte + 1]
  BY <1>1 DEF CopyByte
<1>. HIDE DEF c
<1>5. CopyByte(e) \in EvalState
  <2>1. c.finished \in BOOLEAN
    BY <1>1 DEF EvalState
  <2>2. CopyByte(e) = [c EXCEPT !.index = e.index + 1, !.oam_address = Plus(e.oam_address, 1),
                                !.byte = e.byte + 1, !.finished = c.finished]
    BY <1>1, <1>4 DEF EvalState
  <2>3. [c EXCEPT !.index = e.index + 1, !.oam_address = Plus(e.oam_address, 1),
                  !.byte = e.byte + 1, !.finished = c.finished] \in EvalState
    BY <1>1, <1>2, <1>3, <2>1, MoveFields
  <2>. QED BY <2>2, <2>3
<1>. QED BY <1>1, <1>4, <1>5 DEF EvalState

LEMMA CopyLastFields ==
  ASSUME NEW e \in EvalState, e.index < Full
  PROVE  /\ CopyLastByte(e) \in EvalState
         /\ CopyLastByte(e).index = e.index + 1
         /\ CopyLastByte(e).oam_address = Plus(e.oam_address, 1)
         /\ CopyLastByte(e).byte = 0
         /\ CopyLastByte(e).finished = IsLast(e.oam_address)
         /\ CopyLastByte(e).overflow_count = e.overflow_count
         /\ CopyLastByte(e).source = e.source
         /\ CopyLastByte(e).has_sprite_zero = e.has_sprite_zero
         /\ CopyLastByte(e).oam2 = [e.oam2 EXCEPT ![e.index] = e.oam_buffer]
<1>. DEFINE c == Copied(e)
<1>1. c \in EvalState /\ c.source = e.source /\ c.index = e.index
        /\ c.oam_address = e.oam_address /\ c.has_sprite_zero = e.has_sprite_zero
        /\ c.overflow_count = e.overflow_count
        /\ c.oam2 = [e.oam2 EXCEPT ![e.index] = e.oam_buffer]
  BY CopiedType DEF Copied, EvalState
<1>2. /\ e.index + 1 \in 0 .. Full /\ Plus(e.oam_address, 1) \in Address
      /\ IsLast(e.oam_address) \in BOOLEAN
  BY PlusType, SpritesAssumption, SMTT(30) DEF EvalState, Full, IsLast
<1>3. CopyLastByte(e) = [c EXCEPT !.index = e.index + 1,
                                  !.oam_address = Plus(e.oam_address, 1),
                                  !.byte = 0, !.finished = IsLast(e.oam_address)]
  BY <1>1 DEF CopyLastByte
<1>. HIDE DEF c
<1>4. CopyLastByte(e) \in EvalState
  <2>1. 0 \in 0 .. 3
    OBVIOUS
  <2>2. [c EXCEPT !.index = e.index + 1, !.oam_address = Plus(e.oam_address, 1),
                  !.byte = 0, !.finished = IsLast(e.oam_address)] \in EvalState
    BY <1>1, <1>2, <2>1, MoveFields
  <2>. QED BY <1>3, <2>2
<1>. QED BY <1>1, <1>3, <1>4 DEF EvalState

LEMMA OverSearch ==
  ASSUME NEW A, NEW B, NEW C, NEW D, NEW I, NEW J, NEW e \in EvalOver(A, B, C, D, I, J),
         NEW address \in A, NEW count \in J, NEW finished \in BOOLEAN, NEW overflow \in BOOLEAN,
         NEW buffer \in B
  PROVE  [e EXCEPT !.oam_address = address, !.overflow_count = count, !.finished = finished,
                   !.overflow = overflow, !.oam_buffer = buffer] \in EvalOver(A, B, C, D, I, J)
BY DEF EvalOver

LEMMA SearchFields ==
  ASSUME NEW e \in EvalState, NEW address \in Address, NEW count \in 0 .. 3,
         NEW finished \in BOOLEAN, NEW overflow \in BOOLEAN, NEW buffer \in Byte
  PROVE  [e EXCEPT !.oam_address = address, !.overflow_count = count, !.finished = finished,
                   !.overflow = overflow, !.oam_buffer = buffer] \in EvalState
<1>1. e \in EvalOver(Address, Byte, [0 .. Full - 1 -> Byte], [0 .. Slots - 1 -> Address],
                     0 .. Full, 0 .. 3)
  BY EvalIsOver, Zenon
<1>2. [e EXCEPT !.oam_address = address, !.overflow_count = count, !.finished = finished,
                !.overflow = overflow, !.oam_buffer = buffer]
        \in EvalOver(Address, Byte, [0 .. Full - 1 -> Byte], [0 .. Slots - 1 -> Address],
                     0 .. Full, 0 .. 3)
  BY <1>1, OverSearch, Zenon
<1>. QED BY <1>2, EvalIsOver, Zenon

(* What the search beyond the last slot leaves alone, how it counts down,   *)
(* and that it moves on by a sprite as long as it finds none.               *)
LEMMA OverflowingFields ==
  ASSUME NEW e \in EvalState
  PROVE  /\ Overflowing(e) \in EvalState
         /\ Overflowing(e).index = e.index /\ Overflowing(e).byte = e.byte
         /\ Overflowing(e).source = e.source
         /\ Overflowing(e).has_sprite_zero = e.has_sprite_zero
         /\ Overflowing(e).oam2 = e.oam2
         /\ e.overflow_count > 0 => /\ Overflowing(e).overflow_count = e.overflow_count - 1
                                    /\ e.overflow_count = 1 => Overflowing(e).finished
         /\ e.overflow_count = 0 =>
              \/ Overflowing(e).overflow_count = 3
              \/ /\ Overflowing(e).overflow_count = 0
                 /\ Overflowing(e).finished = IsLast(e.oam_address)
                 /\ ~IsLast(e.oam_address) =>
                      Overflowing(e).oam_address \div 4 = (e.oam_address \div 4) + 1
<1>. DEFINE a == e.oam_address
            count == e.overflow_count
            f == Overflowing(e)
            Moves(address, c, finished, overflow) ==
              /\ f = [e EXCEPT !.oam_address = address, !.overflow_count = c,
                               !.finished = finished, !.overflow = overflow,
                               !.oam_buffer = e.oam_buffer]
              /\ count > 0 => c = count - 1 /\ (count = 1 => finished)
              /\ count = 0 => \/ c = 3
                              \/ /\ c = 0 /\ finished = IsLast(a)
                                 /\ address = Plus(Aligned(a), 4 + ((a + 1) % 4))
<1>1. /\ a \in Address /\ count \in 0 .. 3 /\ e.finished \in BOOLEAN /\ e.overflow \in BOOLEAN
      /\ e.oam_buffer \in Byte
  BY DEF EvalState
<1>2. /\ Plus(a, 1) \in Address
      /\ Aligned(IF a % 4 = 3 THEN Plus(a, 1) ELSE a) \in Address
      /\ Plus(Aligned(a), 4 + ((a + 1) % 4)) \in Address
  <2>1. Plus(a, 1) \in Address /\ Aligned(a) \in Address
    BY <1>1, PlusType, AlignedType
  <2>2. 4 + ((a + 1) % 4) \in Nat
    BY <1>1 DEF Address
  <2>. QED BY <1>1, <2>1, <2>2, PlusType, AlignedType
<1>3. \E address \in Address, c \in 0 .. 3, finished \in BOOLEAN, overflow \in BOOLEAN :
        Moves(address, c, finished, overflow)
  <2>1. CASE count > 1
    <3>1. f = [e EXCEPT !.overflow_count = count - 1, !.oam_address = Plus(a, 1)]
      BY <2>1, <1>1 DEF Overflowing
    <3>2. f = [e EXCEPT !.oam_address = Plus(a, 1), !.overflow_count = count - 1,
                        !.finished = e.finished, !.overflow = e.overflow,
                        !.oam_buffer = e.oam_buffer]
      BY <3>1 DEF EvalState
    <3>3. count - 1 \in 0 .. 3 /\ count # 0 /\ count # 1
      BY <2>1, <1>1
    <3>4. Moves(Plus(a, 1), count - 1, e.finished, e.overflow)
      BY <3>2, <3>3
    <3>. HIDE DEF f, count, a, Moves
    <3>. QED BY <1>1, <1>2, <3>3, <3>4
  <2>2. CASE count = 1
    <3>1. f = [e EXCEPT !.overflow_count = 0, !.finished = TRUE,
                        !.oam_address = Aligned(IF a % 4 = 3 THEN Plus(a, 1) ELSE a)]
      BY <2>2, <1>1 DEF Overflowing
    <3>2. f = [e EXCEPT !.oam_address = Aligned(IF a % 4 = 3 THEN Plus(a, 1) ELSE a),
                        !.overflow_count = 0, !.finished = TRUE, !.overflow = e.overflow,
                        !.oam_buffer = e.oam_buffer]
      BY <3>1 DEF EvalState
    <3>3. Moves(Aligned(IF a % 4 = 3 THEN Plus(a, 1) ELSE a), 0, TRUE, e.overflow)
      BY <3>2, <2>2
    <3>. HIDE DEF f, count, a, Moves
    <3>4. 0 \in 0 .. 3 /\ TRUE \in BOOLEAN
      OBVIOUS
    <3>. QED BY <1>1, <1>2, <3>3, <3>4, Zenon
  <2>3. CASE count = 0 /\ InRange(e.oam_buffer)
    <3>1. f = [e EXCEPT !.overflow = TRUE, !.overflow_count = 3, !.oam_address = Plus(a, 1)]
      BY <2>3, <1>1 DEF Overflowing
    <3>2. f = [e EXCEPT !.oam_address = Plus(a, 1), !.overflow_count = 3,
                        !.finished = e.finished, !.overflow = TRUE,
                        !.oam_buffer = e.oam_buffer]
      BY <3>1 DEF EvalState
    <3>3. Moves(Plus(a, 1), 3, e.finished, TRUE)
      BY <3>2, <2>3
    <3>. HIDE DEF f, count, a, Moves
    <3>4. 3 \in 0 .. 3 /\ TRUE \in BOOLEAN
      OBVIOUS
    <3>. QED BY <1>1, <1>2, <3>3, <3>4, Zenon
  <2>4. CASE count = 0 /\ ~InRange(e.oam_buffer)
    <3>1. f = [e EXCEPT !.oam_address = Plus(Aligned(a), 4 + ((a + 1) % 4)),
                        !.finished = IsLast(a)]
      BY <2>4, <1>1 DEF Overflowing
    <3>2. f = [e EXCEPT !.oam_address = Plus(Aligned(a), 4 + ((a + 1) % 4)),
                        !.overflow_count = 0, !.finished = IsLast(a),
                        !.overflow = e.overflow, !.oam_buffer = e.oam_buffer]
      BY <3>1, <2>4 DEF EvalState
    <3>3. IsLast(a) \in BOOLEAN
      BY DEF IsLast
    <3>4. Moves(Plus(Aligned(a), 4 + ((a + 1) % 4)), 0, IsLast(a), e.overflow)
      BY <3>2, <2>4
    <3>. HIDE DEF f, count, a, Moves
    <3>. QED BY <1>1, <1>2, <3>3, <3>4
  <2>5. count > 1 \/ count = 1 \/ count = 0
    BY <1>1
  <2>. HIDE DEF f, count, a, Moves
  <2>. QED BY <2>1, <2>2, <2>3, <2>4, <2>5
<1>4. PICK address \in Address, c \in 0 .. 3, finished \in BOOLEAN, overflow \in BOOLEAN :
        Moves(address, c, finished, overflow)
  BY <1>3
<1>5. f \in EvalState
  <2>1. [e EXCEPT !.oam_address = address, !.overflow_count = c, !.finished = finished,
                  !.overflow = overflow, !.oam_buffer = e.oam_buffer] \in EvalState
    BY <1>1, SearchFields
  <2>. QED BY <2>1, <1>4
<1>6. /\ f.index = e.index /\ f.byte = e.byte /\ f.source = e.source
      /\ f.has_sprite_zero = e.has_sprite_zero /\ f.oam2 = e.oam2
      /\ f.overflow_count = c /\ f.finished = finished /\ f.oam_address = address
  BY <1>4 DEF EvalState
<1>7. ~IsLast(a) => Plus(Aligned(a), 4 + ((a + 1) % 4)) \div 4 = (a \div 4) + 1
  BY <1>1, OntoDiagonal
<1>. HIDE DEF f, count, a
<1>8. /\ count > 0 => f.overflow_count = count - 1 /\ (count = 1 => f.finished)
      /\ count = 0 => \/ f.overflow_count = 3
                      \/ /\ f.overflow_count = 0 /\ f.finished = IsLast(a)
                         /\ ~IsLast(a) => f.oam_address \div 4 = (a \div 4) + 1
  BY <1>4, <1>6, <1>7
<1>. QED BY <1>5, <1>6, <1>8 DEF f, count, a

(* The six steps of the evaluation and when each is taken.                 *)
LEMMA EvalStepCases ==
  ASSUME NEW e \in EvalState
  PROVE  \/ /\ e.finished
            /\ EvalStep(e) = [e EXCEPT !.oam_buffer = e.oam2[e.index % Full],
                                       !.oam_address = NextSprite(e.oam_address)]
         \/ /\ ~e.finished /\ e.index = Full
            /\ EvalStep(e) = [Overflowing(e) EXCEPT !.oam_buffer = e.oam2[0]]
         \/ /\ ~e.finished /\ e.index < Full /\ e.byte = 0
            /\ InRange(e.oam_buffer) /\ EvalStep(e) = Found(e)
         \/ /\ ~e.finished /\ e.index < Full /\ e.byte = 0
            /\ ~InRange(e.oam_buffer) /\ EvalStep(e) = NotFound(e)
         \/ ~e.finished /\ e.index < Full /\ e.byte \in {1, 2} /\ EvalStep(e) = CopyByte(e)
         \/ ~e.finished /\ e.index < Full /\ e.byte = 3 /\ EvalStep(e) = CopyLastByte(e)
<1>0. e.index \in 0 .. Full /\ e.byte \in 0 .. 3 /\ e.finished \in BOOLEAN
  BY DEF EvalState
<1>1. /\ e.index < Full \/ e.index = Full
      /\ ~(e.index < Full /\ e.index = Full)
      /\ e.byte = 0 \/ e.byte \in {1, 2} \/ e.byte = 3
      /\ e.finished \in BOOLEAN
      /\ 0 \notin {1, 2} /\ 3 \notin {1, 2} /\ 0 # 3
  BY <1>0, SpritesAssumption DEF Full
<1>2. CASE e.finished
  BY <1>2, Zenon DEF EvalStep
<1>3. CASE ~e.finished /\ e.index = Full
  BY <1>1, <1>3, Zenon DEF EvalStep
<1>4. CASE ~e.finished /\ e.index < Full
  <2>1. CASE e.byte = 0 /\ InRange(e.oam_buffer)
    BY <1>1, <1>4, <2>1, Zenon DEF EvalStep
  <2>2. CASE e.byte = 0 /\ ~InRange(e.oam_buffer)
    BY <1>1, <1>4, <2>2, Zenon DEF EvalStep
  <2>3. CASE e.byte \in {1, 2}
    BY <1>1, <1>4, <2>3, Zenon DEF EvalStep
  <2>4. CASE e.byte = 3
    BY <1>1, <1>4, <2>4, Zenon DEF EvalStep
  <2>. QED BY <1>1, <2>1, <2>2, <2>3, <2>4
<1>. QED BY <1>1, <1>2, <1>3, <1>4

(* What the step taken when the evaluation has ended, or secondary OAM is  *)
(* full, changes.                                                          *)
LEMMA FinishedFields ==
  ASSUME NEW e \in EvalState, e.finished,
         EvalStep(e) = [e EXCEPT !.oam_buffer = e.oam2[e.index % Full],
                                 !.oam_address = NextSprite(e.oam_address)]
  PROVE  /\ EvalStep(e) \in EvalState
         /\ EvalStep(e).finished
         /\ EvalStep(e).index = e.index /\ EvalStep(e).byte = e.byte
         /\ EvalStep(e).source = e.source
         /\ EvalStep(e).has_sprite_zero = e.has_sprite_zero
         /\ EvalStep(e).oam2 = e.oam2
<1>. DEFINE buffer == e.oam2[e.index % Full]
            address == NextSprite(e.oam_address)
            f == EvalStep(e)
<1>1. e.index % Full \in 0 .. Full - 1
  <2>1. Full \in Nat /\ Full > 0
    BY SpritesAssumption DEF Full
  <2>2. e.index \in Nat
    BY <2>1 DEF EvalState
  <2>. QED BY <2>1, <2>2
<1>2. buffer \in Byte /\ address \in Address
  BY <1>1, NextSpriteType DEF EvalState
<1>. HIDE DEF buffer, address
<1>3. f = [e EXCEPT !.oam_address = address, !.overflow_count = e.overflow_count,
                    !.finished = e.finished, !.overflow = e.overflow, !.oam_buffer = buffer]
  BY DEF EvalState, buffer, address
<1>4. /\ e.overflow_count \in 0 .. 3 /\ e.finished \in BOOLEAN /\ e.overflow \in BOOLEAN
  BY DEF EvalState
<1>. HIDE DEF f
<1>5. [e EXCEPT !.oam_address = address, !.overflow_count = e.overflow_count,
                !.finished = e.finished, !.overflow = e.overflow, !.oam_buffer = buffer]
        \in EvalState
  BY <1>2, <1>4, SearchFields
<1>6. f \in EvalState
  BY <1>3, <1>5
<1>7. /\ f.finished = e.finished /\ f.index = e.index /\ f.byte = e.byte
      /\ f.source = e.source /\ f.has_sprite_zero = e.has_sprite_zero /\ f.oam2 = e.oam2
  BY <1>3 DEF EvalState
<1>. QED BY <1>6, <1>7 DEF f

LEMMA FullFields ==
  ASSUME NEW e \in EvalState,
         EvalStep(e) = [Overflowing(e) EXCEPT !.oam_buffer = e.oam2[0]]
  PROVE  /\ EvalStep(e) \in EvalState
         /\ EvalStep(e).finished = Overflowing(e).finished
         /\ EvalStep(e).overflow_count = Overflowing(e).overflow_count
         /\ EvalStep(e).oam_address = Overflowing(e).oam_address
         /\ EvalStep(e).index = e.index /\ EvalStep(e).byte = e.byte
         /\ EvalStep(e).source = e.source
         /\ EvalStep(e).has_sprite_zero = e.has_sprite_zero
         /\ EvalStep(e).oam2 = e.oam2
<1>. DEFINE o == Overflowing(e)
            f == EvalStep(e)
            buffer == e.oam2[0]
<1>1. /\ o \in EvalState /\ o.index = e.index /\ o.byte = e.byte /\ o.source = e.source
      /\ o.has_sprite_zero = e.has_sprite_zero /\ o.oam2 = e.oam2
  BY OverflowingFields
<1>2. 0 \in 0 .. Full - 1
  BY SpritesAssumption DEF Full
<1>3. buffer \in Byte
  BY <1>2 DEF EvalState
<1>4. f = [o EXCEPT !.oam_buffer = buffer]
  OBVIOUS
<1>. HIDE DEF o, f, buffer
<1>5. /\ o.overflow_count \in 0 .. 3 /\ o.finished \in BOOLEAN /\ o.overflow \in BOOLEAN
      /\ o.oam_address \in Address
  BY <1>1 DEF EvalState
<1>6. f = [o EXCEPT !.oam_address = o.oam_address, !.overflow_count = o.overflow_count,
                    !.finished = o.finished, !.overflow = o.overflow, !.oam_buffer = buffer]
  BY <1>1, <1>4 DEF EvalState
<1>7. [o EXCEPT !.oam_address = o.oam_address, !.overflow_count = o.overflow_count,
                !.finished = o.finished, !.overflow = o.overflow, !.oam_buffer = buffer]
        \in EvalState
  BY <1>1, <1>3, <1>5, SearchFields, ZenonT(40)
<1>8. f \in EvalState
  BY <1>6, <1>7
<1>9. /\ f.finished = o.finished /\ f.overflow_count = o.overflow_count
      /\ f.oam_address = o.oam_address /\ f.index = e.index /\ f.byte = e.byte
      /\ f.source = e.source /\ f.has_sprite_zero = e.has_sprite_zero /\ f.oam2 = e.oam2
  BY <1>1, <1>4 DEF EvalState
<1>. QED BY <1>8, <1>9 DEF f, o

LEMMA EvalStepType ==
  ASSUME NEW e \in EvalState
  PROVE  EvalStep(e) \in EvalState
<1>1. CASE e.finished /\ EvalStep(e) = [e EXCEPT !.oam_buffer = e.oam2[e.index % Full],
                                                !.oam_address = NextSprite(e.oam_address)]
  BY <1>1, FinishedFields, Zenon
<1>2. CASE EvalStep(e) = [Overflowing(e) EXCEPT !.oam_buffer = e.oam2[0]]
  BY <1>2, FullFields, Zenon
<1>3. CASE e.index < Full /\ EvalStep(e) = Found(e)
  BY <1>3, FoundFields, Zenon
<1>4. CASE e.index < Full /\ EvalStep(e) = NotFound(e)
  BY <1>4, NotFoundFields, Zenon
<1>5. CASE e.index < Full /\ e.byte \in {1, 2} /\ EvalStep(e) = CopyByte(e)
  <2>1. e.byte < 3
    BY <1>5
  <2>. QED BY <1>5, <2>1, CopyFields, Zenon
<1>6. CASE e.index < Full /\ EvalStep(e) = CopyLastByte(e)
  BY <1>6, CopyLastFields, Zenon
<1>. QED BY EvalStepCases, <1>1, <1>2, <1>3, <1>4, <1>5, <1>6, Zenon

-----------------------------------------------------------------------------
(* The evaluation's progress.                                              *)

(* The place in secondary OAM, in OAM and in the sprite agree.             *)
InSync(e) == e.index < Full => e.byte = e.index % 4

(* The steps done before the evaluation has ended: one for each sprite     *)
(* passed, three more for each one copied, and up to three for the one     *)
(* that is too many.                                                       *)
Work(e, done) ==
  /\ InSync(e)
  /\ e.index < Full =>
       /\ e.oam_address % 4 = e.byte /\ e.overflow_count = 0
       /\ done = (e.oam_address \div 4) + 3 * (e.index \div 4) + e.byte
  /\ e.index = Full /\ e.overflow_count = 0 => done = (e.oam_address \div 4) + 3 * Slots
  /\ e.overflow_count > 0 => done <= Sprites + 3 * Slots + 3 - e.overflow_count

LEMMA WorkGoesOn ==
  ASSUME NEW e \in EvalState, NEW done \in Nat, e.finished \/ Work(e, done)
  PROVE  EvalStep(e).finished \/ Work(EvalStep(e), done + 1)
<1>. DEFINE f == EvalStep(e)
<1>0. /\ e.index \in Nat /\ e.byte \in 0 .. 3 /\ e.oam_address \in Address
      /\ e.oam_address \in Nat /\ e.overflow_count \in 0 .. 3
      /\ e.oam_address \div 4 < Sprites /\ Slots \in Nat /\ Sprites \in Nat
  BY SpritesAssumption DEF EvalState, Address, Full
<1>1. CASE e.finished /\ EvalStep(e) = [e EXCEPT !.oam_buffer = e.oam2[e.index % Full],
                                                !.oam_address = NextSprite(e.oam_address)]
  BY <1>1, FinishedFields, Zenon
<1>2. CASE ~e.finished /\ e.index = Full
             /\ EvalStep(e) = [Overflowing(e) EXCEPT !.oam_buffer = e.oam2[0]]
  <2>. DEFINE o == Overflowing(e)
  <2>1. /\ f.finished = o.finished /\ f.overflow_count = o.overflow_count
        /\ f.oam_address = o.oam_address /\ f.index = Full
    BY <1>2, FullFields
  <2>2. /\ e.overflow_count > 0 => /\ o.overflow_count = e.overflow_count - 1
                                   /\ e.overflow_count = 1 => o.finished
        /\ e.overflow_count = 0 =>
             \/ o.overflow_count = 3
             \/ /\ o.overflow_count = 0
                /\ o.finished = IsLast(e.oam_address)
                /\ ~IsLast(e.oam_address) =>
                     o.oam_address \div 4 = (e.oam_address \div 4) + 1
    BY OverflowingFields
  <2>. HIDE DEF o, f
  <2>3. ~(Full < Full)
    BY SpritesAssumption DEF Full
  <2>. SUFFICES ASSUME ~f.finished PROVE Work(f, done + 1)
    BY DEF f
  <2>4. CASE e.overflow_count > 0
    BY <1>0, <1>2, <2>1, <2>2, <2>3, <2>4 DEF Work, InSync
  <2>5. CASE e.overflow_count = 0 /\ o.overflow_count = 3
    BY <1>0, <1>2, <2>1, <2>2, <2>3, <2>5 DEF Work, InSync
  <2>6. CASE e.overflow_count = 0 /\ o.overflow_count = 0 /\ ~IsLast(e.oam_address)
               /\ o.oam_address \div 4 = (e.oam_address \div 4) + 1
    BY <1>0, <1>2, <2>1, <2>3, <2>6 DEF Work, InSync
  <2>. QED BY <1>0, <2>1, <2>2, <2>4, <2>5, <2>6
<1>3. CASE ~e.finished /\ e.index < Full /\ e.byte = 0 /\ EvalStep(e) = Found(e)
  <2>1. /\ f.index = e.index + 1 /\ f.byte = 1 /\ f.overflow_count = e.overflow_count
        /\ f.oam_address = Plus(e.oam_address, 1)
    BY <1>3, FoundFields
  <2>2. /\ f.oam_address % 4 = 1 /\ f.oam_address \div 4 = e.oam_address \div 4
        /\ e.oam_address % 4 = 0 /\ e.index % 4 = 0
    BY <1>0, <1>3, <2>1, PlusOne DEF Work, InSync
  <2>. HIDE DEF f
  <2>3. (e.index + 1) % 4 = 1 /\ (e.index + 1) \div 4 = e.index \div 4 /\ e.index + 1 # Full
    BY <1>0, <2>2, SpritesAssumption DEF Full
  <2>4. Work(f, done + 1)
    BY <1>0, <1>3, <2>1, <2>2, <2>3 DEF Work, InSync
  <2>. QED BY <2>4 DEF f
<1>4. CASE ~e.finished /\ e.index < Full /\ e.byte = 0 /\ EvalStep(e) = NotFound(e)
  <2>1. /\ f.index = e.index /\ f.byte = 0 /\ f.overflow_count = e.overflow_count
        /\ f.oam_address = NextSprite(e.oam_address) /\ f.finished = IsLast(e.oam_address)
    BY <1>4, NotFoundFields
  <2>. HIDE DEF f
  <2>. SUFFICES ASSUME ~f.finished PROVE Work(f, done + 1)
    BY DEF f
  <2>2. f.oam_address % 4 = 0 /\ f.oam_address \div 4 = (e.oam_address \div 4) + 1
    BY <1>0, <2>1, OntoNext
  <2>3. /\ e.index % 4 = 0 /\ e.overflow_count = 0 /\ e.index # Full
        /\ done = (e.oam_address \div 4) + 3 * (e.index \div 4)
    BY <1>0, <1>4, SpritesAssumption DEF Work, InSync, Full
  <2>. QED BY <1>0, <1>4, <2>1, <2>2, <2>3 DEF Work, InSync
<1>5. CASE ~e.finished /\ e.index < Full /\ e.byte \in {1, 2} /\ EvalStep(e) = CopyByte(e)
  <2>0. e.byte < 3
    BY <1>5
  <2>1. /\ f.index = e.index + 1 /\ f.byte = e.byte + 1
        /\ f.overflow_count = e.overflow_count /\ f.oam_address = Plus(e.oam_address, 1)
    BY <1>5, <2>0, CopyFields
  <2>2. /\ f.oam_address % 4 = e.byte + 1 /\ f.oam_address \div 4 = e.oam_address \div 4
        /\ e.index % 4 = e.byte
    BY <1>0, <1>5, <2>0, <2>1, PlusOne DEF Work, InSync
  <2>. HIDE DEF f
  <2>3. /\ (e.index + 1) % 4 = e.byte + 1 /\ (e.index + 1) \div 4 = e.index \div 4
        /\ e.index + 1 # Full
    BY <1>0, <2>0, <2>2, SpritesAssumption DEF Full
  <2>4. Work(f, done + 1)
    BY <1>0, <1>5, <2>1, <2>2, <2>3 DEF Work, InSync
  <2>. QED BY <2>4 DEF f
<1>6. CASE ~e.finished /\ e.index < Full /\ e.byte = 3 /\ EvalStep(e) = CopyLastByte(e)
  <2>1. /\ f.index = e.index + 1 /\ f.byte = 0 /\ f.overflow_count = e.overflow_count
        /\ f.oam_address = Plus(e.oam_address, 1) /\ f.finished = IsLast(e.oam_address)
    BY <1>6, CopyLastFields
  <2>. HIDE DEF f
  <2>. SUFFICES ASSUME ~f.finished PROVE Work(f, done + 1)
    BY DEF f
  <2>2. e.oam_address % 4 = 3 /\ e.index % 4 = 3
    BY <1>6 DEF Work, InSync
  <2>3. f.oam_address % 4 = 0 /\ f.oam_address \div 4 = (e.oam_address \div 4) + 1
    BY <1>0, <2>1, <2>2, PlusOneLast
  <2>4. (e.index + 1) % 4 = 0 /\ (e.index + 1) \div 4 = (e.index \div 4) + 1
    BY <1>0, <2>2
  <2>5. e.index + 1 = Full => (e.index + 1) \div 4 = Slots
    BY <1>0, SpritesAssumption DEF Full
  <2>6. /\ e.overflow_count = 0
        /\ done = (e.oam_address \div 4) + 3 * (e.index \div 4) + 3
    BY <1>6 DEF Work
  <2>7. done + 1 = (f.oam_address \div 4) + 3 * ((e.index + 1) \div 4)
    BY <1>0, <2>3, <2>4, <2>6
  <2>. QED BY <1>0, <2>1, <2>3, <2>4, <2>5, <2>6, <2>7 DEF Work, InSync
<1>. QED BY EvalStepCases, <1>1, <1>2, <1>3, <1>4, <1>5, <1>6, Zenon

LEMMA WorkBound ==
  ASSUME NEW e \in EvalState, NEW done \in Nat, Work(e, done)
  PROVE  done < Sprites + 3 * Slots + 3
<1>1. /\ e.index \in Nat /\ e.byte \in 0 .. 3 /\ e.oam_address \in Nat
      /\ e.overflow_count \in 0 .. 3 /\ e.oam_address \div 4 < Sprites
      /\ e.index <= 4 * Slots /\ Slots \in Nat /\ Sprites \in Nat
  BY SpritesAssumption DEF EvalState, Address, Full
<1>2. CASE e.index < Full
  <2>1. e.index \div 4 < Slots
    BY <1>1, <1>2 DEF Full
  <2>. QED BY <1>1, <1>2, <2>1 DEF Work
<1>3. CASE e.index = Full
  BY <1>1, <1>3 DEF Work
<1>. QED BY <1>1, <1>2, <1>3 DEF Full

-----------------------------------------------------------------------------
(* The first sprite.                                                       *)

LEMMA FirstKept ==
  ASSUME NEW e \in EvalState, InSync(e)
  PROVE  /\ InSync(EvalStep(e))
         /\ EvalStep(e).has_sprite_zero /\ ~e.has_sprite_zero => dot = LastClear + 2
         /\ e.index >= 1 => /\ EvalStep(e).index >= 1
                            /\ EvalStep(e).source[0] = e.source[0]
         /\ e.index = 0 /\ ~e.has_sprite_zero /\ EvalStep(e).has_sprite_zero =>
              EvalStep(e).index >= 1 /\ EvalStep(e).source[0] = e.oam_address
<1>. DEFINE f == EvalStep(e)
<1>0. /\ e.index \in Nat /\ e.byte \in 0 .. 3 /\ e.source \in [0 .. Slots - 1 -> Address]
      /\ 0 \in 0 .. Slots - 1
  BY SpritesAssumption DEF EvalState, Full
<1>1. CASE e.finished /\ EvalStep(e) = [e EXCEPT !.oam_buffer = e.oam2[e.index % Full],
                                                !.oam_address = NextSprite(e.oam_address)]
  <2>1. /\ f.index = e.index /\ f.byte = e.byte /\ f.source = e.source
        /\ f.has_sprite_zero = e.has_sprite_zero
    BY <1>1, FinishedFields, Zenon
  <2>. HIDE DEF f
  <2>. QED BY <1>0, <2>1 DEF InSync, f
<1>2. CASE EvalStep(e) = [Overflowing(e) EXCEPT !.oam_buffer = e.oam2[0]]
  <2>1. /\ f.index = e.index /\ f.byte = e.byte /\ f.source = e.source
        /\ f.has_sprite_zero = e.has_sprite_zero
    BY <1>2, FullFields, Zenon
  <2>. HIDE DEF f
  <2>. QED BY <1>0, <2>1 DEF InSync, f
<1>3. CASE e.index < Full /\ e.byte = 0 /\ EvalStep(e) = Found(e)
  <2>1. /\ f.index = e.index + 1 /\ f.byte = 1
        /\ f.source = [e.source EXCEPT ![e.index \div 4] = e.oam_address]
        /\ f.has_sprite_zero = (e.has_sprite_zero \/ dot = LastClear + 2)
    BY <1>3, FoundFields, ZenonT(40)
  <2>2. e.index % 4 = 0
    BY <1>3 DEF InSync
  <2>3. (e.index + 1) % 4 = 1 /\ (e.index >= 1 => e.index \div 4 # 0)
          /\ (e.index = 0 => e.index \div 4 = 0)
    BY <1>0, <2>2
  <2>. HIDE DEF f
  <2>4. f.has_sprite_zero /\ ~e.has_sprite_zero => dot = LastClear + 2
    BY <2>1, Zenon
  <2>5. /\ e.index >= 1 => f.source[0] = e.source[0]
        /\ e.index = 0 => f.source[0] = e.oam_address
    BY <1>0, <2>1, <2>3
  <2>6. InSync(f) /\ f.index >= 1
    BY <1>0, <2>1, <2>3 DEF InSync
  <2>. QED BY <2>4, <2>5, <2>6, Zenon DEF f
<1>4. CASE e.index < Full /\ EvalStep(e) = NotFound(e)
  <2>1. /\ f.index = e.index /\ f.byte = e.byte /\ f.source = e.source
        /\ f.has_sprite_zero = e.has_sprite_zero
    BY <1>4, NotFoundFields, Zenon
  <2>. HIDE DEF f
  <2>. QED BY <1>0, <2>1 DEF InSync, f
<1>5. CASE e.index < Full /\ e.byte \in {1, 2} /\ EvalStep(e) = CopyByte(e)
  <2>0. e.byte < 3 /\ e.index % 4 = e.byte
    BY <1>5 DEF InSync
  <2>1. /\ f.index = e.index + 1 /\ f.byte = e.byte + 1 /\ f.source = e.source
        /\ f.has_sprite_zero = e.has_sprite_zero
    BY <1>5, <2>0, CopyFields, Zenon
  <2>2. (e.index + 1) % 4 = e.byte + 1
    BY <1>0, <2>0
  <2>. HIDE DEF f
  <2>. QED BY <1>0, <2>1, <2>2 DEF InSync, f
<1>6. CASE e.index < Full /\ e.byte = 3 /\ EvalStep(e) = CopyLastByte(e)
  <2>1. /\ f.index = e.index + 1 /\ f.byte = 0 /\ f.source = e.source
        /\ f.has_sprite_zero = e.has_sprite_zero
    BY <1>6, CopyLastFields, Zenon
  <2>2. (e.index + 1) % 4 = 0
    BY <1>0, <1>6 DEF InSync
  <2>. HIDE DEF f
  <2>. QED BY <1>0, <2>1, <2>2 DEF InSync, f
<1>. QED BY EvalStepCases, <1>1, <1>2, <1>3, <1>4, <1>5, <1>6, Zenon

-----------------------------------------------------------------------------
(* The dots                                                                *)

(* Every variable but the latches has its type.                            *)
Typed ==
  /\ line \in 0 .. PreRender /\ dot \in 0 .. Width - 1
  /\ rendering \in BOOLEAN /\ passing \in BOOLEAN
  /\ oam \in [Address -> Byte]
  /\ eval \in EvalState

(* The latches are a list of no more than all sprites.                     *)
Fit == \E S : sprite_latches \in Seq(S) /\ Len(sprite_latches) <= Sprites

Done == (dot - LastClear - 1) \div 2

(* A steady evaluation has done a step every two dots since its start.     *)
Steady ==
  steady /\ dot >= 1 =>
    /\ rendering /\ Visible /\ ~passing
    /\ dot <= LastClear + 1 => eval.oam_address = 0
    /\ dot \in LastClear + 2 .. LastEval => eval.finished \/ Work(eval, Done)
    /\ dot > LastEval => eval.finished

(* The sprite found on the third dot is not overwritten by a later one.    *)
First ==
  began # Blank =>
    /\ dot >= LastClear + 2
    /\ InSync(eval)
    /\ dot = LastClear + 2 =>
         /\ ~passing /\ ~eval.has_sprite_zero
         /\ eval.index = 0 /\ eval.oam_address = began
    /\ dot > LastClear + 2 /\ eval.has_sprite_zero =>
         eval.index >= 1 /\ eval.source[0] = began

IInv == Typed /\ Fit /\ Steady /\ First

LEMMA Geometry ==
  /\ Width \in Nat /\ LastEval \in Nat /\ LastClear \in Nat /\ LastFetch \in Nat
  /\ LastClear < LastEval /\ LastEval <= LastFetch /\ LastFetch + 2 < Width
<1>1. Slots * Span \in Nat
  BY SpritesAssumption
<1>. QED BY <1>1, SpritesAssumption DEF LastFetch

LEMMA InitInv == MCInit => IInv
<1>. SUFFICES ASSUME MCInit PROVE IInv
  OBVIOUS
<1>1. eval \in EvalState
  <2>1. 0 \in Address /\ 0 \in Byte /\ 0 \in 0 .. Full /\ 0 \in 0 .. 3
    BY SpritesAssumption DEF Address, Byte, Full
  <2>2. /\ [k \in 0 .. Full - 1 |-> 0] \in [0 .. Full - 1 -> Byte]
        /\ [k \in 0 .. Slots - 1 |-> 0] \in [0 .. Slots - 1 -> Address]
    BY <2>1
  <2>. DEFINE C == [0 .. Full - 1 -> Byte]
              D == [0 .. Slots - 1 -> Address]
              o == [k \in 0 .. Full - 1 |-> 0]
              s == [k \in 0 .. Slots - 1 |-> 0]
  <2>3. eval = [oam_address |-> 0, oam_buffer |-> 0, oam2 |-> o, source |-> s,
                index |-> 0, clear_index |-> 0, byte |-> 0, finished |-> FALSE,
                overflow_count |-> 0, has_sprite_zero |-> FALSE, overflow |-> FALSE]
    BY Zenon DEF MCInit, Init
  <2>. HIDE DEF C, D, o, s
  <2>4. eval \in EvalOver(Address, Byte, C, D, 0 .. Full, 0 .. 3)
    BY <2>1, <2>2, <2>3 DEF EvalOver, C, D, o, s
  <2>. QED BY <2>4, EvalIsOver DEF C, D
<1>2. Typed
  <2>1. 0 \in 0 .. PreRender /\ 0 \in 0 .. Width - 1
    BY Geometry, SpritesAssumption
  <2>2. oam \in [Address -> Byte]
    BY SpritesAssumption DEF MCInit, Init
  <2>. QED BY <1>1, <2>1, <2>2 DEF MCInit, Init, Typed
<1>3. Fit
  BY SpritesAssumption DEF MCInit, Init, Fit
<1>4. Steady /\ First
  BY DEF MCInit, Steady, First
<1>. QED BY <1>2, <1>3, <1>4 DEF IInv

LEMMA FieldTypes ==
  ASSUME NEW e \in EvalState
  PROVE  /\ \A buffer \in Byte : [e EXCEPT !.oam_buffer = buffer] \in EvalState
         /\ \A address \in Address : [e EXCEPT !.oam_address = address] \in EvalState
         /\ \A address \in Address, buffer \in Byte :
              [e EXCEPT !.oam_address = address, !.oam_buffer = buffer] \in EvalState
         /\ [e EXCEPT !.has_sprite_zero = FALSE] \in EvalState
         /\ [e EXCEPT !.overflow = FALSE] \in EvalState
<1>. DEFINE Over == EvalOver(Address, Byte, [0 .. Full - 1 -> Byte], [0 .. Slots - 1 -> Address],
                            0 .. Full, 0 .. 3)
<1>1. ASSUME NEW A, NEW B, NEW C, NEW D, NEW I, NEW J,
             NEW c \in EvalOver(A, B, C, D, I, J), NEW a \in A, NEW b \in B, NEW h \in BOOLEAN
      PROVE  /\ [c EXCEPT !.oam_buffer = b] \in EvalOver(A, B, C, D, I, J)
             /\ [c EXCEPT !.oam_address = a] \in EvalOver(A, B, C, D, I, J)
             /\ [c EXCEPT !.oam_address = a, !.oam_buffer = b] \in EvalOver(A, B, C, D, I, J)
             /\ [c EXCEPT !.has_sprite_zero = h] \in EvalOver(A, B, C, D, I, J)
             /\ [c EXCEPT !.overflow = h] \in EvalOver(A, B, C, D, I, J)
  BY DEF EvalOver
<1>2. e \in Over
  BY EvalIsOver, Zenon
<1>3. ASSUME NEW buffer \in Byte, NEW address \in Address
      PROVE  /\ [e EXCEPT !.oam_buffer = buffer] \in Over
             /\ [e EXCEPT !.oam_address = address] \in Over
             /\ [e EXCEPT !.oam_address = address, !.oam_buffer = buffer] \in Over
             /\ [e EXCEPT !.has_sprite_zero = FALSE] \in Over
             /\ [e EXCEPT !.overflow = FALSE] \in Over
  <2>1. FALSE \in BOOLEAN
    OBVIOUS
  <2>. QED BY <1>1, <1>2, <2>1, Zenon
<1>4. e.oam_buffer \in Byte /\ e.oam_address \in Address
  BY DEF EvalState
<1>. QED BY <1>3, <1>4, EvalIsOver, Zenon

LEMMA AtLineStartFields ==
  ASSUME NEW e \in EvalState
  PROVE  /\ AtLineStart(e) \in EvalState
         /\ AtLineStart(e).oam_address = e.oam_address
<1>. DEFINE Over == EvalOver(Address, Byte, [0 .. Full - 1 -> Byte], [0 .. Slots - 1 -> Address],
                            0 .. Full, 0 .. 3)
<1>1. ASSUME NEW A, NEW B, NEW C, NEW D, NEW I, NEW J,
             NEW c \in EvalOver(A, B, C, D, I, J), NEW i \in I
      PROVE  [c EXCEPT !.index = i, !.clear_index = i] \in EvalOver(A, B, C, D, I, J)
  BY DEF EvalOver
<1>2. e \in Over
  BY EvalIsOver, Zenon
<1>3. 0 \in 0 .. Full
  BY SpritesAssumption DEF Full
<1>4. [e EXCEPT !.index = 0, !.clear_index = 0] \in Over
  BY <1>1, <1>2, <1>3, Zenon
<1>5. AtLineStart(e) \in EvalState
  BY <1>4, EvalIsOver, Zenon DEF AtLineStart
<1>. QED BY <1>5 DEF AtLineStart, EvalState

LEMMA RestartedFields ==
  ASSUME NEW e \in EvalState
  PROVE  /\ Restarted(e) \in EvalState
         /\ Restarted(e).oam_address = e.oam_address
         /\ Restarted(e).has_sprite_zero = e.has_sprite_zero
         /\ Restarted(e).index = 0 /\ Restarted(e).byte = 0
         /\ ~Restarted(e).finished /\ Restarted(e).overflow_count = 0
<1>. DEFINE Over == EvalOver(Address, Byte, [0 .. Full - 1 -> Byte], [0 .. Slots - 1 -> Address],
                            0 .. Full, 0 .. 3)
<1>1. ASSUME NEW A, NEW B, NEW C, NEW D, NEW I, NEW J,
             NEW c \in EvalOver(A, B, C, D, I, J), NEW i \in I, NEW j \in J, NEW k \in BOOLEAN
      PROVE  [c EXCEPT !.index = i, !.byte = j, !.finished = k, !.overflow_count = j]
               \in EvalOver(A, B, C, D, I, J)
  BY DEF EvalOver
<1>2. e \in Over
  BY EvalIsOver, Zenon
<1>3. 0 \in 0 .. Full /\ 0 \in 0 .. 3 /\ FALSE \in BOOLEAN
  BY SpritesAssumption DEF Full
<1>4. [e EXCEPT !.index = 0, !.byte = 0, !.finished = FALSE, !.overflow_count = 0] \in Over
  BY <1>1, <1>2, <1>3, Zenon
<1>5. Restarted(e) \in EvalState
  BY <1>4, EvalIsOver, Zenon DEF Restarted
<1>. QED BY <1>5 DEF Restarted, EvalState

LEMMA ClearedFields ==
  ASSUME NEW e \in EvalState
  PROVE  /\ Cleared(e) \in EvalState
         /\ Cleared(e).oam_address = e.oam_address
<1>. DEFINE C == [0 .. Full - 1 -> Byte]
            Over == EvalOver(Address, Byte, C, [0 .. Slots - 1 -> Address], 0 .. Full, 0 .. 3)
            oam2 == [e.oam2 EXCEPT ![e.clear_index] = Blank]
<1>0. Blank \in Byte
  BY DEF Blank, Byte
<1>1. CASE e.clear_index < Full
  <2>1. ASSUME NEW A, NEW B, NEW X, NEW D, NEW I, NEW J,
              NEW c \in EvalOver(A, B, X, D, I, J), NEW b \in B, NEW o \in X, NEW i \in I
       PROVE  [c EXCEPT !.oam_buffer = b, !.oam2 = o, !.clear_index = i]
            \in EvalOver(A, B, X, D, I, J)
    BY DEF EvalOver
  <2>2. e.clear_index + 1 \in 0 .. Full /\ e.clear_index \in 0 .. Full - 1
    BY <1>1, SpritesAssumption DEF EvalState, Full
  <2>3. oam2 \in C
    BY <1>0, <2>2 DEF EvalState
  <2>4. Cleared(e) = [e EXCEPT !.oam_buffer = Blank, !.oam2 = oam2,
                               !.clear_index = e.clear_index + 1]
    BY <1>1 DEF Cleared, EvalState
  <2>5. e \in Over
    BY EvalIsOver, Zenon
  <2>. HIDE DEF oam2, C
  <2>6. [e EXCEPT !.oam_buffer = Blank, !.oam2 = oam2, !.clear_index = e.clear_index + 1] \in Over
    BY <1>0, <2>1, <2>2, <2>3, <2>5, Zenon
  <2>7. Cleared(e) \in EvalState
    BY <2>4, <2>6, EvalIsOver DEF C
  <2>. QED BY <2>4, <2>7 DEF EvalState
<1>2. CASE ~(e.clear_index < Full)
  <2>1. Cleared(e) = [e EXCEPT !.oam_buffer = Blank]
    BY <1>2 DEF Cleared
  <2>2. Cleared(e) \in EvalState
    BY <1>0, <2>1, FieldTypes, Zenon
  <2>. QED BY <2>1, <2>2 DEF EvalState
<1>. QED BY <1>1, <1>2

-----------------------------------------------------------------------------
(* What is observed of a step                                              *)

LEMMA Moving ==
  ASSUME NEW d \in 0 .. Width - 1
  PROVE  \/ d = Width - 1 /\ (d + 1) % Width = 0
         \/ d < Width - 1 /\ (d + 1) % Width = d + 1
BY Geometry

LEMMA StillStep ==
  ASSUME Typed, First, Observe, dot' = dot,
         eval'.index = eval.index, eval'.byte = eval.byte, eval'.source = eval.source,
         eval'.has_sprite_zero = eval.has_sprite_zero
  PROVE  Steady' /\ First'
<1>1. ~steady'
  BY DEF Observe
<1>2. began' # Blank => began' = began /\ dot # LastClear + 2
  BY DEF Observe
<1>. QED BY <1>1, <1>2 DEF Steady, First, InSync

LEMMA AdvanceObserved ==
  ASSUME Typed, Advance, Observe
  PROVE  \/ dot = Width - 1 /\ dot' = 0 /\ began' = Blank
         \/ /\ dot < Width - 1 /\ dot' = dot + 1 /\ line' = line
            /\ rendering' = rendering /\ ~passing /\ ~passing'
            /\ steady' = (IF dot = 0 THEN rendering /\ Visible /\ eval.oam_address = 0
                                     ELSE steady)
            /\ began' = (IF dot = LastClear + 1 /\ rendering /\ Visible THEN eval.oam_address
                                                                     ELSE began)
<1>1. dot \in Nat /\ dot \in 0 .. Width - 1 /\ Width \in Nat
  BY Geometry DEF Typed
<1>2. ~passing /\ passing' = passing /\ rendering' = rendering
        /\ dot' = (dot + 1) % Width
        /\ line' = IF dot = Width - 1 THEN (line + 1) % (PreRender + 1) ELSE line
  BY DEF Advance
<1>3. CASE dot = Width - 1
  <2>1. dot' = 0
    BY <1>1, <1>2, <1>3, Moving
  <2>2. dot # LastClear + 1
    BY <1>3, Geometry
  <2>3. began' = Blank
    BY <2>1, <2>2, Zenon DEF Observe
  <2>. QED BY <1>3, <2>1, <2>3
<1>4. CASE dot < Width - 1
  <2>1. dot' = dot + 1 /\ dot' # 0 /\ dot' # dot /\ line' = line
    BY <1>1, <1>2, <1>4, Moving
  <2>2. steady' = (IF dot = 0 THEN rendering /\ Visible /\ eval.oam_address = 0 ELSE steady)
    BY <1>2, <2>1, Zenon DEF Observe
  <2>3. began' = (IF dot = LastClear + 1 /\ rendering /\ Visible THEN eval.oam_address
                                                                ELSE began)
    BY <1>2, <2>1, Zenon DEF Observe
  <2>. QED BY <1>2, <1>4, <2>1, <2>2, <2>3, Zenon
<1>. QED BY <1>1, <1>3, <1>4

LEMMA AdvanceTyped ==
  ASSUME Typed, Advance, eval' \in EvalState
  PROVE  Typed'
<1>1. dot' \in 0 .. Width - 1
  BY Moving, Geometry DEF Typed, Advance
<1>2. line' \in 0 .. PreRender
  BY SpritesAssumption DEF Typed, Advance
<1>. QED BY <1>1, <1>2 DEF Typed, Advance

-----------------------------------------------------------------------------
(* One action after the other                                              *)

LEMMA LineStartStep ==
  ASSUME Typed, Steady, First, LineStart, Observe
  PROVE  Typed' /\ Steady' /\ First'
<1>1. eval \in EvalState /\ eval.oam2[0] \in Byte /\ Advance
  <2>1. 0 \in 0 .. Full - 1
    BY SpritesAssumption DEF Full
  <2>. QED BY <2>1 DEF Typed, EvalState, LineStart
<1>2. AtLineStart(eval) \in EvalState /\ AtLineStart(eval).oam_address = eval.oam_address
  BY <1>1, AtLineStartFields
<1>3. [AtLineStart(eval) EXCEPT !.oam_buffer = eval.oam2[0]] \in EvalState
  BY <1>1, <1>2, FieldTypes
<1>4. [AtLineStart(eval) EXCEPT !.oam_buffer = eval.oam2[0]].oam_address = eval.oam_address
  BY <1>2 DEF EvalState
<1>5. eval' \in EvalState /\ eval'.oam_address = eval.oam_address
  BY <1>2, <1>3, <1>4, Zenon DEF LineStart
<1>6. Typed'
  BY <1>1, <1>5, AdvanceTyped
<1>7. CASE dot = Width - 1 /\ dot' = 0 /\ began' = Blank
  <2>1. ~(dot' >= 1)
    BY <1>7
  <2>. QED BY <1>6, <1>7, <2>1, Zenon DEF Steady, First
<1>8. CASE dot < Width - 1
  <2>1. dot = 0
    BY <1>8, Geometry DEF LineStart
  <2>2. /\ dot' = 1 /\ line' = line /\ rendering' = rendering /\ ~passing'
        /\ steady' = (rendering /\ Visible /\ eval.oam_address = 0)
        /\ began' = began
    BY <1>1, <1>8, <2>1, AdvanceObserved, Geometry
  <2>3. began = Blank
    BY <2>1, Geometry DEF First
  <2>4. /\ ~(dot' \in LastClear + 2 .. LastEval) /\ ~(dot' > LastEval)
        /\ Visible' = Visible
    BY <2>2, Geometry DEF Visible
  <2>5. Steady'
    BY <1>5, <2>2, <2>4, Zenon DEF Steady
  <2>6. First'
    BY <2>2, <2>3 DEF First
  <2>. QED BY <1>6, <2>5, <2>6
<1>. QED BY <1>1, <1>6, <1>7, <1>8, AdvanceObserved

LEMMA ClearStep ==
  ASSUME Typed, Steady, First, Clear, Observe
  PROVE  Typed' /\ Steady' /\ First'
<1>1. eval \in EvalState /\ Advance /\ dot \in 1 .. LastClear
  BY DEF Typed, Clear
<1>2. Cleared(eval) \in EvalState /\ Cleared(eval).oam_address = eval.oam_address
  BY <1>1, ClearedFields
<1>3. [eval EXCEPT !.overflow = FALSE] \in EvalState
  BY <1>1, FieldTypes
<1>4. [eval EXCEPT !.overflow = FALSE].oam_address = eval.oam_address
  BY <1>1 DEF EvalState
<1>5. eval' \in {Cleared(eval), [eval EXCEPT !.overflow = FALSE], eval}
  <2>1. CASE rendering /\ Visible
    BY <2>1 DEF Clear, Visible, Typed
  <2>2. CASE ~(rendering /\ Visible)
    BY <2>2 DEF Clear
  <2>. QED BY <2>1, <2>2
<1>6. eval' \in EvalState /\ eval'.oam_address = eval.oam_address
  BY <1>1, <1>2, <1>3, <1>4, <1>5
<1>7. Typed'
  BY <1>1, <1>6, AdvanceTyped
<1>8. /\ dot' = dot + 1 /\ line' = line /\ rendering' = rendering /\ ~passing'
      /\ steady' = steady /\ began' = began
  BY <1>1, AdvanceObserved, Geometry
<1>9. began = Blank
  BY <1>1, Geometry DEF First
<1>10. Steady'
  BY <1>1, <1>6, <1>8, Geometry DEF Steady, Visible
<1>11. First'
  BY <1>8, <1>9 DEF First
<1>. QED BY <1>7, <1>10, <1>11

(* A dot of the evaluation that starts it, one that does a step, and one   *)
(* that does neither.                                                      *)
LEMMA EvaluateCases ==
  ASSUME Typed, Evaluate
  PROVE  \/ /\ dot = LastClear + 1 /\ rendering /\ Visible
            /\ \E buffer \in Byte :
                 eval' = [Restarted([eval EXCEPT !.has_sprite_zero = FALSE])
                            EXCEPT !.oam_buffer = buffer]
         \/ /\ dot > LastClear + 1 /\ rendering /\ Visible /\ dot % 2 = 0
            /\ eval' = EvalStep(eval)
         \/ /\ dot > LastClear + 1 /\ rendering /\ Visible /\ dot % 2 = 1
            /\ \E buffer \in Byte : eval' = [eval EXCEPT !.oam_buffer = buffer]
         \/ /\ ~(rendering /\ Visible)
            /\ eval' \in {eval, [eval EXCEPT !.has_sprite_zero = FALSE]}
<1>. DEFINE starts == rendering /\ Rendered /\ dot = LastClear + 1
            e == IF starts THEN [eval EXCEPT !.has_sprite_zero = FALSE] ELSE eval
            f == IF starts THEN Restarted(e) ELSE e
<1>0. /\ eval \in EvalState /\ rendering \in BOOLEAN /\ dot \in Nat
      /\ dot % 2 = 0 \/ dot % 2 = 1
      /\ dot % 2 = 0 => dot % 2 # 1
      /\ dot = LastClear + 1 \/ dot > LastClear + 1
      /\ dot = LastClear + 1 => dot % 2 = 1
      /\ dot > LastClear + 1 => dot # LastClear + 1
  BY Geometry, SpritesAssumption DEF Typed, Evaluate
<1>1. eval' = CASE ~(rendering /\ Visible) -> e
                [] rendering /\ Visible /\ dot % 2 = 1 ->
                     [f EXCEPT !.oam_buffer = ReadOam(f.oam_address)]
                [] OTHER -> EvalStep(f)
  BY Zenon DEF Evaluate
<1>2. e \in EvalState /\ f \in EvalState
  <2>1. [eval EXCEPT !.has_sprite_zero = FALSE] \in EvalState
    BY <1>0, FieldTypes
  <2>2. e \in EvalState
    BY <1>0, <2>1
  <2>. QED BY <2>2, RestartedFields
<1>3. ReadOam(f.oam_address) \in Byte
  <2>1. f.oam_address \in Address
    BY <1>2 DEF EvalState
  <2>2. oam[f.oam_address] \in 0 .. 255
    BY <2>1 DEF Typed, Byte
  <2>3. \A v \in 0 .. 255 : v - 4 * ((v \div 4) % 8) \in 0 .. 255
    OBVIOUS
  <2>4. oam[f.oam_address] - 4 * ((oam[f.oam_address] \div 4) % 8) \in 0 .. 255
    BY <2>2, <2>3, Zenon
  <2>. QED BY <2>2, <2>4, Zenon DEF ReadOam, Byte
<1>4. CASE ~(rendering /\ Visible)
  <2>1. eval' = e
    BY <1>1, <1>4, Zenon
  <2>. QED BY <1>4, <2>1
<1>5. CASE rendering /\ Visible /\ dot % 2 = 1
  <2>1. eval' = [f EXCEPT !.oam_buffer = ReadOam(f.oam_address)]
    BY <1>1, <1>5, Zenon
  <2>2. \E buffer \in Byte : eval' = [f EXCEPT !.oam_buffer = buffer]
    BY <1>3, <2>1, Zenon
  <2>3. CASE dot = LastClear + 1
    <3>1. f = Restarted([eval EXCEPT !.has_sprite_zero = FALSE])
      BY <1>5, <2>3, Zenon DEF Rendered
    <3>. HIDE DEF f
    <3>. QED BY <1>5, <2>2, <2>3, <3>1, Zenon
  <2>4. CASE dot > LastClear + 1
    <3>1. f = eval
      BY <1>0, <2>4, Zenon
    <3>. HIDE DEF f
    <3>. QED BY <1>5, <2>2, <2>4, <3>1, Zenon
  <2>. QED BY <1>0, <2>3, <2>4, Zenon
<1>6. CASE rendering /\ Visible /\ dot % 2 = 0
  <2>1. dot > LastClear + 1
    BY <1>0, <1>6
  <2>2. f = eval
    BY <1>0, <2>1, Zenon
  <2>3. eval' = EvalStep(f)
    BY <1>0, <1>1, <1>6, Zenon
  <2>. HIDE DEF f
  <2>. QED BY <1>6, <2>1, <2>2, <2>3, Zenon
<1>. QED BY <1>0, <1>4, <1>5, <1>6, Zenon

LEMMA EvaluateStep ==
  ASSUME Typed, Steady, First, Evaluate, Observe
  PROVE  Typed' /\ Steady' /\ First'
<1>1. /\ eval \in EvalState /\ Advance /\ dot \in Nat
      /\ dot >= LastClear + 1 /\ dot <= LastEval /\ dot < Width - 1 /\ dot >= 1 /\ dot # 0
      /\ LastClear + 6 <= LastEval
  BY Geometry, EnoughDots, SpritesAssumption DEF Typed, Evaluate
<1>2. /\ dot' = dot + 1 /\ line' = line /\ rendering' = rendering /\ ~passing'
      /\ steady' = steady
      /\ began' = (IF dot = LastClear + 1 /\ rendering /\ Visible THEN eval.oam_address
                                                                ELSE began)
      /\ Visible' = Visible
  BY <1>1, AdvanceObserved, Geometry DEF Visible
<1>3. CASE /\ dot = LastClear + 1 /\ rendering /\ Visible
           /\ \E buffer \in Byte :
                eval' = [Restarted([eval EXCEPT !.has_sprite_zero = FALSE])
                           EXCEPT !.oam_buffer = buffer]
  <2>. DEFINE e == [eval EXCEPT !.has_sprite_zero = FALSE]
              f == Restarted(e)
  <2>1. e \in EvalState /\ e.oam_address = eval.oam_address /\ ~e.has_sprite_zero
    <3>1. e \in EvalState
      BY <1>1, FieldTypes
    <3>. QED BY <1>1, <3>1 DEF EvalState
  <2>. HIDE DEF e
  <2>2. /\ f \in EvalState /\ f.oam_address = eval.oam_address /\ ~f.has_sprite_zero
        /\ f.index = 0 /\ f.byte = 0 /\ ~f.finished /\ f.overflow_count = 0
    BY <2>1, RestartedFields
  <2>3. PICK buffer \in Byte : eval' = [f EXCEPT !.oam_buffer = buffer]
    BY <1>3 DEF e
  <2>. HIDE DEF f
  <2>4. eval' \in EvalState
    BY <2>2, <2>3, FieldTypes
  <2>5. /\ eval'.oam_address = eval.oam_address /\ ~eval'.has_sprite_zero
        /\ eval'.index = 0 /\ eval'.byte = 0 /\ ~eval'.finished /\ eval'.overflow_count = 0
    BY <2>2, <2>3 DEF EvalState
  <2>6. Typed'
    BY <1>1, <2>4, AdvanceTyped
  <2>7. InSync(eval')
    BY <2>5 DEF InSync
  <2>8. ASSUME steady PROVE Work(eval', 0)
    <3>1. eval.oam_address = 0
      BY <1>1, <1>3, <2>8, Geometry DEF Steady
    <3>2. 0 < Full /\ 0 # Full
      BY SpritesAssumption DEF Full
    <3>. QED BY <2>5, <2>7, <3>1, <3>2 DEF Work
  <2>9. Done' = 0 /\ dot' = LastClear + 2 /\ ~(dot' <= LastClear + 1) /\ ~(dot' > LastEval)
    BY <1>1, <1>2, <1>3, Geometry DEF Done
  <2>10. Steady'
    BY <1>2, <1>3, <2>8, <2>9, Zenon DEF Steady
  <2>11. First'
    <3>1. began' = eval.oam_address
      BY <1>2, <1>3, Zenon
    <3>2. dot' >= LastClear + 2 /\ ~(dot' > LastClear + 2)
      BY <2>9, Geometry
    <3>. QED BY <1>2, <2>5, <2>7, <3>1, <3>2 DEF First
  <2>. QED BY <2>6, <2>10, <2>11
<1>4. CASE dot > LastClear + 1 /\ rendering /\ Visible /\ dot % 2 = 0 /\ eval' = EvalStep(eval)
  <2>1. eval' \in EvalState
    BY <1>1, <1>4, EvalStepType
  <2>2. Typed'
    BY <1>1, <2>1, AdvanceTyped
  <2>3. Done \in Nat /\ Done' = Done + 1
    BY <1>1, <1>2, <1>4, Geometry, SpritesAssumption DEF Done
  <2>4. ASSUME steady PROVE eval'.finished \/ Work(eval', Done')
    <3>1. eval.finished \/ Work(eval, Done)
      BY <1>1, <1>4, <2>4, Geometry DEF Steady
    <3>. QED BY <1>1, <1>4, <2>3, <3>1, WorkGoesOn
  <2>5. ASSUME steady, dot' > LastEval PROVE eval'.finished
    <3>1. Done' = (LastEval - LastClear) \div 2
      BY <1>1, <1>2, <1>4, <2>5, Geometry, SpritesAssumption DEF Done
    <3>2. ~(Done' < Sprites + 3 * Slots + 3) /\ Done' \in Nat
      BY <2>3, <3>1, EnoughDots, Geometry, SpritesAssumption
    <3>. QED BY <2>1, <2>4, <2>5, <3>2, WorkBound
  <2>6. ~(dot' <= LastClear + 1)
    BY <1>1, <1>2, <1>4, Geometry
  <2>7. Steady'
    BY <1>2, <1>4, <2>4, <2>5, <2>6, Zenon DEF Steady
  <2>8. First'
    <3>. SUFFICES ASSUME began' # Blank PROVE First'
      BY DEF First
    <3>1. began' = began /\ dot >= LastClear + 2
      BY <1>2, <1>4, Geometry DEF First
    <3>2. InSync(eval)
      BY <3>1 DEF First
    <3>3. /\ InSync(eval')
          /\ eval'.has_sprite_zero /\ ~eval.has_sprite_zero => dot = LastClear + 2
          /\ eval.index >= 1 => eval'.index >= 1 /\ eval'.source[0] = eval.source[0]
          /\ eval.index = 0 /\ ~eval.has_sprite_zero /\ eval'.has_sprite_zero =>
               eval'.index >= 1 /\ eval'.source[0] = eval.oam_address
      BY <1>1, <1>4, <3>2, FirstKept
    <3>4. dot' > LastClear + 2 /\ dot' >= LastClear + 2 /\ dot' # LastClear + 2
      BY <1>1, <1>2, <3>1, Geometry
    <3>5. ASSUME eval'.has_sprite_zero PROVE eval'.index >= 1 /\ eval'.source[0] = began
      <4>1. CASE dot = LastClear + 2
        BY <3>1, <3>3, <3>5, <4>1 DEF First
      <4>2. CASE dot # LastClear + 2
        <5>1. dot > LastClear + 2
          BY <1>1, <3>1, <4>2, Geometry
        <5>. QED BY <3>1, <3>3, <3>5, <4>2, <5>1, Zenon DEF First
      <4>. QED BY <4>1, <4>2
    <3>. QED BY <3>1, <3>3, <3>4, <3>5, Zenon DEF First
  <2>. QED BY <2>2, <2>7, <2>8
<1>5. CASE /\ dot > LastClear + 1 /\ rendering /\ Visible /\ dot % 2 = 1
           /\ \E buffer \in Byte : eval' = [eval EXCEPT !.oam_buffer = buffer]
  <2>1. PICK buffer \in Byte : eval' = [eval EXCEPT !.oam_buffer = buffer]
    BY <1>5
  <2>2. eval' \in EvalState
    BY <1>1, <2>1, FieldTypes
  <2>3. /\ eval'.oam_address = eval.oam_address /\ eval'.index = eval.index
        /\ eval'.byte = eval.byte /\ eval'.source = eval.source
        /\ eval'.has_sprite_zero = eval.has_sprite_zero
        /\ eval'.finished = eval.finished /\ eval'.overflow_count = eval.overflow_count
    BY <1>1, <2>1 DEF EvalState
  <2>4. Typed'
    BY <1>1, <2>2, AdvanceTyped
  <2>5. Done' = Done /\ Done \in Nat /\ dot >= LastClear + 3
    <3>1. (dot - LastClear) % 2 = 1 /\ dot - LastClear >= 2
      BY <1>1, <1>5, Geometry, SpritesAssumption
    <3>. QED BY <1>1, <1>2, <3>1, Geometry DEF Done
  <2>6. ASSUME steady PROVE eval'.finished \/ Work(eval', Done')
    <3>1. eval.finished \/ Work(eval, Done)
      BY <1>1, <1>5, <2>5, <2>6, Geometry DEF Steady
    <3>. QED BY <2>3, <2>5, <3>1 DEF Work, InSync
  <2>7. ~(dot' <= LastClear + 1)
    BY <1>1, <1>2, <2>5, Geometry
  <2>8. Steady'
    <3>1. ASSUME steady, dot' > LastEval PROVE eval'.finished
      <4>1. Done' = (LastEval - LastClear) \div 2
        BY <1>1, <1>2, <3>1, Geometry DEF Done
      <4>2. ~(Done' < Sprites + 3 * Slots + 3) /\ Done' \in Nat
        BY <2>5, <4>1, EnoughDots, Geometry, SpritesAssumption
      <4>. QED BY <2>2, <2>6, <3>1, <4>2, WorkBound
    <3>. QED BY <1>2, <1>5, <2>6, <2>7, <3>1, Zenon DEF Steady
  <2>9. /\ dot > LastClear + 2 /\ dot' > LastClear + 2 /\ dot' >= LastClear + 2
        /\ dot' # LastClear + 2 /\ dot # LastClear + 1
    BY <1>1, <1>2, <2>5, Geometry
  <2>10. First'
    BY <1>2, <2>3, <2>9, Zenon DEF First, InSync
  <2>. QED BY <2>4, <2>8, <2>10
<1>6. CASE ~(rendering /\ Visible) /\ eval' \in {eval, [eval EXCEPT !.has_sprite_zero = FALSE]}
  <2>1. [eval EXCEPT !.has_sprite_zero = FALSE] \in EvalState
    BY <1>1, FieldTypes
  <2>2. eval' \in EvalState
    BY <1>1, <1>6, <2>1
  <2>3. /\ eval'.oam_address = eval.oam_address /\ eval'.index = eval.index
        /\ eval'.byte = eval.byte /\ eval'.source = eval.source
        /\ eval'.has_sprite_zero => eval.has_sprite_zero
    BY <1>1, <1>6 DEF EvalState
  <2>4. Typed'
    BY <1>1, <2>2, AdvanceTyped
  <2>5. ~steady'
    BY <1>1, <1>2, <1>6, Zenon DEF Steady
  <2>6. First'
    <3>1. began' = began
      BY <1>2, <1>6, Zenon
    <3>2. began # Blank => dot >= LastClear + 2
      BY DEF First
    <3>3. began # Blank => dot' > LastClear + 2 /\ dot' >= LastClear + 2 /\ dot' # LastClear + 2
      BY <1>1, <1>2, <3>2, Geometry
    <3>4. dot = LastClear + 2 \/ dot > LastClear + 2 \/ ~(dot >= LastClear + 2)
      BY <1>1, Geometry
    <3>. QED BY <2>3, <3>1, <3>2, <3>3, <3>4, Zenon DEF First, InSync
  <2>. QED BY <2>4, <2>5, <2>6 DEF Steady
<1>. QED BY EvaluateCases, <1>3, <1>4, <1>5, <1>6, Zenon

LEMMA SlotBound ==
  ASSUME NEW d \in Nat, d < Slots * Span
  PROVE  d \div Span \in 0 .. Slots - 1 /\ d % Span \in Nat
<1>. DEFINE q == d \div Span
<1>1. Span \in Nat /\ Span > 0 /\ Slots \in Nat
  BY SpritesAssumption
<1>2. q \in Nat /\ Span * q <= d /\ d % Span \in Nat
  BY <1>1
<1>. HIDE DEF q
<1>3. q < Slots
  <2>. SUFFICES ASSUME q >= Slots PROVE FALSE
    BY <1>1, <1>2
  <2>1. PICK k \in Nat : q = Slots + k
    <3>1. q - Slots \in Nat /\ q = Slots + (q - Slots)
      BY <1>1, <1>2
    <3>. QED BY <3>1
  <2>2. Span * q = Span * Slots + Span * k /\ Span * k \in Nat /\ Span * Slots = Slots * Span
    BY <1>1, <2>1
  <2>. QED BY <1>1, <1>2, <2>2
<1>4. q \in 0 .. Slots - 1
  BY <1>1, <1>2, <1>3
<1>. QED BY <1>2, <1>4 DEF q

(* The fetch and the prefetch move the address and the buffer only.        *)
LEMMA FetchFields ==
  ASSUME Typed, Fetch \/ Prefetch
  PROVE  /\ eval' \in EvalState /\ Advance /\ dot > LastEval
         /\ eval'.index = eval.index /\ eval'.byte = eval.byte
         /\ eval'.source = eval.source /\ eval'.finished = eval.finished
         /\ eval'.has_sprite_zero = eval.has_sprite_zero /\ eval'.oam2 = eval.oam2
<1>1. /\ eval \in EvalState /\ 0 \in Address /\ dot \in Nat /\ eval.oam_address \in Address
      /\ eval.oam_buffer \in Byte
  BY SpritesAssumption DEF Typed, EvalState, Address
<1>2. dot > LastEval
  BY <1>1, Geometry DEF Fetch, Prefetch
<1>3. \E address \in Address, buffer \in Byte :
        eval' = [eval EXCEPT !.oam_address = address, !.oam_buffer = buffer]
  <2>1. eval = [eval EXCEPT !.oam_address = eval.oam_address, !.oam_buffer = eval.oam_buffer]
    BY <1>1 DEF EvalState
  <2>2. ASSUME eval' = eval
        PROVE  \E address \in Address, buffer \in Byte :
                 eval' = [eval EXCEPT !.oam_address = address, !.oam_buffer = buffer]
    BY <1>1, <2>1, <2>2, Zenon
  <2>3. CASE Fetch
    <3>. DEFINE sub == (dot - LastEval - 1) % Span
                slot == (dot - LastEval - 1) \div Span
                last == IF sub > 3 THEN 3 ELSE sub
                place == 4 * slot + last
                buffer == eval.oam2[place]
    <3>1. slot \in 0 .. Slots - 1 /\ sub \in Nat
      <4>1. dot - LastEval - 1 \in Nat /\ dot - LastEval - 1 < Slots * Span
        <5>1. Slots * Span \in Nat
          BY SpritesAssumption
        <5>. QED BY <1>1, <1>2, <2>3, <5>1, Geometry DEF Fetch, LastFetch
      <4>. QED BY <4>1, SlotBound
    <3>2. eval' = CASE rendering /\ Visible ->
                         [eval EXCEPT !.oam_address = 0, !.oam_buffer = buffer]
                    [] rendering /\ ~Visible /\ Rendered -> [eval EXCEPT !.oam_address = 0]
                    [] OTHER -> eval
      BY <2>3, Zenon DEF Fetch
    <3>. HIDE DEF sub, slot
    <3>3. place \in 0 .. Full - 1
      BY <3>1, SpritesAssumption DEF Full
    <3>. HIDE DEF place
    <3>4. buffer \in Byte
      BY <1>1, <3>3 DEF EvalState
    <3>. HIDE DEF buffer
    <3>5. CASE rendering /\ Visible
      <4>1. eval' = [eval EXCEPT !.oam_address = 0, !.oam_buffer = buffer]
        BY <3>2, <3>5, Zenon
      <4>. QED BY <1>1, <3>4, <4>1, Zenon
    <3>6. CASE rendering /\ ~Visible /\ Rendered
      <4>1. eval' = [eval EXCEPT !.oam_address = 0]
        BY <3>2, <3>6, Zenon
      <4>2. eval' = [eval EXCEPT !.oam_address = 0, !.oam_buffer = eval.oam_buffer]
        BY <1>1, <4>1 DEF EvalState
      <4>. QED BY <1>1, <4>2, Zenon
    <3>7. CASE ~(rendering /\ Visible) /\ ~(rendering /\ ~Visible /\ Rendered)
      BY <3>2, <3>7, <2>2, Zenon
    <3>. QED BY <3>5, <3>6, <3>7, Zenon
  <2>4. CASE Prefetch
    <3>1. eval.oam2[0] \in Byte
      <4>1. 0 \in 0 .. Full - 1
        BY SpritesAssumption DEF Full
      <4>. QED BY <1>1, <4>1 DEF EvalState
    <3>2. CASE rendering /\ Visible
      <4>1. eval' = [eval EXCEPT !.oam_buffer = eval.oam2[0]]
        BY <2>4, <3>2, Zenon DEF Prefetch
      <4>2. eval' = [eval EXCEPT !.oam_address = eval.oam_address,
                                 !.oam_buffer = eval.oam2[0]]
        BY <1>1, <4>1 DEF EvalState
      <4>. QED BY <1>1, <3>1, <4>2, Zenon
    <3>3. CASE ~(rendering /\ Visible)
      BY <2>2, <2>4, <3>3, Zenon DEF Prefetch
    <3>. QED BY <3>2, <3>3, Zenon
  <2>. QED BY <2>3, <2>4
<1>4. PICK address \in Address, buffer \in Byte :
        eval' = [eval EXCEPT !.oam_address = address, !.oam_buffer = buffer]
  BY <1>3
<1>5. eval' \in EvalState
  BY <1>1, <1>4, FieldTypes
<1>6. /\ eval'.index = eval.index /\ eval'.byte = eval.byte
      /\ eval'.source = eval.source /\ eval'.finished = eval.finished
      /\ eval'.has_sprite_zero = eval.has_sprite_zero /\ eval'.oam2 = eval.oam2
  BY <1>1, <1>4 DEF EvalState
<1>. QED BY <1>2, <1>5, <1>6 DEF Fetch, Prefetch

LEMMA FetchStep ==
  ASSUME Typed, Steady, First, Fetch \/ Prefetch, Observe
  PROVE  Typed' /\ Steady' /\ First'
<1>1. /\ eval' \in EvalState /\ Advance /\ dot > LastEval
      /\ eval'.index = eval.index /\ eval'.byte = eval.byte
      /\ eval'.source = eval.source /\ eval'.finished = eval.finished
      /\ eval'.has_sprite_zero = eval.has_sprite_zero
  BY FetchFields
<1>2. Typed'
  BY <1>1, AdvanceTyped
<1>3. CASE dot = Width - 1 /\ dot' = 0 /\ began' = Blank
  <2>1. ~(dot' >= 1)
    BY <1>3
  <2>. QED BY <1>2, <1>3, <2>1, Zenon DEF Steady, First
<1>4. CASE dot < Width - 1 /\ dot' = dot + 1
  <2>1. LastEval >= LastClear + 6 /\ dot \in Nat
    BY EnoughDots, Geometry, SpritesAssumption DEF Typed
  <2>2. /\ dot >= 1 /\ dot # 0 /\ dot # LastClear + 1 /\ dot # LastClear + 2
        /\ dot > LastClear + 2
        /\ dot' > LastClear + 2 /\ dot' >= LastClear + 2 /\ dot' # LastClear + 2
        /\ ~(dot' <= LastClear + 1) /\ ~(dot' \in LastClear + 2 .. LastEval)
    BY <1>1, <1>4, <2>1, Geometry
  <2>3. /\ line' = line /\ rendering' = rendering /\ ~passing' /\ steady' = steady
        /\ began' = began /\ Visible' = Visible
    BY <1>1, <1>4, <2>1, <2>2, AdvanceObserved, Geometry DEF Visible
  <2>4. Steady'
    BY <1>1, <2>2, <2>3, Zenon DEF Steady
  <2>5. First'
    BY <1>1, <2>2, <2>3, Zenon DEF First, InSync
  <2>. QED BY <1>2, <2>4, <2>5
<1>. QED BY <1>1, <1>3, <1>4, AdvanceObserved

LEMMA CpuStep ==
  ASSUME Typed, First, Toggle \/ WriteOamAddress \/ WriteOamData \/ Transfer, Observe
  PROVE  Typed' /\ Steady' /\ First'
<1>1. eval \in EvalState /\ eval.oam_address \in Address
  BY DEF Typed, EvalState
<1>2. \E address \in Address : eval' = [eval EXCEPT !.oam_address = address]
  <2>1. eval = [eval EXCEPT !.oam_address = eval.oam_address]
    BY <1>1 DEF EvalState
  <2>2. CASE Toggle \/ Transfer
    BY <1>1, <2>1, <2>2 DEF Toggle, Transfer
  <2>3. CASE WriteOamAddress
    BY <2>3, SpritesAssumption DEF WriteOamAddress
  <2>4. CASE WriteOamData
    <3>1. NextSprite(eval.oam_address) \in Address /\ Plus(eval.oam_address, 1) \in Address
      BY <1>1, NextSpriteType, PlusType, 1 \in Nat
    <3>2. \/ eval' = [eval EXCEPT !.oam_address = NextSprite(eval.oam_address)]
          \/ eval' = [eval EXCEPT !.oam_address = Plus(eval.oam_address, 1)]
      BY <2>4 DEF WriteOamData
    <3>. QED BY <3>1, <3>2, Zenon
  <2>. QED BY <2>2, <2>3, <2>4
<1>3. PICK address \in Address : eval' = [eval EXCEPT !.oam_address = address]
  BY <1>2
<1>4. eval' \in EvalState
  BY <1>1, <1>3, FieldTypes
<1>5. /\ eval'.index = eval.index /\ eval'.byte = eval.byte /\ eval'.source = eval.source
      /\ eval'.has_sprite_zero = eval.has_sprite_zero
  BY <1>1, <1>3 DEF EvalState
<1>6. line' = line /\ dot' = dot
  BY DEF Toggle, WriteOamAddress, WriteOamData, Transfer
<1>7. oam' \in [Address -> Byte]
  <2>1. CASE WriteOamData
    <3>1. 0 \in Byte /\ Blank \in Byte
      BY DEF Byte, Blank
    <3>. QED BY <2>1, <3>1, <1>1 DEF Typed, WriteOamData
  <2>2. CASE Toggle \/ WriteOamAddress \/ Transfer
    BY <2>2, SpritesAssumption DEF Typed, Toggle, WriteOamAddress, Transfer
  <2>. QED BY <2>1, <2>2
<1>8. rendering' \in BOOLEAN /\ passing' \in BOOLEAN
  BY DEF Typed, Toggle, WriteOamAddress, WriteOamData, Transfer
<1>. QED BY <1>4, <1>5, <1>6, <1>7, <1>8, StillStep DEF Typed

LEMMA UpdateBeamStep ==
  ASSUME Typed, First, UpdateBeam, Observe
  PROVE  Typed' /\ Steady' /\ First'
<1>1. eval \in EvalState /\ dot \in Nat /\ dot \in 0 .. Width - 1 /\ passing
  BY DEF Typed, UpdateBeam
<1>2. ~steady'
  BY <1>1 DEF Observe
<1>3. eval' \in EvalState
  BY <1>1, AtLineStartFields DEF UpdateBeam
<1>4. dot' \in 0 .. Width - 1 /\ line' \in 0 .. PreRender
  BY Moving, Geometry, SpritesAssumption DEF Typed, UpdateBeam
<1>5. Typed'
  BY <1>3, <1>4 DEF Typed, UpdateBeam
<1>6. First'
  <2>. SUFFICES ASSUME began' # Blank PROVE First'
    BY DEF First
  <2>1. dot' # 0 /\ began' = began
    BY <1>1, Zenon DEF Observe
  <2>2. dot < Width - 1 /\ dot' = dot + 1
    BY <1>1, <2>1, Moving DEF UpdateBeam
  <2>3. dot > LastClear + 2
    BY <1>1, <2>1, Geometry DEF First
  <2>4. eval' = eval
    BY <2>2, Geometry DEF UpdateBeam
  <2>. QED BY <1>1, <2>1, <2>2, <2>3, <2>4, Geometry DEF First, InSync
<1>. QED BY <1>2, <1>5, <1>6 DEF Steady

-----------------------------------------------------------------------------
(* The latches                                                             *)

LEMMA BeyondIsList ==
  ASSUME Typed
  PROVE  \E S : Beyond \in Seq(S)
<1>. DEFINE first == (eval.source[Slots - 1] \div 4) + 1
            extras == {n \in first .. Sprites - 1 : InRange(oam[4 * n])}
            Nth(k) == CHOOSE n \in extras : Cardinality({o \in extras : o <= n}) = k
            Source(k) == [source |-> 4 * Nth(k), is_sprite_0 |-> FALSE, shown |-> TRUE]
            size == Cardinality(extras)
            S == {Source(k) : k \in 1 .. size}
<1>1. size \in Nat
  <2>1. Slots - 1 \in 0 .. Slots - 1
    BY SpritesAssumption
  <2>2. eval.source[Slots - 1] \in Nat
    BY <2>1 DEF Typed, EvalState, Address
  <2>3. first \in Int /\ Sprites - 1 \in Int
    BY <2>2, SpritesAssumption
  <2>. HIDE DEF first
  <2>4. IsFiniteSet(first .. Sprites - 1)
    BY <2>3, FS_Interval, Zenon
  <2>5. extras \in SUBSET (first .. Sprites - 1)
    OBVIOUS
  <2>. HIDE DEF extras
  <2>6. IsFiniteSet(extras)
    BY <2>4, <2>5, FS_Subset, Zenon
  <2>. QED BY <2>6, FS_CardinalityType, Zenon
<1>2. Beyond = [k \in 1 .. size |-> Source(k)]
  BY Zenon DEF Beyond
<1>. HIDE DEF size, Source
<1>3. Beyond \in [1 .. size -> S]
  BY <1>2
<1>. HIDE DEF S
<1>4. Beyond \in Seq(S)
  BY <1>1, <1>3
<1>. QED BY <1>4

LEMMA WithSlotFits ==
  ASSUME Typed, Fit, NEW slot \in 0 .. Slots - 1
  PROVE  \E S : WithSlot(slot) \in Seq(S) /\ Len(WithSlot(slot)) <= Sprites
<1>. DEFINE kept == IF slot = 0 \/ Len(sprite_latches) < Slots THEN OfSlots ELSE sprite_latches
            fetched == [kept EXCEPT ![slot + 1] = Fetched(slot)]
            ofSlots == SubSeq(fetched, 1, Slots)
            both == ofSlots \o Beyond
            limit == IF Slots + Len(Beyond) < Sprites THEN Slots + Len(Beyond) ELSE Sprites
<1>1. PICK S : sprite_latches \in Seq(S) /\ Len(sprite_latches) <= Sprites
  BY DEF Fit
<1>2. PICK B : Beyond \in Seq(B)
  BY BeyondIsList
<1>. DEFINE T == S \union {Unused, Fetched(slot)} \union B
<1>3. sprite_latches \in Seq(T) /\ Beyond \in Seq(T) /\ Fetched(slot) \in T /\ Unused \in T
  BY <1>1, <1>2
<1>. HIDE DEF T
<1>4. Slots \in Nat /\ Sprites \in Nat /\ Slots < Sprites /\ Slots > 0
  BY SpritesAssumption
<1>5. OfSlots \in Seq(T) /\ Len(OfSlots) = Slots
  <2>1. \A k \in 1 .. Len(sprite_latches) : sprite_latches[k] \in T
    BY <1>3, ElementOfSeq
  <2>2. Len(sprite_latches) \in Nat
    BY <1>1, LenProperties
  <2>3. OfSlots \in [1 .. Slots -> T]
    BY <1>3, <1>4, <2>1, <2>2 DEF OfSlots
  <2>. QED BY <1>4, <2>3
<1>6. kept \in Seq(T) /\ Len(kept) >= Slots /\ Len(kept) <= Sprites /\ Len(kept) \in Nat
  <2>1. Len(sprite_latches) \in Nat
    BY <1>1, LenProperties
  <2>. QED BY <1>1, <1>3, <1>4, <1>5, <2>1
<1>. HIDE DEF kept
<1>7. fetched \in Seq(T) /\ Len(fetched) = Len(kept)
  <2>1. slot + 1 \in 1 .. Len(kept)
    BY <1>4, <1>6
  <2>. QED BY <1>3, <1>6, <2>1, ExceptSeq
<1>. HIDE DEF fetched
<1>8. ofSlots \in Seq(T) /\ Len(ofSlots) = Slots
  <2>1. \A i \in 1 .. Slots : fetched[i] \in T
    BY <1>4, <1>6, <1>7, ElementOfSeq
  <2>2. /\ SubSeq(fetched, 1, Slots) \in Seq(T)
        /\ Len(SubSeq(fetched, 1, Slots)) = IF 1 <= Slots THEN Slots - 1 + 1 ELSE 0
    BY <1>4, <2>1, SubSeqProperties
  <2>. QED BY <1>4, <2>2
<1>. HIDE DEF ofSlots
<1>9. Len(Beyond) \in Nat
  BY <1>3, LenProperties
<1>10. both \in Seq(T) /\ Len(both) = Slots + Len(Beyond)
  BY <1>3, <1>8, ConcatProperties
<1>. HIDE DEF both
<1>11. limit \in Nat /\ limit <= Sprites /\ limit <= Slots + Len(Beyond) /\ limit >= 1
  BY <1>4, <1>9
<1>. HIDE DEF limit
<1>12. SubSeq(both, 1, limit) \in Seq(T) /\ Len(SubSeq(both, 1, limit)) = limit
  <2>1. \A i \in 1 .. limit : both[i] \in T
    BY <1>4, <1>9, <1>10, <1>11, ElementOfSeq
  <2>2. /\ SubSeq(both, 1, limit) \in Seq(T)
        /\ Len(SubSeq(both, 1, limit)) = IF 1 <= limit THEN limit - 1 + 1 ELSE 0
    BY <1>11, <2>1, SubSeqProperties
  <2>. QED BY <1>11, <2>2
<1>13. WithSlot(slot) \in {fetched, SubSeq(both, 1, limit), ofSlots}
  BY DEF WithSlot, kept, fetched, ofSlots, both, limit
<1>14. \A list \in {fetched, SubSeq(both, 1, limit), ofSlots} :
         list \in Seq(T) /\ Len(list) <= Sprites
  BY <1>4, <1>6, <1>7, <1>8, <1>11, <1>12, SMTT(30)
<1>. QED BY <1>13, <1>14

LEMMA FitStep ==
  ASSUME Typed, Fit, Next
  PROVE  Fit'
<1>1. CASE UNCHANGED sprite_latches
  BY <1>1 DEF Fit
<1>2. CASE Fetch /\ FetchesSlot /\ sprite_latches' = WithSlot(Slot)
  <2>1. Slot \in 0 .. Slots - 1
    <3>1. dot - LastEval - 5 \in Nat /\ Span \in Nat /\ Span > 0 /\ Slots \in Nat
      BY <1>2, Geometry, SpritesAssumption DEF FetchesSlot, Typed
    <3>2. Slot \in Nat
      BY <3>1 DEF Slot
    <3>3. Slot < Slots
      BY <1>2 DEF FetchesSlot
    <3>. QED BY <3>1, <3>2, <3>3
  <2>. QED BY <1>2, <2>1, WithSlotFits DEF Fit
<1>3. UNCHANGED sprite_latches \/ (Fetch /\ FetchesSlot /\ sprite_latches' = WithSlot(Slot))
  <2>1. CASE Fetch
    BY <2>1, Zenon DEF Fetch
  <2>2. CASE ~Fetch
    BY <2>2, Zenon DEF Next, LineStart, Clear, Evaluate, Prefetch, Toggle, WriteOamAddress,
                       WriteOamData, Transfer, UpdateBeam
  <2>. QED BY <2>1, <2>2
<1>. QED BY <1>1, <1>2, <1>3

-----------------------------------------------------------------------------
(* What an undisturbed line collects.                                      *)

(* Secondary OAM is cleared, a byte on each dot. *)
Clearing ==
  steady /\ dot \in 1 .. LastClear + 1 =>
    /\ eval.clear_index = IF dot - 1 < Full THEN dot - 1 ELSE Full
    /\ \A i \in 0 .. eval.clear_index - 1 : eval.oam2[i] = Blank

(* The slots begun, and the sprites looked at. *)
Begun(e) == (e.index + 3) \div 4

Passed(e) ==
  IF e.index = Full THEN (e.source[Slots - 1] \div 4) + 1
  ELSE IF e.finished THEN Sprites
  ELSE (e.oam_address + 3) \div 4

(* The slots hold the sprites on the line among those looked at, in order. *)
Collected(e) ==
  /\ \A k \in 0 .. Begun(e) - 1 :
       /\ e.source[k] % 4 = 0 /\ e.source[k] < 4 * Passed(e)
       /\ InRange(oam[e.source[k]]) /\ InRange(e.oam2[4 * k])
  /\ \A k \in Begun(e) .. Slots - 1 : ~InRange(e.oam2[4 * k])
  /\ \A j, k \in 0 .. Begun(e) - 1 : j < k => e.source[j] < e.source[k]
  /\ \A n \in 0 .. Passed(e) - 1 :
       InRange(oam[4 * n]) => \E k \in 0 .. Begun(e) - 1 : e.source[k] = 4 * n
  /\ e.has_sprite_zero <=> \E k \in 0 .. Begun(e) - 1 : e.source[k] = 0
  /\ ~e.finished /\ e.index < Full /\ e.byte > 0 =>
       e.source[e.index \div 4] = Aligned(e.oam_address)

Evaluated ==
  steady /\ dot >= LastClear + 2 =>
    /\ Collected(eval)
    /\ dot <= LastEval /\ dot % 2 = 0 => eval.oam_buffer = ReadOam(eval.oam_address)

(* The dot on which a slot is fetched. *)
FetchDot(k) == LastEval + 5 + k * Span

FetchedSoFar ==
  /\ steady /\ dot > LastEval + 4 => render_has_sprite_zero = eval.has_sprite_zero
  /\ steady /\ dot > FetchDot(0) =>
       /\ Len(sprite_latches) >= Slots
       /\ \A k \in 0 .. Slots - 1 :
            dot > FetchDot(k) => sprite_latches[k + 1] = Fetched(k)
  /\ steady /\ dot > FetchDot(Slots - 1) =>
       LET beyond == IF eval.index = Full THEN Beyond ELSE <<>>
       IN /\ Len(sprite_latches) = Slots + Len(beyond)
          /\ \A j \in 1 .. Len(beyond) : sprite_latches[Slots + j] = beyond[j]

ShownInv == Clearing /\ Evaluated /\ FetchedSoFar

-----------------------------------------------------------------------------
(* Fours                                                                    *)

LEMMA EvalTypes ==
  ASSUME NEW e \in EvalState
  PROVE  /\ e.index \in 0 .. Full /\ e.byte \in 0 .. 3 /\ e.finished \in BOOLEAN
         /\ e.has_sprite_zero \in BOOLEAN
         /\ e.oam_address \in Address /\ e.oam_address \in Nat
         /\ e.oam_address \div 4 \in 0 .. Sprites - 1
         /\ e.source \in [0 .. Slots - 1 -> Nat] /\ e.oam2 \in [0 .. 4 * Slots - 1 -> Nat]
         /\ Full = 4 * Slots /\ Slots \in Nat \ {0} /\ Sprites \in Nat
<1>1. /\ e.index \in 0 .. Full /\ e.byte \in 0 .. 3 /\ e.finished \in BOOLEAN
      /\ e.has_sprite_zero \in BOOLEAN
      /\ e.oam_address \in Address
      /\ e.source \in [0 .. Slots - 1 -> Address] /\ e.oam2 \in [0 .. Full - 1 -> Byte]
  BY DEF EvalState
<1>2. Slots \in Nat \ {0} /\ Sprites \in Nat /\ Full = 4 * Slots
  BY SpritesAssumption DEF Full
<1>3. /\ \A a \in Address : a \in Nat /\ a \div 4 \in 0 .. Sprites - 1
      /\ \A b \in Byte : b \in Nat
  BY <1>2 DEF Address, Byte
<1>4. e.source \in [0 .. Slots - 1 -> Nat] /\ e.oam2 \in [0 .. 4 * Slots - 1 -> Nat]
  BY <1>1, <1>2, <1>3
<1>. QED BY <1>1, <1>2, <1>3, <1>4

LEMMA Quarter ==
  ASSUME NEW q \in Nat, NEW r \in 0 .. 3
  PROVE  (4 * q + r) \div 4 = q /\ (4 * q + r) % 4 = r
OBVIOUS

LEMMA Fourth ==
  ASSUME NEW a \in Nat, a % 4 = 0
  PROVE  a = 4 * (a \div 4) /\ a \div 4 \in Nat
OBVIOUS

LEMMA FourthOver ==
  ASSUME NEW a \in Nat, NEW r \in Nat, a % 4 = r
  PROVE  a = 4 * (a \div 4) + r /\ a \div 4 \in Nat
OBVIOUS

LEMMA QuarterUp ==
  ASSUME NEW q \in Nat
  PROVE  /\ (4 * q) \div 4 = q /\ (4 * q + 1) \div 4 = q
         /\ (4 * q + 3) \div 4 = q
         /\ \A r \in 1 .. 3 : (4 * q + r + 3) \div 4 = q + 1
         /\ (4 * q + 4) \div 4 = q + 1
OBVIOUS

LEMMA RoundedUp ==
  ASSUME NEW a \in Nat, a % 4 = 0
  PROVE  (a + 3) \div 4 = a \div 4
OBVIOUS

-----------------------------------------------------------------------------
(* The steps of the evaluation and what is collected.                       *)

(* A step that adds no sprite and passes none. *)
LEMMA CollectedKept ==
  ASSUME NEW e, NEW f, Collected(e), Begun(e) \in 0 .. Slots,
         f.source = e.source, \A k \in 0 .. Slots - 1 : f.oam2[4 * k] = e.oam2[4 * k],
         f.has_sprite_zero = e.has_sprite_zero,
         Begun(f) = Begun(e), Passed(f) = Passed(e),
         ~f.finished /\ f.index < Full /\ f.byte > 0 =>
           f.source[f.index \div 4] = Aligned(f.oam_address)
  PROVE  Collected(f)
<1>. DEFINE b == Begun(e)
            p == Passed(e)
<1>0. Slots \in Nat /\ b \in 0 .. Slots /\ Begun(f) = b /\ Passed(f) = p
  BY SpritesAssumption
<1>1. /\ \A k \in 0 .. b - 1 : k \in 0 .. Slots - 1
      /\ \A k \in b .. Slots - 1 : k \in 0 .. Slots - 1
  <2>. HIDE DEF b, p
  <2>. QED BY <1>0
<1>2. /\ \A k \in 0 .. b - 1 : /\ e.source[k] % 4 = 0 /\ e.source[k] < 4 * p
                              /\ InRange(oam[e.source[k]]) /\ InRange(e.oam2[4 * k])
      /\ \A k \in b .. Slots - 1 : ~InRange(e.oam2[4 * k])
  BY Zenon DEF Collected
<1>3. /\ \A j, k \in 0 .. b - 1 : j < k => e.source[j] < e.source[k]
      /\ \A n \in 0 .. p - 1 : InRange(oam[4 * n]) => \E k \in 0 .. b - 1 : e.source[k] = 4 * n
      /\ e.has_sprite_zero <=> \E k \in 0 .. b - 1 : e.source[k] = 0
  BY Zenon DEF Collected
<1>. HIDE DEF b, p
<1>4. \A k \in 0 .. Begun(f) - 1 : /\ f.source[k] % 4 = 0 /\ f.source[k] < 4 * Passed(f)
                                  /\ InRange(oam[f.source[k]]) /\ InRange(f.oam2[4 * k])
  BY <1>0, <1>1, <1>2, Zenon
<1>5. \A k \in Begun(f) .. Slots - 1 : ~InRange(f.oam2[4 * k])
  BY <1>0, <1>1, <1>2, Zenon
<1>6. /\ \A j, k \in 0 .. Begun(f) - 1 : j < k => f.source[j] < f.source[k]
      /\ \A n \in 0 .. Passed(f) - 1 :
           InRange(oam[4 * n]) => \E k \in 0 .. Begun(f) - 1 : f.source[k] = 4 * n
      /\ f.has_sprite_zero <=> \E k \in 0 .. Begun(f) - 1 : f.source[k] = 0
  BY <1>0, <1>3, ZenonT(40)
<1>. QED BY <1>4, <1>5, <1>6, Zenon DEF Collected

LEMMA CollectedFound ==
  ASSUME NEW e \in EvalState, Collected(e), InSync(e), ~e.finished, e.index < Full, e.byte = 0,
         e.oam_address % 4 = 0, e.oam_buffer = oam[e.oam_address], InRange(e.oam_buffer),
         dot = LastClear + 2 <=> e.oam_address = 0
  PROVE  Collected(Found(e))
<1>. DEFINE f == Found(e)
            c == e.index \div 4
            a == e.oam_address
            n == a \div 4
<1>1. /\ f.index = e.index + 1 /\ f.oam_address = Plus(a, 1) /\ f.byte = 1
      /\ f.finished = e.finished
      /\ f.source = [e.source EXCEPT ![c] = a]
      /\ f.has_sprite_zero = (e.has_sprite_zero \/ dot = LastClear + 2)
      /\ f.oam2 = [e.oam2 EXCEPT ![e.index] = e.oam_buffer]
  BY FoundFields
<1>2. /\ Slots \in Nat /\ c \in 0 .. Slots - 1 /\ e.index = 4 * c
      /\ a = 4 * n /\ n \in 0 .. Sprites - 1
      /\ a \in Nat /\ e.index \in 0 .. 4 * Slots - 1
      /\ e.source \in [0 .. Slots - 1 -> Nat] /\ e.oam2 \in [0 .. 4 * Slots - 1 -> Nat]
  <2>1. /\ e.index \in 0 .. 4 * Slots - 1 /\ e.index \in Nat /\ a \in Nat /\ n \in 0 .. Sprites - 1
        /\ e.source \in [0 .. Slots - 1 -> Nat] /\ e.oam2 \in [0 .. 4 * Slots - 1 -> Nat]
        /\ Slots \in Nat
    BY EvalTypes, SMTT(30)
  <2>2. e.index % 4 = 0 /\ a % 4 = 0
    BY DEF InSync
  <2>3. e.index = 4 * c /\ c \in Nat /\ a = 4 * n
    BY <2>1, <2>2, Fourth
  <2>. HIDE DEF c, a, n
  <2>4. c \in 0 .. Slots - 1
    BY <2>1, <2>3
  <2>. QED BY <2>1, <2>3, <2>4
<1>3. f.oam_address % 4 = 1 /\ f.oam_address \div 4 = n /\ f.oam_address \in Nat
  BY <1>1, <1>2, EvalTypes, PlusOne, PlusType DEF Address
<1>. HIDE DEF f, c, n, a
<1>4. Begun(e) = c /\ Begun(f) = c + 1
  <2>1. Begun(e) = (4 * c + 3) \div 4 /\ Begun(f) = (4 * c + 1 + 3) \div 4
    BY <1>1, <1>2 DEF Begun
  <2>. QED BY <1>2, <2>1
<1>5. Passed(e) = n /\ Passed(f) = n + 1
  <2>1. e.index # Full /\ f.index # Full
    <3>1. Full = 4 * Slots /\ Slots \in Nat
      BY EvalTypes
    <3>. QED BY <1>1, <1>2, <3>1
  <2>2. (a + 3) \div 4 = n
    BY <1>2
  <2>3. (f.oam_address + 3) \div 4 = n + 1
    BY <1>3
  <2>. QED BY <1>1, <2>1, <2>2, <2>3 DEF Passed, a
<1>6. /\ f.source[c] = a /\ f.oam2[4 * c] = e.oam_buffer
      /\ \A k \in 0 .. Slots - 1 : k # c =>
           f.source[k] = e.source[k] /\ f.oam2[4 * k] = e.oam2[4 * k]
  <2>1. \A k \in 0 .. Slots - 1 : 4 * k \in 0 .. 4 * Slots - 1 /\ (4 * k = 4 * c => k = c)
    BY <1>2
  <2>2. f.source[c] = a /\ \A k \in 0 .. Slots - 1 : k # c => f.source[k] = e.source[k]
    BY <1>1, <1>2
  <2>3. f.oam2[4 * c] = e.oam_buffer
    BY <1>1, <1>2
  <2>4. ASSUME NEW k \in 0 .. Slots - 1, k # c PROVE f.oam2[4 * k] = e.oam2[4 * k]
    <3>1. 4 * k \in 0 .. 4 * Slots - 1 /\ 4 * k # e.index
      BY <1>2, <2>1, <2>4
    <3>. QED BY <1>1, <1>2, <3>1
  <2>. QED BY <2>2, <2>3, <2>4
<1>7. \A k \in 0 .. c : k # c => k \in 0 .. c - 1 /\ k \in 0 .. Slots - 1
  BY <1>2
<1>8. \A k \in 0 .. c - 1 : e.source[k] < a /\ e.source[k] < 4 * (n + 1) /\ e.source[k] \in Nat
  <2>1. \A k \in 0 .. c - 1 : k \in 0 .. Slots - 1
    BY <1>2
  <2>2. \A k \in 0 .. c - 1 : e.source[k] < 4 * n
    BY <1>4, <1>5 DEF Collected
  <2>3. \A k \in 0 .. c - 1 : e.source[k] \in Nat
    BY <1>2, <2>1
  <2>. QED BY <1>2, <2>2, <2>3
<1>9. \A k \in 0 .. c : /\ f.source[k] % 4 = 0 /\ f.source[k] < 4 * (n + 1)
                       /\ InRange(oam[f.source[k]]) /\ InRange(f.oam2[4 * k])
  <2>1. ASSUME NEW k \in 0 .. c
        PROVE  /\ f.source[k] % 4 = 0 /\ f.source[k] < 4 * (n + 1)
               /\ InRange(oam[f.source[k]]) /\ InRange(f.oam2[4 * k])
    <3>1. CASE k = c
      <4>1. (4 * n) % 4 = 0 /\ 4 * n < 4 * (n + 1)
        BY <1>2
      <4>2. InRange(oam[a]) /\ InRange(e.oam_buffer)
        BY DEF a
      <4>. QED BY <1>2, <1>6, <3>1, <4>1, <4>2
    <3>2. CASE k # c
      BY <1>4, <1>6, <1>7, <1>8, <3>2 DEF Collected
    <3>. QED BY <3>1, <3>2
  <2>. QED BY <2>1
<1>10. \A k \in c + 1 .. Slots - 1 : ~InRange(f.oam2[4 * k])
  <2>1. \A k \in c + 1 .. Slots - 1 : k # c /\ k \in c .. Slots - 1 /\ k \in 0 .. Slots - 1
    BY <1>2
  <2>. QED BY <1>4, <1>6, <2>1 DEF Collected
<1>11. \A j, k \in 0 .. c : j < k => f.source[j] < f.source[k]
  <2>1. ASSUME NEW j \in 0 .. c, NEW k \in 0 .. c, j < k PROVE f.source[j] < f.source[k]
    <3>1. j # c
      BY <1>2, <2>1
    <3>2. CASE k = c
      BY <1>6, <1>7, <1>8, <3>1, <3>2
    <3>3. CASE k # c
      BY <1>4, <1>6, <1>7, <2>1, <3>1, <3>3 DEF Collected
    <3>. QED BY <3>2, <3>3
  <2>. QED BY <2>1
<1>12. \A m \in 0 .. n : InRange(oam[4 * m]) => \E k \in 0 .. c : f.source[k] = 4 * m
  <2>1. ASSUME NEW m \in 0 .. n, InRange(oam[4 * m]) PROVE \E k \in 0 .. c : f.source[k] = 4 * m
    <3>1. CASE m = n
      <4>1. c \in 0 .. c
        BY <1>2
      <4>. QED BY <1>2, <1>6, <3>1, <4>1
    <3>2. CASE m # n
      <4>1. m \in 0 .. n - 1
        BY <1>2, <3>2
      <4>2. PICK k \in 0 .. c - 1 : e.source[k] = 4 * m
        BY <1>4, <1>5, <2>1, <4>1 DEF Collected
      <4>3. k \in 0 .. c /\ k # c /\ k \in 0 .. Slots - 1
        BY <1>2
      <4>. QED BY <1>6, <4>2, <4>3
    <3>. QED BY <3>1, <3>2
  <2>. QED BY <2>1
<1>13. f.has_sprite_zero <=> \E k \in 0 .. c : f.source[k] = 0
  <2>1. e.has_sprite_zero <=> \E k \in 0 .. c - 1 : e.source[k] = 0
    BY <1>4 DEF Collected
  <2>2. c \in 0 .. c /\ \A k \in 0 .. c - 1 : k \in 0 .. c /\ k # c /\ k \in 0 .. Slots - 1
    BY <1>2
  <2>3. f.has_sprite_zero <=> e.has_sprite_zero \/ a = 0
    BY <1>1 DEF a
  <2>. QED BY <1>6, <1>7, <2>1, <2>2, <2>3, Zenon
<1>14. f.source[f.index \div 4] = Aligned(f.oam_address)
  <2>1. f.index \div 4 = c
    BY <1>1, <1>2
  <2>. QED BY <1>2, <1>3, <1>6, <2>1 DEF Aligned
<1>15. /\ 0 .. Begun(f) - 1 = 0 .. c /\ Begun(f) .. Slots - 1 = c + 1 .. Slots - 1
       /\ 0 .. Passed(f) - 1 = 0 .. n /\ Passed(f) = n + 1
  BY <1>2, <1>4, <1>5
<1>16. Collected(f)
  <2>1. \A k \in 0 .. Begun(f) - 1 :
          /\ f.source[k] % 4 = 0 /\ f.source[k] < 4 * Passed(f)
          /\ InRange(oam[f.source[k]]) /\ InRange(f.oam2[4 * k])
    BY <1>9, <1>15
  <2>2. \A k \in Begun(f) .. Slots - 1 : ~InRange(f.oam2[4 * k])
    BY <1>10, <1>15
  <2>3. \A j, k \in 0 .. Begun(f) - 1 : j < k => f.source[j] < f.source[k]
    BY <1>11, <1>15
  <2>4. \A m \in 0 .. Passed(f) - 1 :
          InRange(oam[4 * m]) => \E k \in 0 .. Begun(f) - 1 : f.source[k] = 4 * m
    BY <1>12, <1>15
  <2>5. f.has_sprite_zero <=> \E k \in 0 .. Begun(f) - 1 : f.source[k] = 0
    BY <1>13, <1>15
  <2>. QED BY <1>14, <2>1, <2>2, <2>3, <2>4, <2>5, Zenon DEF Collected
<1>. QED BY <1>16 DEF f
LEMMA CollectedNotFound ==
  ASSUME NEW e \in EvalState, Collected(e), InSync(e), ~e.finished, e.index < Full, e.byte = 0,
         e.oam_address % 4 = 0, e.oam_buffer = oam[e.oam_address], ~InRange(e.oam_buffer)
  PROVE  Collected(NotFound(e))
<1>. DEFINE f == NotFound(e)
            c == e.index \div 4
            a == e.oam_address
            n == a \div 4
<1>1. /\ f.index = e.index /\ f.oam_address = NextSprite(a) /\ f.byte = e.byte
      /\ f.finished = IsLast(a) /\ f.source = e.source
      /\ f.has_sprite_zero = e.has_sprite_zero
      /\ f.oam2 = [e.oam2 EXCEPT ![e.index] = e.oam_buffer]
  BY NotFoundFields
<1>2. /\ Slots \in Nat /\ c \in 0 .. Slots - 1 /\ e.index = 4 * c /\ a = 4 * n
      /\ n \in 0 .. Sprites - 1 /\ a \in Address /\ Full = 4 * Slots /\ Sprites \in Nat
      /\ e.source \in [0 .. Slots - 1 -> Nat] /\ e.oam2 \in [0 .. 4 * Slots - 1 -> Nat]
  <2>1. /\ e.index \in 0 .. 4 * Slots - 1 /\ e.index \in Nat /\ a \in Nat /\ n \in 0 .. Sprites - 1
        /\ e.source \in [0 .. Slots - 1 -> Nat] /\ e.oam2 \in [0 .. 4 * Slots - 1 -> Nat]
        /\ Slots \in Nat /\ a \in Address /\ Full = 4 * Slots /\ Sprites \in Nat
    BY EvalTypes
  <2>2. e.index % 4 = 0 /\ a % 4 = 0
    BY DEF InSync
  <2>3. e.index = 4 * c /\ c \in Nat /\ a = 4 * n
    BY <2>1, <2>2, Fourth
  <2>. HIDE DEF c, a, n
  <2>4. c \in 0 .. Slots - 1
    BY <2>1, <2>3
  <2>. QED BY <2>1, <2>3, <2>4
<1>. HIDE DEF f, c
<1>3. Begun(e) = c /\ Begun(f) = c
  <2>1. Begun(e) = (4 * c + 3) \div 4 /\ Begun(f) = (4 * c + 3) \div 4
    BY <1>1, <1>2 DEF Begun
  <2>. QED BY <1>2, <2>1
<1>4. Passed(e) = n /\ Passed(f) = n + 1
  <2>1. e.index # Full /\ f.index # Full
    BY <1>1, <1>2
  <2>4. (a + 3) \div 4 = n
    BY EvalTypes, RoundedUp
  <2>2. CASE IsLast(a)
    <3>1. n + 1 = Sprites
      BY <1>2, <2>2 DEF IsLast
    <3>. QED BY <1>1, <2>1, <2>2, <2>4, <3>1 DEF Passed
  <2>3. CASE ~IsLast(a)
    <3>1. f.oam_address % 4 = 0 /\ f.oam_address \div 4 = n + 1 /\ f.oam_address \in Nat
      BY <1>1, <1>2, <2>3, OntoNext, NextSpriteType DEF Address
    <3>3. (f.oam_address + 3) \div 4 = n + 1
      BY <3>1, RoundedUp
    <3>. QED BY <1>1, <2>1, <2>3, <2>4, <3>3 DEF Passed
  <2>. QED BY <2>2, <2>3
<1>. HIDE DEF a, n
<1>11. Slots \in Nat /\ c \in 0 .. Slots - 1 /\ n \in Nat
  BY <1>2
<1>5. /\ f.oam2[4 * c] = e.oam_buffer
      /\ \A k \in 0 .. Slots - 1 : k # c => f.oam2[4 * k] = e.oam2[4 * k]
  <2>1. \A k \in 0 .. Slots - 1 : 4 * k \in 0 .. 4 * Slots - 1 /\ (4 * k = 4 * c => k = c)
    BY <1>2
  <2>. QED BY <1>1, <1>2, <2>1
<1>6. \A k \in 0 .. c - 1 :
        /\ f.source[k] % 4 = 0 /\ f.source[k] < 4 * (n + 1)
        /\ InRange(oam[f.source[k]]) /\ InRange(f.oam2[4 * k])
  <2>1. ASSUME NEW k \in 0 .. c - 1
        PROVE  /\ f.source[k] % 4 = 0 /\ f.source[k] < 4 * (n + 1)
               /\ InRange(oam[f.source[k]]) /\ InRange(f.oam2[4 * k])
    <3>1. k # c /\ k \in 0 .. Slots - 1
      BY <1>11
    <3>2. /\ e.source[k] % 4 = 0 /\ e.source[k] < 4 * n
          /\ InRange(oam[e.source[k]]) /\ InRange(e.oam2[4 * k])
      BY <1>3, <1>4 DEF Collected
    <3>3. e.source[k] < 4 * (n + 1)
      <4>1. e.source[k] \in Nat /\ e.source[k] < 4 * n
        BY <1>2, <3>1, <3>2
      <4>. QED BY <1>11, <4>1
    <3>. QED BY <1>1, <1>5, <3>1, <3>2, <3>3
  <2>. QED BY <2>1
<1>7. \A k \in c .. Slots - 1 : ~InRange(f.oam2[4 * k])
  <2>1. \A k \in c .. Slots - 1 : k \in 0 .. Slots - 1
    BY <1>11
  <2>. QED BY <1>3, <1>5, <2>1 DEF Collected
<1>8. \A m \in 0 .. n : InRange(oam[4 * m]) => \E k \in 0 .. c - 1 : f.source[k] = 4 * m
  <2>1. ASSUME NEW m \in 0 .. n, InRange(oam[4 * m])
        PROVE  \E k \in 0 .. c - 1 : f.source[k] = 4 * m
    <3>1. m # n
      <4>1. ~InRange(oam[a])
        BY DEF a
      <4>. QED BY <1>2, <2>1, <4>1
    <3>2. m \in 0 .. n - 1
      BY <1>11, <3>1
    <3>. QED BY <1>1, <1>3, <1>4, <2>1, <3>2 DEF Collected
  <2>. QED BY <2>1
<1>9. /\ 0 .. Begun(f) - 1 = 0 .. c - 1 /\ Begun(f) .. Slots - 1 = c .. Slots - 1
      /\ 0 .. Passed(f) - 1 = 0 .. n /\ Passed(f) = n + 1 /\ ~(f.byte > 0)
  BY <1>1, <1>2, <1>3, <1>4
<1>10. Collected(f)
  <2>1. \A k \in 0 .. Begun(f) - 1 :
          /\ f.source[k] % 4 = 0 /\ f.source[k] < 4 * Passed(f)
          /\ InRange(oam[f.source[k]]) /\ InRange(f.oam2[4 * k])
    BY <1>6, <1>9
  <2>2. \A k \in Begun(f) .. Slots - 1 : ~InRange(f.oam2[4 * k])
    BY <1>7, <1>9
  <2>3. \A j, k \in 0 .. Begun(f) - 1 : j < k => f.source[j] < f.source[k]
    BY <1>1, <1>3 DEF Collected
  <2>4. \A m \in 0 .. Passed(f) - 1 :
          InRange(oam[4 * m]) => \E k \in 0 .. Begun(f) - 1 : f.source[k] = 4 * m
    BY <1>8, <1>9
  <2>5. f.has_sprite_zero <=> \E k \in 0 .. Begun(f) - 1 : f.source[k] = 0
    BY <1>1, <1>3 DEF Collected
  <2>. QED BY <1>9, <2>1, <2>2, <2>3, <2>4, <2>5, Zenon DEF Collected
<1>. QED BY <1>10 DEF f

LEMMA CollectedCopy ==
  ASSUME NEW e \in EvalState, Collected(e), InSync(e), ~e.finished, e.index < Full,
         e.byte \in {1, 2}, e.oam_address % 4 = e.byte
  PROVE  Collected(CopyByte(e))
<1>. DEFINE f == CopyByte(e)
            c == e.index \div 4
            a == e.oam_address
            n == a \div 4
            b == e.byte
<1>1. /\ f.index = e.index + 1 /\ f.oam_address = Plus(a, 1) /\ f.byte = b + 1
      /\ f.finished = e.finished /\ f.source = e.source
      /\ f.has_sprite_zero = e.has_sprite_zero
      /\ f.oam2 = [e.oam2 EXCEPT ![e.index] = e.oam_buffer]
  <2>1. e.byte < 3
    OBVIOUS
  <2>. QED BY <2>1, CopyFields
<1>2. /\ Slots \in Nat /\ c \in 0 .. Slots - 1 /\ e.index = 4 * c + b /\ a = 4 * n + b
      /\ n \in 0 .. Sprites - 1 /\ a \in Address /\ Full = 4 * Slots /\ Sprites \in Nat
      /\ e.oam2 \in [0 .. 4 * Slots - 1 -> Nat] /\ b \in {1, 2}
  <2>1. /\ e.index \in 0 .. 4 * Slots - 1 /\ e.index \in Nat /\ a \in Nat /\ n \in 0 .. Sprites - 1
        /\ e.oam2 \in [0 .. 4 * Slots - 1 -> Nat]
        /\ Slots \in Nat /\ a \in Address /\ Full = 4 * Slots /\ Sprites \in Nat
    BY EvalTypes
  <2>2. e.index % 4 = b /\ a % 4 = b
    BY DEF InSync
  <2>5. b \in Nat /\ b \in {1, 2}
    OBVIOUS
  <2>6. e.index = 4 * c + b /\ c \in Nat
    BY <2>1, <2>2, <2>5, FourthOver
  <2>7. a = 4 * n + b
    BY <2>1, <2>2, <2>5, FourthOver
  <2>3. e.index = 4 * c + b /\ c \in Nat /\ a = 4 * n + b
    BY <2>6, <2>7
  <2>. HIDE DEF c, a, n, b
  <2>4. c \in 0 .. Slots - 1
    BY <2>1, <2>3, <2>5
  <2>. QED BY <2>1, <2>3, <2>4, <2>5
<1>. HIDE DEF f, c, a, n, b
<1>10. /\ a = 4 * n + b /\ n \in 0 .. Sprites - 1 /\ Sprites \in Nat /\ b \in {1, 2}
       /\ c \in 0 .. Slots - 1 /\ Slots \in Nat
  BY <1>2
<1>3. f.oam_address = a + 1 /\ f.oam_address \div 4 = n
  <2>1. a + 1 < 4 * Sprites /\ a \in Nat /\ Sprites \in Nat
    BY <1>10
  <2>2. Plus(a, 1) = a + 1
    BY <2>1 DEF Plus
  <2>3. (a + 1) \div 4 = n
    BY <1>10
  <2>. QED BY <1>1, <2>2, <2>3
<1>4. Begun(e) = c + 1 /\ Begun(f) = c + 1
  BY <1>1, <1>2, QuarterUp DEF Begun
<1>5. Passed(e) = n + 1 /\ Passed(f) = n + 1
  <2>1. e.index # Full /\ f.index # Full
    BY <1>1, <1>2
  <2>2. (a + 3) \div 4 = n + 1 /\ (f.oam_address + 3) \div 4 = n + 1
    BY <1>2, <1>3
  <2>. QED BY <1>1, <2>1, <2>2 DEF Passed, a
<1>6. \A k \in 0 .. Slots - 1 : f.oam2[4 * k] = e.oam2[4 * k]
  <2>1. \A k \in 0 .. Slots - 1 : 4 * k \in 0 .. 4 * Slots - 1 /\ 4 * k # e.index
    BY <1>2
  <2>. QED BY <1>1, <1>2, <2>1
<1>7. f.source[f.index \div 4] = Aligned(f.oam_address)
  <2>1. e.source[c] = Aligned(a)
    <3>1. e.byte > 0 /\ e.index < Full /\ ~e.finished
      BY <1>2 DEF b
    <3>. QED BY <3>1 DEF Collected, c, a
  <2>2. Aligned(f.oam_address) = Aligned(a)
    BY <1>3 DEF Aligned, n
  <2>3. f.index \div 4 = c
    BY <1>1, <1>2
  <2>. QED BY <1>1, <2>1, <2>2, <2>3
<1>8. Begun(e) \in 0 .. Slots
  BY <1>2, <1>4
<1>9. Collected(f)
  BY <1>1, <1>4, <1>5, <1>6, <1>7, <1>8, CollectedKept
<1>. QED BY <1>9 DEF f

LEMMA CollectedCopyLast ==
  ASSUME NEW e \in EvalState, Collected(e), InSync(e), ~e.finished, e.index < Full,
         e.byte = 3, e.oam_address % 4 = 3
  PROVE  Collected(CopyLastByte(e))
<1>. DEFINE f == CopyLastByte(e)
            c == e.index \div 4
            a == e.oam_address
            n == a \div 4
<1>1. /\ f.index = e.index + 1 /\ f.oam_address = Plus(a, 1) /\ f.byte = 0
      /\ f.finished = IsLast(a) /\ f.source = e.source
      /\ f.has_sprite_zero = e.has_sprite_zero
      /\ f.oam2 = [e.oam2 EXCEPT ![e.index] = e.oam_buffer]
  BY CopyLastFields
<1>2. /\ Slots \in Nat /\ c \in 0 .. Slots - 1 /\ e.index = 4 * c + 3 /\ a = 4 * n + 3
      /\ n \in 0 .. Sprites - 1 /\ a \in Address /\ Full = 4 * Slots /\ Sprites \in Nat
      /\ e.oam2 \in [0 .. 4 * Slots - 1 -> Nat]
  <2>1. /\ e.index \in 0 .. 4 * Slots - 1 /\ e.index \in Nat /\ a \in Nat /\ n \in 0 .. Sprites - 1
        /\ e.oam2 \in [0 .. 4 * Slots - 1 -> Nat]
        /\ Slots \in Nat /\ a \in Address /\ Full = 4 * Slots /\ Sprites \in Nat
    BY EvalTypes
  <2>2. e.index % 4 = 3 /\ a % 4 = 3
    BY DEF InSync
  <2>3. e.index = 4 * c + 3 /\ c \in Nat
    BY <2>1, <2>2, FourthOver
  <2>4. a = 4 * n + 3
    BY <2>1, <2>2, FourthOver
  <2>. HIDE DEF c, a, n
  <2>5. c \in 0 .. Slots - 1
    BY <2>1, <2>3
  <2>. QED BY <2>1, <2>3, <2>4, <2>5
<1>3. e.source[c] = Aligned(a)
  <2>1. e.byte > 0
    OBVIOUS
  <2>. QED BY <2>1 DEF Collected
<1>4. ~IsLast(a) => f.oam_address % 4 = 0 /\ f.oam_address \div 4 = n + 1 /\ f.oam_address \in Nat
  <2>1. a \in Address /\ a % 4 = 3 /\ 1 \in Nat
    BY <1>2
  <2>. HIDE DEF a, f
  <2>2. ~IsLast(a) => Plus(a, 1) % 4 = 0 /\ Plus(a, 1) \div 4 = n + 1
    BY <2>1, PlusOneLast
  <2>3. Plus(a, 1) \in Nat
    <3>1. Plus(a, 1) \in Address
      BY <2>1, PlusType
    <3>. QED BY <3>1 DEF Address
  <2>. QED BY <1>1, <2>2, <2>3
<1>5. IsLast(a) => n + 1 = Sprites
  BY <1>2 DEF IsLast
<1>6. Aligned(a) \div 4 = n
  BY <1>2 DEF Aligned
<1>. HIDE DEF f, c, a, n
<1>7. /\ c \in 0 .. Slots - 1 /\ Slots \in Nat /\ Full = 4 * Slots /\ e.index = 4 * c + 3
      /\ f.index = 4 * c + 4 /\ a = 4 * n + 3 /\ n \in Nat
  <2>1. 4 * c + 3 + 1 = 4 * c + 4
    BY <1>2
  <2>. QED BY <1>1, <1>2, <2>1
<1>8. Begun(e) = c + 1 /\ Begun(f) = c + 1
  <2>1. (4 * c + 3 + 3) \div 4 = c + 1 /\ (4 * c + 4 + 3) \div 4 = c + 1
    BY <1>7
  <2>. QED BY <1>7, <2>1 DEF Begun
<1>9. Passed(e) = n + 1
  <2>1. (a + 3) \div 4 = n + 1 /\ e.index # Full
    BY <1>7
  <2>. QED BY <2>1 DEF Passed, a
<1>10. Passed(f) = n + 1
  <2>1. CASE f.index = Full
    <3>1. c = Slots - 1
      BY <1>7, <2>1
    <3>. QED BY <1>1, <1>3, <1>6, <2>1, <3>1 DEF Passed
  <2>2. CASE f.index # Full /\ IsLast(a)
    BY <1>1, <1>5, <2>2 DEF Passed
  <2>3. CASE f.index # Full /\ ~IsLast(a)
    <3>1. (f.oam_address + 3) \div 4 = n + 1
      BY <1>4, <2>3, RoundedUp
    <3>. QED BY <1>1, <2>3, <3>1 DEF Passed
  <2>. QED BY <2>1, <2>2, <2>3
<1>11. \A k \in 0 .. Slots - 1 : f.oam2[4 * k] = e.oam2[4 * k]
  <2>1. \A k \in 0 .. Slots - 1 : 4 * k \in 0 .. 4 * Slots - 1 /\ 4 * k # e.index
    BY <1>7
  <2>. QED BY <1>1, <1>2, <2>1
<1>12. Begun(e) \in 0 .. Slots /\ ~(f.byte > 0)
  BY <1>1, <1>7, <1>8
<1>13. Collected(f)
  BY <1>1, <1>8, <1>9, <1>10, <1>11, <1>12, CollectedKept
<1>. QED BY <1>13 DEF f

LEMMA BegunType ==
  ASSUME NEW e \in EvalState
  PROVE  Begun(e) \in 0 .. Slots
<1>1. e.index \in 0 .. 4 * Slots /\ Slots \in Nat
  BY EvalTypes
<1>. QED BY <1>1 DEF Begun

(* When the search has ended, or secondary OAM is full. *)
LEMMA CollectedOver ==
  ASSUME NEW e \in EvalState, Collected(e), NEW f,
         f.index = e.index, f.source = e.source, f.oam2 = e.oam2,
         f.has_sprite_zero = e.has_sprite_zero,
         e.index = Full \/ (e.finished /\ f.finished)
  PROVE  Collected(f)
<1>1. Begun(f) = Begun(e) /\ Begun(e) \in 0 .. Slots
  BY BegunType DEF Begun
<1>2. Passed(f) = Passed(e)
  BY DEF Passed
<1>3. ~(~f.finished /\ f.index < Full)
  <2>1. ~(Full < Full)
    BY EvalTypes
  <2>. QED BY <2>1
<1>. QED BY <1>1, <1>2, <1>3, CollectedKept

LEMMA NothingDone ==
  ASSUME NEW p \in Nat, NEW q \in Nat, NEW r \in Nat, q + 3 * p + r = 0
  PROVE  q = 0 /\ r = 0
OBVIOUS

(* The address is zero on the first step only. *)
LEMMA FirstStep ==
  ASSUME NEW e \in EvalState, Collected(e), ~e.finished, e.index < Full, Work(e, Done),
         dot \in Nat, dot % 2 = 0, dot > LastClear + 1
  PROVE  dot = LastClear + 2 <=> e.oam_address = 0
<1>1. /\ e.oam_address % 4 = e.byte /\ e.byte = e.index % 4
      /\ Done = (e.oam_address \div 4) + 3 * (e.index \div 4) + e.byte
  BY DEF Work, InSync
<1>2. /\ e.oam_address \in Nat /\ e.index \in 0 .. 4 * Slots /\ e.byte \in 0 .. 3 /\ Slots \in Nat
      /\ e.source \in [0 .. Slots - 1 -> Nat]
  BY EvalTypes
<1>3. Done = 0 <=> dot = LastClear + 2
  BY Geometry, SpritesAssumption DEF Done
<1>4. ASSUME Done = 0 PROVE e.oam_address = 0
  <2>. DEFINE q == e.oam_address \div 4
              p == e.index \div 4
  <2>1. q \in Nat /\ p \in Nat /\ e.byte \in Nat /\ e.oam_address = 4 * q + e.byte
    <3>1. e.byte \in Nat
      BY <1>2
    <3>2. e.oam_address = 4 * q + e.byte /\ q \in Nat
      BY <1>1, <1>2, <3>1, FourthOver
    <3>. QED BY <1>2, <3>1, <3>2, SMTT(30)
  <2>2. q + 3 * p + e.byte = 0
    BY <1>1, <1>4
  <2>. HIDE DEF q, p
  <2>3. q = 0 /\ e.byte = 0
    BY <2>1, <2>2, NothingDone
  <2>. QED BY <2>1, <2>3
<1>5. ASSUME e.oam_address = 0 PROVE Done = 0
  <2>1. Passed(e) = 0
    <3>1. e.index # Full
      BY EvalTypes
    <3>. QED BY <1>5, <3>1 DEF Passed
  <2>2. e.index < 1
    <3>1. SUFFICES ASSUME e.index >= 1 PROVE FALSE
      BY <1>2
    <3>2. 0 \in 0 .. Begun(e) - 1 /\ 0 \in 0 .. Slots - 1
      <4>1. (e.index + 3) \div 4 >= 1
        BY <1>2, <3>1
      <4>2. Slots \in Nat \ {0}
        BY EvalTypes
      <4>. QED BY <1>2, <4>1, <4>2 DEF Begun
    <3>3. e.source[0] < 4 * Passed(e)
      BY <3>2 DEF Collected
    <3>4. e.source[0] \in Nat
      BY <1>2, <3>2
    <3>. QED BY <2>1, <3>3, <3>4
  <2>3. e.index = 0
    BY <1>2, <2>2
  <2>. QED BY <1>1, <1>5, <2>3
<1>. QED BY <1>3, <1>4, <1>5

LEMMA CollectedGoesOn ==
  ASSUME NEW e \in EvalState, Collected(e), e.finished \/ Work(e, Done),
         e.oam_buffer = ReadOam(e.oam_address),
         dot \in Nat, dot % 2 = 0, dot > LastClear + 1
  PROVE  Collected(EvalStep(e))
<1>1. CASE e.finished /\ EvalStep(e) = [e EXCEPT !.oam_buffer = e.oam2[e.index % Full],
                                                !.oam_address = NextSprite(e.oam_address)]
  BY <1>1, FinishedFields, CollectedOver
<1>2. CASE ~e.finished /\ e.index = Full
             /\ EvalStep(e) = [Overflowing(e) EXCEPT !.oam_buffer = e.oam2[0]]
  BY <1>2, FullFields, CollectedOver
<1>3. ASSUME ~e.finished, e.index < Full
      PROVE  /\ InSync(e) /\ e.oam_address % 4 = e.byte
             /\ dot = LastClear + 2 <=> e.oam_address = 0
             /\ e.byte = 0 => e.oam_buffer = oam[e.oam_address]
  <2>1. InSync(e) /\ e.oam_address % 4 = e.byte
    BY <1>3 DEF Work
  <2>2. dot = LastClear + 2 <=> e.oam_address = 0
    BY <1>3, FirstStep
  <2>3. e.byte = 0 => e.oam_buffer = oam[e.oam_address]
    <3>1. 0 # 2
      OBVIOUS
    <3>. QED BY <2>1, <3>1, Zenon DEF ReadOam
  <2>. QED BY <2>1, <2>2, <2>3
<1>4. CASE ~e.finished /\ e.index < Full /\ e.byte = 0 /\ InRange(e.oam_buffer)
             /\ EvalStep(e) = Found(e)
  BY <1>3, <1>4, CollectedFound
<1>5. CASE ~e.finished /\ e.index < Full /\ e.byte = 0 /\ ~InRange(e.oam_buffer)
             /\ EvalStep(e) = NotFound(e)
  BY <1>3, <1>5, CollectedNotFound
<1>6. CASE ~e.finished /\ e.index < Full /\ e.byte \in {1, 2} /\ EvalStep(e) = CopyByte(e)
  BY <1>3, <1>6, CollectedCopy
<1>7. CASE ~e.finished /\ e.index < Full /\ e.byte = 3 /\ EvalStep(e) = CopyLastByte(e)
  BY <1>3, <1>7, CollectedCopyLast
<1>. QED BY EvalStepCases, <1>1, <1>2, <1>4, <1>5, <1>6, <1>7, Zenon

-----------------------------------------------------------------------------
(* Counting a set of numbers from the least.                                *)

Rank(S, n) == Cardinality({o \in S : o <= n})
Nth(S, k) == CHOOSE n \in S : Rank(S, n) = k

LEMMA RankType ==
  ASSUME NEW S \in SUBSET Int, IsFiniteSet(S), NEW n \in S
  PROVE  Rank(S, n) \in 1 .. Cardinality(S)
<1>. DEFINE T == {o \in S : o <= n}
<1>1. T \in SUBSET S /\ n \in T
  OBVIOUS
<1>. HIDE DEF T
<1>2. IsFiniteSet(T) /\ Cardinality(T) <= Cardinality(S)
  BY <1>1, FS_Subset
<1>3. Cardinality(T) \in Nat /\ Cardinality(S) \in Nat
  BY <1>2, FS_CardinalityType
<1>4. Cardinality(T) # 0
  BY <1>1, <1>2, FS_EmptySet
<1>5. Cardinality(T) \in 1 .. Cardinality(S)
  BY <1>2, <1>3, <1>4
<1>. QED BY <1>5 DEF Rank, T

LEMMA RankGrows ==
  ASSUME NEW S \in SUBSET Int, IsFiniteSet(S), NEW m \in S, NEW n \in S, m < n
  PROVE  Rank(S, m) < Rank(S, n)
<1>. DEFINE T(k) == {o \in S : o <= k}
<1>1. T(n) \in SUBSET S /\ T(m) \in SUBSET T(n) /\ n \in T(n) /\ n \notin T(m)
  <2>1. \A o \in S : o <= m => o <= n
    OBVIOUS
  <2>2. n <= n /\ ~(n <= m)
    OBVIOUS
  <2>. QED BY <2>1, <2>2
<1>2. T(m) # T(n)
  BY <1>1
<1>. HIDE DEF T
<1>3. IsFiniteSet(T(n))
  BY <1>1, FS_Subset
<1>4. /\ IsFiniteSet(T(m)) /\ Cardinality(T(m)) <= Cardinality(T(n))
      /\ Cardinality(T(n)) # Cardinality(T(m))
  BY <1>1, <1>2, <1>3, FS_Subset
<1>5. Cardinality(T(m)) \in Nat /\ Cardinality(T(n)) \in Nat
  BY <1>3, <1>4, FS_CardinalityType
<1>6. Cardinality(T(m)) < Cardinality(T(n))
  BY <1>4, <1>5
<1>. QED BY <1>6 DEF Rank, T

LEMMA RankOnto ==
  ASSUME NEW S \in SUBSET Int, IsFiniteSet(S), NEW k \in 1 .. Cardinality(S)
  PROVE  \E n \in S : Rank(S, n) = k
<1>. DEFINE N == Cardinality(S)
            f == [n \in S |-> Rank(S, n)]
<1>1. N \in Nat
  BY FS_CardinalityType
<1>2. IsFiniteSet(1 .. N) /\ Cardinality(1 .. N) = N
  <2>1. IsFiniteSet(1 .. N) /\ Cardinality(1 .. N) = IF 1 > N THEN 0 ELSE N - 1 + 1
    BY <1>1, FS_Interval, 1 \in Int, SMTT(30)
  <2>. QED BY <1>1, <2>1
<1>3. f \in [S -> 1 .. N]
  BY RankType
<1>4. \A m, n \in S : f[m] = f[n] => m = n
  <2>1. SUFFICES ASSUME NEW m \in S, NEW n \in S, m # n PROVE Rank(S, m) # Rank(S, n)
    OBVIOUS
  <2>2. m < n \/ n < m
    BY <2>1
  <2>3. Rank(S, m) \in Int /\ Rank(S, n) \in Int
    BY RankType
  <2>4. CASE m < n
    <3>1. Rank(S, m) < Rank(S, n)
      BY <2>4, RankGrows
    <3>. QED BY <2>3, <3>1
  <2>5. CASE n < m
    <3>1. Rank(S, n) < Rank(S, m)
      BY <2>5, RankGrows
    <3>. QED BY <2>3, <3>1
  <2>. QED BY <2>2, <2>4, <2>5
<1>5. f \in Injection(S, 1 .. N)
  <2>1. DOMAIN f = S
    BY <1>3
  <2>. HIDE DEF f
  <2>. QED BY <1>3, <1>4, <2>1, Zenon DEF Injection, IsInjective
<1>. HIDE DEF f
<1>6. f \in Surjection(S, 1 .. N)
  BY <1>2, <1>5, FS_Injection
<1>7. \E n \in S : f[n] = k
  BY <1>6, Zenon DEF Surjection, N
<1>. QED BY <1>7 DEF f

LEMMA NthType ==
  ASSUME NEW S \in SUBSET Int, IsFiniteSet(S), NEW k \in 1 .. Cardinality(S)
  PROVE  Nth(S, k) \in S /\ Rank(S, Nth(S, k)) = k
<1>1. \E n \in S : Rank(S, n) = k
  BY RankOnto
<1>. QED BY <1>1, Zenon DEF Nth

(* Counted from the least, the members of a set are these. *)
LEMMA NthIsInOrder ==
  ASSUME NEW S \in SUBSET Int, IsFiniteSet(S)
  PROVE  /\ \A j, k \in 1 .. Cardinality(S) : j < k => Nth(S, j) < Nth(S, k)
         /\ \A n \in S : \E k \in 1 .. Cardinality(S) : Nth(S, k) = n
<1>1. ASSUME NEW m \in S, NEW n \in S, Rank(S, m) = Rank(S, n) PROVE m = n
  <2>1. CASE m < n
    <3>1. Rank(S, m) < Rank(S, n) /\ Rank(S, m) \in Int
      BY <2>1, RankGrows, RankType
    <3>. QED BY <1>1, <3>1
  <2>2. CASE n < m
    <3>1. Rank(S, n) < Rank(S, m) /\ Rank(S, m) \in Int
      BY <2>2, RankGrows, RankType
    <3>. QED BY <1>1, <3>1
  <2>3. m < n \/ n < m \/ m = n
    OBVIOUS
  <2>. QED BY <2>1, <2>2, <2>3
<1>2. ASSUME NEW j \in 1 .. Cardinality(S), NEW k \in 1 .. Cardinality(S), j < k
      PROVE  Nth(S, j) < Nth(S, k)
  <2>. DEFINE m == Nth(S, j)
              n == Nth(S, k)
  <2>1. m \in S /\ n \in S /\ Rank(S, m) = j /\ Rank(S, n) = k
    BY NthType
  <2>. HIDE DEF m, n
  <2>2. ASSUME n < m PROVE FALSE
    <3>1. Rank(S, n) < Rank(S, m)
      BY <2>1, <2>2, RankGrows
    <3>. QED BY <1>2, <2>1, <3>1
  <2>3. m # n
    BY <1>2, <2>1
  <2>4. m < n \/ n < m \/ m = n
    BY <2>1
  <2>5. m < n
    BY <2>2, <2>3, <2>4
  <2>. QED BY <2>5 DEF m, n
<1>3. ASSUME NEW n \in S PROVE \E k \in 1 .. Cardinality(S) : Nth(S, k) = n
  <2>. DEFINE k == Rank(S, n)
  <2>1. k \in 1 .. Cardinality(S)
    BY RankType
  <2>2. Nth(S, k) \in S /\ Rank(S, Nth(S, k)) = k
    BY <2>1, NthType
  <2>3. Nth(S, k) = n
    BY <1>1, <2>2
  <2>. QED BY <2>1, <2>3
<1>. QED BY <1>2, <1>3

-----------------------------------------------------------------------------
(* The sprites beyond the slots.                                            *)

(* The sprites on the line after the one the last slot holds. *)
Extra == {n \in (eval.source[Slots - 1] \div 4) + 1 .. Sprites - 1 : InRange(oam[4 * n])}

ExtraLatch(n) == [source |-> 4 * n, is_sprite_0 |-> FALSE, shown |-> TRUE]

LEMMA ExtraType ==
  ASSUME Typed
  PROVE  /\ Extra \in SUBSET Int /\ IsFiniteSet(Extra) /\ Cardinality(Extra) \in Nat
         /\ (eval.source[Slots - 1] \div 4) + 1 \in Nat
<1>. DEFINE first == (eval.source[Slots - 1] \div 4) + 1
<1>1. Slots - 1 \in 0 .. Slots - 1 /\ Sprites - 1 \in Int
  BY SpritesAssumption
<1>2. eval.source[Slots - 1] \in Nat
  BY <1>1 DEF Typed, EvalState, Address
<1>3. first \in Nat
  BY <1>2
<1>4. Extra \in SUBSET (first .. Sprites - 1)
  BY DEF Extra
<1>. HIDE DEF first
<1>5. IsFiniteSet(first .. Sprites - 1)
  BY <1>1, <1>3, FS_Interval
<1>6. IsFiniteSet(Extra) /\ Cardinality(Extra) \in Nat
  BY <1>4, <1>5, FS_Subset, FS_CardinalityType
<1>. QED BY <1>3, <1>4, <1>6 DEF first

LEMMA BeyondIs ==
  ASSUME Typed
  PROVE  /\ Beyond = [k \in 1 .. Cardinality(Extra) |-> ExtraLatch(Nth(Extra, k))]
         /\ \E S : Beyond \in Seq(S)
         /\ Len(Beyond) = Cardinality(Extra)
<1>1. Beyond = [k \in 1 .. Cardinality(Extra) |-> ExtraLatch(Nth(Extra, k))]
  BY Zenon DEF Beyond, Extra, ExtraLatch, Nth, Rank
<1>2. Cardinality(Extra) \in Nat
  BY ExtraType
<1>3. \E S : Beyond \in Seq(S)
  BY BeyondIsList
<1>. HIDE DEF ExtraLatch
<1>4. Len(Beyond) = Cardinality(Extra)
  <2>1. Len([k \in 1 .. Cardinality(Extra) |-> ExtraLatch(Nth(Extra, k))]) = Cardinality(Extra)
    BY <1>2
  <2>. QED BY <1>1, <2>1
<1>. QED BY <1>1, <1>3, <1>4

(* The slots hold different sprites, of which the last one's number is the  *)
(* highest: no fewer than the slots before it come before it.               *)
LEMMA SlotsPassed ==
  ASSUME NEW e \in EvalState, Collected(e), e.index = Full
  PROVE  Slots <= (e.source[Slots - 1] \div 4) + 1
<1>. DEFINE last == e.source[Slots - 1] \div 4
            f == [k \in 0 .. Slots - 1 |-> e.source[k] \div 4]
<1>0. Slots \in Nat \ {0} /\ Full = 4 * Slots /\ e.source \in [0 .. Slots - 1 -> Nat]
  BY EvalTypes
<1>1. Begun(e) = Slots
  <2>1. (4 * Slots + 3) \div 4 = Slots
    BY <1>0
  <2>. QED BY <1>0, <2>1 DEF Begun
<1>2. /\ \A k \in 0 .. Slots - 1 : e.source[k] % 4 = 0
      /\ \A j, k \in 0 .. Slots - 1 : j < k => e.source[j] < e.source[k]
  BY <1>1 DEF Collected
<1>3. Slots - 1 \in 0 .. Slots - 1 /\ \A k \in 0 .. Slots - 1 : k < Slots - 1 \/ k = Slots - 1
  BY <1>0
<1>4. \A k \in 0 .. Slots - 1 : e.source[k] \in Nat /\ e.source[k] <= e.source[Slots - 1]
  BY <1>0, <1>2, <1>3
<1>5. \A p, q \in Nat : p <= q => p \div 4 <= q \div 4 /\ p \div 4 \in Nat
  OBVIOUS
<1>6. \A k \in 0 .. Slots - 1 : e.source[k] \div 4 \in 0 .. last
  <2>1. ASSUME NEW k \in 0 .. Slots - 1 PROVE e.source[k] \div 4 \in 0 .. last
    <3>1. e.source[k] \in Nat /\ e.source[Slots - 1] \in Nat /\ e.source[k] <= e.source[Slots - 1]
      BY <1>3, <1>4
    <3>. QED BY <1>5, <3>1
  <2>. QED BY <2>1
<1>7. last \in Nat
  BY <1>0, <1>3
<1>8. f \in [0 .. Slots - 1 -> 0 .. last]
  BY <1>6
<1>9. \A j, k \in 0 .. Slots - 1 : f[j] = f[k] => j = k
  <2>1. SUFFICES ASSUME NEW j \in 0 .. Slots - 1, NEW k \in 0 .. Slots - 1, f[j] = f[k]
        PROVE  j = k
    OBVIOUS
  <2>2. /\ e.source[j] = 4 * (e.source[j] \div 4)
        /\ e.source[k] = 4 * (e.source[k] \div 4)
    BY <1>2, <1>4, Fourth
  <2>3. e.source[j] = e.source[k] /\ e.source[j] \in Nat
    BY <1>4, <2>1, <2>2
  <2>4. j < k \/ k < j \/ j = k
    BY <1>0
  <2>. QED BY <1>2, <2>3, <2>4
<1>10. f \in Injection(0 .. Slots - 1, 0 .. last)
  <2>1. DOMAIN f = 0 .. Slots - 1
    BY <1>8
  <2>. HIDE DEF f, last
  <2>. QED BY <1>8, <1>9, <2>1, Zenon DEF Injection, IsInjective
<1>. HIDE DEF f, last
<1>11. IsFiniteSet(0 .. last) /\ Cardinality(0 .. last) = last + 1
  BY <1>7, FS_Interval
<1>12. Cardinality(0 .. Slots - 1) = Slots
  BY <1>0, FS_Interval
<1>13. Cardinality(0 .. Slots - 1) <= Cardinality(0 .. last)
  BY <1>10, <1>11, FS_Injection
<1>. QED BY <1>11, <1>12, <1>13 DEF last

(* The list has room for all sprites on the line. *)
LEMMA BeyondFits ==
  ASSUME Typed, Collected(eval), eval.index = Full
  PROVE  Slots + Len(Beyond) <= Sprites
<1>. DEFINE first == (eval.source[Slots - 1] \div 4) + 1
<1>1. first \in Nat /\ Slots <= first /\ Sprites \in Nat /\ Slots \in Nat /\ Slots < Sprites
  BY ExtraType, SlotsPassed, SpritesAssumption DEF Typed
<1>2. Extra \in SUBSET (first .. Sprites - 1)
  BY DEF Extra
<1>. HIDE DEF first
<1>3. /\ IsFiniteSet(first .. Sprites - 1)
      /\ Cardinality(first .. Sprites - 1)
           = IF first > Sprites - 1 THEN 0 ELSE Sprites - 1 - first + 1
  BY <1>1, FS_Interval
<1>4. Cardinality(Extra) <= Cardinality(first .. Sprites - 1) /\ Cardinality(Extra) \in Nat
  BY <1>2, <1>3, FS_Subset, ExtraType
<1>5. Slots + Cardinality(Extra) <= Sprites
  BY <1>1, <1>3, <1>4
<1>. QED BY <1>5, BeyondIs

-----------------------------------------------------------------------------
(* The fetch of a slot.                                                     *)

(* The fetch of a slot leaves the latches of the slots before as they are,  *)
(* and that of the last one adds the sprites beyond, none of them dropped.  *)
LEMMA WithSlotIs ==
  ASSUME Typed, Fit, NEW slot \in 0 .. Slots - 1, slot > 0 => Len(sprite_latches) >= Slots
  PROVE  /\ Len(WithSlot(slot)) >= Slots
         /\ \A k \in 0 .. slot - 1 : WithSlot(slot)[k + 1] = sprite_latches[k + 1]
         /\ WithSlot(slot)[slot + 1] = Fetched(slot)
         /\ slot = Slots - 1 /\ ~(Visible /\ eval.index = Full) => Len(WithSlot(slot)) = Slots
         /\ slot = Slots - 1 /\ Visible /\ eval.index = Full /\ Slots + Len(Beyond) <= Sprites =>
              /\ Len(WithSlot(slot)) = Slots + Len(Beyond)
              /\ \A j \in 1 .. Len(Beyond) : WithSlot(slot)[Slots + j] = Beyond[j]
<1>. DEFINE kept == IF slot = 0 \/ Len(sprite_latches) < Slots THEN OfSlots ELSE sprite_latches
            fetched == [kept EXCEPT ![slot + 1] = Fetched(slot)]
            ofSlots == SubSeq(fetched, 1, Slots)
            both == ofSlots \o Beyond
            limit == IF Slots + Len(Beyond) < Sprites THEN Slots + Len(Beyond) ELSE Sprites
            w == WithSlot(slot)
<1>1. PICK S : sprite_latches \in Seq(S) /\ Len(sprite_latches) <= Sprites
  BY DEF Fit
<1>2. PICK B : Beyond \in Seq(B)
  BY BeyondIsList
<1>. DEFINE T == S \union {Unused, Fetched(slot)} \union B
<1>3. sprite_latches \in Seq(T) /\ Beyond \in Seq(T) /\ Fetched(slot) \in T /\ Unused \in T
  BY <1>1, <1>2
<1>. HIDE DEF T
<1>4. Slots \in Nat /\ Sprites \in Nat /\ Slots < Sprites /\ Slots > 0
  BY SpritesAssumption
<1>5. OfSlots \in Seq(T) /\ Len(OfSlots) = Slots
  <2>1. \A k \in 1 .. Len(sprite_latches) : sprite_latches[k] \in T
    BY <1>3, ElementOfSeq
  <2>2. Len(sprite_latches) \in Nat
    BY <1>1, LenProperties
  <2>3. OfSlots \in [1 .. Slots -> T]
    BY <1>3, <1>4, <2>1, <2>2 DEF OfSlots
  <2>. QED BY <1>4, <2>3
<1>6. kept \in Seq(T) /\ Len(kept) >= Slots /\ Len(kept) \in Nat
  <2>1. Len(sprite_latches) \in Nat
    BY <1>1, LenProperties
  <2>. QED BY <1>1, <1>3, <1>4, <1>5, <2>1
<1>7. \A k \in 0 .. slot - 1 : kept[k + 1] = sprite_latches[k + 1]
  <2>1. CASE slot = 0
    BY <2>1
  <2>2. CASE slot > 0
    <3>1. Len(sprite_latches) \in Nat /\ ~(Len(sprite_latches) < Slots) /\ slot # 0
      BY <1>1, <1>4, <2>2, LenProperties
    <3>. QED BY <3>1
  <2>. QED BY <1>4, <2>1, <2>2
<1>. HIDE DEF kept
<1>8. /\ fetched \in Seq(T) /\ Len(fetched) = Len(kept)
      /\ \A j \in 1 .. Len(kept) : fetched[j] = IF j = slot + 1 THEN Fetched(slot) ELSE kept[j]
  <2>1. slot + 1 \in 1 .. Len(kept)
    BY <1>4, <1>6
  <2>. QED BY <1>3, <1>6, <2>1, ExceptSeq
<1>. HIDE DEF fetched
<1>9. /\ ofSlots \in Seq(T) /\ Len(ofSlots) = Slots
      /\ \A i \in 1 .. Slots : ofSlots[i] = fetched[i]
  <2>1. \A i \in 1 .. Slots : fetched[i] \in T
    BY <1>4, <1>6, <1>8, ElementOfSeq
  <2>2. /\ SubSeq(fetched, 1, Slots) \in Seq(T)
        /\ Len(SubSeq(fetched, 1, Slots)) = IF 1 <= Slots THEN Slots - 1 + 1 ELSE 0
        /\ \A i \in 1 .. Slots - 1 + 1 : SubSeq(fetched, 1, Slots)[i] = fetched[1 + i - 1]
    BY <1>4, <2>1, SubSeqProperties
  <2>3. Slots - 1 + 1 = Slots /\ \A i \in 1 .. Slots : 1 + i - 1 = i
    BY <1>4
  <2>. QED BY <1>4, <2>2, <2>3
<1>. HIDE DEF ofSlots
<1>10. Len(Beyond) \in Nat
  BY <1>3, LenProperties
<1>11. /\ both \in Seq(T) /\ Len(both) = Slots + Len(Beyond)
       /\ \A i \in 1 .. Slots + Len(Beyond) :
            both[i] = IF i <= Slots THEN ofSlots[i] ELSE Beyond[i - Slots]
  BY <1>3, <1>9, ConcatProperties
<1>. HIDE DEF both
<1>12. limit \in Nat /\ limit <= Slots + Len(Beyond) /\ limit >= Slots
         /\ (Slots + Len(Beyond) <= Sprites => limit = Slots + Len(Beyond))
  BY <1>4, <1>10
<1>. HIDE DEF limit
<1>13. /\ Len(SubSeq(both, 1, limit)) = limit
       /\ \A i \in 1 .. limit : SubSeq(both, 1, limit)[i] = both[i]
  <2>1. \A i \in 1 .. limit : both[i] \in T
    BY <1>4, <1>10, <1>11, <1>12, ElementOfSeq
  <2>2. /\ SubSeq(both, 1, limit) \in Seq(T)
        /\ Len(SubSeq(both, 1, limit)) = IF 1 <= limit THEN limit - 1 + 1 ELSE 0
        /\ \A i \in 1 .. limit - 1 + 1 : SubSeq(both, 1, limit)[i] = both[1 + i - 1]
    BY <1>12, <2>1, SubSeqProperties
  <2>3. limit - 1 + 1 = limit /\ 1 <= limit /\ \A i \in 1 .. limit : 1 + i - 1 = i
    BY <1>4, <1>12
  <2>. QED BY <2>2, <2>3
<1>14. /\ slot < Slots - 1 => w = fetched
       /\ ~(slot < Slots - 1) /\ Visible /\ eval.index = Full => w = SubSeq(both, 1, limit)
       /\ ~(slot < Slots - 1) /\ ~(Visible /\ eval.index = Full) => w = ofSlots
  BY Zenon DEF WithSlot, kept, fetched, ofSlots, both, limit
<1>15. Len(w) >= Slots /\ \A i \in 1 .. Slots : w[i] = fetched[i]
  <2>1. CASE slot < Slots - 1
    BY <1>6, <1>8, <1>14, <2>1
  <2>2. CASE ~(slot < Slots - 1) /\ Visible /\ eval.index = Full
    <3>1. w = SubSeq(both, 1, limit)
      BY <1>14, <2>2
    <3>. HIDE DEF w
    <3>2. \A i \in 1 .. Slots : i \in 1 .. limit /\ i \in 1 .. Slots + Len(Beyond) /\ i <= Slots
      BY <1>4, <1>10, <1>12
    <3>3. \A i \in 1 .. Slots : w[i] = fetched[i]
      BY <1>9, <1>11, <1>13, <3>1, <3>2, Zenon
    <3>. QED BY <1>12, <1>13, <3>1, <3>3
  <2>3. CASE ~(slot < Slots - 1) /\ ~(Visible /\ eval.index = Full)
    BY <1>4, <1>9, <1>14, <2>3
  <2>. QED BY <2>1, <2>2, <2>3
<1>16. \A k \in 0 .. slot - 1 : w[k + 1] = sprite_latches[k + 1]
  <2>1. \A k \in 0 .. slot - 1 :
          k + 1 \in 1 .. Slots /\ k + 1 \in 1 .. Len(kept) /\ k + 1 # slot + 1
    BY <1>4, <1>6
  <2>. HIDE DEF w
  <2>. QED BY <1>7, <1>8, <1>15, <2>1
<1>17. w[slot + 1] = Fetched(slot)
  <2>1. slot + 1 \in 1 .. Slots /\ slot + 1 \in 1 .. Len(kept)
    BY <1>4, <1>6
  <2>. HIDE DEF w
  <2>. QED BY <1>8, <1>15, <2>1
<1>18. slot = Slots - 1 => ~(slot < Slots - 1)
  BY <1>4
<1>19. slot = Slots - 1 /\ ~(Visible /\ eval.index = Full) => Len(w) = Slots
  BY <1>9, <1>14, <1>18, Zenon
<1>20. ASSUME slot = Slots - 1, Visible, eval.index = Full, Slots + Len(Beyond) <= Sprites
       PROVE  /\ Len(w) = Slots + Len(Beyond)
              /\ \A j \in 1 .. Len(Beyond) : w[Slots + j] = Beyond[j]
  <2>1. w = SubSeq(both, 1, limit) /\ limit = Slots + Len(Beyond)
    BY <1>12, <1>14, <1>18, <1>20, Zenon
  <2>. HIDE DEF w
  <2>2. \A j \in 1 .. Len(Beyond) : /\ Slots + j \in 1 .. Slots + Len(Beyond)
                                    /\ ~(Slots + j <= Slots) /\ Slots + j - Slots = j
    BY <1>4, <1>10
  <2>3. \A j \in 1 .. Len(Beyond) : w[Slots + j] = Beyond[j]
    <3>1. SUFFICES ASSUME NEW j \in 1 .. Len(Beyond) PROVE w[Slots + j] = Beyond[j]
      OBVIOUS
    <3>2. w[Slots + j] = both[Slots + j]
      BY <1>13, <2>1, <2>2
    <3>3. both[Slots + j] = Beyond[j]
      <4>. DEFINE i == Slots + j
      <4>1. i \in 1 .. Slots + Len(Beyond) /\ ~(i <= Slots) /\ i - Slots = j
        BY <1>4, <1>10
      <4>. HIDE DEF i
      <4>2. both[i] = Beyond[i - Slots]
        BY <1>11, <4>1, Zenon
      <4>. QED BY <4>1, <4>2 DEF i
    <3>. QED BY <3>2, <3>3
  <2>. QED BY <1>13, <2>1, <2>3
<1>. HIDE DEF w
<1>21. /\ Len(w) >= Slots
       /\ \A k \in 0 .. slot - 1 : w[k + 1] = sprite_latches[k + 1]
       /\ w[slot + 1] = Fetched(slot)
       /\ slot = Slots - 1 /\ ~(Visible /\ eval.index = Full) => Len(w) = Slots
       /\ slot = Slots - 1 /\ Visible /\ eval.index = Full /\ Slots + Len(Beyond) <= Sprites =>
            /\ Len(w) = Slots + Len(Beyond)
            /\ \A j \in 1 .. Len(Beyond) : w[Slots + j] = Beyond[j]
  BY <1>15, <1>16, <1>17, <1>19, <1>20, Zenon
<1>. QED BY <1>21, Zenon DEF w

-----------------------------------------------------------------------------
(* The dots of the fetches.                                                 *)

LEMMA TimesGrows ==
  ASSUME NEW a \in Nat, NEW b \in Nat, NEW c \in Nat, a <= b
  PROVE  a * c <= b * c /\ a * c \in Nat
OBVIOUS

LEMMA TimesUp ==
  ASSUME NEW a \in Nat, NEW c \in Nat
  PROVE  (a + 1) * c = a * c + c
OBVIOUS

LEMMA DivMod ==
  ASSUME NEW x \in Nat, NEW s \in Nat, s > 0
  PROVE  x = (x \div s) * s + (x % s) /\ x \div s \in Nat
OBVIOUS

LEMMA MulDiv ==
  ASSUME NEW k \in Nat, NEW s \in Nat, s > 0
  PROVE  (k * s) \div s = k /\ (k * s) % s = 0
OBVIOUS

LEMMA FetchDots ==
  /\ FetchDot(0) = LastEval + 5
  /\ \A k \in 0 .. Slots - 1 : /\ FetchDot(k) \in Nat /\ FetchDot(k) >= LastEval + 5
                               /\ FetchDot(k) <= LastFetch
  /\ \A j, k \in 0 .. Slots - 1 : j < k => FetchDot(j) < FetchDot(k)
<1>0. Slots \in Nat /\ LastEval \in Nat /\ Span \in Nat /\ Span >= 5
  BY SpritesAssumption
<1>1. FetchDot(0) = LastEval + 5
  <2>1. 0 * Span = 0
    BY <1>0
  <2>. QED BY <1>0, <2>1 DEF FetchDot
<1>2. ASSUME NEW k \in 0 .. Slots - 1
      PROVE  FetchDot(k) \in Nat /\ FetchDot(k) >= LastEval + 5 /\ FetchDot(k) <= LastFetch
  <2>1. k \in Nat /\ k + 1 \in Nat /\ k + 1 <= Slots
    BY <1>0
  <2>2. (k + 1) * Span <= Slots * Span /\ (k + 1) * Span \in Nat
    BY <1>0, <2>1, TimesGrows
  <2>3. (k + 1) * Span = k * Span + Span
    BY <1>0, <2>1, TimesUp
  <2>4. k * Span \in Nat /\ Slots * Span \in Nat
    BY <1>0, <2>1
  <2>. DEFINE p == k * Span
              q == Slots * Span
  <2>5. p \in Nat /\ q \in Nat /\ p + Span <= q
    BY <2>2, <2>3, <2>4
  <2>. HIDE DEF p, q
  <2>6. LastEval + 5 + p \in Nat /\ LastEval + 5 + p >= LastEval + 5
          /\ LastEval + 5 + p <= LastEval + q
    BY <1>0, <2>5
  <2>. QED BY <2>6 DEF FetchDot, LastFetch, p, q
<1>3. ASSUME NEW j \in 0 .. Slots - 1, NEW k \in 0 .. Slots - 1, j < k
      PROVE  FetchDot(j) < FetchDot(k)
  <2>1. j \in Nat /\ k \in Nat /\ j + 1 \in Nat /\ j + 1 <= k
    BY <1>0, <1>3
  <2>2. (j + 1) * Span <= k * Span /\ (j + 1) * Span = j * Span + Span
    BY <1>0, <2>1, TimesGrows, TimesUp
  <2>. DEFINE p == j * Span
              q == k * Span
  <2>3. p \in Nat /\ q \in Nat /\ p + Span <= q
    BY <1>0, <2>1, <2>2
  <2>. HIDE DEF p, q
  <2>4. LastEval + 5 + p < LastEval + 5 + q
    BY <1>0, <2>3
  <2>. QED BY <2>4 DEF FetchDot, p, q
<1>. QED BY <1>1, <1>2, <1>3

LEMMA FetchesSlotIs ==
  ASSUME Typed
  PROVE  /\ FetchesSlot => Slot \in 0 .. Slots - 1 /\ dot = FetchDot(Slot)
         /\ \A k \in 0 .. Slots - 1 : dot = FetchDot(k) => FetchesSlot /\ Slot = k
<1>0. Slots \in Nat /\ LastEval \in Nat /\ Span \in Nat /\ Span > 0 /\ dot \in Nat
  BY SpritesAssumption, Geometry DEF Typed
<1>1. ASSUME FetchesSlot PROVE Slot \in 0 .. Slots - 1 /\ dot = FetchDot(Slot)
  <2>. DEFINE x == dot - LastEval - 5
  <2>1. x \in Nat /\ x % Span = 0 /\ Slot = x \div Span /\ Slot < Slots
    BY <1>0, <1>1 DEF FetchesSlot, Slot
  <2>2. dot = LastEval + 5 + x
    BY <1>0
  <2>. HIDE DEF x
  <2>3. x = (x \div Span) * Span + (x % Span) /\ x \div Span \in Nat
    BY <1>0, <2>1, DivMod
  <2>4. x = Slot * Span /\ Slot \in Nat
    <3>. DEFINE p == (x \div Span) * Span
    <3>1. x = p + 0 /\ p \in Nat
      BY <1>0, <2>1, <2>3
    <3>. HIDE DEF p
    <3>2. x = p
      BY <3>1
    <3>. QED BY <2>1, <2>3, <3>2 DEF p
  <2>. QED BY <1>0, <2>1, <2>2, <2>4 DEF FetchDot
<1>2. ASSUME NEW k \in 0 .. Slots - 1, dot = FetchDot(k) PROVE FetchesSlot /\ Slot = k
  <2>1. k \in Nat /\ k < Slots
    BY <1>0
  <2>2. (k * Span) \div Span = k /\ (k * Span) % Span = 0 /\ k * Span \in Nat
    BY <1>0, <2>1, MulDiv
  <2>. DEFINE p == k * Span
  <2>3. dot = LastEval + 5 + p /\ p \in Nat /\ p \div Span = k /\ p % Span = 0
    BY <1>2, <2>2 DEF FetchDot
  <2>. HIDE DEF p
  <2>4. dot - LastEval - 5 = p /\ dot >= LastEval + 5
    BY <1>0, <2>3
  <2>. QED BY <2>1, <2>3, <2>4 DEF FetchesSlot, Slot
<1>. QED BY <1>1, <1>2

-----------------------------------------------------------------------------
(* One action after the other, and what is collected and fetched.           *)

LEMMA OffTheLine ==
  ASSUME ~steady' \/ dot' = 0
  PROVE  ShownInv'
<1>1. CASE ~steady'
  BY <1>1, Zenon DEF ShownInv, Clearing, Evaluated, FetchedSoFar
<1>2. CASE dot' = 0
  <2>1. /\ 0 \in 0 .. Slots - 1 /\ Slots - 1 \in 0 .. Slots - 1
        /\ LastEval \in Nat /\ LastClear \in Nat
    BY SpritesAssumption
  <2>2. /\ FetchDot(0) \in Nat /\ FetchDot(Slots - 1) \in Nat
    BY <2>1, FetchDots
  <2>3. /\ ~(dot' \in 1 .. LastClear + 1) /\ ~(dot' >= LastClear + 2) /\ ~(dot' > LastEval + 4)
        /\ ~(dot' > FetchDot(0)) /\ ~(dot' > FetchDot(Slots - 1))
    BY <1>2, <2>1, <2>2
  <2>. QED BY <2>3, Zenon DEF ShownInv, Clearing, Evaluated, FetchedSoFar, FetchDot
<1>. QED BY <1>1, <1>2

(* Before the first slot is due nothing is fetched. *)
LEMMA NotFetched ==
  ASSUME dot' \in Nat, dot' <= LastEval + 4
  PROVE  FetchedSoFar'
<1>1. /\ 0 \in 0 .. Slots - 1 /\ Slots - 1 \in 0 .. Slots - 1
      /\ LastEval \in Nat
  BY SpritesAssumption
<1>2. /\ FetchDot(0) \in Nat /\ FetchDot(0) >= LastEval + 5
      /\ FetchDot(Slots - 1) \in Nat /\ FetchDot(Slots - 1) >= LastEval + 5
  BY <1>1, FetchDots
<1>3. ~(dot' > LastEval + 4) /\ ~(dot' > FetchDot(0)) /\ ~(dot' > FetchDot(Slots - 1))
  BY <1>1, <1>2
<1>. QED BY <1>3, Zenon DEF FetchedSoFar, FetchDot

LEMMA CollectedNext ==
  ASSUME line' = line, height' = height, oam' = oam, Collected(eval')
  PROVE  Collected(eval)'
BY Zenon DEF Collected, Begun, Passed, InRange

LEMMA AdvanceKeeps ==
  ASSUME Advance
  PROVE  /\ UNCHANGED <<rendering, oam, height, passing>>
         /\ dot # Width - 1 => line' = line
BY DEF Advance

LEMMA LineStartShown ==
  ASSUME Typed, LineStart, Observe
  PROVE  ShownInv'
<1>1. Advance
  BY DEF LineStart
<1>2. CASE dot = Width - 1 /\ dot' = 0
  BY <1>2, OffTheLine
<1>3. CASE dot < Width - 1 /\ dot' = dot + 1
  <2>1. dot = 0
    BY <1>3, Geometry DEF LineStart
  <2>2. dot' = 1 /\ LastClear \in Nat /\ LastEval \in Nat /\ Full \in Nat /\ Full > 0
    BY <1>3, <2>1, SpritesAssumption DEF Full
  <2>3. eval'.clear_index = 0
    <3>1. AtLineStart(eval).clear_index = 0
      BY DEF AtLineStart, Typed, EvalState
    <3>2. [AtLineStart(eval) EXCEPT !.oam_buffer = eval.oam2[0]].clear_index = 0
      BY DEF AtLineStart, Typed, EvalState
    <3>. QED BY <3>1, <3>2, Zenon DEF LineStart
  <2>4. Clearing'
    <3>1. dot' - 1 = 0 /\ 0 < Full /\ 0 .. 0 - 1 = {}
      BY <2>2
    <3>. QED BY <2>3, <3>1 DEF Clearing
  <2>5. ~(dot' >= LastClear + 2)
    BY <2>2
  <2>6. Evaluated'
    BY <2>5 DEF Evaluated
  <2>7. FetchedSoFar'
    BY <2>2, NotFetched
  <2>. QED BY <2>4, <2>6, <2>7 DEF ShownInv
<1>. QED BY <1>1, <1>2, <1>3, AdvanceObserved

(* What clearing does to the bytes already cleared and to the next one. *)
LEMMA ClearedBytes ==
  ASSUME NEW e \in EvalState, \A i \in 0 .. e.clear_index - 1 : e.oam2[i] = Blank
  PROVE  /\ Cleared(e).clear_index = IF e.clear_index < Full THEN e.clear_index + 1 ELSE Full
         /\ \A i \in 0 .. Cleared(e).clear_index - 1 : Cleared(e).oam2[i] = Blank
<1>0. /\ e.clear_index \in 0 .. Full /\ Full \in Nat /\ e.clear_index \in Nat
      /\ e.oam2 \in [0 .. Full - 1 -> Byte]
  BY SpritesAssumption DEF EvalState, Full
<1>1. CASE e.clear_index < Full
  <2>1. /\ Cleared(e).clear_index = e.clear_index + 1
        /\ Cleared(e).oam2 = [e.oam2 EXCEPT ![e.clear_index] = Blank]
    BY <1>1 DEF Cleared, EvalState
  <2>2. ASSUME NEW i \in 0 .. e.clear_index
        PROVE  [e.oam2 EXCEPT ![e.clear_index] = Blank][i] = Blank
    <3>1. i \in 0 .. Full - 1
      BY <1>0, <1>1
    <3>2. i # e.clear_index => i \in 0 .. e.clear_index - 1
      BY <1>0
    <3>. QED BY <1>0, <3>1, <3>2
  <2>3. 0 .. (e.clear_index + 1) - 1 = 0 .. e.clear_index
    BY <1>0
  <2>. QED BY <1>1, <2>1, <2>2, <2>3
<1>2. CASE ~(e.clear_index < Full)
  <2>1. Cleared(e).clear_index = e.clear_index /\ Cleared(e).oam2 = e.oam2
    BY <1>2 DEF Cleared, EvalState
  <2>2. e.clear_index = Full
    BY <1>0, <1>2
  <2>. QED BY <1>2, <2>1, <2>2
<1>. QED BY <1>1, <1>2

LEMMA ClearShown ==
  ASSUME Typed, Steady, Clearing, Clear, Observe
  PROVE  ShownInv'
<1>. SUFFICES ASSUME steady' PROVE ShownInv'
  BY OffTheLine
<1>1. eval \in EvalState /\ Advance /\ dot \in 1 .. LastClear /\ dot \in Nat /\ dot >= 1
  BY Geometry DEF Typed, Clear
<1>2. dot' = dot + 1 /\ steady
  <2>1. dot # Width - 1 /\ dot # 0
    BY <1>1, Geometry
  <2>. QED BY <1>1, <2>1, AdvanceObserved
<1>3. rendering /\ Visible
  BY <1>1, <1>2 DEF Steady
<1>4. eval' = Cleared(eval)
  <2>1. line # PreRender
    BY <1>3, SpritesAssumption DEF Visible, Typed
  <2>. QED BY <1>3, <2>1, Zenon DEF Clear
<1>5. Full \in Nat /\ LastClear \in Nat /\ LastEval \in Nat /\ LastClear < LastEval
  BY SpritesAssumption DEF Full
<1>6. /\ eval.clear_index = IF dot - 1 < Full THEN dot - 1 ELSE Full
      /\ \A i \in 0 .. eval.clear_index - 1 : eval.oam2[i] = Blank
  <2>1. dot \in 1 .. LastClear + 1
    BY <1>1, <1>5
  <2>. QED BY <1>2, <2>1 DEF Clearing
<1>7. /\ eval'.clear_index = IF eval.clear_index < Full THEN eval.clear_index + 1 ELSE Full
      /\ \A i \in 0 .. eval'.clear_index - 1 : eval'.oam2[i] = Blank
  BY <1>1, <1>4, <1>6, ClearedBytes
<1>8. eval'.clear_index = IF dot' - 1 < Full THEN dot' - 1 ELSE Full
  BY <1>1, <1>2, <1>5, <1>6, <1>7
<1>9. Clearing'
  BY <1>7, <1>8 DEF Clearing
<1>10. ~(dot' >= LastClear + 2) /\ dot' \in Nat /\ dot' <= LastEval + 4
  BY <1>1, <1>2, <1>5
<1>11. Evaluated' /\ FetchedSoFar'
  BY <1>10, NotFetched DEF Evaluated
<1>. QED BY <1>9, <1>11 DEF ShownInv

(* Before the first step no slot is begun and no sprite passed. *)
LEMMA CollectedStart ==
  ASSUME NEW e \in EvalState, e.index = 0, e.byte = 0, ~e.finished, e.oam_address = 0,
         ~e.has_sprite_zero, \A k \in 0 .. Slots - 1 : ~InRange(e.oam2[4 * k])
  PROVE  Collected(e)
<1>1. Begun(e) = 0
  BY DEF Begun
<1>2. Passed(e) = 0
  <2>1. e.index # Full
    BY EvalTypes
  <2>. QED BY <2>1 DEF Passed
<1>3. 0 .. 0 - 1 = {} /\ ~(0 > 0)
  OBVIOUS
<1>. QED BY <1>1, <1>2, <1>3 DEF Collected

(* Only the buffer changes. *)
LEMMA CollectedRead ==
  ASSUME NEW e \in EvalState, Collected(e), NEW buffer \in Byte
  PROVE  Collected([e EXCEPT !.oam_buffer = buffer])
<1>. DEFINE f == [e EXCEPT !.oam_buffer = buffer]
<1>1. /\ f.index = e.index /\ f.byte = e.byte /\ f.source = e.source /\ f.oam2 = e.oam2
      /\ f.has_sprite_zero = e.has_sprite_zero /\ f.finished = e.finished
      /\ f.oam_address = e.oam_address
  BY DEF EvalState
<1>. HIDE DEF f
<1>2. Begun(f) = Begun(e) /\ Begun(e) \in 0 .. Slots /\ Passed(f) = Passed(e)
  BY <1>1, BegunType DEF Begun, Passed
<1>3. ~f.finished /\ f.index < Full /\ f.byte > 0 =>
        f.source[f.index \div 4] = Aligned(f.oam_address)
  BY <1>1 DEF Collected
<1>4. Collected(f)
  BY <1>1, <1>2, <1>3, CollectedKept
<1>. QED BY <1>4 DEF f

LEMMA EvaluateReads ==
  ASSUME Typed, Evaluate, rendering, Visible, dot % 2 = 1
  PROVE  eval'.oam_buffer = ReadOam(eval'.oam_address)
<1>. DEFINE starts == rendering /\ Rendered /\ dot = LastClear + 1
            e == IF starts THEN [eval EXCEPT !.has_sprite_zero = FALSE] ELSE eval
            f == IF starts THEN Restarted(e) ELSE e
<1>1. eval' = CASE ~(rendering /\ Visible) -> e
                [] rendering /\ Visible /\ dot % 2 = 1 ->
                     [f EXCEPT !.oam_buffer = ReadOam(f.oam_address)]
                [] OTHER -> EvalStep(f)
  BY Zenon DEF Evaluate
<1>2. f \in EvalState
  <2>1. eval \in EvalState
    BY DEF Typed
  <2>2. [eval EXCEPT !.has_sprite_zero = FALSE] \in EvalState
    BY <2>1, FieldTypes
  <2>3. e \in EvalState
    BY <2>1, <2>2
  <2>. QED BY <2>3, RestartedFields
<1>3. eval' = [f EXCEPT !.oam_buffer = ReadOam(f.oam_address)]
  BY <1>1, Zenon
<1>. HIDE DEF f
<1>4. eval'.oam_buffer = ReadOam(f.oam_address) /\ eval'.oam_address = f.oam_address
  BY <1>2, <1>3 DEF EvalState
<1>. QED BY <1>4

LEMMA ReadOamNext ==
  ASSUME oam' = oam, eval'.oam_buffer = ReadOam(eval'.oam_address)
  PROVE  eval'.oam_buffer = ReadOam(eval.oam_address)'
BY Zenon DEF ReadOam

(* What clearing left is on no visible line. *)
LEMMA ClearedIsEmpty ==
  ASSUME Typed, Visible, eval.clear_index = Full,
         \A i \in 0 .. eval.clear_index - 1 : eval.oam2[i] = Blank
  PROVE  \A k \in 0 .. Slots - 1 : ~InRange(eval.oam2[4 * k])
<1>1. /\ line \in Nat /\ line < PostRender /\ PostRender \in Nat /\ PostRender <= 255
      /\ Lines \in Nat /\ PostRender <= Lines /\ Slots \in Nat /\ Full = 4 * Slots
  BY SpritesAssumption DEF Typed, Visible, Blank, Full
<1>2. line % Lines = line
  BY <1>1
<1>3. ~(Blank <= line % Lines)
  BY <1>1, <1>2 DEF Blank
<1>4. \A k \in 0 .. Slots - 1 : 4 * k \in 0 .. Full - 1
  BY <1>1
<1>. QED BY <1>3, <1>4 DEF InRange

LEMMA EvaluateShown ==
  ASSUME Typed, Steady, Clearing, Evaluated, Evaluate, Observe, steady'
  PROVE  ShownInv'
<1>1. /\ eval \in EvalState /\ Advance /\ dot \in Nat
      /\ dot >= LastClear + 1 /\ dot <= LastEval /\ dot # Width - 1 /\ dot >= 1 /\ dot # 0
      /\ LastClear \in Nat /\ LastEval \in Nat /\ LastClear % 2 = 0
  BY Geometry, SpritesAssumption DEF Typed, Evaluate
<1>2. dot' = dot + 1 /\ line' = line /\ steady
  BY <1>1, AdvanceObserved
<1>3. oam' = oam /\ height' = height
  BY <1>1 DEF Advance
<1>4. rendering /\ Visible
  BY <1>1, <1>2 DEF Steady
<1>5. Collected(eval')
  <2>1. CASE /\ dot = LastClear + 1
             /\ \E buffer \in Byte :
                  eval' = [Restarted([eval EXCEPT !.has_sprite_zero = FALSE])
                             EXCEPT !.oam_buffer = buffer]
    <3>. DEFINE e == [eval EXCEPT !.has_sprite_zero = FALSE]
                f == Restarted(e)
    <3>1. /\ e \in EvalState /\ e.oam_address = eval.oam_address /\ ~e.has_sprite_zero
          /\ e.oam2 = eval.oam2
      <4>1. e \in EvalState
        BY <1>1, FieldTypes
      <4>. QED BY <1>1, <4>1 DEF EvalState
    <3>. HIDE DEF e
    <3>2. /\ f \in EvalState /\ f.oam_address = eval.oam_address /\ ~f.has_sprite_zero
          /\ f.index = 0 /\ f.byte = 0 /\ ~f.finished
      BY <3>1, RestartedFields
    <3>3. f.oam2 = eval.oam2
      BY <3>1 DEF Restarted, EvalState
    <3>4. PICK buffer \in Byte : eval' = [f EXCEPT !.oam_buffer = buffer]
      BY <2>1 DEF e
    <3>. HIDE DEF f
    <3>5. eval.oam_address = 0
      BY <1>1, <1>2, <2>1 DEF Steady
    <3>6. /\ eval.clear_index = IF dot - 1 < Full THEN dot - 1 ELSE Full
          /\ \A i \in 0 .. eval.clear_index - 1 : eval.oam2[i] = Blank
      <4>1. dot \in 1 .. LastClear + 1
        BY <1>1, <2>1
      <4>. QED BY <1>2, <4>1 DEF Clearing
    <3>7. ~(dot - 1 < Full)
      BY <1>1, <2>1, SpritesAssumption DEF Full
    <3>8. \A k \in 0 .. Slots - 1 : ~InRange(eval.oam2[4 * k])
      BY <1>4, <3>6, <3>7, ClearedIsEmpty
    <3>9. Collected(f)
      BY <3>2, <3>3, <3>5, <3>8, CollectedStart
    <3>. QED BY <3>2, <3>4, <3>9, CollectedRead
  <2>2. CASE dot > LastClear + 1 /\ dot % 2 = 0 /\ eval' = EvalStep(eval)
    <3>1. dot >= LastClear + 2 /\ dot \in LastClear + 2 .. LastEval
      BY <1>1, <2>2
    <3>2. Collected(eval) /\ eval.oam_buffer = ReadOam(eval.oam_address)
      BY <1>1, <1>2, <2>2, <3>1 DEF Evaluated
    <3>3. eval.finished \/ Work(eval, Done)
      BY <1>1, <1>2, <3>1 DEF Steady
    <3>. QED BY <1>1, <2>2, <3>2, <3>3, CollectedGoesOn
  <2>3. CASE /\ dot > LastClear + 1
             /\ \E buffer \in Byte : eval' = [eval EXCEPT !.oam_buffer = buffer]
    <3>1. dot >= LastClear + 2
      BY <1>1, <2>3
    <3>2. Collected(eval)
      BY <1>2, <3>1 DEF Evaluated
    <3>. QED BY <1>1, <2>3, <3>2, CollectedRead
  <2>. QED BY <1>4, <2>1, <2>2, <2>3, EvaluateCases
<1>6. Collected(eval)'
  BY <1>2, <1>3, <1>5, CollectedNext
<1>7. ASSUME dot' % 2 = 0 PROVE eval'.oam_buffer = ReadOam(eval.oam_address)'
  <2>1. dot % 2 = 1
    BY <1>1, <1>2, <1>7
  <2>2. eval'.oam_buffer = ReadOam(eval'.oam_address)
    BY <1>4, <2>1, EvaluateReads
  <2>. QED BY <1>3, <2>2, ReadOamNext
<1>8. Evaluated'
  BY <1>6, <1>7 DEF Evaluated
<1>9. ~(dot' \in 1 .. LastClear + 1) /\ dot' \in Nat /\ dot' <= LastEval + 4
  BY <1>1, <1>2
<1>10. Clearing' /\ FetchedSoFar'
  BY <1>9, NotFetched DEF Clearing
<1>. QED BY <1>8, <1>10 DEF ShownInv

LEMMA FetchedNext ==
  ASSUME line' = line, height' = height, eval'.source = eval.source, eval'.oam2 = eval.oam2,
         render_has_sprite_zero' = render_has_sprite_zero
  PROVE  \A k \in 0 .. Slots - 1 : Fetched(k)' = Fetched(k)
BY Zenon DEF Fetched, InRange

LEMMA BeyondNext ==
  ASSUME line' = line, height' = height, oam' = oam, eval'.source = eval.source
  PROVE  Beyond' = Beyond
BY Zenon DEF Beyond, InRange

LEMMA FetchShown ==
  ASSUME Typed, Fit, Steady, Evaluated, FetchedSoFar, Fetch \/ Prefetch, Observe, steady',
         dot < Width - 1
  PROVE  ShownInv'
<1>1. /\ eval \in EvalState /\ Advance /\ dot \in Nat
      /\ dot > LastEval /\ dot # Width - 1 /\ dot >= 1 /\ dot # 0 /\ dot >= LastClear + 2
      /\ LastClear \in Nat /\ LastEval \in Nat /\ LastClear < LastEval
      /\ Slots - 1 \in 0 .. Slots - 1 /\ 0 \in 0 .. Slots - 1 /\ Slots \in Nat
  BY FetchFields, Geometry, SpritesAssumption DEF Typed
<1>2. dot' = dot + 1 /\ line' = line /\ steady
  BY <1>1, AdvanceObserved
<1>3. oam' = oam /\ height' = height
  BY <1>1 DEF Advance
<1>4. rendering /\ Visible /\ Rendered
  BY <1>1, <1>2 DEF Steady, Rendered
<1>5. eval.finished
  BY <1>1, <1>2 DEF Steady
<1>6. /\ eval'.index = eval.index /\ eval'.source = eval.source /\ eval'.oam2 = eval.oam2
      /\ eval'.finished = eval.finished /\ eval'.has_sprite_zero = eval.has_sprite_zero
  BY FetchFields
<1>7. Collected(eval)
  BY <1>1, <1>2 DEF Evaluated
<1>8. Collected(eval')
  BY <1>1, <1>5, <1>6, <1>7, CollectedOver
<1>9. Clearing' /\ Evaluated'
  <2>1. ~(dot' \in 1 .. LastClear + 1) /\ ~(dot' <= LastEval)
    BY <1>1, <1>2
  <2>2. Collected(eval)'
    BY <1>2, <1>3, <1>8, CollectedNext
  <2>. QED BY <2>1, <2>2 DEF Clearing, Evaluated
<1>10. /\ \A k \in 0 .. Slots - 1 : FetchDot(k) \in Nat /\ FetchDot(k) >= LastEval + 5
                                    /\ FetchDot(k) <= LastFetch
       /\ \A j, k \in 0 .. Slots - 1 : j < k => FetchDot(j) < FetchDot(k)
  BY FetchDots
<1>11. Beyond' = Beyond
  BY <1>2, <1>3, <1>6, BeyondNext
<1>12. render_has_sprite_zero' = eval.has_sprite_zero \/ ~(dot' > LastEval + 4)
  <2>1. LastEval + 5 <= LastFetch
    BY <1>1, <1>10, Geometry
  <2>2. CASE dot = LastEval + 4
    <3>1. Fetch
      BY <1>1, <2>1, <2>2, Geometry DEF Prefetch
    <3>. QED BY <1>4, <2>2, <3>1 DEF Fetch
  <2>3. CASE dot > LastEval + 4
    <3>1. render_has_sprite_zero' = render_has_sprite_zero
      <4>1. dot # LastEval + 4
        BY <1>1, <2>3
      <4>. QED BY <4>1, Zenon DEF Fetch, Prefetch
    <3>. QED BY <1>2, <2>3, <3>1 DEF FetchedSoFar
  <2>. QED BY <1>1, <1>2, <2>2, <2>3
<1>13. ASSUME dot > LastEval + 4
       PROVE  \A k \in 0 .. Slots - 1 : Fetched(k)' = Fetched(k)
  <2>1. dot # LastEval + 4
    BY <1>1, <1>13
  <2>2. render_has_sprite_zero' = render_has_sprite_zero
    BY <2>1, Zenon DEF Fetch, Prefetch
  <2>. QED BY <1>2, <1>3, <1>6, <2>2, FetchedNext
<1>14. CASE FetchesSlot
  <2>. DEFINE s == Slot
              w == WithSlot(s)
  <2>1. s \in 0 .. Slots - 1 /\ dot = FetchDot(s)
    BY <1>14, FetchesSlotIs
  <2>2. sprite_latches' = w
    <3>1. Fetch
      BY <1>1, <1>10, <2>1, Geometry DEF Prefetch
    <3>. QED BY <1>4, <1>14, <3>1 DEF Fetch
  <2>3. dot > LastEval + 4
    BY <1>1, <1>10, <2>1
  <2>. HIDE DEF s
  <2>4. s > 0 => dot > FetchDot(0)
    BY <1>1, <1>10, <2>1
  <2>5. s > 0 => Len(sprite_latches) >= Slots
    BY <1>2, <2>4 DEF FetchedSoFar
  <2>6. /\ Len(w) >= Slots
        /\ \A k \in 0 .. s - 1 : w[k + 1] = sprite_latches[k + 1]
        /\ w[s + 1] = Fetched(s)
        /\ s = Slots - 1 /\ ~(Visible /\ eval.index = Full) => Len(w) = Slots
        /\ s = Slots - 1 /\ Visible /\ eval.index = Full /\ Slots + Len(Beyond) <= Sprites =>
             /\ Len(w) = Slots + Len(Beyond)
             /\ \A j \in 1 .. Len(Beyond) : w[Slots + j] = Beyond[j]
    BY <2>1, <2>5, WithSlotIs
  <2>. HIDE DEF w
  <2>7. \A k \in 0 .. Slots - 1 : dot' > FetchDot(k) => w[k + 1] = Fetched(k)
    <3>1. SUFFICES ASSUME NEW k \in 0 .. Slots - 1, dot' > FetchDot(k)
          PROVE  w[k + 1] = Fetched(k)
      OBVIOUS
    <3>2. ~(s < k)
      BY <1>1, <1>2, <1>10, <2>1, <3>1
    <3>3. CASE k = s
      BY <2>6, <3>3
    <3>4. CASE k < s
      <4>1. k \in 0 .. s - 1 /\ s > 0
        BY <1>1, <2>1, <3>4
      <4>2. dot > FetchDot(k)
        BY <1>10, <2>1, <3>4
      <4>3. sprite_latches[k + 1] = Fetched(k)
        BY <1>2, <2>4, <4>1, <4>2 DEF FetchedSoFar
      <4>. QED BY <2>6, <4>1, <4>3
    <3>. QED BY <1>1, <2>1, <3>2, <3>3, <3>4
  <2>8. ASSUME dot' > FetchDot(Slots - 1)
        PROVE  LET beyond == IF eval.index = Full THEN Beyond ELSE <<>>
               IN /\ Len(w) = Slots + Len(beyond)
                  /\ \A j \in 1 .. Len(beyond) : w[Slots + j] = beyond[j]
    <3>1. s = Slots - 1
      <4>1. ~(s < Slots - 1)
        BY <1>1, <1>2, <1>10, <2>1, <2>8
      <4>. QED BY <1>1, <2>1, <4>1
    <3>2. CASE eval.index = Full
      BY <1>4, <1>7, <2>6, <3>1, <3>2, BeyondFits
    <3>3. CASE eval.index # Full
      <4>1. Len(<<>>) = 0 /\ Slots + 0 = Slots /\ 1 .. 0 = {}
        BY <1>1
      <4>. QED BY <2>6, <3>1, <3>3, <4>1
    <3>. QED BY <3>2, <3>3
  <2>9. FetchedSoFar'
    <3>1. Len(w) >= Slots /\ \A k \in 0 .. Slots - 1 : dot' > FetchDot(k) => w[k + 1] = Fetched(k)'
      BY <1>13, <2>3, <2>6, <2>7
    <3>2. dot' > LastEval + 4 => render_has_sprite_zero' = eval'.has_sprite_zero
      BY <1>6, <1>12
    <3>. QED BY <1>6, <1>11, <2>2, <2>8, <3>1, <3>2, Zenon DEF FetchedSoFar, FetchDot
  <2>. QED BY <1>9, <2>9 DEF ShownInv
<1>15. CASE ~FetchesSlot
  <2>1. sprite_latches' = sprite_latches
    BY <1>15, Zenon DEF Fetch, Prefetch
  <2>2. \A k \in 0 .. Slots - 1 : dot' > FetchDot(k) => dot > FetchDot(k)
    <3>1. \A k \in 0 .. Slots - 1 : dot # FetchDot(k)
      BY <1>15, FetchesSlotIs
    <3>. QED BY <1>1, <1>2, <1>10, <3>1
  <2>3. ASSUME dot' > FetchDot(0)
        PROVE  /\ Len(sprite_latches') >= Slots
               /\ \A k \in 0 .. Slots - 1 :
                    dot' > FetchDot(k) => sprite_latches'[k + 1] = Fetched(k)'
    <3>1. dot > FetchDot(0)
      BY <1>1, <2>2, <2>3
    <3>2. dot > LastEval + 4
      BY <1>1, <1>10, <3>1
    <3>3. /\ Len(sprite_latches) >= Slots
          /\ \A k \in 0 .. Slots - 1 : dot > FetchDot(k) => sprite_latches[k + 1] = Fetched(k)
      BY <1>2, <3>1 DEF FetchedSoFar
    <3>. QED BY <1>13, <2>1, <2>2, <3>2, <3>3
  <2>4. ASSUME dot' > FetchDot(Slots - 1)
        PROVE  LET beyond == IF eval.index = Full THEN Beyond ELSE <<>>
               IN /\ Len(sprite_latches') = Slots + Len(beyond)
                  /\ \A j \in 1 .. Len(beyond) : sprite_latches'[Slots + j] = beyond[j]
    <3>1. dot > FetchDot(Slots - 1)
      BY <1>1, <2>2, <2>4
    <3>. QED BY <1>2, <2>1, <3>1 DEF FetchedSoFar
  <2>5. FetchedSoFar'
    <3>1. dot' > LastEval + 4 => render_has_sprite_zero' = eval'.has_sprite_zero
      BY <1>6, <1>12
    <3>. QED BY <1>6, <1>11, <2>3, <2>4, <3>1, Zenon DEF FetchedSoFar, FetchDot
  <2>. QED BY <1>9, <2>5 DEF ShownInv
<1>. QED BY <1>14, <1>15

LEMMA ShownStep ==
  ASSUME IInv, ShownInv, MCNext
  PROVE  ShownInv'
<1>1. /\ Typed /\ Fit /\ Steady /\ Next /\ Observe
      /\ Clearing /\ Evaluated /\ FetchedSoFar
  BY DEF IInv, ShownInv, MCNext
<1>. SUFFICES ASSUME steady', dot' # 0 PROVE ShownInv'
  BY OffTheLine
<1>2. CASE LineStart
  BY <1>1, <1>2, LineStartShown
<1>3. CASE Clear
  BY <1>1, <1>3, ClearShown
<1>4. CASE Evaluate
  BY <1>1, <1>4, EvaluateShown
<1>5. CASE Fetch \/ Prefetch
  <2>1. Advance
    BY <1>1, <1>5, FetchFields
  <2>2. dot < Width - 1
    BY <1>1, <2>1, AdvanceObserved
  <2>. QED BY <1>1, <1>5, <2>2, FetchShown
<1>6. CASE Toggle \/ WriteOamAddress \/ WriteOamData \/ Transfer \/ UpdateBeam
  <2>1. dot' = dot \/ passing
    BY <1>6 DEF Toggle, WriteOamAddress, WriteOamData, Transfer, UpdateBeam
  <2>2. ~steady'
    BY <1>1, <2>1, Zenon DEF Observe
  <2>. QED BY <2>2
<1>. QED BY <1>1, <1>2, <1>3, <1>4, <1>5, <1>6, Zenon DEF Next

-----------------------------------------------------------------------------
(* A line that is done.                                                     *)

(* How many latches follow those of the slots. *)
Extras == IF eval.index = Full THEN Cardinality(Extra) ELSE 0

(* The latches of a line that is done: the slots begun are shown, and so    *)
(* are all that follow the slots.                                           *)
LEMMA LatchesAre ==
  ASSUME Typed, Fit, Steady, ShownInv, steady, dot > LastFetch
  PROVE  LET shown == {k \in DOMAIN sprite_latches : sprite_latches[k].shown}
         IN /\ \A k \in 0 .. Begun(eval) - 1 :
                 /\ k + 1 \in shown
                 /\ sprite_latches[k + 1].source = eval.source[k]
                 /\ sprite_latches[k + 1].is_sprite_0 = (k = 0 /\ eval.has_sprite_zero)
            /\ \A j \in 1 .. Extras :
                 /\ Slots + j \in shown
                 /\ sprite_latches[Slots + j] = ExtraLatch(Nth(Extra, j))
            /\ \A i \in shown : \/ \E k \in 0 .. Begun(eval) - 1 : i = k + 1
                                \/ \E j \in 1 .. Extras : i = Slots + j
<1>. DEFINE L == sprite_latches
            b == Begun(eval)
            shown == {k \in DOMAIN L : L[k].shown}
            beyond == IF eval.index = Full THEN Beyond ELSE <<>>
<1>0. /\ Slots \in Nat /\ Slots - 1 \in 0 .. Slots - 1 /\ 0 \in 0 .. Slots - 1 /\ dot \in Nat
      /\ LastEval \in Nat /\ LastFetch \in Nat /\ LastClear < LastEval /\ LastEval <= LastFetch
      /\ dot >= LastClear + 2 /\ dot > LastEval + 4
  <2>1. /\ Slots \in Nat /\ Slots - 1 \in 0 .. Slots - 1 /\ 0 \in 0 .. Slots - 1
    BY SpritesAssumption
  <2>2. LastEval + 5 <= LastFetch
    BY <2>1, FetchDots, Geometry
  <2>. QED BY <2>1, <2>2, Geometry DEF Typed
<1>1. \A k \in 0 .. Slots - 1 : dot > FetchDot(k)
  BY <1>0, FetchDots
<1>2. render_has_sprite_zero = eval.has_sprite_zero
  BY <1>0 DEF ShownInv, FetchedSoFar
<1>3. Len(L) >= Slots /\ \A k \in 0 .. Slots - 1 : L[k + 1] = Fetched(k)
  BY <1>0, <1>1 DEF ShownInv, FetchedSoFar
<1>4. Len(L) = Slots + Len(beyond) /\ \A j \in 1 .. Len(beyond) : L[Slots + j] = beyond[j]
  <2>1. dot > FetchDot(Slots - 1)
    BY <1>0, <1>1
  <2>. QED BY <2>1, Zenon DEF ShownInv, FetchedSoFar
<1>5. /\ Extras \in Nat /\ Len(beyond) = Extras
      /\ \A j \in 1 .. Extras : beyond[j] = ExtraLatch(Nth(Extra, j))
  <2>1. CASE eval.index = Full
    <3>1. Extras = Cardinality(Extra) /\ Cardinality(Extra) \in Nat
      BY <2>1, ExtraType DEF Extras
    <3>2. /\ Beyond = [k \in 1 .. Cardinality(Extra) |-> ExtraLatch(Nth(Extra, k))]
          /\ Len(Beyond) = Cardinality(Extra)
      BY BeyondIs
    <3>. HIDE DEF ExtraLatch
    <3>. QED BY <2>1, <3>1, <3>2
  <2>2. CASE eval.index # Full
    BY <2>2 DEF Extras
  <2>. QED BY <2>1, <2>2
<1>6. DOMAIN L = 1 .. Slots + Extras
  <2>1. \E S : L \in Seq(S)
    BY DEF Fit
  <2>2. DOMAIN L = 1 .. Len(L)
    BY <2>1, LenProperties
  <2>. QED BY <1>4, <1>5, <2>2
<1>7. b \in 0 .. Slots
  BY BegunType DEF Typed
<1>8. /\ \A k \in 0 .. b - 1 : InRange(eval.oam2[4 * k])
      /\ \A k \in b .. Slots - 1 : ~InRange(eval.oam2[4 * k])
  BY <1>0 DEF ShownInv, Evaluated, Collected
<1>9. \A k \in 0 .. Slots - 1 :
        /\ L[k + 1].source = eval.source[k]
        /\ L[k + 1].is_sprite_0 = (k = 0 /\ eval.has_sprite_zero)
        /\ L[k + 1].shown = InRange(eval.oam2[4 * k])
  <2>1. SUFFICES ASSUME NEW k \in 0 .. Slots - 1
                 PROVE  /\ L[k + 1].source = eval.source[k]
                        /\ L[k + 1].is_sprite_0 = (k = 0 /\ eval.has_sprite_zero)
                        /\ L[k + 1].shown = InRange(eval.oam2[4 * k])
    OBVIOUS
  <2>. DEFINE source == eval.source[k]
              zero == k = 0 /\ eval.has_sprite_zero
              inRange == InRange(eval.oam2[4 * k])
  <2>2. L[k + 1] = [source |-> source, is_sprite_0 |-> zero, shown |-> inRange]
    BY <1>2, <1>3 DEF Fetched
  <2>. HIDE DEF L, source, zero, inRange
  <2>3. L[k + 1].source = source /\ L[k + 1].is_sprite_0 = zero /\ L[k + 1].shown = inRange
    BY <2>2
  <2>. QED BY <2>3 DEF source, zero, inRange
<1>10. \A j \in 1 .. Extras : L[Slots + j] = ExtraLatch(Nth(Extra, j)) /\ L[Slots + j].shown
  BY <1>4, <1>5 DEF ExtraLatch
<1>. HIDE DEF L, b
<1>11. /\ \A k \in 0 .. b - 1 : k \in 0 .. Slots - 1 /\ k + 1 \in 1 .. Slots + Extras
       /\ \A j \in 1 .. Extras : Slots + j \in 1 .. Slots + Extras
       /\ \A i \in 1 .. Slots + Extras :
            \/ i - 1 \in 0 .. b - 1 /\ i = i - 1 + 1
            \/ i - 1 \in b .. Slots - 1 /\ i - 1 \in 0 .. Slots - 1 /\ i = i - 1 + 1
            \/ i - Slots \in 1 .. Extras /\ i = Slots + (i - Slots)
  BY <1>0, <1>5, <1>7
<1>12. \A k \in 0 .. b - 1 :
         /\ k + 1 \in shown
         /\ L[k + 1].source = eval.source[k]
         /\ L[k + 1].is_sprite_0 = (k = 0 /\ eval.has_sprite_zero)
  BY <1>6, <1>8, <1>9, <1>11, Zenon
<1>13. \A j \in 1 .. Extras : Slots + j \in shown /\ L[Slots + j] = ExtraLatch(Nth(Extra, j))
  BY <1>6, <1>10, <1>11, Zenon
<1>14. \A i \in shown : \/ \E k \in 0 .. b - 1 : i = k + 1
                        \/ \E j \in 1 .. Extras : i = Slots + j
  <2>1. SUFFICES ASSUME NEW i \in 1 .. Slots + Extras, L[i].shown
                 PROVE  \/ \E k \in 0 .. b - 1 : i = k + 1
                        \/ \E j \in 1 .. Extras : i = Slots + j
    BY <1>6
  <2>2. CASE i - 1 \in 0 .. b - 1 /\ i = i - 1 + 1
    BY <2>2
  <2>3. CASE i - 1 \in b .. Slots - 1 /\ i - 1 \in 0 .. Slots - 1 /\ i = i - 1 + 1
    <3>. DEFINE k == i - 1
    <3>1. k \in b .. Slots - 1 /\ k \in 0 .. Slots - 1 /\ i = k + 1
      BY <2>3
    <3>. HIDE DEF k
    <3>2. ~L[k + 1].shown
      BY <1>8, <1>9, <3>1, Zenon
    <3>. QED BY <2>1, <3>1, <3>2
  <2>4. CASE i - Slots \in 1 .. Extras /\ i = Slots + (i - Slots)
    BY <2>4
  <2>. QED BY <1>11, <2>2, <2>3, <2>4
<1>. QED BY <1>12, <1>13, <1>14, Zenon DEF L, b

(* Numbers of sprites and their addresses are in the same order. *)
LEMMA QuarterGrows ==
  ASSUME NEW a \in Nat, NEW b \in Nat, a % 4 = 0, b % 4 = 0
  PROVE  /\ a < b => a \div 4 < b \div 4
         /\ \A n \in Int : a < 4 * n => a \div 4 < n
OBVIOUS

LEMMA LineShown ==
  ASSUME Typed, Fit, Steady, ShownInv, steady, dot > LastFetch
  PROVE  LET shown == {k \in DOMAIN sprite_latches : sprite_latches[k].shown}
             number(k) == sprite_latches[k].source \div 4
         IN /\ {number(k) : k \in shown} = OnLine
            /\ \A j, k \in shown : j < k => number(j) < number(k)
            /\ \A k \in shown : sprite_latches[k].is_sprite_0 <=> sprite_latches[k].source = 0
<1>. DEFINE shown == {k \in DOMAIN sprite_latches : sprite_latches[k].shown}
            source(k) == sprite_latches[k].source
            zero(k) == sprite_latches[k].is_sprite_0
            number(k) == source(k) \div 4
            b == Begun(eval)
            p == Passed(eval)
            from(k) == eval.source[k]
            nth(j) == Nth(Extra, j)
            first == (eval.source[Slots - 1] \div 4) + 1
<1>1. /\ \A k \in 0 .. b - 1 :
           k + 1 \in shown /\ source(k + 1) = from(k)
           /\ zero(k + 1) = (k = 0 /\ eval.has_sprite_zero)
      /\ \A j \in 1 .. Extras :
           Slots + j \in shown /\ source(Slots + j) = 4 * nth(j) /\ ~zero(Slots + j)
      /\ \A i \in shown : \/ \E k \in 0 .. b - 1 : i = k + 1
                          \/ \E j \in 1 .. Extras : i = Slots + j
  <2>1. \A j : ExtraLatch(nth(j)).source = 4 * nth(j) /\ ~ExtraLatch(nth(j)).is_sprite_0
    BY DEF ExtraLatch
  <2>. HIDE DEF ExtraLatch, nth
  <2>. QED BY <2>1, LatchesAre DEF nth
<1>. HIDE DEF shown, zero, source
<1>2. dot >= LastClear + 2 /\ eval.finished
  <2>1. dot >= LastClear + 2 /\ dot >= 1 /\ dot > LastEval
    BY Geometry DEF Typed
  <2>. QED BY <2>1 DEF Steady
<1>3. /\ \A k \in 0 .. b - 1 : from(k) % 4 = 0 /\ from(k) < 4 * p /\ InRange(oam[from(k)])
      /\ \A j, k \in 0 .. b - 1 : j < k => from(j) < from(k)
      /\ \A n \in 0 .. p - 1 : InRange(oam[4 * n]) => \E k \in 0 .. b - 1 : from(k) = 4 * n
      /\ eval.has_sprite_zero <=> \E k \in 0 .. b - 1 : from(k) = 0
  <2>1. Collected(eval)
    BY <1>2 DEF ShownInv, Evaluated
  <2>. QED BY <2>1 DEF Collected
<1>4. /\ b \in 0 .. Slots /\ Slots \in Nat \ {0} /\ Sprites \in Nat
      /\ \A k \in 0 .. b - 1 : k \in Nat /\ from(k) \in Nat /\ from(k) \div 4 \in 0 .. Sprites - 1
  <2>1. b \in 0 .. Slots
    BY BegunType DEF Typed
  <2>2. Slots \in Nat \ {0} /\ Sprites \in Nat
    BY SpritesAssumption
  <2>. HIDE DEF b
  <2>3. \A k \in 0 .. b - 1 : k \in 0 .. Slots - 1 /\ k \in Nat
    BY <2>1, <2>2
  <2>4. \A a \in Address : a \in Nat /\ a \div 4 \in 0 .. Sprites - 1
    BY <2>2 DEF Address
  <2>5. \A k \in 0 .. Slots - 1 : from(k) \in Address
    BY DEF Typed, EvalState
  <2>. HIDE DEF from
  <2>. QED BY <2>1, <2>2, <2>3, <2>4, <2>5
<1>5. /\ Extras \in Nat
      /\ \A j \in 1 .. Extras : nth(j) \in Extra
      /\ \A j, k \in 1 .. Extras : j < k => nth(j) < nth(k)
      /\ eval.index = Full => \A n \in Extra : \E j \in 1 .. Extras : nth(j) = n
  <2>1. Extra \in SUBSET Int /\ IsFiniteSet(Extra) /\ Cardinality(Extra) \in Nat
    BY ExtraType
  <2>2. CASE eval.index = Full
    BY <2>1, <2>2, NthType, NthIsInOrder DEF Extras
  <2>3. CASE eval.index # Full
    BY <2>3 DEF Extras
  <2>. QED BY <2>2, <2>3
<1>6. /\ Extras > 0 => eval.index = Full
      /\ eval.index = Full => p = first
      /\ eval.index # Full => p = Sprites
      /\ first \in Nat /\ first > 0 /\ Extra = {n \in first .. Sprites - 1 : InRange(oam[4 * n])}
  <2>1. first \in Nat /\ first > 0
    <3>1. first \in Nat /\ eval.source[Slots - 1] \in Nat
      <4>1. Slots - 1 \in 0 .. Slots - 1
        BY SpritesAssumption
      <4>. QED BY <4>1, ExtraType DEF Typed, EvalState, Address
    <3>. QED BY <3>1
  <2>2. Extras > 0 => eval.index = Full
    BY DEF Extras
  <2>. QED BY <1>2, <2>1, <2>2 DEF Passed, Extra
<1>. HIDE DEF b, p, from, nth, first
<1>7. \A j \in 1 .. Extras :
        /\ nth(j) \in first .. Sprites - 1 /\ nth(j) \in Nat
        /\ InRange(oam[4 * nth(j)]) /\ p = first
        /\ number(Slots + j) = nth(j)
  <2>1. SUFFICES ASSUME NEW j \in 1 .. Extras
                 PROVE  /\ nth(j) \in first .. Sprites - 1 /\ nth(j) \in Nat
                        /\ InRange(oam[4 * nth(j)]) /\ p = first
                        /\ number(Slots + j) = nth(j)
    OBVIOUS
  <2>2. Extras > 0
    BY <1>5
  <2>3. nth(j) \in first .. Sprites - 1 /\ InRange(oam[4 * nth(j)]) /\ p = first
    BY <1>5, <1>6, <2>2
  <2>4. nth(j) \in Nat
    BY <1>4, <1>6, <2>3
  <2>5. (4 * nth(j)) \div 4 = nth(j)
    BY <2>4
  <2>. QED BY <1>1, <2>3, <2>4, <2>5
<1>8. \A k \in 0 .. b - 1 : from(k) = 4 * (from(k) \div 4) /\ number(k + 1) = from(k) \div 4
  BY <1>1, <1>3, <1>4, Fourth
<1>9. \A i \in shown : number(i) \in OnLine
  <2>1. SUFFICES ASSUME NEW i \in shown PROVE number(i) \in OnLine
    OBVIOUS
  <2>2. ASSUME NEW k \in 0 .. b - 1, i = k + 1 PROVE number(i) \in OnLine
    <3>. DEFINE n == from(k) \div 4
    <3>1. n \in 0 .. Sprites - 1 /\ InRange(oam[4 * n]) /\ number(i) = n
      BY <1>3, <1>4, <1>8, <2>2
    <3>. HIDE DEF n, number
    <3>. QED BY <3>1 DEF OnLine
  <2>3. ASSUME NEW j \in 1 .. Extras, i = Slots + j PROVE number(i) \in OnLine
    <3>1. nth(j) \in 0 .. Sprites - 1 /\ InRange(oam[4 * nth(j)]) /\ number(i) = nth(j)
      BY <1>4, <1>6, <1>7, <2>3
    <3>. HIDE DEF number
    <3>. QED BY <3>1 DEF OnLine
  <2>. QED BY <1>1, <2>2, <2>3
<1>10. \A n \in OnLine : \E i \in shown : number(i) = n
  <2>1. SUFFICES ASSUME NEW n \in OnLine PROVE \E i \in shown : number(i) = n
    OBVIOUS
  <2>2. n \in 0 .. Sprites - 1 /\ n \in Nat /\ InRange(oam[4 * n])
    BY <1>4 DEF OnLine
  <2>3. p \in Nat
    BY <1>4, <1>6
  <2>4. CASE n < p
    <3>1. n \in 0 .. p - 1
      BY <2>2, <2>3, <2>4
    <3>2. PICK k \in 0 .. b - 1 : from(k) = 4 * n
      BY <1>3, <2>2, <3>1
    <3>3. (4 * n) \div 4 = n
      BY <2>2
    <3>4. number(k + 1) = n
      BY <1>8, <3>2, <3>3
    <3>. QED BY <1>1, <3>4
  <2>5. CASE ~(n < p)
    <3>1. p # Sprites
      BY <1>4, <2>2, <2>3, <2>5
    <3>2. eval.index = Full /\ p = first
      BY <1>6, <3>1
    <3>3. n \in Extra
      BY <1>4, <1>6, <2>2, <2>5, <3>2
    <3>4. PICK j \in 1 .. Extras : nth(j) = n
      BY <1>5, <3>2, <3>3
    <3>. QED BY <1>1, <1>7, <3>4
  <2>. QED BY <2>4, <2>5
<1>11. \A i, k \in shown : i < k => number(i) < number(k)
  <2>1. SUFFICES ASSUME NEW i \in shown, NEW k \in shown, i < k PROVE number(i) < number(k)
    OBVIOUS
  <2>2. ASSUME NEW x \in 0 .. b - 1, i = x + 1, NEW y \in 0 .. b - 1, k = y + 1
        PROVE  number(i) < number(k)
    <3>1. x < y
      BY <1>4, <2>1, <2>2
    <3>2. from(x) < from(y) /\ from(x) \in Nat /\ from(y) \in Nat
            /\ from(x) % 4 = 0 /\ from(y) % 4 = 0
      BY <1>3, <1>4, <3>1
    <3>3. from(x) \div 4 < from(y) \div 4
      BY <3>2, QuarterGrows
    <3>. QED BY <1>8, <2>2, <3>3
  <2>3. ASSUME NEW x \in 0 .. b - 1, i = x + 1, NEW y \in 1 .. Extras, k = Slots + y
        PROVE  number(i) < number(k)
    <3>1. from(x) < 4 * p /\ from(x) \in Nat /\ from(x) % 4 = 0 /\ p \in Int
      BY <1>3, <1>4, <1>6
    <3>2. from(x) \div 4 < p
      BY <3>1, QuarterGrows, 0 \in Nat, 0 % 4 = 0
    <3>3. p <= nth(y) /\ nth(y) \in Nat /\ number(k) = nth(y)
      BY <1>6, <1>7, <2>3
    <3>4. number(i) = from(x) \div 4 /\ from(x) \div 4 \in Int
      BY <1>8, <2>3, <3>1
    <3>. HIDE DEF number
    <3>. QED BY <3>1, <3>2, <3>3, <3>4
  <2>4. ASSUME NEW x \in 1 .. Extras, i = Slots + x, NEW y \in 0 .. b - 1, k = y + 1
        PROVE  number(i) < number(k)
    <3>1. ~(Slots + x < y + 1)
      BY <1>4, <1>5
    <3>. QED BY <2>1, <2>4, <3>1
  <2>5. ASSUME NEW x \in 1 .. Extras, i = Slots + x, NEW y \in 1 .. Extras, k = Slots + y
        PROVE  number(i) < number(k)
    <3>1. x < y
      BY <1>4, <1>5, <2>1, <2>5
    <3>. QED BY <1>5, <1>7, <2>5, <3>1
  <2>. QED BY <1>1, <2>2, <2>3, <2>4, <2>5, Zenon
<1>12. \A i \in shown : zero(i) <=> source(i) = 0
  <2>1. SUFFICES ASSUME NEW i \in shown PROVE zero(i) <=> source(i) = 0
    OBVIOUS
  <2>2. ASSUME NEW k \in 0 .. b - 1, i = k + 1 PROVE zero(i) <=> source(i) = 0
    <3>1. \A x \in 0 .. b - 1 : from(x) = 0 => x = 0
      <4>1. SUFFICES ASSUME NEW x \in 0 .. b - 1, from(x) = 0, x # 0 PROVE FALSE
        OBVIOUS
      <4>2. 0 \in 0 .. b - 1 /\ 0 < x
        BY <1>4, <4>1
      <4>3. from(0) < from(x) /\ from(0) \in Nat
        BY <1>3, <1>4, <4>2
      <4>. QED BY <4>1, <4>3
    <3>2. source(i) = from(k) /\ zero(i) = (k = 0 /\ eval.has_sprite_zero)
      BY <1>1, <2>2
    <3>3. eval.has_sprite_zero <=> \E x \in 0 .. b - 1 : from(x) = 0
      BY <1>3
    <3>. QED BY <3>1, <3>2, <3>3, Zenon
  <2>3. ASSUME NEW j \in 1 .. Extras, i = Slots + j PROVE zero(i) <=> source(i) = 0
    <3>1. nth(j) \in Nat /\ nth(j) # 0
      BY <1>6, <1>7
    <3>2. 4 * nth(j) # 0
      BY <3>1
    <3>. QED BY <1>1, <2>3, <3>2
  <2>. QED BY <1>1, <2>2, <2>3, Zenon
<1>13. {number(k) : k \in shown} = OnLine
  <2>. HIDE DEF number
  <2>. QED BY <1>9, <1>10
<1>. QED BY <1>11, <1>12, <1>13 DEF shown, source, zero
-----------------------------------------------------------------------------
(* Theorems                                                                *)

LEMMA StepInv == IInv /\ [MCNext]_MCvars => IInv'
<1>. SUFFICES ASSUME IInv, [MCNext]_MCvars PROVE IInv'
  OBVIOUS
<1>1. CASE UNCHANGED MCvars
  BY <1>1 DEF IInv, MCvars, vars, Typed, Fit, Steady, First, Visible, Done
<1>2. CASE MCNext
  <2>1. Typed /\ Fit /\ Steady /\ First /\ Next /\ Observe
    BY <1>2 DEF IInv, MCNext
  <2>2. Typed' /\ Steady' /\ First'
    BY <2>1, LineStartStep, ClearStep, EvaluateStep, FetchStep, CpuStep, UpdateBeamStep, Zenon
       DEF Next
  <2>3. Fit'
    BY <2>1, FitStep
  <2>. QED BY <2>2, <2>3 DEF IInv
<1>. QED BY <1>1, <1>2

LEMMA Invariance == MCSpec => []IInv
BY InitInv, StepInv, PTL DEF MCSpec

LEMMA ShownInit == MCInit => ShownInv
<1>1. MCInit => ~steady
  BY DEF MCInit
<1>. QED BY <1>1, Zenon DEF ShownInv, Clearing, Evaluated, FetchedSoFar

LEMMA ShownInvariance == MCSpec => []ShownInv
<1>1. IInv /\ ShownInv /\ [MCNext]_MCvars => ShownInv'
  <2>1. CASE UNCHANGED MCvars
    <3>1. /\ line' = line /\ dot' = dot /\ height' = height /\ oam' = oam /\ eval' = eval
          /\ render_has_sprite_zero' = render_has_sprite_zero
          /\ sprite_latches' = sprite_latches /\ steady' = steady
      BY <2>1 DEF MCvars, vars
    <3>2. ASSUME ShownInv PROVE Clearing' /\ Evaluated'
      <4>1. Collected(eval) => Collected(eval)'
        BY <3>1, CollectedNext
      <4>2. ReadOam(eval.oam_address)' = ReadOam(eval.oam_address)
        BY <3>1, Zenon DEF ReadOam
      <4>3. Clearing'
        BY <3>1, <3>2, Zenon DEF ShownInv, Clearing
      <4>. QED BY <3>1, <3>2, <4>1, <4>2, <4>3, Zenon DEF ShownInv, Evaluated
    <3>3. ASSUME ShownInv PROVE FetchedSoFar'
      <4>1. \A k \in 0 .. Slots - 1 : Fetched(k)' = Fetched(k)
        BY <3>1, FetchedNext
      <4>2. Beyond' = Beyond
        BY <3>1, BeyondNext
      <4>. QED BY <3>1, <3>3, <4>1, <4>2, Zenon DEF ShownInv, FetchedSoFar, FetchDot
    <3>. QED BY <3>2, <3>3 DEF ShownInv
  <2>2. CASE MCNext
    BY <2>2, ShownStep
  <2>. QED BY <2>1, <2>2
<1>. QED BY <1>1, ShownInit, Invariance, PTL DEF MCSpec

(* No index of the evaluation leaves its array and the list of sprites does *)
(* not outgrow its 64 places, whatever is switched, written or transferred  *)
(* in the middle of a line (Ppu2::tick).                                    *)
THEOREM IndicesStayInBounds == MCSpec => []IndicesInBounds
<1>1. IInv => IndicesInBounds
  <2>. SUFFICES ASSUME IInv PROVE IndicesInBounds
    OBVIOUS
  <2>1. /\ eval.index \in 0 .. Full /\ eval.byte \in 0 .. 3
        /\ eval.index < Full => eval.index \div 4 < Slots
    BY SpritesAssumption DEF IInv, Typed, EvalState, Full
  <2>. QED BY <2>1 DEF IInv, Fit, IndicesInBounds
<1>. QED BY <1>1, Invariance, PTL

(* The evaluation looks at every sprite in the dots a line has for it, as   *)
(* long as these are twice the sprites, the bytes copied and three.         *)
THEOREM EvaluationAlwaysEnds == MCSpec => []EvaluationEnds
<1>1. IInv => EvaluationEnds
  <2>. SUFFICES ASSUME IInv, steady, dot > LastEval PROVE eval.finished
    BY DEF EvaluationEnds
  <2>1. dot >= 1
    BY Geometry DEF IInv, Typed
  <2>. QED BY <2>1 DEF IInv, Steady
<1>. QED BY <1>1, Invariance, PTL

(* Sprite zero is the sprite the evaluation began at, whatever address that *)
(* was and whatever happens in the rest of the line.                        *)
THEOREM SpriteZeroStaysFirst == MCSpec => []SpriteZeroIsFirst
<1>1. IInv => SpriteZeroIsFirst
  BY DEF IInv, First, SpriteZeroIsFirst
<1>. QED BY <1>1, Invariance, PTL

(* A line that is rendered undisturbed is followed by one that shows every  *)
(* sprite on it, once and in the order of OAM: the slots keep what the      *)
(* evaluation found (Ppu2::tick), and the list is as long as the sprites    *)
(* beyond them need.                                                        *)
THEOREM EverySpriteIsShown == MCSpec => []EverySpriteShown
<1>1. IInv /\ ShownInv => EverySpriteShown
  BY LineShown, Zenon DEF IInv, EverySpriteShown
<1>. QED BY <1>1, Invariance, ShownInvariance, PTL
=============================================================================
