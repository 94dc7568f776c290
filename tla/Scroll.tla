------------------------------- MODULE Scroll -------------------------------
(***************************************************************************)
(* The registers v, t and w of internal_registers.rs, moved by the beam    *)
(* (the scroll events of Ppu2::tick and the delayed read of $2007) and by  *)
(* the CPU's accesses of $2000, $2002 and $2005-$2007 (NesMemory).  What   *)
(* is fetched, and fine x, which nothing here reads, are left out.         *)
(*                                                                         *)
(* A cycle of the CPU is three dots, then at most one access.  A cycle of  *)
(* a sprite transfer is three dots that only move the beam, and perhaps a  *)
(* read that the channel's DMA repeats.                                    *)
(***************************************************************************)
EXTENDS Naturals

CONSTANTS
  Columns,      \* tiles of a line of a nametable
  Rows,         \* rows of tiles of a nametable, without those of its attributes
  RowSlots,     \* rows that coarse y can count
  Fine,         \* lines of a tile
  TileDots,     \* dots of a tile
  CopyDots,     \* the dots of the pre-render line that copy the vertical bits
  Prefetch,     \* the last dot before the prefetch of two tiles
  Width,        \* dots of a line
  PreRender,    \* the last line
  ReadDelay,    \* the dots that a read of $2007 waits while rendering
  Transfers,    \* the cycles a sprite transfer may go on after its first
  PageReads     \* how often a page of PPU registers reads $2007

(* The beam copies the horizontal bits before the vertical ones and both   *)
(* before the prefetch, and $2006 divides a nametable into quarters.       *)
ASSUME ScrollAssumption ==
  /\ Columns \in Nat \ {0} /\ Fine \in Nat \ {0} /\ TileDots \in Nat \ {0}
  /\ RowSlots \in Nat /\ Rows \in 1 .. RowSlots - 1 /\ (Columns * RowSlots) % 4 = 0
  /\ {Prefetch, Width, PreRender, ReadDelay} \subseteq Nat
  /\ CopyDots \subseteq Columns * TileDots + 2 .. Prefetch
  /\ Columns * TileDots + 2 <= Prefetch /\ Prefetch + 2 * TileDots < Width - 1
  /\ Rows * Fine < PreRender
  /\ Transfers \subseteq Nat /\ PageReads \in Nat

VARIABLES
  ir,               \* struct IR
  vram_increment,   \* 1, or a row
  rendering,        \* background or sprites are in effect
  pending_2007_read_delay,
  scanline, x,      \* the dot run last
  is_odd_frame,
  dots,             \* dots run since the CPU's last cycle
  transfer          \* cycles left of a sprite transfer

beamVars == <<scanline, x, is_odd_frame>>
vars == <<ir, vram_increment, rendering, pending_2007_read_delay, beamVars, dots, transfer>>

-----------------------------------------------------------------------------
(* struct IR.  A position as the number v holds, fine y its highest part.  *)

Position ==
  [fine_y : 0 .. Fine - 1, nt_y : 0 .. 1, nt_x : 0 .. 1, coarse_y : 0 .. RowSlots - 1,
   coarse_x : 0 .. Columns - 1]

Nametable == Columns * RowSlots

Number(p) ==
  (p.fine_y * 4 + p.nt_y * 2 + p.nt_x) * Nametable + p.coarse_y * Columns + p.coarse_x

PositionOf(n) ==
  [fine_y |-> n \div (4 * Nametable), nt_y |-> (n \div (2 * Nametable)) % 2,
   nt_x |-> (n \div Nametable) % 2, coarse_y |-> (n \div Columns) % RowSlots,
   coarse_x |-> n % Columns]

(* 14 of the 15 bits: fine y without its highest. *)
AddressSize == 2 * Fine * Nametable

increment_v(p, inc) == PositionOf((Number(p) + inc) % AddressSize)

increment_horiz_v(p) ==
  IF p.coarse_x = Columns - 1 THEN [p EXCEPT !.coarse_x = 0, !.nt_x = 1 - @]
                              ELSE [p EXCEPT !.coarse_x = @ + 1]

(* Mutant: the other nametable follows the rows of the attributes too.     *)
increment_vert_v_switching(p) ==
  CASE p.fine_y < Fine - 1 -> [p EXCEPT !.fine_y = @ + 1]
    [] p.fine_y = Fine - 1 /\ p.coarse_y \in {Rows - 1, RowSlots - 1} ->
         [p EXCEPT !.fine_y = 0, !.coarse_y = 0, !.nt_y = 1 - @]
    [] OTHER -> [p EXCEPT !.fine_y = 0, !.coarse_y = @ + 1]

increment_vert_v(p) ==
  CASE p.fine_y < Fine - 1 -> [p EXCEPT !.fine_y = @ + 1]
    [] p.fine_y = Fine - 1 /\ p.coarse_y = Rows - 1 ->
         [p EXCEPT !.fine_y = 0, !.coarse_y = 0, !.nt_y = 1 - @]
    [] p.fine_y = Fine - 1 /\ p.coarse_y = RowSlots - 1 ->
         [p EXCEPT !.fine_y = 0, !.coarse_y = 0]
    [] OTHER -> [p EXCEPT !.fine_y = 0, !.coarse_y = @ + 1]

hori_v_equals_hori_t(v, t) == [v EXCEPT !.coarse_x = t.coarse_x, !.nt_x = t.nt_x]
vert_v_equals_vert_t(v, t) ==
  [v EXCEPT !.fine_y = t.fine_y, !.nt_y = t.nt_y, !.coarse_y = t.coarse_y]

-----------------------------------------------------------------------------
(* The beam: init_events, and the events and the delayed read of tick.     *)

IncVertDot == Columns * TileDots
HoriDot == IncVertDot + 1
IncHorizDots ==
  {TileDots * tile : tile \in 1 .. Columns} \union {Prefetch + TileDots, Prefetch + 2 * TileDots}

Visible == Rows * Fine
Rendered(line) == line < Visible \/ line = PreRender

AfterEvents(v, t, line, dot) ==
  LET h == IF dot \in IncHorizDots THEN increment_horiz_v(v) ELSE v
      y == IF dot = IncVertDot THEN increment_vert_v(h) ELSE h
      c == IF dot = HoriDot THEN hori_v_equals_hori_t(y, t) ELSE y
  IN IF line = PreRender /\ dot \in CopyDots THEN vert_v_equals_vert_t(c, t) ELSE c

Moved(v, scrolling) ==
  IF scrolling THEN increment_vert_v(increment_horiz_v(v))
               ELSE increment_v(v, vram_increment)

(* One dot further.  A frame changes its parity at its end, and an odd one *)
(* that is rendered ends a dot early.                                      *)
Advance(skipping) ==
  LET ends == \/ x = Width - 1
              \/ skipping /\ is_odd_frame /\ scanline = PreRender /\ x = Width - 2
      wraps == ends /\ scanline = PreRender
  IN /\ dots < 3 /\ dots' = dots + 1
     /\ x' = IF ends THEN 0 ELSE x + 1
     /\ scanline' = IF wraps THEN 0 ELSE IF ends THEN scanline + 1 ELSE scanline
     /\ is_odd_frame' = (is_odd_frame # wraps)

Tick ==
  /\ transfer = 0
  /\ Advance(rendering)
  /\ LET scrolling == rendering /\ Rendered(scanline')
         v == IF scrolling THEN AfterEvents(ir.v, ir.t, scanline', x') ELSE ir.v
     IN ir' = [ir EXCEPT !.v = IF pending_2007_read_delay = 1 THEN Moved(v, scrolling) ELSE v]
  /\ pending_2007_read_delay' =
       IF pending_2007_read_delay > 0 THEN pending_2007_read_delay - 1 ELSE 0
  /\ UNCHANGED <<vram_increment, rendering, transfer>>

(* update_beam: no event of the dot is run, and no delayed read.  The odd  *)
(* frame's dot is skipped when both layers are on, which rendering does    *)
(* not tell.                                                               *)
UpdateBeam ==
  /\ transfer > 0
  /\ Advance(FALSE) \/ Advance(rendering)
  /\ UNCHANGED <<ir, vram_increment, rendering, pending_2007_read_delay, transfer>>

-----------------------------------------------------------------------------
(* The CPU: get2 and set2.  A cycle of a sprite transfer reads at most,    *)
(* when the channel's DMA repeats the read the CPU was about to do.        *)

CycleEnds == dots = 3 /\ dots' = 0 /\ UNCHANGED beamVars
AnyCycle == CycleEnds /\ transfer' = IF transfer > 0 THEN transfer - 1 ELSE 0
CpuCycle == CycleEnds /\ transfer = 0 /\ UNCHANGED transfer

SetsIr == CpuCycle /\ UNCHANGED <<vram_increment, rendering, pending_2007_read_delay>>

NoAccess ==
  AnyCycle /\ UNCHANGED <<ir, vram_increment, rendering, pending_2007_read_delay>>

WriteControl(nametable, inc) ==
  /\ CpuCycle
  /\ vram_increment' = inc
  /\ ir' = [ir EXCEPT !.t.nt_x = nametable % 2, !.t.nt_y = nametable \div 2]
  /\ UNCHANGED <<rendering, pending_2007_read_delay>>

(* A write of $2001, when it takes effect. *)
SetRendering ==
  /\ CpuCycle
  /\ rendering' = ~rendering
  /\ UNCHANGED <<ir, vram_increment, pending_2007_read_delay>>

(* A number of reads of $2007 on the line the registers see, and perhaps   *)
(* one of $2002.                                                           *)
Reads(reads, line, status) ==
  LET waits == reads > 0 /\ rendering /\ Rendered(line)
      moves == reads > 0 /\ ~waits
  IN /\ pending_2007_read_delay' = IF waits THEN ReadDelay ELSE pending_2007_read_delay
     /\ ir' = [ir EXCEPT !.v = IF moves THEN increment_v(@, reads * vram_increment) ELSE @,
                         !.w = @ /\ ~status]
     /\ UNCHANGED <<vram_increment, rendering>>

(* update_beam leaves the registers on the dot that is to run next.        *)
Seen ==
  IF transfer = 0 \/ x < Width - 1 THEN scanline
  ELSE IF scanline = PreRender THEN 0 ELSE scanline + 1

ReadStatus == AnyCycle /\ Reads(0, Seen, TRUE)

WriteScroll(coarse, fine) ==
  /\ SetsIr
  /\ ir' = IF ir.w THEN [ir EXCEPT !.t.coarse_y = coarse, !.t.fine_y = fine, !.w = FALSE]
                   ELSE [ir EXCEPT !.t.coarse_x = coarse % Columns, !.w = TRUE]

(* The low byte ends at two bits of coarse y; the high one clears the      *)
(* highest bit of fine y.                                                  *)
Low == Nametable \div 4

WriteAddress(byte) ==
  /\ SetsIr
  /\ LET n == Number(ir.t)
         high == PositionOf((byte * Low + (n % Low)) % AddressSize)
         low == PositionOf(n - (n % Low) + (byte % Low))
     IN ir' = IF ir.w THEN [v |-> low, t |-> low, w |-> FALSE]
                      ELSE [ir EXCEPT !.t = high, !.w = TRUE]

ReadData == AnyCycle /\ Reads(1, Seen, FALSE)

WriteData == SetsIr /\ ir' = [ir EXCEPT !.v = increment_v(@, vram_increment)]

(* run_oam_dma_with_dmc, in the place of a cycle of the CPU: it copies a   *)
(* page, of memory or of PPU registers, and its first cycle may repeat the *)
(* CPU's read as its later ones may.                                       *)
StartTransfer(page, repeated) ==
  /\ CycleEnds
  /\ transfer = 0 /\ transfer' \in Transfers
  /\ Reads((IF page = "registers" THEN PageReads ELSE 0) + (IF repeated = "$2007" THEN 1 ELSE 0),
           scanline, page = "registers" \/ repeated = "$2002")
=============================================================================
