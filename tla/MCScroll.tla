------------------------------ MODULE MCScroll ------------------------------
(* The scroll over whole frames against a program that changes it at any   *)
(* cycle, with an observer of what the beam copied from t last.            *)
EXTENDS Scroll, FiniteSets

CONSTANTS
  Scrolls,      \* what t holds at first
  Coarse,       \* what is written: coarse and fine scrolls,
  FineYs,
  Nametables,   \* nametables
  Addresses,    \* and halves of addresses
  Changes       \* how often the program changes a register

ASSUME MCScrollAssumption ==
  /\ Scrolls \subseteq Position
  /\ Coarse \subseteq 0 .. RowSlots - 1 /\ FineYs \subseteq 0 .. Fine - 1
  /\ Nametables \subseteq 0 .. 3 /\ Addresses \subseteq Nat

VARIABLES
  hori,         \* the horizontal bits copied last, None when v has been moved since
  vert,         \* the vertical bits copied in this frame, or None
  changed

MCvars == <<vars, hori, vert, changed>>

None == [coarse_y |-> RowSlots]

(* The frame after a program has set the scroll and turned rendering on.   *)
MCInit ==
  /\ \E t \in Scrolls : ir = [v |-> t, t |-> t, w |-> FALSE]
  /\ vram_increment = 1 /\ rendering = TRUE /\ pending_2007_read_delay = 0
  /\ scanline = Visible /\ x = 0 /\ is_odd_frame \in BOOLEAN
  /\ dots \in 0 .. 3 /\ transfer = 0
  /\ hori = None /\ vert = None /\ changed = 0

EventDots == IncHorizDots \union {HoriDot}

(* A dot whose events are not run, because rendering is off or because a   *)
(* sprite transfer passes it, and the delayed move of a read part v from   *)
(* what was copied.                                                        *)
ObserveDot ==
  LET scrolling == rendering /\ transfer = 0 /\ Rendered(scanline')
      missed == ~scrolling /\ Rendered(scanline')
      moved == transfer = 0 /\ pending_2007_read_delay = 1
  IN /\ Tick \/ UpdateBeam
     /\ hori' = IF moved \/ (missed /\ x' \in EventDots) THEN None
                ELSE IF scrolling /\ x' = HoriDot THEN ir.t
                ELSE hori
     /\ vert' = IF moved \/ (missed /\ x' = IncVertDot) THEN None
                ELSE IF scanline' = PreRender /\ x' = 0 THEN None
                ELSE IF scrolling /\ scanline' = PreRender /\ x' \in CopyDots THEN ir.t
                ELSE vert
     /\ UNCHANGED changed

Change ==
  /\ changed < Changes
  /\ changed' = changed + 1

Keeping == UNCHANGED <<hori, vert>>
KeepingUnlessMoved == IF ir'.v = ir.v THEN Keeping ELSE hori' = None /\ vert' = None

MCNext ==
  \/ ObserveDot
  \/ NoAccess /\ UNCHANGED <<hori, vert, changed>>
  \/ \E nametable \in Nametables, inc \in {1, Columns} :
       WriteControl(nametable, inc) /\ Change /\ Keeping
  \/ SetRendering /\ Change /\ Keeping
  \/ ReadStatus /\ Change /\ Keeping
  \/ \E coarse \in Coarse, fine \in FineYs : WriteScroll(coarse, fine) /\ Change /\ Keeping
  \/ \E byte \in Addresses :
       WriteAddress(byte) /\ Change /\ IF ir.w THEN hori' = None /\ vert' = None ELSE Keeping
  \/ ReadData /\ Change /\ KeepingUnlessMoved
  \/ WriteData /\ Change /\ hori' = None /\ vert' = None
  \/ \E page \in {"memory", "registers"}, repeated \in {"none", "$2002", "$2007"} :
       StartTransfer(page, repeated) /\ Change /\ KeepingUnlessMoved

MCSpec == MCInit /\ [][MCNext]_MCvars

MCScrolls ==
  {[fine_y |-> Fine - 1, nt_y |-> 1, nt_x |-> 0, coarse_y |-> row, coarse_x |-> Columns - 1] :
     row \in 0 .. RowSlots - 1}

-----------------------------------------------------------------------------
(* Where the beam is, in tiles and lines since the bits were copied.       *)

TypeOK ==
  /\ ir.v \in Position /\ ir.t \in Position
  /\ scanline \in 0 .. PreRender /\ x \in 0 .. Width - 1 /\ dots \in 0 .. 3
  /\ pending_2007_read_delay \in 0 .. ReadDelay
  /\ is_odd_frame \in BOOLEAN /\ transfer \in {0} \union UNION {0 .. n : n \in Transfers}

Tiles ==
  IF x >= HoriDot THEN Cardinality({dot \in IncHorizDots : HoriDot < dot /\ dot <= x})
  ELSE 2 + Cardinality({dot \in IncHorizDots : dot <= x})

Lines ==
  IF scanline = PreRender THEN 0 ELSE scanline + IF x >= IncVertDot THEN 1 ELSE 0

(* Two nametables side by side.                                            *)
Column(start, tiles) == (start.nt_x * Columns + start.coarse_x + tiles) % (2 * Columns)

(* Two nametables, one above the other; a scroll into the attributes walks *)
(* through them first and ends at the top of the same nametable.           *)
Line(start, lines) ==
  LET first == start.coarse_y * Fine + start.fine_y
      attributes == IF first < Visible THEN 0 ELSE RowSlots * Fine - first
      from == IF first < Visible THEN first ELSE 0
  IN IF lines < attributes THEN [nt_y |-> start.nt_y, line |-> first + lines]
     ELSE LET line == start.nt_y * Visible + from + lines - attributes
          IN [nt_y |-> (line \div Visible) % 2, line |-> line % Visible]

(* At every dot of a rendered line the tile is that of the beam in the     *)
(* scroll the program set, however it is changed meanwhile through $2000   *)
(* and $2005: a line keeps the horizontal scroll it began with and a frame *)
(* its vertical one.  Only $2006, $2007, rendering turned off and a sprite *)
(* transfer while rendering part v from the beam, each only at the dots    *)
(* that would have moved v, until the bits are copied again.               *)
ScrollFollowsBeam ==
  Rendered(scanline) =>
    /\ hori # None => Column(ir.v, 0) = Column(hori, Tiles)
    /\ vert # None => Line(ir.v, 0) = Line(vert, Lines)
=============================================================================
