---------------------------- MODULE LatchedBanks ----------------------------
(***************************************************************************)
(* What the MMC2 promises the PPU: each half of the pattern tables has two *)
(* banks and a latch that picks one; a fetch is served by the bank picked  *)
(* when it is made, and a fetch of a trigger tile sets the latch of its    *)
(* half for the fetches after it.                                          *)
(***************************************************************************)
EXTENDS Bits

Sides == {"left", "right"}

VARIABLES
  size,    \* how many banks the cartridge has
  page,    \* the two banks of each half
  latch,   \* which of them is picked
  fetched  \* the half, the tile and the bank of the last fetch

banks == <<page, latch, fetched>>

Init ==
  /\ page = [s \in Sides |-> [v \in 0..1 |-> 0]]
  /\ latch = [s \in Sides |-> 1]
  /\ fetched = [side |-> "left", tile |-> "other", bank |-> 0]

Fetch(s, tile) ==
  /\ fetched' = [side |-> s, tile |-> tile, bank |-> Masked(page[s][latch[s]], size)]
  /\ latch' = CASE tile = "fd" -> [latch EXCEPT ![s] = 0]
                [] tile = "fe" -> [latch EXCEPT ![s] = 1]
                [] tile = "other" -> latch
  /\ UNCHANGED page

SetPage(s, v) ==
  /\ page'[s][v] \in 0..31
  /\ page' = [page EXCEPT ![s][v] = page'[s][v]]
  /\ UNCHANGED <<latch, fetched>>

Next ==
  \E s \in Sides :
    \/ \E tile \in {"fd", "fe", "other"} : Fetch(s, tile)
    \/ \E v \in 0..1 : SetPage(s, v)

Spec == Init /\ [][Next]_banks
=============================================================================
