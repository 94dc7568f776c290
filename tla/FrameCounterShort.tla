------------------------- MODULE FrameCounterShort -------------------------
(* Step tables for model checking, at a scale at which every step is still *)
(* reached after the reset delay and at which, as in the source, the last  *)
(* three steps of four-step mode and the last two of five-step mode fall   *)
(* on consecutive cycles.                                                  *)
EXTENDS FrameCounter

Short4 == <<3, 6, 9, 12, 13, 14>>
Short5 == <<3, 6, 9, 12, 15, 16>>
=============================================================================
