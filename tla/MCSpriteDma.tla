---------------------------- MODULE MCSpriteDma ----------------------------
(* Sprite DMA with an observer of each transfer: the cycles it has kept    *)
(* the CPU off the bus beyond its work, and the channel's fetches in it.   *)
EXTENDS SpriteDma

VARIABLES extra, fetches

MCSpriteVars == <<spriteVars, extra, fetches>>

MCSpriteInit == SpriteInit /\ extra = 0 /\ fetches = 0

ObserveTransfer ==
  IF phase = "oam_dma"
  THEN /\ extra' = extra + (IF work_left' = work_left THEN 1 ELSE 0)
       /\ fetches' = fetches + (IF DmaCycle(dmc, FALSE).action = "SampleFetch" THEN 1 ELSE 0)
  ELSE IF phase = "dma" THEN extra' = 0 /\ fetches' = 0
  ELSE UNCHANGED <<extra, fetches>>

MCSpriteNext == SpriteNext /\ ObserveTransfer

MCSpriteSpec == MCSpriteInit /\ [][MCSpriteNext]_MCSpriteVars /\ SpriteFairness

(* No fetch catches the transfer with a put of the previous one still      *)
(* owed: each costs its own cycle and one put, the last put excepted.      *)
CostAccounted ==
  phase \in {"oam_dma", "oam_apu", "finish"} => extra = 2 * fetches - align_puts
=============================================================================
