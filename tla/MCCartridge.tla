---------------------------- MODULE MCCartridge -----------------------------
(* One cartridge of each kind, or two where its size matters.              *)
EXTENDS Cartridge, TLC

LOCAL Cart(board, prg, chr) ==
  [board |-> board, prg |-> prg, chr |-> chr, mirroring |-> "vertical"]

MCRoms ==
  { Cart("nrom", 16, 8), Cart("nrom", 32, 8),
    Cart("mmc1", 64, 32), Cart("mmc1", 32, 8),
    Cart("uxrom", 64, 8), Cart("uxrom", 96, 8),
    Cart("cnrom", 32, 32),
    Cart("mmc3", 64, 32),
    [Cart("mmc3", 32, 8) EXCEPT !.mirroring = "four_screen"],
    Cart("axrom", 128, 8), Cart("gxrom", 64, 16), Cart("gxrom", 32, 8),
    Cart("mmc2", 64, 32),
    Cart("m19", 64, 256) }

MCMapper19 == { Cart("m19", 64, 256) }

(* One page of each register.  MMC1: a bit and a reset.  MMC3: selections  *)
(* of R0, R2 and R6 in different modes, which are also the banks written.  *)
(* Mapper 19: banks of the ROM and of its RAM, and counter halves with and *)
(* without the enabling bit, which do not reach it.                        *)
MCBytes ==
  LET On(pages, bytes) == [pg \in pages |-> bytes]
  IN [b \in Boards |->
       CASE b = "mmc1" -> On({12, 16, 20, 24, 28}, {0, 1, 128})
         [] b = "mmc2" -> On({16, 20}, {5}) @@ On({22, 24, 26, 28}, {1, 6}) @@ On({30}, {0, 1})
         [] b = "mmc3" -> On({12}, {0}) @@ On({16}, {2, 64, 134, 198}) @@ On({20}, {0, 1})
                            @@ On({24}, {0, 2}) @@ On({28}, {0})
         [] b = "m19" -> On({10}, {1, 2}) @@ On({11}, {3, 128}) @@ On({9, 31}, {0})
                           @@ On({16, 20, 24}, {3, 225}) @@ On({28}, {9}) @@ On({29}, {65, 130})
         [] OTHER -> On({12, 16}, {0, 3, 18, 49})]

VARIABLE asked  \* whether the last write of $5800 asked for the interrupt

MCInit == Init /\ asked = FALSE

MCNext ==
  \/ \E pg \in DOMAIN Bytes[rom.board] : \E odd \in BOOLEAN, data \in Bytes[rom.board][pg] :
       /\ CpuWrite(pg, odd, data)
       /\ asked' = IF pg = 11 THEN data >= 128 ELSE asked
  \/ ReadOrHook /\ UNCHANGED asked

MCSpec == MCInit /\ [][MCNext]_<<vars, asked>> /\ Fairness

(* Mapper 19's interrupt is enabled exactly when the program's last write  *)
(* of its counter's high half says so.                                     *)
TimerFollowsProgram == m19.irq_enabled = asked
=============================================================================
