--------------------------- MODULE MCFrameCounter ---------------------------
(* The frame sequencer over power-ons and reboots into another game, with  *)
(* three observers: whether the read that armed the pending                *)
(* acknowledgement saw the flag, the cycles since the units were last      *)
(* clocked (counted to 3), and the cycles of the game (counted to the end  *)
(* of its first sequence, and as ended once it writes $4017).              *)
EXTENDS FrameCounterShort

CONSTANT Reboots    \* how many other games are loaded

VARIABLES seen, since, age, reboots

MCvars == <<vars, seen, since, age, reboots>>

MCInit == Init /\ seen = FALSE /\ since = 3 /\ age = 0 /\ reboots = 0

Observe ==
  /\ seen' = IF clear_pending' /\ phase = "cpu" /\ (ReadStatus \/ SpriteFetch)
             THEN flag' ELSE seen
  /\ since' = CASE phase = "cpu" -> since
                [] phase = "apu" /\ clocked' # "none" -> 0
                [] OTHER -> IF since < 3 THEN since + 1 ELSE 3
  /\ age' = CASE \E m \in Modes, inhibit \in BOOLEAN : WriteFrameCounter(m, inhibit) -> Steps4[6]
              [] ApuStep /\ age < Steps4[6] -> age + 1
              [] OTHER -> age

Reboot ==
  /\ reboots < Reboots
  /\ ResetState
  /\ seen' = FALSE /\ since' = 3 /\ age' = 0 /\ reboots' = reboots + 1

MCNext == (Next /\ Observe /\ UNCHANGED reboots) \/ Reboot

MCSpec == MCInit /\ [][MCNext]_MCvars /\ Fairness

(* A read that found the flag down never clears a flag raised after it:    *)
(* what an acknowledgement will clear, some read has returned.             *)
OnlyReadFlagCleared == clear_pending /\ flag => seen

(* The envelopes and length counters are clocked at most once in two       *)
(* cycles, however a $4017 write falls on the sequencer's own steps.       *)
ClocksApart ==
  [][phase = "apu" /\ clocked' # "none" => since >= 1]_MCvars

(* Every game, after power-on or a reboot, finds the sequencer at the      *)
(* start of the four-step sequence with interrupts enabled, whatever the   *)
(* game before it left: until it writes $4017 itself its units are clocked *)
(* at the steps of the table only, the flag is down until the fourth and   *)
(* the wire is driven at the fifth and the sixth.                          *)
GamesStartAlike ==
  [][ApuStep /\ age < Steps4[6] =>
       /\ \A i \in 1..6 : age' = Steps4[i] => clocked' = Units[i]
       /\ clocked' # "none" => \E i \in 1..6 : age' = Steps4[i]
       /\ flag' => age' >= Steps4[4]
       /\ age' \in {Steps4[5], Steps4[6]} => line']_MCvars
=============================================================================
