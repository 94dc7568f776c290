------------------------------ MODULE Session ------------------------------
(***************************************************************************)
(* A session of the program: the window's thread (nes_vizia.rs) and the    *)
(* emulator's (launch_emulator, emulator.rs), the broadcast channel of     *)
(* commands between them, and the configuration file both use.             *)
(*                                                                         *)
(* The window's thread runs one handler at a time; the emulator's drains   *)
(* the channel, then runs a batch of cycles.  Of the channel's six         *)
(* switches for the sound one is modelled: the six are alike.  The game    *)
(* pad, the movie, the pacing of frames and the messages back to the       *)
(* window are left out.                                                    *)
(***************************************************************************)
EXTENDS Naturals, Sequences

CONSTANTS
  Roms,         \* the files that can be booted
  First,        \* the one the program starts with
  Default,      \* the one booted when none is selected, which need not exist
  Capacity,     \* messages the channel keeps
  Handlers      \* how many handlers the window runs

ASSUME SessionAssumption ==
  First \in Roms /\ Capacity \in Nat \ {0} /\ Handlers \in Nat

VARIABLES
  window,     \* the window's thread: its handler's progress and what it shows
  channel,    \* what the emulator has not received; lagged: it has missed a message
  config,     \* the file: what it says of the sound, and whether it can be parsed
  emulator,   \* the emulator's thread
  handled,    \* how many handlers have run
  asked,      \* history: the game last asked for by a message that was not dropped
  missed,     \* history: the kinds of the messages that were dropped
  raced       \* history: a game booted between a switch and its saving

sessionVars == <<window, channel, config, emulator, handled, asked, missed, raced>>

Game == Roms \union {Default}
Message ==
  [kind : {"Reboot"}, rom : Game] \union [kind : {"Pause", "Sound"}, value : BOOLEAN]
    \union [kind : {"Debug"}]

SessionTypeOK ==
  /\ window \in [pc : {"idle", "debug", "create", "write"}, is_paused : BOOLEAN,
                 all_enabled : BOOLEAN, selected : Game]
  /\ channel.queue \in Seq(Message) /\ Len(channel.queue) <= Capacity
  /\ channel.lagged \in BOOLEAN
  /\ config \in [sound : BOOLEAN, whole : BOOLEAN]
  /\ emulator \in [pc : {"new", "configure", "receive", "run", "dead"}, rom_info : Game,
                   running : Game, reboot : BOOLEAN, paused : BOOLEAN, sound : BOOLEAN]
  /\ handled \in 0 .. Handlers /\ asked \in Game /\ raced \in BOOLEAN
  /\ missed \subseteq {"Reboot", "Pause", "Sound", "Debug"}

(* main has read the configuration, which sets the window's switches.      *)
Init ==
  /\ config \in [sound : BOOLEAN, whole : {TRUE}]
  /\ window = [pc |-> "idle", is_paused |-> FALSE, all_enabled |-> config.sound,
               selected |-> Default]
  /\ channel = [queue |-> <<>>, lagged |-> FALSE]
  /\ emulator = [pc |-> "new", rom_info |-> First, running |-> First,
                 reboot |-> FALSE, paused |-> FALSE, sound |-> TRUE]
  /\ handled = 0 /\ asked = First /\ missed = {} /\ raced = FALSE

-----------------------------------------------------------------------------
(* The channel drops its oldest message for a new one when it is full.     *)

Dropped(queue) == IF Len(queue) = Capacity THEN {queue[1].kind} ELSE {}

Send(message) ==
  LET full == Len(channel.queue) = Capacity
      kept == IF full THEN Tail(channel.queue) ELSE channel.queue
      unasked == /\ "Reboot" \in Dropped(channel.queue)
                 /\ \A i \in 1 .. Len(kept) : kept[i].kind # "Reboot"
  IN /\ channel' = [queue |-> Append(kept, message), lagged |-> channel.lagged \/ full]
     /\ missed' = missed \union Dropped(channel.queue)
     /\ asked' = IF message.kind = "Reboot" THEN message.rom
                 ELSE IF unasked THEN emulator.rom_info ELSE asked

Nothing == UNCHANGED <<channel, asked, missed>>

-----------------------------------------------------------------------------
(* The window.                                                             *)

Handler ==
  /\ window.pc = "idle" /\ handled < Handlers
  /\ handled' = handled + 1
  /\ UNCHANGED <<emulator, raced>>

SelectRom ==
  /\ Handler
  /\ \E rom \in Roms : window' = [window EXCEPT !.selected = rom]
  /\ Nothing /\ UNCHANGED config

BootRom(rom) ==
  /\ Send([kind |-> "Reboot", rom |-> rom])
  /\ UNCHANGED config

PressReboot == Handler /\ BootRom(window.selected) /\ UNCHANGED window

PressRandom ==
  /\ Handler
  /\ \E rom \in Roms : BootRom(rom) /\ window' = [window EXCEPT !.selected = rom]

PressPause ==
  /\ Handler
  /\ window' = [window EXCEPT !.is_paused = ~@]
  /\ Send([kind |-> "Pause", value |-> ~window.is_paused])
  /\ UNCHANGED config

(* Mutant: the dump is asked for first.                                    *)
DumpThenPause ==
  /\ Handler
  /\ window' = [window EXCEPT !.is_paused = TRUE]
  /\ Send([kind |-> "Debug"])
  /\ UNCHANGED config

(* The emulator is paused before it dumps its state.                       *)
PressDebug ==
  /\ Handler
  /\ window' = [window EXCEPT !.is_paused = TRUE, !.pc = "debug"]
  /\ Send([kind |-> "Pause", value |-> TRUE])
  /\ UNCHANGED config

SendDebug ==
  /\ window.pc = "debug"
  /\ window' = [window EXCEPT !.pc = "idle"]
  /\ Send([kind |-> "Debug"])
  /\ UNCHANGED <<config, emulator, handled, raced>>

(* Mutant: the switch is not saved.                                        *)
SwitchOnly ==
  /\ Handler
  /\ window' = [window EXCEPT !.all_enabled = ~@]
  /\ Send([kind |-> "Sound", value |-> ~window.all_enabled])
  /\ UNCHANGED config

(* The message is sent, then the file is emptied and written again.        *)
PressSound ==
  /\ Handler
  /\ window' = [window EXCEPT !.all_enabled = ~@, !.pc = "create"]
  /\ Send([kind |-> "Sound", value |-> ~window.all_enabled])
  /\ UNCHANGED config

CreateConfig ==
  /\ window.pc = "create"
  /\ window' = [window EXCEPT !.pc = "write"]
  /\ config' = [config EXCEPT !.whole = FALSE]
  /\ Nothing /\ UNCHANGED <<emulator, handled, raced>>

WriteConfig ==
  /\ window.pc = "write"
  /\ window' = [window EXCEPT !.pc = "idle"]
  /\ config' = [sound |-> window.all_enabled, whole |-> TRUE]
  /\ Nothing /\ UNCHANGED <<emulator, handled, raced>>

Window ==
  \/ SelectRom \/ PressReboot \/ PressRandom \/ PressPause \/ PressDebug \/ SendDebug
  \/ PressSound \/ CreateConfig \/ WriteConfig

-----------------------------------------------------------------------------
(* The emulator.                                                           *)

EmulatorStep == UNCHANGED <<window, config, handled, asked, missed>>

(* A game that cannot be read ends the thread, and so does a configuration *)
(* that cannot be parsed.  The sound chip is kept from game to game, with  *)
(* its switches.                                                           *)
New ==
  /\ emulator.pc = "new"
  /\ emulator' = IF emulator.rom_info \in Roms
                 THEN [emulator EXCEPT !.pc = "configure", !.running = emulator.rom_info]
                 ELSE [emulator EXCEPT !.pc = "dead"]
  /\ EmulatorStep /\ UNCHANGED <<channel, raced>>

Configure ==
  /\ emulator.pc = "configure"
  /\ emulator' = IF config.whole THEN [emulator EXCEPT !.pc = "receive", !.sound = config.sound]
                                 ELSE [emulator EXCEPT !.pc = "dead"]
  /\ raced' = (raced \/ window.pc = "create")
  /\ EmulatorStep /\ UNCHANGED channel

After(e, message) ==
  CASE message.kind = "Reboot" ->
         [e EXCEPT !.reboot = TRUE, !.paused = FALSE, !.rom_info = message.rom]
    [] message.kind = "Pause" -> [e EXCEPT !.paused = message.value]
    [] message.kind = "Sound" -> [e EXCEPT !.sound = message.value]
    [] message.kind = "Debug" -> e

Receive ==
  /\ emulator.pc = "receive" /\ ~channel.lagged /\ channel.queue # <<>>
  /\ emulator' = After(emulator, Head(channel.queue))
  /\ channel' = [channel EXCEPT !.queue = Tail(@)]
  /\ EmulatorStep /\ UNCHANGED raced

(* Mutant: after missed messages the emulator starts from the newest.      *)
DrainedAnew ==
  /\ emulator.pc = "receive" /\ (channel.lagged \/ channel.queue = <<>>)
  /\ emulator' = [emulator EXCEPT !.pc = "run"]
  /\ channel' = [queue |-> IF channel.lagged THEN <<>> ELSE channel.queue, lagged |-> FALSE]
  /\ EmulatorStep /\ UNCHANGED raced

(* The drain ends with the channel empty, or with the error that tells of  *)
(* missed messages.                                                        *)
Drained ==
  /\ emulator.pc = "receive" /\ (channel.lagged \/ channel.queue = <<>>)
  /\ emulator' = [emulator EXCEPT !.pc = "run"]
  /\ channel' = [channel EXCEPT !.lagged = FALSE]
  /\ EmulatorStep /\ UNCHANGED raced

(* A reboot, a pause or a batch of cycles.                                 *)
Run ==
  /\ emulator.pc = "run"
  /\ emulator' = IF emulator.reboot THEN [emulator EXCEPT !.pc = "new", !.reboot = FALSE]
                                    ELSE [emulator EXCEPT !.pc = "receive"]
  /\ EmulatorStep /\ UNCHANGED <<channel, raced>>

Emulator == New \/ Configure \/ Receive \/ Drained \/ Run

Next == Window \/ Emulator

(* The threads run; the user need not press anything.                      *)
Fairness == WF_sessionVars(Emulator) /\ WF_sessionVars(SendDebug \/ CreateConfig \/ WriteConfig)

Spec == Init /\ [][Next]_sessionVars /\ Fairness

-----------------------------------------------------------------------------
(* Properties                                                              *)

Dead == emulator.pc = "dead"

(* However often a reboot is asked for, during a boot, a batch or a pause, *)
(* whatever else is asked for in between, and however many messages the    *)
(* channel drops, the game that runs in the end is the last one asked for  *)
(* by a message that was kept.                                             *)
LatestGameRuns == <>[](Dead \/ emulator.running = asked)

(* The state is dumped of an emulator that is paused ("Pause emulation     *)
(* before dumping state"), although the two are two messages, unless the   *)
(* channel dropped a pause: of other messages it may drop any.             *)
DumpsPaused ==
  [][Receive /\ Head(channel.queue).kind = "Debug"
       => emulator.paused \/ "Pause" \in missed]_sessionVars

(* In the end the emulator plays sound as the window's switch says, unless *)
(* a game booted between the switch and the saving of it or a switch was   *)
(* dropped, and is not paused behind a box that says it is not, unless a   *)
(* pause was dropped.                                                      *)
WindowIsRight ==
  <>[](\/ Dead
       \/ /\ raced \/ "Sound" \in missed \/ emulator.sound = window.all_enabled
          /\ emulator.paused => window.is_paused \/ "Pause" \in missed)

(* "Apply persisted channel toggles for each fresh emulator instance        *)
(* (including reboots)": a boot finds a configuration it can parse, so that *)
(* the thread ends for want of a game only.                                 *)
ConfigurationParses == Dead => emulator.rom_info \notin Roms
=============================================================================
