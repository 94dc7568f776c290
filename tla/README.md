# A verification project for CedNES

CedNES is a NES emulator in Rust. One thread advances a PPU, an APU, a DMA
engine and a 6502 in lockstep, one CPU cycle at a time (`Emulator::tick_one`,
`nes/src/emulator.rs`); a second thread is the window's and sends it commands.
The second thread is the smaller part of what is concurrent here. Each part of
the emulator is a state machine with delays and latches of its own, and games
depend on what happens when a register access of the CPU falls on a particular
cycle of another part's delay. A unit test runs one such alignment; the modules
here run all of them.

## The system

| Component | State | Operations | Talks to |
|---|---|---|---|
| Delta modulation channel (`apu/dmc.rs`) | timer, bit counter, one-byte buffer, bytes left, DMA request, delays of start, stop and implicit stop | `$4010`-`$4015` writes, `step`, `dma_cycle`, `finish_sample_fetch` | asks the emulator to halt the CPU and to read the bus |
| Frame sequencer (`apu/mod.rs`) | divider, step, mode, delayed `$4017` write, interrupt flag, wire and pending acknowledgement | `$4017` write, `$4015` read, `step`, `reset_state` | clocks the channels, drives the CPU's interrupt line |
| Pulse, triangle, noise (`apu/*.rs`) | length counters, envelopes, sweep | register writes, clocks of the sequencer | `$4015` |
| CPU interrupts (`cpu2.rs`, `nes_memory.rs`) | request, polls, latched vector, sequence under way; NMI line, delay, cancellation | `tick`, `irq`, `clear_irq`, `nmi`, `cancel_nmi`, `$2000`, `$2002` | PPU, mappers and Apu raise the lines |
| Instruction execution (`cpu2.rs`, `addressing_type.rs`, `constants.rs`) | registers, flags, cycle of the instruction, operand latches | `tick`: one arm for each opcode and cycle; `save_state`, `restore_state` | the bus |
| Older CPU (`cpu.rs`) | registers and flags | `step`: a whole instruction | the bus |
| Bus and memory (`nes_memory.rs`) | RAM, open bus, scheduled sprite DMA | `get`, `set` | everything |
| Sprite DMA (`emulator.rs`) | scheduled page, cycles of work left, alignment | `run_oam_dma_with_dmc` | interleaves with the channel's transfers, moves the beam |
| PPU: beam (`ppu2.rs`, `ppu_mask.rs`) | dot and line, VBL, delayed mask, seed of OAM corruption | `tick`, `update_beam`, `$2000`-`$2002` | NMI line, mapper hooks |
| PPU: sprites (`ppu2.rs`) | OAMADDR, secondary OAM, evaluation, latches of the next line | `tick`, `$2003`, `$2004` | the mask; sprite DMA moves the beam past it |
| PPU: scroll (`internal_registers.rs`, `ppu2.rs`) | `v`, `t`, `w`, delayed `$2007` read | `tick`, `$2000`, `$2002`, `$2005`-`$2007` | the beam |
| Mappers (`mappers/*.rs`) | bank registers, shift register, counters | writes, `on_scanline`, `on_cpu_cycle` | interrupt pulse |
| Controllers (`joypad.rs`) | strobe, buttons, index | write, read, `on_put_edge` | CPU phase, DMA reads |
| Emulator thread (`emulator.rs`) | game, pause, reboot, sound switches | message loop of `launch_emulator` | window by a broadcast channel |
| Window (`nes_vizia.rs`, `config_file.rs`) | what it shows, the configuration file | handlers of buttons and boxes | sends commands, writes the file the other thread reads |

### What makes each part correct, and what is hard

* **Channel.** One transfer at a time, no byte overwritten or delivered after
  a stop, the CPU halted for a bounded time. Hard: a stop takes effect four or
  five cycles after its write, a load starts two or three cycles after its
  write, a reload may be asked for in between, and latches that belong to one
  transfer must not survive into the next.
* **Sequencer.** Flag, wire, enable and pending acknowledgement are four bits
  changed at five places; a write takes effect three or four cycles late, in
  the middle of the sequence it replaces; a reboot keeps the chip, and the next
  game must find it as power-on leaves it.
* **Interrupts.** Two interrupt kinds, three latches of what was polled, a
  hijack of one sequence by the other, and a cancellation that may come at any
  of these points. Each NMI is serviced once or cancelled; a masked or
  acknowledged IRQ is not serviced; a level that stays is.
* **Instructions.** Each opcode comes to what the instruction does, in the
  table's cycles, one access a cycle. Hard: the arms of `tick` are written once
  per opcode and cycle, operands wait in latches between ticks, some ticks do
  not count, and interrupts and DMA come between any two.
* **Sprite DMA.** 513 or 514 cycles that interleave with the channel's
  transfers and keep the get/put phase.
* **Beam.** VBL is set, read and suppressed within three dots of each other;
  mask bits reach the renderer with different delays.
* **Sprites.** Four indices into three arrays run over 192 dots of a line,
  started on one dot if rendering is on then and used on the others if it is on
  there; the CPU moves one of them, and a transfer skips dots.
* **Scroll.** `t` is written in halves while the beam copies parts of it and
  moves `v` past two different ends of a nametable; a sprite transfer moves the beam
  and not `v`.
* **Mappers.** Sequences of writes that must survive interruption, banks that
  must lie in any cartridge, counters that must keep coming.
* **Session.** Messages pile up during boots and batches, the channel drops
  its oldest ones, and a file is shared without a lock.

`PROJECT.json` lists the hazards, each at its line.

## Modules and the code

A step of most modules is a step of the loop in `tick_one`: each cycle runs
the PPU's three dots, the Apu, one cycle of DMA and one of the CPU, in this
order. The modules cut that loop where parts talk to each other and keep the
order of what is left. Outside `Cpu2` the CPU is never one program: it is any
sequence of accesses on any cycles, restricted only by what the code restricts.

| Module | Models | State and actions |
|---|---|---|
| `Dmc` | `apu/dmc.rs` | The channel as a record and its methods as operators on it, named as in the code (`WriteControl` is `enable`/`disable` of `$4015`, `Step`, `DmaCycle`, `FinishSampleFetch`). A sample byte is abstracted to whether one is buffered. |
| `SampleStream` | what the channel promises | Bytes are asked for one at a time, delivered in order, played, and none arrives after a stop. |
| `DmcCycle` | `tick_one` with the channel | One action per step of the cycle; the CPU is a sequence of instructions, each a pattern of reads and writes: those `pending_is_write` reports, and those it does not list. |
| `FrameCounter`, `FrameCounterShort` | `apu/mod.rs` | The sequencer and its reset at a reboot; the tables of steps are parameters, the second module gives short ones. |
| `NmiLine` | `nes_memory.rs` | The NMI request of `$2000` and `$2002` as operators on a record. |
| `NmiSource` | what the PPU promises the CPU | The abstract source of NMIs: VBL set, suppressed or cleared on any dot, and the accesses of the CPU. |
| `CpuInterrupts` | `cpu2.rs` with `NmiSource` | Polling, servicing, hijack and cancellation, for instructions as their ticks, with the DMA cycles (`Stall`) that repeat a read or copy registers. |
| `Operands` | `constants.rs` | `OPERANDS_6502`, row by row. |
| `Alu` | the arithmetic of `cpu2.rs` | What an instruction does to registers and flags, given its operand. |
| `CpuSteps` | the arms of `Cpu2::tick` | The steps instructions are made of: accesses, latches, page crossings, the stack, each as an operator on the struct. |
| `Cpu2` | `cpu2.rs` | Which steps make each opcode and when a step does not count; `OneCycle`, an interrupt at a boundary, a hijack, a DMA cycle, save and restore. |
| `Cpu` | `cpu.rs` | The older processor: an instruction in one action, with its own addressing, arithmetic and counting of cycles. |
| `PpuBeam` | `ppu2.rs`, `ppu_mask.rs`, `nes_memory.rs` | The beam dot by dot, VBL, the delayed mask, the seed of OAM corruption, and the sprite transfers that move the beam. Implements `NmiSource`. |
| `Sprites` | `ppu2.rs` | A line's clearing, evaluation and fetching of sprites dot by dot, the sprites beyond the eighth that the emulator adds, rendering turned off and on, `$2003`, `$2004` and the beam moved by a transfer. |
| `Scroll` | `internal_registers.rs`, `ppu2.rs`, `nes_memory.rs` | `v`, `t` and `w` under the events of the beam, under each register's access, and under sprite transfers, which move the beam by `update_beam` and may repeat or copy reads of registers. |
| `SpriteDma` | `run_oam_dma_with_dmc` | Extends `DmcCycle` with the cycles of a sprite transfer. |
| `MapperConfig`, `Bits` | `mappers/mapper_config.rs`, `mapper_base.rs` | The banks a cartridge shows, and the masking of a bank number. |
| `Mmc1`, `Mmc2`, `Mmc3`, `Mapper19` | `mappers/mapper_mmc1.rs` ... `mapper19.rs` | Each mapper's registers, and its writes, fetches and hooks as actions on them. |
| `SerialPort` | what the MMC1 promises | Five writes of a bit load one of four registers. |
| `LatchedBanks` | what the MMC2 promises | A fetch is served by the bank its latch picks, and may set the latch. |
| `Cartridge` | `mappers/mapper_base.rs`, `NesMemory::set`, the hooks of `Ppu2::tick` | One cartridge, of any board: the writes that reach it, the PPU's fetches, `Scanline` and `CpuCycle`. The boards with one bank register are written here. |
| `Session` | `nes_vizia.rs`, `launch_emulator`, `config_file.rs` | The window's handlers and the emulator's loop as two processes, with the broadcast channel and the file between them. |

`MC` modules add the observers a property needs and nothing else. Modules
ending in `Proofs` hold the theorems.

How they compose: `SpriteDma` extends `DmcCycle` extends `Dmc`, and `DmcCycle`
implements `SampleStream`. `CpuInterrupts` extends `NmiSource`, and `PpuBeam`
implements it: the CPU is checked against the source, which has no beam and few
states, and the beam is proved to be one. `Cpu2` extends `CpuSteps` extends
`Alu`, and implements `Cpu`, which shares nothing with them but the table: the
two are translations of two processors in the repository that were written
apart. `Cartridge` extends the mappers, which share the bank registers of
`MapperConfig`, and implements `SerialPort` and `LatchedBanks`.

### What the models leave out of the code they stand for

* **Instructions.** A tick that does not count runs in the cycle of the next,
  as `one_cycle` does it. The opcodes `JAM` have no arm and end at their fetch.
  The read that the tracing of `LDA (zp,X)` makes is left out, and so are
  latches that no later tick reads. `SBX` subtracts as a release build does.
  Decimal mode is not wired on the NES and the 65C02's table is not used.
  When an interrupt is detected is `CpuInterrupts`' subject: `Cpu2` may take one
  at every boundary. `dma_on_previous_cycle` stays set for the rest of an
  instruction, as in the code, where the unstable stores read it.
  `CyclesAgree` and `ImplementsCpu` name the opcodes on which the two processors
  differ (`Disputed`): `ANE`, `ARR`, `LXA`, `SBX`, `USBC`, `JAM` and `BRK`, and
  the stores `SHA`, `SHX`, `SHY` and `TAS`. For all others the two are compared,
  except a `JSR` whose push falls on its own operand (`OverItself`): the older
  processor reads the operand between the two halves of the push, the other one byte
  before and one after.
* **Interrupts.** A sprite transfer may read `$2002` and `$4015` on any of its
  cycles (`Copying`); the code makes all its reads on the first.
* **Sprites.** The pattern, column and attributes of a sprite are left out, and
  so are the corruption of OAM, whose seed is `PpuBeam`'s, and the dot an odd
  frame skips, which is `PpuBeam`'s too. An access of the CPU sees the line of
  the dot before it.
* **Scroll.** Contents of video memory, fine x and the fetches are left out; a
  change of rendering takes effect at once (its delays are `PpuBeam`'s). `rendering` is the
  background or the sprites, so that a transfer, which skips the odd frame's dot
  only for both, may skip it or not. The events a transfer passes are not run, as in the code.
* **Session.** The six switches of the sound are one. Frame pacing, the game
  pad, movies and the messages back to the window are left out.

## Runs

| Run | Question | Answer |
|---|---|---|
| `MCDmcCycle` | Does the channel keep one transfer at a time, stall the CPU for a bounded time and play the sample? | Yes. |
| `MCFrameCounter` | Is no flag lost unread, does the wire fall only when answered, are the units never clocked twice, and does each game find the sequencer as power-on leaves it, over writes and reboots on any cycle? | Yes; only the wire is left as it was. |
| `MCCpuInterrupts` | Is what is serviced asked for, and what is asked for serviced? | Yes. |
| `MCCpu2` | Does each opcode come to what the older processor computes, in the table's cycles and one access a cycle, whatever comes between its ticks? | Yes, beside the opcodes named in `Disputed`. |
| `MCSpriteDma` | Does a sprite transfer end and leave the channel by its own rules? | Yes. |
| `MCPpuBeam` | Are VBL, its suppression, mask writes and seeds of corruption never stale, whatever the alignment? | Yes, except that a transfer over the dot that clears VBL, or one that copies `$2002`, leaves them behind; the properties say so. |
| `MCSprites` | Does no index leave its array, does an undisturbed evaluation end in time, and does the next line show each sprite once? | Yes. |
| `MCScroll` | Is `v` where the beam is, in the scroll copied last, until something that may part them? | Yes. What may part them is a write of `$2006`, an access of `$2007`, and, at the dots that would have moved `v`, rendering turned off or a sprite transfer; the property names each. |
| `MCCartridge` | Is every read within the ROM, do serial port and latches keep their promises, and does the MMC3's interrupt, left enabled, come again and again? | Yes. |
| `MCSession` | Does the last game asked for run, is a dump made of a paused emulator, and does the window show what the emulator does? | Yes. When the channel overflows, the game is the last one asked for by a message that it kept; a dump may be of a running emulator only if a pause was dropped, and the window wrong only if a pause or a switch was. The switch of the sound may also be stale when a game booted between it and its saving. The properties say so. |
| `Cartridge_timer` | Can a program use mapper 19's interrupt? | No: its registers at `$5000` and `$5800` are at addresses the memory does not pass on. |
| `Session_config` | Does each boot apply the persisted switches? | Not one that reads the file while the window writes it: the parse fails and its `unwrap` ends the thread. |

The last two each check one statement of the repository and are expected to end in
a counterexample; `findings` in `PROJECT.json` quotes them.

### Other disagreements met

Each of these was met while a module was written. Where the model reaches it, it
follows the code; no run is spent on it.

* `tick_one`'s comment says an interrupt request is kept until it is
  acknowledged; a mapper's is dropped after one cycle (`emulator.rs:228`).
* The poll kept for the boundary is said to be the one before the final cycle;
  after a tick that does not count it is a later one (`cpu2.rs`).
* `pending_is_write` leaves out the stores to the zero page, which write on their
  third cycle, and the unofficial modifies, so a DMA may halt their writes
  (`cpu2.rs:191`). In `DmcCycle` a write of a register on such a cycle is `unseen`; one of
  the zero page is like a read.
* The frame flag raised while inhibited is said to be up for two cycles; a write
  between the steps leaves it up for longer (`apu/mod.rs`).
* `reset_state` leaves the frame interrupt's wire as it was (`apu/mod.rs:466`).
* After a sprite transfer the CPU is said to resume on a get; a transfer of the
  channel that outlives it leaves a put (`emulator.rs:443`).
* `save_state` and `restore_state` leave out the poll, the latched vector and
  the sequence under way (`cpu2.rs:2230`). Only tests call them.
* `run_oam_dma_with_dmc` reads the rendering state once and as both bits, where
  `tick` takes either (`emulator.rs:403`).
* CHR RAM is written at the address as it is and read through the banks
  (`mappers/mapper_base.rs:186`).
* A reload asked for while `reload_suppress` counts is dropped and asked for
  again a whole byte later (`apu/dmc.rs:244`).
* `boot_random_rom` without a game says it is "not booting a ROM" and boots
  `RomInfo::default()`; a reboot before a game is selected does so too. That file
  need not exist, and the thread ends.
* A reboot ends the pause of the emulator, not the mark in the window's box.
* `debug()` blocks the emulator's thread while messages arrive, and the channel
  drops the oldest ones.
* `increment_v` keeps 14 bits of a register described as having 15; a write of
  `$2007` while rendering moves `v` by it, which a TODO beside it doubts; and a
  second read of `$2007` within five dots restarts the delay of the first.

### Bounds

* **Channel.** `Rates = {12}`, `Bits = 2`: a byte plays for 24 cycles, longer
  than every delay (at most five cycles) plus a transfer (four) and shorter
  than two of them in a row with a stop between, so a boundary of the output
  unit falls on every cycle of a transfer. `Lengths = {1, 2}`: the last byte,
  where the implicit stop and the loop are, and one that is not the last.
* **Sequencer.** `Short4` and `Short5` keep the order and the closeness of the
  steps, with the last ones one cycle apart as in the code, and gaps longer
  than the delay of a write. `Reboots = 2`: the second meets what the first
  left.
* **Interrupts.** `VblGap = 8` cycles between two VBLs: longer than an
  interrupt sequence of seven, so at most one NMI waits, as in a frame of 29780.
* **Instructions.** Every opcode, on operands at the boundaries of signed and
  unsigned bytes (0, 127, 128, 255), pointers at 255 and elsewhere, index
  registers that cross a page and wrap the zero page and ones that do not, the
  stack pointer at both ends, both carries, at two places of which one has the
  operand on the next page. What is not an operand is a jump to the jump at
  `$4C4C`, so that a run goes on behind the instruction. Interrupts come around
  `BRK` and `NOP`; DMA cycles come within the stores that read their trace
  (`Stalled <- Unstable`).
* **Sprite DMA.** `Rates = {6}`, `Work = 15`, `Finish = 16`: the transfer is 15
  cycles of work for the code's 512, long enough for the channel to fetch in
  its middle and at both ends; the loop that finishes the channel's transfer is
  given the code's 16 cycles.
* **Beam.** `Width = 10` and five lines: 50 dots, 49 when a frame is shortened,
  which leave the same remainders by three as 89342 and 89341, so the CPU's
  cycle meets the beam in every alignment. `LastClear = 3` and `LastEval = 6`
  keep the dots of evaluation apart from both ends of the line. `Transfers =
  {12, 15}` moves the beam more than a line, to both parities of the skip.
* **Sprites.** Three sprites and two slots: one more than fits, so the search
  for a ninth and the list of the sprites beyond it both run, over positions
  that put each mixture on a line. `LastClear = 8`, `LastEval = 32` give the
  evaluation exactly the 12 steps that `EnoughDots` asks for (the code has 96
  and needs 91). `Span = 5` is the dot of a
  fetch's last effect, `Width = 45` leaves room for the fetches and the dots after them.
  `Disturbances = 1` before any dot, and a transfer that moves the beam counts as one.
* **Scroll.** Two columns and two rows of the four that coarse y counts, so the
  rows of the attributes are reached; two lines a tile, two dots a tile, and frames of either
  parity. Two changes at any cycles, which is one change that parts `v` from the
  beam and one that undoes it, or the two writes of one register. A transfer is a
  change and lasts nine cycles (`Transfers = {8}` after the first): 27 dots, which are
  almost two lines of 14, as the code's 1540 are four and a half of 341. `PageReads = 3` is the
  code's 32 reads of `$2007` in a page of registers, enough to wrap a row.
* **Cartridges.** One ROM for each board, of the smallest size whose banks can
  be told apart. A program writes one page for each register of its board and the few
  bytes that differ in the bits the register decodes; on mapper 19 they name
  banks the cartridge has, and the halves of its counter, which do not reach it. `Loadable = {2, 8, 17, 31}`
  sets and clears each bit of the MMC1's registers. `Half = 4` stands for the values
  of each of the two bytes that make mapper 19's counter (256 and 128). Only the pages
  that `NesMemory::set` passes on are `Delivered`. The registers of mapper 19's
  interrupt are not among them, as `Cartridge_timer` shows, so its counter never runs
  in a program and nothing is claimed of it.
* **Session.** `Capacity = 3` for the channel's 16 (it is created for 10, which
  tokio rounds up) and `Handlers = 5`: a channel that overflows by two messages
  before the first drain, and a switch, a pause and a reboot in every order.

### Fairness

The loop of the emulator thread never blocks while a game runs, so each module
with a liveness property assumes weak fairness of the loop's step (in `FrameCounter` of its two
halves, the CPU's being the one that ends the cycle). In `CpuInterrupts` a DMA
cycle may take the CPU's place, so that the CPU makes progress is strong fairness
of its own step; it is justified because every stall ends, which `StallBounded`
and `TransferEnds` check. In `Cartridge` the PPU keeps rendering, which is what runs the MMC3's hook. In `Session` the emulator's loop runs and a handler that has
begun ends; a handler need never begin. Nothing is assumed of the program or the user: a
property that needs one to leave something alone says so.

## Proofs

Each theorem is a theorem of the specification for every value of the
constants allowed by the named assumptions of its module: `DmcAssumption` (the
rates exclude 0 and 1; the code's are 54 to 428), `FrameCounterAssumption` (the
steps increase, those that clock the units and follow one that does are not on
consecutive cycles, and none is on the cycle after a restart),
`SpriteDmaAssumption`, `CpuInterruptsAssumption` (two changes of VBL are two
cycles apart at least; VBL lasts 20 lines in the code), `PpuBeamAssumption`,
`SpritesAssumption` (clearing reaches all of secondary OAM and leaves there a
position on no visible line) and `EnoughDots`, `ScrollAssumption` (the tiles of a line are
fetched before the dots that prefetch, a frame has fewer rows than coarse y
counts) and `MCScrollAssumption`, `RomsAssumption`, `LoadableAssumption`,
`Mapper19Assumption`, `CartridgeAssumption`, `Cpu2Assumption` (memory holds bytes, a run starts from registers of
their widths), `SessionAssumption`. One theorem has
a hypothesis of its own, `Fits`, which is explained below.

* **Channel** (`DmcCycleProofs`). `Good` is a property of the
  channel's record alone, and each operator of `Dmc` is shown to keep it: it
  relates the request, the transfer's stage, the delays and the latches.
  `LoopInv` adds the step of the loop. It is needed because a latch is owned by
  the transfer it was set for only if no step of the loop lies between the end of
  that transfer and its reset. The safety properties of `MCDmcCycle` other than
  `StallBounded` follow from it, and so does the refinement of `SampleStream`.
  `StallInv` proves `StallBounded`. A transfer lasts at most four cycles by its own count
  (`TransferCountsDown`), so what there is to show is that none follows it before
  the CPU has run: neither a reload (`NothingFollows`, by `reload_suppress` and the
  distance of two bytes) nor a transfer to be aborted. An abort is
  taken on the cycle that asks for it (`AbortIsFresh`), and an implicit stop
  finds no transfer in flight and comes before any explicit one
  (`ImplicitStopAlone`). So no transfer in flight is ever
  aborted: the branch of `apply_stop` for it is not reached by a program.
* **Sprite DMA** (`DmcCycleProofs`, its last part). `SpriteInv` carries `Good`
  through the cycles that the transfer runs outside the loop. `AlignInv` says that
  a put owed after a fetch is taken within two cycles, when the channel has no transfer or one
  that has just begun; `CostInv` counts, on top of it, two
  cycles for each fetch but the put still owed.
* **Sequencer** (`FrameCounterProofs`). The inductive invariant is `TypeOK`,
  `LineNeedsFlag`, `NoStepOverrun` and `BlockIsFresh`: the block of the divider
  must be known to be no older than the write that set it. Across reboots the
  line may outlive its flag (`reset_state` leaves it), so `RebootInv` asks of it
  that interrupts be enabled (`LineNeedsEnable`) and adds what was read since the
  flag rose; `ClockIsBlocked` says that a unit clocked on this cycle cannot be
  clocked on the next, because the write blocked it or because every step
  of the table is further away. `GameInv` is for `GamesStartAlike`: until a game first
  writes `$4017` the counter is the game's age and the step the first one not passed
  yet, no write waits, and the flag is down until the fourth step.
* **CPU interrupts** (`CpuProofs`, its first part). What is polled on one tick is
  serviced several ticks later, and `IInv` follows it there: what a branch or a
  hijack latched is still there (`LatchKept`), so is what the last poll saw unless a
  sequence consumed it on its last cycle (`SnapshotKept`), the two bytes of a
  vector are of one interrupt (`HalfFetched`), and an IRQ among these was seen
  unmasked (`PolledUnmasked`). An NMI may be taken back after it was asked for, so
  that nothing is lost needs more: the line is what VBL and its enable make it
  (`Level`), a fall that may still be taken back is no older than this cycle's
  VBL or the write that ended the instruction (`FallIsFresh`), and what takes it back
  falls between two instructions or on a read of `$2002` that a DMA repeats or a
  sprite transfer makes, never within a sequence (`CancelledOutside`).
* **Instructions** (`CpuProofs`, its second part). `Sound` is the invariant of
  the processor's record: its fields are typed (`Typed`), and an instruction
  under way has a step to take (`Midway`). A tick that is not counted is followed only
  by the end of a branch not taken, and the step that puts an
  address together from two bytes follows the one that reads the second. Each step is
  shown to make one access and to leave the tick's bookkeeping alone (`Accessed`), or
  to make none and say so, from any typed state; that every opcode is one the steps know
  is read off the table (`EveryOpcode`), and the last step of its sequence is
  one that ends it (`LastOf`). Memory is any function of the 16-bit addresses
  (`Cpu2Assumption`). What follows is that a tick that counts is one access
  (`CyclesAreAccesses`), which is what lets the loop of the emulator give each counted tick
  three dots of the PPU and one cycle of the Apu.
* **Refinement of the older CPU** (`CpuRefinementProofs`). `Cpu2ImplementsCpu` proves `ImplementsCpu` for
  every opcode, registers, flags, operand and memory, where the run takes boundary
  values. The two processors share the table only, so the first lemmas say operator by
  operator that they compute the same: loads, flags, sums, shifts, the stack, the addresses.
  An instruction in progress is described by a stage (`Reached`): what has
  been read so far, as a function of the registers and memory it started from, which
  `before` keeps. `Leads` lists which step takes which stage to which, and is
  proved once for each step, not for each opcode; `Concludes` lists the last steps, and
  each is proved to leave what the older processor does. Every sequence of steps in the table is a
  path of stages (`Passes`), found by the kind of its instruction. `Tracking`
  is the invariant that follows: the instruction in progress is the one at the
  program counter of `before` and has reached the stage its cycle names
  (`Follows`), or an interrupt in progress has pushed what its cycle says
  (`Entered`), whatever NMI hijacks it until its vector is read. A DMA or
  a save between two ticks leaves the stage as it is (`DmaTracks`, `RestoreSeen`). The last tick then leaves
  `Completed`. The theorem claims no more than `ImplementsCpu` does: the opcodes of `Disputed`,
  decimal arithmetic and a `JSR` over its own operand are outside `Agreed`.
* **Beam** (`PpuBeamProofs`). `IInv` adds to the types and `MaskFollowsWrite`
  where registers see the beam (`BeamSeen`) and that a seed waits for the disable
  of the write of this very cycle (`SeedAwaitsDisable`): the seed's three dots
  fit the line because evaluation ends four dots before it. `BeamIsSource` maps
  the beam's position to the dots since VBL. The proof that every operator on
  the NMI line commutes with the mapping makes up its first half.
  `VblFlagInBlank` numbers the dots of a frame by line and then by dot, and
  carries the flag from the dot that sets it to the one that clears it;
  `SuppressionFresh` shows that a suppression does not outlive the dot it is for.
* **Sprites** (`SpritesProofs`). `IInv` is `Typed`, `Fit`, `Steady` and `First`.
  `Typed` holds the indices in their ranges however rendering is switched between
  the dots that start and use them: each step of the evaluation is shown to keep
  them there from any state, not only from those a steady line reaches. `Fit` bounds
  the list of latches by the sprites there are. `Steady` is the
  argument that an undisturbed evaluation ends: each pair of dots does a unit of work, `Work` says how much of it the sprites
  passed and the slots filled account for, and `EnoughDots` leaves none over.
  `First` follows sprite zero from the step that finds it, by the first slot's
  source, which no later step overwrites.
  That the next line shows every sprite is one statement for each part of a line: clearing
  leaves 255 in what it passed (`Clearing`, the reason `SpritesAssumption` asks that it
  reaches all of secondary OAM); at a dot of the evaluation the slots begun hold the first
  sprites on the line among those passed (`Collected`, with `Begun` and `Passed` counting
  a sprite half copied); while the slots are fetched, the latches of those fetched show the
  slots that hold a sprite (`FetchedSoFar`). That the list beyond the slots
  holds the others in their order is a statement on ranks: `Nth(S, k)` is the number of
  `S` that `k` of them do not exceed; that there is one for each `k` up to the cardinality
  (`RankOnto`) follows from an injection, which stands for an induction over OAM. The list never meets
  its limit, because the slots passed leave room for all the sprites beyond them.
* **Scroll** (`ScreenProofs`, its first part). `BeamInv` is `Typed`, `Across` and `Down`: until something parts
  them, `v` is the scroll copied last, moved by as many columns as the line has
  dots that move it so far (`Across`) and by as many lines as there were
  (`Down`). A dot that a transfer passes leaves `v` alone, which keeps both unless the dot
  would have moved it, and then `ObserveDot` forgets what was copied. The lemmas on `IR` show that each event moves `v` by one column or
  one line of a plane of two by two nametables and keeps the other coordinate
  (`ColumnMoved`, `LineMoved`), on both sides of the ends the code treats apart;
  what the property counts as a set of dots is counted by its cardinality, which
  grows by one at each dot that is in it.
* **Mappers** (`MapperProofs`). `MapperInv` keeps the registers of the MMC1 within
  their widths, and says of an MMC2 that the banks shown are those its latches
  pick or that the next fetch updates them. A write of the MMC1 is a step of
  `SerialPort` because the number received is the part of the shift register
  above its marker bit, which `ShiftBit` follows through each of the five counts.
  `BanksInv` adds that every slot of every board shows a bank the ROM has, and
  `ReadsStayInRom` follows: a mask of one less than the count keeps at most
  that (`And` is proved so bit by bit), the MMC1 reduces modulo the count, and the
  second bank of a pair of its 4 KB CHR banks exists because their count is even. `Fits` is the hypothesis that the cartridge holds the banks its board
  shows. It is needed twice: boards of 32 KB banks with 16 KB of PRG have no second half,
  and mapper 19 reads CHR below bank 224 without the modulo it uses elsewhere
  (`mapper19.rs:83`). Every ROM of `MCCartridge` satisfies it.
* **Session** (`ScreenProofs`, its second part). A dump is made of a paused emulator because the
  message before it in the channel is a pause, or it is the first and the emulator
  is paused (`DumpsFollowPause`); while the window is between the two sends, the
  pause is the last message (`PauseIsLast`). A full channel may break the pair by dropping the
  pause, and `missed` says so; whatever other messages it drops, the pair is received in order.

Proved and not among the runs' properties: the types, `LatchesOwned`,
`ActiveOnlyByEnable`, `NoStepOverrun`, `NoStepSwallowed`, `LineNeedsFlag` and the
channel's invariant of the loop.

Model-checked only:

* liveness (`BufferRefilled`, `FrameIrqRepeats`, `NmiServiced`, `LevelServiced`,
  `TransferEnds`, `ScanlineIrqRecurs`, `LatestGameRuns`,
  `WindowIsRight`), which is out of the prover's reach like every use of `ENABLED`;
* `CyclesAgree`: that the steps of each documented opcode are as many as the older
  processor's table and page crossings say, which TLC compares opcode by opcode.

No module has a RECURSIVE operator.

## Not modelled

* Pixels, palettes, patterns, video memory, samples and colours are data no
  property tells apart. Fields that are written and never read
  (`nmi_suppressed`, `vbl_cleared_at_dot1`, the `vbl` of a tick's result) are left out.
* The pulse, triangle and noise channels count down what a write loads; when
  they are clocked is `FrameCounter`'s.
* The controllers' strobe and index change at three places and wait for nothing.
* The audio device's thread runs by a clock outside the program.
* Parsing of ROMs, movies and labels, the layout of the window, the other front
  end (`minifb.rs`), the body of the debugger and the logs keep no state that
  another part depends on.
* `app.rs`, `ppu.rs`, `pattern.rs`, `vizia.rs`, `iced.rs`, `style.rs`,
  `sprite.rs` and `compare_logs.rs` are declared by no module of the program, so
  no build contains them.

## Plan

1. Lemmas on `Alu` against the arithmetic they abbreviate: sum, difference and
   comparison as signed and unsigned numbers.
2. The safety halves of what is only model-checked: that a message the channel
   did not drop is handled once, and that the emulator keeps the order of the
   window's clicks.
3. The controllers against the reads that a DMA repeats, and the length counters
   against the delayed writes of `$4017`.
