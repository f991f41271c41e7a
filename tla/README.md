# Rusty2600, specified

TLA+ models of Rusty2600, an Atari 2600 emulator in Rust, with TLC runs and
TLAPS proofs. The modules are translated from the code under `src/`; the `map`
of `PROJECT.json` says which lines each definition stands for.

## 1. The system

One machine (`rusty2600-core` and the chip crates) is a deterministic value,
`System`, that a host advances one instruction, and in the end one video frame,
at a time. The desktop front end (`rusty2600-frontend`) is the host with the
concurrency: an emulation thread, the window's thread, the audio device's
callback, one HTTP worker, and, with the `netplay` feature, another machine over
UDP.

```
 HTTP worker <--jobs, answers--> window thread --(mutex EmuCore)-- emulation thread --push--> audio ring --pop--> callback
                                  |  ^   |                             |
                                  |  +---|--(mutex present slot)-------+ publish
                                  |      +---(two atomics of input)--->
                                  +-- RollbackSession (own System) --ggrs/UDP-- the other peer

 one access:  Cpu --> Bus --> board snoops, then TIA, RIOT or board   (three color clocks and a timer tick before it)
```

### Inventory

| component (code) | state | operations | hard behaviours | what makes it correct | module |
|---|---|---|---|---|---|
| RIOT timer (`rusty2600-riot`) | value, prescale, elapsed cycles, interrupt latch, fast flag, "wrapped this cycle" | tick, read INTIM, write TIMxT | an access on the very cycle of the wrap; a polling loop against the fast rate | INTIM is a function of the last write and the cycles since; the fast rate starts at the wrap and only there; polling ends | `RiotTimer` |
| Scheduler (`rusty2600-core/scheduler.rs`) | color-clock count, power-on phase | reset, step one instruction, tick three color clocks | two clocks advanced in three places | the clocks agree | `Lockstep` |
| CPU (`rusty2600-cpu`) | registers, jammed, cycles emitted | 256 opcodes, reset, `idle_tick` | RDY stalls inside an instruction; JAM; dummy accesses; decimal mode; undocumented opcodes | every cycle is an access in its place; sums are sums; a stall ends, and when | `Cpu`, `Lockstep`, `Accesses` |
| TIA (`rusty2600-tia`) | beam, RDY, VSYNC, objects, collisions, audio, paddles | color clock, register writes and reads | a write on the cycle of the line wrap; objects across the right edge; registers rewritten in mid-line or mid-period | WSYNC releases the CPU at the end of its line; a quiet line shows whole objects and all their collisions | `Lockstep`, `Tia` |
| Bus (`rusty2600-core/bus.rs`) | open-bus value, the board | decode, read, write, poke | a board that snoops before or after the console's own access | one access reaches the right chip, the right bank is seen | `Cartridge`, `Coprocessor`, `Lockstep` |
| Boards, detection (`rusty2600-cart`) | bank registers, RAM, delayed writes, fetchers | read, write, snoop, tick, detect | hotspots hit by dummy reads and vectors, in any order; images with the marks of two schemes | no access leaves the board's memory; the bank a sequence leads to; what is stored is read | `Boards`, `Detection`, `Cartridge`, `Dpc`, `DpcPlus`, `Cdf`, `Supercharger`, `Coprocessor` |
| ARM (`rusty2600-thumb`) | registers, flags, memory | nineteen instruction formats; memory maps | carry chains, stack discipline, narrow transfers | arithmetic of wide numbers; calls return | `Thumb`, `DpcPlus`, `Cdf` |
| Save states, movies (`save_state.rs`, `movie.rs`) | machine + ROM tag; frames of input | capture, restore, record, play | a state of another ROM or timeline | a restore gives back the machine that was captured | `Session`, `Scripts`; movies not modelled |
| Session (`emu_thread.rs`, `runahead.rs`, `present_buffer.rs`, `app.rs`) | machine, ROM tag, rewind ring, frame count, pause, present slot, last picture, save files | frame, render, open, close, pause, save, load, debug, jump | three parties in any order; run-ahead's frames that never happened | tag and machine agree; rewind goes back; the screen follows | `Session` |
| Audio ring (`audio_ring.rs`, `audio.rs`) | slots, head, tail, playing, threshold | push, pop, set threshold | lock-free; wrapping indices; under- and overrun | a bounded queue; playback resumes | `AudioRing`, `SampleFifo` |
| Resampler (`resampler.rs`) | phase, ratio | resample a block | floating point | - | not modelled |
| Netplay (`rusty2600-netplay`, `netplay_session.rs`) | session, its machine, the library's cells | connect, poll, advance, save, load | late inputs, rollback, stalls, lost peers | as if nothing had been late; both play the same game; only the session runs the machine | `Rollback`, `Netgame` |
| STUN, WebRTC | socket | request, punch | a timeout | - | not modelled: formats and I/O |
| Window, menus, input (`shell.rs`, `input.rs`, ...) | settings, keys, fingers, two atomics of input | key, touch, toggle, redraw | keys and fingers around pauses, hidden overlays and loads | what is held is read; a touch flips a switch once | `Input`; the menu's entries in `Session` |
| Scripts (`rusty2600-script`, `scripting.rs`) | a clone of the machine, kept states, an overlay, a lock | load, tick, write, save, restore | the clone is older than the machine; a lock that comes between | nothing changes that the script did not ask for, and nothing at all while locked | `Scripts` |
| RetroAchievements (`rusty2600-cheevos`, `cheevos.rs`) | login, game, boxed completions, a worker's queues | login, logout, load, unload, poll, pump | answers that come after what they were for has gone | an answer lands where it belongs, once; every wait ends | `Cheevos` |
| Debugger, recording, shaders, archives, mobile and web hosts, test harness | - | - | - | - | the debugger's steps in `Session`; the rest not modelled |

The hazards that the properties are aimed at are listed in `PROJECT.json`, each
at its line.

## 2. The modules

**`RiotTimer`**: `timer` is `Timer` field for field; `TickTimer`,
`ReadIntimTimer` and `SetTimer` are `Riot::tick`, the INTIM arm of `cpu_read`
and `set_timer`. `fresh` enforces the CPU's order: one tick, then at most one
access. `anchor` is history (what the timer was last fixed to, and the cycles
since); `poll` is a program that waits for 0.

**`Lockstep`**: one step is one CPU cycle. `Cycle` is `idle_tick` with its bus
access, `StallCycle` one turn of its RDY loop; both move the beam by
`TickCycle`, three `tick_color_clock`s. `BeginFrame`, `BeginInstruction`,
`EndInstruction` and `JammedStep` are the loop of `EmuCore::step_frame`, with its
instruction count as the way out. The instruction is left open: any cycle may
access any register that steers the beam. `wait` is history: where the beam
was at the last WSYNC, and the cycles stalled since.

**`SampleFifo`** is what the ring promises: a bounded queue that may cut a block
short. **`AudioRing`** is the code, one shared access per step: a push loads
`head`, stores its slots one by one and then stores `tail`; a pop loads `tail`,
loads its slots and then stores `head`; the threshold and the `playing` flag
are steps of their own. `FifoSpec` is the refinement, with the queue read off
the slots between `head` and `tail`.

**`Session`**: one step is one holding of the core's mutex, so one frame
(`Tick`), one redraw (`Render`) or one menu action. `RunAhead` composes
`StepFrame`s as `runahead.rs` does: the frame that counts, hidden ones, a shown
one, and back to the checkpoint. A machine is its ROM and the time it has run
in half frames, which is all the properties tell apart. The default build: no
netplay (`Netgame` adds it), no scripts.

**`Rollback`**: two peers. A redraw (`AdvanceFrame`) polls, registers the local
input and obtains the library's requests; each turn of the loop of
`RollbackSession::advance_frame` is one of `SaveGameState`, `LoadGameState` and
`PlayFrame`; `Return` is the redraw's arm for `Ok`, `RedrawSyncing` the one for
`Err`. The rollback library (ggrs) is external and is modelled by what the code
asks of it: it delivers a growing prefix of the other's inputs or gives the
peer up, predicts the last input again, and rolls back to the first frame that
was played with a wrong one. A machine is the history of the inputs it played.

**`Netgame`** puts a game into the session: it extends `Session` with the netplay
session's own machine, and its actions are a connection (`Connect`), a redraw that
copies the game's machine over the core's (`GameFrame`), stalls or fails, and the
end of the game. The rest of `Session` goes on around it (`Around`, `Meddle`). Of
the game only its outcome counts, one frame further or the last ones replayed;
how it comes about is `Rollback`'s. `meddled` is history: the player has changed
the ROM or the pause in a game.

**`Boards`** has every scheme without a processor as one record (kind, number of
banks, what the hotspots select, cells of RAM): `ReadPlace` and `WritePlace` say
which cell of the image or the RAM an address reaches, the operators named after
schemes what a hotspot, a snooped access or a delayed switch does. **`Detection`**
is `detect()` over an image's size and the set of signatures found in it, asked in
the code's order. **`Cartridge`** puts an image into the board it is given, and
lets a program access both halves of the address space, in the bus's order of
snoop and access; an FE program also calls and returns.

**`Dpc`**, **`DpcPlus`**, **`Cdf`** and **`Supercharger`** are the boards with
clocks, fetchers or delayed writes. The ARM's share in the middle two is a
sequence of stores through the memory map that `rusty2600-thumb` gives each of
them, which may end in a fault; what the instructions do is `Thumb`'s.
**`Coprocessor`** runs whole instructions on these boards: `Accesses` lists the
bus accesses that the CPU makes for each instruction used, dummy ones included,
and the board's clock ticks before every one of them.

**`Cpu`** executes every opcode on a flat memory. An instruction is the fold of its
accesses over a machine, and `log` is what the bus saw. **`Thumb`** does the same for
the ARM's nineteen formats; a word has `W` bits. `start`, `ran`, `calls` and
`steps` are history.

**`Tia`** moves one color clock at a time: a `program` is a set of registers that may
be written at given clocks. Pixels are the things that cover a column, in the
order the code asks them. `seen` (what was drawn on this line), `quiet` (nothing
written on it), `level` (a charge kept at every clock) and `tone` are history; the
`Covers` that `LineWhole` compares with is a definition by columns, where the code
counts along the beam.

**`Input`**: `KeyEvent`, `Finger` and the menu change `window`, what the window holds;
`RenderNative` packs it into the atomic word and `EmuPass` puts the word on the
pins; `RenderBrowser` does both; the program reads through its data directions.

**`Cheevos`**: the window asks (`Login`, `LoadRom`, ...), the worker takes a job and
answers it with a result, a refusal or a failure, and a redraw (`Pump`, `Poll`,
`TakeEvents`, in the code's order) lets the library's callbacks run. The library
is the vendored C code as far as login and loading go.

**`Scripts`**: a redraw with a ROM open copies the machine to the script's, runs the
calls until one is refused, and copies back what the script changed; between
redraws the emulation thread goes on. Lua's `pcall`, which catches a refusal, is a
program without that call.

`MC*` modules and the `.cfg` files give the constants their values. Operators
named `Bug...` are defective variants of the definition that follows them; no
specification uses them. They are there to show that a property can fail. `MCConsole`,
`MCChips` and `MCWindow` hold several components that are checked apart: each
behaviour runs one of them, and the others stay as they began.

## 3. What the runs check

| run | properties | what it shows |
|---|---|---|
| `console` | `ClocksAgree`, `WsyncStall`, `FrameEnds` | a WSYNC stall ends with its line and not a cycle later; the clocks agree; every frame ends, with a jammed CPU too |
| | `InBounds`, `StoredIsRead`, `VectorsStay`, `DetectedFits`, `FeLands` | any order of accesses keeps a plain board in its memory, its RAM readable and its fixed top in place; images go to boards that take them; FE's calls land |
| | `RandomNeverSticks`, `TapeWrites`, `FetchersExact`, `FastJump` | DPC's random number never locks up; a tape cell changes five accesses after its byte was named and at no other time; fetchers lose no fraction and no beat; a stream moves for the jumps that name it only |
| `ring` | `SlotsDisjoint`, `FifoSpec`, `PlaybackResumes` | every interleaving of a push with a callback: no slot is stored to and loaded at once, the ring is the queue, a dry ring plays again |
| `session` | `TagMatches`, `RewindGoesBack`, `ScreenCatchesUp` | the machine, its tag and its files agree; the rewind ring holds the present run's past; a running ROM is seen; all of it with netplay games coming and going, in any order but for games in which the ROM or the pause was changed |
| `rollback` | `AsIfKnown`, `RollbackReady` | after every call the machine has played what is known; every open frame's cell holds the right machine |
| `game_goes_on` | `GameGoesOn` | the two never stall each other for good, and a lost peer does not stop the one that stays |
| `chips` | `IntimSchedule`, `FastFromTheWrap`, `PollTerminates` | any order of ticks and accesses keeps INTIM on its schedule; a polling loop ends |
| | `LineWhole`, `TagIsDrawn`, `TonePeriod`, `PaddleExact` | objects and collisions at every edge; the tag names what is drawn; tones keep their period over writes; the lazy charge equals the continuous one |
| | `CyclesExact`, `SumsExact`, `UnofficialAgrees`, `StackPairs` | each 6507 cycle is one access; sums in both modes; undocumented opcodes are their two halves; what is stacked comes back |
| | `DataExact`, `CallsReturn` | ARM comparisons, wide sums and mixed transfers agree with plain numbers; subroutines come back with the stack and registers as they were |
| `window` | `HeldReaches`, `TouchOnce` | what is held is read, a touch flips a switch once |
| | `AnswersBelong`, `AnswersArrive` | no completion runs twice or for another ROM; a login and a load end |
| | `ScriptsHonest` | a redraw gives the machine and the input nothing but what the script asked for; while locked no input, and no poke to the machine or to the state it keeps, which it may still put back |
| `seats`, `sync`, `playfield`, `watched`, `owner` | one each | a disagreement between the code and its documentation, section 6 |

Every property has a mutant in `PROJECT.json`: one definition replaced by one of
the `Bug...` operators, which makes that property fail under the same bounds.

### Bounds

- `console`, the frame loop: a line of 4 cycles, three scanlines, clocks mod 8, instructions of at
  most 3 cycles, two of them to a frame. A stall from every clock of a line happens,
  lines and counters wrap, and so does a frame that the count cuts off.
- `ring`: 4 slots under indices mod 8, so that the indices turn twice over the
  ring; blocks of 1 or 2, callbacks of 1 or 3 (more than a block, less than the
  ring), thresholds 0 and above the cap. A frame makes 2 pushes, so a push may
  find the ring full.
- `session`: two ROMs, a rewind ring of 2 that the third capture overflows,
  run-ahead 0 to 2, a frame count mod 3 that wraps, 3 frames of run. Games
  start, end and start again with any menu entry inside one; after the player has
  changed the ROM or the pause in one, `session` follows it no further
  (`CarefulSpec`), and `owner` does.
- `rollback`: a window of 2 frames over 3 cells, 4 frames, two inputs and no input
  delay, the hardest case for prediction: a call replays up to two frames, the
  cells wrap (frame 3 takes frame 0's), and either peer may stall, leave or be
  given up anywhere. `game_goes_on`, `seats` and `sync` have a delay of 1;
  `game_goes_on` has one input, since whether a peer stalls depends on what has
  arrived and not on what it says.
- `console`, the cartridges: one image for every scheme and size, and images with the marks of
  two; every hotspot's first and last address, and addresses at both ends of every
  window and on the console's side; one RAM cell at a time, since a cell's place
  does not depend on the others. The boards are never reset to a known bank, so
  every sequence of accesses over these addresses is covered, not just short ones.
  The boards with clocks run programs up to 7 (DPC), 66 (DPC+, CDF) and 24
  (Supercharger) cycles from states one or a few steps from what matters: the
  random number next to the lock-up value, the music divider nine beats from its
  59th, a byte held five accesses ago. The ARM's program is one that does its work,
  also over the code itself, or one that faults.
- `chips`: a 3-bit counter and prescales 1, 2, 4: one equal to the fast rate, one
  equal to the polling period of 2, one longer; a counter of 8 values passes its
  wrap in every combination. TIA programs run to the end of the line after their
  last write, from eight copy-and-size modes, at both ends of the line, in every
  priority; tones run until a frequency rewritten in mid-period has been heard. All 256
  opcodes run on machines that cross a page or not, with the stack at and off its
  wrap; sums on 18 values squared with every carry and mode. An ARM word has 8 bits:
  every relation of two numbers and every carry between words occurs, and a
  subroutine calls itself until its stack is full.
- `window`: a direction, a fire button and a latching switch in both hosts; four
  logins and loads in all, so that one can overtake another at every stage of its
  answers; one frame of the machine and at most two calls in a script's run, such as
  a save and a restore, or a write before a refused call.

`CHECK_DEADLOCK FALSE` stands in the configurations of `rollback`, `game_goes_on`, `console`,
`chips` and `window` and their disagreements: programs and requests there are
bounded and really stop. The liveness properties say what must happen before.

### Fairness

Safety needs none. `console`: the thread runs its loop; a
new frame (`BeginFrame`) is not assumed. `ring`: both threads go on with an
operation they have begun, the device goes on asking, and the emulation thread
goes on filling while it is not throttled. `session`: the emulation thread loops
for ever and every redraw requests the next; nothing is assumed of the player,
whose pause, and whose game, which pauses too, is why a pause is an exit of
`ScreenCatchesUp`. `game_goes_on`: a redraw's loop runs to its end, and redraws that catch up with everything sent happen
again and again (strong fairness: a redraw is enabled only between two calls,
and a lossy link resends until acknowledged); a peer that has gone is given up in
the end (the library's timeout). `chips`: ticks happen (the CPU always ticks), and a
polling program reads when its period is up. `window`: redraws go on (each one
requests the next, and a browser's animation frames come), the emulation thread
loops, a redraw with a ROM open goes through its stages, and the HTTP worker takes
a job and ends it, with an answer or with its 30-second timeout; nothing is assumed
of the player or of the answer.

## 4. What is proved

The safety properties of `RiotTimer`, `Lockstep`, `AudioRing`, `Session`, `Rollback`,
`Netgame`, `Cartridge`, `Tia`, `Cpu`, `Cheevos` and `Scripts`, the coprocessor boards' but for
`FastJump`, `Input`'s `TouchOnce` and the ring's refinement `FifoSpec` hold for every value of the constants (`PROJECT.json`,
`theorems`), from the named assumptions of each module. The `*Proofs` modules hold the
proofs.

- `RiotTimer`, in `ChipProofs`: any counter width, any set of positive prescales. The
  schedule speaks of cycles since the anchor, the code counts within an
  interval, so neither property is inductive. `TimerInv` adds what ties them:
  `Slow` (cycles to the wrap = `value * prescale + prescale - elapsed`), `Fast`
  (past the wrap each cycle is an interval) and `Wrapped`.
- `Lockstep`, in `ConsoleProofs`: any line of two cycles or more, any counter width above 3.
  `ClocksAgree` is inductive given the types; `WsyncStall` needs that nothing
  stalls before reset (`NotResetYet`), and `TypeOK` the loop's bound
  (`CountInFrame`). `TickCycleFacts` composes three color clocks once.
- `AudioRingProofs`: any capacity that divides the index range. `SlotsDisjoint`
  is stated as distances from `head`; three lemmas on wrapping subtraction
  (`SubAdd`, `SubRange`, `SubShift`) make it inductive with the types and
  `PushInFrame`. `RingIsFifo` is the refinement of `SampleFifo`: the store of `tail`
  is the queue's push, the store of `head` its pop, silence a pop of nothing, and every
  other step leaves the queue alone. The argument is that indices less than a turn of
  the ring apart have slots of their own, the wrap of the index included, because the
  capacity divides the index range (`SlotsApart`); so a push in flight stores past the
  queue (`PushSlotKeeps`) and the samples a pop has copied are still its front when it
  gives them back (`Copying`).
- `SessionProofs`: any ROMs, any ring size, any run-ahead. A rewind restores
  without looking at the tag, so `TagMatches` rests on `RewindGoesBack` (every
  entry is of the machine's ROM) and the two are one invariant; `Shown` carries
  the types of what only the window sees.
- `RollbackProofs`: any inputs, input delay, prediction window and length of game.
  `AsIfKnown` and `RollbackReady` speak of a peer between two redraws, while a redraw
  takes a step per request. `Busy` is the loop's invariant: the requests that are left
  lead from the machine and the cells as they are to the game as it is known by now,
  through a load, then saves and frames in turn. `Resting` adds what the library's
  window rests on, how far a peer is ahead of what it has heard and how many of its own
  inputs are registered, so that the cells of frames still open are distinct
  (`CellFacts`). Inputs only grow (`KnownGrows`), so a machine that was right stays right
  up to the first wrong guess, which is where the library rolls back to (`CallBack`).
- Netplay games in `SessionProofs`: to Session's invariant `GameBehind` adds what a
  redraw needs: the game's machine is of the open ROM, all of the rewind ring lies
  behind it, and the emulation thread is held.
- `Cartridge`, in `ConsoleProofs`: any images, addresses and bytes. The run tries the ends of each
  board's regions; `BoardsHoldEverywhere` is the same at all 4096 offsets. The invariant
  says of each board how many banks its image has (`Sized`), what its hotspots can have
  selected (`Selects`) and where FE runs and was called from (`Called`); `PortsAgree`
  says that a write port reaches the cell its read port reads, so that writes are inside memory because reads are. FE, which guesses calls from the
  bus, is followed through the six accesses of a JSR or an RTS (`JsrLands`, `RtsLands`). `detect` is a
  first match in a list of tests: `FirstMatches` gives the test that decided, `Serves`
  that the board it names takes the image.
- `Tia`, in `ChipProofs`: any programs whose accesses fit the registers they name
  (`TiaAssumption`), any rate of charging, drain and threshold. `LineWhole` speaks of a
  whole line; `Drawn` says at every clock of a quiet line that what has been seen is what
  the code finds lit, and `LitCovers` that an object is lit, as the code counts along the
  beam, exactly at the columns it covers: counting from a position round the line and
  back are inverses (`Back`, `Forth`), and a copy's dots follow each other at `Scale`
  columns (`DotIs`). `InPeriod` says where divider and prescaler stand at every clock
  since a tone's last change; `CaughtUp`, that the charge the code would add for the
  clocks since it last looked is the one added clock by clock (`ChargedOn`).
  `TagIsDrawn` was first stated of states, and an attempt to prove it showed that it is
  false there: CTRLPF may be written after the dot. It is stated of the clock that draws.
- `CpuProofs`: any opcodes, memories, registers and number of steps (`CpuAssumption`
  asks for the code's types only). `Ran` says of every access, addressing mode and
  operation how the log grows, so that an instruction's log is as long as the cycles its
  arm of the dispatch claims; hence `CyclesExact`, and padding is dead code. The pair
  properties look at two instructions, and `StackInv` remembers between them what the
  first stacked and where (`Called`, `Broken`, `Pushed`). For `SumsExact`, `OverflowsIs` turns
  the code's test of top bits into the range of the signed sum, by `OfBitsIs`, which says what
  the recursive sum of bits is for eight of them; decimal digits are carried as numbers.
  `UnofficialAgrees` runs the two halves in turn and compares: they differ from the combination
  in N and Z only, which the last operation sets in both (`Alike`, `Agree`).
- `CoprocessorProofs`: any boards of the kinds, any programs, any stores of the ARM, stalls of
  any length. An instruction is a run of accesses, followed from position to position in the
  same way (`AllPositions`). One access changes at most what `Stepped`, `MusicMoves`, `Holds` and
  `StoresHeld` say of the board; the rest is types. `MachineInv` adds to the board what its
  clock says (`beats` is the clock modulo 59) and, for a tape, `Remembers`: the byte held is
  the one named by an access at most five accesses back, wherever in an earlier
  instruction that was. `MusicAlong` and `FracAlong` sum the steps up to the number of periods and of
  reads, through the carries of three registers (`FracCarries`). 127 and 255 are the only
  numbers with seven ones below the top bit, and 127 goes on to 254, so DPC's number cannot
  lock up (`ClockRngMoves`). `FastJump` is not among them: it
  speaks of whole instructions, and fails of a sequence of accesses that is none.
- `Scripts`, in `WindowProofs`: any ROMs and programs of any length. A run is a recursive function over
  the positions of its calls, and the library's induction over the numbers cannot be
  instantiated; but its least-element principle speaks of sets, so `RunExists` and
  `RunKeeps` look at the least position where the function would not exist, or would
  leave a set that every call keeps. The set is `Honest`: the machines that a run can have
  reached from its copy and the state it kept, both as the clone and as what it keeps.
  `ScriptsHonest` does not say that memory stays as it is under the lock, which is false:
  `loadState` has no gate (`engine.rs` 294-303), so a state kept before the lock, or
  poked while the script was loaded (nothing is locked then), can be put back in a
  locked game. It says that this is the only way: under the lock no poke is made, in
  the machine or in what is kept.
- `WindowProofs`: any set of lines. `TouchOnce` is inductive with the types; two lemmas
  say that a press turns a latch over once (`LatchTurns`) and that an update of the
  overlay turns those newly touched (`TouchedFacts`). `Cheevos`, for any ROMs and any
  number of requests: `AnswersBelong` says nothing of the exchanges on their way, on
  which it depends. `Sound` adds that each has a number of its own (`Apart`), that the
  library waits for the one login among them (`LoginAgrees`), and that every other is of
  the load in progress or of one given up.

The type invariants are proved with them and are no properties of the runs.

Only model-checked: the liveness properties and the fairness they rest on (`ENABLED`
is out of the prover's reach); `FastJump`; and the ARM's `DataExact` and `CallsReturn`,
which `Thumb` computes with folds of the community modules, whose recursion the provers
cannot unfold.

## 5. Not modelled, and what the models leave out

Not modelled: the resampler (floating point); STUN, WebRTC, recording, shaders,
sprite packs, archives and share links (formats and I/O, each a function of its
input); the mobile and web hosts (single-threaded loops over the same core; the
browser's input path is in `Input`); the movie recorder, which no host drives; the
test harness.

Abstractions, by module:

- `Lockstep`: instructions are any accesses; pixels are in `Tia`. `AudioRing`: the
  flags `started` and `paused` never get a value that changes what the code does.
- `Session`: no scripts, recording, or hardcore gate. `Netgame`: of `extract_frame`,
  which a redraw of a game calls, the frame count is kept; its picture and its sound are
  left out. `Rollback`: both peers
  start from the same machine, the console's deterministic frame is a history of
  inputs, and the checksums of desync detection are left out.
- `Tia`: a color is its register's index; the mixer's table is left out. The
  paddle's exponential curves are straight lines, of which only the composition
  (charging for a, then b clocks is charging for a + b) is used.
- `Boards`, `Detection`: bytes of the image are free, so a bank is known by where a
  byte comes from; the signatures are marks. `Dpc` and `Cdf`: output levels of the
  music are left out; `Cdf` counts pointers in the module's own units.
- `Thumb`: words of `W` bits; cycle counting and the MAM registers are left out.
- `Input`: loading a state sets all pins and ports to one value; paddle positions
  never change on any host, so their word is left out.
- `Cheevos`: no per-frame achievement logic. `Scripts`: log and console left out;
  netplay appears only as a lock.

## 6. Where the code and its documentation disagree

Five runs end in a counterexample; `PROJECT.json` quotes both sides.

1. `seats`: each peer is player 0 to itself and nothing remaps the joining one, so
   the two machines run with the ports swapped.
2. `sync`: a redraw before the handshake has ended takes "not yet synchronized"
   for a fatal error and drops the session.
3. `playfield`: a write of PF0 keeps the bits it is to replace, so its columns can
   be turned on but not off.
4. `watched`: a game's load ends where no memory reader is installed, so the library
   finds every address invalid and disables every achievement; the game is
   reported loaded.
5. `owner`: the pause entry works during a netplay game too, and sets the emulation
   thread going on the machine that the game's redraws own.

Seen while modelling, without a run.

Console:
- Reading INTIM on the cycle of the wrap parts the interrupt latch from the fast
  rate (`rusty2600-riot/src/lib.rs` 124-136); `docs/riot.md` 88-91 calls them one flag.
- `docs/scheduler.md` shows a loop in which the RIOT stops while RDY is low; the code
  ticks it. A frame that the instruction count cuts off may end in a WSYNC stall,
  which `runahead.rs` 29-33 excludes. The front end's frame is 200001 instructions
  at most, netplay's 200000.
- TIA: VDELBL is stored and never applied; RESMP hides a missile and does not center
  it; VBLANK neither blanks nor latches INPT4 and INPT5. Writing AUDC in a run of modes
  can leave a polynomial counter at 0, where it stays.
- CPU: ARR (0x6B) in decimal mode can overflow a byte.

Cartridges:
- The Supercharger counts every access (3688-3692), its documentation five distinct
  ones (3405-3421). The DPC+ random number's step backward uses `&` where the inverse
  needs `^` (1973-1980). A DPC+ load of an immediate leaves its pending mark for later.
- `detect`'s comment says that E0, FE, 3F and DPC+ return None, and E7's that it is not
  wired; all are. `docs/cart.md` has 3F up to 512 KiB, `detect` refuses more than 256.
- An ARM store reaches the flash the 6507 runs from, since the map ignores `write`
  (2385, 3158). Thumb opcodes from B800 on without a format end in a panic, where
  `thumb.rs` 848-851 says nothing can; shifts use the whole register.

Front end:
- Closing a ROM leaves a frame in the present slot, and the next redraw shows it
  (`app.rs` 1193). Run-ahead's discarded frames are counted in `frame_count`
  (`emu_thread.rs` 761). Hardcore mode does not gate the loading of a slot. The Reset
  and PowerCycle entries do nothing (`app.rs` 1661).
- A repeated key flips a latching switch again (`app.rs` 732-742 against `input.rs`
  275-276). Hiding the touch overlay under a finger leaves its button held. No host
  turns a paddle, though `input.rs` 27-28 binds gamepads to them.
- Netplay: `connect` takes the running machine where its comment wants one at
  power-on; opening a ROM during a game is allowed, and the next redraw puts the
  game's machine under the new ROM's tag; `frame_advance` writes the
  paddles' INPT values directly where the front end calls `set_paddle_position`. Only
  the copy of the game's machine is relieved of its sound (`emu_thread.rs` 487), so each
  redraw of a game plays all samples since it began or was last rolled back.
- Scripts: a script's ROM tag is always 0 (`app.rs` 1511), so a state it kept under one
  ROM can be put into another; an input override stays until the next host event,
  where `scripting.rs` 65-66 says one frame; a tick comes with every redraw, paused or
  not. The lock gates three calls (`docs/scripting.md` 106-108) and not `loadState`
  (136), by which an earlier poke still reaches a locked game.
- Achievements: hardcore mode enabled in mid-game waits for a reset that the app never
  reports; a logout unloads the game and leaves it reported as loaded; a ROM opened
  before the login is not tried again; nothing is polled while no ROM is open.

## 7. Plan

Next, in this order:

1. The plain sums of the ARM (`DataExact`) for any width.
2. What a frame of a watched game raises (`rusty2600-cheevos/src/events.rs`), beside
   `Cheevos`.
