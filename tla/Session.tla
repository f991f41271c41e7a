------------------------------- MODULE Session -------------------------------
(***************************************************************************)
(* The front end's session (crates/rusty2600-frontend/src: emu_thread.rs,  *)
(* runahead.rs, present_buffer.rs, app.rs): the emulation thread, the      *)
(* window's thread, and what they share.  The default build: no netplay,   *)
(* no scripts.                                                             *)
(*                                                                         *)
(* EmuCore is behind a mutex that each thread holds for a whole frame, a   *)
(* whole render or a whole menu action, so each of these is one step.      *)
(* The present buffer's slot has its own mutex, taken only inside the      *)
(* core's.  The picture the window falls back on is the window's own.      *)
(*                                                                         *)
(* A machine is its ROM and how far it has run, in half frames: a step of  *)
(* the debugger may leave it between two frame boundaries.                 *)
(***************************************************************************)
EXTENDS Integers, Sequences

CONSTANTS
  Roms,         \* the images a player opens
  NoRom,        \* no image
  MaxRing,      \* entries of the rewind ring                   (600)
  MaxRunAhead,  \* the largest run-ahead setting
  CountMod,     \* values of the frame count, a u64              (2^64)
  MaxTime       \* bound: how far a machine runs

ASSUME RomAssumption == NoRom \notin Roms
ASSUME RingAssumption == MaxRing \in Nat \ {0}
ASSUME RunAheadAssumption == MaxRunAhead \in Nat
ASSUME CountAssumption == CountMod \in Nat \ {0}
ASSUME TimeAssumption == MaxTime \in Nat

VARIABLES
  tag,      \* EmuCore::rom_tag and rom_loaded
  machine,  \* EmuCore::system
  ring,     \* EmuCore::snapshots
  paused,   \* EmuCore::paused
  count,    \* EmuCore::frame_count
  slot,     \* Shared::ready: the ROM of the frame in it, or NoRom
  screen,   \* Active::last_frame: the ROM it shows, or NoRom when blank
  saves     \* the save slot's file of each ROM, or None

vars == <<tag, machine, ring, paused, count, slot, screen, saves>>

PowerOn(r) == [rom |-> r, time |-> 0]
None == PowerOn(NoRom)

Init ==
  /\ \E r \in Roms \cup {NoRom} : tag = r /\ machine = PowerOn(r)
  /\ ring = <<>>
  /\ paused = FALSE
  /\ count = 0
  /\ slot = NoRom
  /\ screen = NoRom
  /\ saves = [r \in Roms |-> None]

------------------------------------------------------------------------------
(* The emulation thread. *)

\* Where a frame that starts at time t ends.
FrameEnd(t) == 2 * (t \div 2) + 2

\* A capture into the rewind ring, the oldest entry making room.
Capture(past, m) ==
  IF Len(past) < MaxRing THEN Append(past, m) ELSE Append(Tail(past), m)

\* n frames more on EmuCore::frame_count.
Count(c, n) == (c + n) % CountMod

\* Producer::publish: a frame that nobody has taken yet is replaced.
Publish(waiting, frame) == frame

\* EmuCore::step_frame: does it capture the state it starts from, and does the
\* producer it is given lead to the window?
StepFrame(core, captures, shown) ==
  [machine |-> [core.machine EXCEPT !.time = FrameEnd(@)],
   ring    |-> IF captures THEN Capture(core.ring, core.machine) ELSE core.ring,
   count   |-> Count(core.count, 1),
   slot    |-> IF shown THEN Publish(core.slot, core.machine.rom) ELSE core.slot]

\* n frames that are neither captured nor shown.
Hidden(core, n) ==
  IF n = 0
  THEN core
  ELSE [core EXCEPT !.machine.time = FrameEnd(@) + 2 * (n - 1), !.count = Count(@, n)]

\* Bug: run-ahead captures the frame it shows and then discards.
BugCapturesAhead(core, n) ==
  IF n = 0
  THEN StepFrame(core, TRUE, TRUE)
  ELSE LET persistent == StepFrame(core, TRUE, FALSE)
           displayed == StepFrame(Hidden(persistent, n - 1), TRUE, TRUE)
       IN  [displayed EXCEPT !.machine = persistent.machine]

\* Bug: run-ahead's displayed frame goes where its hidden ones go.
BugHidesAhead(core, n) ==
  IF n = 0
  THEN StepFrame(core, TRUE, TRUE)
  ELSE LET persistent == StepFrame(core, TRUE, FALSE)
       IN  [Hidden(persistent, n) EXCEPT !.machine = persistent.machine]

\* runahead::step_frame with n frames of look-ahead: one frame that counts, then
\* n that are run from a checkpoint of it, the last of them shown, and discarded.
RunAhead(core, n) ==
  IF n = 0
  THEN StepFrame(core, TRUE, TRUE)
  ELSE LET persistent == StepFrame(core, TRUE, FALSE)
           displayed == StepFrame(Hidden(persistent, n - 1), FALSE, TRUE)
       IN  [displayed EXCEPT !.machine = persistent.machine]

\* A turn of the emulation thread's loop that runs a frame.
Tick ==
  /\ ~paused
  /\ tag # NoRom
  /\ machine.time < MaxTime
  /\ \E n \in 0 .. MaxRunAhead :
        LET after == RunAhead([machine |-> machine, ring |-> ring, count |-> count,
                               slot |-> slot], n) IN
        /\ machine' = after.machine
        /\ ring' = after.ring
        /\ count' = after.count
        /\ slot' = after.slot
  /\ UNCHANGED <<tag, paused, screen, saves>>

------------------------------------------------------------------------------
(* The window's thread. *)

\* What the menu offers only while a ROM is open.
RomOpen == tag # NoRom

\* Consumer::take, or the last frame again when none is waiting.
Take(waiting, last) == IF waiting # NoRom THEN waiting ELSE last

\* render: the newest frame.
Render ==
  /\ screen' = Take(slot, screen)
  /\ slot' = NoRom
  /\ UNCHANGED <<tag, machine, ring, paused, count, saves>>

\* Bug: the rewind ring outlives the ROM.
BugFreshRing(past) == past

\* The rewind ring once another state has been put in the machine's place.
FreshRing(past) == <<>>

\* EmuCore::load_rom, of an image whose board is recognised.
OpenRom ==
  /\ \E r \in Roms : tag' = r /\ machine' = PowerOn(r)
  /\ ring' = FreshRing(ring)
  /\ count' = 0
  /\ UNCHANGED <<paused, slot, screen, saves>>

\* EmuCore::close_rom.
EjectRom ==
  /\ tag' = NoRom
  /\ machine' = PowerOn(NoRom)
  /\ ring' = <<>>
  /\ count' = 0

\* MenuAction::CloseRom: the window's own picture is blanked too.
CloseRom ==
  /\ RomOpen
  /\ EjectRom
  /\ screen' = NoRom
  /\ UNCHANGED <<paused, slot, saves>>

TogglePause ==
  /\ RomOpen
  /\ paused' = ~paused
  /\ UNCHANGED <<tag, machine, ring, count, slot, screen, saves>>

SaveStateSlot ==
  /\ RomOpen
  /\ saves' = [saves EXCEPT ![tag] = machine]
  /\ UNCHANGED <<tag, machine, ring, paused, count, slot, screen>>

LoadStateSlot ==
  /\ RomOpen
  /\ saves[tag] # None
  /\ machine' = saves[tag]
  /\ ring' = FreshRing(ring)
  /\ UNCHANGED <<tag, paused, count, slot, screen, saves>>

\* DebugStep and DebugContinue: one or more instructions, and a pause, with a
\* ROM or without one.
Debug ==
  /\ \E t \in machine.time + 1 .. MaxTime : machine' = [machine EXCEPT !.time = t]
  /\ paused' = TRUE
  /\ UNCHANGED <<tag, ring, count, slot, screen, saves>>

\* EmuCore::rewind, n times.
Rewind(n) ==
  /\ machine' = ring[Len(ring) - n + 1]
  /\ ring' = SubSeq(ring, 1, Len(ring) - n)

\* TastudioJumpToFrame: a rewind, and a frame off the count, until the count is
\* down to the target or the ring is empty.
JumpToFrame ==
  /\ \E target \in 0 .. count - 1 :
        LET back == IF count - target < Len(ring) THEN count - target ELSE Len(ring) IN
        /\ back > 0
        /\ Rewind(back)
        /\ count' = count - back
  /\ UNCHANGED <<tag, paused, slot, screen, saves>>

Next ==
  \/ Tick
  \/ Render
  \/ OpenRom \/ CloseRom \/ TogglePause
  \/ SaveStateSlot \/ LoadStateSlot
  \/ Debug \/ JumpToFrame

\* The emulation thread loops for ever, and the window asks for another redraw
\* at the end of each; what the player does is the player's choice.
Fairness == WF_vars(Tick) /\ WF_vars(Render)

Spec == Init /\ [][Next]_vars /\ Fairness

------------------------------------------------------------------------------
\* A machine runs past MaxTime only in the frame that reaches it.
Machines == [rom : Roms \cup {NoRom}, time : 0 .. FrameEnd(MaxTime)]

TypeOK ==
  /\ tag \in Roms \cup {NoRom}
  /\ machine \in Machines
  /\ ring \in Seq(Machines) /\ Len(ring) <= MaxRing
  /\ paused \in BOOLEAN
  /\ count \in 0 .. CountMod - 1
  /\ slot \in Roms \cup {NoRom}
  /\ screen \in Roms \cup {NoRom}
  /\ saves \in [Roms -> Machines]

\* The tag that names save files is that of the ROM in the machine, which the
\* slots and the rewind ring both replace whole, and a rewind without a check
\* ("callers that already know the ROM can't have changed", save_state.rs
\* 134-137; emu_thread.rs 108-115).
TagMatches ==
  /\ machine.rom = tag
  /\ \A r \in Roms : saves[r] # None => saves[r].rom = r

\* Every entry of the rewind ring is an earlier state of the run that is under
\* way, in order: a rewind goes back, never ahead into a frame run-ahead has
\* thrown away and never across a load; and there are never more than it has
\* room for (emu_thread.rs 579-592; runahead.rs 57-86; app.rs 1284-1291).
RewindGoesBack ==
  /\ Len(ring) <= MaxRing
  /\ \A i, j \in 1 .. Len(ring) : i < j => ring[i].time < ring[j].time
  /\ \A i \in 1 .. Len(ring) : ring[i].rom = machine.rom /\ ring[i].time < machine.time

\* A ROM that runs gets to the screen: the last ROM's picture does not stay
\* (app.rs 859-870; present_buffer.rs 122-140).
ScreenCatchesUp ==
  \A r \in Roms :
    tag = r ~> \/ screen = r
               \/ tag # r \/ paused
               \/ machine.time >= MaxTime   \* the bound stopped it

==============================================================================
