------------------------------- MODULE Scripts -------------------------------
(***************************************************************************)
(* Lua scripts (crates/rusty2600-script and crates/rusty2600-frontend's    *)
(* scripting.rs): a script works on a clone of the machine, which each     *)
(* redraw with a ROM open brings up to date and copies back, while the     *)
(* emulation thread runs the machine itself between redraws.  What a       *)
(* script does is a sequence of calls of the emu table; the first that is  *)
(* refused ends it.                                                        *)
(*                                                                         *)
(* A machine is its ROM, how far it has run, and whether its memory has    *)
(* been poked.  Of the host's input there are one direction and one        *)
(* switch.  A netplay session locks scripts as hardcore mode does, and     *)
(* replaces the machine besides; only its lock is here.                    *)
(***************************************************************************)
EXTENDS Integers, Sequences

CONSTANTS Carts, NoCart,
          Programs,     \* what the Lua program may do at a run: sequences of calls
          MaxTime,      \* bound: frames
          MaxDrawn      \* bound: primitives of one redraw

Calls == {"poke", "setJoystick", "setConsoleSwitch", "draw", "pause", "saveState", "loadState"}
Gated == {"poke", "setJoystick", "setConsoleSwitch"}

ASSUME ScriptsAssumption == NoCart \notin Carts /\ \A calls \in Programs : calls \in Seq(Calls)

VARIABLES
  tag,        \* EmuCore::rom_loaded and rom_tag
  system,     \* EmuCore::system
  stopped,    \* EmuCore::paused
  hostInput,  \* host_input: [up, select]
  locked,     \* hardcore mode, or a netplay session
  script      \* ScriptState, or NoScript

scriptVars == <<tag, system, stopped, hostInput, locked, script>>

Blank == [rom |-> NoCart, time |-> 0, poked |-> FALSE]
PowerOn(r) == [Blank EXCEPT !.rom = r]
NoBlob == [tag |-> -1, system |-> Blank]
NoScript == [loaded |-> FALSE]

\* The application's tag for every script, whatever the ROM.
RomTag == 0

\* FrontendScriptBus::new and ScriptEngine::new: clone is the bus's system, up
\* and select are its overrides, kept is a state that the Lua program keeps.
NewScript ==
  [loaded |-> TRUE, clone |-> Blank, tag |-> RomTag, paused |-> FALSE, up |-> FALSE, select |-> {},
   kept |-> NoBlob, failed |-> FALSE, overlay |-> <<>>]

ScriptsInit ==
  /\ tag = NoCart /\ system = Blank /\ stopped = FALSE
  /\ hostInput = [up |-> FALSE, select |-> FALSE]
  /\ locked = FALSE
  /\ script = NoScript

------------------------------------------------------------------------------
(* The emu table.                                                          *)

\* locked_error, and the mlua error of a call that fails.
Fail(b) == [b EXCEPT !.failed = TRUE]

\* SaveState::restore: a state is its own ROM's if the tags agree.
Restore(b) == IF b.kept = NoBlob \/ b.kept.tag # b.tag THEN Fail(b) ELSE [b EXCEPT !.clone = b.kept.system]

Call(b, call, lock) ==
  CASE b.failed -> b
    [] ~ b.failed /\ call \in Gated /\ lock -> Fail(b)
    [] ~ b.failed /\ call = "poke" /\ ~ lock -> [b EXCEPT !.clone.poked = TRUE]
    [] ~ b.failed /\ call = "setJoystick" /\ ~ lock -> [b EXCEPT !.up = ~ @]
    [] ~ b.failed /\ call = "setConsoleSwitch" /\ ~ lock -> [b EXCEPT !.select = IF @ = {TRUE} THEN {FALSE} ELSE {TRUE}]
    [] ~ b.failed /\ call = "draw" -> IF Len(b.overlay) < MaxDrawn THEN [b EXCEPT !.overlay = Append(@, "line")] ELSE b
    [] ~ b.failed /\ call = "pause" -> [b EXCEPT !.paused = TRUE]
    [] ~ b.failed /\ call = "saveState" -> [b EXCEPT !.kept = [tag |-> b.tag, system |-> b.clone]]
    [] ~ b.failed /\ call = "loadState" -> Restore(b)

\* Bug: the lock is not handed on.
BugRun(b, calls, lock) ==
  LET after[i \in 0 .. Len(calls)] == IF i = 0 THEN b ELSE Call(after[i - 1], calls[i], FALSE)
  IN after[Len(calls)]

\* A run of the Lua program.
Run(b, calls, lock) ==
  LET after[i \in 0 .. Len(calls)] == IF i = 0 THEN b ELSE Call(after[i - 1], calls[i], lock)
  IN after[Len(calls)]

------------------------------------------------------------------------------
(* The window.                                                             *)

\* Bug: the clone is the one of the last redraw.
BugSynced(b) == [b EXCEPT !.paused = stopped, !.up = FALSE, !.select = {}, !.failed = FALSE,
                          !.clone = IF @ = Blank THEN system ELSE @]

\* The first half of ScriptState::tick.
Synced(b) == [b EXCEPT !.paused = stopped, !.up = FALSE, !.select = {}, !.failed = FALSE, !.clone = system]

\* apply_joystick_override and apply_switch_override.
Overridden(in, b) ==
  [up |-> in.up \/ b.up, select |-> IF b.select = {} THEN in.select ELSE b.select = {TRUE}]

\* A script runs when there is one and a ROM is open.
MayRun == script.loaded /\ tag # NoCart

\* ScriptEngine::take_overlay: what was drawn since the last redraw is shown once.
TakeOverlay(b) == [b EXCEPT !.overlay = <<>>]

\* A redraw: the script runs, under the core's lock, after the input has been
\* handed over, so it changes the input of the redraw after this one.  The bus's
\* pause and overrides are not kept, since the next redraw begins with others.
Render ==
  /\ MayRun
  /\ \E calls \in Programs :
        LET b == Run(Synced(script), calls, locked)
        IN  /\ system' = b.clone
            /\ stopped' = (stopped \/ b.paused)
            /\ hostInput' = Overridden(hostInput, b)
            /\ script' = TakeOverlay([NewScript EXCEPT !.clone = b.clone, !.kept = b.kept,
                                                       !.overlay = b.overlay])
  /\ UNCHANGED <<tag, locked>>

\* MenuAction::LoadScript: the program's own statements run at once, on a clone
\* of no game, with nothing locked; if they fail, the old script stays.
LoadScript ==
  /\ \E calls \in Programs :
        LET b == Run(NewScript, calls, FALSE) IN
        /\ ~ b.failed
        /\ script' = [NewScript EXCEPT !.clone = b.clone, !.kept = b.kept, !.overlay = b.overlay]
  /\ UNCHANGED <<tag, system, stopped, hostInput, locked>>

UnloadScript ==
  /\ script.loaded
  /\ script' = NoScript
  /\ UNCHANGED <<tag, system, stopped, hostInput, locked>>

OpenGame(r) ==
  /\ tag' = r
  /\ system' = PowerOn(r)
  /\ UNCHANGED <<stopped, hostInput, locked, script>>

CloseGame ==
  /\ tag # NoCart
  /\ tag' = NoCart
  /\ system' = Blank
  /\ UNCHANGED <<stopped, hostInput, locked, script>>

PauseGame ==
  /\ tag # NoCart
  /\ stopped' = ~ stopped
  /\ UNCHANGED <<tag, system, hostInput, locked, script>>

ToggleLock ==
  /\ locked' = ~ locked
  /\ UNCHANGED <<tag, system, stopped, hostInput, script>>

\* The player presses or lets go.
Press(line) ==
  /\ hostInput' = [hostInput EXCEPT ![line] = ~ @]
  /\ UNCHANGED <<tag, system, stopped, locked, script>>

\* The emulation thread's.
EmuFrame ==
  /\ ~ stopped
  /\ tag # NoCart
  /\ system.time < MaxTime
  /\ system' = [system EXCEPT !.time = @ + 1]
  /\ UNCHANGED <<tag, stopped, hostInput, locked, script>>

ScriptsNext ==
  \/ Render
  \/ LoadScript \/ UnloadScript
  \/ (\E r \in Carts : OpenGame(r)) \/ CloseGame \/ PauseGame \/ ToggleLock
  \/ (\E line \in {"up", "select"} : Press(line))
  \/ EmuFrame

ScriptsSpec == ScriptsInit /\ [][ScriptsNext]_scriptVars

------------------------------------------------------------------------------
\* What a redraw may give the machine: what it was, or the state that the script
\* kept, and with scripts unlocked either of them poked.
GivenBack ==
  \E m \in {system, script.kept.system} :
     system' = m \/ (~ locked /\ system' = [m EXCEPT !.poked = TRUE])

\* What a script may keep while locked: what it kept, or the machine as it is.
\* A script is loaded with nothing locked, on a clone that is not the machine.
KeptUnpoked ==
  \/ ~ script'.loaded \/ LoadScript
  \/ script'.kept.system \in {system, script.kept.system}

\* A redraw takes nothing from the game and gives it nothing but what its script
\* asked for in that redraw: the machine stays where the emulation thread or the
\* player left it, but for a poke, or a state that the script kept.  While scripts
\* are locked, the input stays and no poke is made: the machine stays or the kept
\* state is put back as it is, which loadState may do at any time (engine.rs
\* 294-303, docs/scripting.md 136), and what is kept was kept before the lock or
\* is the machine.  So a poke that comes into a locked game was made before the lock
\* or as the script was loaded, and kept since, with its ROM (scripting.rs 208-243,
\* engine.rs 46-61, 99-305).
ScriptsHonest ==
  [][/\ system' # system => EmuFrame \/ CloseGame \/ (\E r \in Carts : OpenGame(r)) \/ GivenBack
     /\ locked => KeptUnpoked
     /\ hostInput' # hostInput => ~ locked \/ \E line \in {"up", "select"} : Press(line)]_scriptVars
==============================================================================
