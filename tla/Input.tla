-------------------------------- MODULE Input --------------------------------
(***************************************************************************)
(* How what the player holds reaches the program                           *)
(* (crates/rusty2600-frontend/src/input.rs, app.rs, emu_thread.rs and the  *)
(* ports of crates/rusty2600-riot).  Keys and fingers come and go; the     *)
(* window turns them into host_input; at each redraw it hands that to the  *)
(* emulation thread through one atomic word, or runs the frame itself in a *)
(* browser; a frame puts it on the pins; and the program reads the pins    *)
(* where its data-direction register says input.                           *)
(*                                                                         *)
(* Each line is one bit: a direction or a momentary switch is low while it *)
(* is pressed, a latching switch flips.  The four paddle positions travel  *)
(* in a second word, which no host device ever changes from 0; a script's  *)
(* override of the input and netplay's own path are left out.              *)
(***************************************************************************)
EXTENDS Integers

CONSTANTS Hosts,        \* \subseteq {"native", "browser"}
          Momentary,    \* directions, fire, Select, Reset
          Latches,      \* Color and the two difficulties
          Ported        \* the lines on a port of the RIOT, the others on the TIA

ASSUME InputAssumption ==
  /\ Hosts \subseteq {"native", "browser"}
  /\ Momentary \cap Latches = {}
  /\ Ported \subseteq Momentary \cup Latches

VARIABLES host,
          down,         \* the keys, or the fingers, on a line
          input,        \* host_input: pressed, or how a latch stands
          held,         \* TouchOverlayState::held
          visible,      \* touch_overlay_visible
          flipped,      \* how often a latch was flipped by the touch that the overlay knows of
          packed,       \* SharedInput::packed
          pins,         \* Riot::pins and Tia::inpt
          ports, ddr,   \* the RIOT's two ports, by line
          paused

window  == <<down, input, held, visible, flipped>>
machine == <<pins, ports, ddr>>
vars == <<host, window, packed, machine, paused>>

Lines == Momentary \cup Latches

\* InputState::riot_ports and fire_inputs.
Level(state) == [l \in Lines |-> IF l \in Momentary THEN ~ state[l] ELSE state[l]]

\* apply_action: a level follows the edge, a latch flips on a press.
Apply(state, l, pressed) ==
  [state EXCEPT ![l] = IF l \in Momentary THEN pressed ELSE (@ # pressed)]

Init ==
  /\ host \in Hosts
  /\ down = {}
  /\ input = [l \in Lines |-> l \in Latches]
  /\ held = {} /\ visible = TRUE /\ flipped = [l \in Latches |-> 0]
  /\ packed = Level(input)
  /\ pins = [l \in Lines |-> TRUE]
  /\ ports = [l \in Ported |-> TRUE]
  /\ ddr = [l \in Ported |-> FALSE]
  /\ paused = FALSE

------------------------------------------------------------------------------
(* The window.                                                             *)

\* latch_key: the host repeats the press of a key that stays down.
KeyEvent(l, pressed) ==
  /\ host = "native"
  /\ pressed \/ l \in down
  /\ down' = IF pressed THEN down \cup {l} ELSE down \ {l}
  /\ input' = Apply(input, l, pressed)
  /\ UNCHANGED <<host, held, visible, flipped, packed, machine, paused>>

\* A finger is put on a button or taken away; the next redraw looks.
Finger(l) ==
  /\ host = "browser"
  /\ down' = IF l \in down THEN down \ {l} ELSE down \cup {l}
  /\ UNCHANGED <<host, input, held, visible, flipped, packed, machine, paused>>

\* The menu's console switches.
ApplyConsoleSwitch(l) ==
  /\ input' = [input EXCEPT ![l] = ~ @]
  /\ UNCHANGED <<host, down, held, visible, flipped, packed, machine, paused>>

\* TouchOverlayState::update: the lines it presses and those it lets go.
BugPressed(now) == (now \cap Latches) \cup ((now \ held) \cap Momentary)
Pressed(now) == now \ held
BugReleased(now) == (held \ now) \cap Latches
Released(now) == (held \ now) \cap Momentary

Touched(now) ==
  [l \in Lines |-> IF l \in Pressed(now) THEN Apply(input, l, TRUE)[l]
                   ELSE IF l \in Released(now) THEN Apply(input, l, FALSE)[l]
                   ELSE input[l]]

\* A redraw of the native window: SharedInput::store.
RenderNative ==
  /\ host = "native"
  /\ packed' = Level(input)
  /\ UNCHANGED <<host, window, machine, paused>>

\* A redraw in a browser: run_frame, paused or not, when a frame is due, and then
\* the overlay, if it is shown, whose edges dispatch_actions applies.
RenderBrowser(due) ==
  /\ host = "browser"
  /\ pins' = IF due THEN Level(input) ELSE pins
  /\ IF visible
     THEN /\ input' = Touched(down)
          /\ held' = down
          /\ flipped' = [l \in Latches |->
                            IF l \notin down THEN 0
                            ELSE IF input'[l] # input[l] /\ flipped[l] < 2 THEN flipped[l] + 1
                            ELSE flipped[l]]
     ELSE UNCHANGED <<input, held, flipped>>
  /\ UNCHANGED <<host, down, visible, packed, ports, ddr, paused>>

ToggleOverlay ==
  /\ host = "browser"
  /\ visible' = ~ visible
  /\ UNCHANGED <<host, down, input, held, flipped, packed, machine, paused>>

TogglePause ==
  /\ paused' = ~ paused
  /\ UNCHANGED <<host, window, packed, machine>>

\* A save state brings back the pins of its own time, and the ports: those whose
\* lines are all alike stand for the others.
LoadState ==
  /\ \E pin, value, output \in BOOLEAN :
        /\ pins' = [l \in Lines |-> pin]
        /\ ports' = [l \in Ported |-> value]
        /\ ddr' = [l \in Ported |-> output]
  /\ UNCHANGED <<host, window, packed, paused>>

------------------------------------------------------------------------------
(* The emulation thread and the program.                                   *)

\* SharedInput::load and step_frame, under the core's lock.
EmuPass ==
  /\ host = "native"
  /\ ~ paused
  /\ pins' = packed
  /\ UNCHANGED <<host, window, packed, ports, ddr, paused>>

\* cpu_write of SWCHA, SWCHB, SWACNT and SWBCNT, by bit.
WritePort(l) ==
  /\ \/ ports' = [ports EXCEPT ![l] = ~ @] /\ UNCHANGED ddr
     \/ ddr' = [ddr EXCEPT ![l] = ~ @] /\ UNCHANGED ports
  /\ UNCHANGED <<host, window, packed, pins, paused>>

\* cpu_read of a port, or of INPT4 and INPT5.
IsOutput(l) == l \in Ported /\ ddr[l]
Read(l) == IF IsOutput(l) THEN ports[l] ELSE pins[l]

Next ==
  \/ \E l \in Lines, pressed \in BOOLEAN : KeyEvent(l, pressed)
  \/ \E l \in Lines : Finger(l)
  \/ \E l \in Latches : ApplyConsoleSwitch(l)
  \/ RenderNative \/ (\E due \in BOOLEAN : RenderBrowser(due)) \/ ToggleOverlay \/ TogglePause \/ LoadState
  \/ EmuPass
  \/ \E l \in Ported : WritePort(l)

\* about_to_wait asks for a redraw whenever the window is idle, a frame
\* falls due 60 times a second, and the emulation thread loops for ever; nobody need press, pause or load.
Fairness == WF_vars(RenderNative) /\ WF_vars(RenderBrowser(TRUE)) /\ WF_vars(EmuPass)
Spec == Init /\ [][Next]_vars /\ Fairness

------------------------------------------------------------------------------
(* Properties.                                                             *)

\* What stays pressed is read as pressed, and what stays released as released,
\* again and again, by a program that has the line as an input, whatever was
\* loaded, paused, hidden or repeated before.
HeldReaches ==
  \A l \in Momentary, b \in BOOLEAN :
    <>[]((l \in down) = b /\ ~ paused /\ visible) => []<>(Read(l) # b \/ IsOutput(l))

\* A touch flips a latching switch exactly once, however many redraws the finger
\* rests on it and whether or not the overlay is hidden in between.
TouchOnce == \A l \in Latches : flipped[l] = IF l \in held THEN 1 ELSE 0
==============================================================================
