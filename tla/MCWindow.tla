------------------------------- MODULE MCWindow -------------------------------
(* What goes on around the game in the window, each part alone: the host's  *)
(* input, RetroAchievements, and a script, in one run; part says which.  A   *)
(* direction, a fire button and a latching switch, in both hosts; two games. *)
EXTENDS Input, Cheevos, Scripts

VARIABLE part       \* the part that runs

MCHosts == {"native", "browser"}
MCMomentary == {"up", "fire"}
MCLatches == {"color"}
MCPorted == {"up"}          \* the switch has a port too, but only HeldReaches looks at ports, for "up"

MCCalls == {"poke", "setJoystick", "setConsoleSwitch", "draw", "pause", "saveState", "loadState"}
MCPaired == {"poke", "setJoystick", "saveState", "loadState"}
MCScripts == {<<>>} \cup {<<c>> : c \in MCCalls} \cup {<<c, d>> : c \in MCPaired, d \in MCPaired}

WindowInit ==
  /\ Init /\ CheevosInit /\ ScriptsInit
  /\ part \in {"input", "cheevos", "script"}
  /\ part # "input" => host = "native"

WindowNext ==
  \/ part = "input" /\ Next /\ UNCHANGED <<part, cheevosVars, scriptVars>>
  \/ part = "cheevos" /\ CheevosNext /\ UNCHANGED <<part, vars, scriptVars>>
  \/ part = "script" /\ ScriptsNext /\ UNCHANGED <<part, vars, cheevosVars>>

\* A part that does not run stays as it began, where its fairness asks nothing.
WindowSpec ==
  WindowInit /\ [][WindowNext]_<<part, vars, cheevosVars, scriptVars>> /\ Fairness /\ CheevosFairness
===============================================================================
