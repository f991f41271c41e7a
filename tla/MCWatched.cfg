SPECIFICATION WindowSpec
CONSTANTS
  Hosts <- MCHosts
  Momentary <- MCMomentary
  Latches <- MCLatches
  Ported <- MCPorted
  Roms = {a, b}
  NoRom = none
  Carts = {a, b}
  NoCart = none
  Programs <- MCScripts
  MaxTime = 1
  MaxDrawn = 1
  MaxRequests = 4
  MaxEvents = 1
CHECK_DEADLOCK FALSE
INVARIANT
  LoadedIsWatched
