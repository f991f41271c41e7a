SPECIFICATION CarefulSpec
CONSTANTS
  A = A
  B = B
  Roms = {A, B}
  NoRom = NoRom
  MaxRing = 2
  MaxRunAhead = 2
  CountMod = 3
  MaxTime = 6
INVARIANTS
  TagMatches
  RewindGoesBack
PROPERTY
  ScreenCatchesUp
