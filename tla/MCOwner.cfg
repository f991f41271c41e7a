SPECIFICATION NetSpec
CONSTANTS
  A = A
  B = B
  Roms = {A, B}
  NoRom = NoRom
  MaxRing = 2
  MaxRunAhead = 2
  CountMod = 4
  MaxTime = 6
INVARIANT SessionOwnsMachine
