SPECIFICATION ConsoleSpec
CONSTANTS
  LineCycles = 4
  ScanlineMod = 3
  ClockMod = 8
  MaxCycles = 3
  MaxInstructions = 2
  Images <- MCImages
  Addresses <- MCAddresses
  Values <- MCValues
  MaxCells = 1
  Machines <- MCMachines
  Programs <- MCInstructions
  Code <- MCCode
  ArmRuns <- MCArmRuns
  Stalls <- MCStalls
  MaxClock <- MCMaxClock
CHECK_DEADLOCK FALSE
INVARIANTS
  ClocksAgree
  WsyncStall
  InBounds
  StoredIsRead
  VectorsStay
  DetectedFits
  FeLands
  RandomNeverSticks
PROPERTIES
  FrameEnds
  TapeWrites
  FetchersExact
  FastJump
