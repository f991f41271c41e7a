SPECIFICATION Spec
CONSTANTS
  Inputs <- MCInputs
  Idle <- MCIdle
  Delay = 0
  Window = 2
  MaxFrames = 4
CHECK_DEADLOCK FALSE
INVARIANTS AsIfKnown RollbackReady
