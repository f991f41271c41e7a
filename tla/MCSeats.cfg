SPECIFICATION Spec
CONSTANTS
  Inputs <- MCInputs
  Idle <- MCIdle
  Delay = 1
  Window = 2
  MaxFrames = 3
CHECK_DEADLOCK FALSE
INVARIANT PeersAgree
