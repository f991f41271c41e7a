SPECIFICATION Spec
CONSTANTS
  Inputs <- MCOneInput
  Idle <- MCIdle
  Delay = 1
  Window = 2
  MaxFrames = 4
CHECK_DEADLOCK FALSE
INVARIANT SyncSurvives
