SPECIFICATION Spec
CONSTANTS
  s1 = s1
  s2 = s2
  Sample = {s1, s2}
  Capacity = 4
  IndexMod = 8
  BlockSizes <- MCBlockSizes
  CallbackSizes <- MCCallbackSizes
  FramePushes = 2
  Thresholds <- MCThresholds
INVARIANTS
  SlotsDisjoint
PROPERTIES
  FifoSpec
  PlaybackResumes
