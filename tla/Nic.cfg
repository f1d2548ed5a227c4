SPECIFICATION FairSpec
CONSTANTS
  RDES_COUNT = 4
  Frames <- MCFrames
INVARIANT FrameAtHand
PROPERTIES InOrder FramesFlow
CHECK_DEADLOCK FALSE
