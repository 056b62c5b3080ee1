SPECIFICATION FairSpec
CONSTANTS
  RingSize = 4
  MaxFrames = 8
  Oversized <- SomeFrames
INVARIANTS TypeOK QueuedIntact HeldWithinSlack
PROPERTIES Implements FrameLeaves
CHECK_DEADLOCK FALSE
