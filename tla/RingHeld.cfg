SPECIFICATION Spec
CONSTANTS
  RingSize = 8
  MaxFrames = 10
  Oversized <- NoFrames
INVARIANT HeldUntilNextPop
\* A copy through NULL ends the program.
CHECK_DEADLOCK FALSE
