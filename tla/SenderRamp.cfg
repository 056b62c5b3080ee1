SPECIFICATION Spec
CONSTANTS
  MaxConns = 1
  SeqModulus = 1
  TooLarge = {}
  Capacity = 1
  MaxFrames = 1
  HeartbeatTicks = 1
  LossThreshold = 5
  MaxLoss = 1
  Rtts = {10, 30, 60}
INVARIANTS HealthyRamp
