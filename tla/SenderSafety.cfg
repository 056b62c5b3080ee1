SPECIFICATION FairSpec
CONSTANTS
  MaxConns = 2
  SeqModulus = 2
  TooLarge = {2}
  Capacity = 2
  MaxFrames = 4
  HeartbeatTicks = 2
  LossThreshold = 1
  MaxLoss = 2
  Rtts = {10, 30}
INVARIANTS TypeOK NoLeak FlushedNeverSent NeverSilent BitratesAgree
PROPERTIES SentInOrder BlamedOnce Redial
