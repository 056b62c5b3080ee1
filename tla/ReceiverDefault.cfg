SPECIFICATION FairSpec
CONSTANTS
  DefaultHost = "default"
  FoundHosts = {"default", "stale", "name"}
  Names = {"name"}
  SenderHost = "default"
  MaxTries = 3
  MaxConns = 1
INVARIANTS ClosedAtExit TargetsAgree
PROPERTIES PipelineStarts Reconnects
CHECK_DEADLOCK FALSE
