SPECIFICATION FairSpec
CONSTANTS
  MaxSignals = 2
  Local = {1}
  MaxRivals = 2
  MaxEpochs = 1
INVARIANTS DestroyedAfterUse NothingElseLeft
PROPERTIES StartedThreadsStop Advertised
