SPECIFICATION InputSpec
CONSTANTS
  Keys = {30}
  Modifiers <- ShiftControl
  Xs = {0}
  Ys = {0}
  MaxInFlight = 2
  MaxFaults = 1
INVARIANT KeysFollow
