SPECIFICATION InputSpec
CONSTANTS
  Keys = {30}
  Modifiers <- ShiftOnly
  Xs = {0, 7}
  Ys = {0, 9}
  MaxInFlight = 2
  MaxFaults = 0
INVARIANT ButtonsReleased
