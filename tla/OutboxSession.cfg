\* A phone pairs with the next session while a flush of the last one waits.
SPECIFICATION Spec
CONSTANTS
  s1 = s1
  s2 = s2
  Kind = {"timer"}
  Session = {s1, s2}
  MaxPairings = 2
  SessionOf <- NextSession
  MaxCaptures = 1
  MaxCalibrations = 2
  None = None
INVARIANTS
  SessionIsolated
