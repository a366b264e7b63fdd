\* Two finishes, one re-calibration, every loss, delay, reload and call on the way.
SPECIFICATION Spec
CONSTANTS
  s1 = s1
  s2 = s2
  Kind = {"timer"}
  Session = {s1}
  MaxPairings = 1
  SessionOf <- SameSession
  MaxCaptures = 2
  MaxCalibrations = 2
  None = None
INVARIANTS
  TypeOK
  RecordedOnce
  NothingLost
  ReplayInOrder
