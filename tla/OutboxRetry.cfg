\* A finish is retried after its clock was calibrated again.
SPECIFICATION Spec
CONSTANTS
  s1 = s1
  s2 = s2
  Kind = {"timer"}
  Session = {s1}
  MaxPairings = 1
  SessionOf <- SameSession
  MaxCaptures = 1
  MaxCalibrations = 2
  None = None
INVARIANTS
  RetryIsIdempotent
