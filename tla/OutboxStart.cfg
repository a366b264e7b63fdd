\* A start on a phone that goes on being heard at last.
SPECIFICATION FairSpec
CONSTANTS
  s1 = s1
  s2 = s2
  Kind = {"start"}
  Session = {s1}
  MaxPairings = 1
  SessionOf <- SameSession
  MaxCaptures = 1
  MaxCalibrations = 1
  None = None
PROPERTIES
  QueueDrains
