\* Memories of one segment, with what an earlier race left behind it.
SPECIFICATION UploadSpec
CONSTANTS
  Time = {1, 2}
  MaxLaps = 2
  MaxSegments = 1
  MaxStale = 1
INVARIANTS
  LapsKept
