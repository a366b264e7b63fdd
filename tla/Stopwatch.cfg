\* Three calls of the screen and up to two downloads with one retry each; and
\* memories of up to two segments, with times a minute apart and closer.
\* The screen may rest when its calls are made.
SPECIFICATION MCSpec
CONSTANTS
  MaxCaptures = 2
  MaxRetries = 2
  MaxCalls = 3
  Time = {1, 2, 6002}
  MaxLaps = 3
  MaxSegments = 2
  MaxStale = 2
INVARIANTS
  TypeOK
  NoDoubleClose
  StagedAsRecorded
PROPERTIES
  PortNotForgotten
  CaptureWindsDown
  DownloadReported
CHECK_DEADLOCK FALSE
