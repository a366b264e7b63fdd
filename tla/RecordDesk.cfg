\* A phone in one chute, and one of the laptop's screens in use.
SPECIFICATION OneScreenSpec
CONSTANTS
  d1 = d1
  d2 = d2
  s1 = s1
  s2 = s2
  CommonChute = 0
  Scope = {0}
  Device = {d1}
  Session = {s1}
  DeviceSession <- OneSession
  SessionScope <- OneChute
  Request = {q1, q2}
  DeskRow = {m1}
  Bib = {}
  Unread = Unread
  Excluded = Excluded
  MaxTime = 1
  MaxPlace = 2
  MaxNumber = 3
  DeskNumber = {1}
  DeskTime = {0}
  Pending = Pending
  None = None
SYMMETRY Ids
PROPERTIES
  PhoneAppends
  StartSettlesCaptures
  UndoTakesTheTail
