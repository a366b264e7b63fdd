\* Two phones of two sessions with a chute each; nobody touches the laptop.
SPECIFICATION PhoneSpec
CONSTANTS
  d1 = d1
  d2 = d2
  s1 = s1
  s2 = s2
  CommonChute = 0
  Scope = {0, 1}
  Device = {d1, d2}
  Session = {s1, s2}
  DeviceSession <- TwoSessions
  SessionScope <- TwoChutes
  Request = {q1, q2, q3}
  DeskRow = {}
  Bib = {b1}
  Unread = Unread
  Excluded = Excluded
  MaxTime = 1
  MaxPlace = 3
  MaxNumber = 3
  DeskNumber = {}
  DeskTime = {}
  Pending = Pending
  None = None
SYMMETRY Ids
INVARIANTS
  TypeOK
  PlacesContiguous
  RequestOwnsRow
  BibOnce
  TimesFollowStart
PROPERTIES
  PhonesKeepALog
