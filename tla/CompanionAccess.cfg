\* Two races in two files that the operator switches between, one of them with an
\* event; two sessions, two phones, two grants, and the clock past both lifetimes.
SPECIFICATION Spec
CONSTANTS
  f1 = f1
  f2 = f2
  r1 = r1
  r2 = r2
  e1 = e1
  File = {f1, f2}
  Race = {r1, r2}
  Event = {e1}
  RaceFile <- TwoRaceFile
  EventRace <- OneEventRace
  DuplicateBibRace = {r1}
  CommonChute = CommonChute
  Session = {s1, s2}
  Device = {d1, d2}
  Grant = {g1, g2}
  Code = {c1}
  SessionTTL = 2
  GrantTTL = 1
  MaxClock = 3
  Nil = Nil
  Closed = Closed
  None = None
SYMMETRY Ids
INVARIANTS
  TypeOK
  OneActiveSessionPerRace
  OneRolePerDevice
  GrantPairsOnce
  GrantedWithinSession
PROPERTIES
  RolesChangeHands
  DeadSessionsGainNothing
