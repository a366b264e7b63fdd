SPECIFICATION MCSpec
CONSTANTS
  ann = ann
  bea = bea
  Name = {ann, bea}
  Typed = {0, 2}
  File <- MCFile
  Roster <- MCRoster
  Start = {2}
  MaxId = 5
  MaxBib = 12
  Desk = {c1, c2}
  MaxSteps = 3
  e1 = e1
  e2 = e2
  r1 = r1
  r2 = r2
  r3 = r3
  r4 = r4
  Race = {e1, e2}
  FirstRace = e1
  Runner = {r1, r2, r3, r4}
  Registered <- MCRegistered
  Gender <- MCGender
  Age <- MCAge
  Config <- MCConfig
  DefaultConfig <- MCDefault
  Slot = {s1, s2}
  MaxChanges = 1
  None = None
INVARIANTS OfficeTypeOK AwardsAreFair StandingsAgree
PROPERTIES FileIsImported ImportOnce BoardCatchesUp
CHECK_DEADLOCK FALSE
