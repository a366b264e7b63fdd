SPECIFICATION MCSpec
CONSTANTS
  Event = {e0, e1}
  FirstEvent = e0
  Bib = {b1, n1}
  Placeholder = {n1}
  Excluded = gp
  Call = {c1}
  MaxPlace = 3
  MaxActs = 3
  Time = {t1}
  MaxPulse = 4
  None = None
INVARIANT DeskTypeOK
PROPERTIES
  ReplacesSeenOnlyAsAsked RescanKeepsOriginal ScreenCatchesUp
  EditKeepsPlace TimesAppend
