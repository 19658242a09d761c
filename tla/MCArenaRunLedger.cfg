\* One run: is the session closed whenever the stream is?
SPECIFICATION Spec
CONSTANTS
  r1 = r1  r2 = r2  c1 = c1  c2 = c2
  Runs <- TwoRuns
  Columns <- TwoColumns
  Lineups <- OnlyTogether
  RunSlots = 1
  ColumnSlots = 1
  Capacity = 8
  MaxSteps = 1
INVARIANTS
  ClosedStreamClosesSession
CHECK_DEADLOCK FALSE
