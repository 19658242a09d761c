\* Two runs of one column each, or one of two columns, over one run slot, one column
\* slot and a channel of two places: queueing, refusal, disconnect at every point,
\* early return, dropped events and terminators, and the ledger. On the page two turns over
\* one or both of two columns, and transcripts of one pair. On the
\* timeline two model calls of two chunks, and two events that wait in the stream.
SPECIFICATION ArenaSpec
CONSTANTS
  r1 = r1  r2 = r2  c1 = c1  c2 = c2
  Runs <- TwoRuns
  Columns <- TwoColumns
  Lineups <- Both
  RunSlots = 1
  ColumnSlots = 1
  Capacity = 2
  MaxSteps = 1
  Labels = {l1, l2}
  Selections = {{l1}, {l1, l2}}
  Eventful = {l1}
  MaxRuns = 2
  MaxPairs = 1
  MaxCalls = 2
  MaxChunks = 2
  MaxTools = 1
  MaxWaiting = 2
INVARIANTS
  ArenaTypeOK
  SlotsConserved
  RunsToldAndShown
  NothingLeftBehind
PROPERTIES
  EverythingEnds
CHECK_DEADLOCK FALSE
