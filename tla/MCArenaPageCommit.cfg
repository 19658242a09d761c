\* Two turns over one column: is a running turn always the one to be committed?
SPECIFICATION PageSpec
CONSTANTS
  Labels = {l1}
  Selections = {{l1}}
  Eventful = {l1}
  MaxRuns = 2
  MaxPairs = 1
INVARIANT RunningTurnIsPending
CHECK_DEADLOCK FALSE
