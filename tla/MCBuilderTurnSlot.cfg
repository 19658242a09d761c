\* One session: does every conflict have a live turn behind it?
SPECIFICATION Spec
CONSTANTS
  Requests = {1, 2}
  Summary = Summary
  Capacity = 2
  MaxNotices = 1
  MaxHistory = 2
  MaxSwaps = 1
  MaxSteps = 1
INVARIANTS
  ConflictMeansTurn
CHECK_DEADLOCK FALSE
