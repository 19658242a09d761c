\* Three requests on one session, chat or compaction each, with aborts, disconnects
\* and deletion, the third turn trimmed by the history cap; and two requests over a
\* chunk channel of one place with two hot-swaps over a notice queue of one.
SPECIFICATION MCSpec
CONSTANTS
  Requests = {1, 2, 3}
  Summary = Summary
  Capacity = 1
  MaxNotices = 1
  MaxHistory = 2
  MaxSwaps = 2
  MaxSteps = 1
INVARIANTS
  TypeOK
  OneDriver
  SnapshotHolds
  HistoryTold
  SwapsAnnounced
PROPERTIES
  SlotIsFreed
CHECK_DEADLOCK FALSE
