\* Three calls to a server with two requests of its own; two shells, three sends of up to
\* one piece of output in a buffer of four; two jobs under a ceiling of one, five
\* characters against a buffer of three; two attempts of up to three answer events; a
\* framework with two requests, one paid completion and two events; a transcript of eight
\* messages with batches of two, against budgets that two to four of them exceed, so
\* that the messages that must stay can exceed one by themselves; a driver with two
\* branches of a plan, three attempts and two turns with up to two tools.
SPECIFICATION ToolsSpec
CONSTANTS
  Calls = 3
  ServerIds = {2, 4}
  Shells = 2
  Sends = 3
  Pieces = 1
  BufferCap = 4
  Jobs = 2
  MaxJobs = 1
  JobBuffer = 3
  Threshold = 1
  MaxOutput = 5
  MaxRetries = 2
  MaxSaid = 3
  Requests = 2
  TurnCap = 1
  MaxEvents = 2
  MaxLength = 8
  MaxBatch = 2
  Sizes = {1, 3}
  Window = 3
  KeepTurns = 2
  TailBudget = 2
  CharBudget = 5
  TokenBudget = 8
  CompactTarget = 4
  Words = {"w1", "w2"}
  Scores = {0, 1}
  Budgets = {0, 2}
  Width = 2
  Attempts = 3
  MaxReflexion = 2
  MaxRedirects = 2
  MaxBusy = 2
  MaxAsked = 2
INVARIANTS
  ToolsTypeOK
  CallsGetTheirReplies
  OutputIsToldOnce
  ChildrenTellTruth
  ColumnsEndWell
  CutsStaySound
PROPERTIES
  EveryToolEnds
CHECK_DEADLOCK FALSE
