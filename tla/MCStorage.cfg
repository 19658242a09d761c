\* Four calls on a ledger of one session with two entries and a budget of two lines,
\* with two upsets; a builder session of two records and two turns with one mishap;
\* four writes of a JSON file with three faults; a shutdown and a crash with two turns
\* and one failure.
SPECIFICATION Spec
CONSTANTS
  Calls = 4
  None = None
  Corrupt = Corrupt
  Checkpoint = Checkpoint
  MaxSessions = 1
  MaxEntries = 2
  Budget = 2
  Outcomes = {"completed"}
  MaxUpsets = 2
  Readers = {d1}
  MaxRecords = 2
  MaxCommits = 2
  MaxMishaps = 1
  MaxWrites = 4
  MaxFaults = 3
  Turns = {t1, t2}
  MaxFailures = 1
INVARIANTS
  StoresTypeOK
  StoresSurvive
  LedgerFilesAgree
  JournalKept
  ExitKeepsTurns
PROPERTIES
  SavedOnlyMovesForward
  EveryWriteSettles
CHECK_DEADLOCK FALSE
