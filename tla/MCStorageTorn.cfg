\* A line torn by a crash, and what it costs the next one.
SPECIFICATION Safety
CONSTANTS
  Calls = 4
  None = None
  Corrupt = Corrupt
  Checkpoint = Checkpoint
  MaxSessions = 1
  MaxEntries = 2
  Budget = 2
  Outcomes = {"completed"}
  MaxUpsets = 2
  Readers = {d1}
  MaxRecords = 2
  MaxCommits = 2
  MaxMishaps = 1
  MaxWrites = 1
  MaxFaults = 0
  Turns = {}
  MaxFailures = 0
INVARIANTS
  TornTailLosesInFlightOnly
CHECK_DEADLOCK FALSE
