\* Two threads, two fresh names and three turns or columns over a registry of two
\* places, with a restart: eviction, refusal, forks and early leaves all happen. On
\* the page two agents and two messages, with two reads under way when the user acts.
SPECIFICATION ConversationsSpec
CONSTANTS
  None = None
  Threads = {t1, t2}
  Scratch = {w1, w2}
  Turns = {q1, q2, q3}
  MaxWorkspaces = 2
  MaxRestarts = 1
  MaxAgents = 2
  MaxSent = 2
  MaxReads = 2
CHECK_DEADLOCK FALSE
SYMMETRY Symmetry
INVARIANTS ConversationsTypeOK HoldsMatchHolders RoomIsMadeFairly CopiedTreeIsStill RunningTellsTruth BuilderPageTellsTruth
PROPERTY PinnedStays
