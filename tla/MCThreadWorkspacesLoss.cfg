\* A registry of one place: does a live thread's workspace keep its directory?
SPECIFICATION Spec
CONSTANTS
  None = None
  Threads = {t1, t2}
  Scratch = {w1, w2}
  Turns = {q1, q2}
  MaxWorkspaces = 1
  MaxRestarts = 0
CHECK_DEADLOCK FALSE
INVARIANT ThreadKeepsWorkspace
