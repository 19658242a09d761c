\* Five calls for two permits and a queue of two; two receivers, a buffer of two and
\* six pushes; three batches of up to two questions under two keys; three columns on
\* two or three endpoints, a registry of two, a threshold of two and a clock of two.
SPECIFICATION RuntimeSpec
CONSTANTS
  a1 = a1  a2 = a2  a3 = a3  a4 = a4  a5 = a5
  Acquirers <- MCAcquirers
  Permits = 2
  MaxQueued = 2
  c1 = c1  c2 = c2
  Receivers <- MCReceivers
  Capacity = 2
  MaxPush = 6
  Batches = 3
  Keys = {k1, k2}
  Questions = {"q1", "q2"}
  Columns = 3
  Endpoints = 3
  Threshold = 2
  Cooldown = 1
  MaxSize = 2
  MaxReports = 3
  MaxTime = 2
INVARIANTS
  RuntimeTypeOK
  PermitsConserved
  NoLostWakeup
  StreamIntact
  AnswersArrive
  BreakersTellHistory
PROPERTIES
  AdmissionSpec
  EveryWaitEnds
CHECK_DEADLOCK FALSE
