SPECIFICATION FairSpec
CONSTANTS
  c1 = c1
  c2 = c2
  c3 = c3
  t1 = t1
  t2 = t2
  NULL = NULL
  Job <- MCCirc
  Thread <- MCThread
  Ntor <- MCNtor
  MaxUpdates = 1
  MaxChanges = 1
  NtorsPerTap = 1
  AlwaysRoom = 1
  TaskLimits <- MCTaskLimits
INVARIANTS
  TypeOK
  OnionQueueExact
  TapTurn
  JobRefsValid
  TasksExact
  NoIdleWorker
  NoLostAlert
PROPERTIES
  JobsAnswered
  QueueMoves
  KeysFresh
