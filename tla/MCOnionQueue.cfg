CONSTANTS
  c1 = c1
  c2 = c2
  c3 = c3
  t1 = t1
  t2 = t2
  d1 = d1
  NULL = NULL
  Entry <- AllWork
  Channel <- OneChannel
  Thread = {t1}
  Circ = {c1, c2, c3}
  NtorCirc = {c1, c3}
  Closers = {c1, c3}
  OtherWork = {}
  Priority = {0}
  High = 0
  Low = 0
  MaxGeneration = 1
  MaxPending = 1
  AlwaysRoom = 1
  NumNTorsPerTAP = 1
SPECIFICATION CpuSpec
INVARIANT PendingTasksCounted
INVARIANT OnionQueueConsistent
INVARIANT AnswerableHaveChannel
PROPERTY OnlyCancellingWastesRoom
PROPERTY JobsComeBack
PROPERTY UpdatesReachThreads
PROPERTY WaitingServed
