CONSTANTS
  c1 = c1
  c2 = c2
  c3 = c3
  t1 = t1
  t2 = t2
  d1 = d1
  NULL = NULL
  Entry <- AllWork
  Channel <- OneChannel
  Thread = {t1, t2}
  Circ = {c1, c2}
  NtorCirc = {c1}
  Closers = {c1, c2}
  OtherWork = {d1}
  Priority = {0, 2}
  High = 0
  Low = 2
  MaxGeneration = 2
  MaxPending = 2
  AlwaysRoom = 1
  NumNTorsPerTAP = 1
SYMMETRY Symmetry
INIT CpuInit
NEXT CpuNext
INVARIANT WakeupPending
INVARIANT NoLostSignal
INVARIANT UpdateArgsOwned
INVARIANT JobsHaveCircuits
PROPERTY StartsUpToDate
PROPERTY ImplementsWorkItems
