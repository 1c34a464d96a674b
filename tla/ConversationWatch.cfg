SPECIFICATION FairSpec
CONSTANTS
  f1 = f1
  f2 = f2
  d1 = d1
  File = {f1, f2}
  Dir = {d1}
  DirOf <- OneDir
  Timer = {t1, t2}
  NoFile = NoFile
  NoTimer = NoTimer
  Idle = Idle
  Exited = Exited
  QueueCap = 1
  KernelCap = 1
  MaxWrites <- Writes
INVARIANTS
  TypeOK
  EntriesAreLive
  NoLostEvent
PROPERTIES
  ObservedIsRead
  EntriesAreDeleted
  ImplementsDirtyFiles
