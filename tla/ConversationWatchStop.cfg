SPECIFICATION Spec
CONSTANTS
  f1 = f1
  f2 = f2
  d1 = d1
  File = {f1}
  Dir = {d1}
  DirOf <- OneDir
  Timer = {t1, t2, t3}
  NoFile = NoFile
  NoTimer = NoTimer
  Idle = Idle
  Exited = Exited
  QueueCap = 1
  KernelCap = 1
  MaxWrites <- Writes
INVARIANT
  StopIsClean
