SPECIFICATION Spec
CONSTANTS
  f1 = f1
  f2 = f2
  c1 = c1
  c2 = c2
  u1 = u1
  u2 = u2
  s1 = s1
  File = {f1, f2}
  Removable = {f2}
  Conv = {c1}
  ConvOf <- OneConv
  Uuid = {u1, u2}
  Textual = {u1}
  Content <- Messages
  Session = {s1}
  SessionOf <- InNoSession
  NoSession = NoSession
  None = None
  MaxWrites <- Writes
  MaxFailures = 1
INVARIANTS
  SnapshotConsistent
  StaleIsNoticed
CHECK_DEADLOCK FALSE
