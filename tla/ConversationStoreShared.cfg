SPECIFICATION Spec
CONSTANTS
  f1 = f1
  f2 = f2
  c1 = c1
  c2 = c2
  u1 = u1
  u2 = u2
  s1 = s1
  File = {f1, f2}
  Removable = {}
  Conv = {c1, c2}
  ConvOf <- TwoConvs
  Uuid = {u1}
  Textual = {u1}
  Content <- Copy
  Session = {s1}
  SessionOf <- AllInSession
  NoSession = NoSession
  None = None
  MaxWrites <- OneWrite
  MaxFailures = 1
SYMMETRY Swap
INVARIANTS
  TypeOK
  MessagesAreSearchable
  SessionMapComplete
CHECK_DEADLOCK FALSE
