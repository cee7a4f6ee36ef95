SPECIFICATION Spec
CONSTANTS
  a1 = a1
  a2 = a2
  s1 = s1
  c1 = c1
  stranger = stranger
  t1 = t1
  t2 = t2
  Adders = {a1, stranger}
  Scanners = {s1}
  Closers = {c1}
  Strangers = {stranger}
  TargetIds = {t1, t2}
INVARIANTS
  TypeOK
  LateRequestsRefused
  RepeatLinksNothing
  AcceptedScansLink
CHECK_DEADLOCK FALSE
