SPECIFICATION Spec
CONSTANTS
  Files = {a, b, c}
  Procs = {p1, p2}
  Others = {o}
  Old = old
  Public = public
  Aside = aside
  None = none
  p1 = p1
  p2 = p2
  a = a
  b = b
  c = c
  Plans <- OneMishap
INVARIANTS
  FailureChangesNothing
CHECK_DEADLOCK FALSE
