SPECIFICATION Spec
CONSTANTS
  Callers = {c1, c2}
  None = None
INVARIANTS
  QueriesFinishBeforeExit
