SPECIFICATION ClientSpec
CONSTANTS
  Callers = {c1, c2}
  None = None
INVARIANTS
  Singleton
CHECK_DEADLOCK FALSE
