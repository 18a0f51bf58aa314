SPECIFICATION FairSpec
CONSTANTS
  NoValue = NoValue
  None = None
  Callers = {p1, p2}
  Asked = {"ready", "health", "live", "version", "build", "metrics"}
  MaxClock = 2
INVARIANTS
  TypeOK
  UnreadyHasCause
  StrayClientHasCause
PROPERTIES
  ProbesAnswered
