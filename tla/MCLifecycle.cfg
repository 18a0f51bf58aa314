SPECIFICATION FairSpec
CONSTANTS
  Callers = {c1, c2, c3}
  None = None
INVARIANTS
  TypeOK
  TeardownInOrder
  ExitCodeTellsCause
  OnlyHungUpLoseCommands
PROPERTIES
  ImplementsOrderlyExit
  TriggerLeadsToExit
