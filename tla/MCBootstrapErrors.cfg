SPECIFICATION Spec
CONSTANTS
  Environments <- SoundEnvironment
  Unset = Unset
  NaN = NaN
  Faults = {}
INVARIANTS
  ErrorsReachTheBoundary
