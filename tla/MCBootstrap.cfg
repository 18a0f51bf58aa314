SPECIFICATION Spec
CONSTANTS
  Environments <- MCEnvironments
  Unset = Unset
  NaN = NaN
  Faults = {"package_missing", "port_taken"}
INVARIANTS
  TypeOK
  BootEndsForCause
  
