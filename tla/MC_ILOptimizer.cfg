CONSTANTS
  W = 2
  NewrMetadata = 510
  NewStack = 500
  Programs <- MCPrograms
SPECIFICATION Spec
INVARIANTS TypeOK CountsFresh
PROPERTIES ControlKept Terminates
CHECK_DEADLOCK FALSE
