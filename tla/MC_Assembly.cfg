CONSTANTS
  W = 2
  StackTop = 140
  NewrMetadata = 510
  NewStack = 500
  TextStart = 1000
  Targets = {"i0", "disa"}
  Sources <- MCSources
  Programs <- GeneratedBodies
  Units <- LinkedUnits
  Absent <- MCAbsent
  Inputs <- MCInputs
  Fills <- MCFills
SPECIFICATION ASpec
INVARIANTS ATypeOK TextExact AllResolved HeadersTellApart
PROPERTIES ImplementsMachine
