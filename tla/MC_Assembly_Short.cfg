CONSTANTS
  W = 2
  StackTop = 140
  NewrMetadata = 510
  NewStack = 500
  TextStart = 1000
  Targets = {"i0", "disa"}
  Sources <- ShortSources
  Programs <- GeneratedBodies
  Units <- LinkedUnits
  Absent <- NoneAbsent
  Inputs <- MCInputs
  Fills <- MCFills
SPECIFICATION ASpec
INVARIANT TargetsInPlace
