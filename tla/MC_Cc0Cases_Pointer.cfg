CONSTANTS
  W = 2
  StackTop = 140
  NewrMetadata = 510
  NewStack = 500
  Fuel = 12
  Sources <- PointerSources
  Programs <- GeneratedBodies
  Inputs <- CaseInputs
  Fills <- CaseFills
SPECIFICATION CSpec
INVARIANT SameMeaning
