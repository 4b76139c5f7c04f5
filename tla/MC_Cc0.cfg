CONSTANTS
  W = 2
  StackTop = 140
  NewrMetadata = 510
  NewStack = 500
  Fuel = 12
  Sources <- PoolSources
  Programs <- GeneratedBodies
  Inputs <- MCInputs
  Fills <- MCFills
SPECIFICATION CSpec
INVARIANTS SameMeaning CallsBalanced ReturnAddressesKept RunnersAsWritten
PROPERTIES WritesStayInside RunnerEnds
