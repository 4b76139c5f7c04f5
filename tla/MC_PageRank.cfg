SPECIFICATION Spec
CONSTANTS
  N_LONG_PAGE = 2
  Processors = 2
  VERTICES_MAX_CNT = 6
  IN_NEIGHBORS_MAX_LEN = 18
  Scale = 64
  MAX_ITER = 2
  PR_alpha = 32
  PR_initial = 64
  Inputs <- MCInputs
  cnt <- MCParts
INVARIANTS TypeOK GraphStored CacheSuffices
PROPERTIES WrittenOnce ImplementsPowerIteration
