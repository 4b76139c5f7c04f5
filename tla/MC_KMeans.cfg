SPECIFICATION Spec
CONSTANTS
  N = 4
  PSIZE = 2
  K = 2
  N_LONG_PAGE = 2
  MAX_ITER = 2
  Processors = 2
  Dims = {1}
  Half = 32768
  Inputs <- MCInputs
  Programs = {"kmeans-stdin", "kmeans-from-pmem"}
  Unset = Unset
  Disabled = Disabled
INVARIANTS TypeOK PartsApart OneRunnerPerPart CommitsAreCurrent
PROPERTIES ImplementsLloyd ComesToRest
