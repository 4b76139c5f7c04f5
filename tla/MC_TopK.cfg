SPECIFICATION Spec
CONSTANTS
  vertices_cnt = 6
  TOPK_K = 3
  SORT_STACK_LEN = 6
  Value <- ThreeRanks
INVARIANTS TopKInv TopSorted
PROPERTY Prints
