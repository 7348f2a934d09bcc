SPECIFICATION Spec
CONSTANTS
  WarpIds = {0, 1, 2, 3}
  RowLanes = {0}
INVARIANT UniversalTransposedC
