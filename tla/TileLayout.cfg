SPECIFICATION Spec
CONSTANTS
  WarpIds = {0, 1, 2, 3}
  RowLanes <- MCRowLanes
INVARIANTS ScoresAreDotProducts OutputIsPTimesV StaysInItsBuffer
