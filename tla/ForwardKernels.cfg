SPECIFICATION KernelsSpec
CONSTANTS
  Problems <- MCProblems
  NaiveProblems <- MCNaiveProblems
  BlockDim = 3
  Slots = 2
  Rows <- MCRows
INVARIANTS TypeOK NoStrayStore HeavyFirst
PROPERTY ImplementsAttention
