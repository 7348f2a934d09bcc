SPECIFICATION Spec
CONSTANTS
  MaxTiles = 3
  Regs = {1}
  Scores <- MCScores
  Seed <- MCSeed
  ExpMin <- MCExpMin
  NegInf = NegInf
INVARIANTS TypeOK HalvesAgree RunningSoftmax NoTermAboveOne LseIsLogSumExp
