SPECIFICATION Spec
CONSTANTS
  MaxTiles = 2
  Regs = {1}
  Scores <- MCDeepScores
  Seed <- MCSeed
  ExpMin <- MCExpMin
  NegInf = NegInf
INVARIANT ZeroSumMeansMasked
