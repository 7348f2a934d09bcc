SPECIFICATION Spec
CONSTANTS
  Waves = {w0, w1, w2, w3}
  MaxTiles = 2
  CopyIssues = 4
  StoreIssues = 2
  QLoads = 4
  WaitsSinkPast = {"fence_half0"}
SYMMETRY WaveSymmetry
INVARIANTS TypeOK NoWriteUnderRead BarrierMatched ReadsSeeTheirOperand
