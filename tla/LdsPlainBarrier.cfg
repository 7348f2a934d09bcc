SPECIFICATION Spec
CONSTANTS
  Waves = {w0, w1, w2}
  MaxTiles = 3
  CopyIssues = 2
  StoreIssues = 2
  QLoads = 1
  WaitsSinkPast = {"advance"}
SYMMETRY WaveSymmetry
INVARIANT NoWriteUnderRead
