SPECIFICATION FairSpec
CONSTANTS
  Waves = {w0, w1}
  MaxTiles = 3
  CopyIssues = 4
  StoreIssues = 2
  QLoads = 4
  WaitsSinkPast = {"fence_half0"}
PROPERTIES ImplementsBlockDataflow EveryWaveEnds
