SPECIFICATION ComponentSpec
CONSTANTS
  Cases <- MCCases
  Tids <- MCTids
  SyncDrainsStores = TRUE
  RowCases <- MCRowCases
  RowTids <- MCRowTids
INVARIANTS DumpIsOracle GemmIsOracle StagesLikeFusedKernel RowReductionsAreOracle EpilogIsOracle
