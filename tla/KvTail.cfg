SPECIFICATION Spec
CONSTANTS
  SeqLensQ <- MCSeqLensQ
  SeqLensK <- MCSeqLensK
  MTiles = {0, 1}
  Rows <- MCRows
INVARIANT StagedRowsInSequence
