SPECIFICATION WalkSpec
CONSTANTS
  SeqLensQ <- MCSeqLensQ
  SeqLensK <- MCSeqLensK
  MTiles = {0, 1}
  Rows <- MCRows
  Modulus <- MCModulus
  Strides <- MCStrides
  ChunkRows = {0, 1, 17, 46, 63, 127}
INVARIANTS TypeOK AttendsExactly NoTileInVain ReadsFindTheirRow StoresFindTheirRow
