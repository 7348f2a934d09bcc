SPECIFICATION Spec
CONSTANTS
  Programs = {"bench", "test"}
  Warmups = {0, 1, 3}
  Iters = {1, 3}
  CallsMayFail = TRUE
  LaunchMayFail = FALSE
  Threads = {1, 2}
  Chunk = 2
  Shapes <- MCShapes
  Outputs <- MCOutputs
  NaN = NaN
  Inf = Inf
  Infinity = 1000
  tol_abs = 1
  ref_floor = 4
  tol_rel <- MCTolRel
  tol_cos <- MCTolCos
INVARIANTS TimesOneKernel KernelsHaveTheirBuffers VerifiesResults VerdictIsSequential WorstIsWhereItSays
