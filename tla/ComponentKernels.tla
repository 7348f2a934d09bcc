-------------------------- MODULE ComponentKernels --------------------------
(***************************************************************************)
(* One of the seven component kernels, each checked against its oracle:    *)
(* those that stage in LDS (LdsKernels) or those of one row (RowKernels).  *)
(***************************************************************************)
EXTENDS LdsKernels

CONSTANTS RowCases, RowTids

ASSUME RowAssumption ==
  /\ RowTids \subseteq {t \in 0..255 : t % 64 < 32}
  /\ RowCases \subseteq [kernel : {"row_max", "softmax", "epilog"},
                         seqlen_q : Nat, seqlen_k : Nat, kv_offset : Nat,
                         rsum_is_zero : BOOLEAN, dump : BOOLEAN]

VARIABLES
  family,  \* "lds" or "row"
  row_case, tid0, step, local_max, rmax, p, rsum, o_norm, o_final, o_dram

row_vars == <<row_case, tid0, step, local_max, rmax, p, rsum, o_norm, o_final, o_dram>>

Row == INSTANCE RowKernels

\* The family that is not followed stays at one initial state.
LdsInit ==
  /\ family = "lds" /\ Init
  /\ row_case = << >> /\ tid0 = 0 /\ step = "unused"
  /\ local_max = << >> /\ rmax = << >> /\ p = << >> /\ rsum = << >>
  /\ o_norm = << >> /\ o_final = << >> /\ o_dram = << >>

RowInit ==
  /\ family = "row" /\ Row!Init
  /\ case = [kernel |-> "none"] /\ pc = [w \in Warps |-> "zero"]
  /\ zeroed = {} /\ inflight = {} /\ intact = << >> /\ seen = << >>

LdsStep == family = "lds" /\ Next /\ UNCHANGED <<family, row_vars>>
RowStep == family = "row" /\ Row!Next /\ UNCHANGED <<family, vars>>

ComponentSpec ==
  /\ LdsInit \/ RowInit
  /\ [][LdsStep \/ RowStep]_<<family, vars, row_vars>>

-----------------------------------------------------------------------------
(* Properties                                                              *)

\* Both lanes of a row end with the oracle's maximum, probabilities and sum, on
\* full and partial tiles (row_max.hpp, softmax.hpp).
RowReductionsAreOracle == Row!RowReductionsAreOracle

\* The epilogue leaves in DRAM, and in the optional dump, what the oracle does
\* (epilog.hpp).
EpilogIsOracle == Row!EpilogIsOracle
=============================================================================
