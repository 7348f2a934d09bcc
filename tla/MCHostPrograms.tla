--------------------------- MODULE MCHostPrograms ---------------------------
(***************************************************************************)
(* Both programs, with 0 to 3 warmup launches and 1 or 3 timed ones; two    *)
(* threads verify rows of two elements, each kind chosen to fail one test of *)
(* the verdict and pass the others.                                        *)
(***************************************************************************)
EXTENDS HostPrograms

MCTolRel == [n |-> 1, d |-> 5]
MCTolCos == [n |-> 9, d |-> 10]

MCShapes == {<<1, <<2, 0, 1>>>>, <<2, <<1, 0>>>>}

MCOutputs ==
  {<<<<4, 1>>, <<4, 1>>>>,     \* exact
   <<<<12, 0>>, <<14, 0>>>>,   \* absolute error only
   <<<<4, 0>>, <<5, 0>>>>,     \* relative error only
   <<<<1, 1>>, <<1, 0>>>>,     \* cosine only
   <<<<1, 0>>, <<0, 0>>>>,     \* all zero
   <<<<4, 0>>, <<NaN, 0>>>>, <<<<4, 1>>, <<4, Inf>>>>}
=============================================================================
