----------------------------- MODULE CpuVerify -----------------------------
(***************************************************************************)
(* cpu_ref_verify: the rows of O compared with the reference by a team of  *)
(* threads, each with statistics of its own, merged in a critical section, *)
(* and the verdict.  Elements are small integers, in units the tolerances  *)
(* are stated in; the reference row itself is data here.                   *)
(***************************************************************************)
EXTENDS Integers, Sequences, FiniteSets

CONSTANTS
  Threads,         \* the team
  Chunk,           \* (batch, head) pairs a thread takes at a time (16)
  Shapes,          \* <<Hq, lengths of the sequences>> to choose from
  Outputs,         \* <<reference, kernel>> rows to choose from
  NaN, Inf,        \* elements of a kernel row that are no numbers
  Infinity,        \* an error above all others
  tol_abs, ref_floor,
  tol_rel, tol_cos \* fractions; tol_cos of the squared cosine

VARIABLES
  shape, output,   \* output[row]: the rows to compare
  next,            \* first pair no thread has taken
  todo,            \* rows of the pairs a thread has taken, in order
  pc,              \* pc[t]: "loop", "barrier", "merged"
  private,         \* statistics of each thread
  total,           \* the merged ones
  verdict          \* "none" until it is given, then "OK" or "FAIL"

vars == <<shape, output, next, todo, pc, private, total, verdict>>

Hq        == shape[1]
get_sq(b) == shape[2][b + 1]
B         == Len(shape[2])
RowsOf(s) == UNION {{b} \X (0..s[1] - 1) \X (0..s[2][b + 1] - 1) : b \in 0..Len(s[2]) - 1}
Nowhere   == << >>

-----------------------------------------------------------------------------
(* One element, one row                                                    *)

ref(row, d)  == output[row][1][d]
kern(row, d) == output[row][2][d]
Dims(row)    == 1..Len(output[row][1])

Magnitude(x) == IF x < 0 THEN 0 - x ELSE x
Finite(x)    == x # NaN /\ x # Inf

abs_err(row, d) ==
  IF Finite(kern(row, d)) THEN Magnitude(ref(row, d) - kern(row, d)) ELSE Infinity

Fraction(n, d) == [n |-> n, d |-> d]
Less(x, y)     == x.n * y.d < y.n * x.d

Zero == [max_abs |-> 0, at |-> Nowhere, max_rel |-> Fraction(0, 1),
         mismatch |-> 0, rel_counted |-> 0, elems |-> 0, nonfinite |-> 0,
         cos_rows |-> 0, cos_fail |-> 0, cos_worst |-> Fraction(1, 1), cos_at |-> Nowhere]

One(condition) == IF condition THEN 1 ELSE 0

\* Element d of a row.
WithElement(s, row, d) ==
  LET err     == abs_err(row, d)
      counted == Magnitude(ref(row, d)) >= ref_floor
      rel     == Fraction(err, Magnitude(ref(row, d)))
  IN  [s EXCEPT
         !.max_abs     = IF err > s.max_abs THEN err ELSE s.max_abs,
         !.at          = IF err > s.max_abs THEN <<row, d>> ELSE s.at,
         !.max_rel     = IF counted /\ Less(s.max_rel, rel) THEN rel ELSE s.max_rel,
         !.mismatch    = s.mismatch + One(err > tol_abs),
         !.rel_counted = s.rel_counted + One(counted),
         !.elems       = s.elems + 1,
         !.nonfinite   = s.nonfinite + One(~Finite(kern(row, d)))]

SumTo(n, f(_)) ==
  LET sum[d \in 0..n] == IF d = 0 THEN 0 ELSE sum[d - 1] + f(d)
  IN  sum[n]

\* denom > 0: neither norm is zero and none is NaN.
CosineDefined(row) ==
  /\ \A d \in Dims(row) : kern(row, d) # NaN
  /\ \E d \in Dims(row) : ref(row, d) # 0
  /\ \E d \in Dims(row) : kern(row, d) # 0

\* The square of the cosine, with its sign.
Cosine(row) ==
  LET width  == Len(output[row][1])
      dot    == SumTo(width, LAMBDA d : ref(row, d) * kern(row, d))
      norm_r == SumTo(width, LAMBDA d : ref(row, d) * ref(row, d))
      norm_k == SumTo(width, LAMBDA d : kern(row, d) * kern(row, d))
  IN  Fraction(dot * Magnitude(dot), norm_r * norm_k)

\* A row with an infinity has a NaN for a cosine: counted, never compared.
WithCosine(s, row) ==
  LET compared == CosineDefined(row) /\ \A d \in Dims(row) : Finite(kern(row, d))
      worse    == compared /\ Less(Cosine(row), s.cos_worst)
  IN  [s EXCEPT
         !.cos_rows  = s.cos_rows + One(CosineDefined(row)),
         !.cos_fail  = s.cos_fail + One(compared /\ Less(Cosine(row), tol_cos)),
         !.cos_worst = IF worse THEN Cosine(row) ELSE s.cos_worst,
         !.cos_at    = IF worse THEN row ELSE s.cos_at]

WithRow(s, row) ==
  LET upto[d \in 0..Len(output[row][1])] ==
        IF d = 0 THEN s ELSE WithElement(upto[d - 1], row, d)
  IN  WithCosine(upto[Len(output[row][1])], row)

\* Mutant of Merged: the worst location is overwritten whenever a thread has one.
MergedLastWins(g, t) ==
  [g EXCEPT
     !.max_abs     = IF t.max_abs > g.max_abs THEN t.max_abs ELSE g.max_abs,
     !.at          = IF t.at # Nowhere THEN t.at ELSE g.at,
     !.max_rel     = IF Less(g.max_rel, t.max_rel) THEN t.max_rel ELSE g.max_rel,
     !.cos_worst   = IF Less(t.cos_worst, g.cos_worst) THEN t.cos_worst ELSE g.cos_worst,
     !.cos_at      = IF Less(t.cos_worst, g.cos_worst) THEN t.cos_at ELSE g.cos_at,
     !.mismatch    = g.mismatch + t.mismatch,
     !.rel_counted = g.rel_counted + t.rel_counted,
     !.elems       = g.elems + t.elems,
     !.nonfinite   = g.nonfinite + t.nonfinite,
     !.cos_rows    = g.cos_rows + t.cos_rows,
     !.cos_fail    = g.cos_fail + t.cos_fail]

\* What the critical section makes of the global and a thread's statistics.
Merged(g, t) ==
  [g EXCEPT
     !.max_abs     = IF t.max_abs > g.max_abs THEN t.max_abs ELSE g.max_abs,
     !.at          = IF t.max_abs > g.max_abs THEN t.at ELSE g.at,
     !.max_rel     = IF Less(g.max_rel, t.max_rel) THEN t.max_rel ELSE g.max_rel,
     !.cos_worst   = IF Less(t.cos_worst, g.cos_worst) THEN t.cos_worst ELSE g.cos_worst,
     !.cos_at      = IF Less(t.cos_worst, g.cos_worst) THEN t.cos_at ELSE g.cos_at,
     !.mismatch    = g.mismatch + t.mismatch,
     !.rel_counted = g.rel_counted + t.rel_counted,
     !.elems       = g.elems + t.elems,
     !.nonfinite   = g.nonfinite + t.nonfinite,
     !.cos_rows    = g.cos_rows + t.cos_rows,
     !.cos_fail    = g.cos_fail + t.cos_fail]

pass(s) == /\ s.mismatch = 0 /\ s.nonfinite = 0 /\ s.cos_fail = 0
           /\ ~(s.rel_counted > 0 /\ Less(tol_rel, s.max_rel))

-----------------------------------------------------------------------------
(* Actions                                                                 *)

\* The team enters the parallel region, with some rows to compare.
Enter ==
  /\ shape' \in Shapes /\ output' \in [RowsOf(shape') -> Outputs]
  /\ next' = 0
  /\ todo' = [t \in Threads |-> << >>]
  /\ pc' = [t \in Threads |-> "loop"]
  /\ private' = [t \in Threads |-> Zero]
  /\ total' = Zero
  /\ verdict' = "none"

\* The rows of the pairs first..last of the collapsed loop.
RowsOfPairs(first, last) ==
  LET rows(n) == [i \in 1..get_sq(n \div Hq) |-> <<n \div Hq, n % Hq, i - 1>>]
      upto[n \in (first - 1)..last] ==
        IF n = first - 1 THEN << >> ELSE upto[n - 1] \o rows(n)
  IN  upto[last]

\* Mutant of Take: chunks overlap by one pair.
TakeOverlapping(t) ==
  /\ pc[t] = "loop" /\ todo[t] = << >> /\ next < B * Hq
  /\ LET beyond == IF next + Chunk < B * Hq THEN next + Chunk ELSE B * Hq
     IN  /\ todo' = [todo EXCEPT ![t] = RowsOfPairs(IF next = 0 THEN 0 ELSE next - 1, beyond - 1)]
         /\ next' = beyond
  /\ UNCHANGED <<shape, output, pc, private, total, verdict>>

\* schedule(dynamic): an idle thread takes the next chunk of pairs.
Take(t) ==
  /\ pc[t] = "loop" /\ todo[t] = << >> /\ next < B * Hq
  /\ LET beyond == IF next + Chunk < B * Hq THEN next + Chunk ELSE B * Hq
     IN  /\ todo' = [todo EXCEPT ![t] = RowsOfPairs(next, beyond - 1)]
         /\ next' = beyond
  /\ UNCHANGED <<shape, output, pc, private, total, verdict>>

\* One row, into the thread's own statistics.
CompareRow(t) ==
  /\ pc[t] = "loop" /\ todo[t] # << >>
  /\ private' = [private EXCEPT ![t] = WithRow(private[t], Head(todo[t]))]
  /\ todo' = [todo EXCEPT ![t] = Tail(todo[t])]
  /\ UNCHANGED <<shape, output, next, pc, total, verdict>>

\* The barrier that ends the loop.
Arrive(t) ==
  /\ pc[t] = "loop" /\ todo[t] = << >> /\ next = B * Hq
  /\ pc' = [pc EXCEPT ![t] = "barrier"]
  /\ UNCHANGED <<shape, output, next, todo, private, total, verdict>>

\* The critical section.
MergeStats(t) ==
  /\ pc[t] = "barrier" /\ \A u \in Threads : pc[u] # "loop"
  /\ total' = Merged(total, private[t])
  /\ pc' = [pc EXCEPT ![t] = "merged"]
  /\ UNCHANGED <<shape, output, next, todo, private, verdict>>

Report ==
  /\ verdict = "none" /\ \A t \in Threads : pc[t] = "merged"
  /\ verdict' = IF pass(total) THEN "OK" ELSE "FAIL"
  /\ UNCHANGED <<shape, output, next, todo, pc, private, total>>

Step(t) == Take(t) \/ CompareRow(t) \/ Arrive(t) \/ MergeStats(t)

-----------------------------------------------------------------------------
(* Properties                                                              *)

Rows     == DOMAIN output
Elements == UNION {{row} \X Dims(row) : row \in Rows}
Errors   == {abs_err(e[1], e[2]) : e \in Elements}
Count(condition(_)) == Cardinality({row \in Rows : condition(row)})

\* What the merged statistics are for, of all rows at once.
MustFail ==
  \/ \E e \in Elements :
       \/ ~Finite(kern(e[1], e[2]))
       \/ abs_err(e[1], e[2]) > tol_abs
       \/ /\ Magnitude(ref(e[1], e[2])) >= ref_floor
          /\ Less(tol_rel, Fraction(abs_err(e[1], e[2]), Magnitude(ref(e[1], e[2]))))
  \/ \E row \in Rows :
       /\ CosineDefined(row) /\ \A d \in Dims(row) : Finite(kern(row, d))
       /\ Less(Cosine(row), tol_cos)

\* Whatever the schedule and the order of the merges, the verdict is that of
\* comparing every element of every row once (cpu_ref.cpp).
VerdictIsSequential ==
  verdict # "none" =>
    /\ verdict = IF MustFail THEN "FAIL" ELSE "OK"
    /\ total.elems = Cardinality(Elements)
    /\ total.mismatch = Cardinality({e \in Elements : abs_err(e[1], e[2]) > tol_abs})
    /\ total.nonfinite = Cardinality({e \in Elements : ~Finite(kern(e[1], e[2]))})
    /\ total.cos_rows = Count(CosineDefined)
    /\ \A err \in Errors : err <= total.max_abs

\* At all times, in every thread and in the merged statistics, the location
\* reported as the worst is a compared element with exactly the reported error,
\* and likewise the worst cosine.
WorstIsWhereItSays ==
  \A s \in {total} \cup {private[t] : t \in Threads} :
    /\ s.at = Nowhere <=> s.max_abs = 0
    /\ s.at # Nowhere => s.max_abs = abs_err(s.at[1], s.at[2])
    /\ s.cos_at # Nowhere => s.cos_worst = Cosine(s.cos_at)
=============================================================================
