---------------------------- MODULE HostPrograms ----------------------------
(***************************************************************************)
(* The host programs with the threads they start: where HostRun calls      *)
(* cpu_ref_verify, the team of CpuVerify runs to its verdict, while the    *)
(* device may still work off its queue.                                    *)
(***************************************************************************)
EXTENDS HostRun

CONSTANTS Threads, Chunk, Shapes, Outputs, NaN, Inf, Infinity,
          tol_abs, ref_floor, tol_rel, tol_cos

ASSUME VerifyAssumption ==
  /\ Threads # {} /\ Chunk \in Nat \ {0}
  /\ Infinity \in Nat /\ tol_abs \in Nat /\ ref_floor \in Nat \ {0}
  /\ tol_rel \in [n : Nat, d : Nat \ {0}]
  /\ Shapes \subseteq (Nat \ {0}) \X Seq(Nat)
  /\ Outputs \subseteq Seq(Int) \X Seq(Int \cup {NaN, Inf})
  /\ \A o \in Outputs : Len(o[1]) = Len(o[2]) /\ Len(o[1]) > 0

VARIABLES shape, output, next, todo, phase, private, total, verdict

team == <<shape, output, next, todo, phase, private, total, verdict>>
all  == <<vars, team>>

Team == INSTANCE CpuVerify WITH pc <- phase

-----------------------------------------------------------------------------

NoTeam ==
  /\ shape = << >> /\ output = << >> /\ next = 0
  /\ todo = [t \in Threads |-> << >>] /\ phase = [t \in Threads |-> "idle"]
  /\ private = [t \in Threads |-> Team!Zero] /\ total = Team!Zero
  /\ verdict = "none"

ProgramsInit == Init /\ NoTeam

\* The parallel region is entered, on some output of the kernel.
StartTeam ==
  /\ pc = "verify" /\ shape = << >>
  /\ Team!Enter
  /\ UNCHANGED vars

TeamStep(t) == pc = "verify" /\ Team!Step(t) /\ UNCHANGED vars

\* The verdict is given and cpu_ref_verify returns.
ReportVerdict == pc = "verify" /\ Team!Report /\ Verify

Main == StartTeam \/ ReportVerdict \/ (Host /\ UNCHANGED team)

Next ==
  \/ Main
  \/ \E t \in Threads : TeamStep(t)
  \/ Execute /\ UNCHANGED team
  \/ Finished /\ UNCHANGED team

Spec == ProgramsInit /\ [][Next]_all

-----------------------------------------------------------------------------
(* Properties                                                              *)

\* The verdict is that of comparing every element of every row once, whatever
\* the schedule and the order of the merges (cpu_ref.cpp).
VerdictIsSequential == Team!VerdictIsSequential

\* The worst element and the worst cosine are where the statistics say, in
\* every thread and in the merged result (cpu_ref.cpp).
WorstIsWhereItSays == Team!WorstIsWhereItSays
=============================================================================
