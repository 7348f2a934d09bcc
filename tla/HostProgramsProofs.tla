------------------------- MODULE HostProgramsProofs -------------------------
(***************************************************************************)
(* What the host programs show, for any launches and any team of threads:  *)
(* the queue between host and device described by the statement of the     *)
(* host, and statistics by the rows they have been made of.                *)
(***************************************************************************)
EXTENDS HostPrograms, BasicFacts, SequenceTheorems

-----------------------------------------------------------------------------
(* The invariant of the host and its queue                                 *)

Commands == {"memset", "kernel", "start", "stop"}

Statements == CheckedAt \cup {"warmup", "launch", "verify", "free", "exit0", "exit1"}

\* Types of what the invariant speaks about.
HostTypes ==
  /\ program \in {"bench", "test"} /\ pc \in Statements
  /\ i \in Nat /\ iters \in Nat /\ warmup \in Nat
  /\ times \in Seq(Int)
  /\ queue \in Seq(Commands)
  /\ ran \in Nat
  /\ event \in [start : Int, stop : Int]

\* The statements only one of the programs has.
OwnStatements ==
  /\ pc \in {"warmup", "create", "record_start", "record_stop", "wait_stop", "elapsed", "destroy"}
       => program = "bench"
  /\ pc \in {"copy_from_device", "verify"} => program = "test"

\* The memset is enqueued first and executed before any kernel.
MemsetFirst == \A n \in 1..Len(queue) : queue[n] = "memset" => n = 1 /\ ran = 0

\* Where the host has waited for the device, or has given it nothing to do.
WaitedFor ==
  pc \in {"alloc", "copy_to_device", "create", "record_start", "elapsed", "destroy",
          "copy_from_device", "verify", "free", "exit0"}
    => queue = << >>

\* What is allocated, initialised and written.
Memory ==
  /\ pc \notin {"alloc", "copy_to_device", "exit0", "exit1"} => d_inputs = "random"
  /\ ~Idle => d_inputs = "random" /\ d_O # Unallocated
  /\ ran > 0 /\ d_O # Unallocated => d_O = "result"
  /\ pc \notin {"alloc", "exit0", "exit1"} => d_O # Unallocated
  /\ pc \in {"alloc", "copy_to_device"} => ran = 0

\* The launches that may follow one start record and precede its stop record.
Spans == IF LaunchMayFail THEN {0, 1} ELSE {1}

\* What is left of the current timed iteration in the queue, and what the
\* events say of what is not.
Iteration ==
  /\ pc = "launch" /\ program = "bench" =>
       \/ queue = <<"start">>
       \/ queue = << >> /\ event.start = ran
  /\ pc = "record_stop" =>
       \/ queue = <<"start", "kernel">>
       \/ queue = <<"start">> /\ 0 \in Spans
       \/ queue = <<"kernel">> /\ event.start = ran
       \/ queue = << >> /\ ran - event.start \in Spans
  /\ pc = "wait_stop" =>
       \/ queue = <<"start", "kernel", "stop">> /\ event.stop = Pending
       \/ queue = <<"start", "stop">> /\ 0 \in Spans /\ event.stop = Pending
       \/ queue = <<"kernel", "stop">> /\ event.start = ran /\ event.stop = Pending
       \/ queue = <<"stop">> /\ ran - event.start \in Spans /\ event.stop = Pending
       \/ queue = << >> /\ event.stop - event.start \in Spans
  /\ pc = "elapsed" => event.stop - event.start \in Spans
  /\ \A n \in 1..Len(times) : times[n] \in Spans

\* Once the test has launched, its kernel is in the queue or has run.
KernelIsSure ==
  ~LaunchMayFail /\ program = "test" =>
    /\ pc = "synchronize" => ran > 0 \/ \E n \in 1..Len(queue) : queue[n] = "kernel"
    /\ pc = "copy_from_device" => ran > 0
    /\ pc = "verify" => h_O = "result"

HostInv == /\ HostTypes /\ OwnStatements /\ MemsetFirst /\ WaitedFor
           /\ Memory /\ Iteration /\ KernelIsSure

-----------------------------------------------------------------------------
(* The queue                                                               *)

\* Enqueuing: the new command is the last, the others stay where they are.
LEMMA Enqueued ==
  ASSUME NEW q \in Seq(Commands), NEW c \in Commands
  PROVE  /\ Append(q, c) \in Seq(Commands)
         /\ Len(Append(q, c)) = Len(q) + 1
         /\ \A n \in 1..Len(q) : Append(q, c)[n] = q[n]
         /\ Append(q, c)[Len(q) + 1] = c
         /\ Append(q, c) # << >>
OBVIOUS

\* Executing: every other command moves up.
LEMMA Dequeued ==
  ASSUME NEW q \in Seq(Commands), q # << >>
  PROVE  /\ Head(q) \in Commands /\ Head(q) = q[1]
         /\ Tail(q) \in Seq(Commands)
         /\ Len(q) > 0 /\ Len(Tail(q)) = Len(q) - 1
         /\ \A n \in 1..Len(Tail(q)) : n + 1 \in 1..Len(q) /\ Tail(q)[n] = q[n + 1]
<1>1. Head(q) \in Commands /\ Tail(q) \in Seq(Commands) /\ Len(q) \in Nat
  OBVIOUS
<1>2. Head(q) = q[1] /\ Len(q) > 0
  OBVIOUS
<1>3. Len(Tail(q)) = Len(q) - 1
  BY <1>2
<1>4. ASSUME NEW n \in 1..Len(Tail(q)) PROVE n + 1 \in 1..Len(q) /\ Tail(q)[n] = q[n + 1]
  BY <1>1, <1>2, <1>3
<1>. QED BY <1>1, <1>2, <1>3, <1>4

\* A command behind one.
LEMMA EnqueuesSecond ==
  ASSUME NEW a \in Commands, NEW b \in Commands
  PROVE  Append(<<a>>, b) = <<a, b>>
<1>. DEFINE q == <<a>>
<1>1. q \in Seq(Commands) /\ Len(q) = 1 /\ q[1] = a
  OBVIOUS
<1>. HIDE DEF q
<1>2. /\ Append(q, b) \in Seq(Commands) /\ Len(Append(q, b)) = 2
      /\ Append(q, b)[1] = a /\ Append(q, b)[2] = b
  <2>1. /\ Append(q, b) \in Seq(Commands) /\ Len(Append(q, b)) = Len(q) + 1
        /\ \A n \in 1..Len(q) : Append(q, b)[n] = q[n]
        /\ Append(q, b)[Len(q) + 1] = b
    BY <1>1, Enqueued
  <2>2. 1 \in 1..Len(q) /\ Len(q) + 1 = 2
    BY <1>1
  <2>. QED BY <1>1, <2>1, <2>2
<1>3. <<a, b>> \in Seq(Commands) /\ Len(<<a, b>>) = 2
  OBVIOUS
<1>4. \A n \in 1..2 : Append(q, b)[n] = <<a, b>>[n]
  BY <1>2
<1>5. Append(q, b) = <<a, b>>
  BY <1>2, <1>3, <1>4, SeqEqual
<1>. QED BY <1>5 DEF q

\* A command behind two.
LEMMA EnqueuesThird ==
  ASSUME NEW a \in Commands, NEW b \in Commands, NEW c \in Commands
  PROVE  Append(<<a, b>>, c) = <<a, b, c>>
<1>. DEFINE q == <<a, b>>
<1>1. q \in Seq(Commands) /\ Len(q) = 2 /\ q[1] = a /\ q[2] = b
  OBVIOUS
<1>. HIDE DEF q
<1>2. /\ Append(q, c) \in Seq(Commands) /\ Len(Append(q, c)) = 3
      /\ Append(q, c)[1] = a /\ Append(q, c)[2] = b /\ Append(q, c)[3] = c
  <2>1. /\ Append(q, c) \in Seq(Commands) /\ Len(Append(q, c)) = Len(q) + 1
        /\ \A n \in 1..Len(q) : Append(q, c)[n] = q[n]
        /\ Append(q, c)[Len(q) + 1] = c
    BY <1>1, Enqueued
  <2>2. 1 \in 1..Len(q) /\ 2 \in 1..Len(q) /\ Len(q) + 1 = 3
    BY <1>1
  <2>. QED BY <1>1, <2>1, <2>2
<1>3. <<a, b, c>> \in Seq(Commands) /\ Len(<<a, b, c>>) = 3
  OBVIOUS
<1>4. \A n \in 1..3 : Append(q, c)[n] = <<a, b, c>>[n]
  BY <1>2
<1>5. Append(q, c) = <<a, b, c>>
  BY <1>2, <1>3, <1>4, SeqEqual
<1>. QED BY <1>5 DEF q

\* What the timed iteration enqueues.
LEMMA Enqueues ==
  /\ Append(<< >>, "start") = <<"start">>
  /\ Append(<< >>, "stop") = <<"stop">>
  /\ Append(<< >>, "kernel") = <<"kernel">>
  /\ Append(<<"start">>, "kernel") = <<"start", "kernel">>
  /\ Append(<<"start">>, "stop") = <<"start", "stop">>
  /\ Append(<<"kernel">>, "stop") = <<"kernel", "stop">>
  /\ Append(<<"start", "kernel">>, "stop") = <<"start", "kernel", "stop">>
<1>1. /\ Append(<< >>, "start") = <<"start">>
      /\ Append(<< >>, "stop") = <<"stop">>
      /\ Append(<< >>, "kernel") = <<"kernel">>
  OBVIOUS
<1>2. "start" \in Commands /\ "kernel" \in Commands /\ "stop" \in Commands
  BY DEF Commands
<1>. QED BY <1>1, <1>2, EnqueuesSecond, EnqueuesThird

\* What the device leaves of it.
LEMMA Dequeues ==
  /\ Head(<<"start">>) = "start" /\ Tail(<<"start">>) = << >>
  /\ Head(<<"kernel">>) = "kernel" /\ Tail(<<"kernel">>) = << >>
  /\ Head(<<"stop">>) = "stop" /\ Tail(<<"stop">>) = << >>
  /\ Head(<<"start", "kernel">>) = "start" /\ Tail(<<"start", "kernel">>) = <<"kernel">>
  /\ Head(<<"start", "stop">>) = "start" /\ Tail(<<"start", "stop">>) = <<"stop">>
  /\ Head(<<"kernel", "stop">>) = "kernel" /\ Tail(<<"kernel", "stop">>) = <<"stop">>
  /\ Head(<<"start", "kernel", "stop">>) = "start"
  /\ Tail(<<"start", "kernel", "stop">>) = <<"kernel", "stop">>
OBVIOUS

-----------------------------------------------------------------------------
(* The steps                                                               *)

\* The invariant holds initially.
LEMMA HostInvInit == Init => HostInv
BY HostAssumption DEF Init, HostInv, HostTypes, OwnStatements, MemsetFirst, WaitedFor, Memory,
   Iteration, KernelIsSure, Statements, CheckedAt, Commands, Pending, Unallocated, Idle

\* One command of the device, with the host anywhere, even gone.
LEMMA ExecuteKeepsInv ==
  ASSUME HostInv, Execute
  PROVE  HostInv'
<1>. USE DEF HostInv
<1>1. /\ queue # << >> /\ queue' = Tail(queue)
      /\ queue \in Seq(Commands) /\ ran \in Nat
  BY DEF Execute, HostTypes
<1>2. UNCHANGED <<program, warmup, iters, pc, i, times, h_O, d_inputs>>
  BY DEF Execute, host
<1>3. /\ Head(queue) \in Commands /\ Head(queue) = queue[1]
      /\ Tail(queue) \in Seq(Commands)
      /\ Len(queue) > 0 /\ Len(Tail(queue)) = Len(queue) - 1
      /\ \A n \in 1..Len(Tail(queue)) : n + 1 \in 1..Len(queue) /\ Tail(queue)[n] = queue[n + 1]
  BY <1>1, Dequeued
<1>4. ran' = IF Head(queue) = "kernel" THEN ran + 1 ELSE ran
  BY DEF Execute
<1>5. HostTypes'
  BY <1>1, <1>2, <1>3, <1>4 DEF Execute, HostTypes
<1>6. OwnStatements'
  BY <1>2 DEF OwnStatements
<1>7. MemsetFirst'
  BY <1>1, <1>3, <1>4 DEF MemsetFirst
<1>8. WaitedFor'
  BY <1>1, <1>2 DEF WaitedFor
<1>9. Memory'
  BY <1>1, <1>2, <1>3, <1>4 DEF Memory, MemsetFirst, WaitedFor, Idle, Execute, Unallocated
<1>10. Iteration'
  <2>1. CASE pc = "launch" /\ program = "bench"
    BY <1>1, <1>2, <1>4, <2>1, Dequeues DEF Iteration, Execute, HostTypes
  <2>2. Spans' = Spans
    BY DEF Spans
  <2>3. /\ event \in [start : Int, stop : Int]
        /\ Head(queue) = "start" => /\ event'.start = ran /\ event'.stop = event.stop
                                    /\ ran' = ran
        /\ Head(queue) = "kernel" => event' = event /\ ran' = ran + 1
        /\ Head(queue) = "stop" => /\ event'.stop = ran /\ event'.start = event.start
                                   /\ ran' = ran
    BY <1>4 DEF Execute, HostTypes
  <2>4. CASE pc = "record_stop"
    <3>1. CASE queue = <<"start", "kernel">>
      BY <1>1, <1>2, <2>4, <2>2, <2>3, <3>1, Dequeues DEF Iteration
    <3>2. CASE queue = <<"start">> /\ 0 \in Spans
      BY <1>1, <1>2, <2>4, <2>2, <2>3, <3>2, Dequeues DEF Iteration
    <3>3. CASE queue = <<"kernel">> /\ event.start = ran
      BY <1>1, <1>2, <2>4, <2>2, <2>3, <3>3, Dequeues DEF Iteration, Spans
    <3>. QED BY <1>1, <2>4, <3>1, <3>2, <3>3 DEF Iteration
  <2>5. CASE pc = "wait_stop"
    <3>1. CASE queue = <<"start", "kernel", "stop">> /\ event.stop = Pending
      BY <1>1, <1>2, <2>5, <2>2, <2>3, <3>1, Dequeues DEF Iteration
    <3>2. CASE queue = <<"start", "stop">> /\ 0 \in Spans /\ event.stop = Pending
      BY <1>1, <1>2, <2>5, <2>2, <2>3, <3>2, Dequeues DEF Iteration
    <3>3. CASE queue = <<"kernel", "stop">> /\ event.start = ran /\ event.stop = Pending
      BY <1>1, <1>2, <2>5, <2>2, <2>3, <3>3, Dequeues DEF Iteration, Spans
    <3>4. CASE queue = <<"stop">> /\ ran - event.start \in Spans /\ event.stop = Pending
      BY <1>1, <1>2, <2>5, <2>2, <2>3, <3>4, Dequeues DEF Iteration
    <3>. QED BY <1>1, <2>5, <3>1, <3>2, <3>3, <3>4 DEF Iteration
  <2>6. CASE pc = "elapsed"
    BY <1>1, <2>6 DEF WaitedFor
  <2>. QED BY <1>2, <2>1, <2>4, <2>5, <2>6, <2>2 DEF Iteration
<1>11. KernelIsSure'
  <2>1. ASSUME NEW n \in 1..Len(queue), queue[n] = "kernel"
        PROVE  ran' > 0 \/ \E k \in 1..Len(queue') : queue'[k] = "kernel"
    BY <1>1, <1>3, <1>4, <2>1
  <2>2. ran > 0 => ran' > 0
    BY <1>1, <1>4
  <2>. QED BY <1>2, <2>1, <2>2 DEF KernelIsSure
<1>. QED BY <1>5, <1>6, <1>7, <1>8, <1>9, <1>10, <1>11

\* The steps of the host that enqueue nothing.
LEMMA QuietStepsKeepInv ==
  ASSUME HostInv,
         \/ Fails \/ Alloc \/ WarmedUp \/ Synchronize \/ CreateEvents \/ WaitStop
         \/ Elapsed \/ Destroy \/ CopyFromDevice \/ Verify \/ Free
  PROVE  HostInv'
<1>. USE DEF HostInv, device, HostTypes, OwnStatements, MemsetFirst, WaitedFor, Memory,
       Iteration, KernelIsSure, Statements, CheckedAt, Idle, Spans
<1>1. CASE Fails
  BY <1>1 DEF Fails
<1>2. CASE Alloc
  BY <1>2 DEF Alloc, Unallocated
<1>3. CASE WarmedUp
  BY <1>3 DEF WarmedUp
<1>4. CASE Synchronize
  BY <1>4 DEF Synchronize
<1>5. CASE CreateEvents
  BY <1>5 DEF CreateEvents
<1>6. CASE WaitStop
  BY <1>6 DEF WaitStop
<1>7. CASE Elapsed
  BY <1>7 DEF Elapsed
<1>8. CASE Destroy
  BY <1>8 DEF Destroy
<1>9. CASE CopyFromDevice
  BY <1>9 DEF CopyFromDevice, Unallocated
<1>10. CASE Verify
  BY <1>10 DEF Verify
<1>11. CASE Free
  BY <1>11 DEF Free, Unallocated
<1>. QED BY <1>1, <1>2, <1>3, <1>4, <1>5, <1>6, <1>7, <1>8, <1>9, <1>10, <1>11

\* The copies to the device, with the memset behind them.
LEMMA CopyToDeviceKeepsInv ==
  ASSUME HostInv, CopyToDevice
  PROVE  HostInv'
BY DEF HostInv, CopyToDevice, device, HostTypes, OwnStatements, MemsetFirst, WaitedFor, Memory,
   Iteration, KernelIsSure, Statements, CheckedAt, Idle, Spans, Commands, Unallocated

\* A launch, in a loop of warmups or timed.
LEMMA LaunchKeepsInv ==
  ASSUME HostInv, Warmup \/ Launch
  PROVE  HostInv'
<1>. USE DEF HostInv
<1>1. /\ queue' = Append(queue, "kernel") \/ (LaunchMayFail /\ queue' = queue)
      /\ queue \in Seq(Commands) /\ "kernel" \in Commands
      /\ UNCHANGED <<program, warmup, iters, times, h_O, ran, d_O, event, d_inputs>>
      /\ i' \in {i, i + 1}
      /\ \/ pc = "warmup" /\ pc' = pc
         \/ /\ pc = "launch"
            /\ pc' = IF program = "test" THEN "synchronize" ELSE "record_stop"
  BY DEF Warmup, Launch, Launched, device, HostTypes, Commands
<1>2. /\ Append(queue, "kernel") \in Seq(Commands)
      /\ Len(Append(queue, "kernel")) = Len(queue) + 1
      /\ \A n \in 1..Len(queue) : Append(queue, "kernel")[n] = queue[n]
      /\ Append(queue, "kernel")[Len(queue) + 1] = "kernel"
      /\ Len(queue) \in Nat
  BY <1>1, Enqueued
<1>3. HostTypes'
  <2>1. pc' \in Statements
    BY <1>1 DEF HostTypes, Statements, CheckedAt
  <2>2. queue' \in Seq(Commands)
    BY <1>1, <1>2
  <2>3. i' \in Nat
    BY <1>1 DEF HostTypes
  <2>. QED BY <1>1, <2>1, <2>2, <2>3 DEF HostTypes
<1>4. OwnStatements'
  BY <1>1 DEF OwnStatements, HostTypes
<1>5. MemsetFirst'
  BY <1>1, <1>2 DEF MemsetFirst
<1>6. WaitedFor'
  BY <1>1 DEF WaitedFor
<1>7. Memory'
  BY <1>1 DEF Memory, Idle
<1>8. Spans' = Spans /\ 1 \in Spans /\ (LaunchMayFail => 0 \in Spans)
  BY DEF Spans
<1>9. Iteration'
  <2>1. CASE pc = "launch" /\ program = "bench"
    <3>1. CASE queue' = Append(queue, "kernel")
      BY <1>1, <1>8, <2>1, <3>1, Enqueues DEF Iteration, HostTypes
    <3>2. CASE LaunchMayFail /\ queue' = queue
      BY <1>1, <1>8, <2>1, <3>2 DEF Iteration, HostTypes
    <3>. QED BY <1>1, <3>1, <3>2
  <2>2. CASE ~(pc = "launch" /\ program = "bench")
    BY <1>1, <1>8, <2>2 DEF Iteration, HostTypes
  <2>. QED BY <2>1, <2>2
<1>10. KernelIsSure'
  <2>1. queue' = Append(queue, "kernel") => \E n \in 1..Len(queue') : queue'[n] = "kernel"
    BY <1>2
  <2>. QED BY <1>1, <2>1 DEF KernelIsSure
<1>. QED BY <1>3, <1>4, <1>5, <1>6, <1>7, <1>9, <1>10

\* A record.
LEMMA RecordKeepsInv ==
  ASSUME HostInv, NEW e \in {"start", "stop"},
         IF e = "start" THEN Record("start", "record_start", "launch")
         ELSE Record("stop", "record_stop", "wait_stop")
  PROVE  HostInv'
<1>. USE DEF HostInv
<1>1. /\ queue' = Append(queue, e)
      /\ queue \in Seq(Commands) /\ e \in Commands
      /\ UNCHANGED <<program, warmup, iters, i, times, h_O, ran, d_O, d_inputs>>
      /\ e = "start" => pc = "record_start" /\ pc' = "launch"
      /\ e = "stop" => pc = "record_stop" /\ pc' = "wait_stop"
      /\ event' = [event EXCEPT ![e] = Pending]
  BY DEF Record, device, HostTypes, Commands
<1>2. /\ Append(queue, e) \in Seq(Commands)
      /\ Len(Append(queue, e)) = Len(queue) + 1
      /\ \A n \in 1..Len(queue) : Append(queue, e)[n] = queue[n]
      /\ Append(queue, e)[Len(queue) + 1] = e
      /\ Len(queue) \in Nat
  BY <1>1, Enqueued
<1>3. HostTypes'
  <2>1. pc' \in Statements
    BY <1>1 DEF HostTypes, Statements, CheckedAt
  <2>2. event' \in [start : Int, stop : Int]
    <3>1. event \in [start : Int, stop : Int] /\ Pending \in Int
      BY DEF HostTypes, Pending
    <3>2. CASE e = "start"
      BY <1>1, <3>1, <3>2
    <3>3. CASE e = "stop"
      BY <1>1, <3>1, <3>3
    <3>. QED BY <3>2, <3>3
  <2>. QED BY <1>1, <1>2, <2>1, <2>2 DEF HostTypes
<1>4. OwnStatements'
  BY <1>1 DEF OwnStatements, HostTypes
<1>5. MemsetFirst'
  BY <1>1, <1>2 DEF MemsetFirst
<1>6. WaitedFor'
  BY <1>1 DEF WaitedFor
<1>7. Memory'
  BY <1>1 DEF Memory, Idle
<1>8. Iteration'
  <2>1. Spans' = Spans
    BY DEF Spans
  <2>2. CASE e = "start"
    BY <1>1, <2>1, <2>2, Enqueues DEF Iteration, WaitedFor
  <2>3. CASE e = "stop"
    <3>1. event'.stop = Pending /\ event'.start = event.start
      BY <1>1, <2>3 DEF HostTypes
    <3>. QED BY <1>1, <2>1, <2>3, <3>1, Enqueues DEF Iteration
  <2>. QED BY <2>2, <2>3
<1>9. KernelIsSure'
  BY <1>1 DEF KernelIsSure
<1>. QED BY <1>3, <1>4, <1>5, <1>6, <1>7, <1>8, <1>9

-----------------------------------------------------------------------------
(* The theorems                                                            *)

\* Whatever the team of cpu_ref_verify does meanwhile.
LEMMA HostInvStep == HostInv /\ [Next]_all => HostInv'
<1>. SUFFICES ASSUME HostInv, [Next]_all PROVE HostInv'
  OBVIOUS
<1>1. CASE UNCHANGED vars
  BY <1>1 DEF vars, host, device, HostInv, HostTypes, OwnStatements, MemsetFirst, WaitedFor, Memory,
     Iteration, KernelIsSure, Idle
<1>2. CASE Host
  BY <1>2, QuietStepsKeepInv, CopyToDeviceKeepsInv, LaunchKeepsInv, RecordKeepsInv DEF Host
<1>3. CASE Verify
  BY <1>3, QuietStepsKeepInv
<1>4. CASE Execute
  BY <1>4, ExecuteKeepsInv
<1>. QED BY <1>1, <1>2, <1>3, <1>4 DEF Next, Main, StartTeam, ReportVerdict, TeamStep, Finished, all

\* The description of the queue holds throughout, in both programs.
LEMMA HostInvariant == Spec => []HostInv
<1>1. ProgramsInit => HostInv
  BY HostInvInit DEF ProgramsInit
<1>. QED BY <1>1, HostInvStep, PTL DEF Spec

\* If no launch fails, every reported time spans exactly one kernel.
THEOREM EveryTimeSpansOneKernel ==
  ASSUME ~LaunchMayFail
  PROVE  Spec => []TimesOneKernel
<1>1. HostInv => TimesOneKernel
  BY DEF HostInv, HostTypes, Iteration, Spans, TimesOneKernel
<1>. QED BY <1>1, HostInvariant, PTL

\* Kernels run on initialised memory, results stay, and nothing is left in the
\* queue when the benchmark reports, even if launches fail unnoticed.
THEOREM KernelsKeepTheirBuffers == Spec => []KernelsHaveTheirBuffers
<1>1. HostInv => KernelsHaveTheirBuffers
  BY DEF HostInv, HostTypes, WaitedFor, Memory, Idle, KernelsHaveTheirBuffers, Statements, CheckedAt
<1>. QED BY <1>1, HostInvariant, PTL

\* If no launch fails, what is verified is what the kernel wrote.
THEOREM OnlyResultsAreVerified ==
  ASSUME ~LaunchMayFail
  PROVE  Spec => []VerifiesResults
<1>1. HostInv => VerifiesResults
  BY DEF HostInv, OwnStatements, KernelIsSure, VerifiesResults
<1>. QED BY <1>1, HostInvariant, PTL

(***************************************************************************)
(* cpu_ref_verify: what statistics say of a set of rows                    *)
(***************************************************************************)

AllRows       == Team!RowsOf(shape)
ElementsOf(R) == UNION {{row} \X Team!Dims(row) : row \in R}
All           == ElementsOf(AllRows)

Err(e) == Team!abs_err(e[1], e[2])
Rel(e) == Team!Fraction(Err(e), Team!Magnitude(Team!ref(e[1], e[2])))

Mismatched == {e \in All : Err(e) > tol_abs}
Nonfinite  == {e \in All : ~Team!Finite(Team!kern(e[1], e[2]))}
Counted    == {e \in All : Team!Magnitude(Team!ref(e[1], e[2])) >= ref_floor}

Defined  == {row \in AllRows : Team!CosineDefined(row)}
Compared == {row \in Defined : \A d \in Team!Dims(row) : Team!Finite(Team!kern(row, d))}
Failing  == {row \in Compared : Team!Less(Team!Cosine(row), tol_cos)}

\* The team compares some output of some shape.
HasRows == shape \in Shapes /\ output \in [AllRows -> Outputs]

Stats ==
  [max_abs : Nat, at : All \cup {Team!Nowhere},
   max_rel : {Team!Fraction(0, 1)} \cup {Rel(e) : e \in Counted},
   mismatch : Nat, rel_counted : Nat, elems : Nat, nonfinite : Nat,
   cos_rows : Nat, cos_fail : Nat,
   cos_worst : {Team!Fraction(1, 1)} \cup {Team!Cosine(row) : row \in AllRows},
   cos_at : AllRows \cup {Team!Nowhere}]

\* The counts, the largest error and the largest relative error of the elements
\* of S; the counts and the worst cosine of the rows of R.
CountsOf(s, S) ==
  /\ s.elems = Cardinality(S \cap All)
  /\ s.mismatch = Cardinality(S \cap Mismatched)
  /\ s.nonfinite = Cardinality(S \cap Nonfinite)
  /\ s.rel_counted = Cardinality(S \cap Counted)

LargestOf(s, S) ==
  /\ \A e \in S : Err(e) <= s.max_abs
  /\ s.at = Team!Nowhere => s.max_abs = 0
  /\ s.at # Team!Nowhere => s.at \in S /\ s.max_abs = Err(s.at) /\ s.max_abs > 0

RelativeOf(s, S) ==
  /\ \A e \in S \cap Counted : ~Team!Less(s.max_rel, Rel(e))
  /\ s.max_rel = Team!Fraction(0, 1) \/ \E e \in S \cap Counted : s.max_rel = Rel(e)

CosinesOf(s, R) ==
  /\ s.cos_rows = Cardinality(R \cap Defined)
  /\ s.cos_fail = Cardinality(R \cap Failing)
  /\ s.cos_at # Team!Nowhere => s.cos_at \in R /\ s.cos_worst = Team!Cosine(s.cos_at)

ElementsIn(s, S) ==
  /\ IsFiniteSet(S) /\ S \subseteq All
  /\ CountsOf(s, S) /\ LargestOf(s, S) /\ RelativeOf(s, S)

RowsIn(s, R) == IsFiniteSet(R) /\ R \subseteq AllRows /\ CosinesOf(s, R)

\* The statistics of the rows of R, and of nothing else.
Summary(s, R) == s \in Stats /\ ElementsIn(s, ElementsOf(R)) /\ RowsIn(s, R)

-----------------------------------------------------------------------------
(* Elements                                                                *)

\* An element has a reference and a kernel value, and an error.
LEMMA ElementTypes ==
  ASSUME HasRows, NEW row \in AllRows
  PROVE  /\ Len(output[row][1]) \in Nat \ {0}
         /\ \A d \in Team!Dims(row) :
              /\ Team!ref(row, d) \in Int
              /\ Team!Magnitude(Team!ref(row, d)) \in Nat
              /\ Team!abs_err(row, d) \in Nat
<1>1. output[row] \in Outputs
  BY DEF HasRows
<1>2. /\ output[row][1] \in Seq(Int) /\ output[row][2] \in Seq(Int \cup {NaN, Inf})
      /\ Len(output[row][1]) = Len(output[row][2]) /\ Len(output[row][1]) > 0
  BY <1>1, VerifyAssumption
<1>3. Len(output[row][1]) \in Nat \ {0}
  BY <1>2
<1>4. ASSUME NEW d \in Team!Dims(row)
      PROVE  /\ Team!ref(row, d) \in Int
             /\ Team!Magnitude(Team!ref(row, d)) \in Nat
             /\ Team!abs_err(row, d) \in Nat
  <2>1. d \in 1..Len(output[row][1]) /\ d \in 1..Len(output[row][2])
    BY <1>2 DEF Team!Dims
  <2>2. Team!ref(row, d) \in Int /\ Team!kern(row, d) \in Int \cup {NaN, Inf}
    BY <1>2, <2>1 DEF Team!ref, Team!kern
  <2>3. \A x \in Int : Team!Magnitude(x) \in Nat
    BY DEF Team!Magnitude
  <2>4. Team!abs_err(row, d) \in Nat
    <3>1. CASE Team!Finite(Team!kern(row, d))
      <4>1. Team!kern(row, d) \in Int
        BY <2>2, <3>1 DEF Team!Finite
      <4> QED BY <2>2, <2>3, <3>1, <4>1 DEF Team!abs_err
    <3>2. CASE ~Team!Finite(Team!kern(row, d))
      BY <3>2, VerifyAssumption DEF Team!abs_err
    <3> QED BY <3>1, <3>2
  <2> QED BY <2>2, <2>3, <2>4
<1> QED BY <1>3, <1>4

\* Elements are pairs of a row and a dimension.
LEMMA ElementPairs ==
  /\ \A R : \A e \in ElementsOf(R) : e = <<e[1], e[2]>> /\ e[1] \in R /\ e[2] \in Team!Dims(e[1])
  /\ \A R : \A row \in R : \A d \in Team!Dims(row) : <<row, d>> \in ElementsOf(R)
  /\ \A R, Q : ElementsOf(R \cup Q) = ElementsOf(R) \cup ElementsOf(Q)
  /\ \A R, Q : R \subseteq Q => ElementsOf(R) \subseteq ElementsOf(Q)
  /\ \A R, Q : R \cap Q = {} => ElementsOf(R) \cap ElementsOf(Q) = {}
  /\ ElementsOf({}) = {}
  /\ \A e \in All : e # Team!Nowhere
<1>1. \A R : \A e \in ElementsOf(R) : e = <<e[1], e[2]>> /\ e[1] \in R /\ e[2] \in Team!Dims(e[1])
  BY DEF ElementsOf
<1>2. \A R : \A row \in R : \A d \in Team!Dims(row) : <<row, d>> \in ElementsOf(R)
  BY DEF ElementsOf
<1>3. \A R, Q : ElementsOf(R \cup Q) = ElementsOf(R) \cup ElementsOf(Q)
  BY DEF ElementsOf
<1>4. \A R, Q : R \subseteq Q => ElementsOf(R) \subseteq ElementsOf(Q)
  BY DEF ElementsOf
<1>5. \A R, Q : R \cap Q = {} => ElementsOf(R) \cap ElementsOf(Q) = {}
  BY <1>1
<1>6. ElementsOf({}) = {}
  BY DEF ElementsOf
<1>7. \A e \in All : e # Team!Nowhere
  BY <1>1 DEF All, Team!Nowhere
<1> QED BY <1>1, <1>2, <1>3, <1>4, <1>5, <1>6, <1>7

\* A counted element has a relative error.
LEMMA RelTypes ==
  ASSUME HasRows
  PROVE  /\ \A e \in All : Err(e) \in Nat
         /\ \A e \in Counted : Rel(e) \in [n : Nat, d : Nat \ {0}]
         /\ Team!Fraction(0, 1) \in [n : Nat, d : Nat \ {0}]
<1>1. ASSUME NEW e \in All
      PROVE  Err(e) \in Nat /\ Team!Magnitude(Team!ref(e[1], e[2])) \in Nat
  <2>1. e[1] \in AllRows /\ e[2] \in Team!Dims(e[1])
    BY ElementPairs DEF All
  <2> QED BY <2>1, ElementTypes DEF Err
<1>2. ASSUME NEW e \in Counted PROVE Rel(e) \in [n : Nat, d : Nat \ {0}]
  <2>1. e \in All /\ Team!Magnitude(Team!ref(e[1], e[2])) >= ref_floor
    BY DEF Counted
  <2>2. Team!Magnitude(Team!ref(e[1], e[2])) \in Nat \ {0} /\ Err(e) \in Nat
    BY <1>1, <2>1, VerifyAssumption
  <2> QED BY <2>2 DEF Rel, Team!Fraction
<1>3. Team!Fraction(0, 1) \in [n : Nat, d : Nat \ {0}]
  BY DEF Team!Fraction
<1> QED BY <1>1, <1>2, <1>3

\* Fractions a < b <= c.
LEMMA LessChain ==
  ASSUME NEW a \in [n : Nat, d : Nat \ {0}], NEW b \in [n : Nat, d : Nat \ {0}],
         NEW c \in [n : Nat, d : Nat \ {0}], Team!Less(a, b), ~Team!Less(c, b)
  PROVE  Team!Less(a, c)
<1>1. a.n \in Nat /\ a.d \in Nat \ {0} /\ b.n \in Nat /\ b.d \in Nat \ {0} /\ c.n \in Nat /\ c.d \in Nat \ {0}
  OBVIOUS
<1>2. a.n * b.d < b.n * a.d /\ ~(c.n * b.d < b.n * c.d)
  BY DEF Team!Less
<1>3. a.n * c.d < c.n * a.d
  BY <1>1, <1>2, FractionsChain
<1> QED BY <1>3 DEF Team!Less

\* The greater of two bounds bounds what either does.
LEMMA LessBound ==
  ASSUME NEW a \in [n : Nat, d : Nat \ {0}], NEW b \in [n : Nat, d : Nat \ {0}],
         NEW c \in [n : Nat, d : Nat \ {0}], Team!Less(a, b), ~Team!Less(a, c)
  PROVE  ~Team!Less(b, c)
<1> SUFFICES ASSUME Team!Less(b, c) PROVE FALSE
  OBVIOUS
<1>1. b.n * c.d \in Nat /\ c.n * b.d \in Nat
  OBVIOUS
<1>2. ~Team!Less(c, b)
  BY <1>1 DEF Team!Less
<1>3. Team!Less(a, c)
  BY <1>2, LessChain
<1> QED BY <1>3

-----------------------------------------------------------------------------
(* What one more element does to statistics                                *)

\* The fields after one more element.
LEMMA ElementFields ==
  ASSUME HasRows, NEW s \in Stats, NEW row \in AllRows, NEW d \in Team!Dims(row)
  PROVE  LET e == <<row, d>>
             r == Team!WithElement(s, row, d)
         IN  /\ r \in Stats
             /\ r.max_abs = IF Err(e) > s.max_abs THEN Err(e) ELSE s.max_abs
             /\ r.at = IF Err(e) > s.max_abs THEN e ELSE s.at
             /\ r.max_rel = IF e \in Counted /\ Team!Less(s.max_rel, Rel(e)) THEN Rel(e) ELSE s.max_rel
             /\ r.mismatch = s.mismatch + (IF e \in Mismatched THEN 1 ELSE 0)
             /\ r.rel_counted = s.rel_counted + (IF e \in Counted THEN 1 ELSE 0)
             /\ r.elems = s.elems + 1
             /\ r.nonfinite = s.nonfinite + (IF e \in Nonfinite THEN 1 ELSE 0)
             /\ r.cos_rows = s.cos_rows /\ r.cos_fail = s.cos_fail
             /\ r.cos_worst = s.cos_worst /\ r.cos_at = s.cos_at
<1> DEFINE e == <<row, d>>
           r == Team!WithElement(s, row, d)
           err == Team!abs_err(row, d)
           counted == Team!Magnitude(Team!ref(row, d)) >= ref_floor
           rel == Team!Fraction(err, Team!Magnitude(Team!ref(row, d)))
<1>1. /\ e \in All /\ Err(e) = err /\ err \in Nat /\ Rel(e) = rel
      /\ (e \in Mismatched <=> err > tol_abs) /\ (e \in Counted <=> counted)
      /\ (e \in Nonfinite <=> ~Team!Finite(Team!kern(row, d)))
  <2>1. e \in All /\ e[1] = row /\ e[2] = d
    BY ElementPairs DEF All
  <2> HIDE DEF e
  <2>2. err \in Nat
    BY ElementTypes
  <2> QED BY <2>1, <2>2 DEF Err, Rel, Mismatched, Counted, Nonfinite
<1> DEFINE max_abs == IF err > s.max_abs THEN err ELSE s.max_abs
           at == IF err > s.max_abs THEN e ELSE s.at
           max_rel == IF counted /\ Team!Less(s.max_rel, rel) THEN rel ELSE s.max_rel
           mismatch == s.mismatch + Team!One(err > tol_abs)
           rel_counted == s.rel_counted + Team!One(counted)
           nonfinite == s.nonfinite + Team!One(~Team!Finite(Team!kern(row, d)))
<1>2. r = [s EXCEPT !.max_abs = max_abs, !.at = at, !.max_rel = max_rel, !.mismatch = mismatch,
                    !.rel_counted = rel_counted, !.elems = s.elems + 1, !.nonfinite = nonfinite]
  BY DEF Team!WithElement
<1>3. /\ max_abs \in Nat /\ at \in All \cup {Team!Nowhere}
      /\ max_rel \in {Team!Fraction(0, 1)} \cup {Rel(x) : x \in Counted}
      /\ mismatch \in Nat /\ rel_counted \in Nat /\ nonfinite \in Nat /\ s.elems + 1 \in Nat
  BY <1>1 DEF Stats, Team!One
<1>4. /\ max_abs = IF Err(e) > s.max_abs THEN Err(e) ELSE s.max_abs
      /\ at = IF Err(e) > s.max_abs THEN e ELSE s.at
      /\ max_rel = IF e \in Counted /\ Team!Less(s.max_rel, Rel(e)) THEN Rel(e) ELSE s.max_rel
      /\ mismatch = s.mismatch + (IF e \in Mismatched THEN 1 ELSE 0)
      /\ rel_counted = s.rel_counted + (IF e \in Counted THEN 1 ELSE 0)
      /\ nonfinite = s.nonfinite + (IF e \in Nonfinite THEN 1 ELSE 0)
  BY <1>1 DEF Team!One
<1> HIDE DEF max_abs, at, max_rel, mismatch, rel_counted, nonfinite
<1>5. /\ r \in Stats
      /\ r.max_abs = max_abs /\ r.at = at /\ r.max_rel = max_rel /\ r.mismatch = mismatch
      /\ r.rel_counted = rel_counted /\ r.elems = s.elems + 1 /\ r.nonfinite = nonfinite
      /\ r.cos_rows = s.cos_rows /\ r.cos_fail = s.cos_fail
      /\ r.cos_worst = s.cos_worst /\ r.cos_at = s.cos_at
  <2> HIDE DEF r
  <2> QED BY <1>2, <1>3 DEF Stats
<1> HIDE DEF r
<1> QED BY <1>4, <1>5 DEF r

\* One more element is counted once and bounded.
LEMMA ElementAdded ==
  ASSUME HasRows, NEW s \in Stats, NEW S, ElementsIn(s, S),
         NEW row \in AllRows, NEW d \in Team!Dims(row), <<row, d>> \notin S
  PROVE  ElementsIn(Team!WithElement(s, row, d), S \cup {<<row, d>>})
<1> DEFINE e == <<row, d>>
           r == Team!WithElement(s, row, d)
           T == S \cup {e}
<1>1. /\ r.max_abs = IF Err(e) > s.max_abs THEN Err(e) ELSE s.max_abs
      /\ r.at = IF Err(e) > s.max_abs THEN e ELSE s.at
      /\ r.max_rel = IF e \in Counted /\ Team!Less(s.max_rel, Rel(e)) THEN Rel(e) ELSE s.max_rel
      /\ r.mismatch = s.mismatch + (IF e \in Mismatched THEN 1 ELSE 0)
      /\ r.rel_counted = s.rel_counted + (IF e \in Counted THEN 1 ELSE 0)
      /\ r.elems = s.elems + 1
      /\ r.nonfinite = s.nonfinite + (IF e \in Nonfinite THEN 1 ELSE 0)
  BY ElementFields
<1>2. /\ e \in All /\ e \notin S
      /\ IsFiniteSet(S) /\ S \subseteq All /\ CountsOf(s, S) /\ LargestOf(s, S) /\ RelativeOf(s, S)
  BY ElementPairs DEF All, ElementsIn
<1> HIDE DEF e, r
<1>3. CountsOf(r, T)
  <2>1. /\ Cardinality(T \cap All) = Cardinality(S \cap All) + (IF e \in All THEN 1 ELSE 0)
        /\ Cardinality(T \cap Mismatched) = Cardinality(S \cap Mismatched) + (IF e \in Mismatched THEN 1 ELSE 0)
        /\ Cardinality(T \cap Nonfinite) = Cardinality(S \cap Nonfinite) + (IF e \in Nonfinite THEN 1 ELSE 0)
        /\ Cardinality(T \cap Counted) = Cardinality(S \cap Counted) + (IF e \in Counted THEN 1 ELSE 0)
    BY <1>2, CountInsert
  <2> HIDE DEF T
  <2> QED BY <1>1, <1>2, <2>1 DEF CountsOf
<1>4. LargestOf(r, T)
  <2>1. Err(e) \in Nat /\ s.max_abs \in Nat /\ \A x \in S : Err(x) \in Nat
    BY <1>2, RelTypes DEF Stats
  <2>2. e # Team!Nowhere
    BY <1>2, ElementPairs
  <2>3. \A x \in T : x \in S \/ x = e
    OBVIOUS
  <2>4. S \subseteq T /\ e \in T
    OBVIOUS
  <2> HIDE DEF T
  <2>5. CASE Err(e) > s.max_abs
    BY <1>1, <1>2, <2>1, <2>2, <2>3, <2>4, <2>5 DEF LargestOf
  <2>6. CASE ~(Err(e) > s.max_abs)
    BY <1>1, <1>2, <2>1, <2>2, <2>3, <2>4, <2>6 DEF LargestOf
  <2> QED BY <2>5, <2>6
<1>5. RelativeOf(r, T)
  <2>1. \A x \in T \cap Counted : x \in S \cap Counted \/ (x = e /\ e \in Counted)
    OBVIOUS
  <2>2. \A x \in S \cap Counted : x \in T \cap Counted
    OBVIOUS
  <2>3. e \in Counted => e \in T \cap Counted
    OBVIOUS
  <2>4. /\ \A x \in S \cap Counted : ~Team!Less(s.max_rel, Rel(x))
        /\ s.max_rel = Team!Fraction(0, 1) \/ \E x \in S \cap Counted : s.max_rel = Rel(x)
    BY <1>2 DEF RelativeOf
  <2> HIDE DEF T
  <2>5. CASE e \in Counted /\ Team!Less(s.max_rel, Rel(e))
    <3>1. r.max_rel = Rel(e)
      BY <1>1, <2>5
    <3>2. s.max_rel \in [n : Nat, d : Nat \ {0}] /\ \A x \in Counted : Rel(x) \in [n : Nat, d : Nat \ {0}]
      BY <2>4, RelTypes
    <3>3. \A x \in S \cap Counted : ~Team!Less(Rel(e), Rel(x))
      BY <2>4, <2>5, <3>2, LessBound
    <3>4. ~Team!Less(Rel(e), Rel(e))
      BY <2>5, <3>2 DEF Team!Less
    <3>5. \A x \in T \cap Counted : ~Team!Less(r.max_rel, Rel(x))
      BY <2>1, <3>1, <3>3, <3>4
    <3> QED BY <2>3, <2>5, <3>1, <3>5 DEF RelativeOf
  <2>6. CASE ~(e \in Counted /\ Team!Less(s.max_rel, Rel(e)))
    <3>1. r.max_rel = s.max_rel
      BY <1>1, <2>6
    <3>2. \A x \in T \cap Counted : ~Team!Less(r.max_rel, Rel(x))
      BY <2>1, <2>4, <2>6, <3>1
    <3>3. r.max_rel = Team!Fraction(0, 1) \/ \E x \in T \cap Counted : r.max_rel = Rel(x)
      BY <2>2, <2>4, <3>1
    <3> QED BY <3>2, <3>3 DEF RelativeOf
  <2> QED BY <2>5, <2>6
<1>6. IsFiniteSet(T) /\ T \subseteq All
  BY <1>2, FS_AddElement
<1> HIDE DEF T
<1>7. ElementsIn(r, T)
  BY <1>3, <1>4, <1>5, <1>6 DEF ElementsIn
<1> QED BY <1>7 DEF T, r, e

-----------------------------------------------------------------------------
(* What one more row does to statistics                                    *)

\* The statistics after the first dimensions of a row.
RowFold(f, s, row) ==
  [d \in 0..Len(output[row][1]) |-> IF d = 0 THEN s ELSE Team!WithElement(f[d - 1], row, d)]

\* They exist.
LEMMA RowFoldExists ==
  ASSUME HasRows, NEW s \in Stats, NEW row \in AllRows
  PROVE  \E f \in [0..Len(output[row][1]) -> Stats] : f = RowFold(f, s, row)
<1> DEFINE L == Len(output[row][1])
           step == [x \in ((0 + 1)..L) \X Stats |-> Team!WithElement(x[2], row, x[1])]
<1>1. L \in Nat \ {0} /\ Team!Dims(row) = 1..L
  BY ElementTypes DEF Team!Dims
<1> HIDE DEF L
<1>2. step \in [((0 + 1)..L) \X Stats -> Stats]
  <2>1. ASSUME NEW x \in ((0 + 1)..L) \X Stats PROVE Team!WithElement(x[2], row, x[1]) \in Stats
    <3>1. x[1] \in Team!Dims(row) /\ x[2] \in Stats
      BY <1>1
    <3> QED BY <3>1, ElementFields
  <2> QED BY <2>1
<1>3. \A n \in 1..L : \A v \in Stats : step[<<n, v>>] = Team!WithElement(v, row, n)
  OBVIOUS
<1> HIDE DEF step
<1>4. PICK f \in [0..L -> Stats] : f = [n \in 0..L |-> IF n = 0 THEN s ELSE step[<<n, f[n - 1]>>]]
  <2> DEFINE lo == 0
  <2>1. lo \in Int /\ L \in Int /\ lo <= L /\ IsStep(step, lo, L, Stats)
    BY <1>1, <1>2 DEF IsStep
  <2> HIDE DEF lo
  <2>2. \E f : Iterates(f, lo, L, Stats, s, step)
    BY <2>1, IterateExists
  <2> QED BY <2>2 DEF lo, Iterates
<1>5. \A n \in 0..L : f[n] = IF n = 0 THEN s ELSE Team!WithElement(f[n - 1], row, n)
  <2> SUFFICES ASSUME NEW n \in 0..L PROVE f[n] = IF n = 0 THEN s ELSE Team!WithElement(f[n - 1], row, n)
    OBVIOUS
  <2>1. f[n] = IF n = 0 THEN s ELSE step[<<n, f[n - 1]>>]
    BY <1>4
  <2>2. n # 0 => n \in 1..L /\ n - 1 \in 0..L /\ f[n - 1] \in Stats
    BY <1>1
  <2> QED BY <1>3, <2>1, <2>2
<1>6. f = RowFold(f, s, row)
  BY <1>4, <1>5 DEF RowFold, L
<1> QED BY <1>6 DEF L

\* After all dimensions of a row, its elements are in the statistics.
LEMMA RowElementsAdded ==
  ASSUME HasRows, NEW s \in Stats, NEW S, ElementsIn(s, S), NEW row \in AllRows,
         \A d \in Team!Dims(row) : <<row, d>> \notin S
  PROVE  \E r \in Stats :
           /\ Team!WithRow(s, row) = Team!WithCosine(r, row)
           /\ ElementsIn(r, S \cup ElementsOf({row}))
           /\ r.cos_rows = s.cos_rows /\ r.cos_fail = s.cos_fail
           /\ r.cos_worst = s.cos_worst /\ r.cos_at = s.cos_at
<1> DEFINE L == Len(output[row][1])
           f == CHOOSE g : g = RowFold(g, s, row)
           Upto(n) == S \cup {<<row, d>> : d \in 1..n}
           P == {n \in Nat : n <= L => /\ f[n] \in Stats /\ ElementsIn(f[n], Upto(n))
                                       /\ f[n].cos_rows = s.cos_rows /\ f[n].cos_fail = s.cos_fail
                                       /\ f[n].cos_worst = s.cos_worst /\ f[n].cos_at = s.cos_at}
<1>1. Team!WithRow(s, row) = Team!WithCosine(f[L], row)
  BY Zenon DEF Team!WithRow, RowFold
<1>2. f = RowFold(f, s, row)
  BY RowFoldExists
<1>3. L \in Nat \ {0} /\ Team!Dims(row) = 1..L
  BY ElementTypes DEF Team!Dims
<1>4. \A n \in 0..L : f[n] = IF n = 0 THEN s ELSE Team!WithElement(f[n - 1], row, n)
  BY <1>2 DEF RowFold
<1> HIDE DEF f, L
<1>5. 0 \in P
  <2>1. f[0] = s
    BY <1>3, <1>4
  <2>2. Upto(0) = S
    OBVIOUS
  <2> HIDE DEF Upto
  <2> QED BY <2>1, <2>2
<1>6. ASSUME NEW n \in P PROVE n + 1 \in P
  <2> SUFFICES ASSUME n + 1 <= L
               PROVE  /\ f[n + 1] \in Stats /\ ElementsIn(f[n + 1], Upto(n + 1))
                      /\ f[n + 1].cos_rows = s.cos_rows /\ f[n + 1].cos_fail = s.cos_fail
                      /\ f[n + 1].cos_worst = s.cos_worst /\ f[n + 1].cos_at = s.cos_at
    OBVIOUS
  <2> DEFINE d == n + 1
  <2>1. n \in Nat /\ d \in Team!Dims(row) /\ d # 0 /\ d \in 0..L /\ d - 1 = n
    BY <1>3
  <2>2. /\ f[n] \in Stats /\ ElementsIn(f[n], Upto(n))
        /\ f[n].cos_rows = s.cos_rows /\ f[n].cos_fail = s.cos_fail
        /\ f[n].cos_worst = s.cos_worst /\ f[n].cos_at = s.cos_at
    BY <1>3, <2>1
  <2>3. Upto(d) = Upto(n) \cup {<<row, d>>}
    BY <2>1
  <2>4. <<row, d>> \notin Upto(n)
    BY <2>1
  <2> HIDE DEF d, Upto, P
  <2>5. f[d] = Team!WithElement(f[n], row, d)
    BY <1>4, <2>1
  <2>6. ElementsIn(f[d], Upto(d))
    BY <2>1, <2>2, <2>3, <2>4, <2>5, ElementAdded
  <2>7. /\ f[d] \in Stats /\ f[d].cos_rows = f[n].cos_rows /\ f[d].cos_fail = f[n].cos_fail
        /\ f[d].cos_worst = f[n].cos_worst /\ f[d].cos_at = f[n].cos_at
    <3> DEFINE v == f[n]
               w == Team!WithElement(v, row, d)
    <3>1. v \in Stats
      BY <2>2
    <3> HIDE DEF v
    <3>2. /\ w \in Stats /\ w.cos_rows = v.cos_rows /\ w.cos_fail = v.cos_fail
          /\ w.cos_worst = v.cos_worst /\ w.cos_at = v.cos_at
      BY <2>1, <3>1, ElementFields
    <3> HIDE DEF w
    <3>3. f[d] = w
      BY <2>5 DEF v, w
    <3> QED BY <3>2, <3>3 DEF v
  <2>8. /\ f[d] \in Stats /\ ElementsIn(f[d], Upto(d))
        /\ f[d].cos_rows = s.cos_rows /\ f[d].cos_fail = s.cos_fail
        /\ f[d].cos_worst = s.cos_worst /\ f[d].cos_at = s.cos_at
    BY <2>2, <2>6, <2>7
  <2> QED BY <2>8 DEF d
<1>7. P = Nat
  <2>1. P \subseteq Nat
    OBVIOUS
  <2> HIDE DEF P
  <2> QED BY <1>5, <1>6, <2>1, NaturalInduction
<1>8. L \in P /\ L <= L
  <2> HIDE DEF P
  <2> QED BY <1>3, <1>7
<1>9. /\ f[L] \in Stats /\ ElementsIn(f[L], Upto(L))
      /\ f[L].cos_rows = s.cos_rows /\ f[L].cos_fail = s.cos_fail
      /\ f[L].cos_worst = s.cos_worst /\ f[L].cos_at = s.cos_at
  <2> HIDE DEF Upto
  <2> QED BY <1>8
<1>10. Upto(L) = S \cup ElementsOf({row})
  BY <1>3 DEF ElementsOf
<1> HIDE DEF Upto
<1> QED BY <1>1, <1>9, <1>10

\* The cosine of one more row.
LEMMA CosineAdded ==
  ASSUME HasRows, NEW s \in Stats, NEW R, RowsIn(s, R), NEW row \in AllRows, row \notin R
  PROVE  LET r == Team!WithCosine(s, row)
         IN  /\ r \in Stats /\ RowsIn(r, R \cup {row})
             /\ r.max_abs = s.max_abs /\ r.at = s.at /\ r.max_rel = s.max_rel
             /\ r.mismatch = s.mismatch /\ r.rel_counted = s.rel_counted
             /\ r.elems = s.elems /\ r.nonfinite = s.nonfinite
<1> DEFINE r == Team!WithCosine(s, row)
           compared == Team!CosineDefined(row) /\ \A d \in Team!Dims(row) : Team!Finite(Team!kern(row, d))
           worse == compared /\ Team!Less(Team!Cosine(row), s.cos_worst)
           cos_rows == s.cos_rows + Team!One(Team!CosineDefined(row))
           cos_fail == s.cos_fail + Team!One(compared /\ Team!Less(Team!Cosine(row), tol_cos))
           cos_worst == IF worse THEN Team!Cosine(row) ELSE s.cos_worst
           cos_at == IF worse THEN row ELSE s.cos_at
<1>1. r = [s EXCEPT !.cos_rows = cos_rows, !.cos_fail = cos_fail, !.cos_worst = cos_worst, !.cos_at = cos_at]
  BY DEF Team!WithCosine
<1>2. /\ (row \in Defined <=> Team!CosineDefined(row))
      /\ (row \in Failing <=> compared /\ Team!Less(Team!Cosine(row), tol_cos))
  BY DEF Defined, Compared, Failing
<1>3. /\ cos_rows = s.cos_rows + (IF row \in Defined THEN 1 ELSE 0)
      /\ cos_fail = s.cos_fail + (IF row \in Failing THEN 1 ELSE 0)
  <2> HIDE DEF compared
  <2> QED BY <1>2 DEF Team!One
<1>4. /\ \/ cos_at = row /\ cos_worst = Team!Cosine(row)
         \/ cos_at = s.cos_at /\ cos_worst = s.cos_worst
      /\ cos_at \in AllRows \cup {Team!Nowhere}
      /\ cos_worst \in {Team!Fraction(1, 1)} \cup {Team!Cosine(q) : q \in AllRows}
  <2> HIDE DEF compared
  <2> QED BY DEF Stats
<1>5. s.cos_rows \in Nat /\ s.cos_fail \in Nat
  BY DEF Stats
<1> HIDE DEF cos_rows, cos_fail, cos_worst, cos_at, r
<1>6. cos_rows \in Nat /\ cos_fail \in Nat
  BY <1>3, <1>5
<1>7. /\ r \in Stats
      /\ r.cos_rows = cos_rows /\ r.cos_fail = cos_fail /\ r.cos_worst = cos_worst /\ r.cos_at = cos_at
      /\ r.max_abs = s.max_abs /\ r.at = s.at /\ r.max_rel = s.max_rel
      /\ r.mismatch = s.mismatch /\ r.rel_counted = s.rel_counted
      /\ r.elems = s.elems /\ r.nonfinite = s.nonfinite
  BY <1>1, <1>4, <1>6 DEF Stats
<1>8. RowsIn(r, R \cup {row})
  <2>1. IsFiniteSet(R) /\ R \subseteq AllRows /\ CosinesOf(s, R)
    BY DEF RowsIn
  <2> DEFINE Q == R \cup {row}
  <2>2. /\ Cardinality(Q \cap Defined) = Cardinality(R \cap Defined) + (IF row \in Defined THEN 1 ELSE 0)
        /\ Cardinality(Q \cap Failing) = Cardinality(R \cap Failing) + (IF row \in Failing THEN 1 ELSE 0)
        /\ IsFiniteSet(Q)
    BY <2>1, CountInsert
  <2>3. Q \subseteq AllRows /\ row \in Q /\ R \subseteq Q
    BY <2>1
  <2> HIDE DEF Q
  <2>4. CosinesOf(r, Q)
    <3>1. r.cos_rows = Cardinality(Q \cap Defined) /\ r.cos_fail = Cardinality(Q \cap Failing)
      BY <1>3, <1>7, <2>1, <2>2 DEF CosinesOf
    <3>2. r.cos_at # Team!Nowhere => r.cos_at \in Q /\ r.cos_worst = Team!Cosine(r.cos_at)
      BY <1>4, <1>7, <2>1, <2>3 DEF CosinesOf
    <3> QED BY <3>1, <3>2 DEF CosinesOf
  <2>5. RowsIn(r, Q)
    BY <2>2, <2>3, <2>4 DEF RowsIn
  <2> QED BY <2>5 DEF Q
<1>9. /\ r \in Stats /\ RowsIn(r, R \cup {row})
      /\ r.max_abs = s.max_abs /\ r.at = s.at /\ r.max_rel = s.max_rel
      /\ r.mismatch = s.mismatch /\ r.rel_counted = s.rel_counted
      /\ r.elems = s.elems /\ r.nonfinite = s.nonfinite
  BY <1>7, <1>8
<1> QED BY <1>9 DEF r

\* The parts of a summary depend on their own fields only.
LEMMA SameElements ==
  ASSUME NEW r, NEW s, NEW S, ElementsIn(s, S),
         r.max_abs = s.max_abs, r.at = s.at, r.max_rel = s.max_rel, r.mismatch = s.mismatch,
         r.rel_counted = s.rel_counted, r.elems = s.elems, r.nonfinite = s.nonfinite
  PROVE  ElementsIn(r, S)
<1>1. CountsOf(r, S)
  BY DEF ElementsIn, CountsOf
<1>2. LargestOf(r, S)
  BY DEF ElementsIn, LargestOf
<1>3. RelativeOf(r, S)
  BY DEF ElementsIn, RelativeOf
<1> QED BY <1>1, <1>2, <1>3 DEF ElementsIn

\* One more row.
LEMMA RowAdded ==
  ASSUME HasRows, NEW s, NEW R, Summary(s, R), NEW row \in AllRows, row \notin R
  PROVE  Summary(Team!WithRow(s, row), R \cup {row})
<1> DEFINE S == ElementsOf(R)
           T == S \cup ElementsOf({row})
<1>1. s \in Stats /\ ElementsIn(s, S) /\ RowsIn(s, R)
  BY DEF Summary
<1>2. \A d \in Team!Dims(row) : <<row, d>> \notin S
  BY ElementPairs
<1>3. T = ElementsOf(R \cup {row})
  BY ElementPairs
<1> HIDE DEF S
<1>4. PICK r \in Stats :
        /\ Team!WithRow(s, row) = Team!WithCosine(r, row)
        /\ ElementsIn(r, T)
        /\ r.cos_rows = s.cos_rows /\ r.cos_fail = s.cos_fail
        /\ r.cos_worst = s.cos_worst /\ r.cos_at = s.cos_at
  BY <1>1, <1>2, RowElementsAdded
<1> HIDE DEF T
<1>5. RowsIn(r, R)
  BY <1>1, <1>4 DEF RowsIn, CosinesOf
<1> DEFINE c == Team!WithCosine(r, row)
<1>6. /\ c \in Stats /\ RowsIn(c, R \cup {row})
      /\ c.max_abs = r.max_abs /\ c.at = r.at /\ c.max_rel = r.max_rel
      /\ c.mismatch = r.mismatch /\ c.rel_counted = r.rel_counted
      /\ c.elems = r.elems /\ c.nonfinite = r.nonfinite
  BY <1>5, CosineAdded
<1> HIDE DEF c
<1>7. ElementsIn(c, T)
  BY <1>4, <1>6, SameElements
<1>8. Summary(c, R \cup {row})
  BY <1>3, <1>6, <1>7 DEF Summary
<1> QED BY <1>4, <1>8 DEF c

\* Nothing yet.
LEMMA NothingYet ==
  ASSUME HasRows
  PROVE  Summary(Team!Zero, {})
<1> DEFINE z == Team!Zero
<1>1. /\ z.max_abs = 0 /\ z.at = Team!Nowhere /\ z.max_rel = Team!Fraction(0, 1) /\ z.mismatch = 0
      /\ z.rel_counted = 0 /\ z.elems = 0 /\ z.nonfinite = 0 /\ z.cos_rows = 0 /\ z.cos_fail = 0
      /\ z.cos_at = Team!Nowhere /\ z \in Stats
  BY DEF Team!Zero, Stats
<1> HIDE DEF z
<1>2. IsFiniteSet({}) /\ \A P : {} \cap P = {} /\ Cardinality({}) = 0
  BY FS_EmptySet
<1>3. ElementsOf({}) = {}
  BY ElementPairs
<1>4. CountsOf(z, {})
  BY <1>1, <1>2 DEF CountsOf
<1>5. LargestOf(z, {}) /\ RelativeOf(z, {})
  BY <1>1 DEF LargestOf, RelativeOf
<1>6. CosinesOf(z, {})
  BY <1>1, <1>2 DEF CosinesOf
<1>7. Summary(z, {})
  BY <1>1, <1>2, <1>3, <1>4, <1>5, <1>6 DEF Summary, ElementsIn, RowsIn
<1> QED BY <1>7 DEF z

-----------------------------------------------------------------------------
(* What the critical section makes of two statistics                       *)

\* The statistics of disjoint sets of rows, merged.
LEMMA MergedAdded ==
  ASSUME HasRows, NEW g, NEW t, NEW R, NEW Q, Summary(g, R), Summary(t, Q), R \cap Q = {}
  PROVE  Summary(Team!Merged(g, t), R \cup Q)
<1> DEFINE m == Team!Merged(g, t)
           S == ElementsOf(R)
           T == ElementsOf(Q)
           U == S \cup T
<1>1. /\ g \in Stats /\ ElementsIn(g, S) /\ RowsIn(g, R)
      /\ t \in Stats /\ ElementsIn(t, T) /\ RowsIn(t, Q)
  BY DEF Summary
<1>2. S \cap T = {} /\ ElementsOf(R \cup Q) = U
  BY ElementPairs
<1> HIDE DEF S, T
<1>3. /\ m \in Stats
      /\ m.max_abs = (IF t.max_abs > g.max_abs THEN t.max_abs ELSE g.max_abs)
      /\ m.at = (IF t.max_abs > g.max_abs THEN t.at ELSE g.at)
      /\ m.max_rel = (IF Team!Less(g.max_rel, t.max_rel) THEN t.max_rel ELSE g.max_rel)
      /\ \/ m.cos_worst = t.cos_worst /\ m.cos_at = t.cos_at
         \/ m.cos_worst = g.cos_worst /\ m.cos_at = g.cos_at
      /\ m.mismatch = g.mismatch + t.mismatch /\ m.rel_counted = g.rel_counted + t.rel_counted
      /\ m.elems = g.elems + t.elems /\ m.nonfinite = g.nonfinite + t.nonfinite
      /\ m.cos_rows = g.cos_rows + t.cos_rows /\ m.cos_fail = g.cos_fail + t.cos_fail
  <2> DEFINE max_abs == IF t.max_abs > g.max_abs THEN t.max_abs ELSE g.max_abs
             at == IF t.max_abs > g.max_abs THEN t.at ELSE g.at
             max_rel == IF Team!Less(g.max_rel, t.max_rel) THEN t.max_rel ELSE g.max_rel
             cos_worst == IF Team!Less(t.cos_worst, g.cos_worst) THEN t.cos_worst ELSE g.cos_worst
             cos_at == IF Team!Less(t.cos_worst, g.cos_worst) THEN t.cos_at ELSE g.cos_at
  <2>1. m = [g EXCEPT !.max_abs = max_abs, !.at = at, !.max_rel = max_rel,
                      !.cos_worst = cos_worst, !.cos_at = cos_at,
                      !.mismatch = g.mismatch + t.mismatch, !.rel_counted = g.rel_counted + t.rel_counted,
                      !.elems = g.elems + t.elems, !.nonfinite = g.nonfinite + t.nonfinite,
                      !.cos_rows = g.cos_rows + t.cos_rows, !.cos_fail = g.cos_fail + t.cos_fail]
    BY DEF Team!Merged
  <2>2. /\ max_abs \in Nat /\ at \in All \cup {Team!Nowhere}
        /\ max_rel \in {Team!Fraction(0, 1)} \cup {Rel(e) : e \in Counted}
        /\ cos_worst \in {Team!Fraction(1, 1)} \cup {Team!Cosine(row) : row \in AllRows}
        /\ cos_at \in AllRows \cup {Team!Nowhere}
    BY <1>1 DEF Stats
  <2>3. /\ g.mismatch + t.mismatch \in Nat /\ g.rel_counted + t.rel_counted \in Nat
        /\ g.elems + t.elems \in Nat /\ g.nonfinite + t.nonfinite \in Nat
        /\ g.cos_rows + t.cos_rows \in Nat /\ g.cos_fail + t.cos_fail \in Nat
    BY <1>1 DEF Stats
  <2>4. \/ cos_worst = t.cos_worst /\ cos_at = t.cos_at
        \/ cos_worst = g.cos_worst /\ cos_at = g.cos_at
    OBVIOUS
  <2> HIDE DEF m, max_abs, at, max_rel, cos_worst, cos_at
  <2>5. /\ m \in Stats
        /\ m.max_abs = max_abs /\ m.at = at /\ m.max_rel = max_rel
        /\ m.cos_worst = cos_worst /\ m.cos_at = cos_at
        /\ m.mismatch = g.mismatch + t.mismatch /\ m.rel_counted = g.rel_counted + t.rel_counted
        /\ m.elems = g.elems + t.elems /\ m.nonfinite = g.nonfinite + t.nonfinite
        /\ m.cos_rows = g.cos_rows + t.cos_rows /\ m.cos_fail = g.cos_fail + t.cos_fail
    BY <1>1, <2>1, <2>2, <2>3 DEF Stats
  <2> QED BY <2>4, <2>5 DEF max_abs, at, max_rel
<1> HIDE DEF m
<1>4. /\ IsFiniteSet(S) /\ S \subseteq All /\ CountsOf(g, S) /\ LargestOf(g, S) /\ RelativeOf(g, S)
      /\ IsFiniteSet(T) /\ T \subseteq All /\ CountsOf(t, T) /\ LargestOf(t, T) /\ RelativeOf(t, T)
  BY <1>1 DEF ElementsIn
<1>5. IsFiniteSet(U) /\ U \subseteq All
  BY <1>4, FS_Union
<1>6. CountsOf(m, U)
  <2>1. /\ Cardinality(U \cap All) = Cardinality(S \cap All) + Cardinality(T \cap All)
        /\ Cardinality(U \cap Mismatched) = Cardinality(S \cap Mismatched) + Cardinality(T \cap Mismatched)
        /\ Cardinality(U \cap Nonfinite) = Cardinality(S \cap Nonfinite) + Cardinality(T \cap Nonfinite)
        /\ Cardinality(U \cap Counted) = Cardinality(S \cap Counted) + Cardinality(T \cap Counted)
    <3>1. \A P : AddsUp(S, T, P)
      BY <1>2, <1>4, CountUnion
    <3> QED BY <3>1 DEF AddsUp
  <2> HIDE DEF U
  <2> QED BY <1>3, <1>4, <2>1 DEF CountsOf
<1>7. LargestOf(m, U)
  <2>1. g.max_abs \in Nat /\ t.max_abs \in Nat /\ \A e \in U : Err(e) \in Nat
    BY <1>1, <1>5, RelTypes DEF Stats
  <2>2. (\A e \in U : e \in S \/ e \in T) /\ S \subseteq U /\ T \subseteq U
    OBVIOUS
  <2> HIDE DEF U
  <2>3. CASE t.max_abs > g.max_abs
    <3>1. m.max_abs = t.max_abs /\ m.at = t.at
      BY <1>3, <2>3
    <3> QED BY <1>4, <2>1, <2>2, <2>3, <3>1 DEF LargestOf
  <2>4. CASE ~(t.max_abs > g.max_abs)
    <3>1. m.max_abs = g.max_abs /\ m.at = g.at
      BY <1>3, <2>4
    <3> QED BY <1>4, <2>1, <2>2, <2>4, <3>1 DEF LargestOf
  <2> QED BY <2>3, <2>4
<1>8. RelativeOf(m, U)
  <2>1. /\ \A e \in U \cap Counted : e \in S \cap Counted \/ e \in T \cap Counted
        /\ \A e \in S \cap Counted : e \in U \cap Counted
        /\ \A e \in T \cap Counted : e \in U \cap Counted
    OBVIOUS
  <2>2. /\ \A e \in S \cap Counted : ~Team!Less(g.max_rel, Rel(e))
        /\ g.max_rel = Team!Fraction(0, 1) \/ \E e \in S \cap Counted : g.max_rel = Rel(e)
        /\ \A e \in T \cap Counted : ~Team!Less(t.max_rel, Rel(e))
        /\ t.max_rel = Team!Fraction(0, 1) \/ \E e \in T \cap Counted : t.max_rel = Rel(e)
    BY <1>4 DEF RelativeOf
  <2>3. /\ \A e \in Counted : Rel(e) \in [n : Nat, d : Nat \ {0}]
        /\ g.max_rel \in [n : Nat, d : Nat \ {0}] /\ t.max_rel \in [n : Nat, d : Nat \ {0}]
    BY <2>2, RelTypes
  <2> HIDE DEF U
  <2>4. CASE Team!Less(g.max_rel, t.max_rel)
    <3>1. m.max_rel = t.max_rel
      BY <1>3, <2>4
    <3>2. \A e \in S \cap Counted : ~Team!Less(t.max_rel, Rel(e))
      BY <2>2, <2>3, <2>4, LessBound
    <3>3. \A e \in U \cap Counted : ~Team!Less(m.max_rel, Rel(e))
      BY <2>1, <2>2, <3>1, <3>2
    <3>4. m.max_rel = Team!Fraction(0, 1) \/ \E e \in U \cap Counted : m.max_rel = Rel(e)
      BY <2>1, <2>2, <3>1
    <3> QED BY <3>3, <3>4 DEF RelativeOf
  <2>5. CASE ~Team!Less(g.max_rel, t.max_rel)
    <3>1. m.max_rel = g.max_rel
      BY <1>3, <2>5
    <3>2. \A e \in T \cap Counted : ~Team!Less(g.max_rel, Rel(e))
      <4> SUFFICES ASSUME NEW e \in T \cap Counted, Team!Less(g.max_rel, Rel(e)) PROVE FALSE
        OBVIOUS
      <4>1. ~Team!Less(t.max_rel, Rel(e)) /\ Rel(e) \in [n : Nat, d : Nat \ {0}]
        BY <2>2, <2>3
      <4>2. Team!Less(g.max_rel, t.max_rel)
        BY <2>3, <4>1, LessChain
      <4> QED BY <2>5, <4>2
    <3>3. \A e \in U \cap Counted : ~Team!Less(m.max_rel, Rel(e))
      BY <2>1, <2>2, <3>1, <3>2
    <3>4. m.max_rel = Team!Fraction(0, 1) \/ \E e \in U \cap Counted : m.max_rel = Rel(e)
      BY <2>1, <2>2, <3>1
    <3> QED BY <3>3, <3>4 DEF RelativeOf
  <2> QED BY <2>4, <2>5
<1>9. RowsIn(m, R \cup Q)
  <2>1. /\ IsFiniteSet(R) /\ R \subseteq AllRows /\ CosinesOf(g, R)
        /\ IsFiniteSet(Q) /\ Q \subseteq AllRows /\ CosinesOf(t, Q)
    BY <1>1 DEF RowsIn
  <2> DEFINE V == R \cup Q
  <2>2. /\ Cardinality(V \cap Defined) = Cardinality(R \cap Defined) + Cardinality(Q \cap Defined)
        /\ Cardinality(V \cap Failing) = Cardinality(R \cap Failing) + Cardinality(Q \cap Failing)
        /\ IsFiniteSet(V)
    <3>1. \A P : AddsUp(R, Q, P)
      BY <2>1, CountUnion
    <3>2. IsFiniteSet(V)
      BY <2>1, FS_Union
    <3> QED BY <3>1, <3>2 DEF AddsUp
  <2>3. V \subseteq AllRows /\ R \subseteq V /\ Q \subseteq V
    BY <2>1
  <2> HIDE DEF V
  <2>4. CosinesOf(m, V)
    <3>1. m.cos_rows = Cardinality(V \cap Defined) /\ m.cos_fail = Cardinality(V \cap Failing)
      BY <1>3, <2>1, <2>2 DEF CosinesOf
    <3>2. m.cos_at # Team!Nowhere => m.cos_at \in V /\ m.cos_worst = Team!Cosine(m.cos_at)
      BY <1>3, <2>1, <2>3 DEF CosinesOf
    <3> QED BY <3>1, <3>2 DEF CosinesOf
  <2>5. RowsIn(m, V)
    BY <2>2, <2>3, <2>4 DEF RowsIn
  <2> QED BY <2>5 DEF V
<1> HIDE DEF U
<1>10. ElementsIn(m, U)
  BY <1>5, <1>6, <1>7, <1>8 DEF ElementsIn
<1>11. Summary(m, R \cup Q)
  BY <1>2, <1>3, <1>9, <1>10 DEF Summary
<1> QED BY <1>11 DEF m

-----------------------------------------------------------------------------
(* The invariant of the team                                               *)

\* Place of a row's pair in the collapsed loop, and the number of pairs.
Pair(row) == row[1] * Team!Hq + row[2]
Pairs     == Team!B * Team!Hq

TeamTypes ==
  /\ HasRows
  /\ next \in 0..Pairs
  /\ todo \in [Threads -> Seq(AllRows)]
  /\ phase \in [Threads -> {"loop", "barrier", "merged"}]
  /\ private \in [Threads -> Stats]

\* Nobody merges before everybody has left the loop, and the verdict comes last.
Phases ==
  /\ \A t \in Threads : phase[t] # "loop" => todo[t] = << >> /\ next = Pairs
  /\ \A t \in Threads : phase[t] = "merged" => \A u \in Threads : phase[u] # "loop"
  /\ verdict # "none" => /\ \A t \in Threads : phase[t] = "merged"
                         /\ verdict = IF Team!pass(total) THEN "OK" ELSE "FAIL"

\* The pairs below next are dealt to the threads: done[t] compared, left[t] not.
Dealt(done, left) ==
  /\ \A t \in Threads : IsListOf(todo[t], left[t]) /\ done[t] \cap left[t] = {}
  /\ \A t, u \in Threads : t # u => (done[t] \cup left[t]) \cap (done[u] \cup left[u]) = {}
  /\ \A row \in AllRows : Pair(row) < next <=> \E t \in Threads : row \in done[t] \cup left[t]

\* The rows in the merged statistics.
MergedRows(done) == UNION {done[t] : t \in {u \in Threads : phase[u] = "merged"}}

\* The statistics are those of the rows compared.
Summed(done) ==
  /\ \A t \in Threads : Summary(private[t], done[t])
  /\ Summary(total, MergedRows(done))

Sharing(done, left) ==
  /\ done \in [Threads -> SUBSET AllRows] /\ left \in [Threads -> SUBSET AllRows]
  /\ Dealt(done, left) /\ Summed(done)

Running == TeamTypes /\ Phases /\ \E done, left : Sharing(done, left)

TeamInv == NoTeam \/ Running

-----------------------------------------------------------------------------
(* The rows of some pairs                                                  *)

\* A row is a batch, a head and a position.
LEMMA RowParts ==
  /\ \A row \in AllRows :
       /\ row = <<row[1], row[2], row[3]>>
       /\ row[1] \in 0..(Len(shape[2]) - 1) /\ row[2] \in 0..(shape[1] - 1)
       /\ row[3] \in 0..(shape[2][row[1] + 1] - 1)
  /\ \A b \in 0..(Len(shape[2]) - 1) : \A h \in 0..(shape[1] - 1) :
       \A k \in 0..(shape[2][b + 1] - 1) : <<b, h, k>> \in AllRows
<1>1. ASSUME NEW row \in AllRows
      PROVE  /\ row = <<row[1], row[2], row[3]>>
             /\ row[1] \in 0..(Len(shape[2]) - 1) /\ row[2] \in 0..(shape[1] - 1)
             /\ row[3] \in 0..(shape[2][row[1] + 1] - 1)
  <2>1. PICK b \in 0..(Len(shape[2]) - 1) :
           row \in {b} \X (0..(shape[1] - 1)) \X (0..(shape[2][b + 1] - 1))
    BY DEF AllRows, Team!RowsOf
  <2>2. /\ row = <<row[1], row[2], row[3]>> /\ row[1] = b
        /\ row[2] \in 0..(shape[1] - 1) /\ row[3] \in 0..(shape[2][b + 1] - 1)
    BY <2>1
  <2> QED BY <2>2
<1>2. ASSUME NEW b \in 0..(Len(shape[2]) - 1), NEW h \in 0..(shape[1] - 1),
             NEW k \in 0..(shape[2][b + 1] - 1)
      PROVE  <<b, h, k>> \in AllRows
  <2>1. <<b, h, k>> \in {b} \X (0..(shape[1] - 1)) \X (0..(shape[2][b + 1] - 1))
    OBVIOUS
  <2> QED BY <2>1 DEF AllRows, Team!RowsOf
<1> QED BY <1>1, <1>2

\* A row has a place among the pairs.
LEMMA RowTypes ==
  ASSUME HasRows
  PROVE  /\ Team!Hq \in Nat \ {0} /\ Team!B \in Nat /\ Pairs \in Nat
         /\ shape[2] \in Seq(Nat) /\ shape # << >> /\ Pairs = Team!Hq * Team!B
         /\ \A row \in AllRows : Pair(row) \in Nat /\ Pair(row) < Pairs
<1>1. shape \in (Nat \ {0}) \X Seq(Nat)
  BY VerifyAssumption DEF HasRows
<1>2. /\ Team!Hq \in Nat \ {0} /\ Team!B \in Nat /\ shape[2] \in Seq(Nat) /\ shape # << >>
  BY <1>1 DEF Team!Hq, Team!B
<1>3. Pairs \in Nat /\ Pairs = Team!Hq * Team!B
  BY <1>2 DEF Pairs
<1>4. ASSUME NEW row \in AllRows PROVE Pair(row) \in Nat /\ Pair(row) < Pairs
  <2>1. row[1] \in 0..(Team!B - 1) /\ row[2] \in 0..(Team!Hq - 1)
    BY RowParts DEF Team!B, Team!Hq
  <2>2. Pair(row) \in 0..(Pairs - 1)
    BY <1>2, <2>1, TwoDigitsBound DEF Pair, Pairs
  <2> QED BY <1>3, <2>2
<1> QED BY <1>2, <1>3, <1>4

PairRows(first, last) == {row \in AllRows : first <= Pair(row) /\ Pair(row) <= last}

OnePair(n) ==
  [k \in 1..Team!get_sq(n \div Team!Hq) |-> <<n \div Team!Hq, n % Team!Hq, k - 1>>]

\* The rows of one pair.
LEMMA OnePairList ==
  ASSUME HasRows, NEW n \in Nat, n < Pairs
  PROVE  IsListOf(OnePair(n), PairRows(n, n))
<1> DEFINE b == n \div Team!Hq
           h == n % Team!Hq
           sq == Team!get_sq(b)
<1>1. /\ Team!Hq \in Nat \ {0} /\ Team!B \in Nat /\ shape[2] \in Seq(Nat)
      /\ Pairs = Team!Hq * Team!B
  BY RowTypes
<1>2. /\ b \in Nat /\ h \in 0..(Team!Hq - 1) /\ n = Team!Hq * b + h
  BY <1>1, DivMod
<1>3. b < Team!B
  BY <1>1, DivBound
<1>4. sq = shape[2][b + 1]
  BY DEF Team!get_sq
<1>5. OnePair(n) = [k \in 1..sq |-> <<b, h, k - 1>>]
  BY DEF OnePair
<1> HIDE DEF b, h, sq
<1>6. sq \in Nat
  <2>1. b + 1 \in 1..Len(shape[2])
    BY <1>1, <1>2, <1>3 DEF Team!B
  <2> QED BY <1>1, <1>4, <2>1
<1>7. n = b * Team!Hq + h
  BY <1>1, <1>2
<1>8. \A k \in 1..sq : <<b, h, k - 1>> \in PairRows(n, n)
  <2> SUFFICES ASSUME NEW k \in 1..sq PROVE <<b, h, k - 1>> \in PairRows(n, n)
    OBVIOUS
  <2>1. <<b, h, k - 1>> \in AllRows
    <3>1. b \in 0..(Len(shape[2]) - 1)
      BY <1>1, <1>2, <1>3 DEF Team!B
    <3>2. h \in 0..(shape[1] - 1)
      BY <1>2 DEF Team!Hq
    <3>3. k - 1 \in 0..(shape[2][b + 1] - 1)
      BY <1>4, <1>6
    <3> QED BY <3>1, <3>2, <3>3, RowParts
  <2>2. Pair(<<b, h, k - 1>>) = n
    BY <1>7 DEF Pair
  <2> QED BY <2>1, <2>2 DEF PairRows
<1>9. ASSUME NEW row \in PairRows(n, n) PROVE \E k \in 1..sq : <<b, h, k - 1>> = row
  <2>1. row \in AllRows /\ Pair(row) = n
    BY RowTypes DEF PairRows
  <2>2. /\ row = <<row[1], row[2], row[3]>>
        /\ row[1] \in 0..(Team!B - 1) /\ row[2] \in 0..(Team!Hq - 1)
        /\ row[3] \in 0..(shape[2][row[1] + 1] - 1)
    BY <2>1, RowParts DEF Team!B, Team!Hq
  <2>3. row[1] * Team!Hq + row[2] = b * Team!Hq + h /\ row[1] \in Nat
    BY <1>1, <1>7, <2>1, <2>2 DEF Pair
  <2> DEFINE c == row[1]
             g == row[2]
             D == Team!Hq
  <2>4. D \in Nat \ {0} /\ c \in Nat /\ g \in 0..(D - 1) /\ b \in Nat /\ h \in 0..(D - 1)
        /\ c * D + g = b * D + h
    BY <1>1, <1>2, <2>2, <2>3
  <2> HIDE DEF c, g, D
  <2>5. c = b /\ g = h
    BY <2>4, TwoDigits
  <2> USE DEF c, g
  <2>6. row[3] + 1 \in 1..sq /\ (row[3] + 1) - 1 = row[3]
    BY <1>4, <1>6, <2>2, <2>5
  <2> QED BY <2>2, <2>5, <2>6
<1> DEFINE q == [k \in 1..sq |-> <<b, h, k - 1>>]
<1>10. q \in Seq(PairRows(n, n)) /\ Len(q) = sq /\ \A k \in 1..sq : q[k] = <<b, h, k - 1>>
  BY <1>6, <1>8
<1> HIDE DEF q
<1>11. \A j, k \in 1..sq : q[j] = q[k] => j = k
  <2> SUFFICES ASSUME NEW j \in 1..sq, NEW k \in 1..sq, q[j] = q[k] PROVE j = k
    OBVIOUS
  <2>1. <<b, h, j - 1>> = <<b, h, k - 1>>
    BY <1>10
  <2>2. j - 1 = k - 1
    BY <2>1
  <2> QED BY <1>6, <2>2
<1>12. \A row \in PairRows(n, n) : \E k \in 1..sq : q[k] = row
  BY <1>9, <1>10
<1>13. IsListOf(q, PairRows(n, n))
  BY <1>10, <1>11, <1>12 DEF IsListOf
<1> QED BY <1>5, <1>13 DEF q

\* The rows of the pairs so far.
PairFold(f, first, last) ==
  [n \in (first - 1)..last |-> IF n = first - 1 THEN << >> ELSE f[n - 1] \o OnePair(n)]

\* Lists of rows, one after another, are a list of rows.
LEMMA ConcatRows ==
  ASSUME NEW S
  PROVE  \A x, y \in Seq(S) : x \o y \in Seq(S)
OBVIOUS

\* They are listed.
LEMMA ChunkList ==
  ASSUME HasRows, NEW first \in Nat, NEW last \in Nat, first <= last, last < Pairs
  PROVE  IsListOf(Team!RowsOfPairs(first, last), PairRows(first, last))
<1> DEFINE lo == first - 1
           V == Seq(AllRows)
           step == [x \in ((lo + 1)..last) \X V |-> x[2] \o OnePair(x[1])]
           f == CHOOSE g : g = PairFold(g, first, last)
<1>0. \A x, y \in V : x \o y \in V
  BY ConcatRows
<1>1. Team!RowsOfPairs(first, last) = f[last]
  BY Zenon DEF Team!RowsOfPairs, PairFold, OnePair
<1>2. \A n \in (lo + 1)..last : n \in Nat /\ n < Pairs /\ OnePair(n) \in V
  <2> SUFFICES ASSUME NEW n \in (lo + 1)..last PROVE n \in Nat /\ n < Pairs /\ OnePair(n) \in V
    OBVIOUS
  <2>1. n \in Nat /\ n < Pairs
    BY RowTypes
  <2>2. OnePair(n) \in Seq(PairRows(n, n))
    BY <2>1, OnePairList DEF IsListOf
  <2>3. PairRows(n, n) \subseteq AllRows
    BY DEF PairRows
  <2> QED BY <2>1, <2>2, <2>3
<1>3. \E g : g = PairFold(g, first, last)
  <2>1. \A x \in ((lo + 1)..last) \X V : x[2] \o OnePair(x[1]) \in V
    <3> SUFFICES ASSUME NEW n \in (lo + 1)..last, NEW v \in V PROVE v \o OnePair(n) \in V
      OBVIOUS
    <3>1. OnePair(n) \in V
      BY <1>2
    <3> QED BY <3>1, <1>0
  <2>2. IsStep(step, lo, last, V)
    BY <2>1 DEF IsStep
  <2>3. \A n \in (lo + 1)..last : \A v \in V : step[<<n, v>>] = v \o OnePair(n)
    OBVIOUS
  <2>4. lo \in Int /\ lo <= last /\ << >> \in V /\ last \in Int
    OBVIOUS
  <2> HIDE DEF step, V, lo
  <2>5. PICK g : Iterates(g, lo, last, V, << >>, step)
    BY <2>2, <2>4, IterateExists
  <2>6. \A n \in lo..last : g[n] = IF n = lo THEN << >> ELSE g[n - 1] \o OnePair(n)
    <3> SUFFICES ASSUME NEW n \in lo..last PROVE g[n] = IF n = lo THEN << >> ELSE g[n - 1] \o OnePair(n)
      OBVIOUS
    <3>1. g[n] = IF n = lo THEN << >> ELSE step[<<n, g[n - 1]>>]
      BY <2>5 DEF Iterates
    <3>2. n # lo => n \in (lo + 1)..last /\ n - 1 \in lo..last
      BY <2>4
    <3>3. n # lo => g[n - 1] \in V
      BY <2>5, <3>2 DEF Iterates
    <3> QED BY <2>3, <3>1, <3>2, <3>3
  <2>7. g = [n \in lo..last |-> g[n]]
    BY <2>5 DEF Iterates
  <2>8. g = PairFold(g, first, last)
    BY <2>6, <2>7 DEF PairFold, lo
  <2> QED BY <2>8
<1>4. f = PairFold(f, first, last)
  BY <1>3
<1> HIDE DEF f
<1>5. \A n \in lo..last : f[n] = IF n = lo THEN << >> ELSE f[n - 1] \o OnePair(n)
  BY <1>4 DEF PairFold
<1> DEFINE P == {m \in Nat : lo + m <= last => IsListOf(f[lo + m], PairRows(first, lo + m))}
<1>6. 0 \in P
  <2>1. PairRows(first, lo + 0) = {}
    BY RowTypes DEF PairRows
  <2>2. f[lo + 0] = << >>
    BY <1>5
  <2> QED BY <2>1, <2>2, EmptyList
<1>7. ASSUME NEW m \in P PROVE m + 1 \in P
  <2> DEFINE n == lo + (m + 1)
  <2> SUFFICES ASSUME n <= last PROVE IsListOf(f[n], PairRows(first, n))
    OBVIOUS
  <2>1. n \in (lo + 1)..last /\ n \in lo..last /\ n # lo /\ n - 1 = lo + m /\ n \in Nat
    OBVIOUS
  <2>2. IsListOf(f[n - 1], PairRows(first, n - 1))
    BY <2>1
  <2> HIDE DEF n, lo
  <2>3. f[n] = f[n - 1] \o OnePair(n)
    BY <1>5, <2>1
  <2>4. IsListOf(OnePair(n), PairRows(n, n))
    BY <1>2, <2>1, OnePairList
  <2>5. /\ PairRows(first, n - 1) \cap PairRows(n, n) = {}
        /\ PairRows(first, n) = PairRows(first, n - 1) \cup PairRows(n, n)
    <3>1. \A row \in AllRows : Pair(row) \in Nat
      BY RowTypes
    <3>2. first <= n
      BY <2>1 DEF lo
    <3> QED BY <2>1, <3>1, <3>2 DEF PairRows
  <2> QED BY <2>2, <2>3, <2>4, <2>5, ConcatLists
<1>8. P = Nat
  <2>1. P \subseteq Nat
    OBVIOUS
  <2> HIDE DEF P
  <2> QED BY <1>6, <1>7, <2>1, NaturalInduction
<1> DEFINE m == last - lo
<1>9. m \in Nat /\ lo + m = last
  OBVIOUS
<1> HIDE DEF m
<1>10. m \in P
  BY <1>8, <1>9
<1>11. IsListOf(f[lo + m], PairRows(first, lo + m))
  BY <1>9, <1>10
<1> QED BY <1>1, <1>9, <1>11

-----------------------------------------------------------------------------
(* What the rows alone decide                                              *)

\* The cosine, of a row and its reference.
CosineOf(w) ==
  LET width  == Len(w[1])
      dot    == Team!SumTo(width, LAMBDA d : w[1][d] * w[2][d])
      norm_r == Team!SumTo(width, LAMBDA d : w[1][d] * w[1][d])
      norm_k == Team!SumTo(width, LAMBDA d : w[2][d] * w[2][d])
  IN  Team!Fraction(dot * Team!Magnitude(dot), norm_r * norm_k)

\* What does not depend on what the team changes.
LEMMA SameRows ==
  ASSUME UNCHANGED <<shape, output>>
  PROVE  /\ AllRows' = AllRows /\ HasRows' = HasRows /\ Stats' = Stats /\ Pairs' = Pairs
         /\ \A row : Team!Dims(row)' = Team!Dims(row)
         /\ \A row, d : Team!abs_err(row, d)' = Team!abs_err(row, d)
         /\ \A row : Pair(row)' = Pair(row)
         /\ \A s, R : Summary(s, R)' = Summary(s, R)
<1>1. /\ \A row, d : Team!ref(row, d)' = Team!ref(row, d) /\ Team!kern(row, d)' = Team!kern(row, d)
      /\ \A row : Team!Dims(row)' = Team!Dims(row)
      /\ AllRows' = AllRows /\ Pairs' = Pairs /\ \A row : Pair(row)' = Pair(row)
  BY DEF Team!ref, Team!kern, Team!Dims, AllRows, Team!RowsOf, Pairs, Pair, Team!B, Team!Hq
<1>2. HasRows' = HasRows
  BY <1>1 DEF HasRows
<1>3. \A row, d : Team!abs_err(row, d)' = Team!abs_err(row, d)
  BY <1>1 DEF Team!abs_err, Team!Finite, Team!Magnitude
<1>4. \A R : ElementsOf(R)' = ElementsOf(R)
  BY <1>1 DEF ElementsOf
<1>5. All' = All
  BY <1>1, <1>4 DEF All
<1>6. \A e : Err(e)' = Err(e) /\ Rel(e)' = Rel(e)
  BY <1>1, <1>3 DEF Err, Rel, Team!Fraction, Team!Magnitude
<1>7. Mismatched' = Mismatched /\ Nonfinite' = Nonfinite /\ Counted' = Counted
  BY <1>1, <1>5, <1>6 DEF Mismatched, Nonfinite, Counted, Team!Finite, Team!Magnitude
<1>8. \A row : Team!CosineDefined(row)' = Team!CosineDefined(row) /\ Team!Cosine(row)' = Team!Cosine(row)
  <2>1. \A row : Team!CosineDefined(row)' = Team!CosineDefined(row)
    BY <1>1 DEF Team!CosineDefined
  <2>2. ASSUME NEW row PROVE Team!Cosine(row)' = Team!Cosine(row)
    <3>1. Team!Cosine(row) = CosineOf(output[row])
      BY Zenon DEF CosineOf, Team!Cosine, Team!SumTo, Team!ref, Team!kern
    <3>2. Team!Cosine(row)' = CosineOf(output'[row])
      BY Zenon DEF CosineOf, Team!Cosine, Team!SumTo, Team!ref, Team!kern, Team!Fraction, Team!Magnitude
    <3> QED BY <3>1, <3>2
  <2> QED BY <2>1, <2>2
<1>9. Defined' = Defined /\ Compared' = Compared
  BY <1>1, <1>8 DEF Defined, Compared, Team!Finite
<1>10. Failing' = Failing
  BY <1>8, <1>9 DEF Failing, Team!Less
<1>11. Stats' = Stats
  BY <1>1, <1>5, <1>6, <1>7, <1>8 DEF Stats, Team!Nowhere, Team!Fraction
<1>12. \A s, S : ElementsIn(s, S)' = ElementsIn(s, S)
  BY <1>5, <1>6, <1>7 DEF ElementsIn, CountsOf, LargestOf, RelativeOf, Team!Nowhere, Team!Less, Team!Fraction
<1>13. \A s, R : RowsIn(s, R)' = RowsIn(s, R)
  BY <1>1, <1>8, <1>9, <1>10 DEF RowsIn, CosinesOf, Team!Nowhere
<1>14. \A s, R : Summary(s, R)' = Summary(s, R)
  BY <1>4, <1>11, <1>12, <1>13 DEF Summary
<1> QED BY <1>1, <1>2, <1>3, <1>11, <1>14

\* What a step that leaves the shape and the output alone keeps.
LEMMA TypesKept ==
  ASSUME TeamTypes, UNCHANGED <<shape, output>>,
         next' \in 0..Pairs, todo' \in [Threads -> Seq(AllRows)],
         phase' \in [Threads -> {"loop", "barrier", "merged"}],
         private' \in [Threads -> Stats]
  PROVE  TeamTypes'
<1>1. AllRows' = AllRows /\ HasRows' = HasRows /\ Stats' = Stats /\ Pairs' = Pairs
  BY SameRows
<1> QED BY <1>1 DEF TeamTypes

\* What the rows left and compared have to be after such a step.
LEMMA DealtKept ==
  ASSUME UNCHANGED <<shape, output>>, NEW done, NEW left,
         \A t \in Threads : IsListOf(todo'[t], left[t]) /\ done[t] \cap left[t] = {},
         \A t, u \in Threads : t # u => (done[t] \cup left[t]) \cap (done[u] \cup left[u]) = {},
         \A row \in AllRows : Pair(row) < next' <=> \E t \in Threads : row \in done[t] \cup left[t]
  PROVE  Dealt(done, left)'
<1>1. AllRows' = AllRows /\ \A row : Pair(row)' = Pair(row)
  BY SameRows
<1> QED BY <1>1 DEF Dealt

\* What the statistics have to be after such a step.
LEMMA SummedKept ==
  ASSUME UNCHANGED <<shape, output>>, NEW done, NEW merged,
         merged = UNION {done[t] : t \in {u \in Threads : phase'[u] = "merged"}},
         NEW sums, private' = sums, \A t \in Threads : Summary(sums[t], done[t]),
         NEW sum, total' = sum, Summary(sum, merged)
  PROVE  Summed(done)'
<1>1. \A s, R : Summary(s, R)' <=> Summary(s, R)
  BY SameRows
<1>2. \A t \in Threads : Summary(private[t], done[t])'
  <2> SUFFICES ASSUME NEW t \in Threads PROVE Summary(private[t], done[t])'
    OBVIOUS
  <2> DEFINE s == sums[t]
  <2>1. s = private'[t] /\ Summary(s, done[t])
    OBVIOUS
  <2> HIDE DEF s
  <2>2. Summary(s, done[t])'
    BY <1>1, <2>1
  <2> QED BY <2>1, <2>2
<1>3. MergedRows(done)' = merged
  BY DEF MergedRows
<1>4. Summary(total, MergedRows(done))'
  <2>1. Summary(sum, merged)'
    BY <1>1
  <2> QED BY <1>3, <2>1
<1> QED BY <1>2, <1>4 DEF Summed

-----------------------------------------------------------------------------
(* The steps of the team                                                   *)

\* What holds of the rows before any of them is compared.
Untouched ==
  Summary(Team!Zero, {}) /\ Pairs \in Nat /\ \A row \in AllRows : Pair(row) \in Nat

\* It holds as soon as there is something to compare.
LEMMA RowsUntouched == HasRows => Untouched
BY NothingYet, RowTypes DEF Untouched

\* Entering the region: no row is dealt, and none compared.
LEMMA EnterStep ==
  ASSUME Team!Enter
  PROVE  Running'
<1>1. HasRows'
  BY DEF Team!Enter, HasRows, AllRows
<1>2. /\ Summary(Team!Zero, {})'
      /\ Pairs' \in Nat /\ \A row \in AllRows' : Pair(row)' \in Nat
  <2>1. Untouched'
    BY <1>1, RowsUntouched, PTL
  <2> QED BY <2>1 DEF Untouched
<1> DEFINE none == [t \in Threads |-> {}]
<1>3. /\ next' = 0 /\ todo' = [t \in Threads |-> << >>] /\ phase' = [t \in Threads |-> "loop"]
      /\ private' = [t \in Threads |-> Team!Zero] /\ total' = Team!Zero
      /\ verdict' = "none"
  BY DEF Team!Enter, AllRows
<1>4. Team!Zero' = Team!Zero
  BY DEF Team!Zero, Team!Nowhere, Team!Fraction
<1>5. TeamTypes'
  <2>1. Team!Zero \in Stats'
    BY <1>2, <1>4 DEF Summary
  <2> QED BY <1>1, <1>2, <1>3, <2>1 DEF TeamTypes
<1>6. Phases'
  BY <1>3 DEF Phases
<1>7. MergedRows(none)' = {}
  BY <1>3 DEF MergedRows
<1>8. Dealt(none, none)'
  <2>1. IsListOf(<< >>, {})
    BY EmptyList
  <2> QED BY <1>2, <1>3, <2>1 DEF Dealt
<1>9. Summed(none)'
  <2>1. \A t \in Threads : private'[t] = Team!Zero /\ none[t] = {}
    BY <1>3
  <2>2. \A t \in Threads : Summary(private[t], none[t])'
    BY <1>2, <1>4, <2>1
  <2>3. Summary(total, MergedRows(none))'
    BY <1>2, <1>3, <1>4, <1>7
  <2> QED BY <2>1, <2>2, <2>3 DEF Summed
<1>10. Sharing(none, none)'
  BY <1>8, <1>9 DEF Sharing
<1> QED BY <1>5, <1>6, <1>10 DEF Running

\* Taking the next pairs: their rows are nobody else's.
LEMMA TakeStep ==
  ASSUME Running, NEW t \in Threads, Team!Take(t)
  PROVE  Running'
<1> DEFINE beyond == IF next + Chunk < Pairs THEN next + Chunk ELSE Pairs
           last == beyond - 1
<1>1. /\ phase[t] = "loop" /\ todo[t] = << >> /\ next < Pairs
      /\ todo' = [todo EXCEPT ![t] = Team!RowsOfPairs(next, last)] /\ next' = beyond
      /\ UNCHANGED <<shape, output, phase, private, total, verdict>>
  BY DEF Team!Take, Pairs
<1>2. /\ TeamTypes /\ Phases /\ HasRows /\ next \in Nat
      /\ Pairs \in Nat /\ \A row \in AllRows : Pair(row) \in Nat /\ Pair(row) < Pairs
  BY RowTypes DEF Running, TeamTypes
<1>3. PICK done, left : Sharing(done, left)
  BY DEF Running
<1>4. beyond \in Nat /\ last \in Nat /\ next <= last /\ last < Pairs /\ beyond <= Pairs /\ beyond = last + 1
  BY <1>1, <1>2, VerifyAssumption
<1> HIDE DEF beyond, last
<1> DEFINE taken == PairRows(next, last)
<1>5. IsListOf(Team!RowsOfPairs(next, last), taken)
  BY <1>2, <1>4, ChunkList
<1>6. taken \subseteq AllRows /\ \A row \in AllRows : row \in taken <=> next <= Pair(row) /\ Pair(row) < beyond
  BY <1>2, <1>4 DEF PairRows
<1> HIDE DEF taken
<1>7. /\ done \in [Threads -> SUBSET AllRows] /\ left \in [Threads -> SUBSET AllRows]
      /\ Dealt(done, left) /\ Summed(done)
  BY <1>3 DEF Sharing
<1>8. left[t] = {}
  BY <1>1, <1>7, ListOfNothing DEF Dealt
<1>9. \A u \in Threads : (done[u] \cup left[u]) \cap taken = {}
  <2> SUFFICES ASSUME NEW u \in Threads, NEW row \in done[u] \cup left[u], row \in taken PROVE FALSE
    OBVIOUS
  <2>1. row \in AllRows
    BY <1>6
  <2>2. Pair(row) < next
    BY <1>7, <2>1 DEF Dealt
  <2> QED BY <1>2, <1>6, <2>1, <2>2
<1>10. PICK left2 \in [Threads -> SUBSET AllRows] :
          left2[t] = taken /\ \A u \in Threads \ {t} : left2[u] = left[u]
  <2> DEFINE l == [left EXCEPT ![t] = taken]
  <2>1. l \in [Threads -> SUBSET AllRows] /\ l[t] = taken /\ \A u \in Threads \ {t} : l[u] = left[u]
    BY <1>6, <1>7
  <2> QED BY <2>1
<1>11. \A u \in Threads : IsListOf(todo'[u], left2[u]) /\ done[u] \cap left2[u] = {}
  <2> SUFFICES ASSUME NEW u \in Threads PROVE IsListOf(todo'[u], left2[u]) /\ done[u] \cap left2[u] = {}
    OBVIOUS
  <2>1. CASE u = t
    <3>1. todo'[u] = Team!RowsOfPairs(next, last)
      BY <1>1, <1>2, <2>1 DEF TeamTypes
    <3> QED BY <1>5, <1>9, <1>10, <2>1, <3>1
  <2>2. CASE u # t
    <3>1. todo'[u] = todo[u] /\ left2[u] = left[u]
      BY <1>1, <1>2, <1>10, <2>2 DEF TeamTypes
    <3> QED BY <1>7, <3>1 DEF Dealt
  <2> QED BY <2>1, <2>2
<1>12. \A u, w \in Threads : u # w => (done[u] \cup left2[u]) \cap (done[w] \cup left2[w]) = {}
  <2> SUFFICES ASSUME NEW u \in Threads, NEW w \in Threads, u # w
               PROVE  (done[u] \cup left2[u]) \cap (done[w] \cup left2[w]) = {}
    OBVIOUS
  <2>1. (done[u] \cup left[u]) \cap (done[w] \cup left[w]) = {}
    BY <1>7 DEF Dealt
  <2>2. /\ left2[u] = left[u] \/ (u = t /\ left2[u] = taken)
        /\ left2[w] = left[w] \/ (w = t /\ left2[w] = taken)
    BY <1>10
  <2> QED BY <1>9, <2>1, <2>2
<1>13. \A row \in AllRows : Pair(row) < next' <=> \E u \in Threads : row \in done[u] \cup left2[u]
  <2> SUFFICES ASSUME NEW row \in AllRows
               PROVE  Pair(row) < next' <=> \E u \in Threads : row \in done[u] \cup left2[u]
    OBVIOUS
  <2>1. (\E u \in Threads : row \in done[u] \cup left2[u])
          <=> row \in taken \/ \E u \in Threads : row \in done[u] \cup left[u]
    BY <1>8, <1>10
  <2>2. Pair(row) < next <=> \E u \in Threads : row \in done[u] \cup left[u]
    BY <1>7 DEF Dealt
  <2>3. Pair(row) < beyond <=> Pair(row) < next \/ row \in taken
    BY <1>2, <1>4, <1>6
  <2> QED BY <1>1, <2>1, <2>2, <2>3
<1>14. Dealt(done, left2)'
  BY <1>1, <1>11, <1>12, <1>13, DealtKept
<1>15. Summed(done)'
  <2>1. /\ \A u \in Threads : Summary(private[u], done[u]) /\ Summary(total, MergedRows(done))
    BY <1>7 DEF Summed
  <2> QED BY <1>1, <2>1, SummedKept DEF MergedRows
<1>16. TeamTypes'
  <2>1. Team!RowsOfPairs(next, last) \in Seq(AllRows)
    BY <1>5, <1>6 DEF IsListOf
  <2>2. todo' \in [Threads -> Seq(AllRows)]
    BY <1>1, <1>2, <2>1 DEF TeamTypes
  <2>3. next' \in 0..Pairs
    BY <1>1, <1>2, <1>4
  <2> QED BY <1>1, <1>2, <2>2, <2>3, TypesKept DEF TeamTypes
<1>17. Phases'
  <2>1. \A u \in Threads : phase[u] = "loop"
    BY <1>1, <1>2 DEF Phases
  <2>2. verdict = "none"
    BY <1>1, <1>2 DEF Phases
  <2> QED BY <1>1, <2>1, <2>2 DEF Phases
<1>18. AllRows' = AllRows
  BY <1>1, SameRows
<1>19. Sharing(done, left2)'
  BY <1>7, <1>10, <1>14, <1>15, <1>18 DEF Sharing
<1> QED BY <1>16, <1>17, <1>19 DEF Running

\* Comparing a row: it is left no more.
LEMMA CompareStep ==
  ASSUME Running, NEW t \in Threads, Team!CompareRow(t)
  PROVE  Running'
<1> DEFINE row == Head(todo[t])
           sum == Team!WithRow(private[t], row)
<1>1. /\ phase[t] = "loop" /\ todo[t] # << >>
      /\ private' = [private EXCEPT ![t] = sum]
      /\ todo' = [todo EXCEPT ![t] = Tail(todo[t])]
      /\ UNCHANGED <<shape, output, next, phase, total, verdict>>
  BY DEF Team!CompareRow
<1>2. TeamTypes /\ Phases /\ HasRows
  BY DEF Running, TeamTypes
<1>3. PICK done, left : Sharing(done, left)
  BY DEF Running
<1>4. /\ done \in [Threads -> SUBSET AllRows] /\ left \in [Threads -> SUBSET AllRows]
      /\ Dealt(done, left) /\ Summed(done)
  BY <1>3 DEF Sharing
<1>5. /\ IsListOf(todo[t], left[t]) /\ done[t] \cap left[t] = {}
      /\ Summary(private[t], done[t]) /\ Summary(total, MergedRows(done))
  BY <1>4 DEF Dealt, Summed
<1>6. row \in left[t] /\ IsListOf(Tail(todo[t]), left[t] \ {row})
  BY <1>1, <1>5, TailList
<1>7. row \in AllRows /\ row \notin done[t]
  BY <1>4, <1>5, <1>6
<1> HIDE DEF row
<1>9. Summary(sum, done[t] \cup {row})
  BY <1>2, <1>5, <1>7, RowAdded
<1> HIDE DEF sum
<1>10. PICK done2 \in [Threads -> SUBSET AllRows] :
          done2[t] = done[t] \cup {row} /\ \A u \in Threads \ {t} : done2[u] = done[u]
  <2> DEFINE l == [done EXCEPT ![t] = done[t] \cup {row}]
  <2>1. l \in [Threads -> SUBSET AllRows] /\ l[t] = done[t] \cup {row} /\ \A u \in Threads \ {t} : l[u] = done[u]
    BY <1>4, <1>7
  <2> QED BY <2>1
<1>11. PICK left2 \in [Threads -> SUBSET AllRows] :
          left2[t] = left[t] \ {row} /\ \A u \in Threads \ {t} : left2[u] = left[u]
  <2> DEFINE l == [left EXCEPT ![t] = left[t] \ {row}]
  <2>1. l \in [Threads -> SUBSET AllRows] /\ l[t] = left[t] \ {row} /\ \A u \in Threads \ {t} : l[u] = left[u]
    BY <1>4
  <2> QED BY <2>1
<1>12. \A u \in Threads : done2[u] \cup left2[u] = done[u] \cup left[u]
  BY <1>6, <1>10, <1>11
<1>13. \A u \in Threads : /\ private'[u] = IF u = t THEN sum ELSE private[u]
                          /\ todo'[u] = IF u = t THEN Tail(todo[t]) ELSE todo[u]
  BY <1>1, <1>2 DEF TeamTypes
<1>14. Dealt(done2, left2)'
  <2>1. ASSUME NEW u \in Threads PROVE IsListOf(todo'[u], left2[u]) /\ done2[u] \cap left2[u] = {}
    <3>1. CASE u = t
      BY <1>5, <1>6, <1>10, <1>11, <1>13, <3>1
    <3>2. CASE u # t
      <4>1. todo'[u] = todo[u] /\ left2[u] = left[u] /\ done2[u] = done[u]
        BY <1>10, <1>11, <1>13, <3>2
      <4> QED BY <1>4, <4>1 DEF Dealt
    <3> QED BY <3>1, <3>2
  <2>2. \A u, w \in Threads : u # w => (done2[u] \cup left2[u]) \cap (done2[w] \cup left2[w]) = {}
    BY <1>4, <1>12 DEF Dealt
  <2>3. \A r \in AllRows : Pair(r) < next' <=> \E u \in Threads : r \in done2[u] \cup left2[u]
    BY <1>1, <1>4, <1>12 DEF Dealt
  <2> QED BY <1>1, <2>1, <2>2, <2>3, DealtKept
<1>15. \A u \in Threads : phase[u] # "merged"
  BY <1>1, <1>2 DEF Phases
<1>16. Summed(done2)'
  <2>1. ASSUME NEW u \in Threads PROVE Summary(private'[u], done2[u])
    <3>1. CASE u = t
      BY <1>9, <1>10, <1>13, <3>1
    <3>2. CASE u # t
      <4>1. private'[u] = private[u] /\ done2[u] = done[u]
        BY <1>10, <1>13, <3>2
      <4> QED BY <1>4, <4>1 DEF Summed
    <3> QED BY <3>1, <3>2
  <2>2. /\ UNION {done2[u] : u \in {w \in Threads : phase'[w] = "merged"}} = {}
        /\ MergedRows(done) = {}
    BY <1>1, <1>15 DEF MergedRows
  <2>3. Summary(total, {})
    BY <1>5, <2>2
  <2> QED BY <1>1, <2>1, <2>2, <2>3, SummedKept
<1>17. TeamTypes'
  <2>1. todo' \in [Threads -> Seq(AllRows)]
    <3>1. Tail(todo[t]) \in Seq(AllRows)
      BY <1>1, <1>2 DEF TeamTypes
    <3> QED BY <1>1, <1>2, <3>1 DEF TeamTypes
  <2>2. private' \in [Threads -> Stats]
    <3>1. sum \in Stats
      BY <1>9 DEF Summary
    <3> QED BY <1>1, <1>2, <3>1 DEF TeamTypes
  <2>3. next' \in 0..Pairs /\ phase' \in [Threads -> {"loop", "barrier", "merged"}]
    BY <1>1, <1>2 DEF TeamTypes
  <2> QED BY <1>1, <1>2, <2>1, <2>2, <2>3, TypesKept
<1>18. Phases'
  <2>1. \A u \in Threads : phase[u] # "loop" => todo'[u] = << >> /\ next = Pairs
    BY <1>1, <1>2, <1>13 DEF Phases
  <2>2. verdict = "none"
    BY <1>1, <1>2 DEF Phases
  <2>3. Pairs' = Pairs
    BY <1>1, SameRows
  <2> QED BY <1>1, <1>15, <2>1, <2>2, <2>3 DEF Phases
<1>19. AllRows' = AllRows
  BY <1>1, SameRows
<1>20. Sharing(done2, left2)'
  BY <1>10, <1>11, <1>14, <1>16, <1>19 DEF Sharing
<1> QED BY <1>17, <1>18, <1>20 DEF Running

\* Leaving the loop: all rows are dealt, and those of the thread compared.
LEMMA ArriveStep ==
  ASSUME Running, NEW t \in Threads, Team!Arrive(t)
  PROVE  Running'
<1>1. /\ phase[t] = "loop" /\ todo[t] = << >> /\ next = Pairs
      /\ phase' = [phase EXCEPT ![t] = "barrier"]
      /\ UNCHANGED <<shape, output, next, todo, private, total, verdict>>
  BY DEF Team!Arrive, Pairs
<1>2. TeamTypes /\ Phases /\ HasRows
  BY DEF Running, TeamTypes
<1>3. PICK done, left : Sharing(done, left)
  BY DEF Running
<1>4. /\ done \in [Threads -> SUBSET AllRows] /\ left \in [Threads -> SUBSET AllRows]
      /\ Dealt(done, left) /\ Summed(done)
  BY <1>3 DEF Sharing
<1>5. \A u \in Threads : phase'[u] = IF u = t THEN "barrier" ELSE phase[u]
  BY <1>1, <1>2 DEF TeamTypes
<1>6. Dealt(done, left)'
  BY <1>1, <1>4, DealtKept DEF Dealt
<1>7. Summed(done)'
  <2>1. {u \in Threads : phase'[u] = "merged"} = {u \in Threads : phase[u] = "merged"}
    BY <1>1, <1>5
  <2>2. UNION {done[u] : u \in {w \in Threads : phase'[w] = "merged"}} = MergedRows(done)
    BY <2>1 DEF MergedRows
  <2>3. /\ \A u \in Threads : Summary(private[u], done[u]) /\ Summary(total, MergedRows(done))
    BY <1>4 DEF Summed
  <2> QED BY <1>1, <2>2, <2>3, SummedKept
<1>8. TeamTypes'
  <2>1. phase' \in [Threads -> {"loop", "barrier", "merged"}]
    BY <1>1, <1>2 DEF TeamTypes
  <2> QED BY <1>1, <1>2, <2>1, TypesKept DEF TeamTypes
<1>9. Phases'
  <2>1. Pairs' = Pairs
    BY <1>1, SameRows
  <2>2. verdict = "none" /\ \A u \in Threads : phase[u] # "merged"
    BY <1>1, <1>2 DEF Phases
  <2>3. \A u \in Threads : phase'[u] # "loop" => todo[u] = << >> /\ next = Pairs
    BY <1>1, <1>2, <1>5 DEF Phases
  <2> QED BY <1>1, <1>5, <2>1, <2>2, <2>3 DEF Phases
<1>10. AllRows' = AllRows
  BY <1>1, SameRows
<1>11. Sharing(done, left)'
  BY <1>4, <1>6, <1>7, <1>10 DEF Sharing
<1> QED BY <1>8, <1>9, <1>11 DEF Running

\* Merging: the rows of one more thread, none of them merged yet.
LEMMA MergeStep ==
  ASSUME Running, NEW t \in Threads, Team!MergeStats(t)
  PROVE  Running'
<1>1. /\ phase[t] = "barrier" /\ \A u \in Threads : phase[u] # "loop"
      /\ total' = Team!Merged(total, private[t])
      /\ phase' = [phase EXCEPT ![t] = "merged"]
      /\ UNCHANGED <<shape, output, next, todo, private, verdict>>
  BY DEF Team!MergeStats
<1>2. TeamTypes /\ Phases /\ HasRows
  BY DEF Running, TeamTypes
<1>3. PICK done, left : Sharing(done, left)
  BY DEF Running
<1>4. /\ done \in [Threads -> SUBSET AllRows] /\ left \in [Threads -> SUBSET AllRows]
      /\ Dealt(done, left) /\ Summed(done)
  BY <1>3 DEF Sharing
<1>5. \A u \in Threads : phase'[u] = IF u = t THEN "merged" ELSE phase[u]
  BY <1>1, <1>2 DEF TeamTypes
<1>6. Dealt(done, left)'
  BY <1>1, <1>4, DealtKept DEF Dealt
<1>7. /\ \A u \in Threads : Summary(private[u], done[u]) /\ Summary(total, MergedRows(done))
  BY <1>4 DEF Summed
<1>8. MergedRows(done) \cap done[t] = {}
  <2>1. \A u \in Threads : phase[u] = "merged" => done[u] \cap done[t] = {}
    BY <1>1, <1>4 DEF Dealt
  <2> QED BY <2>1 DEF MergedRows
<1>9. Summary(Team!Merged(total, private[t]), MergedRows(done) \cup done[t])
  BY <1>2, <1>7, <1>8, MergedAdded
<1>10. UNION {done[u] : u \in {w \in Threads : phase'[w] = "merged"}} = MergedRows(done) \cup done[t]
  <2>1. {u \in Threads : phase'[u] = "merged"} = {u \in Threads : phase[u] = "merged"} \cup {t}
    BY <1>5
  <2> QED BY <2>1 DEF MergedRows
<1>11. Summed(done)'
  BY <1>1, <1>7, <1>9, <1>10, SummedKept
<1>12. TeamTypes'
  <2>1. phase' \in [Threads -> {"loop", "barrier", "merged"}]
    BY <1>1, <1>2 DEF TeamTypes
  <2> QED BY <1>1, <1>2, <2>1, TypesKept DEF TeamTypes
<1>13. Phases'
  <2>1. Pairs' = Pairs
    BY <1>1, SameRows
  <2>2. verdict = "none"
    BY <1>1, <1>2 DEF Phases
  <2>3. \A u \in Threads : phase'[u] # "loop" /\ todo[u] = << >> /\ next = Pairs
    BY <1>1, <1>2, <1>5 DEF Phases
  <2> QED BY <1>1, <2>1, <2>2, <2>3 DEF Phases
<1>14. AllRows' = AllRows
  BY <1>1, SameRows
<1>15. Sharing(done, left)'
  BY <1>4, <1>6, <1>11, <1>14 DEF Sharing
<1> QED BY <1>12, <1>13, <1>15 DEF Running

\* What leaves the team alone but for the verdict, and gives that only once all
\* have merged.
LEMMA VerdictStep ==
  ASSUME Running, UNCHANGED <<shape, output, next, todo, phase, private, total>>,
         \/ verdict' = verdict
         \/ /\ \A t \in Threads : phase[t] = "merged"
            /\ verdict' = IF Team!pass(total) THEN "OK" ELSE "FAIL"
  PROVE  Running'
<1>1. TeamTypes /\ Phases /\ HasRows
  BY DEF Running, TeamTypes
<1>2. PICK done, left : Sharing(done, left)
  BY DEF Running
<1>3. /\ done \in [Threads -> SUBSET AllRows] /\ left \in [Threads -> SUBSET AllRows]
      /\ Dealt(done, left) /\ Summed(done)
  BY <1>2 DEF Sharing
<1>4. Dealt(done, left)'
  BY <1>3, DealtKept DEF Dealt
<1>5. Summed(done)'
  <2>1. /\ \A u \in Threads : Summary(private[u], done[u])
    BY <1>3 DEF Summed
  <2>2. Summary(total, MergedRows(done))
    BY <1>3 DEF Summed
  <2>3. UNCHANGED <<shape, output>> /\ private' = private /\ total' = total
    OBVIOUS
  <2> DEFINE merged == MergedRows(done)
  <2>4. merged = UNION {done[u] : u \in {w \in Threads : phase'[w] = "merged"}}
    BY DEF MergedRows
  <2>5. Summary(total, merged)
    BY <2>2
  <2> HIDE DEF merged
  <2> QED BY <2>1, <2>3, <2>4, <2>5, SummedKept
<1>6. TeamTypes'
  BY <1>1, TypesKept DEF TeamTypes
<1>7. Phases'
  <2>1. Pairs' = Pairs
    BY SameRows
  <2>2. Team!pass(total)' = Team!pass(total)
    BY DEF Team!pass, Team!Less
  <2> QED BY <1>1, <2>1, <2>2 DEF Phases
<1>8. AllRows' = AllRows
  BY SameRows
<1>9. Sharing(done, left)'
  BY <1>3, <1>4, <1>5, <1>8 DEF Sharing
<1> QED BY <1>6, <1>7, <1>9 DEF Running

\* Before the team starts, none of it steps.
LEMMA NoTeamSteps ==
  ASSUME NoTeam
  PROVE  ~Team!Report /\ \A t \in Threads : ~Team!Step(t)
<1>1. \A t \in Threads : phase[t] = "idle"
  BY DEF NoTeam
<1>2. Threads # {}
  BY VerifyAssumption
<1> QED BY <1>1, <1>2
        DEF Team!Report, Team!Step, Team!Take, Team!CompareRow, Team!Arrive, Team!MergeStats

\* No team is at work at first.
LEMMA TeamInvInit == ProgramsInit => TeamInv
BY DEF ProgramsInit, TeamInv

\* No step of the host, the device or the team breaks the invariant.
LEMMA TeamInvStep == TeamInv /\ [Next]_all => TeamInv'
<1> SUFFICES ASSUME TeamInv, [Next]_all PROVE TeamInv'
  OBVIOUS
<1>1. CASE UNCHANGED team
  <2>1. CASE NoTeam
    <3>1. NoTeam'
      BY <1>1, <2>1 DEF NoTeam, team, Team!Zero, Team!Nowhere, Team!Fraction
    <3> QED BY <3>1 DEF TeamInv
  <2>2. CASE Running
    <3>1. UNCHANGED <<shape, output, next, todo, phase, private, total>> /\ verdict' = verdict
      BY <1>1 DEF team
    <3>2. Running'
      BY <2>2, <3>1, VerdictStep
    <3> QED BY <3>2 DEF TeamInv
  <2> QED BY <2>1, <2>2 DEF TeamInv
<1>2. CASE StartTeam
  BY <1>2, EnterStep DEF StartTeam, TeamInv
<1>3. CASE ReportVerdict
  <2>1. Team!Report /\ Running
    BY <1>3, NoTeamSteps DEF ReportVerdict, TeamInv
  <2>2. /\ UNCHANGED <<shape, output, next, todo, phase, private, total>>
        /\ \A t \in Threads : phase[t] = "merged"
        /\ verdict' = IF Team!pass(total) THEN "OK" ELSE "FAIL"
    BY <2>1 DEF Team!Report
  <2>3. Running'
    BY <2>1, <2>2, VerdictStep
  <2> QED BY <2>3 DEF TeamInv
<1>4. ASSUME NEW t \in Threads, TeamStep(t) PROVE TeamInv'
  <2>1. Running /\ Team!Step(t)
    BY <1>4, NoTeamSteps DEF TeamStep, TeamInv
  <2>2. Team!Take(t) \/ Team!CompareRow(t) \/ Team!Arrive(t) \/ Team!MergeStats(t)
    BY <2>1 DEF Team!Step
  <2>3. Running'
    BY <2>1, <2>2, TakeStep, CompareStep, ArriveStep, MergeStep
  <2> QED BY <2>3 DEF TeamInv
<1>5. (Next \/ UNCHANGED team) => StartTeam \/ ReportVerdict \/ UNCHANGED team \/ \E t \in Threads : TeamStep(t)
  BY DEF Next, Main
<1>6. Next \/ UNCHANGED team
  BY DEF all
<1> QED BY <1>1, <1>2, <1>3, <1>4, <1>5, <1>6

\* At all times the statistics are those of the rows compared so far, no row is
\* compared twice, and none is lost.
THEOREM TeamInvariant == Spec => []TeamInv
<1>1. ProgramsInit => TeamInv
  BY TeamInvInit
<1>2. TeamInv /\ [Next]_all => TeamInv'
  BY TeamInvStep
<1> QED BY <1>1, <1>2, PTL DEF Spec

-----------------------------------------------------------------------------
(* What the merged statistics say                                          *)

\* A count is nought when there is nothing to count.
LEMMA NoneCounted ==
  ASSUME NEW S, IsFiniteSet(S), NEW P
  PROVE  /\ Cardinality(S \cap P) \in Nat
         /\ Cardinality(S \cap P) = 0 <=> S \cap P = {}
BY FS_Intersection, FS_CardinalityType, FS_EmptySet

\* Once all have merged, all rows have been compared.
LEMMA AllCompared ==
  ASSUME Running, verdict # "none"
  PROVE  /\ Summary(total, AllRows) /\ verdict = IF Team!pass(total) THEN "OK" ELSE "FAIL"
<1>1. TeamTypes /\ Phases /\ HasRows
  BY DEF Running, TeamTypes
<1>2. PICK done, left : Sharing(done, left)
  BY DEF Running
<1>3. /\ done \in [Threads -> SUBSET AllRows] /\ left \in [Threads -> SUBSET AllRows]
      /\ Dealt(done, left) /\ Summed(done)
  BY <1>2 DEF Sharing
<1>4. /\ \A t \in Threads : phase[t] = "merged"
      /\ verdict = IF Team!pass(total) THEN "OK" ELSE "FAIL"
  BY <1>1 DEF Phases
<1>5. next = Pairs /\ \A t \in Threads : todo[t] = << >>
  <2>1. PICK t \in Threads : TRUE
    BY VerifyAssumption
  <2> QED BY <1>1, <1>4, <2>1 DEF Phases
<1>6. \A t \in Threads : left[t] = {}
  BY <1>3, <1>5, ListOfNothing DEF Dealt
<1>7. ASSUME NEW row \in AllRows PROVE \E t \in Threads : row \in done[t]
  <2>1. Pair(row) < Pairs
    BY <1>1, RowTypes
  <2>2. \E t \in Threads : row \in done[t] \cup left[t]
    BY <1>3, <1>5, <2>1 DEF Dealt
  <2> QED BY <1>6, <2>2
<1>8. MergedRows(done) = AllRows
  BY <1>3, <1>4, <1>7 DEF MergedRows
<1> QED BY <1>3, <1>4, <1>7, <1>8 DEF Summed

\* The relative test fails as it would on the elements.
LEMMA RelativeTest ==
  ASSUME HasRows, Summary(total, AllRows)
  PROVE  (total.rel_counted > 0 /\ Team!Less(tol_rel, total.max_rel))
           <=> \E e \in Counted : Team!Less(tol_rel, Rel(e))
<1>1. /\ IsFiniteSet(All) /\ CountsOf(total, All) /\ RelativeOf(total, All)
  BY DEF Summary, ElementsIn, All
<1>2. All \cap Counted = Counted
  BY DEF Counted
<1>3. /\ total.rel_counted = Cardinality(All \cap Counted)
      /\ Cardinality(All \cap Counted) \in Nat
      /\ Cardinality(All \cap Counted) = 0 <=> Counted = {}
  BY <1>1, <1>2, NoneCounted DEF CountsOf
<1>4. /\ \A e \in Counted : ~Team!Less(total.max_rel, Rel(e))
      /\ total.max_rel = Team!Fraction(0, 1) \/ \E e \in Counted : total.max_rel = Rel(e)
  BY <1>1, <1>2 DEF RelativeOf
<1>5. /\ \A e \in Counted : Rel(e) \in [n : Nat, d : Nat \ {0}]
      /\ Team!Fraction(0, 1) \in [n : Nat, d : Nat \ {0}]
      /\ total.max_rel \in [n : Nat, d : Nat \ {0}] /\ tol_rel \in [n : Nat, d : Nat \ {0}]
  BY <1>4, RelTypes, VerifyAssumption
<1>6. ASSUME NEW e \in Counted, Team!Less(tol_rel, Rel(e))
      PROVE  total.rel_counted > 0 /\ Team!Less(tol_rel, total.max_rel)
  <2>1. Team!Less(tol_rel, total.max_rel)
    BY <1>4, <1>5, <1>6, LessChain
  <2> QED BY <1>3, <1>6, <2>1
<1>7. ASSUME Team!Less(tol_rel, total.max_rel) PROVE \E e \in Counted : Team!Less(tol_rel, Rel(e))
  <2>1. total.max_rel # Team!Fraction(0, 1)
    <3> SUFFICES ASSUME total.max_rel = Team!Fraction(0, 1) PROVE FALSE
      OBVIOUS
    <3>1. tol_rel.n * 1 < 0 * tol_rel.d
      BY <1>7 DEF Team!Less, Team!Fraction
    <3>2. tol_rel.n \in Nat /\ tol_rel.d \in Nat
      BY <1>5
    <3> QED BY <3>1, <3>2
  <2> QED BY <1>4, <1>7, <2>1
<1> QED BY <1>6, <1>7

\* The team's counting is the module's.
LEMMA SameCardinality == \A S : Team!Cardinality(S) = Cardinality(S)
BY Zenon DEF Team!Cardinality, Cardinality

\* The verdict is that of the elements.
LEMMA VerdictOfTeam == TeamInv => VerdictIsSequential
<1> SUFFICES ASSUME TeamInv, verdict # "none" PROVE VerdictIsSequential
  BY DEF VerdictIsSequential, Team!VerdictIsSequential
<1>1. Running /\ HasRows
  BY DEF TeamInv, NoTeam, Running, TeamTypes
<1>2. /\ Summary(total, AllRows) /\ verdict = IF Team!pass(total) THEN "OK" ELSE "FAIL"
  BY <1>1, AllCompared
<1>3. Team!Rows = AllRows /\ Team!Elements = All
  <2>1. Team!Rows = AllRows
    BY <1>1 DEF HasRows, Team!Rows
  <2> QED BY <2>1 DEF Team!Elements, All, ElementsOf
<1>4. /\ IsFiniteSet(All) /\ CountsOf(total, All) /\ LargestOf(total, All)
      /\ IsFiniteSet(AllRows) /\ CosinesOf(total, AllRows)
  BY <1>2 DEF Summary, ElementsIn, RowsIn, All
<1>5. /\ All \cap All = All /\ All \cap Mismatched = Mismatched /\ All \cap Nonfinite = Nonfinite
      /\ AllRows \cap Defined = Defined /\ AllRows \cap Failing = Failing
  BY DEF Mismatched, Nonfinite, Defined, Failing, Compared
<1>6. /\ total.elems = Cardinality(All) /\ total.mismatch = Cardinality(Mismatched)
      /\ total.nonfinite = Cardinality(Nonfinite)
      /\ total.cos_rows = Cardinality(Defined) /\ total.cos_fail = Cardinality(Failing)
  BY <1>4, <1>5 DEF CountsOf, CosinesOf
<1>7. /\ total.mismatch = 0 <=> Mismatched = {}
      /\ total.nonfinite = 0 <=> Nonfinite = {}
      /\ total.cos_fail = 0 <=> Failing = {}
  BY <1>4, <1>5, <1>6, NoneCounted
<1>8. Team!MustFail <=> \/ Nonfinite # {} \/ Mismatched # {} \/ Failing # {}
                        \/ \E e \in Counted : Team!Less(tol_rel, Rel(e))
  <2>1. Team!MustFail
          <=> \/ \E e \in All : \/ e \in Nonfinite \/ e \in Mismatched
                                \/ e \in Counted /\ Team!Less(tol_rel, Rel(e))
              \/ \E row \in AllRows : row \in Failing
    BY <1>3 DEF Team!MustFail, Nonfinite, Mismatched, Counted, Failing, Compared, Defined, Err, Rel
  <2> QED BY <2>1 DEF Nonfinite, Mismatched, Counted, Failing, Compared, Defined
<1>9. Team!pass(total) <=> ~Team!MustFail
  BY <1>1, <1>2, <1>7, <1>8, RelativeTest DEF Team!pass
<1>10. verdict = IF Team!MustFail THEN "FAIL" ELSE "OK"
  BY <1>2, <1>9
<1>11. /\ total.elems = Team!Cardinality(Team!Elements)
       /\ total.mismatch = Team!Cardinality({e \in Team!Elements : Team!abs_err(e[1], e[2]) > tol_abs})
       /\ total.nonfinite = Team!Cardinality({e \in Team!Elements : ~Team!Finite(Team!kern(e[1], e[2]))})
  BY <1>3, <1>6, SameCardinality DEF Mismatched, Nonfinite, Err
<1>12. total.cos_rows = Team!Count(Team!CosineDefined)
  BY <1>3, <1>6, SameCardinality DEF Team!Count, Defined
<1>13. \A err \in Team!Errors : err <= total.max_abs
  BY <1>3, <1>4 DEF Team!Errors, LargestOf, Err
<1> QED BY <1>10, <1>11, <1>12, <1>13 DEF VerdictIsSequential, Team!VerdictIsSequential

\* The worst is where any summary says.
LEMMA WorstOfTeam == TeamInv => WorstIsWhereItSays
<1> SUFFICES ASSUME TeamInv, NEW s \in {total} \cup {private[t] : t \in Threads}
             PROVE  /\ s.at = Team!Nowhere <=> s.max_abs = 0
                    /\ s.at # Team!Nowhere => s.max_abs = Team!abs_err(s.at[1], s.at[2])
                    /\ s.cos_at # Team!Nowhere => s.cos_worst = Team!Cosine(s.cos_at)
  BY DEF WorstIsWhereItSays, Team!WorstIsWhereItSays
<1>1. CASE NoTeam
  <2>1. s = Team!Zero
    BY <1>1 DEF NoTeam
  <2>2. Team!Zero.at = Team!Nowhere /\ Team!Zero.max_abs = 0 /\ Team!Zero.cos_at = Team!Nowhere
    BY DEF Team!Zero
  <2> QED BY <2>1, <2>2
<1>2. CASE Running
  <2>1. PICK done, left : Sharing(done, left)
    BY <1>2 DEF Running
  <2>2. PICK R : Summary(s, R)
    BY <2>1 DEF Sharing, Summed
  <2>3. LargestOf(s, ElementsOf(R)) /\ CosinesOf(s, R)
    BY <2>2 DEF Summary, ElementsIn, RowsIn
  <2> QED BY <2>3 DEF LargestOf, CosinesOf, Err
<1> QED BY <1>1, <1>2 DEF TeamInv

\* The verdict is that of comparing every element of every row once, however
\* the team shares and merges them.
THEOREM VerdictAsIfSequential == Spec => []VerdictIsSequential
BY TeamInvariant, VerdictOfTeam, PTL

\* The worst element and the worst cosine are where the statistics say.
THEOREM WorstWhereItSays == Spec => []WorstIsWhereItSays
BY TeamInvariant, WorstOfTeam, PTL
=============================================================================
