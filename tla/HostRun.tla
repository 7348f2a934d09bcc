------------------------------ MODULE HostRun ------------------------------
(***************************************************************************)
(* The host programs and the device they share with an in-order queue: the *)
(* benchmark (bench_fmha_fwd.cpp) and the flow of the tests, which is the  *)
(* one buffers.hpp shows (test_fmha_gpu_ref.cpp).  Launches, memsets and   *)
(* event records only enqueue; copies, synchronisation and frees wait.     *)
(***************************************************************************)
EXTENDS Integers, Sequences

CONSTANTS
  Programs,        \* of {"bench", "test"}
  Warmups, Iters,  \* loop counts to choose from
  CallsMayFail,    \* whether a HIP call may return an error
  LaunchMayFail    \* whether a launch may, which nobody asks about

\* No iteration leaves nothing to report: times[0] is read all the same.
ASSUME HostAssumption ==
  /\ Programs \subseteq {"bench", "test"}
  /\ Warmups \subseteq Nat /\ Iters \subseteq Nat \ {0}
  /\ CallsMayFail \in BOOLEAN /\ LaunchMayFail \in BOOLEAN

VARIABLES
  program, warmup, iters,
  pc,        \* next statement of the host
  i,         \* launches made in the current loop
  times,     \* kernels between the two records of each timed iteration
  queue,     \* commands the device has still to execute
  ran,       \* kernels executed
  event,     \* event[e]: kernels executed when it was last recorded
  d_inputs, d_O,  \* device buffers; LSE goes with O
  h_O        \* what the host has of O

host   == <<pc, i, times, h_O>>
device == <<ran, d_O>>
vars   == <<program, warmup, iters, host, queue, device, event, d_inputs>>

Pending == -1   \* recorded, not executed

Unallocated == "none"

-----------------------------------------------------------------------------
(* The device                                                              *)

\* The null stream: commands in order, each to its end.
Execute ==
  LET c == Head(queue) IN
  /\ queue # << >> /\ queue' = Tail(queue)
  /\ ran' = IF c = "kernel" THEN ran + 1 ELSE ran
  /\ d_O' = CASE c = "memset" -> "zero" [] c = "kernel" -> "result" [] OTHER -> d_O
  /\ event' = IF c \in DOMAIN event THEN [event EXCEPT ![c] = ran] ELSE event
  /\ UNCHANGED <<program, warmup, iters, host, d_inputs>>

\* What hipDeviceSynchronize, a blocking copy and hipFree wait for.
Idle == queue = << >>

-----------------------------------------------------------------------------
(* The host                                                                *)

Init ==
  /\ program \in Programs
  /\ warmup \in IF program = "bench" THEN Warmups ELSE {0}
  /\ iters \in IF program = "bench" THEN Iters ELSE {1}
  /\ pc = "alloc" /\ i = 0 /\ times = << >>
  /\ queue = << >> /\ ran = 0
  /\ event = [start |-> Pending, stop |-> Pending]
  /\ d_inputs = Unallocated /\ d_O = Unallocated
  /\ h_O = Unallocated

\* A checked call of HIP returns an error: exit(1), without destructors.
CheckedAt == {"alloc", "copy_to_device", "synchronize", "create", "record_start",
              "record_stop", "wait_stop", "elapsed", "destroy", "copy_from_device"}
Fails ==
  /\ CallsMayFail /\ pc \in CheckedAt \ (IF program = "test" THEN {"synchronize"} ELSE {})
  /\ pc' = "exit1"
  /\ UNCHANGED <<program, warmup, iters, i, times, h_O, queue, device, event, d_inputs>>

\* FmhaBuffers, then fill_random on the host.
Alloc ==
  /\ pc = "alloc" /\ pc' = "copy_to_device"
  /\ d_inputs' = "garbage" /\ d_O' = "garbage"
  /\ UNCHANGED <<program, warmup, iters, i, times, h_O, queue, ran, event>>

\* Three copies, which wait, and two memsets, which do not; one stands for both.
CopyToDevice ==
  /\ pc = "copy_to_device" /\ Idle
  /\ d_inputs' = "random" /\ queue' = <<"memset">>
  /\ pc' = IF program = "test" THEN "launch" ELSE "warmup"
  /\ UNCHANGED <<program, warmup, iters, i, times, h_O, device, event>>

\* The launch is enqueued or, unnoticed, fails.
Launched == \/ queue' = Append(queue, "kernel")
            \/ LaunchMayFail /\ queue' = queue

Warmup ==
  /\ pc = "warmup" /\ i < warmup
  /\ Launched
  /\ i' = i + 1
  /\ UNCHANGED <<program, warmup, iters, pc, times, h_O, device, event, d_inputs>>

WarmedUp ==
  /\ pc = "warmup" /\ i = warmup
  /\ pc' = "synchronize"
  /\ UNCHANGED <<program, warmup, iters, i, times, h_O, queue, device, event, d_inputs>>

\* hipDeviceSynchronize; the events are created and the timed loop begins.
Synchronize ==
  /\ pc = "synchronize" /\ Idle
  /\ pc' = IF program = "test" THEN "copy_from_device" ELSE "create"
  /\ UNCHANGED <<program, warmup, iters, i, times, h_O, queue, device, event, d_inputs>>

CreateEvents ==
  /\ pc = "create" /\ pc' = "record_start" /\ i' = 0
  /\ UNCHANGED <<program, warmup, iters, times, h_O, queue, device, event, d_inputs>>

\* Mutant of Record: the host's clock is read, not the device's.
RecordOnHost(e, from, to) ==
  /\ pc = from /\ pc' = to
  /\ event' = [event EXCEPT ![e] = ran]
  /\ UNCHANGED <<program, warmup, iters, i, times, h_O, queue, device, d_inputs>>

\* hipEventRecord.
Record(e, from, to) ==
  /\ pc = from /\ pc' = to
  /\ queue' = Append(queue, e)
  /\ event' = [event EXCEPT ![e] = Pending]
  /\ UNCHANGED <<program, warmup, iters, i, times, h_O, device, d_inputs>>

Launch ==
  /\ pc = "launch"
  /\ Launched
  /\ pc' = IF program = "test" THEN "synchronize" ELSE "record_stop"
  /\ UNCHANGED <<program, warmup, iters, i, times, h_O, device, event, d_inputs>>

\* Mutant of WaitStop: the host waits for the wrong event.
WaitStopStart ==
  /\ pc = "wait_stop" /\ event.start # Pending
  /\ pc' = "elapsed"
  /\ UNCHANGED <<program, warmup, iters, i, times, h_O, queue, device, event, d_inputs>>

WaitStop ==
  /\ pc = "wait_stop" /\ event.stop # Pending
  /\ pc' = "elapsed"
  /\ UNCHANGED <<program, warmup, iters, i, times, h_O, queue, device, event, d_inputs>>

\* hipEventElapsedTime, and the end of an iteration.
Elapsed ==
  /\ pc = "elapsed"
  /\ times' = Append(times, event.stop - event.start)
  /\ i' = i + 1
  /\ pc' = IF i' < iters THEN "record_start" ELSE "destroy"
  /\ UNCHANGED <<program, warmup, iters, h_O, queue, device, event, d_inputs>>

\* The events are destroyed and the times reported.
Destroy ==
  /\ pc = "destroy" /\ pc' = "free"
  /\ UNCHANGED <<program, warmup, iters, i, times, h_O, queue, device, event, d_inputs>>

\* Mutant of CopyFromDevice: a copy nobody waits for; the host may go on with the
\* zeros it has made room with.
CopyFromDeviceAsync ==
  /\ pc = "copy_from_device" /\ pc' = "verify"
  /\ h_O' \in {"zero", d_O}
  /\ UNCHANGED <<program, warmup, iters, i, times, queue, device, event, d_inputs>>

\* A blocking copy of O, and of O only.
CopyFromDevice ==
  /\ pc = "copy_from_device" /\ Idle /\ pc' = "verify"
  /\ h_O' = d_O
  /\ UNCHANGED <<program, warmup, iters, i, times, queue, device, event, d_inputs>>

\* cpu_ref_verify returns; it reads the host buffers only (CpuVerify).
Verify ==
  /\ pc = "verify" /\ pc' = "free"
  /\ UNCHANGED <<program, warmup, iters, i, times, h_O, queue, device, event, d_inputs>>

\* ~FmhaBuffers; hipFree waits for the device.
Free ==
  /\ pc = "free" /\ Idle /\ pc' = "exit0"
  /\ d_inputs' = Unallocated /\ d_O' = Unallocated
  /\ UNCHANGED <<program, warmup, iters, i, times, h_O, queue, ran, event>>

\* Every statement of the host but Verify, which takes a team of threads.
Host == \/ Alloc \/ CopyToDevice \/ Warmup \/ WarmedUp \/ Synchronize \/ CreateEvents
        \/ Record("start", "record_start", "launch") \/ Launch
        \/ Record("stop", "record_stop", "wait_stop") \/ WaitStop \/ Elapsed
        \/ Destroy \/ CopyFromDevice \/ Free \/ Fails

Exited   == pc \in {"exit0", "exit1"}
Finished == Exited /\ Idle /\ UNCHANGED vars

-----------------------------------------------------------------------------
(* Properties                                                              *)

\* Every reported time spans the execution of one kernel: no warmup, no memset
\* and no other iteration falls between its two records, although the host only
\* enqueues them and the events are used again (bench_fmha_fwd.cpp).
TimesOneKernel == \A n \in 1..Len(times) : times[n] = 1

\* A kernel only ever runs on initialised memory that is still there, also when
\* the host has left after a failed call; results, once written, are not wiped
\* by a late memset; the benchmark leaves nothing in the queue when it reports
\* (buffers.cpp, bench_fmha_fwd.cpp).
KernelsHaveTheirBuffers ==
  /\ ~Idle => d_inputs = "random"
  /\ ran > 0 /\ d_O # Unallocated => d_O = "result"
  /\ pc \in {"destroy", "free"} => Idle

\* What is verified is what the kernel wrote (test_fmha_gpu_ref.cpp): never a
\* buffer the kernel has still to fill, and never garbage.
VerifiesResults == pc = "verify" => h_O = "result"
=============================================================================
