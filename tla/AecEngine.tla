----------------------------- MODULE AecEngine -----------------------------
(***************************************************************************)
(* The AEC run of mini-aec-engine (runtime.rs): a caller that starts and   *)
(* stops the engine, a microphone and a render-loopback input worker, each *)
(* filling a timed queue, and the processing worker that pairs the two by  *)
(* time, cancels the echo and writes one output frame per microphone frame.*)
(*                                                                         *)
(* What two runs of one engine share, several callers and JOIN_TIMEOUT are *)
(* in BypassEngine; here one caller commands one run at a time, joins      *)
(* succeed, and a run starts only when every worker of the run before has  *)
(* ended.  Samples are left out: a frame is its timestamp and its reset    *)
(* mark.  A timestamp is what the device says, right or wrong.  The fields *)
(* marked "history" record what happened for the properties and are read   *)
(* by no action.                                                           *)
(***************************************************************************)
EXTENDS FrameQueue, Integers

CONSTANTS
  MaxRuns,          \* bound on the runs created
  MaxFrames,        \* bound on the frames each input completes in one run
  MaxBurst,         \* bound on the frames one packet completes
  MaxMarks,         \* bound on the flagged packets of the two inputs in one run
  QueueCapacity,    \* TIMED_QUEUE_CAPACITY, 8
  Offsets,          \* possible times of the first frame of each input, in ticks
  Jumps,            \* ticks by which a packet's time may miss the one expected of it
  Tolerance,        \* ALIGNMENT_TOLERANCE_100NS in ticks; a frame lasts two of them
  RecoveryFrames,   \* HEALTHY_RECOVERY_FRAMES, 10
  MaxMisses,        \* MAX_CONSECUTIVE_RENDER_MISSES, 50
  MaxAecFailures,   \* MAX_CONSECUTIVE_AEC_FAILURES, 3
  RefreshEvery,     \* accepted frames between two diagnostics reads, 100
  Faults            \* what may go wrong in the environment

Inputs == {"mic", "render"}
Threads == Inputs \union {"processing", "caller"}

\* The inputs whose source may fail; failing outputs and echo cancellers, missed
\* deadlines, failing thread spawns and late ready messages.
FaultKinds == Inputs \union {"sink", "echo", "deadline", "spawn", "slow_ready"}

ASSUME AecAssumption ==
  /\ {MaxRuns, MaxBurst, QueueCapacity, RecoveryFrames, MaxMisses, MaxAecFailures,
      RefreshEvery} \subseteq Nat \ {0}
  /\ {MaxMarks, Tolerance} \subseteq Nat
  /\ MaxFrames \in [Inputs -> Nat]
  /\ Offsets \in [Inputs -> SUBSET Nat]
  /\ Jumps \in [Inputs -> SUBSET Int]
  /\ Faults \subseteq FaultKinds

VARIABLES
  snapshot,         \* Shared.snapshot
  stopRequested,    \* Shared.stop_requested
  terminalFailure,  \* Shared.terminal_failure
  installed,        \* Engine.run holds the handles of the three workers
  queue,            \* the timed queue of each input
  input,            \* the two input workers
  proc,             \* the processing worker
  echo,             \* history: the epochs of the frames this canceller has seen
  caller,           \* the command under way
  fault             \* the record_aec_failure call each thread is inside

vars == <<snapshot, stopRequested, terminalFailure, installed, queue, input, proc,
          echo, caller, fault>>

\* The queues in the order in which a thread's failure record fails them.
FirstQueue(t) == IF t = "render" THEN "render" ELSE "mic"
SecondQueue(t) == IF t = "render" THEN "mic" ELSE "render"

-----------------------------------------------------------------------------
(* Values of the state.                                                    *)

NoFrame == [time |-> 0, reset |-> FALSE, epoch |-> -1, number |-> 0]
NoEpoch == -1

NoSnapshot ==
  [state |-> "Stopped", run |-> 0, error |-> "None", reason |-> "none",
   alignmentResets |-> 0, accepted |-> 0]

\* clock is the time of the next frame; epoch counts the flagged packets, lost says
\* a marked frame was discarded: both are history.
NewInput ==
  [pc |-> "none", ready |-> "pending", pending |-> 0, made |-> 0, clock |-> 0,
   mark |-> FALSE, epoch |-> 0, lost |-> FALSE]

\* streak counts the frames paired and processed since the last that was not,
\* pair holds the numbers of the last two frames paired: both are history.
NewProcessing ==
  [pc |-> "none", ready |-> "pending", mic |-> NoFrame, render |-> NoFrame,
   match |-> NoFrame, exhausted |-> FALSE, sequence |-> 0, misses |-> 0,
   failures |-> 0, healthy |-> 0, streak |-> 0, pair |-> [mic |-> -1, render |-> -1]]

FreshEcho == [mic |-> NoEpoch, render |-> NoEpoch]

IdleCaller == [pc |-> "idle", goal |-> "none"]
NoFault == [step |-> "none", error |-> "None"]

Init ==
  /\ snapshot = NoSnapshot
  /\ stopRequested = FALSE
  /\ terminalFailure = FALSE
  /\ installed = FALSE
  /\ queue = [i \in Inputs |-> NewQueue]
  /\ input = [i \in Inputs |-> NewInput]
  /\ proc = NewProcessing
  /\ echo = FreshEcho
  /\ caller = IdleCaller
  /\ fault = [t \in Threads |-> NoFault]

-----------------------------------------------------------------------------
(* Shared::record_aec_failure, one step per store or lock.                 *)

Free(t) == fault[t] = NoFault

Raise(t, error) == fault' = [fault EXCEPT ![t] = [step |-> "exchange", error |-> error]]

Advance(t, from, to) ==
  /\ fault[t].step = from
  /\ fault' = [fault EXCEPT ![t].step = to]

Exchange(t) ==
  /\ fault[t].step = "exchange"
  /\ terminalFailure' = TRUE
  /\ fault' = [fault EXCEPT ![t] = IF terminalFailure THEN NoFault
                                   ELSE [@ EXCEPT !.step = "request"]]
  /\ UNCHANGED <<snapshot, stopRequested, installed, queue, input, proc, echo, caller>>

\* Mutant of RaiseStop: the failing thread forgets to request the stop.
RaiseStopNever(t) ==
  /\ Advance(t, "request", "fail_first")
  /\ UNCHANGED <<snapshot, stopRequested, terminalFailure, installed, queue, input,
                 proc, echo, caller>>

RaiseStop(t) ==
  /\ Advance(t, "request", "fail_first")
  /\ stopRequested' = TRUE
  /\ UNCHANGED <<snapshot, terminalFailure, installed, queue, input, proc, echo, caller>>

FailQueues(t) ==
  /\ \/ /\ Advance(t, "fail_first", "fail_second")
        /\ queue' = [queue EXCEPT ![FirstQueue(t)] = Fail(@)]
     \/ /\ Advance(t, "fail_second", "publish")
        /\ queue' = [queue EXCEPT ![SecondQueue(t)] = Fail(@)]
  /\ UNCHANGED <<snapshot, stopRequested, terminalFailure, installed, input, proc,
                 echo, caller>>

Publish(t) ==
  /\ fault[t].step = "publish"
  /\ snapshot' = [snapshot EXCEPT !.state = "Failed", !.error = fault[t].error,
                                  !.reason = "none"]
  /\ fault' = [fault EXCEPT ![t] = NoFault]
  /\ UNCHANGED <<stopRequested, terminalFailure, installed, queue, input, proc, echo,
                 caller>>

RecordFailure(t) == Exchange(t) \/ RaiseStop(t) \/ FailQueues(t) \/ Publish(t)

-----------------------------------------------------------------------------
(* An input worker and its accumulator.                                    *)

InputAt(i, pc) == input[i].pc = pc /\ Free(i)
InputEnded(i) == input[i].pc = "done" /\ Free(i)

\* The start command still holds the ready receivers of its workers.
Listening == caller.goal \in {"start", "abort"}

InputError(i) == IF i = "mic" THEN "SourceFailure" ELSE "RenderFailure"

\* factory.open and the ready message; the first frame's time is the device's.
InputOpen(i) ==
  /\ InputAt(i, "open")
  /\ \/ /\ i \in Faults
        /\ input' = [input EXCEPT ![i].pc = "done", ![i].ready = InputError(i)]
        /\ queue' = [queue EXCEPT ![i] = FinishProducer(@)]
     \/ /\ Listening
        /\ \E time \in Offsets[i] :
             input' = [input EXCEPT ![i].pc = "read", ![i].ready = "ok", ![i].clock = time]
        /\ UNCHANGED queue
     \/ /\ ~Listening
        /\ input' = [input EXCEPT ![i].pc = "done"]
        /\ queue' = [queue EXCEPT ![i] = FinishProducer(@)]
  /\ UNCHANGED <<snapshot, stopRequested, terminalFailure, installed, proc, echo,
                 caller, fault>>

\* The loop's condition: a stop was requested.
InputLeave(i) ==
  /\ InputAt(i, "read")
  /\ stopRequested
  /\ input' = [input EXCEPT ![i].pc = "stop"]
  /\ UNCHANGED <<snapshot, stopRequested, terminalFailure, installed, queue, proc,
                 echo, caller, fault>>

\* A timestamp is unsigned.
Stamp(time) == IF time < 0 THEN 0 ELSE time

\* One turn of the loop: no stop is requested, and read_packet, which touches
\* nothing shared, yields a packet that completes the next n frames.  The first of
\* them has the time of the packet it begins in, which nobody compares with the
\* times before.  A packet flagged as discontinuous, or for a timestamp error, drops
\* the partial frame and marks the first of the n; the flag of a packet that
\* completes no frame is taken with the next that does.
InputRead(i) ==
  /\ InputAt(i, "read")
  /\ ~stopRequested
  /\ \E n \in 1..MaxBurst, flagged \in BOOLEAN, jump \in Jumps[i] :
       /\ input[i].made + n <= MaxFrames[i]
       /\ flagged => input["mic"].epoch + input["render"].epoch < MaxMarks
       /\ input' = [input EXCEPT ![i].pc = "push",
                                 ![i].pending = n,
                                 ![i].clock = Stamp(@ + jump),
                                 ![i].mark = flagged,
                                 ![i].epoch = IF flagged THEN @ + 1 ELSE @]
  /\ UNCHANGED <<snapshot, stopRequested, terminalFailure, installed, queue, proc,
                 echo, caller, fault>>

\* read_packet yields an error or an oversized packet.
InputReadFails(i) ==
  /\ InputAt(i, "read")
  /\ ~stopRequested /\ i \in Faults
  /\ input' = [input EXCEPT ![i].pc = "stop"]
  /\ Raise(i, InputError(i))
  /\ UNCHANGED <<snapshot, stopRequested, terminalFailure, installed, queue, proc,
                 echo, caller>>

\* The frame the accumulator completes next; epoch and number are history.
NextFrame(i) ==
  [time |-> input[i].clock, reset |-> input[i].mark,
   epoch |-> input[i].epoch, number |-> input[i].made]

FrameTicks == 2 * Tolerance

\* The next push discards a marked frame.
LosesMark(q) ==
  /\ ~q.failed /\ ~q.producerDone
  /\ Len(q.frames) = QueueCapacity
  /\ Head(q.frames).reset

\* The emit closure: queue.push; only the first frame after a mark carries it, and
\* the next frame of the packet is one frame later.
InputPush(i) ==
  /\ InputAt(i, "push")
  /\ queue' = [queue EXCEPT ![i] = Push(@, NextFrame(i), QueueCapacity)]
  /\ input' = [input EXCEPT ![i].pc = IF input[i].pending = 1 THEN "read" ELSE "push",
                            ![i].pending = @ - 1,
                            ![i].made = @ + 1,
                            ![i].clock = @ + FrameTicks,
                            ![i].mark = FALSE,
                            ![i].lost = @ \/ LosesMark(queue[i])]
  /\ UNCHANGED <<snapshot, stopRequested, terminalFailure, installed, proc, echo,
                 caller, fault>>

InputStop(i) ==
  /\ InputAt(i, "stop")
  /\ input' = [input EXCEPT ![i].pc = "finish"]
  /\ \/ UNCHANGED fault
     \/ i \in Faults /\ ~terminalFailure /\ Raise(i, InputError(i))
  /\ UNCHANGED <<snapshot, stopRequested, terminalFailure, installed, queue, proc,
                 echo, caller>>

InputFinish(i) ==
  /\ InputAt(i, "finish")
  /\ input' = [input EXCEPT ![i].pc = "done", ![i].clock = 0]
  /\ queue' = [queue EXCEPT ![i] = FinishProducer(@)]
  /\ UNCHANGED <<snapshot, stopRequested, terminalFailure, installed, proc, echo,
                 caller, fault>>

InputSteps(i) ==
  InputOpen(i) \/ InputLeave(i) \/ InputPush(i) \/ InputStop(i) \/ InputFinish(i)

InputNext(i) == InputSteps(i) \/ InputRead(i) \/ InputReadFails(i)

-----------------------------------------------------------------------------
(* The processing worker: start of the timeline.                           *)

ProcAt(pc) == proc.pc = pc /\ Free("processing")
ProcEnded == proc.pc = "done" /\ Free("processing")
GoProc(pc) == proc' = [proc EXCEPT !.pc = pc]

\* A worker that ends before it is ready: the session is closed if it was open.
EndUnready(error) == proc' = [NewProcessing EXCEPT !.pc = "done", !.ready = error]

\* connect, open_session, diagnostics, and the first echo canceller.
ProcOpen ==
  /\ ProcAt("open")
  /\ \/ GoProc("first_mic")
     \/ "sink" \in Faults /\ EndUnready("SinkFailure")
     \/ "echo" \in Faults /\ EndUnready("EchoCancellerFailure")
  /\ UNCHANGED <<snapshot, stopRequested, terminalFailure, installed, queue, input,
                 echo, caller, fault>>

\* microphone_queue.pop(START_TIMEOUT): without a first frame there is no
\* timeline.
ProcFirstMic ==
  /\ ProcAt("first_mic")
  /\ \/ /\ PopResult(queue["mic"]) = "Frame"
        /\ proc' = [proc EXCEPT !.pc = "first_render", !.mic = Head(queue["mic"].frames)]
        /\ queue' = [queue EXCEPT !["mic"] = Popped(@)]
     \/ /\ PopResult(queue["mic"]) # "Frame"
        /\ EndUnready("SynchronizationFailure")
        /\ UNCHANGED queue
  /\ UNCHANGED <<snapshot, stopRequested, terminalFailure, installed, input, echo,
                 caller, fault>>

\* render_queue.pop(RENDER_WAIT): a render that is merely silent is no error.
ProcFirstRender ==
  /\ ProcAt("first_render")
  /\ \/ /\ PopResult(queue["render"]) = "Frame"
        /\ proc' = [proc EXCEPT !.pc = "announce", !.render = Head(queue["render"].frames)]
        /\ queue' = [queue EXCEPT !["render"] = Popped(@)]
     \/ /\ PopResult(queue["render"]) = "Finished" /\ terminalFailure
        /\ EndUnready(IF snapshot.error = "None" THEN "RenderFailure" ELSE snapshot.error)
        /\ UNCHANGED queue
     \/ /\ \/ PopResult(queue["render"]) = "Timeout"
           \/ PopResult(queue["render"]) = "Finished" /\ ~terminalFailure
        /\ proc' = [proc EXCEPT !.pc = "announce", !.exhausted = TRUE]
        /\ UNCHANGED queue
  /\ UNCHANGED <<snapshot, stopRequested, terminalFailure, installed, input, echo,
                 caller, fault>>

ProcAnnounce ==
  /\ ProcAt("announce")
  /\ IF Listening THEN proc' = [proc EXCEPT !.pc = "check", !.ready = "ok"]
                  ELSE EndUnready("ok")
  /\ UNCHANGED <<snapshot, stopRequested, terminalFailure, installed, queue, input,
                 echo, caller, fault>>

ProcStart == ProcOpen \/ ProcFirstMic \/ ProcFirstRender \/ ProcAnnounce

-----------------------------------------------------------------------------
(* The processing worker: one iteration per microphone frame.              *)

Degrade(reason) == snapshot' = [snapshot EXCEPT !.state = "Degraded", !.reason = reason]

ProcCheck ==
  /\ ProcAt("check")
  /\ GoProc(IF stopRequested THEN "final" ELSE "mic")
  /\ UNCHANGED <<snapshot, stopRequested, terminalFailure, installed, queue, input,
                 echo, caller, fault>>

AfterMic(frame) == IF frame.reset THEN "mic_reset" ELSE "fetch"

\* The frame that established the timeline, or the next one of the queue.
ProcMic ==
  /\ ProcAt("mic")
  /\ \/ /\ proc.mic # NoFrame
        /\ GoProc(AfterMic(proc.mic))
        /\ UNCHANGED queue
     \/ /\ proc.mic = NoFrame
        /\ PopResult(queue["mic"]) = "Frame"
        /\ LET frame == Head(queue["mic"].frames)
           IN proc' = [proc EXCEPT !.pc = AfterMic(frame), !.mic = frame]
        /\ queue' = [queue EXCEPT !["mic"] = Popped(@)]
     \/ /\ proc.mic = NoFrame
        /\ PopResult(queue["mic"]) # "Frame"
        /\ GoProc(IF PopResult(queue["mic"]) = "Timeout" THEN "check" ELSE "final")
        /\ UNCHANGED queue
  /\ UNCHANGED <<snapshot, stopRequested, terminalFailure, installed, input, echo,
                 caller, fault>>

\* rebuild_echo, or the failure of the factory, which ends the run.
Rebuild(alignment, next) ==
  \/ /\ GoProc(next)
     /\ echo' = FreshEcho
     /\ snapshot' = [snapshot EXCEPT !.state = "Degraded", !.reason = "reset",
                       !.alignmentResets = IF alignment THEN @ + 1 ELSE @]
     /\ UNCHANGED fault
  \/ /\ "echo" \in Faults
     /\ GoProc("final")
     /\ Raise("processing", "EchoCancellerFailure")
     /\ UNCHANGED <<echo, snapshot>>

\* Mutant of ProcResetByMic: a marked microphone frame is not looked at.
ProcResetByMicSkipped ==
  /\ ProcAt("mic_reset")
  /\ GoProc("fetch")
  /\ UNCHANGED <<snapshot, stopRequested, terminalFailure, installed, queue, input,
                 echo, caller, fault>>

ProcResetByMic ==
  /\ ProcAt("mic_reset")
  /\ Rebuild(TRUE, "fetch")
  /\ UNCHANGED <<stopRequested, terminalFailure, installed, queue, input, caller>>

\* TimedFrameQueue::try_pop: the oldest frame, if any.
Oldest(q) == IF q.frames = <<>> THEN NoFrame ELSE Head(q.frames)
TryPopped(q) == IF q.frames = <<>> THEN q ELSE Popped(q)

\* select_render_frame, first part: find a candidate, waiting for it unless an
\* earlier wait was in vain.
ProcFetch ==
  /\ ProcAt("fetch")
  /\ LET found == proc.render # NoFrame
         q == queue["render"]
         taken == IF proc.exhausted \/ PopResult(q) = "Frame" THEN Oldest(q) ELSE NoFrame
     IN /\ proc' = [proc EXCEPT !.pc = "examine",
                                !.render = IF found THEN @ ELSE taken,
                                !.exhausted = IF found THEN @ ELSE taken = NoFrame]
        /\ queue' = [queue EXCEPT !["render"] =
                       IF ~found /\ taken # NoFrame THEN Popped(@) ELSE @]
  /\ UNCHANGED <<snapshot, stopRequested, terminalFailure, installed, input, echo,
                 caller, fault>>

\* Each look at a marked candidate rebuilds the echo canceller.
ProcResetByRender ==
  /\ ProcAt("examine")
  /\ proc.render.reset
  /\ Rebuild(TRUE, "judge")
  /\ UNCHANGED <<stopRequested, terminalFailure, installed, queue, input, caller>>

\* How much later than the microphone frame the candidate is.
Delta == proc.render.time - proc.mic.time

\* Mutant of ProcJudge: a stale candidate is judged again and again.
ProcJudgeKeepsStale ==
  /\ \/ ProcAt("judge")
     \/ ProcAt("examine") /\ ~proc.render.reset
  /\ \/ /\ proc.render # NoFrame /\ Delta < -Tolerance
        /\ GoProc("examine")
        /\ UNCHANGED queue
     \/ /\ proc.render # NoFrame /\ Delta \in -Tolerance..Tolerance
        /\ proc' = [proc EXCEPT !.pc = "record", !.match = proc.render,
                                !.render = Oldest(queue["render"]), !.exhausted = FALSE]
        /\ queue' = [queue EXCEPT !["render"] = TryPopped(@)]
     \/ /\ proc.render = NoFrame \/ Delta > Tolerance
        /\ proc' = [proc EXCEPT !.pc = "record", !.match = NoFrame]
        /\ UNCHANGED queue
  /\ UNCHANGED <<snapshot, stopRequested, terminalFailure, installed, input, echo,
                 caller, fault>>

\* Mutant of ProcJudge: the paired render frame stays the candidate.
ProcJudgeKeepsPaired ==
  /\ \/ ProcAt("judge")
     \/ ProcAt("examine") /\ ~proc.render.reset
  /\ \/ /\ proc.render # NoFrame /\ Delta < -Tolerance
        /\ proc' = [proc EXCEPT !.pc = "examine", !.render = Oldest(queue["render"])]
        /\ queue' = [queue EXCEPT !["render"] = TryPopped(@)]
     \/ /\ proc.render # NoFrame /\ Delta \in -Tolerance..Tolerance
        /\ proc' = [proc EXCEPT !.pc = "record", !.match = proc.render,
                                !.exhausted = FALSE]
        /\ UNCHANGED queue
     \/ /\ proc.render = NoFrame \/ Delta > Tolerance
        /\ proc' = [proc EXCEPT !.pc = "record", !.match = NoFrame]
        /\ UNCHANGED queue
  /\ UNCHANGED <<snapshot, stopRequested, terminalFailure, installed, input, echo,
                 caller, fault>>

\* select_render_frame, one turn of its loop: a stale candidate is dropped, one
\* within the tolerance is the match, a later one is kept and silence used.
\* (The test against MAXIMUM_SKEW_100NS has the outcome of the later one.)
ProcJudge ==
  /\ \/ ProcAt("judge")
     \/ ProcAt("examine") /\ ~proc.render.reset
  /\ \/ /\ proc.render # NoFrame /\ Delta < -Tolerance
        /\ proc' = [proc EXCEPT !.pc = "examine", !.render = Oldest(queue["render"])]
        /\ queue' = [queue EXCEPT !["render"] = TryPopped(@)]
     \/ /\ proc.render # NoFrame /\ Delta \in -Tolerance..Tolerance
        /\ proc' = [proc EXCEPT !.pc = "record", !.match = proc.render,
                                !.render = Oldest(queue["render"]), !.exhausted = FALSE]
        /\ queue' = [queue EXCEPT !["render"] = TryPopped(@)]
     \/ /\ proc.render = NoFrame \/ Delta > Tolerance
        /\ proc' = [proc EXCEPT !.pc = "record", !.match = NoFrame]
        /\ UNCHANGED queue
  /\ UNCHANGED <<snapshot, stopRequested, terminalFailure, installed, input, echo,
                 caller, fault>>

\* The frame is paired: health is counted and, past the gate, declared.
ProcPaired ==
  /\ ProcAt("record")
  /\ proc.match # NoFrame
  /\ proc' = [proc EXCEPT !.pc = "process", !.misses = 0, !.healthy = @ + 1,
                          !.pair = [mic |-> proc.mic.number, render |-> proc.match.number]]
  /\ snapshot' = IF proc.healthy + 1 >= RecoveryFrames
                 THEN [snapshot EXCEPT !.state = "Running", !.reason = "none"]
                 ELSE snapshot
  /\ UNCHANGED <<stopRequested, terminalFailure, installed, queue, input, echo,
                 caller, fault>>

\* The frame has no partner: a candidate that is too late counts as a miss, and
\* MaxMisses misses in a row end the run.
ProcUnpaired ==
  /\ ProcAt("record")
  /\ proc.match = NoFrame
  /\ LET misses == IF proc.render = NoFrame THEN 0 ELSE proc.misses + 1
     IN /\ proc' = [proc EXCEPT !.pc = IF misses >= MaxMisses THEN "final" ELSE "process",
                                !.misses = misses, !.healthy = 0, !.streak = 0]
        /\ IF misses >= MaxMisses
           THEN Raise("processing", "SynchronizationFailure")
           ELSE UNCHANGED fault
  /\ Degrade("missing")
  /\ UNCHANGED <<stopRequested, terminalFailure, installed, queue, input, echo, caller>>

\* What the echo canceller has seen once it processes this frame and its match.
Seen == [mic |-> proc.mic.epoch,
         render |-> IF proc.match = NoFrame THEN echo.render ELSE proc.match.epoch]

\* echo.process returned finite samples.
ProcProcessed ==
  /\ ProcAt("process")
  /\ proc' = [proc EXCEPT !.pc = "deadline", !.failures = 0,
                          !.streak = IF proc.match = NoFrame THEN 0 ELSE @ + 1]
  /\ echo' = Seen
  /\ UNCHANGED <<snapshot, stopRequested, terminalFailure, installed, queue, input,
                 caller, fault>>

\* Mutant of ProcRejected: a processing failure does not reset the health count.
ProcRejectedHealthy ==
  /\ ProcAt("process")
  /\ "echo" \in Faults
  /\ LET last == proc.failures + 1 >= MaxAecFailures
     IN /\ proc' = [proc EXCEPT !.pc = IF last THEN "final" ELSE "rebuild",
                                !.failures = @ + 1, !.streak = 0]
        /\ IF last THEN Raise("processing", "EchoCancellerFailure") ELSE UNCHANGED fault
  /\ Degrade("reset")
  /\ echo' = Seen
  /\ UNCHANGED <<stopRequested, terminalFailure, installed, queue, input, caller>>

\* An error or a sample that is not finite: silence is written and the echo
\* canceller rebuilt, unless this has happened too often.
ProcRejected ==
  /\ ProcAt("process")
  /\ "echo" \in Faults
  /\ LET last == proc.failures + 1 >= MaxAecFailures
     IN /\ proc' = [proc EXCEPT !.pc = IF last THEN "final" ELSE "rebuild",
                                !.failures = @ + 1, !.healthy = 0, !.streak = 0]
        /\ IF last THEN Raise("processing", "EchoCancellerFailure") ELSE UNCHANGED fault
  /\ Degrade("reset")
  /\ echo' = Seen
  /\ UNCHANGED <<stopRequested, terminalFailure, installed, queue, input, caller>>

ProcRebuild ==
  /\ ProcAt("rebuild")
  /\ Rebuild(FALSE, "deadline")
  /\ UNCHANGED <<stopRequested, terminalFailure, installed, queue, input, caller>>

\* The processing budget was met, or missed.
ProcDeadline ==
  /\ ProcAt("deadline")
  /\ GoProc("write")
  /\ \/ UNCHANGED snapshot
     \/ "deadline" \in Faults /\ Degrade("deadline")
  /\ UNCHANGED <<stopRequested, terminalFailure, installed, queue, input, echo, caller,
                 fault>>

\* Mutant of ProcWritten: the frame is written once more.
ProcWrittenTwice ==
  /\ ProcAt("write")
  /\ LET sequence == proc.sequence + 1
     IN proc' = [proc EXCEPT !.pc = IF sequence % RefreshEvery = 0 THEN "refresh" ELSE "check",
                             !.sequence = sequence]
  /\ snapshot' = [snapshot EXCEPT !.accepted = @ + 1]
  /\ UNCHANGED <<stopRequested, terminalFailure, installed, queue, input, echo, caller,
                 fault>>

\* write_frame accepted the frame.
ProcWritten ==
  /\ ProcAt("write")
  /\ LET sequence == proc.sequence + 1
     IN proc' = [proc EXCEPT !.pc = IF sequence % RefreshEvery = 0 THEN "refresh" ELSE "check",
                             !.sequence = sequence, !.mic = NoFrame, !.match = NoFrame]
  /\ snapshot' = [snapshot EXCEPT !.accepted = @ + 1]
  /\ UNCHANGED <<stopRequested, terminalFailure, installed, queue, input, echo, caller,
                 fault>>

\* write_frame rejected the frame, or the periodic diagnostics failed.
ProcFails ==
  /\ ProcAt("write") \/ ProcAt("refresh")
  /\ "sink" \in Faults
  /\ GoProc("final")
  /\ Raise("processing", "SinkFailure")
  /\ UNCHANGED <<snapshot, stopRequested, terminalFailure, installed, queue, input,
                 echo, caller>>

ProcRefreshed ==
  /\ ProcAt("refresh")
  /\ GoProc("check")
  /\ UNCHANGED <<snapshot, stopRequested, terminalFailure, installed, queue, input,
                 echo, caller, fault>>

\* The last diagnostics are ignored; close_session's error is dropped in a run
\* that failed.  The worker's variables go with it.
ProcClose ==
  /\ ProcAt("final")
  /\ proc' = [NewProcessing EXCEPT !.pc = "done", !.ready = proc.ready,
                                   !.sequence = proc.sequence]
  /\ echo' = FreshEcho
  /\ \/ UNCHANGED fault
     \/ "sink" \in Faults /\ ~terminalFailure /\ Raise("processing", "SinkFailure")
  /\ UNCHANGED <<snapshot, stopRequested, terminalFailure, installed, queue, input,
                 caller>>

ProcLoop ==
  \/ ProcCheck \/ ProcMic \/ ProcResetByMic \/ ProcFetch \/ ProcResetByRender
  \/ ProcJudge \/ ProcPaired \/ ProcUnpaired \/ ProcProcessed \/ ProcRejected
  \/ ProcRebuild \/ ProcDeadline \/ ProcWritten \/ ProcFails \/ ProcRefreshed

ProcNext == ProcStart \/ ProcLoop \/ ProcClose

-----------------------------------------------------------------------------
(* The caller: Engine::start (AEC mode) and Engine::stop.                  *)

CallerAt(pc) == caller.pc = pc /\ Free("caller")
Go(pc) == caller' = [caller EXCEPT !.pc = pc]
Return == caller' = IdleCaller

BeginStart ==
  /\ CallerAt("idle")
  /\ snapshot.state \in {"Stopped", "Failed"}
  /\ caller' = [pc |-> IF snapshot.state = "Failed" THEN "request_stop" ELSE "resolve",
                goal |-> "start"]
  /\ UNCHANGED <<snapshot, stopRequested, terminalFailure, installed, queue, input,
                 proc, echo, fault>>

BeginStop ==
  /\ CallerAt("idle")
  /\ ~(snapshot.state = "Stopped" /\ ~installed)
  /\ caller' = [pc |-> IF snapshot.state = "Failed" THEN "request_stop" ELSE "set_stopping",
                goal |-> "stop"]
  /\ UNCHANGED <<snapshot, stopRequested, terminalFailure, installed, queue, input,
                 proc, echo, fault>>

SetStopping ==
  /\ CallerAt("set_stopping")
  /\ snapshot' = [snapshot EXCEPT !.state = "Stopping"]
  /\ Go("request_stop")
  /\ UNCHANGED <<stopRequested, terminalFailure, installed, queue, input, proc, echo,
                 fault>>

AfterCleanup ==
  CASE caller.goal = "start" -> Go("resolve")
    [] caller.goal = "stop"  -> Go("set_stopped")
    [] caller.goal = "abort" -> Return

\* Mutant of RequestStop: the stop flag is not raised.
RequestStopNever ==
  /\ CallerAt("request_stop")
  /\ Go("take")
  /\ UNCHANGED <<snapshot, stopRequested, terminalFailure, installed, queue, input,
                 proc, echo, fault>>

RequestStop ==
  /\ CallerAt("request_stop")
  /\ stopRequested' = TRUE
  /\ Go("take")
  /\ UNCHANGED <<snapshot, terminalFailure, installed, queue, input, proc, echo, fault>>

TakeRun ==
  /\ CallerAt("take")
  /\ installed' = FALSE
  /\ IF installed THEN Go("join") ELSE AfterCleanup
  /\ UNCHANGED <<snapshot, stopRequested, terminalFailure, queue, input, proc, echo, fault>>

WorkersEnded == ProcEnded /\ \A i \in Inputs : InputEnded(i)

\* Mutant of JoinRun: the processing thread is not joined.
JoinRunInputs ==
  /\ CallerAt("join")
  /\ \A i \in Inputs : InputEnded(i)
  /\ queue' = [i \in Inputs |-> Clear(queue[i])]
  /\ AfterCleanup
  /\ UNCHANGED <<snapshot, stopRequested, terminalFailure, installed, input, proc, echo,
                 fault>>

\* join_run waits for capture, render and processing; then both queues are
\* cleared.
JoinRun ==
  /\ CallerAt("join")
  /\ WorkersEnded
  /\ queue' = [i \in Inputs |-> Clear(queue[i])]
  /\ AfterCleanup
  /\ UNCHANGED <<snapshot, stopRequested, terminalFailure, installed, input, proc, echo,
                 fault>>

SetStopped ==
  /\ CallerAt("set_stopped")
  /\ snapshot' = [snapshot EXCEPT !.state = "Stopped"]
  /\ Return
  /\ UNCHANGED <<stopRequested, terminalFailure, installed, queue, input, proc, echo,
                 fault>>

\* No worker of an earlier run is left.
NoWorkerLeft ==
  /\ proc.pc = "none" \/ ProcEnded
  /\ \A i \in Inputs : input[i].pc = "none" \/ InputEnded(i)

\* Both sources resolve and a fresh snapshot, fresh queues and fresh workers
\* replace the old ones, or start returns its error.
Resolve ==
  /\ CallerAt("resolve")
  /\ \/ /\ Return
        /\ UNCHANGED <<snapshot, queue, input, proc, echo>>
     \/ /\ snapshot.run < MaxRuns
        /\ NoWorkerLeft
        /\ snapshot' = [NoSnapshot EXCEPT !.state = "Starting", !.run = snapshot.run + 1]
        /\ queue' = [i \in Inputs |-> NewQueue]
        /\ input' = [i \in Inputs |-> NewInput]
        /\ proc' = NewProcessing
        /\ echo' = FreshEcho
        /\ Go("reset_stop")
  /\ UNCHANGED <<stopRequested, terminalFailure, installed, fault>>

ResetStop ==
  /\ CallerAt("reset_stop")
  /\ stopRequested' = FALSE
  /\ Go("reset_failure")
  /\ UNCHANGED <<snapshot, terminalFailure, installed, queue, input, proc, echo, fault>>

\* Mutant of ResetFailure: the failure of the run before counts for this one.
ResetFailureForgotten ==
  /\ CallerAt("reset_failure")
  /\ Go("spawn_mic")
  /\ UNCHANGED <<snapshot, stopRequested, terminalFailure, installed, queue, input, proc, echo,
                 fault>>

ResetFailure ==
  /\ CallerAt("reset_failure")
  /\ terminalFailure' = FALSE
  /\ Go("spawn_mic")
  /\ UNCHANGED <<snapshot, stopRequested, installed, queue, input, proc, echo, fault>>

\* A failed spawn returns through `?`: what was spawned before is forgotten.
SpawnFails ==
  /\ "spawn" \in Faults
  /\ CallerAt("spawn_mic") \/ CallerAt("spawn_render") \/ CallerAt("spawn_processing")
  /\ Return
  /\ UNCHANGED <<snapshot, stopRequested, terminalFailure, installed, queue, input,
                 proc, echo, fault>>

SpawnInput(i) ==
  /\ CallerAt(IF i = "mic" THEN "spawn_mic" ELSE "spawn_render")
  /\ input' = [input EXCEPT ![i].pc = "open"]
  /\ Go(IF i = "mic" THEN "spawn_render" ELSE "spawn_processing")
  /\ UNCHANGED <<snapshot, stopRequested, terminalFailure, installed, queue, proc,
                 echo, fault>>

SpawnProcessing ==
  /\ CallerAt("spawn_processing")
  /\ GoProc("open")
  /\ Go("install")
  /\ UNCHANGED <<snapshot, stopRequested, terminalFailure, installed, queue, input,
                 echo, fault>>

InstallRun ==
  /\ CallerAt("install")
  /\ installed' = TRUE
  /\ Go("wait_mic")
  /\ UNCHANGED <<snapshot, stopRequested, terminalFailure, queue, input, proc, echo,
                 fault>>

\* One turn of the loop over the three ready receivers.
WaitReady(pc, ready, next) ==
  /\ CallerAt(pc)
  /\ \/ ready = "ok" /\ Go(next) /\ UNCHANGED fault
     \/ /\ ready \notin {"ok", "pending"} \/ (ready = "pending" /\ "slow_ready" \in Faults)
        /\ caller' = [pc |-> "request_stop", goal |-> "abort"]
        /\ Raise("caller", IF ready = "pending" THEN "WorkerFailure" ELSE ready)
  /\ UNCHANGED <<snapshot, stopRequested, terminalFailure, installed, queue, input,
                 proc, echo>>

WaitRun ==
  \/ WaitReady("wait_mic", input["mic"].ready, "wait_render")
  \/ WaitReady("wait_render", input["render"].ready, "wait_processing")
  \/ WaitReady("wait_processing", proc.ready, "finish_start")

\* Mutant of FinishStart: the state is not looked at before it is overwritten.
FinishStartBlindly ==
  /\ CallerAt("finish_start")
  /\ snapshot' = IF terminalFailure THEN snapshot
                 ELSE [snapshot EXCEPT !.state = "Running"]
  /\ Return
  /\ UNCHANGED <<stopRequested, terminalFailure, installed, queue, input, proc, echo,
                 fault>>

\* Under the snapshot lock: an error after a terminal failure, else RunningAec
\* unless the processing worker has already said otherwise.
FinishStart ==
  /\ CallerAt("finish_start")
  /\ snapshot' = IF ~terminalFailure /\ snapshot.state = "Starting"
                 THEN [snapshot EXCEPT !.state = "Running"]
                 ELSE snapshot
  /\ Return
  /\ UNCHANGED <<stopRequested, terminalFailure, installed, queue, input, proc, echo,
                 fault>>

StartSteps ==
  \/ Resolve \/ ResetStop \/ ResetFailure \/ SpawnFails \/ (\E i \in Inputs : SpawnInput(i))
  \/ SpawnProcessing \/ InstallRun \/ WaitRun \/ FinishStart

CallerSteps ==
  StartSteps \/ SetStopping \/ RequestStop \/ TakeRun \/ JoinRun \/ SetStopped

-----------------------------------------------------------------------------

Next ==
  \/ BeginStart \/ BeginStop \/ CallerSteps
  \/ \E i \in Inputs : InputNext(i)
  \/ ProcNext
  \/ \E t \in Threads : RecordFailure(t)

Spec == Init /\ [][Next]_vars

(***************************************************************************)
(* Every wait of a worker is bounded, the adapters return, and the         *)
(* operating system schedules every thread.  Nothing is assumed of the     *)
(* device: packets need not come and reads need not fail.                  *)
(***************************************************************************)
Fairness ==
  /\ WF_vars(CallerSteps)
  /\ \A i \in Inputs : WF_vars(InputSteps(i))
  /\ WF_vars(ProcNext)
  /\ \A t \in Threads : WF_vars(RecordFailure(t))

FairSpec == Spec /\ Fairness

-----------------------------------------------------------------------------
(* The type invariant.                                                     *)

Errors == {"None", "SourceFailure", "RenderFailure", "SinkFailure", "WorkerFailure",
           "SynchronizationFailure", "EchoCancellerFailure"}
ReadyValues == {"pending", "ok"} \union Errors
FrameType == [time : Nat, reset : BOOLEAN, epoch : Nat, number : Nat]
MaybeFrame == FrameType \union {NoFrame}
QueueType ==
  [frames : Seq(FrameType), producerDone : BOOLEAN, failed : BOOLEAN, discarded : Nat]
SnapshotType ==
  [state : {"Stopped", "Starting", "Running", "Degraded", "Stopping", "Failed"},
   run : 0..MaxRuns, error : Errors, reason : {"none", "missing", "reset", "deadline"},
   alignmentResets : Nat, accepted : Nat]
InputType ==
  [pc : {"none", "open", "read", "push", "stop", "finish", "done"},
   ready : ReadyValues, pending : Nat, made : Nat, clock : Nat, mark : BOOLEAN,
   epoch : Nat, lost : BOOLEAN]
ProcessingType ==
  [pc : {"none", "open", "first_mic", "first_render", "announce", "check", "mic",
         "mic_reset", "fetch", "examine", "judge", "record", "process", "rebuild",
         "deadline", "write", "refresh", "final", "done"},
   ready : ReadyValues, mic : MaybeFrame, render : MaybeFrame, match : MaybeFrame,
   exhausted : BOOLEAN, sequence : Nat, misses : 0..MaxMisses, failures : 0..MaxAecFailures,
   healthy : Nat, streak : Nat, pair : [mic : Nat \union {-1}, render : Nat \union {-1}]]

EchoType == [mic : Nat \union {NoEpoch}, render : Nat \union {NoEpoch}]
CallerType ==
  [pc : {"idle", "set_stopping", "request_stop", "take", "join", "set_stopped", "resolve",
         "reset_stop", "reset_failure", "spawn_mic", "spawn_render", "spawn_processing",
         "install", "wait_mic", "wait_render", "wait_processing", "finish_start"},
   goal : {"none", "start", "stop", "abort"}]
FaultType ==
  [step : {"none", "exchange", "request", "fail_first", "fail_second", "publish"},
   error : Errors]

\* Every variable has its type, no timed queue outgrows its capacity, and the
\* misses and failures in a row stay within their limits.
TypeOK ==
  /\ snapshot \in SnapshotType
  /\ {stopRequested, terminalFailure, installed} \subseteq BOOLEAN
  /\ queue \in [Inputs -> QueueType]
  /\ \A i \in Inputs : Len(queue[i].frames) <= QueueCapacity
  /\ input \in [Inputs -> InputType]
  /\ proc \in ProcessingType
  /\ echo \in EchoType
  /\ caller \in CallerType
  /\ fault \in [Threads -> FaultType]

-----------------------------------------------------------------------------
(* The timeline.                                                           *)

\* Pairs advance: two frames are paired only when their times are within the
\* tolerance, and each was made by its device after its counterpart of the pair
\* before: no render frame is a reference twice, and none is used out of turn, also
\* when a device's times stand still or go back (select_render_frame).
PairsAdvance ==
  [][proc'.pair # proc.pair /\ proc'.pair # NewProcessing.pair =>
       /\ proc.match.time - proc.mic.time \in -Tolerance..Tolerance
       /\ proc'.pair.mic > proc.pair.mic
       /\ proc'.pair.render > proc.pair.render]_proc

\* One echo canceller never processes frames from both sides of a
\* discontinuity, unless an overflow discarded the frame that marked it
\* (reset_epoch, rebuild_echo).
EchoSeesOneEpoch ==
  [][(\A i \in Inputs : ~input[i].lost) /\ echo' # FreshEcho =>
       /\ echo.mic \in {NoEpoch, echo'.mic}
       /\ echo.render \in {NoEpoch, echo'.render}]_echo

Iterating == proc.pc \in {"mic_reset", "fetch", "examine", "judge", "record", "process",
                          "rebuild", "deadline", "write"}
Between == proc.pc \in {"check", "mic", "refresh"}

\* Every microphone frame is written exactly once, whatever the render side
\* does, unless an overflow of its queue discarded and counted it.
OneOutputPerMicFrame ==
  ~queue["mic"].failed /\ (Iterating \/ Between) =>
    input["mic"].made = proc.sequence + (IF proc.mic = NoFrame THEN 0 ELSE 1)
                        + Len(queue["mic"].frames) + queue["mic"].discarded

-----------------------------------------------------------------------------
(* What the state says.                                                    *)

AllReturned == caller = IdleCaller /\ Free("caller")
Publishing == \E t \in Threads : fault[t].step \notin {"none", "exchange"}

\* The last frame that was judged and processed was paired and accepted.
LastFrameGood ==
  (Between /\ proc.sequence > 0) \/ proc.pc \in {"deadline", "write"} => proc.streak > 0

\* RunningAec is never shown over a frame that had no reference or was replaced
\* by silence, whichever of start and the processing worker wrote last.
RunningIsHonest == snapshot.state = "Running" => LastFrameGood

\* The engine leaves Degraded for RunningAec after a missing reference or a
\* rejected frame only on the RecoveryFrames-th good frame in a row.
RecoveryNeedsStreak ==
  [][snapshot.state = "Degraded" /\ snapshot'.state = "Running" =>
       proc.match # NoFrame /\ proc.streak + 1 >= RecoveryFrames]_snapshot

\* With no command and no failure recorded, a running engine has its workers,
\* whatever became of the runs before: each input and the processing worker
\* serve, or are about to record why not.
QuietRunningIsServed ==
  /\ snapshot.state \in {"Running", "Degraded"} /\ snapshot.error = "None"
  /\ AllReturned /\ ~Publishing
  =>
    /\ installed
    /\ Iterating \/ Between \/ ~Free("processing")
    /\ \A i \in Inputs : input[i].pc \in {"read", "push"} \/ ~Free(i)

\* When a command has returned with Stopped, nothing of the run is left.  A start
\* whose spawns did not all succeed forgets the workers it has: those end only
\* by themselves (start_aec returns through `?`).
StoppedIsQuiet == snapshot.state = "Stopped" /\ proc.pc # "none" => NoWorkerLeft

\* A failure that ended all workers of a run is shown as Failed until the next
\* command.
FailedRunIsFailed ==
  installed /\ terminalFailure /\ WorkersEnded /\ AllReturned => snapshot.state = "Failed"

\* Every start and every stop returns.
CommandsReturn == caller.pc # "idle" ~> caller.pc = "idle"

\* A recorded failure ends the three workers without any command.
FailureTearsDown == terminalFailure /\ installed ~> ~installed \/ WorkersEnded

\* The render side never holds a microphone frame up: the search for its partner
\* and the rebuilds end, and the frame is written or the run is over.
MicFrameCompletes == Iterating ~> ~Iterating
=============================================================================
