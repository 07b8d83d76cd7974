---------------------------- MODULE BypassEngine ----------------------------
(***************************************************************************)
(* The bypass run of mini-aec-engine (runtime.rs): callers that start and  *)
(* stop one reusable Engine, and, for every run, an output worker (sink)   *)
(* and a physical capture worker around a bounded frame queue.             *)
(*                                                                         *)
(* The engine keeps ONE Shared object for all its runs: the snapshot, the  *)
(* stop flag and the terminal-failure flag.  A run has its own queue, its  *)
(* own output session and its own two threads.  Every action is one        *)
(* critical section or one adapter call of one thread; threads interleave  *)
(* freely between them.                                                    *)
(***************************************************************************)
EXTENDS FrameQueue

CONSTANTS
  Callers,        \* threads that issue start and stop commands
  MaxRuns,        \* bound on the runs created
  MaxFrames,      \* bound on the frames one capture completes in one run
  MaxBurst,       \* bound on the frames one packet completes
  QueueCapacity,  \* QUEUE_CAPACITY, 4 in queue.rs
  RefreshEvery,   \* accepted frames between two diagnostics reads, 100 in the code
  Faults          \* environment faults beyond failing adapter calls

FaultKinds == {"spawn", "slow_ready", "slow_join"}

ASSUME EngineAssumption ==
  /\ MaxRuns \in Nat \ {0}
  /\ MaxFrames \in Nat
  /\ MaxBurst \in Nat \ {0}
  /\ QueueCapacity \in Nat \ {0}
  /\ RefreshEvery \in Nat \ {0}
  /\ Faults \subseteq FaultKinds

VARIABLES
  snapshot,         \* Shared.snapshot
  stopRequested,    \* Shared.stop_requested
  terminalFailure,  \* Shared.terminal_failure
  run,              \* Engine.run: the handles of the installed run
  lastRun,          \* runs created so far (new_identity)
  queue,            \* the queue of each run
  sink,             \* the output worker of each run
  capture,          \* the capture worker of each run
  caller,           \* the command each caller is executing
  fault             \* the record_failure call each thread is inside

vars == <<snapshot, stopRequested, terminalFailure, run, lastRun, queue, sink,
          capture, caller, fault>>

Runs == 1..MaxRuns
NoRun == 0

-----------------------------------------------------------------------------
(* Values of the state.                                                    *)

States == {"Stopped", "Starting", "Running", "Stopping", "Failed"}
Errors == {"None", "SinkFailure", "SourceFailure", "WorkerFailure"}

NoSnapshot ==
  [state |-> "Stopped", run |-> NoRun, error |-> "None",
   output |-> 0, accepted |-> 0, discarded |-> 0, depth |-> 0]

NoHandles == [run |-> NoRun, capture |-> FALSE, sink |-> FALSE]

IdleCaller ==
  [pc |-> "idle", goal |-> "none", target |-> NoRun, held |-> NoHandles,
   joinFailed |-> FALSE]

NewSink == [pc |-> "none", ready |-> "pending", frame |-> 0, sequence |-> 0]

NewCapture ==
  [pc |-> "none", ready |-> "pending", pending |-> 0, made |-> 0,
   metrics |-> [depth |-> 0, discarded |-> 0]]

NoFault == [step |-> "none", error |-> "None", run |-> NoRun]

SinkThread(r) == <<"sink", r>>
CaptureThread(r) == <<"capture", r>>
CallerThread(c) == <<"caller", c>>

WorkerThreads == {"sink", "capture"} \X Runs
Threads == WorkerThreads \union ({"caller"} \X Callers)

Init ==
  /\ snapshot = NoSnapshot
  /\ stopRequested = FALSE
  /\ terminalFailure = FALSE
  /\ run = NoHandles
  /\ lastRun = 0
  /\ queue = [r \in Runs |-> NewQueue]
  /\ sink = [r \in Runs |-> NewSink]
  /\ capture = [r \in Runs |-> NewCapture]
  /\ caller = [c \in Callers |-> IdleCaller]
  /\ fault = [t \in Threads |-> NoFault]

-----------------------------------------------------------------------------
(* Shared::record_failure, entered by Raise and executed by its thread in  *)
(* four steps: the compare-exchange, the stop request, queue.fail(), and   *)
(* the publication under the snapshot lock.  A thread does nothing else    *)
(* until it has returned.                                                  *)

Free(t) == fault[t] = NoFault

Raise(t, error, r) ==
  fault' = [fault EXCEPT ![t] = [step |-> "exchange", error |-> error, run |-> r]]

\* Mutant of Exchange: every caller believes it was first.
ExchangeEveryone(t) ==
  /\ fault[t].step = "exchange"
  /\ terminalFailure' = TRUE
  /\ fault' = [fault EXCEPT ![t].step = "request"]
  /\ UNCHANGED <<snapshot, stopRequested, run, lastRun, queue, sink, capture, caller>>

Exchange(t) ==
  /\ fault[t].step = "exchange"
  /\ terminalFailure' = TRUE
  /\ fault' = [fault EXCEPT ![t] = IF terminalFailure THEN NoFault
                                   ELSE [@ EXCEPT !.step = "request"]]
  /\ UNCHANGED <<snapshot, stopRequested, run, lastRun, queue, sink, capture, caller>>

\* Mutant of RaiseStop: the failing thread forgets to request the stop.
RaiseStopNever(t) ==
  /\ fault[t].step = "request"
  /\ fault' = [fault EXCEPT ![t].step = "fail_queue"]
  /\ UNCHANGED <<snapshot, stopRequested, terminalFailure, run, lastRun, queue, sink,
                 capture, caller>>

RaiseStop(t) ==
  /\ fault[t].step = "request"
  /\ stopRequested' = TRUE
  /\ fault' = [fault EXCEPT ![t].step = "fail_queue"]
  /\ UNCHANGED <<snapshot, terminalFailure, run, lastRun, queue, sink, capture, caller>>

FailQueue(t) ==
  /\ fault[t].step = "fail_queue"
  /\ queue' = [queue EXCEPT ![fault[t].run] = Fail(@)]
  /\ fault' = [fault EXCEPT ![t].step = "publish"]
  /\ UNCHANGED <<snapshot, stopRequested, terminalFailure, run, lastRun, sink, capture,
                 caller>>

Publish(t) ==
  /\ fault[t].step = "publish"
  /\ snapshot' = [snapshot EXCEPT !.state = "Failed", !.error = fault[t].error,
                                  !.depth = 0]
  /\ fault' = [fault EXCEPT ![t] = NoFault]
  /\ UNCHANGED <<stopRequested, terminalFailure, run, lastRun, queue, sink, capture, caller>>

RecordFailure(t) == Exchange(t) \/ RaiseStop(t) \/ FailQueue(t) \/ Publish(t)

-----------------------------------------------------------------------------
(* The sink worker of run r.                                               *)

SinkEnded(r) == sink[r].pc = "done" /\ Free(SinkThread(r))
SinkAt(r, pc) == sink[r].pc = pc /\ Free(SinkThread(r))

\* The start command that spawned the workers of run r still holds their
\* ready receivers.
Listening(r) == \E c \in Callers : caller[c].target = r

\* connect, open_session, diagnostics and the ready message.  An error before
\* the message, or a receiver that is gone, ends the worker.
SinkOpen(r) ==
  /\ SinkAt(r, "open")
  /\ \/ sink' = [sink EXCEPT ![r].pc = "done", ![r].ready = "error"]
     \/ sink' = [sink EXCEPT ![r].pc = IF Listening(r) THEN "loop" ELSE "done",
                             ![r].ready = "ok"]
  /\ UNCHANGED <<snapshot, stopRequested, terminalFailure, run, lastRun, queue,
                 capture, caller, fault>>

\* Mutant of SinkPop: a finished producer ends the loop with frames unread.
SinkPopAbandonsQueue(r) ==
  /\ SinkAt(r, "loop")
  /\ \/ /\ PopResult(queue[r]) = "Frame"
        /\ ~queue[r].producerDone
        /\ sink' = [sink EXCEPT ![r].pc = "write", ![r].frame = Head(queue[r].frames)]
        /\ queue' = [queue EXCEPT ![r] = Popped(@)]
     \/ /\ PopResult(queue[r]) = "Finished" \/ queue[r].producerDone
        /\ sink' = [sink EXCEPT ![r].pc = "close"]
        /\ UNCHANGED queue
  /\ UNCHANGED <<snapshot, stopRequested, terminalFailure, run, lastRun, capture,
                 caller, fault>>

\* Mutant of SinkPop: the frame stays in the queue and is read again.
SinkPopPeeks(r) ==
  /\ SinkAt(r, "loop")
  /\ \/ /\ PopResult(queue[r]) = "Frame"
        /\ sink' = [sink EXCEPT ![r].pc = "write", ![r].frame = Head(queue[r].frames)]
        /\ UNCHANGED queue
     \/ /\ PopResult(queue[r]) = "Finished"
        /\ sink' = [sink EXCEPT ![r].pc = "close"]
        /\ UNCHANGED queue
  /\ UNCHANGED <<snapshot, stopRequested, terminalFailure, run, lastRun, capture,
                 caller, fault>>

\* queue.pop(SINK_WAIT).  A Timeout changes nothing and is a stutter.
SinkPop(r) ==
  /\ SinkAt(r, "loop")
  /\ \/ /\ PopResult(queue[r]) = "Frame"
        /\ sink' = [sink EXCEPT ![r].pc = "write", ![r].frame = Head(queue[r].frames)]
        /\ queue' = [queue EXCEPT ![r] = Popped(@)]
     \/ /\ PopResult(queue[r]) = "Finished"
        /\ sink' = [sink EXCEPT ![r].pc = "close"]
        /\ UNCHANGED queue
  /\ UNCHANGED <<snapshot, stopRequested, terminalFailure, run, lastRun, capture,
                 caller, fault>>

\* write_frame accepted the frame: the counters advance, and every
\* RefreshEvery frames the diagnostics are read before the next pop.
SinkAccepts(r) ==
  /\ SinkAt(r, "write")
  /\ sink' = [sink EXCEPT ![r].pc = IF (sink[r].sequence + 1) % RefreshEvery = 0
                                    THEN "refresh" ELSE "loop",
                          ![r].sequence = @ + 1]
  /\ snapshot' = [snapshot EXCEPT !.accepted = @ + 1]
  /\ UNCHANGED <<stopRequested, terminalFailure, run, lastRun, queue, capture,
                 caller, fault>>

\* write_frame rejected the frame, or the periodic diagnostics failed.
SinkFails(r) ==
  /\ \/ SinkAt(r, "write")
     \/ SinkAt(r, "refresh")
  /\ sink' = [sink EXCEPT ![r].pc = "close"]
  /\ Raise(SinkThread(r), "SinkFailure", r)
  /\ UNCHANGED <<snapshot, stopRequested, terminalFailure, run, lastRun, queue,
                 capture, caller>>

SinkRefreshed(r) ==
  /\ SinkAt(r, "refresh")
  /\ sink' = [sink EXCEPT ![r].pc = "loop"]
  /\ UNCHANGED <<snapshot, stopRequested, terminalFailure, run, lastRun, queue,
                 capture, caller, fault>>

\* close_session; its error is recorded whatever happened before.
SinkClose(r) ==
  /\ SinkAt(r, "close")
  /\ sink' = [sink EXCEPT ![r].pc = "final"]
  /\ \/ UNCHANGED fault
     \/ Raise(SinkThread(r), "SinkFailure", r)
  /\ UNCHANGED <<snapshot, stopRequested, terminalFailure, run, lastRun, queue,
                 capture, caller>>

\* The last diagnostics read; its error is dropped in a run that failed.
SinkFinal(r) ==
  /\ SinkAt(r, "final")
  /\ sink' = [sink EXCEPT ![r].pc = "done"]
  /\ \/ UNCHANGED fault
     \/ ~terminalFailure /\ Raise(SinkThread(r), "SinkFailure", r)
  /\ UNCHANGED <<snapshot, stopRequested, terminalFailure, run, lastRun, queue,
                 capture, caller>>

SinkNext(r) ==
  \/ SinkOpen(r) \/ SinkPop(r) \/ SinkAccepts(r) \/ SinkFails(r)
  \/ SinkRefreshed(r) \/ SinkClose(r) \/ SinkFinal(r)

-----------------------------------------------------------------------------
(* The capture worker of run r.  The accumulator's samples are abstracted: *)
(* a packet completes 0..MaxBurst frames, numbered in capture order.       *)

CaptureEnded(r) == capture[r].pc = "done" /\ Free(CaptureThread(r))
CaptureAt(r, pc) == capture[r].pc = pc /\ Free(CaptureThread(r))

\* factory.open and the ready message; a worker that ends here finishes the
\* queue, whose consumer may already be waiting.
CaptureOpen(r) ==
  /\ CaptureAt(r, "open")
  /\ \/ /\ capture' = [capture EXCEPT ![r].pc = "done", ![r].ready = "error"]
        /\ queue' = [queue EXCEPT ![r] = FinishProducer(@)]
     \/ /\ Listening(r)
        /\ capture' = [capture EXCEPT ![r].pc = "check", ![r].ready = "ok"]
        /\ UNCHANGED queue
     \/ /\ ~Listening(r)
        /\ capture' = [capture EXCEPT ![r].pc = "done", ![r].ready = "ok"]
        /\ queue' = [queue EXCEPT ![r] = FinishProducer(@)]
  /\ UNCHANGED <<snapshot, stopRequested, terminalFailure, run, lastRun, sink,
                 caller, fault>>

\* The loop condition.
CaptureCheck(r) ==
  /\ CaptureAt(r, "check")
  /\ capture' = [capture EXCEPT ![r].pc = IF stopRequested THEN "stop" ELSE "read"]
  /\ UNCHANGED <<snapshot, stopRequested, terminalFailure, run, lastRun, queue,
                 sink, caller, fault>>

\* read_packet: nothing or an incomplete frame (n = 0), frames, or an error or
\* an oversized packet.
CaptureRead(r) ==
  /\ CaptureAt(r, "read")
  /\ \/ \E n \in 0..MaxBurst :
          /\ capture[r].made + n <= MaxFrames
          /\ capture' = [capture EXCEPT ![r].pc = IF n = 0 THEN "check" ELSE "push",
                                        ![r].pending = n]
          /\ UNCHANGED fault
     \/ /\ capture' = [capture EXCEPT ![r].pc = "stop"]
        /\ Raise(CaptureThread(r), "SourceFailure", r)
  /\ UNCHANGED <<snapshot, stopRequested, terminalFailure, run, lastRun, queue,
                 sink, caller>>

\* The emit closure, first half: queue.push with the metrics it returned.
CapturePush(r) ==
  /\ CaptureAt(r, "push")
  /\ LET pushed == Push(queue[r], capture[r].made + 1, QueueCapacity)
     IN /\ queue' = [queue EXCEPT ![r] = pushed]
        /\ capture' = [capture EXCEPT ![r].pc = "count",
                                      ![r].pending = @ - 1,
                                      ![r].made = @ + 1,
                                      ![r].metrics = Metrics(pushed)]
  /\ UNCHANGED <<snapshot, stopRequested, terminalFailure, run, lastRun, sink,
                 caller, fault>>

\* The emit closure, second half: the snapshot takes over those metrics.
CaptureCount(r) ==
  /\ CaptureAt(r, "count")
  /\ snapshot' = [snapshot EXCEPT !.output = @ + 1,
                                  !.depth = capture[r].metrics.depth,
                                  !.discarded = capture[r].metrics.discarded]
  /\ capture' = [capture EXCEPT ![r].pc = IF capture[r].pending = 0 THEN "check"
                                          ELSE "push"]
  /\ UNCHANGED <<stopRequested, terminalFailure, run, lastRun, queue, sink,
                 caller, fault>>

\* input.stop; its error is dropped in a run that failed.
CaptureStop(r) ==
  /\ CaptureAt(r, "stop")
  /\ capture' = [capture EXCEPT ![r].pc = "finish"]
  /\ \/ UNCHANGED fault
     \/ ~terminalFailure /\ Raise(CaptureThread(r), "SourceFailure", r)
  /\ UNCHANGED <<snapshot, stopRequested, terminalFailure, run, lastRun, queue,
                 sink, caller>>

CaptureFinish(r) ==
  /\ CaptureAt(r, "finish")
  /\ capture' = [capture EXCEPT ![r].pc = "done"]
  /\ queue' = [queue EXCEPT ![r] = FinishProducer(@)]
  /\ UNCHANGED <<snapshot, stopRequested, terminalFailure, run, lastRun, sink,
                 caller, fault>>

CaptureNext(r) ==
  \/ CaptureOpen(r) \/ CaptureCheck(r) \/ CaptureRead(r) \/ CapturePush(r)
  \/ CaptureCount(r) \/ CaptureStop(r) \/ CaptureFinish(r)

-----------------------------------------------------------------------------
(* The caller: Engine::start (bypass mode) and Engine::stop.  Restart is   *)
(* the two in a row.  Rejections that change nothing are stutters.         *)

CallerAt(c, pc) == caller[c].pc = pc /\ Free(CallerThread(c))

Become(c, record) == caller' = [caller EXCEPT ![c] = record]
Go(c, pc) == Become(c, [caller[c] EXCEPT !.pc = pc])
Return(c) == Become(c, IdleCaller)

\* start reads the state and drops the lock; only Stopped and Failed go on.
BeginStart(c) ==
  /\ CallerAt(c, "idle")
  /\ snapshot.state \in {"Stopped", "Failed"}
  /\ Become(c, [caller[c] EXCEPT
                  !.pc = IF snapshot.state = "Failed" THEN "request_stop" ELSE "resolve",
                  !.goal = "start"])
  /\ UNCHANGED <<snapshot, stopRequested, terminalFailure, run, lastRun, queue,
                 sink, capture, fault>>

\* stop reads the state and the run slot; a failed run keeps its state.
BeginStop(c) ==
  /\ CallerAt(c, "idle")
  /\ ~(snapshot.state = "Stopped" /\ run = NoHandles)
  /\ Become(c, [caller[c] EXCEPT
                  !.pc = IF snapshot.state = "Failed" THEN "request_stop" ELSE "set_stopping",
                  !.goal = "stop"])
  /\ UNCHANGED <<snapshot, stopRequested, terminalFailure, run, lastRun, queue,
                 sink, capture, fault>>

SetStopping(c) ==
  /\ CallerAt(c, "set_stopping")
  /\ snapshot' = [snapshot EXCEPT !.state = "Stopping"]
  /\ Go(c, "request_stop")
  /\ UNCHANGED <<stopRequested, terminalFailure, run, lastRun, queue, sink,
                 capture, fault>>

\* Where a caller goes once cleanup_previous_run returned Ok.
AfterCleanup(c) ==
  CASE caller[c].goal = "start" -> Go(c, "resolve")
    [] caller[c].goal = "stop"  -> Go(c, "set_stopped")
    [] OTHER                    -> Return(c)

\* Mutant of RequestStop: the workers are not told to stop.
RequestStopNever(c) ==
  /\ CallerAt(c, "request_stop")
  /\ Go(c, "take")
  /\ UNCHANGED <<snapshot, stopRequested, terminalFailure, run, lastRun, queue, sink, capture,
                 fault>>

\* stop and cleanup_previous_run: request the stop, then take the handles.
RequestStop(c) ==
  /\ CallerAt(c, "request_stop")
  /\ stopRequested' = TRUE
  /\ Go(c, "take")
  /\ UNCHANGED <<snapshot, terminalFailure, run, lastRun, queue, sink, capture, fault>>

\* Mutant of TakeRun: the handles are cloned, not taken.
TakeRunClones(c) ==
  /\ CallerAt(c, "take")
  /\ IF run = NoHandles
     THEN AfterCleanup(c)
     ELSE Become(c, [caller[c] EXCEPT !.pc = "join_capture", !.held = run])
  /\ UNCHANGED <<snapshot, stopRequested, terminalFailure, run, lastRun, queue, sink,
                 capture, fault>>

TakeRun(c) ==
  /\ CallerAt(c, "take")
  /\ run' = NoHandles
  /\ IF run = NoHandles
     THEN AfterCleanup(c)
     ELSE Become(c, [caller[c] EXCEPT !.pc = "join_capture", !.held = run])
  /\ UNCHANGED <<snapshot, stopRequested, terminalFailure, lastRun, queue, sink,
                 capture, fault>>

\* join_run, capture side: without a capture handle the queue is finished on
\* its behalf; a capture that outlives JOIN_TIMEOUT fails the queue.
JoinCapture(c) ==
  LET h == caller[c].held
      joined(failed) ==
        Become(c, [caller[c] EXCEPT !.pc = "join_sink", !.held.capture = FALSE,
                                    !.joinFailed = failed])
  IN /\ CallerAt(c, "join_capture")
     /\ \/ /\ ~h.capture
           /\ queue' = [queue EXCEPT ![h.run] = FinishProducer(@)]
           /\ joined(FALSE)
        \/ /\ h.capture /\ CaptureEnded(h.run)
           /\ UNCHANGED queue
           /\ joined(FALSE)
        \/ /\ h.capture /\ ~CaptureEnded(h.run)
           /\ "slow_join" \in Faults
           /\ queue' = [queue EXCEPT ![h.run] = Fail(@)]
           /\ joined(TRUE)
     /\ UNCHANGED <<snapshot, stopRequested, terminalFailure, run, lastRun, sink,
                    capture, fault>>

\* Where join_run's result leads: start's early failure ignores it and
\* installs the emptied handles; cleanup_previous_run returns an error at once.
AfterJoin(c, failed) ==
  CASE caller[c].goal = "park" ->
         Become(c, [caller[c] EXCEPT !.pc = "install", !.held.sink = FALSE,
                                     !.joinFailed = FALSE])
    [] caller[c].goal # "park" /\ failed -> Return(c)
    [] OTHER ->
         Become(c, [caller[c] EXCEPT !.pc = "clear", !.held.sink = FALSE])

\* Mutant of JoinSink: the output thread is not waited for.
JoinSinkDetached(c) ==
  /\ CallerAt(c, "join_sink")
  /\ AfterJoin(c, caller[c].joinFailed)
  /\ UNCHANGED <<snapshot, stopRequested, terminalFailure, run, lastRun, queue,
                 sink, capture, fault>>

\* join_run, sink side.
JoinSink(c) ==
  LET h == caller[c].held
  IN /\ CallerAt(c, "join_sink")
     /\ \/ /\ ~h.sink \/ SinkEnded(h.run)
           /\ AfterJoin(c, caller[c].joinFailed)
        \/ /\ h.sink /\ ~SinkEnded(h.run)
           /\ "slow_join" \in Faults
           /\ AfterJoin(c, TRUE)
     /\ UNCHANGED <<snapshot, stopRequested, terminalFailure, run, lastRun, queue,
                    sink, capture, fault>>

\* queue.clear() and update_queue with what it returned.
ClearQueue(c) ==
  LET r == caller[c].held.run
      cleared == Clear(queue[r])
  IN /\ CallerAt(c, "clear")
     /\ queue' = [queue EXCEPT ![r] = cleared]
     /\ snapshot' = [snapshot EXCEPT !.depth = Len(cleared.frames),
                                     !.discarded = cleared.discarded]
     /\ AfterCleanup(c)
     /\ UNCHANGED <<stopRequested, terminalFailure, run, lastRun, sink, capture, fault>>

SetStopped(c) ==
  /\ CallerAt(c, "set_stopped")
  /\ snapshot' = [snapshot EXCEPT !.state = "Stopped", !.depth = 0]
  /\ Return(c)
  /\ UNCHANGED <<stopRequested, terminalFailure, run, lastRun, queue, sink,
                 capture, fault>>

\* The source resolves to the requested endpoint and a fresh snapshot under a
\* new run identity replaces the old one, or start returns its error.
Resolve(c) ==
  /\ CallerAt(c, "resolve")
  /\ \/ /\ Return(c)
        /\ UNCHANGED <<snapshot, lastRun>>
     \/ /\ lastRun < MaxRuns
        /\ lastRun' = lastRun + 1
        /\ snapshot' = [NoSnapshot EXCEPT !.state = "Starting", !.run = lastRun + 1]
        /\ Become(c, [caller[c] EXCEPT
                        !.pc = "reset_stop", !.target = lastRun + 1,
                        !.held = [NoHandles EXCEPT !.run = lastRun + 1]])
  /\ UNCHANGED <<stopRequested, terminalFailure, run, queue, sink, capture, fault>>

\* Mutant of ResetStop: the stop request of the previous run survives.
ResetStopForgotten(c) ==
  /\ CallerAt(c, "reset_stop")
  /\ Go(c, "reset_failure")
  /\ UNCHANGED <<snapshot, stopRequested, terminalFailure, run, lastRun, queue, sink,
                 capture, fault>>

\* The flags of the previous run are reset, one store each.
ResetStop(c) ==
  /\ CallerAt(c, "reset_stop")
  /\ stopRequested' = FALSE
  /\ Go(c, "reset_failure")
  /\ UNCHANGED <<snapshot, terminalFailure, run, lastRun, queue, sink, capture, fault>>

ResetFailure(c) ==
  /\ CallerAt(c, "reset_failure")
  /\ terminalFailure' = FALSE
  /\ Go(c, "spawn_sink")
  /\ UNCHANGED <<snapshot, stopRequested, run, lastRun, queue, sink, capture, fault>>

\* A failed spawn returns through `?` and leaves the state Starting.
SpawnSink(c) ==
  /\ CallerAt(c, "spawn_sink")
  /\ \/ /\ sink' = [sink EXCEPT ![caller[c].target].pc = "open"]
        /\ Become(c, [caller[c] EXCEPT !.pc = "wait_sink", !.held.sink = TRUE])
     \/ /\ "spawn" \in Faults
        /\ Return(c)
        /\ UNCHANGED sink
  /\ UNCHANGED <<snapshot, stopRequested, terminalFailure, run, lastRun, queue,
                 capture, fault>>

\* start gives up before the capture exists: record_failure, then join_run,
\* then the handles are installed for a later cleanup.
GiveUpEarly(c, error) ==
  /\ Become(c, [caller[c] EXCEPT !.pc = "join_capture", !.goal = "park"])
  /\ Raise(CallerThread(c), error, caller[c].target)

WaitSink(c) ==
  LET ready == sink[caller[c].target].ready
  IN /\ CallerAt(c, "wait_sink")
     /\ \/ ready = "ok" /\ Go(c, "spawn_capture") /\ UNCHANGED fault
        \/ ready = "error" /\ GiveUpEarly(c, "SinkFailure")
        \/ /\ ready = "pending" /\ "slow_ready" \in Faults
           /\ GiveUpEarly(c, "WorkerFailure")
     /\ UNCHANGED <<snapshot, stopRequested, terminalFailure, run, lastRun, queue,
                    sink, capture>>

SpawnCapture(c) ==
  /\ CallerAt(c, "spawn_capture")
  /\ \/ /\ capture' = [capture EXCEPT ![caller[c].target].pc = "open"]
        /\ Become(c, [caller[c] EXCEPT !.pc = "install", !.held.capture = TRUE])
        /\ UNCHANGED fault
     \/ /\ "spawn" \in Faults
        /\ GiveUpEarly(c, "WorkerFailure")
        /\ UNCHANGED capture
  /\ UNCHANGED <<snapshot, stopRequested, terminalFailure, run, lastRun, queue, sink>>

\* self.run := Some(handles); a start that gave up returns its error.
InstallRun(c) ==
  /\ CallerAt(c, "install")
  /\ run' = caller[c].held
  /\ IF caller[c].goal = "park"
     THEN Return(c)
     ELSE Become(c, [caller[c] EXCEPT !.pc = "wait_capture", !.held = NoHandles])
  /\ UNCHANGED <<snapshot, stopRequested, terminalFailure, lastRun, queue, sink,
                 capture, fault>>

WaitCapture(c) ==
  LET ready == capture[caller[c].target].ready
      giveUp(error) ==
        /\ Become(c, [caller[c] EXCEPT !.pc = "request_stop", !.goal = "abort"])
        /\ Raise(CallerThread(c), error, caller[c].target)
  IN /\ CallerAt(c, "wait_capture")
     /\ \/ ready = "ok" /\ Go(c, "finish_start") /\ UNCHANGED fault
        \/ ready = "error" /\ giveUp("SourceFailure")
        \/ /\ ready = "pending" /\ "slow_ready" \in Faults
           /\ giveUp("WorkerFailure")
     /\ UNCHANGED <<snapshot, stopRequested, terminalFailure, run, lastRun, queue,
                    sink, capture>>

\* Mutant of FinishStart: a failure during startup is not looked for.
FinishStartBlindly(c) ==
  /\ CallerAt(c, "finish_start")
  /\ snapshot' = [snapshot EXCEPT !.state = "Running"]
  /\ Return(c)
  /\ UNCHANGED <<stopRequested, terminalFailure, run, lastRun, queue, sink,
                 capture, fault>>

\* Under the snapshot lock: an error after a terminal failure, else Running.
FinishStart(c) ==
  /\ CallerAt(c, "finish_start")
  /\ snapshot' = IF terminalFailure THEN snapshot
                 ELSE [snapshot EXCEPT !.state = "Running"]
  /\ Return(c)
  /\ UNCHANGED <<stopRequested, terminalFailure, run, lastRun, queue, sink,
                 capture, fault>>

StartSteps(c) ==
  \/ Resolve(c) \/ ResetStop(c) \/ ResetFailure(c) \/ SpawnSink(c) \/ WaitSink(c)
  \/ SpawnCapture(c) \/ InstallRun(c) \/ WaitCapture(c) \/ FinishStart(c)

CleanupSteps(c) ==
  \/ RequestStop(c) \/ TakeRun(c) \/ JoinCapture(c) \/ JoinSink(c) \/ ClearQueue(c)

CallerSteps(c) ==
  StartSteps(c) \/ CleanupSteps(c) \/ SetStopping(c) \/ SetStopped(c)

-----------------------------------------------------------------------------

Next ==
  \/ \E c \in Callers : BeginStart(c) \/ BeginStop(c) \/ CallerSteps(c)
  \/ \E r \in Runs : SinkNext(r) \/ CaptureNext(r)
  \/ \E t \in Threads : RecordFailure(t)

Spec == Init /\ [][Next]_vars

(***************************************************************************)
(* Each wait of a worker is bounded (INPUT_WAIT, SINK_WAIT), the adapter   *)
(* calls return, and the operating system schedules every thread.  No      *)
(* caller ever has to issue a command.                                     *)
(***************************************************************************)
Fairness ==
  /\ \A c \in Callers : WF_vars(CallerSteps(c))
  /\ \A r \in Runs : WF_vars(SinkNext(r)) /\ WF_vars(CaptureNext(r))
  /\ \A t \in Threads : WF_vars(RecordFailure(t))

FairSpec == Spec /\ Fairness

-----------------------------------------------------------------------------
(* The type invariant.                                                     *)

ReadyValues == {"pending", "ok", "error"}
SinkPcs == {"none", "open", "loop", "write", "refresh", "close", "final", "done"}
CapturePcs == {"none", "open", "check", "read", "push", "count", "stop", "finish", "done"}
CallerPcs == {"idle", "set_stopping", "request_stop", "take", "join_capture", "join_sink", "clear",
              "set_stopped", "resolve", "reset_stop", "reset_failure", "spawn_sink", "wait_sink",
              "spawn_capture", "install", "wait_capture", "finish_start"}
MaybeRun == Runs \union {NoRun}
HandleType == [run : MaybeRun, capture : BOOLEAN, sink : BOOLEAN]
QueueType ==
  [frames : Seq(Nat), producerDone : BOOLEAN, failed : BOOLEAN, discarded : Nat]
SinkType == [pc : SinkPcs, ready : ReadyValues, frame : Nat, sequence : Nat]
CaptureType ==
  [pc : CapturePcs, ready : ReadyValues, pending : Nat, made : Nat,
   metrics : [depth : Nat, discarded : Nat]]
CallerType ==
  [pc : CallerPcs, goal : {"none", "start", "stop", "abort", "park"},
   target : MaybeRun, held : HandleType, joinFailed : BOOLEAN]
FaultType ==
  [step : {"none", "exchange", "request", "fail_queue", "publish"}, error : Errors, run : MaybeRun]
SnapshotType ==
  [state : States, run : MaybeRun, error : Errors, output : Nat, accepted : Nat,
   discarded : Nat, depth : Nat]

\* Every variable has its type, and no queue outgrows its capacity (queue.rs).
TypeOK ==
  /\ snapshot \in SnapshotType
  /\ stopRequested \in BOOLEAN
  /\ terminalFailure \in BOOLEAN
  /\ run \in HandleType
  /\ lastRun \in 0..MaxRuns
  /\ queue \in [Runs -> QueueType]
  /\ \A r \in Runs : Len(queue[r].frames) <= QueueCapacity
  /\ sink \in [Runs -> SinkType]
  /\ capture \in [Runs -> CaptureType]
  /\ caller \in [Callers -> CallerType]
  /\ fault \in [Threads -> FaultType]

-----------------------------------------------------------------------------
(* The data path of one run.                                               *)

Serving(r) == sink[r].pc \in {"loop", "write", "refresh"}
InFlight(r) == IF sink[r].pc = "write" THEN 1 ELSE 0

\* Frames reach the output session in capture order and none twice: what is
\* queued or being written is strictly increasing and was captured, and the
\* session has accepted no frame that comes after it.  sink.frame is the last
\* frame popped, so a frame read again would equal its successor.
CaptureOrder ==
  \A r \in Runs :
    LET frames == queue[r].frames
    IN /\ \A i, j \in 1..Len(frames) : i < j => frames[i] < frames[j]
       /\ \A i \in 1..Len(frames) :
            frames[i] > sink[r].frame /\ frames[i] <= capture[r].made
       /\ sink[r].frame <= capture[r].made

\* While a sink serves an unfailed queue every captured frame is accounted
\* for: accepted by the session, being written, still queued, or counted as
\* discarded by an overflow.
FrameConservation ==
  \A r \in Runs :
    Serving(r) /\ ~queue[r].failed =>
      capture[r].made = sink[r].sequence + InFlight(r) + Len(queue[r].frames)
                        + queue[r].discarded

-----------------------------------------------------------------------------
(* Lifecycle across runs and callers.                                      *)

\* While a command is at one of these points it owns the handles it holds.
HoldingPcs == {"reset_stop", "reset_failure", "spawn_sink", "wait_sink", "spawn_capture",
               "install", "join_capture", "join_sink", "clear"}

Holding(c) == caller[c].pc \in HoldingPcs

\* The handles of a run have one owner: a command, or the engine's run slot.
\* No two commands ever join, clear or install the same run.
HandlesHaveOneOwner ==
  \A c \in Callers :
    Holding(c) => /\ caller[c].held.run # run.run
                  /\ \A d \in Callers \ {c} :
                       Holding(d) => caller[d].held.run # caller[c].held.run

SinkAlive(r) == sink[r].pc # "none" /\ ~SinkEnded(r)
CaptureAlive(r) == capture[r].pc # "none" /\ ~CaptureEnded(r)

AllReturned == \A c \in Callers : caller[c] = IdleCaller /\ Free(CallerThread(c))
Publishing == \E t \in Threads : fault[t].step \in {"request", "fail_queue", "publish"}

\* Every live worker belongs to the run the snapshot names, and none is left
\* when the engine says Stopped: a restart follows the end of the run before.
NoOrphanWorkers ==
  \A r \in Runs :
    SinkAlive(r) \/ CaptureAlive(r) =>
      snapshot.run = r /\ snapshot.state # "Stopped"

\* Running without a recorded failure means that both workers of that run are
\* serving, or that one of them is about to record why it is not.
RunningIsServed ==
  snapshot.state = "Running" /\ ~terminalFailure =>
    LET r == snapshot.run
    IN /\ run = [run |-> r, capture |-> TRUE, sink |-> TRUE]
       /\ Serving(r) \/ ~Free(SinkThread(r))
       /\ capture[r].pc \in {"check", "read", "push", "count"}
            \/ ~Free(CaptureThread(r))

\* The same once no command is under way.
QuietRunningIsServed == AllReturned => RunningIsServed

\* A failure that a worker won the right to record stays visible: once it has
\* been published and no command is under way, the state is Failed (or the
\* Stopped of a later stop) and the snapshot carries an error.
FailureIsVisible ==
  terminalFailure /\ ~Publishing /\ AllReturned =>
    snapshot.state \in {"Failed", "Stopped"} /\ snapshot.error # "None"

\* A run that was stopped without failing wrote every frame it did not count
\* as discarded: stop drains the queue (doc of Engine::stop).
CleanStopAccounting ==
  snapshot.state = "Stopped" /\ ~terminalFailure =>
    snapshot.output = snapshot.accepted + snapshot.discarded

\* The error of a run is the first one recorded; a later failure of the same
\* run never replaces it.
FirstErrorSticks ==
  [][snapshot.error # "None" /\ snapshot'.run = snapshot.run =>
       snapshot'.error = snapshot.error]_snapshot

\* A session accepts frames only while the snapshot names its run: no frame
\* of an earlier run reaches the output after a restart.
NoStalePcm ==
  [][\A r \in Runs : sink'[r].sequence # sink[r].sequence => snapshot.run = r]_vars

\* Every start and every stop returns.
CommandsReturn ==
  \A c \in Callers : caller[c].pc # "idle" ~> caller[c].pc = "idle"

\* A recorded failure ends both workers of the run without any command.
FailureTearsDown ==
  \A r \in Runs :
    (terminalFailure /\ snapshot.run = r) ~> ~SinkAlive(r) /\ ~CaptureAlive(r)

-----------------------------------------------------------------------------
(* The refinement: the threads and queues implement EngineLifecycle.       *)

HoldsSession(r) == sink[r].pc \in {"loop", "write", "refresh", "close"}

\* The run with an open output session, if any.
OpenRun ==
  IF \E r \in Runs : HoldsSession(r)
  THEN CHOOSE r \in Runs : HoldsSession(r)
  ELSE NoRun

Lifecycle ==
  INSTANCE EngineLifecycle WITH
    phase <- snapshot.state,
    current <- snapshot.run,
    session <- OpenRun,
    opened <- \E r \in Runs : /\ r = snapshot.run
                              /\ sink[r].pc \notin {"none", "open"}
                              /\ sink[r].ready = "ok",
    delivered <- snapshot.accepted

\* One caller and workers that answer every join implement the lifecycle the
\* engine promises.
ImplementsLifecycle == Lifecycle!Spec
=============================================================================
