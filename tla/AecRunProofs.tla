---------------------------- MODULE AecRunProofs ----------------------------
(***************************************************************************)
(* Theorems about the runs of AecEngine, for every bound, timing,          *)
(* threshold and subset of the faults.                                     *)
(*                                                                         *)
(* A run is served: whatever workers, spawns and ready messages fail, an   *)
(* engine that says it runs has its three workers, or one of them is about *)
(* to record why not, and a stop leaves none of them.                      *)
(*                                                                         *)
(* A canceller hears one epoch: no frame is processed by a canceller that  *)
(* has heard a frame of another epoch of the same input, unless the mark   *)
(* between the two was lost with a frame the queue discarded.              *)
(***************************************************************************)
EXTENDS AecProofs

ResetPcs == {"reset_stop", "reset_failure"}
SpawnPcs == {"spawn_mic", "spawn_render", "spawn_processing"}
WaitPcs == {"wait_mic", "wait_render", "wait_processing", "finish_start"}
ClearingPcs == {"request_stop", "take", "join"}
StartPcs == {"open", "first_mic", "first_render", "announce"}

InputQuiet(i) == input[i].pc \in {"none", "done"} /\ Free(i)
ProcQuiet == proc.pc \in {"none", "done"} /\ Free("processing")
Quiet == ProcQuiet /\ \A i \in Inputs : InputQuiet(i)

-----------------------------------------------------------------------------
(* Who is to end the workers of a run whose three spawns succeeded.        *)

Handles ==
  /\ ~Quiet /\ proc.pc # "none" => installed \/ caller.pc \in {"install", "join"}
  /\ caller.pc \in {"join", "set_stopped", "resolve", "install"} \union ResetPcs \union SpawnPcs
       => ~installed
  /\ caller.pc \in WaitPcs => installed
  /\ caller.goal = "abort" => caller.pc \in ClearingPcs /\ (caller.pc = "join" \/ installed)
  /\ installed \/ caller.pc = "install" => proc.pc # "none"
  /\ snapshot.state = "Stopped" => ~installed /\ caller.pc \in {"idle", "resolve"}

\* A run starts in silence, and a worker that was not spawned has done nothing.
Fresh ==
  /\ caller.pc \in ResetPcs => Quiet /\ snapshot.state = "Starting" /\ snapshot.error = "None"
  /\ proc.pc = "none" => Free("processing")
  /\ \A i \in Inputs : input[i].pc \in {"none", "done"} => Free(i)
  /\ proc.pc = "none" => snapshot.state \in {"Stopped", "Starting", "Failed", "Stopping"}
  /\ proc.pc \in StartPcs =>
       /\ caller.goal \in {"start", "abort"}
       /\ caller.pc \in {"install"} \union WaitPcs \union ClearingPcs

\* Where a command can be with its goal.
Goals ==
  /\ caller.pc = "idle" => caller = IdleCaller
  /\ caller.pc \in {"set_stopping", "set_stopped"} => caller.goal = "stop"
  /\ caller.pc \in {"install", "resolve"} \union ResetPcs \union SpawnPcs \union WaitPcs
       => caller.goal = "start"
  /\ caller.pc \in ClearingPcs \union {"resolve"} /\ caller.goal = "start" =>
       snapshot.error # "None" \/ (caller.pc = "resolve" /\ snapshot.state = "Stopped")
  /\ caller.pc \in SpawnPcs => snapshot.state = "Starting" \/ snapshot.error # "None"

-----------------------------------------------------------------------------
(* The two flags.  A failure that was recorded is shown, or being shown,   *)
(* and a stop that was requested without one is the work of a stop.        *)

Failures ==
  /\ \A t \in Threads : ~Free(t) => fault[t].step # "none" /\ fault[t].error # "None"
  /\ \A t \in Threads : fault[t].step \notin {"none", "exchange"} => terminalFailure
  /\ terminalFailure => Publishing \/ snapshot.error # "None" \/ caller.pc \in ResetPcs
  /\ snapshot.error # "None" => terminalFailure
  /\ snapshot.state = "Failed" => snapshot.error # "None"
  /\ ~Free("caller") => caller.goal = "abort" /\ caller.pc = "request_stop"
  /\ caller.goal = "abort" /\ Free("caller") => terminalFailure

Stops ==
  /\ stopRequested => \/ terminalFailure
                      \/ snapshot.state = "Stopped"
                      \/ caller.goal = "stop" /\ caller.pc \in {"take", "join", "set_stopped"}
                      \/ caller.pc = "reset_stop"
  /\ caller.pc = "reset_failure" => ~stopRequested

-----------------------------------------------------------------------------
(* What a ready message says of its worker.                                *)

Announced ==
  /\ \A i \in Inputs : /\ input[i].pc \in {"none", "open"} => input[i].ready = "pending"
                       /\ input[i].ready # "None"
                       /\ input[i].pc \in {"read", "push", "stop", "finish"} =>
                            input[i].ready = "ok"
  /\ proc.ready # "None"
  /\ proc.pc \in {"none"} \union StartPcs => proc.ready = "pending"
  /\ input["mic"].ready # "ok" =>
       queue["mic"].frames = <<>> /\ proc.ready # "ok" /\ proc.pc \notin {"first_render", "announce"}
  /\ queue["mic"].failed => terminalFailure /\ caller.pc \notin ResetPcs
  /\ caller.pc \in WaitPcs \ {"wait_mic"} => input["mic"].ready = "ok"
  /\ caller.pc \in {"wait_processing", "finish_start"} => input["render"].ready = "ok"
  /\ caller.pc = "finish_start" => proc.ready = "ok"

Raised == stopRequested \/ terminalFailure

\* A worker that said ready leaves its loop only when it is told to, or fails.
Serves ==
  /\ \A i \in Inputs : input[i].ready = "ok" /\ ~Raised =>
                         input[i].pc \in {"read", "push"} \/ ~Free(i)
  /\ proc.ready = "ok" /\ ~Raised => Iterating \/ Between \/ ~Free("processing")

AllReady == proc.ready = "ok" /\ \A i \in Inputs : input[i].ready = "ok"

\* What a command leaves behind, unless it stopped the engine or failed.
Served ==
  caller.pc = "idle" /\ snapshot.error = "None" /\ snapshot.state # "Stopped" =>
    proc.pc = "none" \/ (installed /\ AllReady /\ (stopRequested => terminalFailure))

Service == Handles /\ Fresh /\ Goals /\ Failures /\ Stops /\ Announced /\ Serves /\ Served

RInv == IInv /\ Service

LEMMA QuietFacts ==
  ASSUME RInv
  PROVE  /\ QuietRunningIsServed
         /\ StoppedIsQuiet
<1>0. /\ TypeOK /\ Handles /\ Fresh /\ Goals /\ Failures /\ Stops /\ Announced /\ Serves /\ Served
  BY DEF RInv, IInv, Typed, Service
<1>1. QuietRunningIsServed
  <2> SUFFICES ASSUME snapshot.state \in {"Running", "Degraded"}, snapshot.error = "None",
                      AllReturned, ~Publishing
               PROVE  /\ installed
                      /\ Iterating \/ Between \/ ~Free("processing")
                      /\ \A i \in Inputs : input[i].pc \in {"read", "push"} \/ ~Free(i)
    BY DEF QuietRunningIsServed
  <2>1. caller.pc = "idle" /\ proc.pc # "none"
    BY <1>0 DEF AllReturned, IdleCaller, Fresh
  <2>2. installed /\ AllReady /\ (stopRequested => terminalFailure)
    BY <1>0, <2>1 DEF Served
  <2>3. ~terminalFailure
    BY <1>0, <2>1 DEF Failures, ResetPcs
  <2>4. QED
    BY <1>0, <2>2, <2>3 DEF Serves, AllReady, Raised, Inputs
<1>2. StoppedIsQuiet
  <2> SUFFICES ASSUME snapshot.state = "Stopped", proc.pc # "none"
               PROVE  NoWorkerLeft
    BY DEF StoppedIsQuiet
  <2>1. Quiet
    BY <1>0 DEF Handles
  <2>2. QED
    BY <2>1 DEF Quiet, ProcQuiet, InputQuiet, NoWorkerLeft, ProcEnded, InputEnded
<1>3. QED
  BY <1>1, <1>2

-----------------------------------------------------------------------------
(* The step of an input worker.                                            *)

InputMove(i) ==
  /\ UNCHANGED <<snapshot, stopRequested, terminalFailure, installed, proc, caller>>
  /\ Free(i) /\ input[i].pc \notin {"none", "done"}
  /\ \A j \in Inputs : j # i => input'[j] = input[j]
  /\ \A t \in Threads : t # i => fault'[t] = fault[t]
  /\ fault'[i] = NoFault \/ fault'[i] = [step |-> "exchange", error |-> InputError(i)]
  /\ queue'["mic"].failed = queue["mic"].failed
  /\ queue'["mic"].frames = queue["mic"].frames \/ (i = "mic" /\ input[i].pc = "push")
  /\ input'[i].pc \notin {"none", "open"}
  /\ input'[i].pc = "done" => fault'[i] = NoFault
  /\ \/ input[i].pc = "open" /\ input'[i].pc = "read" /\ input'[i].ready = "ok"
     \/ input[i].pc = "open" /\ input'[i].pc = "done" /\ input'[i].ready = InputError(i)
     \/ input[i].pc = "open" /\ input'[i].pc = "done" /\ input'[i].ready = input[i].ready
     \/ /\ input[i].pc # "open" /\ input'[i].ready = input[i].ready
        /\ \/ input'[i].pc \in {"read", "push"}
           \/ stopRequested
           \/ fault'[i] # NoFault
           \/ input[i].pc \in {"stop", "finish"}

LEMMA InputMoves ==
  ASSUME Typed, NEW i \in Inputs, InputNext(i)
  PROVE  InputMove(i)
<1>0. /\ TypeOK /\ input[i] \in InputType /\ i \in Threads
      /\ queue \in [Inputs -> QueueType] /\ input \in [Inputs -> InputType]
      /\ fault \in [Threads -> FaultType] /\ "mic" \in Inputs
  BY DEF Typed, TypeOK, Threads, Inputs
<1>1. /\ UNCHANGED <<snapshot, stopRequested, terminalFailure, installed, proc, caller>>
      /\ Free(i) /\ input[i].pc \notin {"none", "done"}
      /\ \A j \in Inputs : j # i => input'[j] = input[j]
  BY <1>0 DEF InputNext, InputSteps, InputOpen, InputLeave, InputRead, InputReadFails, InputPush,
              InputStop, InputFinish, InputAt
<1>2. fault' = fault \/ Raise(i, InputError(i))
  BY DEF InputNext, InputSteps, InputOpen, InputLeave, InputRead, InputReadFails, InputPush,
         InputStop, InputFinish
<1>3. /\ \A t \in Threads : t # i => fault'[t] = fault[t]
      /\ fault' = fault => fault'[i] = NoFault
      /\ Raise(i, InputError(i)) => fault'[i] = [step |-> "exchange", error |-> InputError(i)]
  <2>1. Raise(i, InputError(i)) => /\ fault'[i] = [step |-> "exchange", error |-> InputError(i)]
                                   /\ \A t \in Threads : t # i => fault'[t] = fault[t]
    BY <1>0 DEF Raise
  <2>2. fault' = fault => fault'[i] = NoFault
    BY <1>1 DEF Free
  <2>3. QED
    BY <1>2, <2>1, <2>2
<1>4. /\ queue'["mic"].failed = queue["mic"].failed
      /\ queue'["mic"].frames = queue["mic"].frames \/ (i = "mic" /\ input[i].pc = "push")
  <2>1. ASSUME NEW q \in QueueType, q.failed = queue[i].failed, queue' = [queue EXCEPT ![i] = q]
        PROVE  /\ queue'["mic"].failed = queue["mic"].failed
               /\ i # "mic" \/ q.frames = queue["mic"].frames =>
                    queue'["mic"].frames = queue["mic"].frames
    BY <1>0, <2>1
  <2>2. CASE InputPush(i)
    <3>1. NextFrame(i) \in FrameType
      BY <1>0 DEF NextFrame, FrameType, InputType
    <3>2. input[i].pc = "push"
      BY <2>2 DEF InputPush, InputAt
    <3>3. QED
      BY <2>1, <2>2, <3>1, <3>2, <1>0, Sizes, PushedQueue DEF InputPush
  <2>3. CASE ~InputPush(i)
    <3>1. queue' = queue \/ queue' = [queue EXCEPT ![i] = FinishProducer(queue[i])]
      BY <2>3 DEF InputNext, InputSteps, InputOpen, InputLeave, InputRead, InputReadFails,
                  InputStop, InputFinish
    <3>2. QED
      BY <1>0, <2>1, <3>1, ControlType
  <2>4. QED
    BY <2>2, <2>3
<1> DEFINE Turn == /\ input[i].pc # "open" /\ input'[i].ready = input[i].ready
                   /\ input'[i].pc \notin {"none", "open"}
                   /\ input'[i].pc = "done" => fault'[i] = NoFault
                   /\ \/ input'[i].pc \in {"read", "push"}
                      \/ stopRequested
                      \/ fault'[i] # NoFault
                      \/ input[i].pc \in {"stop", "finish"}
           Opens == /\ input[i].pc = "open" /\ fault'[i] = NoFault
                    /\ \/ input'[i].pc = "read" /\ input'[i].ready = "ok"
                       \/ input'[i].pc = "done" /\ input'[i].ready = InputError(i)
                       \/ input'[i].pc = "done" /\ input'[i].ready = input[i].ready
<1>5. CASE InputOpen(i)
  <2>1. Opens
    BY <1>0, <1>3, <1>5 DEF InputOpen, InputAt, InputType
  <2>2. QED
    BY <1>1, <1>2, <1>3, <1>4, <2>1 DEF InputMove
<1>6. CASE ~InputOpen(i)
  <2>1. ASSUME InputLeave(i)
        PROVE  Turn
    BY <1>0, <2>1 DEF InputLeave, InputAt, InputType
  <2>2. ASSUME InputRead(i)
        PROVE  Turn
    <3>1. PICK n \in 1..MaxBurst, flagged \in BOOLEAN, jump \in Jumps[i] :
            input' = [input EXCEPT ![i].pc = "push",
                                   ![i].pending = n,
                                   ![i].clock = Stamp(@ + jump),
                                   ![i].mark = flagged,
                                   ![i].epoch = IF flagged THEN @ + 1 ELSE @]
      BY <2>2 DEF InputRead
    <3>2. QED
      BY <1>0, <2>2, <3>1 DEF InputRead, InputAt, InputType
  <2>3. ASSUME InputReadFails(i)
        PROVE  Turn
    <3>1. input'[i].pc = "stop" /\ input'[i].ready = input[i].ready /\ input[i].pc = "read"
      BY <1>0, <2>3 DEF InputReadFails, InputAt, InputType
    <3>2. fault'[i] # NoFault
      BY <1>3, <2>3 DEF InputReadFails, NoFault
    <3>3. QED
      BY <3>1, <3>2
  <2>4. ASSUME InputPush(i)
        PROVE  Turn
    <3>1. input' = [input EXCEPT ![i].pc = IF input[i].pending = 1 THEN "read" ELSE "push",
                                 ![i].pending = @ - 1, ![i].made = @ + 1,
                                 ![i].clock = @ + FrameTicks,
                                 ![i].mark = FALSE, ![i].lost = @ \/ LosesMark(queue[i])]
      BY <2>4 DEF InputPush
    <3>2. /\ input'[i].pc = IF input[i].pending = 1 THEN "read" ELSE "push"
          /\ input'[i].ready = input[i].ready
      BY <1>0, <3>1 DEF InputType
    <3>3. QED
      BY <2>4, <3>2 DEF InputPush, InputAt
  <2>5. ASSUME InputStop(i)
        PROVE  Turn
    BY <1>0, <2>5 DEF InputStop, InputAt, InputType
  <2>6. ASSUME InputFinish(i)
        PROVE  Turn
    BY <1>0, <1>3, <2>6 DEF InputFinish, InputAt, InputType
  <2>7. Turn
    BY <1>6, <2>1, <2>2, <2>3, <2>4, <2>5, <2>6 DEF InputNext, InputSteps
  <2>8. QED
    BY <1>1, <1>2, <1>3, <1>4, <2>7 DEF InputMove
<1>7. QED
  BY <1>5, <1>6

\* Threads other than t keep their faults, and t is not publishing.
LEMMA StillPublishing ==
  ASSUME NEW t \in Threads, Free(t), \A u \in Threads : u # t => fault'[u] = fault[u],
         Publishing
  PROVE  Publishing'
BY DEF Publishing, Free, NoFault

\* A fault that is raised names its error and is not published yet.
LEMMA FailuresRaised ==
  ASSUME Typed, Failures, NEW t \in Threads, Free(t), t # "caller",
         \A u \in Threads : u # t => fault'[u] = fault[u],
         NEW e, e # "None",
         fault'[t] = NoFault \/ fault'[t] = [step |-> "exchange", error |-> e],
         UNCHANGED <<terminalFailure, caller>>, snapshot'.error = snapshot.error,
         snapshot'.state = "Failed" => snapshot.state = "Failed"
  PROVE  Failures'
<1>1. ASSUME NEW u \in Threads
      PROVE  /\ ~Free(u)' => fault'[u].step # "none" /\ fault'[u].error # "None"
             /\ fault'[u].step \notin {"none", "exchange"} => terminalFailure
             /\ u # t => (Free(u)' <=> Free(u))
  <2>1. CASE u = t
    <3>1. fault'[t] = NoFault \/ (fault'[t].step = "exchange" /\ fault'[t].error # "None")
      OBVIOUS
    <3>2. Free(t)' <=> fault'[t] = NoFault
      BY DEF Free
    <3>3. NoFault.step = "none"
      BY DEF NoFault
    <3>4. QED
      BY <2>1, <3>1, <3>2, <3>3
  <2>2. CASE u # t
    BY <2>2 DEF Failures, Free
  <2>3. QED
    BY <2>1, <2>2
<1>2. Publishing => Publishing'
  BY StillPublishing
<1>3. "caller" \in Threads
  BY DEF Threads
<1>4. QED
  BY <1>1, <1>2, <1>3 DEF Failures

LEMMA ServiceByInput ==
  ASSUME RInv, NEW i \in Inputs, InputNext(i)
  PROVE  Service'
<1>0. /\ Typed /\ DoneMic /\ Handles /\ Fresh /\ Goals /\ Failures /\ Stops /\ Announced /\ Serves
      /\ Served /\ i \in Threads /\ i # "caller" /\ i # "processing" /\ "processing" \in Threads
      /\ "caller" \in Threads /\ \A j \in Inputs : j \in Threads
  BY DEF RInv, IInv, Service, Threads, Inputs
<1>1. /\ UNCHANGED <<snapshot, stopRequested, terminalFailure, installed, proc, caller>>
      /\ Free(i) /\ input[i].pc \notin {"none", "done"} /\ input'[i].pc \notin {"none", "open"}
      /\ \A j \in Inputs : j # i => input'[j] = input[j]
      /\ \A t \in Threads : t # i => fault'[t] = fault[t]
      /\ fault'[i] = NoFault \/ fault'[i] = [step |-> "exchange", error |-> InputError(i)]
      /\ queue'["mic"].failed = queue["mic"].failed
      /\ queue'["mic"].frames = queue["mic"].frames \/ (i = "mic" /\ input[i].pc = "push")
      /\ input'[i].ready \in {input[i].ready, "ok", InputError(i)}
      /\ InputError(i) \notin {"ok", "None", "pending"}
      /\ input'[i].pc = "done" => Free(i)'
  BY <1>0, InputMoves DEF InputMove, InputError, Free
<1>2. /\ Free("processing")' <=> Free("processing")
      /\ Free("caller")' <=> Free("caller")
      /\ \A j \in Inputs : j # i => (Free(j)' <=> Free(j))
  BY <1>0, <1>1 DEF Free
<1>3. ~Quiet
  BY <1>1 DEF Quiet, InputQuiet
<1>4. Handles'
  BY <1>0, <1>1, <1>3 DEF Handles
<1>5. Fresh'
  BY <1>0, <1>1, <1>2, <1>3 DEF Fresh
<1>6. Goals'
  BY <1>0, <1>1 DEF Goals
<1>7. Failures'
  BY <1>0, <1>1, FailuresRaised
<1>8. Stops'
  BY <1>0, <1>1 DEF Stops
<1>9. ASSUME NEW j \in Inputs
      PROVE  /\ input'[j].pc \in {"none", "open"} => input'[j].ready = "pending"
             /\ input'[j].ready # "None"
             /\ input'[j].pc \in {"read", "push", "stop", "finish"} => input'[j].ready = "ok"
             /\ input[j].ready = "ok" => input'[j].ready = "ok"
             /\ input'[j].ready = "ok" /\ ~Raised =>
                  input'[j].pc \in {"read", "push"} \/ ~Free(j)'
  <2>1. CASE j # i
    BY <1>0, <1>1, <1>2, <2>1 DEF Announced, Serves
  <2>2. CASE j = i
    <3>1. input[i].pc \in {"open", "read", "push", "stop", "finish"}
      BY <1>0, <1>1 DEF Typed, TypeOK, InputType
    <3>2. /\ input[i].pc = "open" => input[i].ready = "pending"
          /\ input[i].pc # "open" => input[i].ready = "ok"
          /\ input[i].pc \in {"stop", "finish"} => Raised
      BY <1>0, <1>1, <3>1 DEF Announced, Serves
    <3>3. \/ /\ input[i].pc = "open" /\ input'[i].pc = "done"
             /\ input'[i].ready \in {InputError(i), "pending"}
          \/ input[i].pc = "open" /\ input'[i].pc = "read" /\ input'[i].ready = "ok"
          \/ /\ input[i].pc # "open" /\ input'[i].ready = input[i].ready
             /\ input'[i].pc \in {"read", "push"} \/ Raised \/ fault'[i] # NoFault
      BY <1>0, <3>2, InputMoves DEF InputMove, Raised
    <3>4. QED
      BY <1>1, <2>2, <3>1, <3>2, <3>3 DEF Free
  <2>3. QED
    BY <2>1, <2>2
<1>10. input'["mic"].ready # "ok" => queue'["mic"].frames = <<>> /\ input["mic"].ready # "ok"
  BY <1>0, <1>1, <1>9 DEF Announced, Inputs
<1>11. Announced'
  BY <1>0, <1>1, <1>9, <1>10 DEF Announced, Inputs
<1>12. (Iterating' <=> Iterating) /\ (Between' <=> Between) /\ (Raised' <=> Raised)
  BY <1>1 DEF Iterating, Between, Raised
<1>13. Serves'
  BY <1>0, <1>1, <1>2, <1>9, <1>12 DEF Serves
<1>14. Served'
  BY <1>0, <1>1, <1>9 DEF Served, AllReady
<1>15. QED
  BY <1>4, <1>5, <1>6, <1>7, <1>8, <1>11, <1>13, <1>14 DEF Service

-----------------------------------------------------------------------------
(* A step of record_aec_failure.                                           *)

LEMMA FailureMoves ==
  ASSUME RInv, NEW t \in Threads, RecordFailure(t)
  PROVE  /\ UNCHANGED <<installed, input, proc, caller>>
         /\ ~Free(t) /\ terminalFailure'
         /\ \A u \in Threads : u # t => fault'[u] = fault[u]
         /\ fault'[t] = NoFault \/ (fault'[t].step \in {"request", "fail_first", "fail_second", "publish"}
                                    /\ fault'[t].error # "None")
         /\ \/ snapshot' = snapshot /\ (terminalFailure /\ Publishing => Publishing')
            \/ snapshot'.state = "Failed" /\ snapshot'.error # "None"
         /\ snapshot' = snapshot /\ ~terminalFailure => Publishing'
         /\ \A i \in Inputs : queue'[i].frames \in {queue[i].frames, <<>>}
<1>0. /\ TypeOK /\ Failures /\ NoFault.step = "none" /\ fault[t] \in FaultType
      /\ fault \in [Threads -> FaultType] /\ snapshot \in SnapshotType
      /\ queue \in [Inputs -> QueueType]
  BY DEF RInv, IInv, Typed, Service, TypeOK, NoFault
<1>1. /\ UNCHANGED <<installed, input, proc, caller>> /\ ~Free(t)
      /\ \A u \in Threads : u # t => fault'[u] = fault[u]
      /\ fault[t].error # "None"
  <2>1. fault[t].step # "none"
    BY DEF RecordFailure, Exchange, RaiseStop, FailQueues, Publish, Advance
  <2>2. ~Free(t)
    BY <1>0, <2>1 DEF Free
  <2>3. QED
    BY <1>0, <2>2 DEF RecordFailure, Exchange, RaiseStop, FailQueues, Publish, Advance, Failures
<1>2. fault[t].step \notin {"none", "exchange"} => terminalFailure
  BY <1>0 DEF Failures
<1>3. \A i \in Inputs : queue'[i].frames \in {queue[i].frames, <<>>}
  <2>1. CASE queue' = queue
    BY <2>1
  <2>2. CASE queue' # queue
    <3>1. PICK j \in Inputs : queue' = [queue EXCEPT ![j] = Fail(queue[j])]
      BY <2>2 DEF RecordFailure, Exchange, RaiseStop, FailQueues, Publish, FirstQueue, SecondQueue,
                  Inputs
    <3>2. Fail(queue[j]).frames = <<>>
      BY <1>0, ControlType
    <3>3. QED
      BY <1>0, <3>1, <3>2
  <2>3. QED
    BY <2>1, <2>2
<1> DEFINE steps == {"request", "fail_first", "fail_second", "publish"}
           Goes == /\ fault'[t].step \in steps /\ fault'[t].error # "None"
                   /\ snapshot' = snapshot /\ terminalFailure'
<1>4. Goes => Publishing'
  BY DEF Publishing
<1>5. CASE Exchange(t)
  <2>1. CASE terminalFailure
    <3>1. fault' = [fault EXCEPT ![t] = NoFault] /\ snapshot' = snapshot /\ terminalFailure'
          /\ fault[t].step = "exchange"
      BY <1>5, <2>1 DEF Exchange
    <3>2. fault'[t] = NoFault
      BY <1>0, <3>1
    <3>3. Publishing => Publishing'
      BY <1>1, <3>1 DEF Publishing
    <3>4. QED
      BY <1>1, <1>3, <2>1, <3>1, <3>2, <3>3
  <2>2. CASE ~terminalFailure
    <3>1. fault' = [fault EXCEPT ![t] = [fault[t] EXCEPT !.step = "request"]]
      BY <1>0, <1>5, <2>2 DEF Exchange
    <3>2. Goes
      BY <1>0, <1>1, <1>5, <3>1 DEF Exchange, FaultType
    <3>3. QED
      BY <1>1, <1>3, <1>4, <3>2
  <2>3. QED
    BY <2>1, <2>2
<1>6. CASE RaiseStop(t) \/ FailQueues(t)
  <2>1. /\ \E s \in steps : fault' = [fault EXCEPT ![t].step = s]
        /\ snapshot' = snapshot /\ terminalFailure' = terminalFailure
        /\ fault[t].step \in steps
    BY <1>6 DEF RaiseStop, FailQueues, Advance
  <2>2. Goes
    BY <1>0, <1>1, <1>2, <2>1 DEF FaultType
  <2>3. QED
    BY <1>1, <1>3, <1>4, <2>2
<1>7. CASE Publish(t)
  <2>1. /\ snapshot'.state = "Failed" /\ snapshot'.error # "None"
        /\ terminalFailure' = terminalFailure /\ fault[t].step = "publish"
        /\ fault'[t] = NoFault
    BY <1>0, <1>1, <1>7 DEF Publish, SnapshotType
  <2>2. ~(snapshot' = snapshot /\ ~terminalFailure)
    BY <1>2, <2>1
  <2>3. QED
    BY <1>1, <1>2, <1>3, <2>1, <2>2
<1>8. QED
  BY <1>5, <1>6, <1>7 DEF RecordFailure

LEMMA ServiceByFailure ==
  ASSUME RInv, NEW t \in Threads, RecordFailure(t)
  PROVE  Service'
<1>0. /\ TypeOK /\ Handles /\ Fresh /\ Goals /\ Failures /\ Stops /\ Announced /\ Serves /\ Served
      /\ "processing" \in Threads /\ "caller" \in Threads /\ \A j \in Inputs : j \in Threads
      /\ "mic" \in Inputs
  BY DEF RInv, IInv, Typed, Service, Threads, Inputs
<1>1. /\ UNCHANGED <<installed, input, proc, caller>>
      /\ ~Free(t) /\ terminalFailure'
      /\ \A u \in Threads : u # t => fault'[u] = fault[u]
      /\ fault'[t] = NoFault \/ (fault'[t].step \in {"request", "fail_first", "fail_second", "publish"}
                                 /\ fault'[t].error # "None")
      /\ \/ snapshot' = snapshot /\ (terminalFailure /\ Publishing => Publishing')
         \/ snapshot'.state = "Failed" /\ snapshot'.error # "None"
      /\ snapshot' = snapshot /\ ~terminalFailure => Publishing'
      /\ queue'["mic"].frames \in {queue["mic"].frames, <<>>}
  BY <1>0, FailureMoves
<1>2. \A u \in Threads : Free(u) => Free(u)'
  BY <1>1 DEF Free
<1>3. Quiet => Quiet'
  BY <1>0, <1>1, <1>2 DEF Quiet, ProcQuiet, InputQuiet
<1>4. caller.pc \notin ResetPcs
  <2>1. ~Free("caller") => caller.pc \notin ResetPcs
    BY <1>0 DEF Failures, ResetPcs
  <2>2. Quiet => t = "caller"
    BY <1>1 DEF Quiet, ProcQuiet, InputQuiet, Threads
  <2>3. QED
    BY <1>0, <1>1, <2>1, <2>2 DEF Fresh
<1>5. Handles'
  BY <1>0, <1>1, <1>3 DEF Handles
<1>6. Fresh'
  BY <1>0, <1>1, <1>2, <1>4 DEF Fresh
<1>7. Goals'
  BY <1>0, <1>1 DEF Goals
<1>8. Failures'
  <2>1. ASSUME NEW u \in Threads
        PROVE  ~Free(u)' => fault'[u].step # "none" /\ fault'[u].error # "None"
    <3>1. CASE u = t
      BY <1>1, <3>1 DEF Free
    <3>2. CASE u # t
      BY <1>0, <1>1, <3>2 DEF Failures, Free
    <3>3. QED
      BY <3>1, <3>2
  <2>2. Publishing' \/ snapshot'.error # "None"
    BY <1>0, <1>1, <1>4 DEF Failures
  <2>3. ~Free("caller")' => ~Free("caller")
    BY <1>0, <1>2
  <2>4. QED
    BY <1>0, <1>1, <2>1, <2>2, <2>3 DEF Failures
<1>9. Stops'
  BY <1>0, <1>1, <1>4 DEF Stops, ResetPcs
<1>10. Announced'
  BY <1>0, <1>1, <1>4 DEF Announced
<1>11. Serves'
  BY <1>1 DEF Serves, Raised
<1>12. Served'
  BY <1>0, <1>1 DEF Served, AllReady
<1>13. QED
  BY <1>5, <1>6, <1>7, <1>8, <1>9, <1>10, <1>11, <1>12 DEF Service

-----------------------------------------------------------------------------
(* A step of the processing worker.                                        *)

ProcFrame ==
  /\ UNCHANGED <<stopRequested, terminalFailure, installed, input, caller>>
  /\ Free("processing") /\ proc.pc \notin {"none", "done"}
  /\ \A t \in Threads : t # "processing" => fault'[t] = fault[t]
  /\ \/ fault' = fault
     \/ \E e \in Errors \ {"None"} : Raise("processing", e) /\ proc'.pc \in {"final", "done"}
  /\ snapshot'.error = snapshot.error
  /\ snapshot'.state = snapshot.state \/ snapshot'.state \in {"Running", "Degraded"}
  /\ \A i \in Inputs : /\ queue'[i].failed = queue[i].failed
                       /\ queue[i].frames = <<>> => queue'[i].frames = <<>>

LoopPcs == {"check", "mic", "mic_reset", "fetch", "examine", "judge", "record", "process",
            "rebuild", "deadline", "write", "refresh"}

ProcTurn ==
  \/ /\ proc.pc \in StartPcs /\ proc'.pc \in StartPcs /\ proc'.ready = proc.ready
     /\ proc'.pc \in {"first_render", "announce"} =>
          proc.pc = "first_render" \/ queue["mic"].frames # <<>>
  \/ /\ proc.pc \in StartPcs /\ proc'.pc = "done"
     /\ proc'.ready \in Errors \ {"None"} \/ (proc.pc = "announce" /\ ~Listening)
  \/ proc.pc = "announce" /\ proc'.pc = "check" /\ proc'.ready = "ok"
  \/ /\ proc.pc \in LoopPcs /\ proc'.pc \in LoopPcs \union {"final"} /\ proc'.ready = proc.ready
     /\ proc'.pc = "final" => \/ stopRequested \/ fault' # fault
                              \/ PopResult(queue["mic"]) \notin {"Frame", "Timeout"}
  \/ proc.pc = "final" /\ proc'.pc = "done" /\ proc'.ready = proc.ready

LEMMA ProcFrames ==
  ASSUME Typed, ProcNext
  PROVE  ProcFrame
<1>0. /\ TypeOK /\ proc \in ProcessingType /\ snapshot \in SnapshotType
      /\ fault \in [Threads -> FaultType] /\ queue \in [Inputs -> QueueType]
      /\ "processing" \in Threads /\ "mic" \in Inputs /\ "render" \in Inputs
  BY DEF Typed, TypeOK, Threads, Inputs
<1>1. /\ UNCHANGED <<stopRequested, terminalFailure, installed, input, caller>>
      /\ Free("processing") /\ proc.pc \notin {"none", "done"}
  BY DEF ProcNext, ProcStart, ProcLoop, ProcOpen, ProcFirstMic, ProcFirstRender, ProcAnnounce,
         ProcCheck, ProcMic, ProcResetByMic, ProcFetch, ProcResetByRender, ProcJudge,
         ProcPaired, ProcUnpaired, ProcProcessed, ProcRejected, ProcRebuild, ProcDeadline,
         ProcWritten, ProcFails, ProcRefreshed, ProcClose, ProcAt
<1>2. \/ fault' = fault
      \/ \E e \in Errors \ {"None"} : Raise("processing", e) /\ proc'.pc \in {"final", "done"}
  <2>1. {"EchoCancellerFailure", "SynchronizationFailure", "SinkFailure"} \subseteq Errors \ {"None"}
    BY DEF Errors
  <2>2. CASE ProcUnpaired
    <3>1. CASE fault' = fault
      BY <3>1
    <3>2. CASE fault' # fault
      <4>1. /\ Raise("processing", "SynchronizationFailure")
            /\ \E m : proc' = [proc EXCEPT !.pc = "final", !.misses = m, !.healthy = 0, !.streak = 0]
        BY <2>2, <3>2 DEF ProcUnpaired
      <4>2. QED
        BY <1>0, <2>1, <4>1 DEF ProcessingType
    <3>3. QED
      BY <3>1, <3>2
  <2>3. CASE ProcRejected
    <3>1. CASE fault' = fault
      BY <3>1
    <3>2. CASE fault' # fault
      <4>1. /\ Raise("processing", "EchoCancellerFailure")
            /\ \E m : proc' = [proc EXCEPT !.pc = "final", !.failures = m, !.healthy = 0, !.streak = 0]
        BY <2>3, <3>2 DEF ProcRejected
      <4>2. QED
        BY <1>0, <2>1, <4>1 DEF ProcessingType
    <3>3. QED
      BY <3>1, <3>2
  <2>4. CASE ProcResetByMic \/ ProcResetByRender \/ ProcRebuild \/ ProcFails
    <3>1. \/ fault' = fault
          \/ \E e \in {"EchoCancellerFailure", "SinkFailure"} :
               Raise("processing", e) /\ GoProc("final")
      BY <2>4 DEF ProcResetByMic, ProcResetByRender, ProcRebuild, ProcFails, Rebuild
    <3>2. GoProc("final") => proc'.pc = "final"
      BY <1>0 DEF GoProc, ProcessingType
    <3>3. QED
      BY <2>1, <3>1, <3>2
  <2>5. CASE ProcClose
    <3>1. proc'.pc = "done"
      BY <2>5 DEF ProcClose, NewProcessing
    <3>2. fault' = fault \/ Raise("processing", "SinkFailure")
      BY <2>5 DEF ProcClose
    <3>3. QED
      BY <2>1, <3>1, <3>2
  <2>6. QED
    BY <2>2, <2>3, <2>4, <2>5 DEF ProcNext, ProcStart, ProcLoop, ProcOpen, ProcFirstMic,
         ProcFirstRender, ProcAnnounce, ProcCheck, ProcMic, ProcFetch, ProcJudge, ProcPaired,
         ProcProcessed, ProcDeadline, ProcWritten, ProcRefreshed
<1>3. \A t \in Threads : t # "processing" => fault'[t] = fault[t]
  BY <1>0, <1>2 DEF Raise
<1>4. /\ snapshot'.error = snapshot.error
      /\ snapshot'.state = snapshot.state \/ snapshot'.state \in {"Running", "Degraded"}
  <2>1. \/ snapshot' = snapshot
        \/ \E r : snapshot' = [snapshot EXCEPT !.state = "Degraded", !.reason = r]
        \/ \E n : snapshot' = [snapshot EXCEPT !.state = "Degraded", !.reason = "reset",
                                               !.alignmentResets = n]
        \/ snapshot' = [snapshot EXCEPT !.state = "Running", !.reason = "none"]
        \/ snapshot' = [snapshot EXCEPT !.accepted = @ + 1]
    BY DEF ProcNext, ProcStart, ProcLoop, ProcOpen, ProcFirstMic, ProcFirstRender, ProcAnnounce,
         ProcCheck, ProcMic, ProcResetByMic, ProcFetch, ProcResetByRender, ProcJudge,
         ProcPaired, ProcUnpaired, ProcProcessed, ProcRejected, ProcRebuild, ProcDeadline,
         ProcWritten, ProcFails, ProcRefreshed, ProcClose, Rebuild, Degrade
  <2>2. QED
    BY <1>0, <2>1 DEF SnapshotType
<1>5. \A i \in Inputs : /\ queue'[i].failed = queue[i].failed
                        /\ queue[i].frames = <<>> => queue'[i].frames = <<>>
  <2>1. \/ queue' = queue
        \/ queue["mic"].frames # <<>> /\ queue' = [queue EXCEPT !["mic"] = Popped(queue["mic"])]
        \/ queue["render"].frames # <<>> /\ queue' = [queue EXCEPT !["render"] = Popped(queue["render"])]
    <3>1. \A i \in Inputs : PopResult(queue[i]) = "Frame" => queue[i].frames # <<>>
      BY <1>0, HasFrame
    <3>2. CASE ProcFirstMic \/ ProcFirstRender \/ ProcMic
      BY <1>0, <3>1, <3>2 DEF ProcFirstMic, ProcFirstRender, ProcMic
    <3>3. CASE ProcFetch
      <4> DEFINE q == queue["render"]
                 taken == IF proc.exhausted \/ PopResult(q) = "Frame" THEN Oldest(q) ELSE NoFrame
      <4>1. queue' = [queue EXCEPT !["render"] =
                        IF ~(proc.render # NoFrame) /\ taken # NoFrame THEN Popped(@) ELSE @]
        BY <3>3 DEF ProcFetch
      <4>2. taken # NoFrame => q.frames # <<>>
        BY DEF Oldest
      <4> HIDE DEF taken
      <4>3. QED
        BY <1>0, <4>1, <4>2
    <3>4. CASE ProcJudge
      BY <1>0, <3>4 DEF ProcJudge, TryPopped
    <3>5. QED
      BY <3>2, <3>3, <3>4 DEF ProcNext, ProcStart, ProcLoop, ProcOpen, ProcAnnounce,
         ProcCheck, ProcResetByMic, ProcResetByRender, ProcPaired, ProcUnpaired, ProcProcessed,
         ProcRejected, ProcRebuild, ProcDeadline, ProcWritten, ProcFails, ProcRefreshed, ProcClose
  <2>2. \A i \in Inputs : queue[i].frames # <<>> => Popped(queue[i]).failed = queue[i].failed
    BY <1>0, PoppedQueue
  <2>3. QED
    BY <1>0, <2>1, <2>2
<1>6. QED
  BY <1>1, <1>2, <1>3, <1>4, <1>5 DEF ProcFrame

LEMMA ProcTurns ==
  ASSUME Typed, ProcNext
  PROVE  ProcTurn
<1>0. /\ TypeOK /\ proc \in ProcessingType /\ fault \in [Threads -> FaultType]
      /\ "processing" \in Threads /\ "mic" \in Inputs /\ snapshot \in SnapshotType
      /\ fault["processing"] \in FaultType
  BY DEF Typed, TypeOK, Threads, Inputs
<1>1. ASSUME NEW pc, GoProc(pc)
      PROVE  proc'.pc = pc /\ proc'.ready = proc.ready
  BY <1>0, <1>1 DEF GoProc, ProcessingType
<1>2. ASSUME NEW e, EndUnready(e)
      PROVE  proc'.pc = "done" /\ proc'.ready = e
  BY <1>2 DEF EndUnready, NewProcessing
<1>3. ASSUME NEW e, Raise("processing", e), Free("processing")
      PROVE  fault' # fault
  <2>1. fault'["processing"] = [step |-> "exchange", error |-> e]
    BY <1>0, <1>3 DEF Raise
  <2>2. fault["processing"].step = "none" /\ fault'["processing"].step = "exchange"
    BY <1>3, <2>1 DEF Free, NoFault
  <2>3. QED
    BY <2>2
<1>4. CASE ProcOpen
  <2>1. proc.pc = "open"
        /\ (GoProc("first_mic") \/ \E e \in {"SinkFailure", "EchoCancellerFailure"} : EndUnready(e))
    BY <1>4 DEF ProcOpen, ProcAt
  <2>2. QED
    BY <1>1, <1>2, <2>1 DEF ProcTurn, StartPcs, Errors
<1>5. CASE ProcFirstMic
  <2>1. CASE PopResult(queue["mic"]) = "Frame"
    <3> DEFINE f == Head(queue["mic"].frames)
    <3>1. proc' = [proc EXCEPT !.pc = "first_render", !.mic = f] /\ proc.pc = "first_mic"
      BY <1>5, <2>1 DEF ProcFirstMic, ProcAt
    <3> HIDE DEF f
    <3>2. queue["mic"].frames # <<>>
      BY <1>0, <2>1, HasFrame DEF TypeOK
    <3>3. QED
      BY <1>0, <3>1, <3>2 DEF ProcTurn, StartPcs, ProcessingType
  <2>2. CASE PopResult(queue["mic"]) # "Frame"
    <3>1. EndUnready("SynchronizationFailure") /\ proc.pc = "first_mic"
      BY <1>5, <2>2 DEF ProcFirstMic, ProcAt
    <3>2. QED
      BY <1>2, <3>1 DEF ProcTurn, StartPcs, Errors
  <2>3. QED
    BY <2>1, <2>2
<1>6. CASE ProcFirstRender
  <2>1. proc.pc = "first_render"
    BY <1>6 DEF ProcFirstRender, ProcAt
  <2>2. CASE proc'.pc = "announce" /\ proc'.ready = proc.ready
    BY <2>1, <2>2 DEF ProcTurn, StartPcs
  <2>3. ASSUME NEW e \in Errors \ {"None"}, EndUnready(e)
        PROVE  ProcTurn
    BY <1>2, <2>1, <2>3 DEF ProcTurn, StartPcs
  <2>4. CASE PopResult(queue["render"]) = "Frame"
    <3> DEFINE f == Head(queue["render"].frames)
    <3>1. proc' = [proc EXCEPT !.pc = "announce", !.render = f]
      BY <1>6, <2>4 DEF ProcFirstRender
    <3> HIDE DEF f
    <3>2. QED
      BY <1>0, <2>2, <3>1 DEF ProcessingType
  <2>5. CASE PopResult(queue["render"]) # "Frame"
    <3>1. \/ EndUnready(IF snapshot.error = "None" THEN "RenderFailure" ELSE snapshot.error)
          \/ proc' = [proc EXCEPT !.pc = "announce", !.exhausted = TRUE]
      BY <1>6, <2>5 DEF ProcFirstRender
    <3>2. (IF snapshot.error = "None" THEN "RenderFailure" ELSE snapshot.error) \in Errors \ {"None"}
      BY <1>0 DEF Errors, SnapshotType
    <3>3. QED
      BY <1>0, <2>2, <2>3, <3>1, <3>2 DEF ProcessingType
  <2>6. QED
    BY <2>4, <2>5
<1>7. CASE ProcAnnounce
  <2>1. CASE Listening
    BY <1>0, <1>7, <2>1 DEF ProcAnnounce, ProcAt, ProcTurn, ProcessingType
  <2>2. CASE ~Listening
    BY <1>2, <1>7, <2>2 DEF ProcAnnounce, ProcAt, ProcTurn, StartPcs
  <2>3. QED
    BY <2>1, <2>2
<1>8. CASE ProcCheck
  BY <1>1, <1>8 DEF ProcCheck, ProcAt, ProcTurn, LoopPcs
<1>9. CASE ProcMic
  <2>1. CASE proc.mic = NoFrame /\ PopResult(queue["mic"]) = "Frame"
    <3> DEFINE f == Head(queue["mic"].frames)
    <3>1. proc' = [proc EXCEPT !.pc = AfterMic(f), !.mic = f] /\ proc.pc = "mic"
      BY <1>9, <2>1 DEF ProcMic, ProcAt
    <3>2. AfterMic(f) \in {"mic_reset", "fetch"}
      BY DEF AfterMic
    <3> HIDE DEF f
    <3>3. QED
      BY <1>0, <3>1, <3>2 DEF ProcTurn, LoopPcs, ProcessingType
  <2>2. CASE ~(proc.mic = NoFrame /\ PopResult(queue["mic"]) = "Frame")
    <3>1. /\ proc.pc = "mic"
          /\ \/ \E pc \in {"mic_reset", "fetch", "check"} : GoProc(pc)
             \/ GoProc("final") /\ PopResult(queue["mic"]) \notin {"Frame", "Timeout"}
      BY <1>9, <2>2 DEF ProcMic, ProcAt, AfterMic
    <3>2. QED
      BY <1>1, <3>1 DEF ProcTurn, LoopPcs
  <2>3. QED
    BY <2>1, <2>2
<1>10. CASE ProcResetByMic \/ ProcResetByRender \/ ProcRebuild
  <2>1. /\ proc.pc \in {"mic_reset", "examine", "rebuild"} /\ Free("processing")
        /\ \/ \E pc \in {"fetch", "judge", "deadline"} : GoProc(pc)
           \/ GoProc("final") /\ Raise("processing", "EchoCancellerFailure")
    BY <1>10 DEF ProcResetByMic, ProcResetByRender, ProcRebuild, Rebuild, ProcAt
  <2>2. QED
    BY <1>1, <1>3, <2>1 DEF ProcTurn, LoopPcs
<1>11. CASE ProcFetch
  <2>1. /\ proc.pc = "fetch"
        /\ \E f, x : proc' = [proc EXCEPT !.pc = "examine", !.render = f, !.exhausted = x]
    BY <1>11 DEF ProcFetch, ProcAt
  <2>2. QED
    BY <1>0, <2>1 DEF ProcTurn, LoopPcs, ProcessingType
<1>12. CASE ProcJudge
  <2> DEFINE oldest == Oldest(queue["render"])
  <2>1. /\ proc.pc \in {"examine", "judge"}
        /\ \/ proc' = [proc EXCEPT !.pc = "examine", !.render = oldest]
           \/ proc' = [proc EXCEPT !.pc = "record", !.match = proc.render, !.render = oldest,
                                   !.exhausted = FALSE]
           \/ proc' = [proc EXCEPT !.pc = "record", !.match = NoFrame]
    BY <1>12 DEF ProcJudge, ProcAt
  <2> HIDE DEF oldest
  <2>2. proc'.pc \in {"examine", "record"} /\ proc'.ready = proc.ready
    BY <1>0, <2>1 DEF ProcessingType
  <2>3. QED
    BY <2>1, <2>2 DEF ProcTurn, LoopPcs
<1>13. CASE ProcPaired
  BY <1>0, <1>13 DEF ProcPaired, ProcAt, ProcTurn, LoopPcs, ProcessingType
<1>14. CASE ProcUnpaired
  <2>1. /\ proc.pc = "record" /\ Free("processing")
        /\ \E pc, m : /\ proc' = [proc EXCEPT !.pc = pc, !.misses = m, !.healthy = 0, !.streak = 0]
                      /\ \/ pc = "process"
                         \/ pc = "final" /\ Raise("processing", "SynchronizationFailure")
    BY <1>14 DEF ProcUnpaired, ProcAt
  <2>2. QED
    BY <1>0, <1>3, <2>1 DEF ProcTurn, LoopPcs, ProcessingType
<1>15. CASE ProcProcessed
  <2>1. /\ proc.pc = "process"
        /\ \E s : proc' = [proc EXCEPT !.pc = "deadline", !.failures = 0, !.streak = s]
    BY <1>15 DEF ProcProcessed, ProcAt
  <2>2. QED
    BY <1>0, <2>1 DEF ProcTurn, LoopPcs, ProcessingType
<1>16. CASE ProcRejected
  <2>1. /\ proc.pc = "process" /\ Free("processing")
        /\ \E pc, m : /\ proc' = [proc EXCEPT !.pc = pc, !.failures = m, !.healthy = 0, !.streak = 0]
                      /\ \/ pc = "rebuild"
                         \/ pc = "final" /\ Raise("processing", "EchoCancellerFailure")
    BY <1>16 DEF ProcRejected, ProcAt
  <2>2. QED
    BY <1>0, <1>3, <2>1 DEF ProcTurn, LoopPcs, ProcessingType
<1>17. CASE ProcDeadline \/ ProcRefreshed
  BY <1>1, <1>17 DEF ProcDeadline, ProcRefreshed, ProcAt, ProcTurn, LoopPcs
<1>18. CASE ProcWritten
  <2>1. /\ proc.pc = "write"
        /\ \E pc \in {"refresh", "check"} :
             proc' = [proc EXCEPT !.pc = pc, !.sequence = proc.sequence + 1, !.mic = NoFrame,
                                  !.match = NoFrame]
    BY <1>18 DEF ProcWritten, ProcAt
  <2>2. QED
    BY <1>0, <2>1 DEF ProcTurn, LoopPcs, ProcessingType
<1>19. CASE ProcFails
  <2>1. /\ proc.pc \in {"write", "refresh"} /\ Free("processing")
        /\ GoProc("final") /\ Raise("processing", "SinkFailure")
    BY <1>19 DEF ProcFails, ProcAt
  <2>2. QED
    BY <1>1, <1>3, <2>1 DEF ProcTurn, LoopPcs
<1>20. CASE ProcClose
  BY <1>20 DEF ProcClose, ProcAt, ProcTurn, NewProcessing
<1>21. QED
  BY <1>4, <1>5, <1>6, <1>7, <1>8, <1>9, <1>10, <1>11, <1>12, <1>13, <1>14, <1>15, <1>16, <1>17,
     <1>18, <1>19, <1>20 DEF ProcNext, ProcStart, ProcLoop

LEMMA ServiceByWorker ==
  ASSUME RInv, ProcNext
  PROVE  Service'
<1>0. /\ Typed /\ DoneMic /\ Handles /\ Fresh /\ Goals /\ Failures /\ Stops /\ Announced /\ Serves
      /\ Served /\ "processing" \in Threads /\ "caller" \in Threads /\ "mic" \in Inputs
      /\ \A i \in Inputs : i \in Threads /\ i # "processing"
  BY DEF RInv, IInv, Service, Threads, Inputs
<1>1. /\ UNCHANGED <<stopRequested, terminalFailure, installed, input, caller>>
      /\ Free("processing") /\ proc.pc \notin {"none", "done"}
      /\ \A t \in Threads : t # "processing" => fault'[t] = fault[t]
      /\ snapshot'.error = snapshot.error
      /\ snapshot'.state = snapshot.state \/ snapshot'.state \in {"Running", "Degraded"}
      /\ queue'["mic"].failed = queue["mic"].failed
      /\ queue["mic"].frames = <<>> => queue'["mic"].frames = <<>>
      /\ proc'.pc # "none"
  BY <1>0, ProcFrames, ProcTurns DEF ProcFrame, ProcTurn, StartPcs, LoopPcs
<1>2. /\ Free("caller")' <=> Free("caller")
      /\ \A i \in Inputs : Free(i)' <=> Free(i)
      /\ ~Quiet
  BY <1>0, <1>1 DEF Free, Quiet, ProcQuiet
<1>3. Listening \/ proc.pc # "announce"
  BY <1>0 DEF Fresh, StartPcs, Listening
<1>4. caller.pc \notin ResetPcs \union SpawnPcs
  BY <1>0, <1>1 DEF Typed, Launching, NewProcessing, ResetPcs, SpawnPcs
<1>5. snapshot.state # "Stopped" /\ snapshot'.state # "Stopped"
  BY <1>0, <1>1, <1>2 DEF Handles
<1>6. Handles'
  BY <1>0, <1>1, <1>2, <1>5 DEF Handles
<1>7. proc'.pc \in StartPcs => proc.pc \in StartPcs
  BY <1>0, ProcTurns DEF ProcTurn, StartPcs, LoopPcs
<1>8. Fresh'
  BY <1>0, <1>1, <1>2, <1>4, <1>7 DEF Fresh
<1>9. Goals'
  BY <1>0, <1>1, <1>4, <1>5 DEF Goals
<1>10. Failures'
  <2>1. snapshot'.state = "Failed" => snapshot.state = "Failed"
    BY <1>1
  <2>2. PICK e : e # "None" /\ (fault'["processing"] = NoFault
                                \/ fault'["processing"] = [step |-> "exchange", error |-> e])
    <3>1. CASE fault' = fault
      BY <1>1, <3>1 DEF Free
    <3>2. ASSUME NEW e \in Errors \ {"None"}, Raise("processing", e)
          PROVE  e # "None" /\ fault'["processing"] = [step |-> "exchange", error |-> e]
      BY <1>0, <3>2 DEF Raise, Typed, TypeOK
    <3>3. QED
      BY <1>0, <3>1, <3>2, ProcFrames DEF ProcFrame
  <2>3. QED
    BY <1>0, <1>1, <2>1, <2>2, FailuresRaised
<1>11. Stops'
  BY <1>0, <1>1, <1>5 DEF Stops
<1>12. /\ proc'.ready # "None"
       /\ proc'.pc \in {"none"} \union StartPcs => proc'.ready = "pending"
       /\ input["mic"].ready # "ok" =>
            proc'.ready # "ok" /\ proc'.pc \notin {"first_render", "announce"}
       /\ proc.ready = "ok" => proc'.ready = "ok"
  BY <1>0, <1>1, <1>3, ProcTurns DEF Announced, ProcTurn, StartPcs, LoopPcs, Errors
<1>13. Announced'
  BY <1>0, <1>1, <1>12 DEF Announced
<1>14. proc'.ready = "ok" /\ ~Raised => (Iterating \/ Between \/ ~Free("processing"))'
  <2> SUFFICES ASSUME proc'.ready = "ok", ~Raised
               PROVE  (Iterating \/ Between \/ ~Free("processing"))'
    OBVIOUS
  <2>1. ASSUME proc'.pc \in LoopPcs
        PROVE  (Iterating \/ Between)'
    BY <2>1 DEF LoopPcs, Iterating, Between
  <2>2. CASE proc.pc \in StartPcs
    BY <1>0, <1>3, <2>1, <2>2, ProcTurns DEF ProcTurn, StartPcs, LoopPcs, Announced, Errors
  <2>3. CASE proc.pc \in LoopPcs /\ proc'.pc = "final"
    <3>1. proc.ready = "ok"
      BY <1>0, <2>3, ProcTurns DEF ProcTurn, StartPcs, LoopPcs
    <3>2. input["mic"].ready = "ok" /\ ~queue["mic"].failed
      BY <1>0, <3>1 DEF Announced, Raised
    <3>3. input["mic"].pc # "done"
      BY <1>0, <3>2 DEF Serves, Fresh
    <3>4. PopResult(queue["mic"]) \in {"Frame", "Timeout"}
      BY <1>0, <3>2, <3>3 DEF PopResult, DoneMic
    <3>5. fault' # fault
      BY <1>0, <2>3, <3>4, ProcTurns DEF ProcTurn, StartPcs, LoopPcs, Raised
    <3>6. PICK e : Raise("processing", e)
      BY <1>0, <3>5, ProcFrames DEF ProcFrame
    <3>7. fault'["processing"] = [step |-> "exchange", error |-> e]
      BY <1>0, <3>6 DEF Raise, Typed, TypeOK
    <3>8. fault'["processing"].step # NoFault.step
      BY <3>7 DEF NoFault
    <3>9. QED
      BY <3>8 DEF Free
  <2>4. CASE proc.pc = "final"
    <3>1. proc.ready = "ok"
      BY <1>0, <2>4, ProcTurns DEF ProcTurn, StartPcs, LoopPcs
    <3>2. QED
      BY <1>0, <1>1, <2>4, <3>1 DEF Serves, Iterating, Between
  <2>5. QED
    BY <1>0, <2>1, <2>2, <2>3, <2>4, ProcTurns DEF ProcTurn, LoopPcs, StartPcs
<1>15. Serves'
  <2>1. Raised' <=> Raised
    BY <1>1 DEF Raised
  <2>2. QED
    BY <1>0, <1>1, <1>2, <1>14, <2>1 DEF Serves
<1>16. Served'
  <2>1. caller.pc = "idle" /\ snapshot.error = "None" => AllReady /\ installed
                                                      /\ (stopRequested => terminalFailure)
    BY <1>0, <1>1, <1>5 DEF Served
  <2>2. QED
    BY <1>1, <1>12, <2>1 DEF Served, AllReady
<1>17. QED
  BY <1>6, <1>8, <1>9, <1>10, <1>11, <1>13, <1>15, <1>16 DEF Service

-----------------------------------------------------------------------------
(* A step of the command.                                                  *)

LEMMA SameWorkers ==
  ASSUME UNCHANGED <<input, proc, fault>>
  PROVE  /\ Quiet' <=> Quiet
         /\ Publishing' <=> Publishing
         /\ Iterating' <=> Iterating
         /\ Between' <=> Between
         /\ AllReady' <=> AllReady
         /\ \A t \in Threads : Free(t)' <=> Free(t)
BY DEF Quiet, ProcQuiet, InputQuiet, Free, Publishing, Iterating, Between, AllReady

LEMMA CommandFacts ==
  ASSUME RInv
  PROVE  /\ Typed /\ Handles /\ Fresh /\ Goals /\ Failures /\ Stops /\ Announced /\ Serves /\ Served
         /\ caller \in CallerType /\ snapshot \in SnapshotType
         /\ "processing" \in Threads /\ "caller" \in Threads /\ "mic" \in Inputs
         /\ "render" \in Inputs /\ \A i \in Inputs : i \in Threads
BY DEF RInv, IInv, Service, Threads, Inputs, Typed, TypeOK

LEMMA ServiceByBegin ==
  ASSUME RInv, BeginStart \/ BeginStop \/ SetStopping
  PROVE  Service'
<1> USE DEF ResetPcs, SpawnPcs, WaitPcs, ClearingPcs
<1>0. /\ Typed /\ Handles /\ Fresh /\ Goals /\ Failures /\ Stops /\ Announced /\ Serves /\ Served
      /\ caller \in CallerType /\ snapshot \in SnapshotType
      /\ "processing" \in Threads /\ "caller" \in Threads /\ "mic" \in Inputs
      /\ "render" \in Inputs /\ \A i \in Inputs : i \in Threads
  BY CommandFacts
<1>1. /\ UNCHANGED <<stopRequested, terminalFailure, installed, queue, input, proc, fault>>
      /\ snapshot'.error = snapshot.error /\ Free("caller")
      /\ \/ /\ caller.pc = "idle" /\ snapshot'.state = snapshot.state
            /\ snapshot.state \in {"Stopped", "Failed"} /\ caller'.goal = "start"
            /\ caller'.pc = IF snapshot.state = "Failed" THEN "request_stop" ELSE "resolve"
         \/ /\ caller.pc = "idle" /\ snapshot'.state = snapshot.state
            /\ ~(snapshot.state = "Stopped" /\ ~installed) /\ caller'.goal = "stop"
            /\ caller'.pc \in {"request_stop", "set_stopping"}
         \/ /\ caller.pc = "set_stopping" /\ snapshot'.state = "Stopping"
            /\ caller'.goal = "stop" /\ caller'.pc = "request_stop"
  <2>1. CASE BeginStart
    BY <2>1 DEF BeginStart, CallerAt
  <2>2. CASE BeginStop
    BY <2>2 DEF BeginStop, CallerAt
  <2>3. CASE SetStopping
    BY <1>0, <2>3 DEF SetStopping, CallerAt, Go, Goals, CallerType, SnapshotType
  <2>4. QED
    BY <2>1, <2>2, <2>3
<1>2. /\ (Quiet' <=> Quiet) /\ (Publishing' <=> Publishing) /\ (Iterating' <=> Iterating)
      /\ (Between' <=> Between) /\ (AllReady' <=> AllReady)
      /\ \A t \in Threads : Free(t)' <=> Free(t)
  BY <1>1, SameWorkers
<1>3. proc.pc \in StartPcs => caller.pc # "idle" /\ caller.goal # "stop"
  BY <1>0 DEF Fresh
<1>4. caller.pc = "set_stopping" => caller.goal = "stop"
  BY <1>0 DEF Goals
<1>5. Handles'
  BY <1>0, <1>1, <1>2, <1>4 DEF Handles, Goals, IdleCaller
<1>6. Fresh'
  BY <1>0, <1>1, <1>2, <1>3, <1>4 DEF Fresh
<1>7. Goals'
  BY <1>0, <1>1 DEF Goals, Failures
<1>8. Failures'
  BY <1>0, <1>1, <1>2 DEF Failures, Goals, IdleCaller
<1>9. Stops'
  BY <1>0, <1>1, <1>2, <1>4 DEF Stops, Goals, IdleCaller, Handles
<1>10. Announced'
  BY <1>0, <1>1 DEF Announced
<1>11. Serves' /\ Served'
  BY <1>0, <1>1, <1>2 DEF Serves, Raised, Served
<1>12. QED
  BY <1>5, <1>6, <1>7, <1>8, <1>9, <1>10, <1>11 DEF Service

LEMMA ServiceByCleaning ==
  ASSUME RInv, RequestStop \/ TakeRun \/ JoinRun \/ SetStopped
  PROVE  Service'
<1> USE DEF ResetPcs, SpawnPcs, WaitPcs, ClearingPcs
<1>0. /\ Typed /\ Handles /\ Fresh /\ Goals /\ Failures /\ Stops /\ Announced /\ Serves /\ Served
      /\ caller \in CallerType /\ snapshot \in SnapshotType
      /\ "processing" \in Threads /\ "caller" \in Threads /\ "mic" \in Inputs
      /\ "render" \in Inputs /\ \A i \in Inputs : i \in Threads
  BY CommandFacts
<1> DEFINE Cleaned == \/ caller.goal = "start" /\ caller'.pc = "resolve" /\ caller'.goal = "start"
                      \/ caller.goal = "stop" /\ caller'.pc = "set_stopped" /\ caller'.goal = "stop"
                      \/ caller.goal = "abort" /\ caller' = IdleCaller
<1>1. ASSUME AfterCleanup, caller.goal # "none"
      PROVE  Cleaned
  BY <1>0, <1>1 DEF AfterCleanup, Go, Return, CallerType
<1>2. /\ UNCHANGED <<terminalFailure, input, proc, fault>>
      /\ snapshot'.error = snapshot.error /\ Free("caller")
      /\ \A i \in Inputs : /\ queue'[i].frames = <<>> \/ queue'[i] = queue[i]
                           /\ queue'[i].failed = queue[i].failed
      /\ \/ /\ caller.pc = "request_stop" /\ stopRequested' /\ installed' = installed
            /\ snapshot' = snapshot /\ caller'.pc = "take" /\ caller'.goal = caller.goal
         \/ /\ caller.pc = "take" /\ stopRequested' = stopRequested /\ ~installed'
            /\ snapshot' = snapshot /\ installed
            /\ caller'.pc = "join" /\ caller'.goal = caller.goal
         \/ /\ caller.pc = "take" /\ stopRequested' = stopRequested /\ ~installed'
            /\ snapshot' = snapshot /\ ~installed /\ Cleaned
         \/ /\ caller.pc = "join" /\ stopRequested' = stopRequested /\ installed' = installed
            /\ snapshot' = snapshot /\ Quiet /\ Cleaned
         \/ /\ caller.pc = "set_stopped" /\ stopRequested' = stopRequested
            /\ installed' = installed /\ snapshot'.state = "Stopped" /\ caller' = IdleCaller
  <2>1. CASE RequestStop
    BY <1>0, <2>1 DEF RequestStop, CallerAt, Go, CallerType
  <2>2. CASE TakeRun
    <3>1. caller.goal # "none" /\ Free("caller") /\ caller.pc = "take"
      BY <1>0, <2>2 DEF Typed, Launching, TakeRun, CallerAt
    <3>2. CASE installed
      BY <1>0, <2>2, <3>1, <3>2 DEF TakeRun, Go, CallerType
    <3>3. CASE ~installed
      BY <1>1, <2>2, <3>1, <3>3 DEF TakeRun
    <3>4. QED
      BY <3>2, <3>3
  <2>3. CASE JoinRun
    <3>1. caller.goal # "none" /\ Free("caller") /\ caller.pc = "join"
      BY <1>0, <2>3 DEF Typed, Launching, JoinRun, CallerAt
    <3>2. Quiet
      BY <2>3 DEF JoinRun, WorkersEnded, ProcEnded, InputEnded, Quiet, ProcQuiet, InputQuiet
    <3>3. \A i \in Inputs : queue'[i].frames = <<>> /\ queue'[i].failed = queue[i].failed
      BY <1>0, <2>3, ControlType DEF JoinRun, Typed, TypeOK
    <3>4. QED
      BY <1>1, <2>3, <3>1, <3>2, <3>3 DEF JoinRun
  <2>4. CASE SetStopped
    BY <1>0, <2>4 DEF SetStopped, CallerAt, Return, SnapshotType
  <2>5. QED
    BY <2>1, <2>2, <2>3, <2>4
<1>3. /\ (Quiet' <=> Quiet) /\ (Publishing' <=> Publishing) /\ (Iterating' <=> Iterating)
      /\ (Between' <=> Between) /\ (AllReady' <=> AllReady)
      /\ \A t \in Threads : Free(t)' <=> Free(t)
  BY <1>2, SameWorkers
<1>4. /\ IdleCaller.pc = "idle" /\ IdleCaller.goal = "none"
      /\ caller.pc # "idle" => caller.goal \in {"start", "stop", "abort"}
      /\ caller.pc = "set_stopped" => caller.goal = "stop" /\ ~installed
      /\ caller.pc = "join" => ~installed
      /\ caller.goal = "abort" => caller.pc \in ClearingPcs /\ (caller.pc = "join" \/ installed)
  BY <1>0 DEF IdleCaller, Goals, CallerType, Handles, Typed, Launching
<1>5. Quiet => proc.pc \notin StartPcs
  BY DEF Quiet, ProcQuiet, StartPcs
<1>6. caller.goal = "abort" /\ caller.pc = "join" /\ Quiet => snapshot.error # "None"
  <2> SUFFICES ASSUME caller.goal = "abort", caller.pc = "join", Quiet
               PROVE  ~Publishing
    BY <1>0, <1>2 DEF Failures
  <2>1. \A t \in Threads : Free(t)
    BY <1>2 DEF Quiet, ProcQuiet, InputQuiet, Threads
  <2>2. QED
    BY <2>1 DEF Publishing, Free, NoFault
<1>7. Handles'
  BY <1>0, <1>2, <1>3, <1>4 DEF Handles
<1>8. Fresh'
  BY <1>0, <1>2, <1>3, <1>4, <1>5 DEF Fresh, Handles, StartPcs
<1>9. Goals'
  BY <1>0, <1>2, <1>4 DEF Goals
<1>10. Failures'
  BY <1>0, <1>2, <1>3, <1>4 DEF Failures
<1>11. Stops'
  BY <1>0, <1>2, <1>3, <1>4, <1>6 DEF Stops, Goals, Failures, Handles
<1>12. Announced'
  BY <1>0, <1>2, <1>4 DEF Announced
<1>13. Serves'
  BY <1>0, <1>2, <1>3 DEF Serves, Raised
<1>14. Served'
  BY <1>0, <1>2, <1>3, <1>4, <1>6 DEF Served, Goals
<1>15. QED
  BY <1>7, <1>8, <1>9, <1>10, <1>11, <1>12, <1>13, <1>14 DEF Service

LEMMA ServiceByLaunch ==
  ASSUME RInv, Resolve
  PROVE  Service'
<1> USE DEF ResetPcs, SpawnPcs, WaitPcs, ClearingPcs
<1>0. /\ Typed /\ Handles /\ Fresh /\ Goals /\ Failures /\ Stops /\ Announced /\ Serves /\ Served
      /\ caller \in CallerType /\ snapshot \in SnapshotType
      /\ "processing" \in Threads /\ "caller" \in Threads /\ "mic" \in Inputs
      /\ "render" \in Inputs /\ \A i \in Inputs : i \in Threads
  BY CommandFacts
<1>1. /\ UNCHANGED <<stopRequested, terminalFailure, installed, fault>>
      /\ Free("caller") /\ caller.pc = "resolve" /\ caller.goal = "start" /\ ~installed
      /\ IdleCaller.pc = "idle" /\ IdleCaller.goal = "none"
  BY <1>0 DEF Resolve, CallerAt, Goals, Handles, IdleCaller
<1>2. CASE Return /\ UNCHANGED <<snapshot, queue, input, proc, echo>>
  <2>1. /\ (Quiet' <=> Quiet) /\ (Publishing' <=> Publishing) /\ (Iterating' <=> Iterating)
        /\ (Between' <=> Between) /\ (AllReady' <=> AllReady)
        /\ \A t \in Threads : Free(t)' <=> Free(t)
    BY <1>1, <1>2, SameWorkers
  <2>2. /\ UNCHANGED <<snapshot, queue, input, proc>> /\ caller' = IdleCaller
        /\ proc.pc \notin StartPcs
    BY <1>0, <1>1, <1>2 DEF Return, Fresh
  <2>3. Handles' /\ Fresh' /\ Goals'
    BY <1>0, <1>1, <2>1, <2>2 DEF Handles, Fresh, Goals
  <2>4. Failures' /\ Stops'
    BY <1>0, <1>1, <2>1, <2>2 DEF Failures, Stops
  <2>5. Announced' /\ Serves' /\ Served'
    BY <1>0, <1>1, <2>1, <2>2 DEF Announced, Serves, Raised, Served, Goals
  <2>6. QED
    BY <2>3, <2>4, <2>5 DEF Service
<1>3. CASE ~(Return /\ UNCHANGED <<snapshot, queue, input, proc, echo>>)
  <2>1. /\ snapshot'.state = "Starting" /\ snapshot'.error = "None" /\ NoWorkerLeft
        /\ queue' = [i \in Inputs |-> NewQueue] /\ input' = [i \in Inputs |-> NewInput]
        /\ proc' = NewProcessing /\ caller'.pc = "reset_stop" /\ caller'.goal = "start"
    BY <1>0, <1>1, <1>3 DEF Resolve, Go, NoSnapshot, CallerType
  <2>2. /\ NewProcessing.pc = "none" /\ NewProcessing.ready = "pending"
        /\ NewInput.pc = "none" /\ NewInput.ready = "pending"
        /\ NewQueue.frames = <<>> /\ ~NewQueue.failed
    BY DEF NewProcessing, NewInput, NewQueue
  <2>3. \A t \in Threads : Free(t)' /\ Free(t)
    BY <1>0, <1>1, <2>1 DEF NoWorkerLeft, ProcEnded, InputEnded, Fresh, Threads, Free
  <2>4. Quiet' /\ proc'.pc = "none" /\ \A i \in Inputs : input'[i].pc = "none"
    BY <1>0, <2>1, <2>2, <2>3 DEF Quiet, ProcQuiet, InputQuiet
  <2>5. Handles' /\ Fresh' /\ Goals'
    BY <1>0, <1>1, <2>1, <2>3, <2>4 DEF Handles, Fresh, Goals, StartPcs
  <2>6. Failures' /\ Stops'
    BY <1>0, <1>1, <2>1, <2>3 DEF Failures, Stops, Free, NoFault
  <2>7. Announced'
    BY <1>0, <2>1, <2>2, <2>4 DEF Announced, StartPcs
  <2>8. Serves' /\ Served'
    BY <1>0, <2>1, <2>2 DEF Serves, Served
  <2>9. QED
    BY <2>5, <2>6, <2>7, <2>8 DEF Service
<1>4. QED
  BY <1>2, <1>3

\* The flags of the run before are put back, and the workers are spawned.
LEMMA ServiceByReset ==
  ASSUME RInv, ResetStop \/ ResetFailure \/ InstallRun \/ SpawnFails
  PROVE  Service'
<1> USE DEF ResetPcs, SpawnPcs, WaitPcs, ClearingPcs
<1>0. /\ Typed /\ Handles /\ Fresh /\ Goals /\ Failures /\ Stops /\ Announced /\ Serves /\ Served
      /\ caller \in CallerType /\ snapshot \in SnapshotType
      /\ "processing" \in Threads /\ "caller" \in Threads /\ "mic" \in Inputs
      /\ "render" \in Inputs /\ \A i \in Inputs : i \in Threads
  BY CommandFacts
<1>1. /\ UNCHANGED <<snapshot, queue, input, proc, fault>> /\ Free("caller")
      /\ caller.goal = "start" /\ IdleCaller.pc = "idle" /\ IdleCaller.goal = "none"
      /\ \/ /\ caller.pc = "reset_stop" /\ ~stopRequested'
            /\ UNCHANGED <<terminalFailure, installed>>
            /\ caller'.pc = "reset_failure" /\ caller'.goal = "start"
         \/ /\ caller.pc = "reset_failure" /\ ~terminalFailure'
            /\ UNCHANGED <<stopRequested, installed>>
            /\ caller'.pc = "spawn_mic" /\ caller'.goal = "start"
         \/ /\ caller.pc = "install" /\ installed'
            /\ UNCHANGED <<stopRequested, terminalFailure>>
            /\ caller'.pc = "wait_mic" /\ caller'.goal = "start"
         \/ /\ caller.pc \in SpawnPcs /\ caller' = IdleCaller
            /\ UNCHANGED <<stopRequested, terminalFailure, installed>>
  BY <1>0 DEF ResetStop, ResetFailure, InstallRun, SpawnFails, CallerAt, Go, Return, CallerType,
              Goals, IdleCaller
<1>2. /\ (Quiet' <=> Quiet) /\ (Publishing' <=> Publishing) /\ (Iterating' <=> Iterating)
      /\ (Between' <=> Between) /\ (AllReady' <=> AllReady)
      /\ \A t \in Threads : Free(t)' <=> Free(t)
  BY <1>1, SameWorkers
<1>3. caller.pc \in ResetPcs =>
        /\ snapshot.error = "None" /\ snapshot.state = "Starting" /\ proc.pc = "none"
        /\ \A t \in Threads : Free(t)
  BY <1>0, <1>1 DEF Fresh, Quiet, ProcQuiet, InputQuiet, Threads, Typed, Launching, NewProcessing
<1>4. caller.pc \in SpawnPcs => proc.pc = "none" /\ ~installed
  BY <1>0 DEF Typed, Launching, NewProcessing, Handles
<1>5. Handles'
  BY <1>0, <1>1, <1>2, <1>3, <1>4 DEF Handles
<1>6. Fresh'
  BY <1>0, <1>1, <1>2, <1>3, <1>4 DEF Fresh, StartPcs
<1>7. Goals'
  BY <1>0, <1>1, <1>3 DEF Goals
<1>8. Failures'
  <2>1. CASE caller.pc = "reset_failure"
    <3>1. \A t \in Threads : Free(t)' /\ fault'[t].step = "none"
      BY <1>2, <1>1, <1>3, <2>1 DEF Free, NoFault
    <3>2. QED
      BY <1>0, <1>1, <1>3, <2>1, <3>1 DEF Failures
  <2>2. CASE caller.pc # "reset_failure"
    BY <1>0, <1>1, <1>2, <2>2 DEF Failures
  <2>3. QED
    BY <2>1, <2>2
<1>9. Stops'
  BY <1>0, <1>1 DEF Stops, Handles
<1>10. Announced'
  BY <1>0, <1>1 DEF Announced
<1>11. Serves'
  <2>1. caller.pc \in ResetPcs => input["mic"] = NewInput /\ input["render"] = NewInput
                                  /\ proc = NewProcessing
    BY <1>0 DEF Typed, Launching
  <2>2. caller.pc \in ResetPcs => proc.ready # "ok" /\ \A i \in Inputs : input[i].ready # "ok"
    BY <2>1 DEF NewInput, NewProcessing, Inputs
  <2>3. QED
    BY <1>0, <1>1, <1>2, <2>2 DEF Serves, Raised
<1>12. Served'
  BY <1>0, <1>1, <1>4 DEF Served
<1>13. QED
  BY <1>5, <1>6, <1>7, <1>8, <1>9, <1>10, <1>11, <1>12 DEF Service

\* The spawns of the three workers: spawn_capture for each input, then the
\* processing worker.
LEMMA ServiceBySpawn ==
  ASSUME RInv, (\E i \in Inputs : SpawnInput(i)) \/ SpawnProcessing
  PROVE  Service'
<1> USE DEF ResetPcs, SpawnPcs, WaitPcs, ClearingPcs
<1>0. /\ Typed /\ Handles /\ Fresh /\ Goals /\ Failures /\ Stops /\ Announced /\ Serves /\ Served
      /\ caller \in CallerType /\ snapshot \in SnapshotType
      /\ "processing" \in Threads /\ "caller" \in Threads /\ "mic" \in Inputs
      /\ "render" \in Inputs /\ \A i \in Inputs : i \in Threads
  BY CommandFacts
<1> DEFINE Spawned == /\ UNCHANGED <<snapshot, stopRequested, terminalFailure, installed, queue, fault>>
                      /\ Free("caller") /\ caller.pc \in SpawnPcs
                      /\ caller'.goal = "start" /\ caller.goal = "start"
                      /\ proc.pc = "none" /\ proc.ready = "pending" /\ proc'.ready = "pending"
                      /\ \/ caller'.pc \in {"spawn_render", "spawn_processing"} /\ proc'.pc = "none"
                         \/ caller'.pc = "install" /\ proc'.pc = "open" /\ input' = input
                      /\ \A i \in Inputs : \/ input'[i] = input[i]
                                           \/ /\ input[i].pc = "none" /\ input'[i].pc = "open"
                                              /\ input'[i].ready = input[i].ready
<1>1. Spawned
  <2>1. /\ caller.pc \in SpawnPcs => caller.goal = "start" /\ proc = NewProcessing
        /\ caller.pc = "spawn_mic" => input["mic"].pc = "none"
        /\ caller.pc \in {"spawn_mic", "spawn_render"} => input["render"].pc = "none"
        /\ NewProcessing.pc = "none" /\ NewProcessing.ready = "pending"
    BY <1>0 DEF Typed, Launching, Goals, NewInput, NewProcessing
  <2>2. ASSUME NEW i \in Inputs, SpawnInput(i)
        PROVE  Spawned
    <3>1. /\ caller.pc \in {"spawn_mic", "spawn_render"} /\ input[i].pc = "none"
          /\ caller'.pc \in {"spawn_render", "spawn_processing"} /\ caller'.goal = caller.goal
      BY <1>0, <2>1, <2>2 DEF SpawnInput, CallerAt, Go, CallerType, Inputs
    <3>2. \A j \in Inputs : \/ input'[j] = input[j]
                            \/ /\ input[j].pc = "none" /\ input'[j].pc = "open"
                               /\ input'[j].ready = input[j].ready
      BY <1>0, <2>2, <3>1 DEF SpawnInput, Typed, TypeOK, InputType
    <3>3. QED
      BY <2>1, <2>2, <3>1, <3>2 DEF SpawnInput, CallerAt
  <2>3. CASE SpawnProcessing
    <3>1. proc'.pc = "open" /\ proc'.ready = "pending"
      BY <2>1, <2>3 DEF SpawnProcessing, CallerAt, GoProc, NewProcessing
    <3>2. caller'.pc = "install" /\ caller'.goal = caller.goal
      BY <1>0, <2>3 DEF SpawnProcessing, CallerAt, Go, CallerType
    <3>3. QED
      BY <2>1, <2>3, <3>1, <3>2 DEF SpawnProcessing, CallerAt
  <2>4. QED
    BY <2>2, <2>3
<1>2. \A t \in Threads : Free(t)' <=> Free(t)
  BY <1>1 DEF Free
<1>3. ~installed /\ snapshot.state # "Stopped"
  BY <1>0, <1>1 DEF Handles
<1>4. Free("processing")
  BY <1>0, <1>1 DEF Fresh
<1>5. Handles'
  BY <1>0, <1>1, <1>3 DEF Handles
<1>6. Fresh'
  BY <1>0, <1>1, <1>2, <1>4 DEF Fresh, StartPcs
<1>7. Goals'
  BY <1>0, <1>1 DEF Goals
<1>8. Failures'
  <2>1. Publishing' <=> Publishing
    BY <1>1 DEF Publishing
  <2>2. QED
    BY <1>0, <1>1, <1>2, <2>1 DEF Failures
<1>9. Stops'
  BY <1>0, <1>1, <1>3 DEF Stops
<1>10. Announced'
  BY <1>0, <1>1 DEF Announced, StartPcs
<1>11. Serves'
  BY <1>0, <1>1, <1>2 DEF Serves, Announced, Raised
<1>12. Served'
  BY <1>1 DEF Served
<1>13. QED
  BY <1>5, <1>6, <1>7, <1>8, <1>9, <1>10, <1>11, <1>12 DEF Service

\* A ready message that names an error, or does not come, is recorded before the
\* run is cleaned up.
LEMMA ServiceByWait ==
  ASSUME RInv, WaitRun \/ FinishStart
  PROVE  Service'
<1> USE DEF ResetPcs, SpawnPcs, WaitPcs, ClearingPcs
<1>0. /\ Typed /\ Handles /\ Fresh /\ Goals /\ Failures /\ Stops /\ Announced /\ Serves /\ Served
      /\ caller \in CallerType /\ snapshot \in SnapshotType
      /\ "processing" \in Threads /\ "caller" \in Threads /\ "mic" \in Inputs
      /\ "render" \in Inputs /\ \A i \in Inputs : i \in Threads /\ i # "caller"
      /\ fault \in [Threads -> FaultType]
  <2>1. \A i \in Inputs : i # "caller"
    BY DEF Inputs
  <2>2. QED
    BY <2>1, CommandFacts DEF Typed, TypeOK
<1>1. caller.pc \in WaitPcs => caller.goal = "start" /\ installed /\ proc.pc # "none"
  BY <1>0 DEF Goals, Handles
<1>2. ASSUME UNCHANGED <<snapshot, stopRequested, terminalFailure, installed, queue, input, proc>>,
             Free("caller"), caller.pc \in WaitPcs, caller'.goal = "abort",
             caller'.pc = "request_stop", NEW e, e # "None", Raise("caller", e)
      PROVE  Service'
  <2>1. /\ \A t \in Threads : t # "caller" => fault'[t] = fault[t]
        /\ fault'["caller"] = [step |-> "exchange", error |-> e]
    BY <1>0, <1>2 DEF Raise
  <2>2. \A t \in Threads : t # "caller" => (Free(t)' <=> Free(t))
    BY <2>1 DEF Free
  <2>3. (Quiet' <=> Quiet) /\ (Iterating' <=> Iterating) /\ (Between' <=> Between)
    BY <1>0, <1>2, <2>2 DEF Quiet, ProcQuiet, InputQuiet, Iterating, Between
  <2>4. Handles'
    BY <1>0, <1>1, <1>2, <2>3 DEF Handles
  <2>5. Fresh'
    BY <1>0, <1>2, <2>2 DEF Fresh
  <2>6. Goals'
    BY <1>0, <1>2 DEF Goals
  <2>7. Failures'
    <3>1. Publishing => Publishing'
      BY <1>0, <1>2, <2>1, StillPublishing
    <3>2. fault'["caller"].step = "exchange" /\ fault'["caller"].error # "None"
      BY <1>2, <2>1
    <3>3. ~Free("caller")'
      <4>1. fault'["caller"].step # NoFault.step
        BY <3>2 DEF NoFault
      <4>2. QED
        BY <4>1 DEF Free
    <3>4. \A t \in Threads :
            /\ ~Free(t)' => fault'[t].step # "none" /\ fault'[t].error # "None"
            /\ fault'[t].step \notin {"none", "exchange"} => terminalFailure
      BY <1>0, <2>1, <2>2, <3>2 DEF Failures
    <3>5. QED
      BY <1>0, <1>2, <3>1, <3>3, <3>4 DEF Failures
  <2>8. Stops'
    BY <1>0, <1>1, <1>2 DEF Stops, Handles
  <2>9. Announced'
    BY <1>0, <1>2 DEF Announced
  <2>10. Serves' /\ Served'
    BY <1>0, <1>2, <2>2, <2>3 DEF Serves, Raised, Served
  <2>11. QED
    BY <2>4, <2>5, <2>6, <2>7, <2>8, <2>9, <2>10 DEF Service
<1>3. ASSUME UNCHANGED <<stopRequested, terminalFailure, installed, queue, input, proc, fault>>,
             Free("caller"), caller.pc \in WaitPcs, snapshot'.error = snapshot.error,
             \/ /\ caller.pc # "finish_start" /\ snapshot' = snapshot /\ caller'.goal = "start"
                /\ \/ caller'.pc = "wait_render" /\ input["mic"].ready = "ok"
                   \/ /\ caller.pc = "wait_render" /\ input["render"].ready = "ok"
                      /\ caller'.pc = "wait_processing"
                   \/ /\ caller.pc = "wait_processing" /\ proc.ready = "ok"
                      /\ caller'.pc = "finish_start"
             \/ /\ caller.pc = "finish_start" /\ caller' = IdleCaller
                /\ snapshot'.state \in {snapshot.state, "Running"}
      PROVE  Service'
  <2>1. /\ (Quiet' <=> Quiet) /\ (Publishing' <=> Publishing) /\ (Iterating' <=> Iterating)
        /\ (Between' <=> Between) /\ (AllReady' <=> AllReady)
        /\ \A t \in Threads : Free(t)' <=> Free(t)
    BY <1>3, SameWorkers
  <2>2. IdleCaller.pc = "idle" /\ IdleCaller.goal = "none"
    BY DEF IdleCaller
  <2>3. caller.pc = "finish_start" => proc.pc \notin StartPcs /\ AllReady
    BY <1>0 DEF Announced, AllReady, Inputs
  <2>4. snapshot'.state # "Stopped" /\ snapshot.state # "Stopped"
    BY <1>0, <1>3 DEF Handles
  <2>5. Handles'
    BY <1>0, <1>1, <1>3, <2>1, <2>2, <2>4 DEF Handles
  <2>6. Fresh'
    BY <1>0, <1>1, <1>3, <2>1, <2>2, <2>3 DEF Fresh
  <2>7. Goals'
    BY <1>0, <1>1, <1>3, <2>2 DEF Goals
  <2>8. Failures'
    BY <1>0, <1>1, <1>3, <2>1, <2>2 DEF Failures
  <2>9. Stops'
    BY <1>0, <1>1, <1>3, <2>2, <2>4 DEF Stops
  <2>10. Announced'
    BY <1>0, <1>1, <1>3, <2>2 DEF Announced
  <2>11. Serves'
    BY <1>0, <1>3, <2>1 DEF Serves, Raised
  <2>12. Served'
    BY <1>0, <1>1, <1>3, <2>1, <2>2, <2>3, <2>4 DEF Served, Stops
  <2>13. QED
    BY <2>5, <2>6, <2>7, <2>8, <2>9, <2>10, <2>11, <2>12 DEF Service
<1>4. ASSUME NEW pc, NEW ready, NEW next, WaitReady(pc, ready, next)
      PROVE  /\ UNCHANGED <<snapshot, stopRequested, terminalFailure, installed, queue, input, proc>>
             /\ Free("caller") /\ caller.pc = pc
             /\ \/ ready = "ok" /\ caller' = [caller EXCEPT !.pc = next] /\ fault' = fault
                \/ /\ caller'.goal = "abort" /\ caller'.pc = "request_stop"
                   /\ \E e : Raise("caller", e) /\ e \in {ready, "WorkerFailure"}
  BY <1>4 DEF WaitReady, CallerAt, Go
<1>5. ASSUME NEW pc \in WaitPcs, NEW ready, NEW next, WaitReady(pc, ready, next), ready # "None",
             caller' = [caller EXCEPT !.pc = next] /\ ready = "ok" => Service'
      PROVE  Service'
  BY <1>2, <1>4, <1>5
<1>6. input["mic"].ready # "None" /\ input["render"].ready # "None" /\ proc.ready # "None"
  BY <1>0 DEF Announced
<1>7. CASE WaitReady("wait_mic", input["mic"].ready, "wait_render")
  <2>1. ASSUME caller' = [caller EXCEPT !.pc = "wait_render"], input["mic"].ready = "ok"
        PROVE  Service'
    BY <1>0, <1>1, <1>3, <1>4, <1>7, <2>1 DEF CallerType
  <2>2. QED
    BY <1>5, <1>6, <1>7, <2>1
<1>8. CASE WaitReady("wait_render", input["render"].ready, "wait_processing")
  <2>1. ASSUME caller' = [caller EXCEPT !.pc = "wait_processing"], input["render"].ready = "ok"
        PROVE  Service'
    BY <1>0, <1>1, <1>3, <1>4, <1>8, <2>1 DEF CallerType
  <2>2. QED
    BY <1>5, <1>6, <1>8, <2>1
<1>9. CASE WaitReady("wait_processing", proc.ready, "finish_start")
  <2>1. ASSUME caller' = [caller EXCEPT !.pc = "finish_start"], proc.ready = "ok"
        PROVE  Service'
    BY <1>0, <1>1, <1>3, <1>4, <1>9, <2>1 DEF CallerType
  <2>2. QED
    BY <1>5, <1>6, <1>9, <2>1
<1>10. CASE FinishStart
  <2>1. /\ snapshot'.error = snapshot.error /\ snapshot'.state \in {snapshot.state, "Running"}
        /\ caller' = IdleCaller /\ caller.pc = "finish_start" /\ Free("caller")
        /\ UNCHANGED <<stopRequested, terminalFailure, installed, queue, input, proc, fault>>
    BY <1>0, <1>10 DEF FinishStart, CallerAt, Return, SnapshotType
  <2>2. QED
    BY <1>3, <2>1
<1>11. QED
  BY <1>7, <1>8, <1>9, <1>10 DEF WaitRun

-----------------------------------------------------------------------------

LEMMA InitService == Init => Service
<1> SUFFICES ASSUME Init
             PROVE  Service
  OBVIOUS
<1>1. /\ snapshot.state = "Stopped" /\ snapshot.error = "None" /\ ~stopRequested
      /\ ~terminalFailure /\ ~installed /\ caller = IdleCaller /\ caller.pc = "idle"
      /\ caller.goal = "none" /\ proc.pc = "none" /\ proc.ready = "pending"
      /\ \A i \in Inputs : /\ queue[i].frames = <<>> /\ ~queue[i].failed
                           /\ input[i].pc = "none" /\ input[i].ready = "pending"
      /\ \A t \in Threads : Free(t) /\ fault[t].step = "none"
      /\ "processing" \in Threads /\ "caller" \in Threads /\ "mic" \in Inputs
      /\ \A i \in Inputs : i \in Threads
  BY DEF Init, NoSnapshot, IdleCaller, NewProcessing, NewInput, NewQueue, NoFault, Free, Threads,
         Inputs
<1> USE DEF ResetPcs, SpawnPcs, WaitPcs, ClearingPcs, StartPcs
<1>2. Handles /\ Fresh /\ Goals
  BY <1>1 DEF Handles, Fresh, Goals
<1>3. Failures /\ Stops
  BY <1>1 DEF Failures, Stops
<1>4. Announced /\ Serves /\ Served
  BY <1>1 DEF Announced, Serves, Served
<1>5. QED
  BY <1>2, <1>3, <1>4 DEF Service

LEMMA NextRun == RInv /\ [Next]_vars => RInv'
<1> SUFFICES ASSUME RInv, [Next]_vars
             PROVE  RInv'
  OBVIOUS
<1>1. IInv'
  BY NextInv DEF RInv
<1>2. CASE UNCHANGED vars
  <2>1. UNCHANGED <<snapshot, stopRequested, terminalFailure, installed, queue, input, proc,
                    caller, fault>>
    BY <1>2 DEF vars
  <2>2. (Handles <=> Handles') /\ (Fresh <=> Fresh') /\ (Goals <=> Goals')
    BY <2>1 DEF Handles, Fresh, Goals, Quiet, ProcQuiet, InputQuiet, Free
  <2>3. (Failures <=> Failures') /\ (Stops <=> Stops')
    BY <2>1 DEF Failures, Stops, Publishing, Free
  <2>4. (Announced <=> Announced') /\ (Serves <=> Serves') /\ (Served <=> Served')
    BY <2>1 DEF Announced, Serves, Served, Raised, AllReady, Iterating, Between, Free
  <2>5. QED
    BY <1>1, <2>2, <2>3, <2>4 DEF RInv, Service
<1>3. CASE Next
  <2>1. Service'
    BY <1>3, ServiceByBegin, ServiceByCleaning, ServiceByLaunch, ServiceByReset, ServiceBySpawn,
       ServiceByWait, ServiceByInput, ServiceByWorker, ServiceByFailure
    DEF Next, CallerSteps, StartSteps
  <2>2. QED
    BY <1>1, <2>1 DEF RInv
<1>4. QED
  BY <1>2, <1>3

\* With no command and no failure recorded, an engine that says it runs has its
\* three workers, or one of them is about to record why not: an input or the
\* processing worker that was ready leaves its loop only for a stop or after a
\* failure, and start returns success only when all three were ready, whatever
\* the runs before left behind (start_aec, wait_aec_ready, record_aec_failure,
\* run_input_worker, run_processing_worker).
THEOREM QuietRunningCorrect == Spec => []QuietRunningIsServed
<1>1. Init => RInv
  BY InitInv, InitService DEF RInv
<1>2. RInv => QuietRunningIsServed
  BY QuietFacts
<1>3. QED
  BY <1>1, <1>2, NextRun, PTL DEF Spec

\* An engine that says Stopped after a run whose processing worker was spawned
\* has no worker left: the handles of such a run are taken and joined before
\* the state is written, by the stop, by the start that follows a failure and by
\* the start that gives up (cleanup_run, join_run, Engine::stop).
THEOREM StoppedIsQuietCorrect == Spec => []StoppedIsQuiet
<1>1. Init => RInv
  BY InitInv, InitService DEF RInv
<1>2. RInv => StoppedIsQuiet
  BY QuietFacts
<1>3. QED
  BY <1>1, <1>2, NextRun, PTL DEF Spec
-----------------------------------------------------------------------------
(* One canceller, one epoch.  Every frame of an input either carries the   *)
(* epoch of the frame before it or says that it does not, along the whole  *)
(* way from the accumulator to the canceller: EchoSeesOneEpoch is what     *)
(* this says at its end.                                                   *)

\* e is the epoch before the frame f, or the frame says that it is not.
Link(e, f) == f.reset \/ e \in {NoEpoch, f.epoch}

\* The frames s can follow a frame of epoch e.
Follows(s, e) == s # <<>> => Link(e, Head(s))
Linked(s) == \A a, b \in 1..Len(s) : b = a + 1 => Link(s[a].epoch, s[b])

\* The frames of input i that the worker has yet to take, the one that is being
\* completed included.
Feeds(i) == Alive(i) /\ ~queue[i].failed /\ ~queue[i].producerDone
Stream(i) == IF Feeds(i) THEN Append(queue[i].frames, NextFrame(i)) ELSE queue[i].frames

\* The frame of input i in the worker's hands, and the epoch the canceller has
\* seen, or will have seen, before it.
InHand(i) == IF i = "mic" THEN proc.mic ELSE proc.render
Heard(i) == IF i = "mic" THEN echo.mic ELSE echo.render
Ahead == proc.match # NoFrame /\ proc.pc \in {"record", "process"}
Behind(i) == IF i = "render" /\ Ahead THEN proc.match.epoch ELSE Heard(i)
Last(i) == IF InHand(i) # NoFrame THEN InHand(i).epoch ELSE Behind(i)

Epochs(i) ==
  ~input[i].lost =>
    /\ Linked(Stream(i)) /\ Follows(Stream(i), Last(i))
    /\ InHand(i) # NoFrame => Link(Behind(i), InHand(i))

\* The frames of this turn, once their marks have been acted upon.
Accepted ==
  /\ ~input["mic"].lost /\ Iterating /\ proc.pc # "mic_reset" =>
       echo.mic \in {NoEpoch, proc.mic.epoch}
  /\ ~input["render"].lost /\ Ahead => echo.render \in {NoEpoch, proc.match.epoch}

Unheard == {"none", "open", "first_mic", "first_render", "announce", "done"}

\* A canceller that has seen nothing, and an accumulator that owes no mark.
Silent ==
  /\ \A i \in Inputs : Unborn(i) => Heard(i) = NoEpoch
  /\ \A i \in Inputs : Unborn(i) \/ input[i].pc = "read" => ~input[i].mark
  /\ proc.pc = "judge" => echo.render = NoEpoch
  /\ proc.pc \in Unheard => echo = FreshEcho

EInv == IInv /\ Accepted /\ Silent /\ \A i \in Inputs : Epochs(i)

LEMMA TailLinked ==
  ASSUME NEW s \in Seq(FrameType), s # <<>>, Linked(s)
  PROVE  /\ Linked(Tail(s)) /\ Follows(Tail(s), Head(s).epoch)
         /\ \A e : Follows(s, e) /\ ~Head(s).reset => Follows(Tail(s), e)
<1> DEFINE r == Tail(s)
<1>1. /\ r \in Seq(FrameType) /\ Len(r) = Len(s) - 1 /\ Len(r) \in Nat /\ Len(s) \in Nat
      /\ \A a \in 1..Len(r) : r[a] = s[a + 1]
      /\ Head(s) = s[1]
  BY HeadTailProperties, LenProperties
<1>2. r # <<>> => Head(r) = r[1] /\ 1 \in 1..Len(r)
  BY <1>1, HeadTailProperties, EmptySeq
<1> HIDE DEF r
<1>3. \A a \in 1..Len(r) : a + 1 \in 1..Len(s)
  BY <1>1
<1>4. Linked(r)
  <2>1. SUFFICES ASSUME NEW a \in 1..Len(r), NEW b \in 1..Len(r), b = a + 1
                 PROVE  Link(r[a].epoch, r[b])
    BY DEF Linked
  <2>2. a + 1 \in 1..Len(s) /\ b + 1 \in 1..Len(s) /\ b + 1 = (a + 1) + 1
    BY <1>3, <2>1
  <2>3. Link(s[a + 1].epoch, s[b + 1])
    BY <2>2 DEF Linked
  <2>4. QED
    BY <1>1, <2>3
<1>5. r # <<>> => Link(Head(s).epoch, Head(r))
  <2>1. SUFFICES ASSUME r # <<>>
                 PROVE  Link(s[1].epoch, r[1])
    BY <1>1, <1>2
  <2>2. 1 \in 1..Len(s) /\ 2 \in 1..Len(s) /\ 2 = 1 + 1 /\ r[1] = s[2]
    BY <1>1, <1>2, <2>1
  <2>3. QED
    BY <2>2 DEF Linked
<1>6. \A e : Follows(s, e) /\ ~Head(s).reset => Follows(r, e)
  BY <1>5 DEF Follows, Link
<1>7. QED
  BY <1>4, <1>5, <1>6 DEF Follows, r

LEMMA PrefixLinked ==
  ASSUME NEW s \in Seq(FrameType), NEW f \in FrameType, Linked(Append(s, f))
  PROVE  /\ Linked(s)
         /\ \A e : Follows(Append(s, f), e) => Follows(s, e)
<1> DEFINE t == Append(s, f)
<1>1. /\ Len(t) = Len(s) + 1 /\ Len(s) \in Nat /\ \A a \in 1..Len(s) : t[a] = s[a]
      /\ t # <<>> /\ Head(t) = IF s = <<>> THEN f ELSE Head(s)
  BY AppendProperties, HeadTailAppend, LenProperties
<1> HIDE DEF t
<1>2. \A a \in 1..Len(s) : a \in 1..Len(t)
  BY <1>1
<1>3. Linked(s)
  BY <1>1, <1>2 DEF Linked, t
<1>4. \A e : Follows(t, e) => Follows(s, e)
  BY <1>1 DEF Follows
<1>5. QED
  BY <1>3, <1>4 DEF t

\* The last frame may be replaced by one that links with all that it links with: a
\* marked one, or one that only has another time.
LEMMA LastReplaced ==
  ASSUME NEW s \in Seq(FrameType), NEW f \in FrameType, NEW g \in FrameType,
         \A e : Link(e, f) => Link(e, g), Linked(Append(s, f))
  PROVE  /\ Linked(Append(s, g))
         /\ \A e : Follows(Append(s, f), e) => Follows(Append(s, g), e)
<1> DEFINE t == Append(s, f)
           u == Append(s, g)
<1>1. /\ Len(t) = Len(s) + 1 /\ Len(s) \in Nat /\ \A a \in 1..Len(s) : t[a] = s[a]
      /\ t[Len(s) + 1] = f /\ t # <<>> /\ Head(t) = IF s = <<>> THEN f ELSE Head(s)
  BY AppendProperties, HeadTailAppend, LenProperties
<1>2. /\ Len(u) = Len(s) + 1 /\ \A a \in 1..Len(s) : u[a] = s[a]
      /\ u[Len(s) + 1] = g
      /\ u # <<>> /\ Head(u) = IF s = <<>> THEN g ELSE Head(s)
  BY AppendProperties, HeadTailAppend
<1> HIDE DEF t, u
<1>3. Linked(u)
  <2>1. SUFFICES ASSUME NEW a \in 1..Len(u), NEW b \in 1..Len(u), b = a + 1
                 PROVE  Link(u[a].epoch, u[b])
    BY DEF Linked
  <2>2. CASE b = Len(s) + 1
    <3>1. a = Len(s) /\ a \in 1..Len(s) /\ a \in 1..Len(t) /\ b \in 1..Len(t)
      BY <1>1, <1>2, <2>1, <2>2
    <3>2. Link(t[a].epoch, t[b])
      BY <2>1, <3>1 DEF Linked, t
    <3>3. t[a] = u[a] /\ t[b] = f /\ u[b] = g
      BY <1>1, <1>2, <2>2, <3>1
    <3>4. QED
      BY <3>2, <3>3
  <2>3. CASE b # Len(s) + 1
    <3>1. a \in 1..Len(s) /\ b \in 1..Len(s)
      BY <1>1, <1>2, <2>1, <2>3
    <3>2. a \in 1..Len(t) /\ b \in 1..Len(t)
      BY <1>1, <3>1
    <3>3. Link(t[a].epoch, t[b])
      BY <2>1, <3>2 DEF Linked, t
    <3>4. QED
      BY <1>1, <1>2, <3>1, <3>3
  <2>4. QED
    BY <2>2, <2>3
<1>4. \A e : Follows(t, e) => Follows(u, e)
  BY <1>1, <1>2 DEF Follows
<1>5. QED
  BY <1>3, <1>4 DEF t, u

\* A frame that has its predecessor's epoch may be appended.
LEMMA AppendLinked ==
  ASSUME NEW s \in Seq(FrameType), NEW f \in FrameType, NEW g \in FrameType,
         g.epoch = f.epoch, Linked(Append(s, f))
  PROVE  /\ Linked(Append(Append(s, f), g))
         /\ \A e : Follows(Append(s, f), e) => Follows(Append(Append(s, f), g), e)
<1> DEFINE t == Append(s, f)
           u == Append(t, g)
<1>1. /\ t \in Seq(FrameType) /\ Len(t) = Len(s) + 1 /\ Len(s) \in Nat /\ t[Len(s) + 1] = f
      /\ t # <<>> /\ Len(t) \in Nat
  BY AppendProperties, LenProperties
<1> HIDE DEF t
<1>2. /\ Len(u) = Len(t) + 1 /\ \A a \in 1..Len(t) : u[a] = t[a]
      /\ u[Len(t) + 1] = g /\ u # <<>> /\ Head(u) = Head(t)
  BY <1>1, AppendProperties, HeadTailAppend
<1> HIDE DEF u
<1>3. Linked(u)
  <2>1. SUFFICES ASSUME NEW a \in 1..Len(u), NEW b \in 1..Len(u), b = a + 1
                 PROVE  Link(u[a].epoch, u[b])
    BY DEF Linked
  <2>2. CASE b = Len(t) + 1
    <3>1. a = Len(t) /\ a \in 1..Len(t)
      BY <1>1, <2>1, <2>2
    <3>2. u[a] = f
      BY <1>1, <1>2, <3>1
    <3>3. QED
      BY <1>2, <2>2, <3>2 DEF Link
  <2>3. CASE b # Len(t) + 1
    <3>1. a \in 1..Len(t) /\ b \in 1..Len(t)
      BY <1>1, <1>2, <2>1, <2>3
    <3>2. Link(t[a].epoch, t[b])
      BY <2>1, <3>1 DEF Linked, t
    <3>3. QED
      BY <1>2, <3>1, <3>2
  <2>4. QED
    BY <2>2, <2>3
<1>4. \A e : Follows(t, e) => Follows(u, e)
  BY <1>1, <1>2 DEF Follows
<1>5. QED
  BY <1>3, <1>4 DEF t, u

\* What a push leaves in a queue that takes frames.
LEMMA PushedFrames ==
  ASSUME NEW q \in QueueType, Len(q.frames) <= QueueCapacity, NEW f \in FrameType,
         ~q.failed, ~q.producerDone
  PROVE  LET s == q.frames
             r == Push(q, f, QueueCapacity).frames
         IN \/ r = Append(s, f)
            \/ r = Append(Tail(s), f) /\ s # <<>> /\ Len(s) = QueueCapacity
<1> DEFINE s == q.frames
           room == MakeRoom(q, QueueCapacity)
<1>1. s \in Seq(FrameType) /\ QueueCapacity \in Nat \ {0}
  BY AecAssumption DEF QueueType
<1>2. /\ Len(s) # QueueCapacity => room = q
      /\ Len(s) = QueueCapacity =>
           room = [q EXCEPT !.frames = Tail(s), !.discarded = q.discarded + 1]
  BY DEF MakeRoom
<1>3. Len(s) = QueueCapacity => s # <<>>
  BY <1>1, EmptySeq
<1>4. Push(q, f, QueueCapacity) = [room EXCEPT !.frames = Append(room.frames, f)]
  BY DEF Push
<1> HIDE DEF room
<1>5. QED
  BY <1>2, <1>3, <1>4 DEF QueueType

-----------------------------------------------------------------------------
(* The step of an input worker.                                            *)

LEMMA Streams ==
  ASSUME TypeOK, NEW i \in Inputs
  PROVE  /\ queue[i] \in QueueType /\ queue[i].frames \in Seq(FrameType)
         /\ NextFrame(i) \in FrameType /\ Stream(i) \in Seq(FrameType)
         /\ input[i] \in InputType
<1>1. queue[i] \in QueueType /\ queue[i].frames \in Seq(FrameType) /\ input[i] \in InputType
  BY DEF TypeOK, QueueType
<1>2. NextFrame(i) \in FrameType
  BY <1>1 DEF NextFrame, FrameType, InputType
<1>3. QED
  BY <1>1, <1>2, AppendProperties DEF Stream

\* What the worker has had of an input stays.
LEMMA SameHands ==
  ASSUME proc' = proc, echo' = echo
  PROVE  \A i \in Inputs : /\ InHand(i)' = InHand(i) /\ Heard(i)' = Heard(i)
                           /\ Behind(i)' = Behind(i) /\ Last(i)' = Last(i)
BY DEF InHand, Heard, Behind, Last, Ahead

LEMMA EpochsByPush ==
  ASSUME TypeOK, NEW i \in Inputs, Epochs(i), InputPush(i)
  PROVE  Epochs(i)' /\ ~input'[i].mark
<1> DEFINE q == queue[i]
           s == q.frames
           f == NextFrame(i)
           g == NextFrame(i)'
           t == Append(s, f)
<1>0. /\ q \in QueueType /\ s \in Seq(FrameType) /\ f \in FrameType /\ input[i] \in InputType
      /\ Len(s) <= QueueCapacity /\ queue \in [Inputs -> QueueType]
      /\ input \in [Inputs -> InputType] /\ proc' = proc /\ echo' = echo /\ Alive(i)
  BY Streams, Sizes DEF TypeOK, InputPush, InputAt, Alive
<1>1. input' = [input EXCEPT ![i].pc = IF input[i].pending = 1 THEN "read" ELSE "push",
                             ![i].pending = @ - 1, ![i].made = @ + 1,
                             ![i].clock = @ + FrameTicks,
                             ![i].mark = FALSE, ![i].lost = @ \/ LosesMark(queue[i])]
  BY DEF InputPush
<1>2. /\ input'[i].pc \in {"read", "push"} /\ input'[i].mark = FALSE
      /\ input'[i].epoch = input[i].epoch
      /\ input'[i].clock \in Nat /\ input'[i].made \in Nat
      /\ ~input'[i].lost => ~input[i].lost /\ ~LosesMark(q)
  <2> DEFINE pc == IF input[i].pending = 1 THEN "read" ELSE "push"
             lost == input[i].lost \/ LosesMark(queue[i])
             clock == input[i].clock + FrameTicks
             made == input[i].made + 1
  <2>1. input' = [input EXCEPT ![i] = [input[i] EXCEPT !.pc = pc, !.pending = input[i].pending - 1,
                     !.made = made, !.clock = clock, !.mark = FALSE, !.lost = lost]]
    BY <1>0, <1>1
  <2>2. pc \in {"read", "push"} /\ (~lost => ~input[i].lost /\ ~LosesMark(q))
    OBVIOUS
  <2>3. clock \in Nat /\ made \in Nat
    <3>1. FrameTicks \in Nat
      BY AecAssumption DEF FrameTicks
    <3>2. input[i] \in InputType
      BY <1>0
    <3>3. input[i].clock \in Nat /\ input[i].made \in Nat
      BY <3>2 DEF InputType
    <3> QED
      BY <3>1, <3>3
  <2> HIDE DEF pc, lost, q, clock, made
  <2>4. QED
    BY <1>0, <2>1, <2>2, <2>3 DEF InputType
<1>3. queue'[i] = Push(q, f, QueueCapacity)
  BY <1>0 DEF InputPush
<1>4. /\ g \in FrameType /\ g.epoch = f.epoch /\ Alive(i)'
  <2>1. g = [time |-> input'[i].clock, reset |-> FALSE, epoch |-> input[i].epoch,
             number |-> input'[i].made]
    BY <1>2 DEF NextFrame
  <2>2. input'[i].clock \in Nat /\ input'[i].made \in Nat /\ input[i].epoch \in Nat
    BY <1>0, <1>2 DEF InputType
  <2>3. f.epoch = input[i].epoch
    BY DEF NextFrame
  <2> HIDE DEF f
  <2>4. QED
    BY <1>2, <2>1, <2>2, <2>3 DEF Alive, FrameType
<1>5. SUFFICES ASSUME ~input'[i].lost
               PROVE  Linked(Stream(i)') /\ Follows(Stream(i)', Last(i))
  <2>1. /\ InHand(i)' = InHand(i) /\ Behind(i)' = Behind(i) /\ Last(i)' = Last(i)
    BY <1>0, SameHands
  <2>2. ~input'[i].lost => (InHand(i) # NoFrame => Link(Behind(i), InHand(i)))
    BY <1>2 DEF Epochs
  <2>3. QED
    BY <1>2, <2>1, <2>2 DEF Epochs
<1>6. Linked(Stream(i)) /\ Follows(Stream(i), Last(i)) /\ ~LosesMark(q)
  BY <1>2, <1>5 DEF Epochs
<1>7. CASE q.failed \/ q.producerDone
  <2>1. queue'[i] = queue[i]
    BY <1>3, <1>7 DEF Push
  <2>2. Stream(i)' = Stream(i)
    BY <1>7, <2>1 DEF Stream, Feeds
  <2>3. QED
    BY <1>6, <2>2
<1>8. CASE ~q.failed /\ ~q.producerDone
  <2>1. Feeds(i) /\ Stream(i) = t
    BY <1>0, <1>8 DEF Feeds, Stream
  <2>2. /\ queue'[i].failed = q.failed /\ queue'[i].producerDone = q.producerDone
    BY <1>0, <1>3, PushedQueue
  <2>3. Stream(i)' = Append(queue'[i].frames, g)
    BY <1>4, <1>8, <2>2 DEF Stream, Feeds
  <2>4. \/ queue'[i].frames = t
        \/ queue'[i].frames = Append(Tail(s), f) /\ s # <<>> /\ Len(s) = QueueCapacity
    BY <1>0, <1>3, <1>8, PushedFrames
  <2>5. CASE queue'[i].frames = t
    BY <1>0, <1>4, <1>6, <2>1, <2>3, <2>5, AppendLinked
  <2>6. CASE queue'[i].frames = Append(Tail(s), f) /\ s # <<>> /\ Len(s) = QueueCapacity
    <3>1. ~Head(s).reset
      BY <1>6, <1>8, <2>6 DEF LosesMark
    <3>2. /\ t \in Seq(FrameType) /\ t # <<>> /\ Head(t) = Head(s)
          /\ Tail(t) = Append(Tail(s), f) /\ Tail(s) \in Seq(FrameType)
      BY <1>0, <2>6, AppendProperties, HeadTailAppend, HeadTailProperties
    <3>3. Linked(Tail(t)) /\ Follows(Tail(t), Last(i))
      BY <1>6, <2>1, <3>1, <3>2, TailLinked
    <3>4. QED
      BY <1>0, <1>4, <2>3, <2>6, <3>2, <3>3, AppendLinked
  <2>7. QED
    BY <2>4, <2>5, <2>6
<1>9. QED
  BY <1>7, <1>8

\* A step after which the input completes no frame, or the one it was completing.
LEMMA EpochsStopped ==
  ASSUME TypeOK, NEW i \in Inputs, Epochs(i), proc' = proc, echo' = echo,
         input'[i].lost => input[i].lost, ~input'[i].lost => ~input[i].lost,
         queue'[i].frames = queue[i].frames \/ queue'[i].frames = <<>>,
         ~Feeds(i)'
  PROVE  Epochs(i)'
<1>1. /\ queue[i].frames \in Seq(FrameType) /\ NextFrame(i) \in FrameType
  BY Streams
<1>2. Stream(i)' = queue[i].frames \/ Stream(i)' = <<>>
  BY DEF Stream
<1>3. /\ InHand(i)' = InHand(i) /\ Behind(i)' = Behind(i) /\ Last(i)' = Last(i)
  BY SameHands
<1>4. SUFFICES ASSUME ~input[i].lost
               PROVE  Linked(Stream(i)') /\ Follows(Stream(i)', Last(i))
  BY <1>3 DEF Epochs
<1>5. Linked(<<>>) /\ Follows(<<>>, Last(i))
  BY DEF Linked, Follows
<1>6. Linked(queue[i].frames) /\ Follows(queue[i].frames, Last(i))
  <2>1. CASE Feeds(i)
    BY <1>1, <1>4, <2>1, PrefixLinked DEF Epochs, Stream
  <2>2. CASE ~Feeds(i)
    BY <1>4, <2>2 DEF Epochs, Stream
  <2>3. QED
    BY <2>1, <2>2
<1>7. QED
  BY <1>2, <1>5, <1>6

\* Nothing of an input that has not opened its source is anywhere.
LEMMA UnbornHand ==
  ASSUME TypeOK, Timeline, Silent, NEW i \in Inputs, Unborn(i)
  PROVE  /\ queue[i].frames = <<>> /\ InHand(i) = NoFrame /\ Last(i) = NoEpoch
         /\ i = "mic" => proc.mic = NoFrame
         /\ i = "render" => proc.match = NoFrame
<1>1. Chain(i) /\ Heard(i) = NoEpoch
  BY DEF Timeline, Silent
<1>2. queue[i].frames = <<>> /\ \A t \in Int : Holds(i, t) => t = -1
  BY <1>1 DEF Chain
<1>3. \A f \in MaybeFrame : f # NoFrame => f.number \in Int /\ f.number # -1
  BY DEF MaybeFrame, FrameType
<1>4. /\ i = "mic" => proc.mic = NoFrame
      /\ i = "render" => proc.match = NoFrame /\ proc.render = NoFrame
  BY <1>2, <1>3 DEF Holds, TypeOK, ProcessingType
<1>5. InHand(i) = NoFrame
  BY <1>4 DEF InHand, Inputs
<1>6. ~(i = "render" /\ Ahead)
  BY <1>4 DEF Ahead
<1>7. QED
  BY <1>1, <1>2, <1>4, <1>5, <1>6 DEF Last, Behind

LEMMA EpochsByInput ==
  ASSUME EInv, NEW i \in Inputs, InputNext(i)
  PROVE  Accepted' /\ Silent' /\ \A j \in Inputs : Epochs(j)'
<1>0. /\ TypeOK /\ Typed /\ Timeline /\ Silent /\ Accepted /\ \A j \in Inputs : Epochs(j)
      /\ queue \in [Inputs -> QueueType] /\ input \in [Inputs -> InputType]
      /\ input[i] \in InputType /\ queue[i] \in QueueType /\ NextFrame(i) \in FrameType
      /\ queue[i].frames \in Seq(FrameType)
  BY Streams DEF EInv, IInv, Typed, TypeOK
<1>1. /\ proc' = proc /\ echo' = echo
      /\ \A j \in Inputs : j # i => queue'[j] = queue[j] /\ input'[j] = input[j]
  BY <1>0 DEF InputNext, InputSteps, InputOpen, InputLeave, InputRead, InputReadFails, InputPush,
              InputStop, InputFinish
<1>2. ASSUME NEW j \in Inputs, j # i
      PROVE  Epochs(j)' /\ (Unborn(j)' <=> Unborn(j)) /\ input'[j] = input[j]
  <2>1. queue'[j] = queue[j] /\ input'[j] = input[j]
    BY <1>1, <1>2
  <2>2. Stream(j)' = Stream(j) /\ (Unborn(j)' <=> Unborn(j))
    BY <2>1 DEF Stream, Feeds, Alive, NextFrame, Unborn
  <2>3. Epochs(j)
    BY <1>0
  <2>4. /\ InHand(j)' = InHand(j) /\ Behind(j)' = Behind(j) /\ Last(j)' = Last(j)
    BY <1>1, SameHands
  <2>5. QED
    BY <2>1, <2>2, <2>3, <2>4 DEF Epochs
\* The input itself: it is born once, and owes a mark only while it completes
\* frames.
<1> DEFINE Done == /\ Epochs(i)' /\ (~input'[i].lost => ~input[i].lost)
                   /\ Unborn(i)' => Unborn(i)
                   /\ Unborn(i)' \/ input'[i].pc = "read" => ~input'[i].mark
<1>3. Done
  <2>1. CASE InputPush(i)
    <3>1. Epochs(i)' /\ ~input'[i].mark
      BY <1>0, <2>1, EpochsByPush
    <3>2. input'[i].pc \in {"read", "push"} /\ (~input'[i].lost => ~input[i].lost)
      <4>1. input' = [input EXCEPT ![i].pc = IF input[i].pending = 1 THEN "read" ELSE "push",
                               ![i].pending = @ - 1, ![i].made = @ + 1,
                               ![i].clock = @ + FrameTicks,
                               ![i].mark = FALSE, ![i].lost = @ \/ LosesMark(queue[i])]
        BY <2>1 DEF InputPush
      <4>2. QED
        BY <1>0, <4>1 DEF InputType
    <3>3. QED
      BY <3>1, <3>2 DEF Unborn
  <2>2. CASE InputRead(i)
    <3>1. PICK n \in 1..MaxBurst, flagged \in BOOLEAN, jump \in Jumps[i] :
            input' = [input EXCEPT ![i].pc = "push", ![i].pending = n,
                                   ![i].clock = Stamp(@ + jump), ![i].mark = flagged,
                                   ![i].epoch = IF flagged THEN @ + 1 ELSE @]
      BY <2>2 DEF InputRead
    <3> DEFINE clock == Stamp(input[i].clock + jump)
               epoch == IF flagged THEN input[i].epoch + 1 ELSE input[i].epoch
    <3>2. /\ clock \in Nat /\ epoch \in Nat /\ input[i].made \in Nat
          /\ input' = [input EXCEPT ![i].pc = "push", ![i].pending = n, ![i].clock = clock,
                                    ![i].mark = flagged, ![i].epoch = epoch]
      <4>1. input[i].clock \in Nat /\ input[i].epoch \in Nat /\ jump \in Int
            /\ input[i].made \in Nat
        BY <1>0, AecAssumption DEF InputType
      <4>2. input[i].clock + jump \in Int
        BY <4>1
      <4>3. clock \in Nat
        BY <4>2 DEF Stamp
      <4>4. QED
        BY <3>1, <4>1, <4>3
    <3>3. flagged \/ epoch = input[i].epoch
      OBVIOUS
    <3> HIDE DEF clock, epoch
    <3>4. /\ input'[i].pc = "push" /\ (input'[i].mark <=> flagged)
          /\ input'[i].clock = clock /\ (input'[i].lost <=> input[i].lost)
          /\ input'[i].epoch = epoch /\ input'[i].made = input[i].made
          /\ input'[i].mark \in BOOLEAN
      BY <1>0, <3>2 DEF InputType
    <3>5. /\ input[i].pc = "read" /\ ~input[i].mark /\ input[i].mark \in BOOLEAN
          /\ queue' = queue
      BY <1>0, <2>2 DEF InputRead, InputAt, Silent, InputType
    <3>6. (Feeds(i)' <=> Feeds(i)) /\ ~Unborn(i)'
      BY <3>4, <3>5 DEF Feeds, Alive, Unborn
    <3>7. /\ NextFrame(i)' \in FrameType
          /\ \A e : Link(e, NextFrame(i)) => Link(e, NextFrame(i)')
      <4>1. NextFrame(i)' \in FrameType
        BY <3>2, <3>4 DEF NextFrame, FrameType
      <4>2. /\ ~NextFrame(i).reset /\ NextFrame(i).epoch = input[i].epoch
            /\ (NextFrame(i)'.reset <=> flagged) /\ NextFrame(i)'.epoch = epoch
        BY <3>4, <3>5 DEF NextFrame
      <4>3. ASSUME NEW e, Link(e, NextFrame(i))
            PROVE  Link(e, NextFrame(i)')
        <5>1. e \in {NoEpoch, input[i].epoch}
          BY <4>2, <4>3 DEF Link
        <5>2. NextFrame(i)'.reset \/ e \in {NoEpoch, NextFrame(i)'.epoch}
          BY <3>3, <4>2, <5>1
        <5>3. QED
          BY <5>2 DEF Link
      <4>4. QED
        BY <4>1, <4>3
    <3>8. ASSUME ~input[i].lost
          PROVE  Linked(Stream(i)') /\ Follows(Stream(i)', Last(i))
      <4>1. Linked(Stream(i)) /\ Follows(Stream(i), Last(i))
        BY <1>0, <3>8 DEF Epochs
      <4>2. CASE Feeds(i)
        <5>1. /\ Stream(i) = Append(queue[i].frames, NextFrame(i))
              /\ Stream(i)' = Append(queue[i].frames, NextFrame(i)')
          BY <3>5, <3>6, <4>2 DEF Stream
        <5>2. QED
          BY <1>0, <3>7, <4>1, <5>1, LastReplaced
      <4>3. CASE ~Feeds(i)
        BY <3>5, <3>6, <4>1, <4>3 DEF Stream
      <4>4. QED
        BY <4>2, <4>3
    <3>9. Epochs(i)'
      BY <1>0, <1>1, <3>4, <3>8, SameHands DEF Epochs
    <3>10. QED
      BY <3>4, <3>6, <3>9
  <2>3. CASE InputOpen(i) /\ input'[i].pc = "read"
    <3>1. /\ Unborn(i) /\ queue' = queue
          /\ input'[i].mark = input[i].mark /\ input'[i].lost = input[i].lost
      BY <1>0, <2>3 DEF InputOpen, InputAt, Unborn, InputType
    <3>2. /\ queue[i].frames = <<>> /\ InHand(i) = NoFrame /\ Last(i) = NoEpoch
      BY <1>0, <3>1, UnbornHand
    <3>3. \A f : Linked(<<f>>) /\ Follows(<<f>>, NoEpoch)
      BY DEF Linked, Follows, Link
    <3>4. Stream(i)' = <<>> \/ \E f : Stream(i)' = <<f>>
      BY <3>1, <3>2 DEF Stream
    <3>5. Linked(<<>>) /\ Follows(<<>>, NoEpoch)
      BY DEF Linked, Follows
    <3>6. Epochs(i)'
      BY <1>1, <3>2, <3>3, <3>4, <3>5, SameHands DEF Epochs
    <3>7. ~Unborn(i)' /\ ~input[i].mark
      BY <1>0, <2>3, <3>1 DEF Unborn, Silent
    <3>8. QED
      BY <3>1, <3>6, <3>7
  <2>4. CASE ~InputPush(i) /\ ~InputRead(i) /\ ~(InputOpen(i) /\ input'[i].pc = "read")
    <3>1. input'[i].pc \in {"stop", "finish", "done"} /\ input'[i].lost = input[i].lost
      BY <1>0, <2>4 DEF InputNext, InputSteps, InputOpen, InputLeave, InputReadFails, InputStop,
                        InputFinish, InputType
    <3>2. queue'[i] = queue[i] \/ queue'[i] = FinishProducer(queue[i])
      BY <1>0, <2>4 DEF InputNext, InputSteps, InputOpen, InputLeave, InputReadFails, InputStop,
                        InputFinish
    <3>3. queue'[i].frames = queue[i].frames
      BY <1>0, <3>2, ControlType
    <3>4. ~Feeds(i)' /\ ~Unborn(i)'
      BY <3>1 DEF Feeds, Alive, Unborn
    <3>5. QED
      BY <1>0, <1>1, <3>1, <3>3, <3>4, EpochsStopped
  <2>5. QED
    BY <2>1, <2>2, <2>3, <2>4
<1>4. \A j \in Inputs : Epochs(j)'
  BY <1>2, <1>3
<1>5. Silent'
  <2>1. \A j \in Inputs : /\ Heard(j)' = Heard(j)
                          /\ Unborn(j)' => Unborn(j)
                          /\ Unborn(j)' \/ input'[j].pc = "read" => ~input'[j].mark
    BY <1>0, <1>1, <1>2, <1>3, SameHands DEF Silent
  <2>2. QED
    BY <1>0, <1>1, <2>1 DEF Silent
<1>6. Accepted'
  <2>1. \A j \in Inputs : ~input'[j].lost => ~input[j].lost
    BY <1>1, <1>3
  <2>2. (Iterating' <=> Iterating) /\ (Ahead' <=> Ahead) /\ {"mic", "render"} \subseteq Inputs
    BY <1>1 DEF Iterating, Ahead, Inputs
  <2>3. QED
    BY <1>0, <1>1, <2>1, <2>2 DEF Accepted
<1>7. QED
  BY <1>4, <1>5, <1>6

-----------------------------------------------------------------------------
(* The step of the processing worker: of each input it keeps the frame it  *)
(* has, drops it, or takes the oldest of the queue.                        *)

Keeps(i) ==
  /\ queue'[i] = queue[i] /\ InHand(i)' = InHand(i)
  /\ ~input[i].lost => Behind(i)' \in {Behind(i), Last(i), NoEpoch}

Drops(i) ==
  /\ queue'[i] = queue[i] /\ InHand(i)' = NoFrame
  /\ ~input[i].lost => Behind(i)' \in {Last(i), NoEpoch}

Takes(i) ==
  /\ queue[i].frames # <<>> /\ queue'[i] = Popped(queue[i])
  /\ InHand(i)' = Head(queue[i].frames)
  /\ ~input[i].lost => Behind(i)' \in {Last(i), NoEpoch}

LEMMA EpochsMoved ==
  ASSUME TypeOK, NEW i \in Inputs, Epochs(i), input' = input,
         Keeps(i) \/ Drops(i) \/ Takes(i)
  PROVE  Epochs(i)'
<1>0. /\ queue[i] \in QueueType /\ queue[i].frames \in Seq(FrameType)
      /\ NextFrame(i) \in FrameType /\ Stream(i) \in Seq(FrameType)
  BY Streams
<1>1. NextFrame(i)' = NextFrame(i) /\ (Alive(i)' <=> Alive(i))
  BY DEF NextFrame, Alive
<1>2. SUFFICES ASSUME ~input[i].lost
               PROVE  /\ Linked(Stream(i)') /\ Follows(Stream(i)', Last(i)')
                      /\ InHand(i)' # NoFrame => Link(Behind(i)', InHand(i)')
  BY DEF Epochs
<1>3. /\ Linked(Stream(i)) /\ Follows(Stream(i), Last(i))
      /\ InHand(i) # NoFrame => Link(Behind(i), InHand(i))
  BY <1>2 DEF Epochs
<1>4. \A f : Link(NoEpoch, f) /\ Link(f.epoch, f)
  BY DEF Link
<1>5. queue'[i] = queue[i] => Stream(i)' = Stream(i)
  BY <1>1 DEF Stream, Feeds
<1>6. Follows(Stream(i), NoEpoch)
  BY <1>4 DEF Follows
<1>7. CASE Keeps(i)
  <2>1. CASE InHand(i) = NoFrame
    BY <1>2, <1>3, <1>5, <1>6, <1>7, <2>1 DEF Keeps, Last
  <2>2. CASE InHand(i) # NoFrame
    BY <1>2, <1>3, <1>4, <1>5, <1>7, <2>2 DEF Keeps, Last
  <2>3. QED
    BY <2>1, <2>2
<1>8. CASE Drops(i)
  BY <1>2, <1>3, <1>5, <1>6, <1>8 DEF Drops, Last
<1>9. CASE Takes(i)
  <2> DEFINE f == Head(queue[i].frames)
  <2>1. f \in FrameType /\ Popped(queue[i]).frames = Tail(queue[i].frames)
    BY <1>0, <1>9, HeadTailProperties DEF Takes, Popped, QueueType
  <2>2. f # NoFrame
    BY <2>1, Frames
  <2>3. /\ Stream(i) # <<>> /\ Head(Stream(i)) = f
        /\ Stream(i)' = Tail(Stream(i))
    <3>1. queue'[i].frames = Tail(queue[i].frames) /\ (Feeds(i)' <=> Feeds(i))
      BY <1>0, <1>1, <1>9, <2>1, PoppedQueue DEF Takes, Feeds
    <3>2. CASE Feeds(i)
      <4>1. /\ Stream(i) = Append(queue[i].frames, NextFrame(i))
            /\ Stream(i)' = Append(Tail(queue[i].frames), NextFrame(i))
        BY <1>1, <3>1, <3>2 DEF Stream
      <4>2. queue[i].frames # <<>> /\ queue[i].frames \in Seq(FrameType)
        BY <1>0, <1>9 DEF Takes, QueueType
      <4>3. NextFrame(i) \in FrameType
        BY <1>0
      <4> DEFINE t == Append(queue[i].frames, NextFrame(i))
      <4>4. t # <<>> /\ Head(t) = f /\ Tail(t) = Append(Tail(queue[i].frames), NextFrame(i))
        BY <4>2, <4>3, HeadTailAppend, AppendProperties
      <4>5. QED
        BY <4>1, <4>4
    <3>3. CASE ~Feeds(i)
      BY <1>9, <3>1, <3>3 DEF Stream, Takes
    <3>4. QED
      BY <3>2, <3>3
  <2>4. Linked(Stream(i)') /\ Follows(Stream(i)', f.epoch)
    BY <1>0, <1>3, <2>3, TailLinked
  <2>5. Last(i)' = f.epoch
    BY <1>9, <2>2 DEF Takes, Last
  <2>6. Link(Behind(i)', f)
    BY <1>2, <1>3, <1>4, <1>9, <2>3 DEF Takes, Follows
  <2>7. QED
    BY <1>9, <2>4, <2>5, <2>6 DEF Takes
<1>10. QED
  BY <1>7, <1>8, <1>9

\* An input that is not born gives the worker nothing, and nothing is heard of it.
LEMMA StaysSilent ==
  ASSUME EInv, ProcNext, input' = input,
         \A i \in Inputs : Unborn(i) => Heard(i)' = NoEpoch,
         proc'.pc = "judge" => echo'.render = NoEpoch,
         proc'.pc \in Unheard => echo' = FreshEcho
  PROVE  Silent'
BY DEF EInv, Silent, Unborn

\* The worker's frames, written out.
LEMMA HandFacts ==
  ASSUME EInv
  PROVE  /\ TypeOK /\ Typed /\ Timeline /\ Silent /\ Accepted /\ Stages
         /\ \A i \in Inputs : Epochs(i)
         /\ proc \in ProcessingType /\ queue \in [Inputs -> QueueType]
         /\ input \in [Inputs -> InputType] /\ "mic" \in Inputs /\ "render" \in Inputs
         /\ \A i \in Inputs : i = "mic" \/ i = "render"
         /\ InHand("mic") = proc.mic /\ InHand("render") = proc.render
         /\ Behind("mic") = echo.mic
         /\ Ahead => Behind("render") = proc.match.epoch
         /\ ~Ahead => Behind("render") = echo.render
         /\ \A i \in Inputs : /\ InHand(i) # NoFrame => Last(i) = InHand(i).epoch
                              /\ InHand(i) = NoFrame => Last(i) = Behind(i)
BY DEF EInv, IInv, Typed, TypeOK, Inputs, InHand, Behind, Heard, Last

\* The worker goes on with what it has.
LEMMA EpochsGoOn ==
  ASSUME EInv, ProcNext, input' = input, queue' = queue,
         proc'.mic = proc.mic, proc'.render = proc.render,
         echo' = echo \/ echo' = FreshEcho,
         Ahead' <=> Ahead, Ahead => proc'.match = proc.match,
         proc'.pc = "judge" => echo' = FreshEcho,
         proc'.pc \in Unheard => proc.pc \in Unheard,
         Iterating' /\ proc'.pc # "mic_reset" =>
           \/ echo' = FreshEcho
           \/ Iterating /\ proc.pc # "mic_reset"
           \/ proc.mic # NoFrame /\ ~proc.mic.reset
  PROVE  Accepted' /\ Silent' /\ \A i \in Inputs : Epochs(i)'
<1>0. /\ TypeOK /\ Silent /\ Accepted /\ \A i \in Inputs : Epochs(i)
      /\ FreshEcho.mic = NoEpoch /\ FreshEcho.render = NoEpoch
      /\ "mic" \in Inputs /\ "render" \in Inputs
  BY HandFacts DEF FreshEcho
<1>1. ASSUME NEW i \in Inputs
      PROVE  Keeps(i)
  BY <1>0, <1>1 DEF Keeps, InHand, Behind, Heard
<1>2. \A i \in Inputs : Epochs(i)'
  BY <1>0, <1>1, EpochsMoved
<1>3. Silent'
  BY <1>0, StaysSilent DEF Silent, Heard
<1>4. Accepted'
  <2>1. ~input["mic"].lost /\ proc.mic # NoFrame => Link(echo.mic, proc.mic)
    BY <1>0 DEF Epochs, InHand, Behind, Heard
  <2>2. ~input["mic"].lost /\ Iterating' /\ proc'.pc # "mic_reset" =>
          echo'.mic \in {NoEpoch, proc.mic.epoch}
    BY <1>0, <2>1 DEF Accepted, Link
  <2>3. QED
    BY <1>0, <2>2 DEF Accepted
<1>5. QED
  BY <1>2, <1>3, <1>4

\* The worker has no frame left and nothing to hear it with.
LEMMA EpochsEnd ==
  ASSUME EInv, ProcNext, input' = input, queue' = queue,
         proc'.mic = NoFrame, proc'.render = NoFrame, proc'.match = NoFrame,
         proc'.pc \in Unheard, echo' = FreshEcho
  PROVE  Accepted' /\ Silent' /\ \A i \in Inputs : Epochs(i)'
<1>0. /\ TypeOK /\ \A i \in Inputs : Epochs(i)
      /\ FreshEcho.mic = NoEpoch /\ FreshEcho.render = NoEpoch
  BY HandFacts DEF FreshEcho
<1>1. ~Ahead' /\ ~Iterating' /\ proc'.pc # "judge"
  BY DEF Ahead, Iterating, Unheard
<1>2. ASSUME NEW i \in Inputs
      PROVE  Drops(i)
  BY <1>0, <1>1 DEF Drops, InHand, Behind, Heard
<1>3. \A i \in Inputs : Epochs(i)'
  BY <1>0, <1>2, EpochsMoved
<1>4. Silent'
  BY <1>0, <1>1, StaysSilent DEF Heard
<1>5. Accepted'
  BY <1>1 DEF Accepted
<1>6. QED
  BY <1>3, <1>4, <1>5

\* The worker takes a microphone frame.
LEMMA EpochsTakeMic ==
  ASSUME EInv, ProcNext, input' = input, queue["mic"].frames # <<>>,
         queue' = [queue EXCEPT !["mic"] = Popped(queue["mic"])], proc.mic = NoFrame,
         proc'.mic = Head(queue["mic"].frames), proc'.render = proc.render,
         proc'.match = proc.match, echo' = echo, ~Ahead, ~Ahead',
         proc'.pc \in Unheard => proc.pc \in Unheard,
         proc'.pc # "judge",
         Iterating' /\ proc'.pc # "mic_reset" => ~proc'.mic.reset
  PROVE  Accepted' /\ Silent' /\ \A i \in Inputs : Epochs(i)'
<1>0. /\ TypeOK /\ Silent /\ Accepted /\ \A i \in Inputs : Epochs(i)
      /\ "mic" \in Inputs /\ "render" \in Inputs /\ Last("mic") = echo.mic
      /\ \A i \in Inputs : i = "mic" \/ i = "render"
      /\ queue \in [Inputs -> QueueType]
  BY HandFacts
<1>1. Takes("mic")
  BY <1>0 DEF Takes, InHand, Behind, Heard
<1>2. Keeps("render")
  BY <1>0 DEF Keeps, InHand, Behind, Heard
<1>3. \A i \in Inputs : Epochs(i)'
  BY <1>0, <1>1, <1>2, EpochsMoved
<1>4. Silent'
  BY <1>0, StaysSilent DEF Silent, Heard
<1>5. Accepted'
  <2>1. proc'.mic # NoFrame
    BY <1>0, HeadTailProperties, Frames DEF QueueType
  <2>2. ~input["mic"].lost => Link(echo.mic, proc'.mic)
    BY <1>0, <1>3, <2>1 DEF Epochs, InHand, Behind, Heard
  <2>3. QED
    BY <2>2 DEF Accepted, Link
<1>6. QED
  BY <1>3, <1>4, <1>5

\* The next render frame becomes the candidate; there may be none.
LEMMA EpochsTakeRender ==
  ASSUME EInv, ProcNext, input' = input,
         \/ /\ queue' = queue /\ proc'.render = NoFrame
         \/ /\ queue["render"].frames # <<>>
            /\ queue' = [queue EXCEPT !["render"] = Popped(queue["render"])]
            /\ proc'.render = Head(queue["render"].frames),
         proc'.mic = proc.mic, echo' = echo, ~Ahead,
         ~input["render"].lost => Behind("render")' \in {Last("render"), NoEpoch},
         proc'.pc \in Unheard => proc.pc \in Unheard,
         proc'.pc # "judge",
         Iterating' => Iterating /\ proc.pc # "mic_reset",
         Ahead' /\ ~input["render"].lost => echo.render \in {NoEpoch, proc'.match.epoch}
  PROVE  Accepted' /\ Silent' /\ \A i \in Inputs : Epochs(i)'
<1>0. /\ TypeOK /\ Silent /\ Accepted /\ \A i \in Inputs : Epochs(i)
      /\ "mic" \in Inputs /\ "render" \in Inputs
      /\ \A i \in Inputs : i = "mic" \/ i = "render"
      /\ queue \in [Inputs -> QueueType]
  BY HandFacts
<1>1. Takes("render") \/ Drops("render")
  BY <1>0 DEF Takes, Drops, InHand
<1>2. Keeps("mic")
  BY <1>0 DEF Keeps, InHand, Behind, Heard
<1>3. \A i \in Inputs : Epochs(i)'
  BY <1>0, <1>1, <1>2, EpochsMoved
<1>4. Silent'
  BY <1>0, StaysSilent DEF Silent, Heard
<1>5. Accepted'
  BY <1>0 DEF Accepted
<1>6. QED
  BY <1>3, <1>4, <1>5

LEMMA EpochsByWorker ==
  ASSUME EInv, ProcNext
  PROVE  Accepted' /\ Silent' /\ \A i \in Inputs : Epochs(i)'
<1> USE DEF ProcAt
<1>0. /\ TypeOK /\ Timeline /\ Silent /\ Accepted /\ Stages /\ \A i \in Inputs : Epochs(i)
      /\ proc \in ProcessingType /\ queue \in [Inputs -> QueueType]
      /\ "mic" \in Inputs /\ "render" \in Inputs
      /\ \A i \in Inputs : i = "mic" \/ i = "render"
      /\ InHand("mic") = proc.mic /\ InHand("render") = proc.render
      /\ Behind("mic") = echo.mic
      /\ Ahead => Behind("render") = proc.match.epoch
      /\ ~Ahead => Behind("render") = echo.render
      /\ \A i \in Inputs : /\ InHand(i) # NoFrame => Last(i) = InHand(i).epoch
                           /\ InHand(i) = NoFrame => Last(i) = Behind(i)
  BY HandFacts
<1> DEFINE Goal == Accepted' /\ Silent' /\ \A i \in Inputs : Epochs(i)'
<1>1. input' = input
  BY DEF ProcNext, ProcStart, ProcOpen, ProcFirstMic, ProcFirstRender, ProcAnnounce, ProcLoop,
         ProcCheck, ProcMic, ProcResetByMic, ProcFetch, ProcResetByRender, ProcJudge, ProcPaired,
         ProcUnpaired, ProcProcessed, ProcRejected, ProcRebuild, ProcDeadline, ProcWritten,
         ProcFails, ProcRefreshed, ProcClose
<1>2. /\ proc.pc \in Unheard => echo = FreshEcho
      /\ proc.pc = "judge" => echo.render = NoEpoch
      /\ FreshEcho.mic = NoEpoch /\ FreshEcho.render = NoEpoch
  BY <1>0 DEF Silent, FreshEcho
\* A worker that gives up before it is ready has processed nothing.
<1>3. ASSUME NEW e, EndUnready(e), queue' = queue, echo' = echo, proc.pc \in Unheard
      PROVE  Goal
  <2>1. /\ proc'.mic = NoFrame /\ proc'.render = NoFrame /\ proc'.match = NoFrame
        /\ proc'.pc = "done"
    BY <1>3 DEF EndUnready, NewProcessing
  <2>2. QED
    BY <1>1, <1>2, <1>3, <2>1, EpochsEnd DEF Unheard
<1>4. ASSUME NEW pc \in ProcPcs, GoProc(pc), queue' = queue,
             pc \notin {"record", "process"}, proc.pc \notin {"record", "process"},
             echo' = echo \/ echo' = FreshEcho, pc = "judge" => echo' = FreshEcho,
             pc \in Unheard => proc.pc \in Unheard,
             pc \in {"fetch", "examine", "judge", "rebuild", "deadline", "write"} =>
               \/ echo' = FreshEcho
               \/ Iterating /\ proc.pc # "mic_reset"
               \/ proc.mic # NoFrame /\ ~proc.mic.reset
      PROVE  Goal
  <2>1. /\ proc'.pc = pc /\ proc'.mic = proc.mic /\ proc'.render = proc.render
        /\ proc'.match = proc.match
    BY <1>0, <1>4 DEF GoProc, ProcessingType
  <2>2. ~Ahead /\ ~Ahead'
    BY <1>4, <2>1 DEF Ahead
  <2>3. Iterating' /\ proc'.pc # "mic_reset" =>
          pc \in {"fetch", "examine", "judge", "rebuild", "deadline", "write"}
    BY <1>4, <2>1 DEF Iterating
  <2>4. QED
    BY <1>1, <1>4, <2>1, <2>2, <2>3, EpochsGoOn
<1>5. CASE ProcOpen \/ ProcAnnounce
  <2>1. queue' = queue /\ echo' = echo /\ proc.pc \in {"open", "announce"}
    BY <1>5 DEF ProcOpen, ProcAnnounce
  <2>2. proc.pc \in Unheard /\ ~Ahead
    BY <2>1 DEF Unheard, Ahead
  <2>3. CASE proc' = [proc EXCEPT !.pc = "check", !.ready = "ok"]
    <3>1. /\ proc'.pc = "check" /\ proc'.mic = proc.mic /\ proc'.render = proc.render
          /\ proc'.match = proc.match
      BY <1>0, <2>3 DEF ProcessingType
    <3>2. ~Ahead' /\ ~Iterating' /\ proc'.pc \notin Unheard
      BY <3>1 DEF Ahead, Iterating, Unheard
    <3>3. QED
      BY <1>1, <2>1, <2>2, <3>1, <3>2, EpochsGoOn
  <2>4. CASE GoProc("first_mic")
    BY <1>4, <2>1, <2>2, <2>4 DEF ProcPcs
  <2>5. QED
    BY <1>3, <1>5, <2>1, <2>2, <2>3, <2>4 DEF ProcOpen, ProcAnnounce
<1>6. CASE ProcFirstMic
  <2>1. /\ echo' = echo /\ proc.pc = "first_mic" /\ proc.pc \in Unheard /\ ~Ahead
        /\ proc.mic = NoFrame
    BY <1>0, <1>6 DEF ProcFirstMic, Unheard, Ahead, Stages
  <2>2. CASE PopResult(queue["mic"]) = "Frame"
    <3> DEFINE f == Head(queue["mic"].frames)
    <3>1. /\ proc' = [proc EXCEPT !.pc = "first_render", !.mic = f]
          /\ queue' = [queue EXCEPT !["mic"] = Popped(queue["mic"])]
      BY <1>6, <2>2 DEF ProcFirstMic
    <3> HIDE DEF f
    <3>2. /\ proc'.mic = f /\ proc'.render = proc.render /\ proc'.match = proc.match
          /\ proc'.pc = "first_render"
      BY <1>0, <3>1 DEF ProcessingType
    <3>3. queue["mic"].frames # <<>>
      BY <1>0, <2>2, HasFrame
    <3>4. ~Ahead' /\ ~Iterating'
      BY <3>2 DEF Ahead, Iterating
    <3>5. QED
      BY <1>1, <2>1, <3>1, <3>2, <3>3, <3>4, EpochsTakeMic DEF f
  <2>3. CASE PopResult(queue["mic"]) # "Frame"
    BY <1>3, <1>6, <2>1, <2>3 DEF ProcFirstMic
  <2>4. QED
    BY <2>2, <2>3
<1>7. CASE ProcFirstRender
  <2>1. /\ echo' = echo /\ proc.pc = "first_render" /\ proc.pc \in Unheard /\ ~Ahead
    BY <1>7 DEF ProcFirstRender, Unheard, Ahead
  <2>2. CASE PopResult(queue["render"]) = "Frame"
    <3> DEFINE f == Head(queue["render"].frames)
    <3>1. /\ proc' = [proc EXCEPT !.pc = "announce", !.render = f]
          /\ queue' = [queue EXCEPT !["render"] = Popped(queue["render"])]
      BY <1>7, <2>2 DEF ProcFirstRender
    <3> HIDE DEF f
    <3>2. /\ proc'.render = f /\ proc'.mic = proc.mic /\ proc'.match = proc.match
          /\ proc'.pc = "announce"
      BY <1>0, <3>1 DEF ProcessingType
    <3>3. queue["render"].frames # <<>>
      BY <1>0, <2>2, HasFrame
    <3>4. ~Ahead' /\ ~Iterating'
      BY <3>2 DEF Ahead, Iterating
    <3>5. Behind("render")' = NoEpoch
      BY <1>2, <2>1, <3>4 DEF Behind, Heard
    <3>6. QED
      BY <1>1, <2>1, <3>1, <3>2, <3>3, <3>4, <3>5, EpochsTakeRender DEF f
  <2>3. CASE PopResult(queue["render"]) # "Frame"
    <3>1. /\ queue' = queue
          /\ \/ \E e : EndUnready(e)
             \/ proc' = [proc EXCEPT !.pc = "announce", !.exhausted = TRUE]
      BY <1>7, <2>3 DEF ProcFirstRender
    <3>2. CASE proc' = [proc EXCEPT !.pc = "announce", !.exhausted = TRUE]
      <4>1. /\ proc'.render = proc.render /\ proc'.mic = proc.mic /\ proc'.match = proc.match
            /\ proc'.pc = "announce"
        BY <1>0, <3>2 DEF ProcessingType
      <4>2. ~Ahead' /\ ~Iterating'
        BY <4>1 DEF Ahead, Iterating
      <4>3. QED
        BY <1>1, <2>1, <3>1, <4>1, <4>2, EpochsGoOn
    <3>3. QED
      BY <1>3, <2>1, <3>1, <3>2
  <2>4. QED
    BY <2>2, <2>3
<1>8. CASE ProcMic
  <2>1. /\ echo' = echo /\ proc.pc = "mic" /\ ~Ahead
    BY <1>8 DEF ProcMic, Ahead
  <2>2. CASE proc.mic = NoFrame /\ PopResult(queue["mic"]) = "Frame"
    <3> DEFINE f == Head(queue["mic"].frames)
    <3>1. /\ proc' = [proc EXCEPT !.pc = AfterMic(f), !.mic = f]
          /\ queue' = [queue EXCEPT !["mic"] = Popped(queue["mic"])]
      BY <1>8, <2>2 DEF ProcMic
    <3>2. AfterMic(f) \in {"mic_reset", "fetch"} /\ (AfterMic(f) = "fetch" => ~f.reset)
      BY DEF AfterMic
    <3> HIDE DEF f
    <3>3. /\ proc'.mic = f /\ proc'.render = proc.render /\ proc'.match = proc.match
          /\ proc'.pc = AfterMic(f)
      BY <1>0, <3>1 DEF ProcessingType
    <3>4. queue["mic"].frames # <<>>
      BY <1>0, <2>2, HasFrame
    <3>5. ~Ahead' /\ proc'.pc \notin Unheard /\ proc'.pc # "judge"
          /\ (Iterating' /\ proc'.pc # "mic_reset" => ~proc'.mic.reset)
      BY <3>2, <3>3 DEF Ahead, Unheard
    <3>6. QED
      BY <1>1, <2>1, <2>2, <3>1, <3>3, <3>4, <3>5, EpochsTakeMic DEF f
  <2>3. CASE ~(proc.mic = NoFrame /\ PopResult(queue["mic"]) = "Frame")
    <3>1. /\ queue' = queue
          /\ \/ proc.mic # NoFrame /\ proc.mic.reset /\ GoProc("mic_reset")
             \/ proc.mic # NoFrame /\ ~proc.mic.reset /\ GoProc("fetch")
             \/ GoProc("check") \/ GoProc("final")
      BY <1>8, <2>3 DEF ProcMic, AfterMic
    <3>2. QED
      BY <1>4, <2>1, <3>1 DEF ProcPcs, Unheard
  <2>4. QED
    BY <2>2, <2>3
<1>9. CASE ProcCheck \/ ProcResetByMic \/ ProcResetByRender \/ ProcRebuild \/ ProcDeadline
           \/ ProcFails \/ ProcRefreshed
  <2>1. /\ queue' = queue
        /\ \/ /\ proc.pc \in {"check", "mic_reset", "examine", "rebuild", "write", "refresh"}
              /\ echo' = echo /\ \E pc \in {"final", "mic", "check"} : GoProc(pc)
           \/ /\ proc.pc \in {"mic_reset", "examine", "rebuild"} /\ echo' = FreshEcho
              /\ \E pc \in {"fetch", "judge", "deadline"} : GoProc(pc)
           \/ proc.pc = "deadline" /\ echo' = echo /\ GoProc("write")
    BY <1>9 DEF ProcCheck, ProcResetByMic, ProcResetByRender, ProcRebuild, Rebuild, ProcDeadline,
                ProcFails, ProcRefreshed
  <2>2. QED
    BY <1>4, <2>1 DEF ProcPcs, Unheard, Iterating
<1>10. CASE ProcClose
  <2>1. /\ queue' = queue /\ echo' = FreshEcho /\ proc'.pc = "done"
        /\ proc'.mic = NoFrame /\ proc'.render = NoFrame /\ proc'.match = NoFrame
    BY <1>10 DEF ProcClose, NewProcessing
  <2>2. QED
    BY <1>1, <2>1, EpochsEnd DEF Unheard
<1>11. CASE ProcFetch
  <2> DEFINE found == proc.render # NoFrame
             q == queue["render"]
             taken == IF proc.exhausted \/ PopResult(q) = "Frame" THEN Oldest(q) ELSE NoFrame
             frame == IF found THEN proc.render ELSE taken
             exhausted == IF found THEN proc.exhausted ELSE taken = NoFrame
  <2>1. /\ proc' = [proc EXCEPT !.pc = "examine", !.render = frame, !.exhausted = exhausted]
        /\ echo' = echo /\ proc.pc = "fetch" /\ ~Ahead
    BY <1>11 DEF ProcFetch, Ahead
  <2>2. \/ queue' = queue /\ frame = proc.render
        \/ queue' = queue /\ frame = NoFrame /\ proc.render = NoFrame
        \/ /\ queue' = [queue EXCEPT !["render"] = Popped(q)]
           /\ frame = taken /\ taken # NoFrame /\ proc.render = NoFrame
    BY <1>0, <1>11 DEF ProcFetch
  <2>3. taken # NoFrame => taken = Head(q.frames) /\ q.frames # <<>>
    BY DEF Oldest
  <2> HIDE DEF frame, exhausted, taken
  <2>4. /\ proc'.mic = proc.mic /\ proc'.render = frame /\ proc'.match = proc.match
        /\ proc'.pc = "examine"
    BY <1>0, <2>1 DEF ProcessingType
  <2>5. ~Ahead' /\ proc'.pc \notin Unheard /\ Iterating /\ proc.pc # "mic_reset"
    BY <2>1, <2>4 DEF Ahead, Unheard, Iterating
  <2>6. CASE queue' = queue /\ frame = proc.render
    BY <1>1, <2>1, <2>4, <2>5, <2>6, EpochsGoOn
  <2>7. proc.render = NoFrame => Behind("render")' = Last("render")
    BY <1>0, <2>1, <2>5 DEF Behind, Heard
  <2>8. QED
    BY <1>1, <2>1, <2>2, <2>3, <2>4, <2>5, <2>6, <2>7, EpochsTakeRender
<1>12. CASE ProcJudge
  <2> DEFINE oldest == Oldest(queue["render"])
             q == queue["render"]
  <2>1. /\ echo' = echo /\ ~Ahead /\ proc.pc \in {"examine", "judge"} /\ Iterating
        /\ proc.pc # "mic_reset" /\ (proc.pc = "examine" => ~proc.render.reset)
    BY <1>12 DEF ProcJudge, Ahead, Iterating
  <2>2. \/ /\ proc' = [proc EXCEPT !.pc = "examine", !.render = oldest]
           /\ queue' = [queue EXCEPT !["render"] = TryPopped(q)] /\ proc.render # NoFrame
        \/ /\ proc' = [proc EXCEPT !.pc = "record", !.match = proc.render, !.render = oldest,
                                   !.exhausted = FALSE]
           /\ queue' = [queue EXCEPT !["render"] = TryPopped(q)] /\ proc.render # NoFrame
        \/ proc' = [proc EXCEPT !.pc = "record", !.match = NoFrame] /\ queue' = queue
    BY <1>12 DEF ProcJudge
  <2> HIDE DEF oldest
  <2>3. \/ /\ proc'.pc = "examine" /\ proc'.match = proc.match /\ proc'.render = oldest
           /\ queue' = [queue EXCEPT !["render"] = TryPopped(q)] /\ proc.render # NoFrame
        \/ /\ proc'.pc = "record" /\ proc'.match = proc.render /\ proc'.render = oldest
           /\ queue' = [queue EXCEPT !["render"] = TryPopped(q)] /\ proc.render # NoFrame
        \/ /\ proc'.pc = "record" /\ proc'.match = NoFrame /\ proc'.render = proc.render
           /\ queue' = queue
    BY <1>0, <2>2 DEF ProcessingType
  <2>4. proc'.mic = proc.mic /\ proc'.pc \in {"examine", "record"}
    <3>1. proc'.mic = proc.mic
      BY <1>0, <2>2 DEF ProcessingType
    <3>2. QED
      BY <2>3, <3>1
  <2>5. proc'.pc \notin Unheard /\ proc'.pc # "judge"
    BY <2>4 DEF Unheard
  <2>6. proc.render # NoFrame /\ ~input["render"].lost =>
          echo.render \in {NoEpoch, proc.render.epoch}
    BY <1>0, <1>2, <2>1 DEF Epochs, Link
  <2>7. \/ queue' = [queue EXCEPT !["render"] = TryPopped(q)] =>
             queue' = queue /\ oldest = NoFrame
        \/ queue' = [queue EXCEPT !["render"] = TryPopped(q)] =>
             /\ q.frames # <<>> /\ oldest = Head(q.frames)
             /\ queue' = [queue EXCEPT !["render"] = Popped(q)]
    BY <1>0 DEF TryPopped, Oldest, oldest
  <2>8. CASE proc'.match = NoFrame /\ proc'.render = proc.render /\ queue' = queue
    <3>1. ~Ahead'
      BY <2>8 DEF Ahead
    <3>2. QED
      BY <1>1, <2>1, <2>4, <2>5, <2>8, <3>1, EpochsGoOn
  <2>9. CASE proc'.pc = "examine" /\ proc'.render = oldest /\ proc.render # NoFrame
             /\ queue' = [queue EXCEPT !["render"] = TryPopped(q)]
    <3>1. ~Ahead'
      BY <2>9 DEF Ahead
    <3>2. ~input["render"].lost => Behind("render")' \in {Last("render"), NoEpoch}
      BY <1>0, <2>1, <2>6, <2>9, <3>1 DEF Behind, Heard
    <3>3. QED
      BY <1>1, <2>1, <2>4, <2>5, <2>7, <2>9, <3>1, <3>2, EpochsTakeRender
  <2>10. CASE proc'.pc = "record" /\ proc'.match = proc.render /\ proc'.render = oldest
              /\ proc.render # NoFrame
              /\ queue' = [queue EXCEPT !["render"] = TryPopped(q)]
    <3>1. Ahead' /\ Behind("render")' = proc.render.epoch
      BY <2>10 DEF Ahead, Behind
    <3>2. Behind("render")' = Last("render")
      BY <1>0, <2>10, <3>1
    <3>3. QED
      BY <1>1, <2>1, <2>4, <2>5, <2>6, <2>7, <2>10, <3>1, <3>2, EpochsTakeRender
  <2>11. QED
    BY <2>3, <2>8, <2>9, <2>10
<1>13. CASE ProcPaired
  <2> DEFINE pair == [mic |-> proc.mic.number, render |-> proc.match.number]
  <2>1. /\ proc.pc = "record" /\ proc.match # NoFrame /\ queue' = queue /\ echo' = echo
        /\ proc' = [proc EXCEPT !.pc = "process", !.misses = 0, !.healthy = proc.healthy + 1,
                                !.pair = pair]
    BY <1>13 DEF ProcPaired
  <2> HIDE DEF pair
  <2>2. /\ proc'.mic = proc.mic /\ proc'.render = proc.render /\ proc'.match = proc.match
        /\ proc'.pc = "process"
    BY <1>0, <2>1 DEF ProcessingType
  <2>3. Ahead /\ Ahead' /\ Iterating /\ proc'.pc \notin Unheard
    BY <2>1, <2>2 DEF Ahead, Iterating, Unheard
  <2>4. QED
    BY <1>1, <2>1, <2>2, <2>3, EpochsGoOn
<1>14. CASE ProcUnpaired
  <2>1. /\ proc.pc = "record" /\ proc.match = NoFrame /\ queue' = queue /\ echo' = echo
        /\ proc'.mic = proc.mic /\ proc'.render = proc.render /\ proc'.match = proc.match
        /\ proc'.pc \in {"process", "final"}
    BY <1>0, <1>14 DEF ProcUnpaired, ProcessingType
  <2>2. ~Ahead /\ ~Ahead' /\ Iterating /\ proc'.pc \notin Unheard
    BY <2>1 DEF Ahead, Iterating, Unheard
  <2>3. QED
    BY <1>1, <2>1, <2>2, EpochsGoOn
<1>15. CASE ProcProcessed \/ ProcRejected
  <2>1. /\ proc.pc = "process" /\ queue' = queue /\ echo' = Seen /\ proc.mic # NoFrame
        /\ proc'.mic = proc.mic /\ proc'.render = proc.render /\ proc'.match = proc.match
        /\ proc'.pc \in {"deadline", "rebuild", "final"}
    <3>1. proc.pc = "process" /\ queue' = queue /\ echo' = Seen /\ proc.mic # NoFrame
      BY <1>0, <1>15 DEF ProcProcessed, ProcRejected, Stages, Iterating
    <3>2. CASE ProcProcessed
      <4>1. \E n : proc' = [proc EXCEPT !.pc = "deadline", !.failures = 0, !.streak = n]
        BY <3>2 DEF ProcProcessed
      <4>2. QED
        BY <1>0, <3>1, <4>1 DEF ProcessingType
    <3>3. CASE ProcRejected
      <4>1. \E pc \in {"rebuild", "final"} : \E n :
              proc' = [proc EXCEPT !.pc = pc, !.failures = n, !.healthy = 0, !.streak = 0]
        BY <3>3 DEF ProcRejected
      <4>2. QED
        BY <1>0, <3>1, <4>1 DEF ProcessingType
    <3>4. QED
      BY <1>15, <3>2, <3>3
  <2>2. /\ echo'.mic = proc.mic.epoch
        /\ echo'.render = IF proc.match = NoFrame THEN echo.render ELSE proc.match.epoch
    BY <2>1 DEF Seen
  <2>3. ~Ahead' /\ proc'.pc \notin Unheard /\ proc'.pc # "judge"
        /\ (Ahead <=> proc.match # NoFrame)
    BY <2>1 DEF Ahead, Unheard
  <2>4. Keeps("mic")
    BY <1>0, <2>1, <2>2 DEF Keeps, InHand, Behind, Heard
  <2>5. Keeps("render")
    BY <1>0, <2>1, <2>2, <2>3 DEF Keeps, InHand, Behind, Heard
  <2>6. \A i \in Inputs : Epochs(i)'
    BY <1>0, <1>1, <2>4, <2>5, EpochsMoved
  <2>7. \A i \in Inputs : Unborn(i) => Heard(i)' = NoEpoch
    <3>1. ~Unborn("mic")
      BY <1>0, <2>1, UnbornHand
    <3>2. Unborn("render") => echo'.render = NoEpoch
      BY <1>0, <2>2, UnbornHand DEF Silent, Heard
    <3>3. QED
      BY <1>0, <3>1, <3>2 DEF Heard
  <2>8. Silent'
    BY <1>1, <2>3, <2>7, StaysSilent
  <2>9. Accepted'
    BY <2>1, <2>2, <2>3 DEF Accepted
  <2>10. QED
    BY <2>6, <2>8, <2>9
<1>16. CASE ProcWritten
  <2>1. /\ proc.pc = "write" /\ queue' = queue /\ echo' = echo /\ proc.mic # NoFrame
        /\ proc'.mic = NoFrame /\ proc'.render = proc.render /\ proc'.match = NoFrame
        /\ proc'.pc \in {"refresh", "check"}
    <3>1. proc.pc = "write" /\ queue' = queue /\ echo' = echo /\ proc.mic # NoFrame
      BY <1>0, <1>16 DEF ProcWritten, Stages, Iterating
    <3>2. \E pc \in {"refresh", "check"} :
            proc' = [proc EXCEPT !.pc = pc, !.sequence = proc.sequence + 1, !.mic = NoFrame,
                                 !.match = NoFrame]
      BY <1>16 DEF ProcWritten
    <3>3. QED
      BY <1>0, <3>1, <3>2 DEF ProcessingType
  <2>2. /\ ~Ahead /\ ~Ahead' /\ Iterating /\ ~Iterating'
        /\ proc'.pc \notin Unheard /\ proc'.pc # "judge"
    BY <2>1 DEF Ahead, Iterating, Unheard
  <2>3. Drops("mic")
    BY <1>0, <2>1, <2>2 DEF Drops, InHand, Behind, Heard, Accepted
  <2>4. Keeps("render")
    BY <1>0, <2>1, <2>2 DEF Keeps, InHand, Behind, Heard
  <2>5. \A i \in Inputs : Epochs(i)'
    BY <1>0, <1>1, <2>3, <2>4, EpochsMoved
  <2>6. Silent'
    BY <1>0, <1>1, <2>1, <2>2, StaysSilent DEF Silent, Heard
  <2>7. Accepted'
    BY <2>2 DEF Accepted
  <2>8. QED
    BY <2>5, <2>6, <2>7
<1>17. QED
  BY <1>5, <1>6, <1>7, <1>8, <1>9, <1>10, <1>11, <1>12, <1>13, <1>14, <1>15, <1>16
     DEF ProcNext, ProcStart, ProcLoop

-----------------------------------------------------------------------------
(* The other steps, and the theorem.                                       *)

\* The worker and the canceller stay; a queue loses its frames only when it
\* takes none any more.
LEMMA EpochsStay ==
  ASSUME EInv, proc' = proc, echo' = echo,
         \A i \in Inputs :
           /\ input'[i].lost = input[i].lost /\ input'[i].mark = input[i].mark
           /\ Unborn(i)' <=> Unborn(i)
           /\ input'[i].pc = "read" => input[i].pc = "read"
           /\ \/ queue'[i] = queue[i] /\ input'[i] = input[i]
              \/ ~Feeds(i)' /\ queue'[i].frames \in {queue[i].frames, <<>>}
  PROVE  Accepted' /\ Silent' /\ \A i \in Inputs : Epochs(i)'
<1>0. /\ TypeOK /\ Silent /\ Accepted /\ \A i \in Inputs : Epochs(i)
      /\ "mic" \in Inputs /\ "render" \in Inputs
  BY HandFacts
<1>1. ASSUME NEW i \in Inputs
      PROVE  Epochs(i)'
  <2>1. CASE queue'[i] = queue[i] /\ input'[i] = input[i]
    <3>1. Stream(i)' = Stream(i)
      BY <2>1 DEF Stream, Feeds, Alive, NextFrame
    <3>2. QED
      BY <1>0, <3>1, SameHands DEF Epochs
  <2>2. CASE ~Feeds(i)' /\ queue'[i].frames \in {queue[i].frames, <<>>}
    BY <1>0, <2>2, EpochsStopped
  <2>3. QED
    BY <2>1, <2>2
<1>2. Silent'
  BY <1>0, SameHands DEF Silent
<1>3. Accepted'
  BY <1>0 DEF Accepted, Iterating, Ahead
<1>4. QED
  BY <1>1, <1>2, <1>3

LEMMA EpochsByCommand ==
  ASSUME EInv, BeginStart \/ BeginStop \/ CallerSteps
  PROVE  Accepted' /\ Silent' /\ \A i \in Inputs : Epochs(i)'
<1>0. /\ TypeOK /\ Typed /\ Silent /\ Accepted /\ \A i \in Inputs : Epochs(i)
      /\ proc \in ProcessingType /\ queue \in [Inputs -> QueueType]
      /\ input \in [Inputs -> InputType]
  BY HandFacts
<1>1. CASE UNCHANGED <<queue, input, proc, echo>>
  BY <1>1, EpochsStay DEF Unborn
<1>2. CASE JoinRun
  <2>1. /\ UNCHANGED <<input, proc, echo>> /\ \A i \in Inputs : input[i].pc = "done"
        /\ queue' = [i \in Inputs |-> Clear(queue[i])]
    BY <1>2 DEF JoinRun, WorkersEnded, InputEnded
  <2>2. \A i \in Inputs : queue'[i].frames = <<>> /\ ~Feeds(i)'
    BY <1>0, <2>1, ControlType DEF Feeds, Alive
  <2>3. QED
    BY <2>1, <2>2, EpochsStay DEF Unborn
<1>3. ASSUME NEW i \in Inputs, SpawnInput(i)
      PROVE  Accepted' /\ Silent' /\ \A j \in Inputs : Epochs(j)'
  <2>1. /\ UNCHANGED <<queue, proc, echo>> /\ input' = [input EXCEPT ![i].pc = "open"]
        /\ input[i].pc = "none"
    BY <1>0, <1>3 DEF SpawnInput, CallerAt, Typed, Launching, NewInput, Inputs
  <2>2. ASSUME NEW j \in Inputs
        PROVE  /\ input'[j].lost = input[j].lost /\ input'[j].mark = input[j].mark
               /\ Unborn(j)' <=> Unborn(j)
               /\ input'[j].pc = "read" => input[j].pc = "read"
               /\ input'[j] = input[j] \/ ~Feeds(j)'
    <3>1. CASE j = i
      BY <1>0, <2>1, <3>1 DEF Unborn, Feeds, Alive, InputType
    <3>2. CASE j # i
      BY <1>0, <2>1, <3>2 DEF Unborn
    <3>3. QED
      BY <3>1, <3>2
  <2>3. QED
    BY <2>1, <2>2, EpochsStay
<1>4. CASE SpawnProcessing
  <2>1. /\ UNCHANGED <<queue, input, echo>> /\ proc'.pc = "open" /\ proc.pc = "none"
        /\ proc'.mic = proc.mic /\ proc'.render = proc.render /\ proc'.match = proc.match
    BY <1>0, <1>4 DEF SpawnProcessing, GoProc, CallerAt, Typed, Launching, ProcessingType,
                      NewProcessing
  <2>2. ~Ahead /\ ~Ahead' /\ ~Iterating' /\ proc.pc \in Unheard
    BY <2>1 DEF Ahead, Iterating, Unheard
  <2>3. ASSUME NEW i \in Inputs
        PROVE  Epochs(i)'
    <3>1. Keeps(i)
      BY <2>1, <2>2 DEF Keeps, InHand, Behind, Heard
    <3>2. QED
      BY <1>0, <2>1, <3>1, EpochsMoved
  <2>4. Silent'
    BY <1>0, <2>1, <2>2 DEF Silent, Heard, Unborn
  <2>5. Accepted'
    BY <2>2 DEF Accepted
  <2>6. QED
    BY <2>3, <2>4, <2>5
<1>5. CASE Resolve /\ ~UNCHANGED <<queue, input, proc, echo>>
  <2>1. /\ queue' = [i \in Inputs |-> NewQueue] /\ input' = [i \in Inputs |-> NewInput]
        /\ proc' = NewProcessing /\ echo' = FreshEcho
    BY <1>5 DEF Resolve
  <2>2. /\ proc'.pc = "none" /\ proc'.mic = NoFrame /\ proc'.render = NoFrame
        /\ proc'.match = NoFrame /\ echo'.mic = NoEpoch /\ echo'.render = NoEpoch
        /\ \A i \in Inputs : /\ queue'[i].frames = <<>> /\ input'[i].pc = "none"
                             /\ ~input'[i].mark
    BY <2>1 DEF NewProcessing, FreshEcho, NewQueue, NewInput
  <2>3. ~Ahead' /\ ~Iterating'
    BY <2>2 DEF Ahead, Iterating
  <2>4. ASSUME NEW i \in Inputs
        PROVE  Epochs(i)'
    <3>1. Stream(i)' = <<>> /\ InHand(i)' = NoFrame
      BY <2>2 DEF Stream, Feeds, Alive, InHand
    <3>2. QED
      BY <3>1 DEF Epochs, Linked, Follows
  <2>5. Silent'
    BY <2>1, <2>2 DEF Silent, Heard
  <2>6. Accepted'
    BY <2>3 DEF Accepted
  <2>7. QED
    BY <2>4, <2>5, <2>6
<1>6. QED
  BY <1>1, <1>2, <1>3, <1>4, <1>5 DEF BeginStart, BeginStop, CallerSteps, StartSteps, SetStopping,
     RequestStop, TakeRun, SetStopped, Resolve, ResetStop, ResetFailure, SpawnFails, InstallRun,
     WaitRun, WaitReady, FinishStart

LEMMA EpochsByFailure ==
  ASSUME EInv, NEW t \in Threads, RecordFailure(t)
  PROVE  Accepted' /\ Silent' /\ \A i \in Inputs : Epochs(i)'
<1>0. TypeOK /\ queue \in [Inputs -> QueueType]
  BY HandFacts
<1>1. /\ UNCHANGED <<input, proc, echo>>
      /\ \A i \in Inputs : queue'[i] \in {queue[i], Fail(queue[i])}
  BY <1>0 DEF RecordFailure, Exchange, RaiseStop, FailQueues, Publish
<1>2. ASSUME NEW i \in Inputs, queue'[i] # queue[i]
      PROVE  ~Feeds(i)' /\ queue'[i].frames = <<>>
  BY <1>0, <1>1, <1>2, ControlType DEF Feeds
<1>3. QED
  BY <1>1, <1>2, EpochsStay DEF Unborn

LEMMA InitEpochs == Init => EInv
<1> SUFFICES ASSUME Init
             PROVE  EInv
  OBVIOUS
<1>1. /\ proc.pc = "none" /\ proc.mic = NoFrame /\ proc.render = NoFrame
      /\ proc.match = NoFrame /\ echo = FreshEcho
      /\ echo.mic = NoEpoch /\ echo.render = NoEpoch
      /\ \A i \in Inputs : queue[i].frames = <<>> /\ input[i].pc = "none" /\ ~input[i].mark
  BY DEF Init, NewProcessing, FreshEcho, NewQueue, NewInput
<1>2. ASSUME NEW i \in Inputs
      PROVE  Epochs(i)
  <2>1. Stream(i) = <<>> /\ InHand(i) = NoFrame
    BY <1>1 DEF Stream, Feeds, Alive, InHand
  <2>2. QED
    BY <2>1 DEF Epochs, Linked, Follows
<1>3. Silent /\ Accepted
  BY <1>1 DEF Silent, Accepted, Heard, Iterating, Ahead
<1>4. QED
  BY <1>2, <1>3, InitInv DEF EInv

LEMMA NextEpochs == EInv /\ [Next]_vars => EInv'
<1> SUFFICES ASSUME EInv, [Next]_vars
             PROVE  EInv'
  OBVIOUS
<1>1. IInv'
  BY NextInv DEF EInv
<1>2. CASE UNCHANGED vars
  BY <1>1, <1>2, EpochsStay DEF EInv, vars, Unborn
<1>3. CASE Next
  BY <1>1, <1>3, EpochsByInput, EpochsByWorker, EpochsByCommand, EpochsByFailure DEF EInv, Next
<1>4. QED
  BY <1>2, <1>3

\* EchoSeesOneEpoch: one echo canceller never processes frames from both sides
\* of a discontinuity of either input, whatever the queues discard, unless an
\* overflow discarded the frame that marked it: a mark is looked at before the
\* frame that carries it is processed, and the first frame after a
\* discontinuity carries one (FrameAccumulator::push_packet, reset_epoch,
\* select_render_frame, rebuild_echo).
THEOREM OneEpochCorrect == Spec => EchoSeesOneEpoch
<1>1. ASSUME EInv, [Next]_vars, echo' # echo, echo' # FreshEcho,
             \A i \in Inputs : ~input[i].lost
      PROVE  /\ echo.mic \in {NoEpoch, echo'.mic}
             /\ echo.render \in {NoEpoch, echo'.render}
  <2>0. Accepted /\ "mic" \in Inputs /\ "render" \in Inputs
    BY <1>1, HandFacts
  <2>1. ProcProcessed \/ ProcRejected
    <3>1. ASSUME NEW i \in Inputs, InputNext(i)
          PROVE  FALSE
      BY <1>1, <3>1 DEF InputNext, InputSteps, InputOpen, InputLeave, InputRead, InputReadFails,
                        InputPush, InputStop, InputFinish
    <3>2. ASSUME NEW t \in Threads, RecordFailure(t)
          PROVE  FALSE
      BY <1>1, <3>2 DEF RecordFailure, Exchange, RaiseStop, FailQueues, Publish
    <3>3. ~(BeginStart \/ BeginStop \/ CallerSteps)
      <4>1. \A i \in Inputs : ~SpawnInput(i)
        BY <1>1 DEF SpawnInput
      <4>2. QED
        BY <1>1, <4>1 DEF BeginStart, BeginStop, CallerSteps, StartSteps, SetStopping, RequestStop,
           TakeRun, JoinRun, SetStopped, Resolve, ResetStop, ResetFailure, SpawnFails,
           SpawnProcessing, InstallRun, WaitRun, WaitReady, FinishStart
    <3>4. ~(ProcStart \/ ProcClose)
      BY <1>1 DEF ProcStart, ProcOpen, ProcFirstMic, ProcFirstRender, ProcAnnounce, ProcClose
    <3>5. ~(ProcCheck \/ ProcMic \/ ProcResetByMic \/ ProcFetch \/ ProcResetByRender \/ ProcJudge
            \/ ProcPaired \/ ProcUnpaired \/ ProcRebuild \/ ProcDeadline \/ ProcWritten
            \/ ProcFails \/ ProcRefreshed)
      BY <1>1 DEF ProcCheck, ProcMic, ProcResetByMic, ProcFetch, ProcResetByRender, ProcJudge,
                  ProcPaired, ProcUnpaired, ProcRebuild, Rebuild, ProcDeadline, ProcWritten,
                  ProcFails, ProcRefreshed
    <3>6. Next
      BY <1>1 DEF vars
    <3>7. QED
      BY <3>1, <3>2, <3>3, <3>4, <3>5, <3>6 DEF Next, ProcNext, ProcLoop
  <2>2. proc.pc = "process" /\ echo' = Seen
    BY <2>1 DEF ProcProcessed, ProcRejected, ProcAt
  <2>3. Iterating /\ (Ahead <=> proc.match # NoFrame)
    BY <2>2 DEF Iterating, Ahead
  <2>4. /\ echo'.mic = proc.mic.epoch
        /\ echo'.render = IF proc.match = NoFrame THEN echo.render ELSE proc.match.epoch
    BY <2>2 DEF Seen
  <2>5. QED
    BY <1>1, <2>0, <2>2, <2>3, <2>4 DEF Accepted
<1>2. EInv /\ [Next]_vars =>
        [(\A i \in Inputs : ~input[i].lost) /\ echo' # FreshEcho =>
           /\ echo.mic \in {NoEpoch, echo'.mic}
           /\ echo.render \in {NoEpoch, echo'.render}]_echo
  BY <1>1
<1>3. QED
  BY <1>2, InitEpochs, NextEpochs, PTL DEF Spec, EchoSeesOneEpoch
=============================================================================
