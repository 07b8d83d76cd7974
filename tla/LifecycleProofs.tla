--------------------------- MODULE LifecycleProofs --------------------------
(***************************************************************************)
(* One caller and workers that answer every join: the runs of BypassEngine *)
(* follow one another, and the engine implements EngineLifecycle.  For     *)
(* every bound, and with spawns and ready messages that fail.              *)
(*                                                                         *)
(* With two callers most of this is false (bypass_race_running), and so it *)
(* is when a worker outlives its join (bypass_slow_join).                  *)
(***************************************************************************)
EXTENDS ConservationProofs

LaunchPcs == {"reset_stop", "reset_failure", "spawn_sink", "wait_sink", "spawn_capture", "install",
              "wait_capture", "finish_start"}
ClearingPcs == {"request_stop", "take", "join_capture", "join_sink", "clear"}

\* The handles of a run whose two workers were spawned.
Handed(r) == [run |-> r, capture |-> TRUE, sink |-> TRUE]

SinkQuiet(r) == sink[r].pc \in {"none", "done"} /\ Free(SinkThread(r))
CaptureQuiet(r) == capture[r].pc \in {"none", "done"} /\ Free(CaptureThread(r))

-----------------------------------------------------------------------------
(* The run: there is only the last one, and its handles are in the slot or *)
(* with the command.                                                       *)

CommandRun(c) ==
  LET me == caller[c]
  IN /\ Holding(c) => me.held.run = lastRun
     /\ Holding(c) \/ me.pc \in {"resolve", "set_stopped"} => run = NoHandles
     /\ me.pc \in LaunchPcs \/ me.goal \in {"park", "abort"} =>
          me.target = lastRun /\ lastRun # NoRun
     /\ me.pc \in {"wait_capture", "finish_start"} => run = Handed(lastRun)
     /\ me.pc \in {"reset_stop", "reset_failure", "spawn_sink", "clear"} =>
          ~me.held.capture /\ ~me.held.sink
     /\ me.pc \in {"wait_sink", "spawn_capture", "join_sink"} => ~me.held.capture
     /\ me.pc = "install" /\ me.goal # "park" => me.held = Handed(lastRun)
     /\ me.pc = "install" /\ me.goal = "park" => ~me.held.sink /\ ~me.held.capture
     /\ ~me.joinFailed

OneRun ==
  /\ snapshot.run = lastRun
  /\ run # NoHandles => run.run = lastRun
  /\ \A c \in Callers : CommandRun(c)

HoldsSink(r) ==
  \/ run.run = r /\ run.sink
  \/ \E c \in Callers : Holding(c) /\ caller[c].held.run = r /\ caller[c].held.sink

HoldsCapture(r) ==
  \/ run.run = r /\ run.capture
  \/ \E c \in Callers : Holding(c) /\ caller[c].held.run = r /\ caller[c].held.capture

\* Whoever is to end a worker that lives has its handle.
Owned ==
  \A r \in Runs : (SinkQuiet(r) \/ HoldsSink(r)) /\ (CaptureQuiet(r) \/ HoldsCapture(r))

Untouched(r) == sink[r] = NewSink /\ capture[r] = NewCapture /\ queue[r] = NewQueue
ResetPcs == {"reset_stop", "reset_failure", "spawn_sink"}

\* The run of a start has no past.
Fresh ==
  /\ \A r \in Runs : r > lastRun => Untouched(r)
  /\ \A c \in Callers : caller[c].pc \in ResetPcs =>
       \A r \in Runs : r = lastRun => Untouched(r)

-----------------------------------------------------------------------------
(* The lifecycle state: where the command can be in each.                  *)

CommandPhase(c) ==
  LET me == caller[c]
      phase == snapshot.state
  IN /\ me.pc = "idle" => me = IdleCaller
     /\ me.pc # "idle" => me.goal # "none"
     /\ me.goal = "stop" => me.target = NoRun
     /\ me.pc \in LaunchPcs => me.goal \in {"start", "park"} /\ phase \in {"Starting", "Failed"}
     /\ me.pc \in {"reset_stop", "reset_failure"} =>
          phase = "Starting" /\ snapshot.error = "None"
     /\ me.goal \in {"park", "abort"} => phase \in {"Starting", "Failed"}
     /\ me.goal = "park" => me.pc \in {"join_capture", "join_sink", "install"}
     /\ me.goal = "abort" => me.pc \in ClearingPcs
     /\ me.pc = "resolve" => me.goal = "start" /\ phase \in {"Stopped", "Failed"}
     /\ me.pc \in ClearingPcs /\ me.goal = "start" => phase = "Failed"
     /\ me.pc \in ClearingPcs \union {"set_stopped"} /\ me.goal = "stop" =>
          phase \in {"Stopping", "Failed"}
     /\ me.pc = "set_stopped" => me.goal = "stop"
     /\ me.pc = "set_stopping" => phase \notin {"Stopped", "Stopping"} /\ me.goal = "stop"
     /\ phase = "Running" => me.pc \in {"idle", "set_stopping"}
     /\ phase = "Stopping" => me.pc \in ClearingPcs \union {"set_stopped"}
     /\ phase = "Stopped" => me.pc \in {"idle", "resolve"}

Phases ==
  /\ \A c \in Callers : CommandPhase(c)
  /\ snapshot.state = "Stopped" => run = NoHandles
  /\ snapshot.state = "Failed" \/ snapshot.error # "None" => terminalFailure

-----------------------------------------------------------------------------
(* Failures: one thread at a time is past the exchange.                    *)

InRecord(t) == fault[t].step \in {"request", "fail_queue", "publish"}

OneFailure ==
  \A t \in Threads :
    /\ InRecord(t) => /\ terminalFailure /\ snapshot.error = "None"
                      /\ \A u \in Threads \ {t} : ~InRecord(u)
    /\ ~Free(t) => fault[t].run = lastRun

Faulty ==
  /\ \A c \in Callers :
       ~Free(CallerThread(c)) => \/ caller[c].pc = "join_capture" /\ caller[c].goal = "park"
                                 \/ caller[c].pc = "request_stop" /\ caller[c].goal = "abort"
  /\ \A r \in Runs : /\ ~Free(CaptureThread(r)) => capture[r].pc \in {"stop", "finish"}
                     /\ ~Free(SinkThread(r)) => sink[r].pc \in {"close", "final", "done"}

-----------------------------------------------------------------------------
(* Service: a worker stops serving only when it is told to or has failed.  *)

Requested == stopRequested => terminalFailure

CommandServes(c) ==
  LET me == caller[c]
  IN /\ me.pc = "reset_failure" => ~stopRequested
     /\ me.pc \in LaunchPcs \ {"reset_stop", "reset_failure"} /\ me.goal # "park" => Requested
     /\ me.pc \in {"spawn_capture", "install", "wait_capture", "finish_start"} /\ me.goal # "park"
          => sink[lastRun].ready = "ok"
     /\ me.pc = "finish_start" => capture[lastRun].ready = "ok"

\* What the ready message of a worker says of it.
Announced(r) ==
  /\ sink[r].pc \in {"none", "open"} => sink[r].ready = "pending"
  /\ capture[r].pc \in {"none", "open"} => capture[r].ready = "pending"
  /\ sink[r].ready = "pending" => sink[r].pc \in {"none", "open"} /\ sink[r].sequence = 0
  /\ capture[r].ready = "pending" => capture[r].pc \in {"none", "open"}
  /\ sink[r].ready = "error" => sink[r].pc = "done"
  /\ sink[r].pc = "open" \/ capture[r].pc = "open" => Listening(r)
  /\ sink[r].pc \in {"none", "open"} => capture[r].pc = "none"

WorkersServe(r) ==
  /\ queue[r].failed => terminalFailure
  /\ sink[r].ready = "ok" /\ ~terminalFailure /\ ~queue[r].producerDone =>
       Serving(r) \/ (sink[r].pc = "close" /\ ~Free(SinkThread(r)))
  /\ capture[r].ready = "ok" /\ ~terminalFailure /\ ~stopRequested =>
       capture[r].pc \in {"check", "read", "push", "count"} \/ ~Free(CaptureThread(r))

Served ==
  /\ \A c \in Callers : CommandServes(c)
  /\ snapshot.state = "Running" =>
       /\ Requested /\ run = Handed(lastRun)
       /\ sink[lastRun].ready = "ok" /\ capture[lastRun].ready = "ok"
  /\ \A r \in Runs : Announced(r)
  /\ \A r \in Runs : r = lastRun => WorkersServe(r)

-----------------------------------------------------------------------------
(* Accounts: the snapshot counts what the last run has done.               *)

Counting(r) == IF capture[r].pc = "count" THEN 1 ELSE 0

Drained(r) ==
  /\ queue[r].frames = <<>>
  /\ capture[r].pc \in {"none", "done"}
  /\ capture[r].made = sink[r].sequence + queue[r].discarded

RunAccounts(r) ==
  /\ snapshot.output + Counting(r) = capture[r].made
  /\ snapshot.accepted = sink[r].sequence
  /\ sink[r].pc \in {"close", "final", "done"} /\ Free(SinkThread(r)) /\ ~terminalFailure =>
       Drained(r)

Settled ==
  run = NoHandles /\ (\A c \in Callers : ~Holding(c)) /\ ~terminalFailure =>
    snapshot.output = snapshot.accepted + snapshot.discarded

Accounts ==
  /\ \A r \in Runs : r = lastRun => RunAccounts(r)
  /\ \A c \in Callers :
       caller[c].pc \in {"reset_stop", "reset_failure", "spawn_sink"} =>
         snapshot.output = 0 /\ snapshot.accepted = 0 /\ snapshot.discarded = 0
  /\ Settled

Single == OneRun /\ Owned /\ Fresh /\ Phases /\ OneFailure /\ Faulty /\ Served /\ Accounts

LInv == CInv /\ Single

-----------------------------------------------------------------------------
(* What the invariant says, in the form in which the steps need it.        *)

\* The threads of a run and of a command are different threads.
LEMMA ThreadsApart ==
  /\ \A r \in Runs : SinkThread(r) \in Threads /\ CaptureThread(r) \in Threads
  /\ \A r, x \in Runs : /\ SinkThread(r) # CaptureThread(x)
                        /\ r # x => SinkThread(r) # SinkThread(x)
                        /\ r # x => CaptureThread(r) # CaptureThread(x)
  /\ \A c \in Callers : CallerThread(c) \in Threads
  /\ \A c \in Callers, r \in Runs : /\ CallerThread(c) # SinkThread(r)
                                    /\ CallerThread(c) # CaptureThread(r)
BY DEF SinkThread, CaptureThread, CallerThread, Threads, WorkerThreads

LEMMA SoleFacts ==
  ASSUME NEW c, Callers = {c}, LInv
  PROVE  /\ TypeOK /\ HandlesNamed /\ Sound /\ Single
         /\ c \in Callers /\ caller[c] \in CallerType /\ caller[c].held \in HandleType
         /\ CommandRun(c) /\ CommandPhase(c) /\ CommandServes(c) /\ CommandSound(c)
         /\ lastRun \in Nat /\ lastRun <= MaxRuns /\ MaxRuns \in Nat
         /\ \A r \in Runs : r \in Nat /\ r # NoRun
         /\ run \in HandleType /\ NoHandles.run = NoRun
         /\ ~NoHandles.sink /\ ~NoHandles.capture
         /\ snapshot \in SnapshotType
<1>1. c \in Callers
  OBVIOUS
<1>2. /\ TypeOK /\ HandlesNamed /\ Ownership /\ Sound
      /\ caller[c] \in CallerType /\ caller[c].held \in HandleType /\ CommandSound(c)
  BY <1>1, CommandFacts DEF LInv
<1>3. Single /\ CommandRun(c) /\ CommandPhase(c) /\ CommandServes(c)
  BY <1>1 DEF LInv, Single, OneRun, Phases, Served
<1>4. lastRun \in Nat /\ lastRun <= MaxRuns /\ MaxRuns \in Nat /\ run \in HandleType
      /\ snapshot \in SnapshotType
  BY <1>2, EngineAssumption DEF TypeOK
<1>5. \A r \in Runs : r \in Nat /\ r # NoRun
  BY EngineAssumption DEF Runs, NoRun
<1>6. NoHandles.run = NoRun /\ ~NoHandles.sink /\ ~NoHandles.capture
  BY DEF NoHandles
<1>7. QED
  BY <1>1, <1>2, <1>3, <1>4, <1>5, <1>6

\* A run with a live worker is the last one, somebody has its handles, and the
\* engine does not say Stopped.
LEMMA LiveIsLast ==
  ASSUME NEW c, Callers = {c}, LInv, NEW r \in Runs, ~SinkQuiet(r) \/ ~CaptureQuiet(r)
  PROVE  /\ r = lastRun
         /\ run # NoHandles \/ Holding(c)
         /\ snapshot.state # "Stopped"
         /\ caller[c].pc \notin {"resolve", "set_stopped", "reset_stop", "reset_failure",
                                 "spawn_sink", "clear"}
<1>0. /\ CommandRun(c) /\ CommandPhase(c) /\ OneRun /\ Owned /\ Phases
      /\ r # NoRun /\ NoHandles.run = NoRun
  BY SoleFacts DEF Single
<1>1. HoldsSink(r) \/ HoldsCapture(r)
  BY <1>0 DEF Owned
<1>2. CASE run.run = r
  <2>1. run # NoHandles
    BY <1>0, <1>2
  <2>2. caller[c].pc \notin HoldingPcs \union {"resolve", "set_stopped"}
    BY <1>0, <2>1 DEF CommandRun, Holding
  <2>3. QED
    BY <1>0, <1>2, <2>1, <2>2 DEF OneRun, Phases, HoldingPcs
<1>3. CASE Holding(c) /\ caller[c].held.run = r /\ (caller[c].held.sink \/ caller[c].held.capture)
  <2>1. caller[c].pc \in HoldingPcs \ {"reset_stop", "reset_failure", "spawn_sink", "clear"}
    BY <1>0, <1>3 DEF CommandRun, Holding
  <2>2. snapshot.state # "Stopped"
    BY <1>0, <2>1 DEF CommandPhase, HoldingPcs
  <2>3. QED
    BY <1>0, <1>3, <2>1, <2>2 DEF CommandRun, HoldingPcs
<1>4. QED
  BY <1>1, <1>2, <1>3 DEF HoldsSink, HoldsCapture

-----------------------------------------------------------------------------
(* The output worker: the step of its thread, field by field.              *)

SinkFrame(r) ==
  /\ UNCHANGED <<stopRequested, terminalFailure, run, lastRun, capture, caller>>
  /\ Free(SinkThread(r))
  /\ \A x \in Runs : x # r => sink'[x] = sink[x] /\ queue'[x] = queue[x]
  /\ \A t \in Threads \ {SinkThread(r)} : fault'[t] = fault[t]
  /\ snapshot'.state = snapshot.state /\ snapshot'.run = snapshot.run
  /\ snapshot'.error = snapshot.error /\ snapshot'.output = snapshot.output
  /\ snapshot'.discarded = snapshot.discarded
  /\ queue'[r].producerDone = queue[r].producerDone /\ queue'[r].failed = queue[r].failed
  /\ queue'[r].discarded = queue[r].discarded

SinkCalm(r) == fault'[SinkThread(r)] = NoFault
SinkRaised(r) ==
  fault'[SinkThread(r)] = [step |-> "exchange", error |-> "SinkFailure", run |-> r]

SinkMove(r) ==
  LET s == sink[r]
      t == sink'[r]
      silent == t.sequence = s.sequence /\ snapshot'.accepted = snapshot.accepted
      goes(from, to) == s.pc = from /\ t.pc = to /\ t.ready = s.ready
  IN \/ /\ s.pc = "open" /\ t.pc = "done" /\ t.ready = "error"
        /\ silent /\ SinkCalm(r) /\ queue' = queue
     \/ /\ s.pc = "open" /\ t.pc = "loop" /\ t.ready = "ok"
        /\ silent /\ SinkCalm(r) /\ queue' = queue
     \/ goes("loop", "write") /\ silent /\ SinkCalm(r)
     \/ /\ goes("loop", "close") /\ silent /\ SinkCalm(r) /\ queue' = queue
        /\ PopResult(queue[r]) = "Finished"
     \/ /\ goes("write", "loop") \/ goes("write", "refresh")
        /\ t.sequence = s.sequence + 1 /\ snapshot'.accepted = snapshot.accepted + 1
        /\ SinkCalm(r) /\ queue' = queue
     \/ /\ goes("write", "close") \/ goes("refresh", "close")
        /\ silent /\ SinkRaised(r) /\ queue' = queue
     \/ goes("refresh", "loop") /\ silent /\ SinkCalm(r) /\ queue' = queue
     \/ /\ goes("close", "final") /\ silent /\ queue' = queue
        /\ SinkCalm(r) \/ SinkRaised(r)
     \/ /\ goes("final", "done") /\ silent /\ queue' = queue
        /\ SinkCalm(r) \/ (SinkRaised(r) /\ ~terminalFailure)

LEMMA SinkMoves ==
  ASSUME NEW c, Callers = {c}, LInv, NEW r \in Runs, SinkNext(r)
  PROVE  SinkFrame(r) /\ SinkMove(r)
<1>0. /\ TypeOK /\ sink[r] \in SinkType /\ queue[r] \in QueueOf
      /\ SinkThread(r) \in Threads /\ snapshot \in SnapshotType
  BY SoleFacts, RunTypes, ThreadsApart
<1>1. SinkFrame(r)
  <2>1. UNCHANGED <<stopRequested, terminalFailure, run, lastRun, capture, caller>>
    BY DEF SinkNext, SinkOpen, SinkPop, SinkAccepts, SinkFails, SinkRefreshed, SinkClose, SinkFinal
  <2>2. Free(SinkThread(r))
    BY DEF SinkNext, SinkOpen, SinkPop, SinkAccepts, SinkFails, SinkRefreshed, SinkClose, SinkFinal,
           SinkAt
  <2>3. \A x \in Runs : x # r => sink'[x] = sink[x]
    BY <1>0 DEF SinkNext, SinkOpen, SinkPop, SinkAccepts, SinkFails, SinkRefreshed, SinkClose,
                SinkFinal, TypeOK
  <2>4. queue' = queue \/ queue' = [queue EXCEPT ![r] = Popped(@)]
    BY DEF SinkNext, SinkOpen, SinkPop, SinkAccepts, SinkFails, SinkRefreshed, SinkClose, SinkFinal
  <2>5. /\ \A x \in Runs : x # r => queue'[x] = queue[x]
        /\ queue'[r].producerDone = queue[r].producerDone /\ queue'[r].failed = queue[r].failed
        /\ queue'[r].discarded = queue[r].discarded
    BY <1>0, <2>4 DEF TypeOK, Popped, QueueOf
  <2>6. fault' = fault \/ Raise(SinkThread(r), "SinkFailure", r)
    BY DEF SinkNext, SinkOpen, SinkPop, SinkAccepts, SinkFails, SinkRefreshed, SinkClose, SinkFinal
  <2>7. \A t \in Threads \ {SinkThread(r)} : fault'[t] = fault[t]
    BY <1>0, <2>6 DEF Raise, TypeOK
  <2>8. snapshot' = snapshot \/ snapshot' = [snapshot EXCEPT !.accepted = @ + 1]
    BY DEF SinkNext, SinkOpen, SinkPop, SinkAccepts, SinkFails, SinkRefreshed, SinkClose, SinkFinal
  <2>9. /\ snapshot'.state = snapshot.state /\ snapshot'.run = snapshot.run
        /\ snapshot'.error = snapshot.error /\ snapshot'.output = snapshot.output
        /\ snapshot'.discarded = snapshot.discarded
    BY <1>0, <2>8 DEF SnapshotType
  <2>10. QED
    BY <2>1, <2>2, <2>3, <2>5, <2>7, <2>9 DEF SinkFrame
<1>2. /\ fault' = fault => SinkCalm(r)
      /\ Raise(SinkThread(r), "SinkFailure", r) => SinkRaised(r)
  BY <1>0, <1>1 DEF SinkFrame, Free, SinkCalm, SinkRaised, Raise, TypeOK
<1>3. CASE SinkOpen(r)
  <2>1. sink[r].pc = "open" /\ UNCHANGED <<queue, snapshot, fault>> /\ Announced(r)
    BY <1>3, SoleFacts DEF SinkOpen, SinkAt, Single, Served
  <2>2. \/ sink' = [sink EXCEPT ![r].pc = "done", ![r].ready = "error"]
        \/ sink' = [sink EXCEPT ![r].pc = "loop", ![r].ready = "ok"]
    BY <1>3, <2>1 DEF SinkOpen, Announced
  <2>3. /\ sink'[r].sequence = sink[r].sequence
        /\ \/ sink'[r].pc = "done" /\ sink'[r].ready = "error"
           \/ sink'[r].pc = "loop" /\ sink'[r].ready = "ok"
    BY <1>0, <2>2 DEF TypeOK, SinkType
  <2>4. QED
    BY <1>1, <1>2, <2>1, <2>3 DEF SinkMove
<1>4. CASE SinkPop(r)
  <2>1. sink[r].pc = "loop" /\ UNCHANGED <<snapshot, fault>>
    BY <1>4 DEF SinkPop, SinkAt
  <2>2. CASE sink' = [sink EXCEPT ![r].pc = "write", ![r].frame = Head(queue[r].frames)]
    <3> DEFINE f == Head(queue[r].frames)
    <3>1. sink' = [sink EXCEPT ![r].pc = "write", ![r].frame = f]
      BY <2>2
    <3> HIDE DEF f
    <3>2. sink'[r].sequence = sink[r].sequence /\ sink'[r].pc = "write"
          /\ sink'[r].ready = sink[r].ready
      BY <1>0, <3>1 DEF TypeOK, SinkType
    <3>3. QED
      BY <1>1, <1>2, <2>1, <3>2 DEF SinkMove
  <2>3. CASE /\ sink' = [sink EXCEPT ![r].pc = "close"]
             /\ UNCHANGED queue /\ PopResult(queue[r]) = "Finished"
    <3>1. sink'[r].sequence = sink[r].sequence /\ sink'[r].pc = "close"
          /\ sink'[r].ready = sink[r].ready
      BY <1>0, <2>3 DEF TypeOK, SinkType
    <3>2. QED
      BY <1>1, <1>2, <2>1, <2>3, <3>1 DEF SinkMove
  <2>4. QED
    BY <1>4, <2>2, <2>3 DEF SinkPop
<1>5. CASE SinkAccepts(r)
  <2>1. PICK pc \in {"loop", "refresh"} :
          sink' = [sink EXCEPT ![r].pc = pc, ![r].sequence = @ + 1]
    BY <1>5 DEF SinkAccepts
  <2>2. sink'[r].pc = pc /\ sink'[r].sequence = sink[r].sequence + 1
        /\ sink'[r].ready = sink[r].ready
    BY <1>0, <2>1 DEF TypeOK, SinkType
  <2>3. sink[r].pc = "write" /\ UNCHANGED <<queue, fault>>
        /\ snapshot'.accepted = snapshot.accepted + 1
    BY <1>0, <1>5 DEF SinkAccepts, SinkAt, SnapshotType
  <2>4. QED
    BY <1>1, <1>2, <2>1, <2>2, <2>3 DEF SinkMove
<1>6. CASE SinkFails(r) \/ SinkRefreshed(r) \/ SinkClose(r) \/ SinkFinal(r)
  <2>1. PICK pc \in {"close", "loop", "final", "done"} :
          /\ sink' = [sink EXCEPT ![r].pc = pc]
          /\ \/ /\ pc = "close" /\ sink[r].pc \in {"write", "refresh"}
                /\ Raise(SinkThread(r), "SinkFailure", r)
             \/ pc = "loop" /\ sink[r].pc = "refresh" /\ fault' = fault
             \/ /\ pc = "final" /\ sink[r].pc = "close"
                /\ fault' = fault \/ Raise(SinkThread(r), "SinkFailure", r)
             \/ /\ pc = "done" /\ sink[r].pc = "final"
                /\ \/ fault' = fault
                   \/ ~terminalFailure /\ Raise(SinkThread(r), "SinkFailure", r)
    BY <1>6 DEF SinkFails, SinkRefreshed, SinkClose, SinkFinal, SinkAt
  <2>2. sink'[r].pc = pc /\ sink'[r].sequence = sink[r].sequence
        /\ sink'[r].ready = sink[r].ready
    BY <1>0, <2>1 DEF TypeOK, SinkType
  <2>3. UNCHANGED <<queue, snapshot>>
    BY <1>6 DEF SinkFails, SinkRefreshed, SinkClose, SinkFinal
  <2>4. QED
    BY <1>1, <1>2, <2>1, <2>2, <2>3 DEF SinkMove
<1>7. QED
  BY <1>1, <1>3, <1>4, <1>5, <1>6 DEF SinkNext

\* What the parts say of a sink that is about to move.
LEMMA SinkIsLast ==
  ASSUME NEW c, Callers = {c}, LInv, NEW r \in Runs, SinkNext(r)
  PROVE  /\ r = lastRun /\ ~SinkQuiet(r) /\ snapshot.state # "Stopped"
         /\ run # NoHandles \/ Holding(c)
         /\ caller[c].pc \notin {"resolve", "set_stopped", "reset_stop", "reset_failure",
                                 "spawn_sink", "clear"}
<1>1. ~SinkQuiet(r)
  BY DEF SinkNext, SinkOpen, SinkPop, SinkAccepts, SinkFails, SinkRefreshed, SinkClose, SinkFinal,
         SinkAt, SinkQuiet
<1>2. QED
  BY <1>1, LiveIsLast

\* A step of a worker leaves the command, the handles and the state alone.
LEMMA WorkerLeaves ==
  ASSUME OneRun, Phases, UNCHANGED <<terminalFailure, run, lastRun, caller>>,
         snapshot'.state = snapshot.state, snapshot'.run = snapshot.run,
         snapshot'.error = snapshot.error
  PROVE  OneRun' /\ Phases' /\ (\A r \in Runs : HoldsSink(r)' = HoldsSink(r)
                                                /\ HoldsCapture(r)' = HoldsCapture(r))
BY DEF OneRun, Phases, CommandRun, CommandPhase, Holding, HoldsSink, HoldsCapture

\* A worker of the last run that enters record_failure.
LEMMA WorkerFails ==
  ASSUME OneFailure, TypeOK, NEW t \in Threads, Free(t),
         \A u \in Threads \ {t} : fault'[u] = fault[u],
         \/ fault'[t] = NoFault
         \/ fault'[t].step = "exchange" /\ fault'[t].run = lastRun,
         UNCHANGED <<terminalFailure, lastRun>>, snapshot'.error = snapshot.error
  PROVE  OneFailure' /\ (\A u \in Threads : InRecord(u)' = InRecord(u))
<1>1. ~InRecord(t) /\ ~InRecord(t)'
  BY DEF InRecord, Free, NoFault
<1>2. \A u \in Threads : InRecord(u)' = InRecord(u)
  BY <1>1 DEF InRecord
<1>3. ~Free(t)' => fault'[t].run = lastRun'
  BY DEF Free
<1>4. \A u \in Threads \ {t} : Free(u)' = Free(u)
  BY DEF Free
<1>5. QED
  BY <1>2, <1>3, <1>4 DEF OneFailure

LEMMA SinkKeepsSingle ==
  ASSUME NEW c, Callers = {c}, LInv, NEW r \in Runs, SinkNext(r)
  PROVE  Single'
<1>0. /\ SinkFrame(r) /\ SinkMove(r)
      /\ r = lastRun /\ ~SinkQuiet(r)
      /\ run # NoHandles \/ Holding(c)
      /\ caller[c].pc \notin {"resolve", "set_stopped", "reset_stop", "reset_failure",
                              "spawn_sink", "clear"}
  BY SinkMoves, SinkIsLast
<1>t. /\ \A x \in Runs : SinkThread(x) \in Threads /\ CaptureThread(x) \in Threads
      /\ \A x \in Runs : /\ SinkThread(r) # CaptureThread(x)
                         /\ x # r => SinkThread(r) # SinkThread(x)
      /\ CallerThread(c) \in Threads /\ CallerThread(c) # SinkThread(r)
  BY ThreadsApart
<1>f. /\ TypeOK /\ c \in Callers /\ OneRun /\ Owned /\ Fresh /\ Phases /\ OneFailure /\ Faulty
      /\ Served /\ Accounts /\ Sound /\ lastRun \in Nat
      /\ Announced(r) /\ WorkersServe(r) /\ RunAccounts(r) /\ RunSound(r)
  BY <1>0, SoleFacts DEF Single, Served, Accounts, Sound
<1>1. /\ OneRun' /\ Phases'
      /\ \A x \in Runs : HoldsSink(x)' = HoldsSink(x) /\ HoldsCapture(x)' = HoldsCapture(x)
  BY <1>0, <1>f, WorkerLeaves DEF SinkFrame
<1>2. \A x \in Runs : /\ CaptureQuiet(x)' = CaptureQuiet(x)
                      /\ x # r => SinkQuiet(x)' = SinkQuiet(x)
                      /\ Free(CaptureThread(x))' = Free(CaptureThread(x))
                      /\ x # r => Free(SinkThread(x))' = Free(SinkThread(x))
  BY <1>0, <1>t DEF SinkFrame, CaptureQuiet, SinkQuiet, Free
<1>3. Owned'
  BY <1>0, <1>f, <1>1, <1>2 DEF Owned
<1>4. Fresh'
  BY <1>0, <1>f DEF Fresh, Untouched, ResetPcs, SinkFrame
<1>5. OneFailure'
  BY <1>0, <1>f, <1>t, WorkerFails DEF SinkFrame, SinkMove, SinkCalm, SinkRaised, Errors
<1>6. Faulty'
  <2>1. Free(CallerThread(c))' = Free(CallerThread(c)) /\ caller' = caller
    BY <1>0, <1>t DEF SinkFrame, Free
  <2>2. ~Free(SinkThread(r))' => sink'[r].pc \in {"close", "final", "done"}
    BY <1>0 DEF SinkMove, SinkCalm, Free
  <2>3. QED
    BY <1>0, <1>2, <1>f, <2>1, <2>2 DEF Faulty, SinkFrame
<1>7. Served'
  <2>1. CommandServes(c)'
    <3>1. CommandServes(c)
      BY <1>f DEF Served
    <3>2. sink[r].ready = "ok" => sink'[r].ready = "ok"
      BY <1>0, <1>f DEF SinkMove, Announced
    <3>3. QED
      BY <1>0, <3>1, <3>2 DEF CommandServes, Requested, SinkFrame
  <2>2. ASSUME NEW x \in Runs
        PROVE  Announced(x)'
    <3>1. Listening(x)' = Listening(x)
      BY <1>0 DEF Listening, SinkFrame
    <3>2. CASE x # r
      BY <1>0, <1>f, <3>1, <3>2 DEF Served, Announced, SinkFrame
    <3>3. CASE x = r
      BY <1>0, <1>f, <3>1, <3>3 DEF Announced, SinkFrame, SinkMove
    <3>4. QED
      BY <3>2, <3>3
  <2>3. WorkersServe(r)'
    <3>1. queue'[r].failed => terminalFailure'
      BY <1>0, <1>f DEF WorkersServe, SinkFrame
    <3>2. /\ sink'[r].ready = "ok" /\ ~terminalFailure' /\ ~queue'[r].producerDone =>
               Serving(r)' \/ (sink'[r].pc = "close" /\ ~Free(SinkThread(r))')
      <4>1. SUFFICES ASSUME sink'[r].ready = "ok", ~terminalFailure, ~queue[r].producerDone
                     PROVE  Serving(r)' \/ (sink'[r].pc = "close" /\ ~Free(SinkThread(r))')
        BY <1>0 DEF SinkFrame
      <4>2. PopResult(queue[r]) # "Finished"
        BY <1>f, <4>1 DEF PopResult, WorkersServe
      <4>3. sink[r].ready = "ok" => Serving(r)
        BY <1>0, <1>f, <4>1 DEF WorkersServe, SinkFrame
      <4>4. SinkRaised(r) => ~Free(SinkThread(r))'
        BY DEF SinkRaised, Free, NoFault
      <4>5. QED
        BY <1>0, <1>f, <4>1, <4>2, <4>3, <4>4 DEF SinkMove, Serving, Announced
    <3>3. QED
      BY <1>0, <1>2, <1>f, <3>1, <3>2 DEF WorkersServe, SinkFrame
  <2>4. snapshot'.state = "Running" =>
          /\ Requested' /\ run' = Handed(lastRun')
          /\ sink'[lastRun'].ready = "ok" /\ capture'[lastRun'].ready = "ok"
    BY <1>0, <1>f DEF Served, Requested, Handed, SinkFrame, SinkMove, Announced
  <2>5. QED
    BY <1>0, <2>1, <2>2, <2>3, <2>4 DEF Served, SinkFrame
<1>8. Accounts'
  <2>1. RunAccounts(r)'
    <3>1. snapshot'.output + Counting(r)' = capture'[r].made
      BY <1>0, <1>f DEF RunAccounts, SinkFrame, Counting
    <3>2. snapshot'.accepted = sink'[r].sequence
      BY <1>0, <1>f DEF RunAccounts, SinkMove
    <3>3. ASSUME sink'[r].pc \in {"close", "final", "done"}, Free(SinkThread(r))',
                 ~terminalFailure'
          PROVE  Drained(r)'
      <4>0. ~terminalFailure /\ ~queue[r].failed /\ UNCHANGED <<capture, queue>>
        BY <1>0, <1>f, <3>3 DEF SinkFrame, SinkMove, WorkersServe
      <4>1. ~SinkRaised(r)
        BY <3>3 DEF SinkRaised, Free, NoFault
      <4>n. /\ sink[r].sequence \in Nat /\ capture[r].made \in Nat /\ Len(queue[r].frames) \in Nat
            /\ queue[r].discarded \in Nat /\ queue[r] \in QueueOf
        BY <1>f, RunTypes
      <4>2. CASE sink[r].pc = "open"
        <5>1. capture[r].pc = "none" /\ sink[r].sequence = 0 /\ capture[r].made = 0
          BY <1>f, <4>2 DEF Announced, RunSound
        <5>2. Balance(r) /\ InFlight(r) = 0
          BY <1>f, <4>0, <4>2 DEF RunSound, ServingPcs, InFlight
        <5>3. Len(queue[r].frames) = 0 /\ queue[r].discarded = 0
          BY <4>n, <5>1, <5>2 DEF Balance
        <5>4. queue[r].frames = <<>>
          BY <4>n, <5>3, EmptySeq DEF QueueOf
        <5>5. sink'[r].sequence = sink[r].sequence
          BY <1>0, <4>2 DEF SinkMove
        <5>6. QED
          BY <4>0, <5>1, <5>3, <5>4, <5>5 DEF Drained
      <4>3. CASE sink[r].pc = "loop"
        <5>1. PopResult(queue[r]) = "Finished" /\ sink'[r].sequence = sink[r].sequence
          BY <1>0, <3>3, <4>3 DEF SinkMove
        <5>2. queue[r].frames = <<>> /\ queue[r].producerDone
          BY <4>0, <5>1 DEF PopResult
        <5>3. Len(queue[r].frames) = 0
          BY <5>2, EmptySeq
        <5>4. Balance(r) /\ InFlight(r) = 0
          BY <1>f, <4>0, <4>3 DEF RunSound, ServingPcs, InFlight
        <5>5. capture[r].made = sink[r].sequence + queue[r].discarded
          BY <4>n, <5>3, <5>4 DEF Balance
        <5>6. capture[r].pc \in {"none", "done"}
          BY <1>f, <4>0, <5>2 DEF RunSound
        <5>7. QED
          BY <4>0, <5>1, <5>2, <5>5, <5>6 DEF Drained
      <4>4. CASE sink[r].pc \in {"close", "final"}
        <5>1. Drained(r)
          BY <1>0, <1>f, <4>0, <4>4 DEF RunAccounts, SinkFrame
        <5>2. sink'[r].sequence = sink[r].sequence
          BY <1>0, <4>4 DEF SinkMove
        <5>3. QED
          BY <4>0, <5>1, <5>2 DEF Drained
      <4>5. QED
        BY <1>0, <3>3, <4>1, <4>2, <4>3, <4>4 DEF SinkMove
    <3>4. QED
      BY <3>1, <3>2, <3>3 DEF RunAccounts
  <2>2. Settled'
    BY <1>0, <1>f DEF Settled, SinkFrame, Holding
  <2>3. QED
    BY <1>0, <2>1, <2>2 DEF Accounts, SinkFrame
<1>9. QED
  BY <1>1, <1>3, <1>4, <1>5, <1>6, <1>7, <1>8 DEF Single

-----------------------------------------------------------------------------
(* The capture worker: the step of its thread, field by field.             *)

CaptureFrame(r) ==
  /\ UNCHANGED <<stopRequested, terminalFailure, run, lastRun, sink, caller>>
  /\ Free(CaptureThread(r))
  /\ \A x \in Runs : x # r => capture'[x] = capture[x] /\ queue'[x] = queue[x]
  /\ \A t \in Threads \ {CaptureThread(r)} : fault'[t] = fault[t]
  /\ snapshot'.state = snapshot.state /\ snapshot'.run = snapshot.run
  /\ snapshot'.error = snapshot.error /\ snapshot'.accepted = snapshot.accepted
  /\ queue'[r].failed = queue[r].failed
  /\ capture'[r].pc # "done" => queue'[r].producerDone = queue[r].producerDone

CaptureCalm(r) == fault'[CaptureThread(r)] = NoFault
CaptureRaised(r) ==
  fault'[CaptureThread(r)] = [step |-> "exchange", error |-> "SourceFailure", run |-> r]

CaptureMove(r) ==
  LET s == capture[r]
      t == capture'[r]
      goes(from, to) == s.pc = from /\ t.pc = to /\ t.ready = s.ready
      silent == t.made = s.made /\ snapshot'.output = snapshot.output
  IN \/ s.pc = "open" /\ t.pc = "done" /\ t.ready = "error" /\ silent /\ CaptureCalm(r)
     \/ s.pc = "open" /\ t.pc = "check" /\ t.ready = "ok" /\ silent /\ CaptureCalm(r)
     \/ goes("check", "stop") /\ stopRequested /\ silent /\ CaptureCalm(r)
     \/ goes("check", "read") /\ silent /\ CaptureCalm(r)
     \/ (goes("read", "check") \/ goes("read", "push")) /\ silent /\ CaptureCalm(r)
     \/ goes("read", "stop") /\ silent /\ CaptureRaised(r)
     \/ /\ goes("push", "count") /\ CaptureCalm(r)
        /\ t.made = s.made + 1 /\ snapshot'.output = snapshot.output
     \/ /\ goes("count", "check") \/ goes("count", "push")
        /\ CaptureCalm(r)
        /\ t.made = s.made /\ snapshot'.output = snapshot.output + 1
     \/ /\ goes("stop", "finish") /\ silent
        /\ CaptureCalm(r) \/ (CaptureRaised(r) /\ ~terminalFailure)
     \/ goes("finish", "done") /\ silent /\ CaptureCalm(r)

LEMMA CaptureMoves ==
  ASSUME NEW c, Callers = {c}, LInv, NEW r \in Runs, CaptureNext(r)
  PROVE  CaptureFrame(r) /\ CaptureMove(r)
<1>0. /\ TypeOK /\ capture[r] \in CaptureType /\ queue[r] \in QueueOf
      /\ CaptureThread(r) \in Threads /\ snapshot \in SnapshotType
  BY SoleFacts, RunTypes, ThreadsApart
<1>1. /\ UNCHANGED <<stopRequested, terminalFailure, run, lastRun, sink, caller>>
      /\ Free(CaptureThread(r))
      /\ fault' = fault \/ Raise(CaptureThread(r), "SourceFailure", r)
  BY DEF CaptureNext, CaptureOpen, CaptureCheck, CaptureRead, CapturePush, CaptureCount,
         CaptureStop, CaptureFinish, CaptureAt
<1>2. /\ \A t \in Threads \ {CaptureThread(r)} : fault'[t] = fault[t]
      /\ fault' = fault => CaptureCalm(r)
      /\ Raise(CaptureThread(r), "SourceFailure", r) => CaptureRaised(r)
  BY <1>0, <1>1 DEF Free, CaptureCalm, CaptureRaised, Raise, TypeOK
<1> DEFINE Same == /\ snapshot'.state = snapshot.state /\ snapshot'.run = snapshot.run
                   /\ snapshot'.error = snapshot.error /\ snapshot'.accepted = snapshot.accepted
           Others == \A x \in Runs : x # r => capture'[x] = capture[x] /\ queue'[x] = queue[x]
<1>3. ASSUME Same, Others, queue'[r].failed = queue[r].failed,
             capture'[r].pc # "done" => queue'[r].producerDone = queue[r].producerDone
      PROVE  CaptureFrame(r)
  BY <1>1, <1>2, <1>3 DEF CaptureFrame
<1>4. CASE CaptureOpen(r)
  <2>1. capture[r].pc = "open" /\ UNCHANGED <<snapshot, fault>> /\ Announced(r)
    BY <1>4, SoleFacts DEF CaptureOpen, CaptureAt, Single, Served
  <2>2. \/ /\ capture' = [capture EXCEPT ![r].pc = "done", ![r].ready = "error"]
           /\ queue' = [queue EXCEPT ![r] = FinishProducer(@)]
        \/ /\ capture' = [capture EXCEPT ![r].pc = "check", ![r].ready = "ok"]
           /\ queue' = queue
    BY <1>4, <2>1 DEF CaptureOpen, Announced
  <2>3. /\ capture'[r].made = capture[r].made
        /\ \/ capture'[r].pc = "done" /\ capture'[r].ready = "error"
           \/ capture'[r].pc = "check" /\ capture'[r].ready = "ok" /\ queue' = queue
    BY <1>0, <2>2 DEF TypeOK, CaptureType
  <2>4. queue'[r].failed = queue[r].failed /\ Others
    BY <1>0, <2>2 DEF TypeOK, FinishProducer, QueueOf
  <2>5. CaptureFrame(r)
    BY <1>3, <2>1, <2>3, <2>4
  <2>6. QED
    BY <1>2, <2>1, <2>3, <2>5 DEF CaptureMove
<1>5. CASE CaptureCheck(r)
  <2>1. PICK pc \in {"stop", "read"} :
          capture' = [capture EXCEPT ![r].pc = pc] /\ (pc = "stop" => stopRequested)
    BY <1>5 DEF CaptureCheck
  <2>2. /\ capture'[r].made = capture[r].made /\ capture'[r].pc = pc
        /\ capture'[r].ready = capture[r].ready
    BY <1>0, <2>1 DEF TypeOK, CaptureType
  <2>3. capture[r].pc = "check" /\ UNCHANGED <<snapshot, fault, queue>>
    BY <1>5 DEF CaptureCheck, CaptureAt
  <2>4. Others
    BY <1>0, <2>1, <2>3 DEF TypeOK
  <2>5. CaptureFrame(r)
    BY <1>3, <2>3, <2>4
  <2>6. QED
    BY <1>2, <2>1, <2>2, <2>3, <2>5 DEF CaptureMove
<1>6. CASE CaptureRead(r)
  <2>1. capture[r].pc = "read" /\ UNCHANGED <<snapshot, queue>>
    BY <1>6 DEF CaptureRead, CaptureAt
  <2>2. CASE /\ capture' = [capture EXCEPT ![r].pc = "stop"]
             /\ Raise(CaptureThread(r), "SourceFailure", r)
    <3>1. /\ capture'[r].made = capture[r].made /\ capture'[r].pc = "stop"
          /\ capture'[r].ready = capture[r].ready /\ Others
      BY <1>0, <2>1, <2>2 DEF TypeOK, CaptureType
    <3>2. CaptureFrame(r)
      BY <1>3, <2>1, <3>1
    <3>3. QED
      BY <1>2, <2>1, <2>2, <3>1, <3>2 DEF CaptureMove
  <2>3. CASE /\ \E n \in 0..MaxBurst :
                  capture' = [capture EXCEPT ![r].pc = IF n = 0 THEN "check" ELSE "push",
                                             ![r].pending = n]
             /\ fault' = fault
    <3>1. PICK n : capture' = [capture EXCEPT ![r].pc = IF n = 0 THEN "check" ELSE "push",
                                              ![r].pending = n]
      BY <2>3
    <3>2. PICK pc \in {"check", "push"} : pc = IF n = 0 THEN "check" ELSE "push"
      OBVIOUS
    <3>3. capture' = [capture EXCEPT ![r].pc = pc, ![r].pending = n]
      BY <3>1, <3>2
    <3>4. /\ capture'[r].made = capture[r].made /\ capture'[r].pc = pc
          /\ capture'[r].ready = capture[r].ready /\ Others
      BY <1>0, <2>1, <3>3 DEF TypeOK, CaptureType
    <3>5. CaptureFrame(r)
      BY <1>3, <2>1, <3>4
    <3>6. QED
      BY <1>2, <2>1, <2>3, <3>4, <3>5 DEF CaptureMove
  <2>4. QED
    BY <1>6, <2>2, <2>3 DEF CaptureRead
<1>7. CASE CapturePush(r)
  <2> DEFINE p == Push(queue[r], capture[r].made + 1, QueueCapacity)
             m == Metrics(p)
  <2>1. /\ capture[r].pc = "push" /\ UNCHANGED <<snapshot, fault>>
        /\ queue' = [queue EXCEPT ![r] = p]
        /\ capture' = [capture EXCEPT ![r].pc = "count", ![r].pending = @ - 1,
                                      ![r].made = @ + 1, ![r].metrics = m]
    BY <1>7 DEF CapturePush, CaptureAt
  <2>2. p.failed = queue[r].failed /\ p.producerDone = queue[r].producerDone
    BY <1>0 DEF Push, MakeRoom, QueueOf
  <2> HIDE DEF m, p
  <2>3. /\ capture'[r].made = capture[r].made + 1 /\ capture'[r].pc = "count"
        /\ capture'[r].ready = capture[r].ready /\ queue'[r] = p /\ Others
    BY <1>0, <2>1 DEF TypeOK, CaptureType
  <2>4. CaptureFrame(r)
    BY <1>3, <2>1, <2>2, <2>3
  <2>5. QED
    BY <1>2, <2>1, <2>3, <2>4 DEF CaptureMove
<1>8. CASE CaptureCount(r)
  <2>1. capture[r].pc = "count" /\ UNCHANGED <<queue, fault>>
    BY <1>8 DEF CaptureCount, CaptureAt
  <2>2. PICK pc \in {"check", "push"} : capture' = [capture EXCEPT ![r].pc = pc]
    BY <1>8 DEF CaptureCount
  <2>3. /\ capture'[r].made = capture[r].made /\ capture'[r].pc = pc
        /\ capture'[r].ready = capture[r].ready /\ Others
    BY <1>0, <2>1, <2>2 DEF TypeOK, CaptureType
  <2>4. Same /\ snapshot'.output = snapshot.output + 1
    BY <1>0, <1>8 DEF CaptureCount, SnapshotType
  <2>5. CaptureFrame(r)
    BY <1>3, <2>1, <2>3, <2>4
  <2>6. QED
    BY <1>2, <2>1, <2>3, <2>4, <2>5 DEF CaptureMove
<1>9. CASE CaptureStop(r)
  <2>1. capture[r].pc = "stop" /\ UNCHANGED <<queue, snapshot>>
    BY <1>9 DEF CaptureStop, CaptureAt
  <2>2. /\ capture'[r].made = capture[r].made /\ capture'[r].pc = "finish"
        /\ capture'[r].ready = capture[r].ready /\ Others
    BY <1>0, <1>9, <2>1 DEF CaptureStop, TypeOK, CaptureType
  <2>3. fault' = fault \/ (Raise(CaptureThread(r), "SourceFailure", r) /\ ~terminalFailure)
    BY <1>9 DEF CaptureStop
  <2>4. CaptureFrame(r)
    BY <1>3, <2>1, <2>2
  <2>5. QED
    BY <1>2, <2>1, <2>2, <2>3, <2>4 DEF CaptureMove
<1>10. CASE CaptureFinish(r)
  <2>1. /\ capture[r].pc = "finish" /\ UNCHANGED <<fault, snapshot>>
        /\ queue' = [queue EXCEPT ![r] = FinishProducer(@)]
    BY <1>10 DEF CaptureFinish, CaptureAt
  <2>2. /\ capture'[r].made = capture[r].made /\ capture'[r].pc = "done"
        /\ capture'[r].ready = capture[r].ready /\ Others
    BY <1>0, <1>10, <2>1 DEF CaptureFinish, TypeOK, CaptureType
  <2>3. queue'[r].failed = queue[r].failed
    BY <1>0, <2>1 DEF TypeOK, FinishProducer, QueueOf
  <2>4. CaptureFrame(r)
    BY <1>3, <2>1, <2>2, <2>3
  <2>5. QED
    BY <1>2, <2>1, <2>2, <2>4 DEF CaptureMove
<1>11. QED
  BY <1>4, <1>5, <1>6, <1>7, <1>8, <1>9, <1>10 DEF CaptureNext

LEMMA CaptureIsLast ==
  ASSUME NEW c, Callers = {c}, LInv, NEW r \in Runs, CaptureNext(r)
  PROVE  /\ r = lastRun /\ ~CaptureQuiet(r)
         /\ run # NoHandles \/ Holding(c)
         /\ snapshot.state # "Stopped"
         /\ caller[c].pc \notin {"resolve", "set_stopped", "reset_stop", "reset_failure",
                                 "spawn_sink", "clear"}
<1>1. ~CaptureQuiet(r)
  BY DEF CaptureNext, CaptureOpen, CaptureCheck, CaptureRead, CapturePush, CaptureCount,
         CaptureStop, CaptureFinish, CaptureAt, CaptureQuiet
<1>2. QED
  BY <1>1, LiveIsLast

LEMMA CaptureKeepsSingle ==
  ASSUME NEW c, Callers = {c}, LInv, NEW r \in Runs, CaptureNext(r)
  PROVE  Single'
<1>0. /\ CaptureFrame(r) /\ CaptureMove(r)
      /\ r = lastRun /\ ~CaptureQuiet(r)
      /\ run # NoHandles \/ Holding(c)
      /\ caller[c].pc \notin {"resolve", "set_stopped", "reset_stop", "reset_failure",
                              "spawn_sink", "clear"}
  BY CaptureMoves, CaptureIsLast
<1>t. /\ \A x \in Runs : SinkThread(x) \in Threads /\ CaptureThread(x) \in Threads
      /\ \A x \in Runs : /\ CaptureThread(r) # SinkThread(x)
                         /\ x # r => CaptureThread(r) # CaptureThread(x)
      /\ CallerThread(c) \in Threads /\ CallerThread(c) # CaptureThread(r)
  BY ThreadsApart
<1>f. /\ TypeOK /\ c \in Callers /\ OneRun /\ Owned /\ Fresh /\ Phases /\ OneFailure /\ Faulty
      /\ Served /\ Accounts /\ Sound /\ lastRun \in Nat
      /\ Announced(r) /\ WorkersServe(r) /\ RunAccounts(r) /\ RunSound(r)
  BY <1>0, SoleFacts DEF Single, Served, Accounts, Sound
<1>1. /\ OneRun' /\ Phases'
      /\ \A x \in Runs : HoldsSink(x)' = HoldsSink(x) /\ HoldsCapture(x)' = HoldsCapture(x)
  BY <1>0, <1>f, WorkerLeaves DEF CaptureFrame
<1>2. \A x \in Runs : /\ SinkQuiet(x)' = SinkQuiet(x)
                      /\ x # r => CaptureQuiet(x)' = CaptureQuiet(x)
                      /\ Free(SinkThread(x))' = Free(SinkThread(x))
                      /\ x # r => Free(CaptureThread(x))' = Free(CaptureThread(x))
  BY <1>0, <1>t DEF CaptureFrame, CaptureQuiet, SinkQuiet, Free
<1>3. Owned'
  BY <1>0, <1>f, <1>1, <1>2 DEF Owned
<1>4. Fresh'
  BY <1>0, <1>f DEF Fresh, Untouched, ResetPcs, CaptureFrame
<1>5. OneFailure'
  BY <1>0, <1>f, <1>t, WorkerFails DEF CaptureFrame, CaptureMove, CaptureCalm, CaptureRaised
<1>6. Faulty'
  <2>1. Free(CallerThread(c))' = Free(CallerThread(c)) /\ caller' = caller
    BY <1>0, <1>t DEF CaptureFrame, Free
  <2>2. ~Free(CaptureThread(r))' => capture'[r].pc \in {"stop", "finish"}
    BY <1>0 DEF CaptureMove, CaptureCalm, Free
  <2>3. QED
    BY <1>0, <1>2, <1>f, <2>1, <2>2 DEF Faulty, CaptureFrame
<1>7. Served'
  <2>1. CommandServes(c)'
    <3>1. CommandServes(c)
      BY <1>f DEF Served
    <3>2. capture[r].ready = "ok" => capture'[r].ready = "ok"
      BY <1>0, <1>f DEF CaptureMove, Announced
    <3>3. QED
      BY <1>0, <3>1, <3>2 DEF CommandServes, Requested, CaptureFrame
  <2>2. ASSUME NEW x \in Runs
        PROVE  Announced(x)'
    <3>1. Listening(x)' = Listening(x)
      BY <1>0 DEF Listening, CaptureFrame
    <3>2. CASE x # r
      BY <1>0, <1>f, <3>1, <3>2 DEF Served, Announced, CaptureFrame
    <3>3. CASE x = r
      BY <1>0, <1>f, <3>1, <3>3 DEF Announced, CaptureFrame, CaptureMove
    <3>4. QED
      BY <3>2, <3>3
  <2>3. WorkersServe(r)'
    <3>1. /\ queue'[r].failed => terminalFailure'
          /\ sink'[r] = sink[r] /\ Serving(r)' = Serving(r)
      BY <1>0, <1>f DEF WorkersServe, CaptureFrame, Serving
    <3>2. queue[r].producerDone => queue'[r].producerDone
      <4>1. CASE capture'[r].pc # "done"
        BY <1>0, <4>1 DEF CaptureFrame
      <4>2. CASE capture'[r].pc = "done"
        <5>1. CaptureOpen(r) \/ CaptureFinish(r)
          BY <1>0, <4>2 DEF CaptureNext, CaptureOpen, CaptureFinish, CaptureCheck, CaptureRead,
             CapturePush, CaptureCount, CaptureStop, CaptureMove, CaptureAt
        <5>2. queue' = queue \/ queue' = [queue EXCEPT ![r] = FinishProducer(@)]
          BY <5>1 DEF CaptureOpen, CaptureFinish
        <5>3. queue[r] \in QueueOf
          BY <1>f, RunTypes
        <5>4. QED
          BY <1>f, <5>2, <5>3 DEF FinishProducer, QueueOf, TypeOK
      <4>3. QED
        BY <4>1, <4>2
    <3>3. /\ capture'[r].ready = "ok" /\ ~terminalFailure' /\ ~stopRequested' =>
               capture'[r].pc \in {"check", "read", "push", "count"} \/ ~Free(CaptureThread(r))'
      <4>1. SUFFICES ASSUME capture'[r].ready = "ok", ~terminalFailure, ~stopRequested,
                            Free(CaptureThread(r))'
                     PROVE  capture'[r].pc \in {"check", "read", "push", "count"}
        BY <1>0 DEF CaptureFrame
      <4>2. ~CaptureRaised(r)
        BY <4>1 DEF CaptureRaised, Free, NoFault
      <4>3. capture[r].ready = "ok" => capture[r].pc \in {"check", "read", "push", "count"}
        BY <1>0, <1>f, <4>1 DEF WorkersServe, CaptureFrame
      <4>4. QED
        BY <1>0, <1>f, <4>1, <4>2, <4>3 DEF CaptureMove, Announced
    <3>4. QED
      BY <1>0, <1>2, <1>f, <3>1, <3>2, <3>3 DEF WorkersServe, CaptureFrame
  <2>4. snapshot'.state = "Running" =>
          /\ Requested' /\ run' = Handed(lastRun')
          /\ sink'[lastRun'].ready = "ok" /\ capture'[lastRun'].ready = "ok"
    BY <1>0, <1>f DEF Served, Requested, Handed, CaptureFrame, CaptureMove, Announced
  <2>5. QED
    BY <1>0, <2>1, <2>2, <2>3, <2>4 DEF Served, CaptureFrame
<1>8. Accounts'
  <2>1. RunAccounts(r)'
    <3>1. /\ snapshot.output \in Nat /\ capture[r].made \in Nat
          /\ capture[r].pc \notin {"none", "done"}
      BY <1>0, <1>f, RunTypes DEF TypeOK, SnapshotType, CaptureMove
    <3>2. snapshot.output + Counting(r) = capture[r].made
      BY <1>f DEF RunAccounts
    <3>3. snapshot'.output + Counting(r)' = capture'[r].made
      BY <1>0, <3>1, <3>2 DEF CaptureMove, Counting
    <3>4. ~(sink[r].pc \in {"close", "final", "done"} /\ Free(SinkThread(r)) /\ ~terminalFailure)
      BY <1>f, <3>1 DEF RunAccounts, Drained
    <3>5. snapshot'.accepted = sink'[r].sequence
      BY <1>0, <1>f DEF RunAccounts, CaptureFrame
    <3>6. QED
      BY <1>0, <1>2, <3>3, <3>4, <3>5 DEF RunAccounts, CaptureFrame
  <2>2. Settled'
    BY <1>0, <1>f DEF Settled, CaptureFrame, Holding
  <2>3. QED
    BY <1>0, <2>1, <2>2 DEF Accounts, CaptureFrame
<1>9. QED
  BY <1>1, <1>3, <1>4, <1>5, <1>6, <1>7, <1>8 DEF Single

-----------------------------------------------------------------------------
(* record_failure.                                                         *)

\* A thread inside record_failure works for the last run, while no command is
\* between two runs.
LEMMA BusyIsLast ==
  ASSUME NEW c, Callers = {c}, LInv, NEW t \in Threads, ~Free(t)
  PROVE  /\ fault[t].run = lastRun
         /\ caller[c].pc \notin {"resolve", "set_stopped", "reset_stop", "reset_failure",
                                 "spawn_sink", "clear", "idle"}
            \/ (snapshot.state # "Stopped" /\ caller[c].pc = "idle")
<1>1. fault[t].run = lastRun
  BY SoleFacts DEF Single, OneFailure
<1>2. CASE \E r \in Runs : t = SinkThread(r) \/ t = CaptureThread(r)
  <2>1. PICK r \in Runs : t = SinkThread(r) \/ t = CaptureThread(r)
    BY <1>2
  <2>2. ~SinkQuiet(r) \/ ~CaptureQuiet(r)
    BY <2>1 DEF SinkQuiet, CaptureQuiet
  <2>3. QED
    BY <1>1, <2>2, LiveIsLast
<1>3. CASE t = CallerThread(c)
  <2>1. caller[c].pc \in {"join_capture", "request_stop"}
    BY <1>3, SoleFacts DEF Single, Faulty
  <2>2. QED
    BY <1>1, <2>1
<1>4. QED
  BY <1>2, <1>3 DEF Threads, WorkerThreads, SinkThread, CaptureThread, CallerThread

LEMMA FailureKeepsSingle ==
  ASSUME NEW c, Callers = {c}, LInv, NEW t \in Threads, RecordFailure(t)
  PROVE  Single'
<1>f. /\ TypeOK /\ c \in Callers /\ OneRun /\ Owned /\ Fresh /\ Phases /\ OneFailure /\ Faulty
      /\ Served /\ Accounts /\ Sound /\ lastRun \in Nat /\ snapshot \in SnapshotType
      /\ fault[t] \in FaultType
  BY SoleFacts DEF Single, TypeOK
<1>1. ~Free(t) /\ UNCHANGED <<run, lastRun, sink, capture, caller>>
  BY DEF RecordFailure, Exchange, RaiseStop, FailQueue, Publish, Free, NoFault
<1>2. /\ fault[t].run = lastRun
      /\ caller[c].pc \notin {"resolve", "set_stopped", "reset_stop", "reset_failure",
                              "spawn_sink", "clear"}
      /\ caller[c].pc = "idle" => snapshot.state # "Stopped"
  BY <1>1, BusyIsLast
<1>3. \A u \in Threads : u # t => fault'[u] = fault[u]
  BY <1>f DEF RecordFailure, Exchange, RaiseStop, FailQueue, Publish, TypeOK
<1>4. \A u \in Threads : Free(u) => Free(u)'
  BY <1>1, <1>3 DEF Free
<1>t. /\ \A x \in Runs : SinkThread(x) \in Threads /\ CaptureThread(x) \in Threads
      /\ CallerThread(c) \in Threads
  BY ThreadsApart
<1>5. Owned'
  BY <1>1, <1>4, <1>f, <1>t DEF Owned, SinkQuiet, CaptureQuiet, HoldsSink, HoldsCapture, Holding
<1>6. Faulty'
  BY <1>1, <1>4, <1>f, <1>t DEF Faulty
<1>7. /\ snapshot'.run = snapshot.run /\ snapshot'.output = snapshot.output
      /\ snapshot'.accepted = snapshot.accepted /\ snapshot'.discarded = snapshot.discarded
  BY <1>f DEF RecordFailure, Exchange, RaiseStop, FailQueue, Publish, SnapshotType
<1>8. OneRun'
  BY <1>1, <1>7, <1>f DEF OneRun, CommandRun, Holding
<1>9. terminalFailure' = TRUE
  BY <1>f DEF RecordFailure, Exchange, RaiseStop, FailQueue, Publish, OneFailure, InRecord
<1>10. \A u \in Threads : u # t => InRecord(u)' = InRecord(u) /\ Free(u)' = Free(u)
  BY <1>3 DEF InRecord, Free
<1>11. Accounts'
  BY <1>1, <1>7, <1>9, <1>f DEF Accounts, RunAccounts, Settled, Counting
<1>12. CASE Exchange(t)
  <2>1. UNCHANGED <<queue, snapshot, stopRequested>>
    BY <1>12 DEF Exchange
  <2>2. \/ terminalFailure /\ fault'[t] = NoFault
        \/ ~terminalFailure /\ fault'[t].step = "request" /\ fault'[t].run = lastRun
    BY <1>2, <1>f, <1>12 DEF Exchange, TypeOK, FaultType
  <2>3. Fresh' /\ Phases'
    BY <1>1, <1>2, <1>9, <1>f, <2>1 DEF Fresh, Untouched, Phases, CommandPhase
  <2>4. OneFailure'
    <3>1. CASE terminalFailure /\ fault'[t] = NoFault
      <4>1. Free(t)' /\ ~InRecord(t)'
        BY <3>1 DEF Free, InRecord, NoFault
      <4>2. QED
        BY <1>1, <1>3, <1>9, <1>10, <1>f, <2>1, <4>1 DEF OneFailure
    <3>2. CASE /\ ~terminalFailure
               /\ fault'[t].step = "request" /\ fault'[t].run = lastRun
      <4>1. (\A u \in Threads : ~InRecord(u)) /\ snapshot'.error = "None"
        BY <1>f, <2>1, <3>2 DEF OneFailure, Phases
      <4>2. QED
        BY <1>1, <1>3, <1>9, <1>10, <1>f, <3>2, <4>1 DEF OneFailure
    <3>3. QED
      BY <2>2, <3>1, <3>2
  <2>5. Served'
    BY <1>1, <1>9, <1>f, <2>1 DEF Served, CommandServes, Requested, Announced, WorkersServe,
                                  Listening
  <2>6. QED
    BY <1>5, <1>6, <1>8, <1>11, <2>3, <2>4, <2>5 DEF Single
<1>13. CASE RaiseStop(t)
  <2>1. UNCHANGED <<queue, snapshot, terminalFailure>>
    BY <1>13 DEF RaiseStop
  <2>2. /\ fault'[t].run = lastRun /\ fault'[t].step = "fail_queue" /\ InRecord(t)
    BY <1>2, <1>f, <1>13 DEF RaiseStop, TypeOK, FaultType, InRecord
  <2>3. Fresh' /\ Phases'
    BY <1>1, <1>f, <2>1 DEF Fresh, Untouched, Phases, CommandPhase
  <2>4. OneFailure'
    BY <1>1, <1>3, <1>9, <1>10, <1>f, <2>1, <2>2 DEF OneFailure, Free
  <2>5. Served'
    BY <1>1, <1>2, <1>9, <1>f, <2>1 DEF Served, CommandServes, Requested, Announced,
                                        WorkersServe, Listening
  <2>6. QED
    BY <1>5, <1>6, <1>8, <1>11, <2>3, <2>4, <2>5 DEF Single
<1>14. CASE FailQueue(t)
  <2>1. UNCHANGED <<snapshot, terminalFailure, stopRequested>>
        /\ queue' = [queue EXCEPT ![lastRun] = Fail(@)]
    BY <1>2, <1>14 DEF FailQueue
  <2>2. /\ fault'[t].run = lastRun /\ fault'[t].step = "publish" /\ InRecord(t)
    BY <1>2, <1>f, <1>14 DEF FailQueue, TypeOK, FaultType, InRecord
  <2>3. \A x \in Runs : x # lastRun => queue'[x] = queue[x]
    BY <1>f, <2>1 DEF TypeOK
  <2>4. Fresh'
    BY <1>1, <1>2, <1>f, <2>3 DEF Fresh, Untouched, ResetPcs
  <2>5. Phases'
    BY <1>1, <1>f, <2>1 DEF Phases, CommandPhase
  <2>6. OneFailure'
    BY <1>1, <1>3, <1>9, <1>10, <1>f, <2>1, <2>2 DEF OneFailure, Free
  <2>7. Served'
    BY <1>1, <1>9, <1>f, <2>1 DEF Served, CommandServes, Requested, Announced,
                                  WorkersServe, Listening
  <2>8. QED
    BY <1>5, <1>6, <1>8, <1>11, <2>4, <2>5, <2>6, <2>7 DEF Single
<1>15. CASE Publish(t)
  <2>1. /\ UNCHANGED <<queue, terminalFailure, stopRequested>>
        /\ snapshot'.state = "Failed" /\ fault'[t] = NoFault
    BY <1>f, <1>15 DEF Publish, SnapshotType, TypeOK
  <2>2. Fresh'
    BY <1>1, <1>f, <2>1 DEF Fresh, Untouched
  <2>3. Phases'
    BY <1>1, <1>2, <1>9, <1>f, <2>1 DEF Phases, CommandPhase, LaunchPcs, ClearingPcs
  <2>4. OneFailure'
    <3>1. Free(t)' /\ ~InRecord(t)'
      BY <2>1 DEF Free, InRecord, NoFault
    <3>2. \A u \in Threads : u # t => ~InRecord(u)
      BY <1>15, <1>f DEF Publish, OneFailure, InRecord
    <3>3. QED
      BY <1>1, <1>3, <1>10, <1>f, <3>1, <3>2 DEF OneFailure
  <2>5. Served'
    BY <1>1, <1>9, <1>f, <2>1 DEF Served, CommandServes, Requested, Announced,
                                  WorkersServe, Listening
  <2>6. QED
    BY <1>5, <1>6, <1>8, <1>11, <2>2, <2>3, <2>4, <2>5 DEF Single
<1>16. QED
  BY <1>12, <1>13, <1>14, <1>15 DEF RecordFailure

-----------------------------------------------------------------------------
(* The command: the record of the caller, field by field.                  *)

SameFlags ==
  UNCHANGED <<snapshot, stopRequested, terminalFailure, lastRun, queue, sink, capture, fault>>

KeepsHandles(c) ==
  /\ caller'[c].target = caller[c].target
  /\ caller'[c].held = caller[c].held
  /\ caller'[c].joinFailed = caller[c].joinFailed

LEMMA GoFields ==
  ASSUME LInv, NEW c \in Callers, NEW pc, Go(c, pc)
  PROVE  caller'[c].pc = pc /\ caller'[c].goal = caller[c].goal /\ KeepsHandles(c)
<1> DEFINE e == [caller[c] EXCEPT !.pc = pc]
<1>1. /\ e.pc = pc /\ e.goal = caller[c].goal /\ e.target = caller[c].target
      /\ e.held = caller[c].held /\ e.joinFailed = caller[c].joinFailed
  BY CommandFacts DEF LInv, CallerType
<1>2. caller'[c] = e
  BY BecomeCaller DEF LInv, Go
<1> HIDE DEF e
<1>3. QED
  BY <1>1, <1>2 DEF KeepsHandles

LEMMA AimFields ==
  ASSUME LInv, NEW c \in Callers, NEW pc, NEW goal,
         Become(c, [caller[c] EXCEPT !.pc = pc, !.goal = goal])
  PROVE  caller'[c].pc = pc /\ caller'[c].goal = goal /\ KeepsHandles(c)
<1> DEFINE e == [caller[c] EXCEPT !.pc = pc, !.goal = goal]
<1>1. /\ e.pc = pc /\ e.goal = goal /\ e.target = caller[c].target
      /\ e.held = caller[c].held /\ e.joinFailed = caller[c].joinFailed
  BY CommandFacts DEF LInv, CallerType
<1>2. caller'[c] = e
  BY BecomeCaller DEF LInv
<1> HIDE DEF e
<1>3. QED
  BY <1>1, <1>2 DEF KeepsHandles

LEMMA ReturnFields ==
  ASSUME LInv, NEW c \in Callers, Return(c)
  PROVE  /\ caller'[c] = IdleCaller
         /\ caller'[c].pc = "idle" /\ caller'[c].goal = "none"
         /\ ~caller'[c].held.capture /\ ~caller'[c].held.sink /\ ~caller'[c].joinFailed
BY BecomeCaller DEF LInv, Return, IdleCaller, NoHandles

\* What is left to show of a step that leaves the workers alone.
SameRecord ==
  /\ UNCHANGED <<terminalFailure, lastRun, sink, capture, fault>>
  /\ snapshot'.run = snapshot.run /\ snapshot'.error = snapshot.error
  /\ snapshot'.output = snapshot.output /\ snapshot'.accepted = snapshot.accepted
  /\ snapshot'.discarded = snapshot.discarded

\* The queues are as they were, or that of the last run has been finished.
QueueFinished(c) ==
  \A r \in Runs :
    /\ r # lastRun \/ caller'[c].pc \in ResetPcs => queue'[r] = queue[r]
    /\ queue'[r].frames = queue[r].frames /\ queue'[r].discarded = queue[r].discarded
    /\ queue'[r].failed = queue[r].failed
    /\ queue[r].producerDone => queue'[r].producerDone

LEMMA CommandLeaves ==
  ASSUME NEW c, Callers = {c}, LInv, Free(CallerThread(c)), SameRecord, QueueFinished(c),
         stopRequested => stopRequested',
         snapshot'.state = "Failed" => snapshot.state = "Failed",
         snapshot'.state = "Stopped" => run' = NoHandles,
         snapshot'.state = "Running" =>
           /\ Requested' /\ run' = Handed(lastRun)
           /\ sink[lastRun].ready = "ok" /\ capture[lastRun].ready = "ok",
         run' # NoHandles => run'.run = lastRun,
         CommandRun(c)', CommandPhase(c)', CommandServes(c)', Owned',
         \/ caller'[c].target = caller[c].target
         \/ \A r \in Runs : sink[r].pc # "open" /\ capture[r].pc # "open",
         caller'[c].pc \in ResetPcs => caller[c].pc = caller'[c].pc,
         Settled'
  PROVE  Single'
<1>1. /\ OneRun /\ Fresh /\ Phases /\ OneFailure /\ Faulty /\ Served /\ Accounts /\ c \in Callers
  BY SoleFacts DEF Single
<1>2. OneRun'
  BY <1>1 DEF OneRun, SameRecord
<1>3. Fresh' /\ OneFailure'
  <2>1. lastRun \in Nat /\ \A r \in Runs : r > lastRun => r # lastRun
    BY SoleFacts
  <2>2. Fresh'
    BY <1>1, <2>1 DEF Fresh, Untouched, SameRecord, QueueFinished
  <2>3. OneFailure'
    BY <1>1 DEF OneFailure, SameRecord, InRecord, Free
  <2>4. QED
    BY <2>2, <2>3
<1>4. Phases'
  BY <1>1 DEF Phases, SameRecord
<1>5. Faulty'
  BY <1>1 DEF Faulty, SameRecord, Free
<1>6. ASSUME NEW r \in Runs
      PROVE  Announced(r)'
  <2>1. Listening(r) => Listening(r)' \/ (sink[r].pc # "open" /\ capture[r].pc # "open")
    BY DEF Listening
  <2>2. Announced(r)
    BY <1>1 DEF Served
  <2>3. QED
    BY <2>1, <2>2 DEF Announced, SameRecord
<1>7. \A r \in Runs : r = lastRun => WorkersServe(r)'
  BY <1>1 DEF Served, WorkersServe, SameRecord, QueueFinished, Serving, Free
<1>8. Served'
  BY <1>1, <1>6, <1>7 DEF Served, SameRecord
<1>9. Accounts'
  BY <1>1 DEF Accounts, RunAccounts, SameRecord, QueueFinished, ResetPcs, Counting, Drained, Free
<1>10. QED
  BY <1>2, <1>3, <1>4, <1>5, <1>8, <1>9 DEF Single

\* And of one that changes only the caller and the slot.
LEMMA CommandOnly ==
  ASSUME NEW c, Callers = {c}, LInv, Free(CallerThread(c)), SameFlags,
         CommandRun(c)', CommandPhase(c)', CommandServes(c)', Owned',
         run' # run => /\ snapshot.state # "Running"
                       /\ run' # NoHandles => run'.run = lastRun /\ snapshot.state # "Stopped",
         \/ caller'[c].target = caller[c].target
         \/ \A r \in Runs : sink[r].pc # "open" /\ capture[r].pc # "open",
         caller'[c].pc \in ResetPcs => caller[c].pc = caller'[c].pc,
         Settled'
  PROVE  Single'
<1>1. OneRun /\ Phases /\ Served
  BY SoleFacts DEF Single
<1>2. /\ SameRecord /\ (stopRequested => stopRequested') /\ snapshot' = snapshot
      /\ (snapshot'.state = "Stopped" => run' = NoHandles)
      /\ (run' # NoHandles => run'.run = lastRun)
  BY <1>1 DEF SameFlags, SameRecord, OneRun, Phases
<1>3. snapshot'.state = "Running" =>
           /\ Requested' /\ run' = Handed(lastRun)
           /\ sink[lastRun].ready = "ok" /\ capture[lastRun].ready = "ok"
  BY <1>1 DEF SameFlags, Served, Requested
<1>4. QueueFinished(c)
  BY DEF QueueFinished, SameFlags
<1>5. QED
  BY <1>2, <1>3, <1>4, CommandLeaves

\* The threads of the workers do not notice what the command does.
LEMMA OwnedBySlot ==
  ASSUME NEW c, Callers = {c}, LInv, UNCHANGED <<sink, capture, fault>>,
         \A r \in Runs : HoldsSink(r) => HoldsSink(r)' \/ SinkQuiet(r),
         \A r \in Runs : HoldsCapture(r) => HoldsCapture(r)' \/ CaptureQuiet(r)
  PROVE  Owned'
<1>1. Owned
  BY SoleFacts DEF Single
<1>2. QED
  BY <1>1 DEF Owned, SinkQuiet, CaptureQuiet, Free

LEMMA BeginKeepsSingle ==
  ASSUME NEW c, Callers = {c}, LInv, BeginStart(c) \/ BeginStop(c)
  PROVE  Single'
<1>f. /\ c \in Callers /\ CommandRun(c) /\ CommandPhase(c) /\ CommandServes(c) /\ Phases /\ Accounts
      /\ NoHandles.run = NoRun /\ ~NoHandles.sink /\ ~NoHandles.capture
  BY SoleFacts DEF Single
<1>1. /\ Free(CallerThread(c)) /\ SameFlags /\ run' = run /\ caller[c].pc = "idle"
      /\ caller[c] = IdleCaller
  BY <1>f DEF BeginStart, BeginStop, CallerAt, SameFlags, CommandPhase
<1>2. PICK pc, goal :
        /\ Become(c, [caller[c] EXCEPT !.pc = pc, !.goal = goal])
        /\ \/ pc = "resolve" /\ goal = "start" /\ snapshot.state = "Stopped"
           \/ pc = "request_stop" /\ goal \in {"start", "stop"} /\ snapshot.state = "Failed"
           \/ /\ pc = "set_stopping" /\ goal = "stop" /\ snapshot.state # "Stopped"
  BY <1>f DEF BeginStart, BeginStop, Phases
<1>3. /\ caller'[c].pc = pc /\ caller'[c].goal = goal /\ KeepsHandles(c)
      /\ pc \notin HoldingPcs
  BY <1>f, <1>2, AimFields DEF HoldingPcs
<1>4. ~Holding(c) /\ ~Holding(c)'
  BY <1>1, <1>2, <1>3 DEF Holding, HoldingPcs
<1>5. CommandRun(c)'
  BY <1>1, <1>2, <1>3, <1>4, <1>f DEF CommandRun, KeepsHandles, Phases, LaunchPcs, IdleCaller, SameFlags
<1>6. CommandPhase(c)'
  BY <1>1, <1>2, <1>3, <1>f DEF CommandPhase, LaunchPcs, ClearingPcs, SameFlags, KeepsHandles, IdleCaller
<1>7. CommandServes(c)'
  BY <1>1, <1>2, <1>3 DEF CommandServes, LaunchPcs
<1>8. Owned'
  <2>1. \A r \in Runs : /\ HoldsSink(r) => HoldsSink(r)'
                        /\ HoldsCapture(r) => HoldsCapture(r)'
    BY <1>1, <1>4 DEF HoldsSink, HoldsCapture
  <2>2. QED
    BY <1>1, <2>1, OwnedBySlot DEF SameFlags
<1>9. Settled'
  BY <1>1, <1>4, <1>f DEF Settled, SameFlags, Accounts
<1>10. QED
  BY <1>1, <1>2, <1>3, <1>5, <1>6, <1>7, <1>8, <1>9, CommandOnly DEF KeepsHandles, ResetPcs

\* A command that goes on without touching handles owns what it owned.
LEMMA OwnedByGoing ==
  ASSUME NEW c, Callers = {c}, LInv, UNCHANGED <<run, sink, capture, fault>>,
         caller'[c].held = caller[c].held, Holding(c) => Holding(c)'
  PROVE  Owned'
<1>1. \A r \in Runs : /\ HoldsSink(r) => HoldsSink(r)'
                      /\ HoldsCapture(r) => HoldsCapture(r)'
  BY DEF HoldsSink, HoldsCapture
<1>2. QED
  BY <1>1, OwnedBySlot

LEMMA StateKeepsSingle ==
  ASSUME NEW c, Callers = {c}, LInv, SetStopping(c) \/ RequestStop(c)
  PROVE  Single'
<1>f. /\ c \in Callers /\ CommandRun(c) /\ CommandPhase(c) /\ CommandServes(c) /\ CommandSound(c)
      /\ OneRun /\ Phases /\ Served /\ Accounts /\ snapshot \in SnapshotType
  BY SoleFacts DEF Single
<1>1. PICK pc \in {"request_stop", "take"} :
        /\ Go(c, pc) /\ Free(CallerThread(c)) /\ caller[c].pc \in {"set_stopping", "request_stop"}
        /\ UNCHANGED <<run, terminalFailure, lastRun, queue, sink, capture, fault>>
        /\ \/ /\ caller[c].pc = "set_stopping" /\ pc = "request_stop"
              /\ snapshot' = [snapshot EXCEPT !.state = "Stopping"]
              /\ stopRequested' = stopRequested
           \/ /\ caller[c].pc = "request_stop" /\ pc = "take"
              /\ snapshot' = snapshot /\ stopRequested' = TRUE
  BY DEF SetStopping, RequestStop, CallerAt
<1>2. /\ SameRecord /\ (stopRequested => stopRequested')
      /\ snapshot'.state = "Stopping" \/ (snapshot' = snapshot /\ caller[c].pc = "request_stop")
      /\ snapshot'.state = IF caller[c].pc = "set_stopping" THEN "Stopping" ELSE snapshot.state
  BY <1>1, <1>f DEF SameRecord, SnapshotType
<1>3. /\ caller'[c].pc = pc /\ caller'[c].goal = caller[c].goal /\ KeepsHandles(c)
  BY <1>1, <1>f, GoFields
<1>4. ~Holding(c) /\ ~Holding(c)'
  BY <1>1, <1>3 DEF Holding, HoldingPcs
<1>5. CommandRun(c)'
  BY <1>1, <1>2, <1>3, <1>4, <1>f DEF CommandRun, KeepsHandles, LaunchPcs
<1>6. CommandPhase(c)'
  BY <1>1, <1>2, <1>3, <1>f DEF CommandPhase, LaunchPcs, ClearingPcs, KeepsHandles
<1>7. CommandServes(c)'
  BY <1>1, <1>3 DEF CommandServes, LaunchPcs
<1>8. Owned'
  BY <1>1, <1>3, <1>4, OwnedByGoing DEF KeepsHandles
<1>9. Settled'
  BY <1>1, <1>2, <1>4, <1>f DEF Settled, SameRecord, Accounts
<1>10. snapshot'.state # "Running" /\ (snapshot'.state = "Stopped" => run' = NoHandles)
  BY <1>1, <1>2, <1>f DEF CommandPhase, ClearingPcs, Phases
<1>11. QueueFinished(c)
  BY <1>1 DEF QueueFinished
<1>12. QED
  BY <1>11, <1>1, <1>2, <1>3, <1>5, <1>6, <1>7, <1>8, <1>9, <1>10, <1>f, CommandLeaves DEF KeepsHandles, OneRun, ResetPcs

LEMMA SetStoppedKeepsSingle ==
  ASSUME NEW c, Callers = {c}, LInv, SetStopped(c)
  PROVE  Single'
<1>f. /\ c \in Callers /\ CommandRun(c) /\ CommandPhase(c)
      /\ OneRun /\ Phases /\ Served /\ Accounts /\ snapshot \in SnapshotType
  BY SoleFacts DEF Single
<1>1. /\ Return(c) /\ Free(CallerThread(c)) /\ caller[c].pc = "set_stopped"
      /\ UNCHANGED <<run, stopRequested, terminalFailure, lastRun, queue, sink, capture, fault>>
      /\ snapshot' = [snapshot EXCEPT !.state = "Stopped", !.depth = 0]
  BY DEF SetStopped, CallerAt
<1>2. SameRecord /\ snapshot'.state = "Stopped"
  BY <1>1, <1>f DEF SameRecord, SnapshotType
<1>3. caller'[c] = IdleCaller /\ caller'[c].pc = "idle" /\ caller'[c].goal = "none"
      /\ ~caller'[c].joinFailed
  BY <1>1, <1>f, ReturnFields
<1>4. ~Holding(c) /\ ~Holding(c)'
  BY <1>1, <1>3 DEF Holding, HoldingPcs
<1>5. run' = NoHandles /\ run = NoHandles
  BY <1>1, <1>f DEF CommandRun
<1>6. CommandRun(c)' /\ CommandPhase(c)' /\ CommandServes(c)'
  BY <1>3, <1>4, <1>2 DEF CommandRun, CommandPhase, CommandServes, LaunchPcs, ClearingPcs
<1>7. \A r \in Runs : SinkQuiet(r) /\ CaptureQuiet(r)
  BY <1>1, LiveIsLast
<1>8. Owned'
  BY <1>1, <1>7, OwnedBySlot
<1>9. Settled'
  BY <1>1, <1>2, <1>4, <1>f DEF Settled, SameRecord, Accounts
<1>10. \A r \in Runs : sink[r].pc # "open" /\ capture[r].pc # "open"
  BY <1>7 DEF SinkQuiet, CaptureQuiet
<1>11. QueueFinished(c)
  BY <1>1 DEF QueueFinished
<1>12. QED
  BY <1>11, <1>1, <1>2, <1>3, <1>5, <1>6, <1>8, <1>9, <1>10, CommandLeaves DEF ResetPcs

LEMMA FinishStartKeepsSingle ==
  ASSUME NEW c, Callers = {c}, LInv, FinishStart(c)
  PROVE  Single'
<1>f. /\ c \in Callers /\ CommandRun(c) /\ CommandPhase(c) /\ CommandServes(c) /\ CommandSound(c)
      /\ OneRun /\ Owned /\ Phases /\ Served /\ Accounts /\ snapshot \in SnapshotType
  BY SoleFacts DEF Single
<1>1. /\ Return(c) /\ Free(CallerThread(c)) /\ caller[c].pc = "finish_start"
      /\ UNCHANGED <<run, stopRequested, terminalFailure, lastRun, queue, sink, capture, fault>>
      /\ IF terminalFailure THEN snapshot' = snapshot
         ELSE snapshot' = [snapshot EXCEPT !.state = "Running"]
  BY DEF FinishStart, CallerAt
<1>2. /\ SameRecord
      /\ IF terminalFailure THEN snapshot' = snapshot ELSE snapshot'.state = "Running"
  BY <1>1, <1>f DEF SameRecord, SnapshotType
<1>3. caller'[c] = IdleCaller /\ caller'[c].pc = "idle" /\ caller'[c].goal = "none"
      /\ ~caller'[c].joinFailed
  BY <1>1, <1>f, ReturnFields
<1>4. ~Holding(c) /\ ~Holding(c)'
  BY <1>1, <1>3 DEF Holding, HoldingPcs
<1>5. /\ run = Handed(lastRun) /\ snapshot.state \in {"Starting", "Failed"}
      /\ Requested /\ sink[lastRun].ready = "ok" /\ capture[lastRun].ready = "ok"
  <2>1. caller[c].goal # "park"
    BY <1>1, <1>f DEF CommandSound, Parking
  <2>2. QED
    BY <1>1, <1>f, <2>1 DEF CommandRun, CommandPhase, CommandServes, LaunchPcs
<1>6. CommandRun(c)' /\ CommandPhase(c)' /\ CommandServes(c)'
  BY <1>2, <1>3, <1>4, <1>5 DEF CommandRun, CommandPhase, CommandServes, LaunchPcs, ClearingPcs
<1>7. Owned'
  <2>1. \A r \in Runs : /\ HoldsSink(r) => HoldsSink(r)'
                        /\ HoldsCapture(r) => HoldsCapture(r)'
    BY <1>1, <1>4 DEF HoldsSink, HoldsCapture
  <2>2. QED
    BY <1>1, <2>1, OwnedBySlot
<1>8. Settled'
  BY <1>1, <1>2, <1>4, <1>f DEF Settled, SameRecord, Accounts
<1>9. \A r \in Runs : sink[r].pc # "open" /\ capture[r].pc # "open"
  <2>1. ASSUME NEW r \in Runs, sink[r].pc = "open" \/ capture[r].pc = "open"
        PROVE  FALSE
    <3>1. r = lastRun
      BY <2>1, LiveIsLast DEF SinkQuiet, CaptureQuiet
    <3>2. Announced(r)
      BY <1>f DEF Served
    <3>3. QED
      BY <1>5, <2>1, <3>1, <3>2 DEF Announced
  <2>2. QED
    BY <2>1
<1>10. /\ Requested' /\ run' = Handed(lastRun)
       /\ run' # NoHandles => run'.run = lastRun
       /\ snapshot'.state = "Failed" => snapshot.state = "Failed"
       /\ snapshot'.state # "Stopped"
  BY <1>1, <1>2, <1>5, <1>f DEF Requested, OneRun
<1>11. QueueFinished(c)
  BY <1>1 DEF QueueFinished
<1>12. QED
  BY <1>11, <1>1, <1>2, <1>3, <1>5, <1>6, <1>7, <1>8, <1>9, <1>10, CommandLeaves DEF ResetPcs

-----------------------------------------------------------------------------
(* The launch of a run.                                                    *)

\* Between two runs no thread is alive, and none is inside record_failure.
LEMMA BetweenRuns ==
  ASSUME NEW c, Callers = {c}, LInv,
         caller[c].pc \in {"resolve", "set_stopped", "reset_stop", "reset_failure", "spawn_sink", "clear"}
  PROVE  /\ \A r \in Runs : SinkQuiet(r) /\ CaptureQuiet(r)
         /\ \A r \in Runs : sink[r].pc # "open" /\ capture[r].pc # "open"
         /\ \A t \in Threads : Free(t)
<1>1. \A r \in Runs : SinkQuiet(r) /\ CaptureQuiet(r)
  BY LiveIsLast
<1>2. \A t \in Threads : Free(t)
  BY BusyIsLast
<1>3. QED
  BY <1>1, <1>2 DEF SinkQuiet, CaptureQuiet

LEMMA ResolveKeepsSingle ==
  ASSUME NEW c, Callers = {c}, LInv, Resolve(c)
  PROVE  Single'
<1>f. /\ c \in Callers /\ CommandRun(c) /\ CommandPhase(c) /\ CommandServes(c) /\ CommandSound(c)
      /\ OneRun /\ Owned /\ Fresh /\ Phases /\ OneFailure /\ Faulty /\ Served /\ Accounts
      /\ TypeOK /\ lastRun \in Nat /\ caller[c] \in CallerType
      /\ NoHandles.run = NoRun /\ ~NoHandles.sink /\ ~NoHandles.capture
      /\ \A r \in Runs : r \in Nat /\ r # NoRun
  BY SoleFacts DEF Single
<1>1. /\ Free(CallerThread(c)) /\ caller[c].pc = "resolve"
      /\ UNCHANGED <<stopRequested, terminalFailure, run, queue, sink, capture, fault>>
  BY DEF Resolve, CallerAt
<1>2. /\ \A r \in Runs : SinkQuiet(r) /\ CaptureQuiet(r)
      /\ \A r \in Runs : sink[r].pc # "open" /\ capture[r].pc # "open"
      /\ \A t \in Threads : Free(t)
  BY <1>1, BetweenRuns
<1>3. run = NoHandles /\ caller[c].goal = "start" /\ snapshot.state \in {"Stopped", "Failed"}
      /\ ~Holding(c)
  BY <1>1, <1>f DEF CommandRun, CommandPhase, Holding, HoldingPcs
<1>4. Owned'
  BY <1>1, <1>2, OwnedBySlot
<1>5. CASE Return(c) /\ UNCHANGED <<snapshot, lastRun>>
  <2>1. caller'[c] = IdleCaller /\ caller'[c].pc = "idle" /\ caller'[c].goal = "none"
        /\ ~caller'[c].joinFailed
    BY <1>5, <1>f, ReturnFields
  <2>2. ~Holding(c)'
    BY <2>1 DEF Holding, HoldingPcs
  <2>3. CommandRun(c)' /\ CommandPhase(c)' /\ CommandServes(c)'
    BY <1>3, <1>5, <2>1, <2>2 DEF CommandRun, CommandPhase, CommandServes, LaunchPcs, ClearingPcs
  <2>4. Settled'
    BY <1>1, <1>3, <1>5, <1>f, <2>2 DEF Settled, Accounts
  <2>5. SameFlags /\ run' = run
    BY <1>1, <1>5 DEF SameFlags
  <2>6. QED
    BY <1>1, <1>2, <1>4, <2>1, <2>3, <2>4, <2>5, CommandOnly DEF ResetPcs
<1>6. CASE /\ lastRun' = lastRun + 1
           /\ snapshot' = [NoSnapshot EXCEPT !.state = "Starting", !.run = lastRun + 1]
           /\ Become(c, [caller[c] EXCEPT
                           !.pc = "reset_stop", !.target = lastRun + 1,
                           !.held = [NoHandles EXCEPT !.run = lastRun + 1]])
  <2> DEFINE h == [NoHandles EXCEPT !.run = lastRun + 1]
             e == [caller[c] EXCEPT !.pc = "reset_stop", !.target = lastRun + 1, !.held = h]
  <2>1. h.run = lastRun + 1 /\ ~h.capture /\ ~h.sink
    BY DEF NoHandles
  <2>2. caller'[c] = e
    BY <1>6, <1>f, BecomeCaller DEF LInv
  <2> HIDE DEF h
  <2>3. /\ e.pc = "reset_stop" /\ e.goal = "start" /\ e.target = lastRun + 1 /\ e.held = h
        /\ e.joinFailed = caller[c].joinFailed
    BY <1>3, <1>f DEF CallerType
  <2> HIDE DEF e
  <2>4. /\ snapshot'.state = "Starting" /\ snapshot'.run = lastRun + 1 /\ snapshot'.error = "None"
        /\ snapshot'.output = 0 /\ snapshot'.accepted = 0 /\ snapshot'.discarded = 0
    BY <1>6 DEF NoSnapshot
  <2>5. Holding(c)'
    BY <2>2, <2>3 DEF Holding, HoldingPcs
  <2>6. lastRun' \in Nat /\ lastRun' # NoRun /\ lastRun' > lastRun
    BY <1>6, <1>f DEF NoRun
  <2>7. CommandRun(c)'
    BY <1>1, <1>3, <1>6, <1>f, <2>1, <2>2, <2>3, <2>5, <2>6 DEF CommandRun
  <2>8. OneRun'
    BY <1>1, <1>3, <1>6, <2>4, <2>7 DEF OneRun
  <2>9. \A r \in Runs : r >= lastRun' => Untouched(r)'
    BY <1>1, <1>f, <2>6 DEF Fresh, Untouched
  <2>10. Fresh'
    BY <1>f, <2>6, <2>9 DEF Fresh
  <2>11. Phases'
    <3>1. CommandPhase(c)'
      BY <2>2, <2>3, <2>4 DEF CommandPhase, LaunchPcs, ClearingPcs
    <3>2. QED
      BY <2>4, <3>1 DEF Phases
  <2>12. OneFailure' /\ Faulty'
    <3>1. \A t \in Threads : Free(t)' /\ ~InRecord(t)'
      BY <1>1, <1>2 DEF Free, InRecord, NoFault
    <3>2. CallerThread(c) \in Threads
          /\ \A r \in Runs : SinkThread(r) \in Threads /\ CaptureThread(r) \in Threads
      BY ThreadsApart
    <3>3. QED
      BY <3>1, <3>2 DEF OneFailure, Faulty
  <2>13. \A r \in Runs : r = lastRun' => WorkersServe(r)' /\ RunAccounts(r)'
    <3>1. SUFFICES ASSUME NEW r \in Runs, r = lastRun'
                   PROVE  WorkersServe(r)' /\ RunAccounts(r)'
      OBVIOUS
    <3>2. sink'[r] = NewSink /\ capture'[r] = NewCapture /\ queue'[r] = NewQueue
      BY <2>6, <2>9, <3>1 DEF Untouched
    <3>3. WorkersServe(r)'
      BY <3>2 DEF WorkersServe, NewSink, NewCapture, NewQueue
    <3>4. RunAccounts(r)'
      BY <2>4, <3>2 DEF RunAccounts, NewSink, NewCapture, NewQueue, Counting
    <3>5. QED
      BY <3>3, <3>4
  <2>14. Served'
    <3>1. CommandServes(c)'
      BY <2>2, <2>3 DEF CommandServes
    <3>2. ASSUME NEW r \in Runs
          PROVE  Announced(r)'
      BY <1>1, <1>2, <1>f DEF Served, Announced
    <3>3. QED
      BY <2>4, <2>13, <3>1, <3>2 DEF Served
  <2>15. Accounts'
    BY <2>4, <2>5, <2>13 DEF Accounts, Settled
  <2>16. QED
    BY <1>4, <2>8, <2>10, <2>11, <2>12, <2>14, <2>15 DEF Single
<1>7. QED
  BY <1>5, <1>6, <1>1 DEF Resolve

\* The flags of the run before are reset when nothing of it is left.
LEMMA ResetKeepsSingle ==
  ASSUME NEW c, Callers = {c}, LInv, ResetStop(c) \/ ResetFailure(c)
  PROVE  Single'
<1>f. /\ c \in Callers /\ CommandRun(c) /\ CommandPhase(c) /\ CommandServes(c)
      /\ OneRun /\ Owned /\ Fresh /\ Phases /\ OneFailure /\ Faulty /\ Served /\ Accounts
      /\ lastRun \in Nat
  BY SoleFacts DEF Single
<1>1. PICK pc \in {"reset_failure", "spawn_sink"} :
        /\ Go(c, pc) /\ Free(CallerThread(c)) /\ caller[c].pc \in {"reset_stop", "reset_failure"}
        /\ UNCHANGED <<snapshot, run, lastRun, queue, sink, capture, fault>>
        /\ \/ pc = "reset_failure" /\ ~stopRequested'
           \/ /\ pc = "spawn_sink" /\ ~terminalFailure' /\ stopRequested' = stopRequested
              /\ caller[c].pc = "reset_failure"
  BY DEF ResetStop, ResetFailure, CallerAt
<1>2. /\ caller'[c].pc = pc /\ caller'[c].goal = caller[c].goal /\ KeepsHandles(c)
  BY <1>1, <1>f, GoFields
<1>3. Holding(c) /\ Holding(c)'
  BY <1>1, <1>2 DEF Holding, HoldingPcs
<1>4. /\ \A t \in Threads : Free(t)
      /\ \A r \in Runs : sink[r].pc # "open" /\ capture[r].pc # "open"
  BY <1>1, BetweenRuns
<1>5. snapshot.state = "Starting" /\ snapshot.error = "None" /\ caller[c].goal \in {"start", "park"}
  BY <1>1, <1>f DEF CommandPhase, LaunchPcs
<1>6. OneRun'
  <2>1. CommandRun(c)'
    BY <1>1, <1>2, <1>3, <1>f DEF CommandRun, KeepsHandles, LaunchPcs
  <2>2. QED
    BY <1>1, <1>f, <2>1 DEF OneRun
<1>7. Owned'
  BY <1>1, <1>2, <1>3, OwnedByGoing DEF KeepsHandles
<1>8. \A r \in Runs : r = lastRun => Untouched(r)
  BY <1>1, <1>f DEF Fresh, ResetPcs
<1>9. Fresh'
  BY <1>1, <1>8, <1>f DEF Fresh, Untouched
<1>10. Phases'
  <2>1. CommandPhase(c)'
    BY <1>1, <1>2, <1>5, <1>f DEF CommandPhase, LaunchPcs, ClearingPcs
  <2>2. QED
    BY <1>1, <1>5, <2>1 DEF Phases
<1>11. OneFailure' /\ Faulty'
  <2>1. \A t \in Threads : Free(t)' /\ ~InRecord(t)'
    BY <1>1, <1>4 DEF Free, InRecord, NoFault
  <2>2. CallerThread(c) \in Threads
        /\ \A r \in Runs : SinkThread(r) \in Threads /\ CaptureThread(r) \in Threads
    BY ThreadsApart
  <2>3. QED
    BY <2>1, <2>2 DEF OneFailure, Faulty
<1>12. Served'
  <2>1. CommandServes(c)'
    BY <1>1, <1>2, <1>f DEF CommandServes, Requested, LaunchPcs
  <2>2. ASSUME NEW r \in Runs
        PROVE  Announced(r)'
    BY <1>1, <1>4, <1>f DEF Served, Announced
  <2>3. \A r \in Runs : r = lastRun => WorkersServe(r)'
    BY <1>1, <1>8 DEF Untouched, WorkersServe, NewSink, NewCapture, NewQueue
  <2>4. QED
    BY <1>1, <1>5, <2>1, <2>2, <2>3 DEF Served
<1>13. Accounts'
  <2>1. \A r \in Runs : r = lastRun => RunAccounts(r)'
    <3>1. \A r \in Runs : r = lastRun => RunAccounts(r) /\ sink[r].pc = "none"
      BY <1>8, <1>f DEF Accounts, Untouched, NewSink
    <3>2. QED
      BY <1>1, <3>1 DEF RunAccounts, Counting
  <2>2. QED
    BY <1>1, <1>3, <1>f, <2>1 DEF Accounts, Settled
<1>14. QED
  BY <1>6, <1>7, <1>9, <1>10, <1>11, <1>12, <1>13 DEF Single

LEMMA SpawnSinkKeepsSingle ==
  ASSUME NEW c, Callers = {c}, LInv, SpawnSink(c)
  PROVE  Single'
<1>f. /\ c \in Callers /\ CommandRun(c) /\ CommandPhase(c) /\ CommandServes(c) /\ CommandSound(c)
      /\ OneRun /\ Owned /\ Fresh /\ Phases /\ OneFailure /\ Faulty /\ Served /\ Accounts
      /\ TypeOK /\ lastRun \in Nat /\ caller[c] \in CallerType /\ caller[c].held \in HandleType
      /\ NoHandles.run = NoRun /\ ~NoHandles.sink /\ ~NoHandles.capture
  BY SoleFacts DEF Single
<1>1. /\ Free(CallerThread(c)) /\ caller[c].pc = "spawn_sink"
      /\ UNCHANGED <<snapshot, stopRequested, terminalFailure, run, lastRun, queue, capture, fault>>
  BY DEF SpawnSink, CallerAt
<1>2. /\ \A r \in Runs : SinkQuiet(r) /\ CaptureQuiet(r)
      /\ \A r \in Runs : sink[r].pc # "open" /\ capture[r].pc # "open"
      /\ \A t \in Threads : Free(t)
  BY <1>1, BetweenRuns
<1>3. /\ caller[c].goal \in {"start", "park"} /\ snapshot.state \in {"Starting", "Failed"}
      /\ Holding(c) /\ caller[c].held.run = lastRun /\ run = NoHandles
      /\ caller[c].target = lastRun /\ lastRun # NoRun
      /\ ~caller[c].held.capture /\ ~caller[c].joinFailed
      /\ caller[c].goal # "park" /\ lastRun \in Runs
  <2>1. Holding(c)
    BY <1>1 DEF Holding, HoldingPcs
  <2>2. caller[c].held.run \in Runs
    BY <2>1, <1>f, CommandFacts DEF LInv
  <2>3. QED
    BY <1>1, <1>f, <2>1, <2>2 DEF CommandRun, CommandPhase, LaunchPcs
<1>4. CASE Return(c) /\ sink' = sink
  <2>1. caller'[c] = IdleCaller /\ caller'[c].pc = "idle" /\ caller'[c].goal = "none"
        /\ ~caller'[c].joinFailed
    BY <1>4, <1>f, ReturnFields
  <2>2. ~Holding(c)'
    BY <2>1 DEF Holding, HoldingPcs
  <2>3. CommandRun(c)' /\ CommandPhase(c)' /\ CommandServes(c)'
    BY <1>1, <1>3, <2>1, <2>2 DEF CommandRun, CommandPhase, CommandServes, LaunchPcs, ClearingPcs
  <2>4. Settled'
    BY <1>1, <1>f DEF Settled, Accounts
  <2>5. Owned'
    BY <1>1, <1>2, <1>4, OwnedBySlot
  <2>6. QED
    BY <1>1, <1>2, <1>4, <2>1, <2>3, <2>4, <2>5, CommandOnly DEF ResetPcs, SameFlags
<1>5. CASE /\ sink' = [sink EXCEPT ![caller[c].target].pc = "open"]
           /\ Become(c, [caller[c] EXCEPT !.pc = "wait_sink", !.held.sink = TRUE])
  <2> DEFINE h == [caller[c].held EXCEPT !.sink = TRUE]
             e == [caller[c] EXCEPT !.pc = "wait_sink", !.held = h]
  <2>1. h.run = lastRun /\ ~h.capture /\ h.sink
    BY <1>3, <1>f DEF HandleType
  <2>2. caller'[c] = e
    <3>1. Become(c, e)
      BY <1>5, <1>f DEF CallerType
    <3>2. QED
      BY <1>f, <3>1, BecomeCaller DEF LInv
  <2> HIDE DEF h
  <2>3. /\ e.pc = "wait_sink" /\ e.goal = caller[c].goal /\ e.target = lastRun /\ e.held = h
        /\ ~e.joinFailed
    BY <1>3, <1>f DEF CallerType
  <2> HIDE DEF e
  <2>4. Holding(c)'
    BY <2>2, <2>3 DEF Holding, HoldingPcs
  <2>5. OneRun'
    <3>1. CommandRun(c)'
      BY <1>1, <1>3, <2>1, <2>2, <2>3, <2>4 DEF CommandRun
    <3>2. QED
      BY <1>1, <1>f, <3>1 DEF OneRun
  <2>6. Untouched(lastRun)
    BY <1>1, <1>3, <1>f DEF Fresh, ResetPcs
  <2>7. /\ \A r \in Runs : r # lastRun => sink'[r] = sink[r]
        /\ sink'[lastRun].pc = "open" /\ sink'[lastRun].ready = "pending"
        /\ sink'[lastRun].sequence = 0
    BY <1>3, <1>5, <1>f, <2>6 DEF TypeOK, Untouched, NewSink
  <2>8. Owned'
    <3>1. ASSUME NEW r \in Runs
          PROVE  (SinkQuiet(r) \/ HoldsSink(r))' /\ CaptureQuiet(r)'
      <4>1. CaptureQuiet(r)' /\ (r # lastRun => SinkQuiet(r)')
        BY <1>1, <1>2, <2>7 DEF CaptureQuiet, SinkQuiet, Free
      <4>2. r = lastRun => HoldsSink(r)'
        BY <1>1, <1>f, <2>1, <2>2, <2>3, <2>4 DEF HoldsSink
      <4>3. QED
        BY <4>1, <4>2
    <3>2. QED
      BY <3>1 DEF Owned
  <2>9. Fresh'
    BY <1>1, <1>f, <2>2, <2>3, <2>7 DEF Fresh, Untouched, ResetPcs
  <2>10. Phases'
    <3>1. CommandPhase(c)'
      BY <1>1, <1>3, <2>2, <2>3 DEF CommandPhase, LaunchPcs, ClearingPcs
    <3>2. QED
      BY <1>1, <1>f, <3>1 DEF Phases
  <2>11. OneFailure' /\ Faulty'
    <3>1. \A t \in Threads : Free(t)' /\ ~InRecord(t)'
      BY <1>1, <1>2 DEF Free, InRecord, NoFault
    <3>2. CallerThread(c) \in Threads
          /\ \A r \in Runs : SinkThread(r) \in Threads /\ CaptureThread(r) \in Threads
      BY ThreadsApart
    <3>3. QED
      BY <3>1, <3>2 DEF OneFailure, Faulty
  <2>12. Served'
    <3>1. CommandServes(c)'
      BY <1>1, <1>3, <1>f, <2>2, <2>3 DEF CommandServes, Requested, LaunchPcs
    <3>2. ASSUME NEW r \in Runs
          PROVE  Announced(r)'
      <4>1. CASE r # lastRun
        BY <1>1, <1>2, <1>f, <2>7, <4>1 DEF Served, Announced
      <4>2. CASE r = lastRun
        <5>1. Listening(r)'
          BY <1>f, <2>2, <2>3, <4>2 DEF Listening
        <5>2. QED
          BY <1>1, <2>6, <2>7, <4>2, <5>1 DEF Announced, Untouched, NewCapture
      <4>3. QED
        BY <4>1, <4>2
    <3>3. \A r \in Runs : r = lastRun => WorkersServe(r)'
      BY <1>1, <2>6, <2>7 DEF Untouched, WorkersServe, NewCapture, NewQueue
    <3>4. QED
      BY <1>1, <1>3, <3>1, <3>2, <3>3 DEF Served
  <2>13. Accounts'
    <3>1. \A r \in Runs : r = lastRun => RunAccounts(r)'
      <4>1. RunAccounts(lastRun) /\ sink[lastRun].sequence = 0
        BY <1>3, <1>f, <2>6 DEF Accounts, Untouched, NewSink
      <4>2. QED
        BY <1>1, <2>7, <4>1 DEF RunAccounts, Counting
    <3>2. QED
      BY <1>1, <2>2, <2>3, <2>4, <3>1 DEF Accounts, Settled
  <2>14. QED
    BY <2>5, <2>8, <2>9, <2>10, <2>11, <2>12, <2>13 DEF Single
<1>6. QED
  BY <1>4, <1>5 DEF SpawnSink

\* A command that gives up enters record_failure for the last run.
LEMMA CommandRaises ==
  ASSUME NEW c, Callers = {c}, LInv, Free(CallerThread(c)), NEW error,
         Raise(CallerThread(c), error, lastRun),
         UNCHANGED <<snapshot, stopRequested, terminalFailure, run, lastRun, queue, sink, capture>>,
         KeepsHandles(c), Holding(c) <=> Holding(c)',
         CommandRun(c)', CommandPhase(c)',
         \/ caller'[c].pc = "join_capture" /\ caller'[c].goal = "park"
         \/ caller'[c].pc = "request_stop" /\ caller'[c].goal = "abort"
  PROVE  Single'
<1>1. /\ OneRun /\ Owned /\ Fresh /\ Phases /\ OneFailure /\ Faulty /\ Served /\ Accounts
      /\ c \in Callers /\ TypeOK
  BY SoleFacts DEF Single
<1>t. /\ \A r \in Runs : SinkThread(r) \in Threads /\ CaptureThread(r) \in Threads
      /\ \A r \in Runs : CallerThread(c) # SinkThread(r) /\ CallerThread(c) # CaptureThread(r)
      /\ CallerThread(c) \in Threads
  BY <1>1, ThreadsApart
<1>2. /\ \A t \in Threads \ {CallerThread(c)} : fault'[t] = fault[t]
      /\ fault'[CallerThread(c)].step = "exchange" /\ fault'[CallerThread(c)].run = lastRun
  BY <1>1, <1>t DEF Raise, TypeOK
<1>3. \A r \in Runs : /\ Free(SinkThread(r))' = Free(SinkThread(r))
                      /\ Free(CaptureThread(r))' = Free(CaptureThread(r))
  BY <1>2, <1>t DEF Free
<1>4. OneRun'
  BY <1>1 DEF OneRun
<1>5. Owned'
  BY <1>1, <1>3 DEF Owned, SinkQuiet, CaptureQuiet, HoldsSink, HoldsCapture, KeepsHandles
<1>6. Fresh'
  BY <1>1 DEF Fresh, Untouched, ResetPcs
<1>7. Phases'
  BY <1>1 DEF Phases
<1>8. OneFailure'
  BY <1>1, <1>2, <1>t, WorkerFails
<1>9. Faulty'
  BY <1>1, <1>3 DEF Faulty
<1>10. Served'
  <2>1. CommandServes(c)'
    BY DEF CommandServes, LaunchPcs
  <2>2. ASSUME NEW r \in Runs
        PROVE  Announced(r)'
    BY <1>1 DEF Served, Announced, Listening, KeepsHandles
  <2>3. \A r \in Runs : r = lastRun => WorkersServe(r)'
    BY <1>1, <1>3 DEF Served, WorkersServe, Serving
  <2>4. QED
    BY <1>1, <2>1, <2>2, <2>3 DEF Served, Requested
<1>11. Accounts'
  BY <1>1, <1>3 DEF Accounts, RunAccounts, Settled, Counting, Drained
<1>12. QED
  BY <1>4, <1>5, <1>6, <1>7, <1>8, <1>9, <1>10, <1>11 DEF Single

LEMMA WaitSinkKeepsSingle ==
  ASSUME NEW c, Callers = {c}, LInv, WaitSink(c)
  PROVE  Single'
<1>f. /\ c \in Callers /\ CommandRun(c) /\ CommandPhase(c) /\ CommandServes(c) /\ CommandSound(c)
      /\ Phases /\ Accounts
  BY SoleFacts DEF Single
<1>1. /\ Free(CallerThread(c)) /\ caller[c].pc = "wait_sink"
      /\ UNCHANGED <<snapshot, stopRequested, terminalFailure, run, lastRun, queue, sink, capture>>
  BY DEF WaitSink, CallerAt
<1>2. /\ caller[c].goal \in {"start", "park"} /\ snapshot.state \in {"Starting", "Failed"}
      /\ Holding(c) /\ caller[c].held.run = lastRun /\ run = NoHandles
      /\ caller[c].target = lastRun /\ lastRun # NoRun
      /\ ~caller[c].held.capture /\ ~caller[c].joinFailed
      /\ caller[c].goal # "park" /\ Requested
  <2>1. Holding(c)
    BY <1>1 DEF Holding, HoldingPcs
  <2>2. QED
    BY <1>1, <1>f, <2>1 DEF CommandRun, CommandPhase, CommandServes, LaunchPcs
<1>3. CASE sink[lastRun].ready = "ok" /\ Go(c, "spawn_capture") /\ fault' = fault
  <2>1. /\ caller'[c].pc = "spawn_capture" /\ caller'[c].goal = caller[c].goal /\ KeepsHandles(c)
    BY <1>3, <1>f, GoFields
  <2>2. Holding(c)'
    BY <2>1 DEF Holding, HoldingPcs
  <2>3. CommandRun(c)' /\ CommandPhase(c)'
    BY <1>1, <1>2, <2>1, <2>2 DEF CommandRun, KeepsHandles, CommandPhase, LaunchPcs, ClearingPcs
  <2>4. CommandServes(c)'
    BY <1>1, <1>2, <1>3, <2>1 DEF CommandServes, Requested
  <2>5. Owned'
    BY <1>1, <1>2, <1>3, <2>1, <2>2, OwnedByGoing DEF KeepsHandles
  <2>6. Settled'
    BY <1>f, <2>2 DEF Settled
  <2>7. QED
    BY <1>1, <1>3, <2>1, <2>3, <2>4, <2>5, <2>6, CommandOnly DEF SameFlags, KeepsHandles, ResetPcs
<1>4. ASSUME NEW error, GiveUpEarly(c, error)
      PROVE  Single'
  <2>1. /\ caller'[c].pc = "join_capture" /\ caller'[c].goal = "park" /\ KeepsHandles(c)
    BY <1>4, <1>f, AimFields DEF GiveUpEarly
  <2>2. Holding(c)'
    BY <2>1 DEF Holding, HoldingPcs
  <2>3. CommandRun(c)' /\ CommandPhase(c)'
    BY <1>1, <1>2, <2>1, <2>2 DEF CommandRun, KeepsHandles, CommandPhase, LaunchPcs, ClearingPcs
  <2>4. Raise(CallerThread(c), error, lastRun)
    BY <1>2, <1>4 DEF GiveUpEarly
  <2>5. QED
    BY <1>1, <1>2, <2>1, <2>2, <2>3, <2>4, CommandRaises
<1>5. QED
  BY <1>2, <1>3, <1>4 DEF WaitSink

LEMMA SpawnCaptureKeepsSingle ==
  ASSUME NEW c, Callers = {c}, LInv, SpawnCapture(c)
  PROVE  Single'
<1>f. /\ c \in Callers /\ CommandRun(c) /\ CommandPhase(c) /\ CommandServes(c) /\ CommandSound(c)
      /\ OneRun /\ Owned /\ Fresh /\ Phases /\ OneFailure /\ Faulty /\ Served /\ Accounts
      /\ TypeOK /\ lastRun \in Nat /\ caller[c] \in CallerType /\ caller[c].held \in HandleType
  BY SoleFacts DEF Single
<1>1. /\ Free(CallerThread(c)) /\ caller[c].pc = "spawn_capture"
      /\ UNCHANGED <<snapshot, stopRequested, terminalFailure, run, lastRun, queue, sink>>
  BY DEF SpawnCapture, CallerAt
<1>2. /\ caller[c].goal \in {"start", "park"} /\ snapshot.state \in {"Starting", "Failed"}
      /\ Holding(c) /\ caller[c].held.run = lastRun /\ run = NoHandles
      /\ caller[c].target = lastRun /\ lastRun # NoRun /\ lastRun \in Runs
      /\ ~caller[c].held.capture /\ caller[c].held.sink /\ ~caller[c].joinFailed
      /\ caller[c].goal # "park" /\ Requested /\ sink[lastRun].ready = "ok"
      /\ capture[lastRun].pc = "none"
      /\ queue[lastRun].producerDone => queue[lastRun].failed
  <2>1. Holding(c)
    BY <1>1 DEF Holding, HoldingPcs
  <2>2. caller[c].held.run \in Runs
    BY <2>1, <1>f, CommandFacts DEF LInv
  <2>3. QED
    BY <1>1, <1>f, <2>1, <2>2 DEF CommandRun, CommandPhase, CommandServes, LaunchPcs, CommandSound,
                                  Launching, NotSpawned
<1>3. CASE GiveUpEarly(c, "WorkerFailure") /\ capture' = capture
  <2>1. /\ caller'[c].pc = "join_capture" /\ caller'[c].goal = "park" /\ KeepsHandles(c)
    BY <1>3, <1>f, AimFields DEF GiveUpEarly
  <2>2. Holding(c)'
    BY <2>1 DEF Holding, HoldingPcs
  <2>3. CommandRun(c)' /\ CommandPhase(c)'
    BY <1>1, <1>2, <2>1, <2>2 DEF CommandRun, KeepsHandles, CommandPhase, LaunchPcs, ClearingPcs
  <2>4. Raise(CallerThread(c), "WorkerFailure", lastRun)
    BY <1>2, <1>3 DEF GiveUpEarly
  <2>5. QED
    BY <1>1, <1>2, <1>3, <2>1, <2>2, <2>3, <2>4, CommandRaises
<1>4. CASE /\ capture' = [capture EXCEPT ![caller[c].target].pc = "open"]
           /\ Become(c, [caller[c] EXCEPT !.pc = "install", !.held.capture = TRUE])
           /\ fault' = fault
  <2> DEFINE h == [caller[c].held EXCEPT !.capture = TRUE]
             e == [caller[c] EXCEPT !.pc = "install", !.held = h]
  <2>1. h = Handed(lastRun)
    <3>1. h \in HandleType /\ h.run = lastRun /\ h.capture = TRUE /\ h.sink = caller[c].held.sink
      BY <1>2, <1>f DEF HandleType
    <3>2. caller[c].held.sink = TRUE
      BY <1>2, <1>f DEF HandleType
    <3> HIDE DEF h
    <3>3. h = [run |-> h.run, capture |-> h.capture, sink |-> h.sink]
      BY <3>1 DEF HandleType
    <3>4. QED
      BY <3>1, <3>2, <3>3 DEF Handed
  <2>2. caller'[c] = e
    <3>1. Become(c, e)
      BY <1>4, <1>f DEF CallerType
    <3>2. QED
      BY <1>f, <3>1, BecomeCaller DEF LInv
  <2> HIDE DEF h
  <2>3. /\ e.pc = "install" /\ e.goal = caller[c].goal /\ e.target = lastRun
        /\ e.held = Handed(lastRun) /\ ~e.joinFailed
    BY <1>2, <1>f, <2>1 DEF CallerType
  <2> HIDE DEF e
  <2>4. Holding(c)' /\ Handed(lastRun).run = lastRun /\ Handed(lastRun).sink
        /\ Handed(lastRun).capture
    BY <2>2, <2>3 DEF Holding, HoldingPcs, Handed
  <2>5. OneRun'
    <3>1. CommandRun(c)'
      BY <1>1, <1>2, <2>2, <2>3, <2>4 DEF CommandRun
    <3>2. QED
      BY <1>1, <1>f, <3>1 DEF OneRun
  <2>6. /\ \A r \in Runs : r # lastRun => capture'[r] = capture[r]
        /\ capture'[lastRun].pc = "open" /\ capture'[lastRun].ready = capture[lastRun].ready
        /\ capture'[lastRun].made = capture[lastRun].made
    BY <1>2, <1>4, <1>f DEF TypeOK, CaptureType
  <2>7. Announced(lastRun) /\ WorkersServe(lastRun) /\ RunAccounts(lastRun)
    BY <1>2, <1>f DEF Served, Accounts
  <2>8. Owned'
    <3>1. ASSUME NEW r \in Runs
          PROVE  (SinkQuiet(r) \/ HoldsSink(r))' /\ (CaptureQuiet(r) \/ HoldsCapture(r))'
      <4>1. CASE r = lastRun
        BY <1>f, <2>2, <2>3, <2>4, <4>1 DEF HoldsSink, HoldsCapture
      <4>2. CASE r # lastRun
        <5>1. ~HoldsSink(r) /\ ~HoldsCapture(r)
          BY <1>2, <1>f, <4>2, SoleFacts DEF HoldsSink, HoldsCapture
        <5>2. SinkQuiet(r) /\ CaptureQuiet(r)
          BY <1>f, <5>1 DEF Owned
        <5>3. QED
          BY <1>1, <1>4, <2>6, <4>2, <5>2 DEF SinkQuiet, CaptureQuiet, Free
      <4>3. QED
        BY <4>1, <4>2
    <3>2. QED
      BY <3>1 DEF Owned
  <2>9. Fresh'
    BY <1>1, <1>f, <2>2, <2>3, <2>6 DEF Fresh, Untouched, ResetPcs
  <2>10. Phases'
    <3>1. CommandPhase(c)'
      BY <1>1, <1>2, <2>2, <2>3 DEF CommandPhase, LaunchPcs, ClearingPcs
    <3>2. QED
      BY <1>1, <1>f, <3>1 DEF Phases
  <2>11. OneFailure'
    BY <1>1, <1>4, <1>f DEF OneFailure, InRecord, Free
  <2>12. Faulty'
    <3>1. Free(CallerThread(c))'
      BY <1>1, <1>4 DEF Free
    <3>2. Free(CaptureThread(lastRun))
      BY <1>2, <1>f DEF Faulty
    <3>3. QED
      BY <1>1, <1>4, <1>f, <2>6, <3>1, <3>2 DEF Faulty, Free
  <2>13. Served'
    <3>1. CommandServes(c)'
      BY <1>1, <1>2, <2>2, <2>3 DEF CommandServes, Requested
    <3>2. ASSUME NEW r \in Runs
          PROVE  Announced(r)'
      <4>1. CASE r # lastRun
        <5>1. Listening(r) => Listening(r)'
          BY <1>f, <1>2, <4>1 DEF Listening
        <5>2. QED
          BY <1>1, <1>f, <2>6, <4>1, <5>1 DEF Served, Announced
      <4>2. CASE r = lastRun
        <5>1. Listening(r)'
          BY <1>f, <2>2, <2>3, <4>2 DEF Listening
        <5>2. QED
          BY <1>1, <1>2, <2>6, <2>7, <4>2, <5>1 DEF Announced
      <4>3. QED
        BY <4>1, <4>2
    <3>3. WorkersServe(lastRun)'
      BY <1>1, <1>2, <1>4, <2>6, <2>7 DEF WorkersServe, Serving, Free, Announced
    <3>4. QED
      BY <1>1, <1>2, <3>1, <3>2, <3>3 DEF Served
  <2>14. Accounts'
    <3>1. ~(sink[lastRun].pc \in {"close", "final", "done"} /\ Free(SinkThread(lastRun))
            /\ ~terminalFailure)
      BY <1>2, <2>7 DEF WorkersServe, Serving
    <3>2. RunAccounts(lastRun)'
      BY <1>1, <1>2, <1>4, <2>6, <2>7, <3>1 DEF RunAccounts, Counting, Free
    <3>3. QED
      BY <1>1, <1>f, <2>2, <2>3, <2>4, <3>2 DEF Accounts, Settled
  <2>15. QED
    BY <2>5, <2>8, <2>9, <2>10, <2>11, <2>12, <2>13, <2>14 DEF Single
<1>5. QED
  BY <1>3, <1>4 DEF SpawnCapture

LEMMA InstallKeepsSingle ==
  ASSUME NEW c, Callers = {c}, LInv, InstallRun(c)
  PROVE  Single'
<1>f. /\ c \in Callers /\ CommandRun(c) /\ CommandPhase(c) /\ CommandServes(c) /\ CommandSound(c)
      /\ OneRun /\ Owned /\ Phases /\ Accounts
      /\ lastRun \in Nat /\ caller[c] \in CallerType /\ caller[c].held \in HandleType
      /\ NoHandles.run = NoRun /\ ~NoHandles.sink /\ ~NoHandles.capture
      /\ \A r \in Runs : r \in Nat /\ r # NoRun
  BY SoleFacts DEF Single
<1>1. /\ Free(CallerThread(c)) /\ caller[c].pc = "install" /\ run' = caller[c].held
      /\ SameFlags
  BY DEF InstallRun, CallerAt, SameFlags
<1>2. /\ caller[c].goal \in {"start", "park"} /\ snapshot.state \in {"Starting", "Failed"}
      /\ Holding(c) /\ caller[c].held.run = lastRun /\ run = NoHandles
      /\ caller[c].target = lastRun /\ lastRun # NoRun /\ ~caller[c].joinFailed
  <2>1. Holding(c)
    BY <1>1 DEF Holding, HoldingPcs
  <2>2. QED
    BY <1>1, <1>f, <2>1 DEF CommandRun, CommandPhase, LaunchPcs
<1>3. run' # NoHandles /\ run'.run = lastRun
  BY <1>1, <1>2, <1>f
<1>4. Settled'
  BY <1>3 DEF Settled
<1>5. CASE caller[c].goal = "park"
  <2>1. Return(c)
    BY <1>5 DEF InstallRun
  <2>2. caller'[c] = IdleCaller /\ caller'[c].pc = "idle" /\ caller'[c].goal = "none"
        /\ ~caller'[c].joinFailed
    BY <1>f, <2>1, ReturnFields
  <2>3. ~Holding(c)'
    BY <2>2 DEF Holding, HoldingPcs
  <2>4. CommandRun(c)' /\ CommandPhase(c)' /\ CommandServes(c)'
    BY <1>1, <1>2, <2>2, <2>3 DEF CommandRun, CommandPhase, CommandServes, LaunchPcs, ClearingPcs,
                                  SameFlags
  <2>5. \A r \in Runs : SinkQuiet(r) /\ CaptureQuiet(r)
    <3>1. \A r \in Runs : ~HoldsSink(r) /\ ~HoldsCapture(r)
      BY <1>1, <1>2, <1>5, <1>f DEF HoldsSink, HoldsCapture, CommandRun
    <3>2. QED
      BY <1>f, <3>1 DEF Owned
  <2>6. Owned'
    BY <1>1, <2>5, OwnedBySlot DEF SameFlags
  <2>7. \A r \in Runs : sink[r].pc # "open" /\ capture[r].pc # "open"
    BY <2>5 DEF SinkQuiet, CaptureQuiet
  <2>8. QED
    BY <1>1, <1>2, <1>3, <1>4, <2>2, <2>4, <2>6, <2>7, CommandOnly DEF ResetPcs
<1>6. CASE caller[c].goal # "park"
  <2> DEFINE e == [caller[c] EXCEPT !.pc = "wait_capture", !.held = NoHandles]
  <2>1. /\ e.pc = "wait_capture" /\ e.goal = caller[c].goal /\ e.target = lastRun
        /\ ~e.joinFailed
    BY <1>2, <1>f DEF CallerType
  <2>2. caller'[c] = e
    BY <1>6, <1>f, BecomeCaller DEF InstallRun, LInv
  <2> HIDE DEF e
  <2>3. ~Holding(c)'
    BY <2>1, <2>2 DEF Holding, HoldingPcs
  <2>4. run' = Handed(lastRun) /\ Requested /\ sink[lastRun].ready = "ok"
    BY <1>1, <1>6, <1>f DEF CommandRun, CommandServes, LaunchPcs
  <2>5. CommandRun(c)' /\ CommandPhase(c)' /\ CommandServes(c)'
    BY <1>1, <1>2, <1>6, <2>1, <2>2, <2>3, <2>4
    DEF CommandRun, CommandPhase, CommandServes, LaunchPcs, ClearingPcs, SameFlags, Requested
  <2>6. Owned'
    <3>1. run'.sink /\ run'.capture
      BY <2>4 DEF Handed
    <3>2. \A r \in Runs : /\ HoldsSink(r) => HoldsSink(r)'
                          /\ HoldsCapture(r) => HoldsCapture(r)'
      BY <1>2, <1>3, <1>f, <3>1 DEF HoldsSink, HoldsCapture
    <3>3. QED
      BY <1>1, <3>2, OwnedBySlot DEF SameFlags
  <2>7. QED
    BY <1>1, <1>2, <1>3, <1>4, <2>1, <2>2, <2>5, <2>6, CommandOnly DEF ResetPcs
<1>7. QED
  BY <1>5, <1>6

LEMMA WaitCaptureKeepsSingle ==
  ASSUME NEW c, Callers = {c}, LInv, WaitCapture(c)
  PROVE  Single'
<1>f. /\ c \in Callers /\ CommandRun(c) /\ CommandPhase(c) /\ CommandServes(c) /\ CommandSound(c)
      /\ OneRun /\ Owned /\ Phases /\ Accounts
  BY SoleFacts DEF Single
<1>1. /\ Free(CallerThread(c)) /\ caller[c].pc = "wait_capture"
      /\ UNCHANGED <<snapshot, stopRequested, terminalFailure, run, lastRun, queue, sink, capture>>
  BY DEF WaitCapture, CallerAt
<1>2. /\ caller[c].goal = "start" /\ snapshot.state \in {"Starting", "Failed"}
      /\ ~Holding(c) /\ run = Handed(lastRun)
      /\ caller[c].target = lastRun /\ lastRun # NoRun /\ ~caller[c].joinFailed
      /\ Requested /\ sink[lastRun].ready = "ok"
  BY <1>1, <1>f DEF CommandRun, CommandPhase, CommandServes, LaunchPcs, Holding, HoldingPcs
<1>3. CASE capture[lastRun].ready = "ok" /\ Go(c, "finish_start") /\ fault' = fault
  <2>1. /\ caller'[c].pc = "finish_start" /\ caller'[c].goal = caller[c].goal /\ KeepsHandles(c)
    BY <1>3, <1>f, GoFields
  <2>2. ~Holding(c)'
    BY <2>1 DEF Holding, HoldingPcs
  <2>3. CommandRun(c)' /\ CommandPhase(c)'
    BY <1>1, <1>2, <2>1, <2>2 DEF CommandRun, KeepsHandles, CommandPhase, LaunchPcs, ClearingPcs
  <2>4. CommandServes(c)'
    BY <1>1, <1>2, <1>3, <2>1 DEF CommandServes, Requested
  <2>5. Owned'
    BY <1>1, <1>2, <1>3, <2>1, <2>2, OwnedByGoing DEF KeepsHandles
  <2>6. Settled'
    BY <1>1, <1>2, <1>f, <2>2 DEF Settled, Accounts
  <2>7. QED
    BY <1>1, <1>3, <2>1, <2>3, <2>4, <2>5, <2>6, CommandOnly DEF SameFlags, KeepsHandles, ResetPcs
<1>4. ASSUME NEW error, Raise(CallerThread(c), error, caller[c].target),
             Become(c, [caller[c] EXCEPT !.pc = "request_stop", !.goal = "abort"])
      PROVE  Single'
  <2>1. /\ caller'[c].pc = "request_stop" /\ caller'[c].goal = "abort" /\ KeepsHandles(c)
    BY <1>4, <1>f, AimFields
  <2>2. ~Holding(c)'
    BY <2>1 DEF Holding, HoldingPcs
  <2>3. CommandRun(c)' /\ CommandPhase(c)'
    BY <1>1, <1>2, <2>1, <2>2 DEF CommandRun, KeepsHandles, CommandPhase, LaunchPcs, ClearingPcs
  <2>4. Raise(CallerThread(c), error, lastRun)
    BY <1>2, <1>4
  <2>5. QED
    BY <1>1, <1>2, <2>1, <2>2, <2>3, <2>4, CommandRaises
<1>5. QED
  BY <1>2, <1>3, <1>4 DEF WaitCapture

-----------------------------------------------------------------------------
(* The cleanup of a run.                                                   *)

\* A cleanup that returned Ok: nothing is installed, nothing is held.
LEMMA AfterCleanupKeeps ==
  ASSUME NEW c, Callers = {c}, LInv, AfterCleanup(c),
         caller[c].pc \in {"take", "clear"}, run' = NoHandles, lastRun' = lastRun,
         snapshot'.state = snapshot.state
  PROVE  /\ CommandRun(c)' /\ CommandPhase(c)' /\ CommandServes(c)'
         /\ ~Holding(c)' /\ caller'[c].pc \notin ResetPcs
<1>f. /\ c \in Callers /\ CommandRun(c) /\ CommandPhase(c) /\ CommandSound(c)
  BY SoleFacts
<1>1. caller[c].goal \in {"start", "stop", "abort"}
  <2>1. caller[c] \in CallerType
    BY SoleFacts
  <2>2. QED
    BY <1>f, <2>1 DEF CallerType, CommandPhase
<1>2. CASE Go(c, "resolve") /\ caller[c].goal = "start"
  <2>1. caller'[c].pc = "resolve" /\ caller'[c].goal = "start" /\ KeepsHandles(c)
    BY <1>2, <1>f, GoFields
  <2>2. ~Holding(c)'
    BY <2>1 DEF Holding, HoldingPcs
  <2>3. snapshot.state = "Failed"
    BY <1>2, <1>f DEF CommandPhase, ClearingPcs
  <2>4. QED
    BY <1>f, <2>1, <2>2, <2>3
    DEF CommandRun, CommandPhase, CommandServes, LaunchPcs, ClearingPcs, KeepsHandles, ResetPcs
<1>3. CASE Go(c, "set_stopped") /\ caller[c].goal = "stop"
  <2>1. caller'[c].pc = "set_stopped" /\ caller'[c].goal = "stop" /\ KeepsHandles(c)
    BY <1>3, <1>f, GoFields
  <2>2. ~Holding(c)'
    BY <2>1 DEF Holding, HoldingPcs
  <2>3. snapshot.state \in {"Stopping", "Failed"}
    BY <1>3, <1>f DEF CommandPhase, ClearingPcs
  <2>4. caller'[c].target = NoRun
    BY <1>3, <1>f, <2>1 DEF CommandPhase, KeepsHandles
  <2>5. CommandPhase(c)'
    BY <2>1, <2>3, <2>4 DEF CommandPhase, LaunchPcs, ClearingPcs
  <2>6. CommandRun(c)'
    BY <1>f, <2>1, <2>2 DEF CommandRun, LaunchPcs, KeepsHandles
  <2>7. QED
    BY <2>1, <2>2, <2>5, <2>6 DEF CommandServes, LaunchPcs, ResetPcs
<1>4. CASE Return(c) /\ caller[c].goal = "abort"
  <2>1. caller'[c] = IdleCaller /\ caller'[c].pc = "idle" /\ caller'[c].goal = "none"
        /\ ~caller'[c].joinFailed
    BY <1>4, <1>f, ReturnFields
  <2>2. ~Holding(c)'
    BY <2>1 DEF Holding, HoldingPcs
  <2>3. snapshot.state \in {"Starting", "Failed"}
    BY <1>4, <1>f DEF CommandPhase
  <2>4. QED
    BY <2>1, <2>2, <2>3
    DEF CommandRun, CommandPhase, CommandServes, LaunchPcs, ClearingPcs, ResetPcs
<1>5. QED
  BY <1>1, <1>2, <1>3, <1>4 DEF AfterCleanup

LEMMA TakeKeepsSingle ==
  ASSUME NEW c, Callers = {c}, LInv, TakeRun(c)
  PROVE  Single'
<1>f. /\ c \in Callers /\ CommandRun(c) /\ CommandPhase(c) /\ CommandSound(c)
      /\ OneRun /\ Owned /\ Phases /\ Accounts
      /\ caller[c] \in CallerType
      /\ NoHandles.run = NoRun /\ ~NoHandles.sink /\ ~NoHandles.capture
      /\ \A r \in Runs : r \in Nat /\ r # NoRun
  BY SoleFacts DEF Single
<1>1. /\ Free(CallerThread(c)) /\ caller[c].pc = "take" /\ run' = NoHandles /\ SameFlags
  BY DEF TakeRun, CallerAt, SameFlags
<1>2. /\ ~Holding(c) /\ snapshot.state # "Running" /\ caller[c].goal # "park"
      /\ ~caller[c].joinFailed
  BY <1>1, <1>f DEF Holding, HoldingPcs, CommandPhase, CommandRun
<1>3. CASE run = NoHandles
  <2>1. /\ CommandRun(c)' /\ CommandPhase(c)' /\ CommandServes(c)'
        /\ ~Holding(c)' /\ caller'[c].pc \notin ResetPcs
    BY <1>1, <1>3, AfterCleanupKeeps DEF TakeRun, SameFlags
  <2>2. \A r \in Runs : SinkQuiet(r) /\ CaptureQuiet(r)
    <3>1. \A r \in Runs : ~HoldsSink(r) /\ ~HoldsCapture(r)
      BY <1>2, <1>3, <1>f DEF HoldsSink, HoldsCapture
    <3>2. QED
      BY <1>f, <3>1 DEF Owned
  <2>3. Owned'
    BY <1>1, <2>2, OwnedBySlot DEF SameFlags
  <2>4. \A r \in Runs : sink[r].pc # "open" /\ capture[r].pc # "open"
    BY <2>2 DEF SinkQuiet, CaptureQuiet
  <2>5. Settled'
    BY <1>1, <1>2, <1>3, <1>f DEF Settled, Accounts, SameFlags
  <2>6. QED
    BY <1>1, <1>2, <2>1, <2>3, <2>4, <2>5, CommandOnly
<1>4. CASE run # NoHandles
  <2> DEFINE e == [caller[c] EXCEPT !.pc = "join_capture", !.held = run]
  <2>1. /\ e.pc = "join_capture" /\ e.goal = caller[c].goal /\ e.target = caller[c].target
        /\ e.held = run /\ ~e.joinFailed
    BY <1>2, <1>f DEF CallerType
  <2>2. caller'[c] = e
    BY <1>4, <1>f, BecomeCaller DEF TakeRun, LInv
  <2> HIDE DEF e
  <2>3. Holding(c)'
    BY <2>1, <2>2 DEF Holding, HoldingPcs
  <2>4. CommandRun(c)' /\ CommandPhase(c)' /\ CommandServes(c)'
    BY <1>1, <1>2, <1>4, <1>f, <2>1, <2>2, <2>3
    DEF CommandRun, CommandPhase, CommandServes, LaunchPcs, ClearingPcs, SameFlags, OneRun
  <2>5. Owned'
    <3>1. \A r \in Runs : /\ HoldsSink(r) => HoldsSink(r)'
                          /\ HoldsCapture(r) => HoldsCapture(r)'
      BY <1>2, <1>f, <2>1, <2>2, <2>3 DEF HoldsSink, HoldsCapture
    <3>2. QED
      BY <1>1, <3>1, OwnedBySlot DEF SameFlags
  <2>6. Settled'
    BY <1>f, <2>3 DEF Settled
  <2>7. QED
    BY <1>1, <1>2, <2>1, <2>2, <2>4, <2>5, <2>6, CommandOnly DEF ResetPcs
<1>5. QED
  BY <1>3, <1>4

LEMMA JoinCaptureKeepsSingle ==
  ASSUME NEW c, Callers = {c}, "slow_join" \notin Faults, LInv, JoinCapture(c)
  PROVE  Single'
<1>f. /\ c \in Callers /\ CommandRun(c) /\ CommandPhase(c) /\ CommandSound(c)
      /\ OneRun /\ Owned /\ Phases /\ Served /\ Accounts /\ TypeOK
      /\ caller[c] \in CallerType /\ caller[c].held \in HandleType
      /\ NoHandles.run = NoRun /\ ~NoHandles.sink /\ ~NoHandles.capture
      /\ \A r \in Runs : r \in Nat /\ r # NoRun
  BY SoleFacts DEF Single
<1> DEFINE h == [caller[c].held EXCEPT !.capture = FALSE]
           e == [caller[c] EXCEPT !.pc = "join_sink", !.held = h, !.joinFailed = FALSE]
<1>1. /\ Free(CallerThread(c)) /\ caller[c].pc = "join_capture"
      /\ UNCHANGED <<snapshot, stopRequested, terminalFailure, run, lastRun, sink, capture, fault>>
      /\ Become(c, [caller[c] EXCEPT !.pc = "join_sink", !.held.capture = FALSE,
                                     !.joinFailed = FALSE])
      /\ \/ /\ ~caller[c].held.capture
            /\ queue' = [queue EXCEPT ![caller[c].held.run] = FinishProducer(@)]
         \/ CaptureEnded(caller[c].held.run) /\ queue' = queue
  BY DEF JoinCapture, CallerAt
<1>2. /\ Holding(c) /\ caller[c].held.run = lastRun /\ run = NoHandles
      /\ ~caller[c].joinFailed /\ lastRun \in Runs
      /\ snapshot.state \notin {"Running", "Stopped"}
  <2>1. Holding(c)
    BY <1>1 DEF Holding, HoldingPcs
  <2>2. caller[c].held.run \in Runs
    BY <2>1, <1>f, CommandFacts DEF LInv
  <2>3. QED
    BY <1>1, <1>f, <2>1, <2>2 DEF CommandRun, CommandPhase
<1>3. h.run = lastRun /\ ~h.capture /\ h.sink = caller[c].held.sink
  BY <1>2, <1>f DEF HandleType
<1>4. caller'[c] = e
  <2>1. Become(c, e)
    BY <1>1, <1>f DEF CallerType
  <2>2. QED
    BY <1>f, <2>1, BecomeCaller DEF LInv
<1> HIDE DEF h
<1>5. /\ e.pc = "join_sink" /\ e.goal = caller[c].goal /\ e.target = caller[c].target
      /\ e.held = h /\ ~e.joinFailed
  BY <1>f DEF CallerType
<1> HIDE DEF e
<1>6. Holding(c)'
  BY <1>4, <1>5 DEF Holding, HoldingPcs
<1>7. CommandRun(c)' /\ CommandPhase(c)' /\ CommandServes(c)'
  BY <1>1, <1>2, <1>3, <1>4, <1>5, <1>6, <1>f
  DEF CommandRun, CommandPhase, CommandServes, LaunchPcs, ClearingPcs
<1>8. Owned'
  <2>1. ASSUME NEW r \in Runs
        PROVE  /\ HoldsSink(r) => HoldsSink(r)'
               /\ HoldsCapture(r) => CaptureQuiet(r)
    <3>1. HoldsSink(r) => HoldsSink(r)'
      BY <1>1, <1>2, <1>3, <1>4, <1>5, <1>6, <1>f DEF HoldsSink
    <3>2. HoldsCapture(r) => r = lastRun /\ caller[c].held.capture
      BY <1>2, <1>f DEF HoldsCapture
    <3>3. CaptureEnded(lastRun) => CaptureQuiet(lastRun)
      BY DEF CaptureEnded, CaptureQuiet
    <3>4. QED
      BY <1>1, <1>2, <3>1, <3>2, <3>3
  <2>2. QED
    BY <1>1, <2>1, OwnedBySlot
<1>9. Settled'
  BY <1>f, <1>6 DEF Settled
<1>10. QueueFinished(c)
  <2>1. queue[lastRun] \in QueueOf /\ queue \in [Runs -> QueueType]
    BY <1>2, <1>f, RunTypes DEF TypeOK
  <2>2. queue' = queue \/ queue' = [queue EXCEPT ![lastRun] = FinishProducer(@)]
    BY <1>1, <1>2
  <2>3. /\ \A r \in Runs : r # lastRun => queue'[r] = queue[r]
        /\ queue' = queue \/ queue'[lastRun] = FinishProducer(queue[lastRun])
    BY <1>2, <2>1, <2>2
  <2>4. LET q == FinishProducer(queue[lastRun])
        IN /\ q.frames = queue[lastRun].frames /\ q.discarded = queue[lastRun].discarded
           /\ q.failed = queue[lastRun].failed /\ q.producerDone
    BY <2>1 DEF FinishProducer, QueueOf
  <2>5. caller'[c].pc \notin ResetPcs
    BY <1>4, <1>5 DEF ResetPcs
  <2>6. QED
    BY <2>3, <2>4, <2>5 DEF QueueFinished
<1>11. SameRecord /\ run' = NoHandles /\ snapshot' = snapshot
  BY <1>1, <1>2 DEF SameRecord
<1>12. QED
  BY <1>1, <1>2, <1>4, <1>5, <1>7, <1>8, <1>9, <1>10, <1>11, CommandLeaves DEF ResetPcs

LEMMA JoinSinkKeepsSingle ==
  ASSUME NEW c, Callers = {c}, "slow_join" \notin Faults, LInv, JoinSink(c)
  PROVE  Single'
<1>f. /\ c \in Callers /\ CommandRun(c) /\ CommandPhase(c) /\ CommandSound(c)
      /\ Owned /\ TypeOK
      /\ caller[c] \in CallerType /\ caller[c].held \in HandleType
      /\ NoHandles.run = NoRun /\ ~NoHandles.sink /\ ~NoHandles.capture
      /\ \A r \in Runs : r \in Nat /\ r # NoRun
  BY SoleFacts DEF Single
<1> DEFINE h == [caller[c].held EXCEPT !.sink = FALSE]
<1>1. /\ Free(CallerThread(c)) /\ caller[c].pc = "join_sink" /\ SameFlags /\ run' = run
      /\ ~caller[c].held.sink \/ SinkEnded(caller[c].held.run)
      /\ AfterJoin(c, caller[c].joinFailed)
  BY DEF JoinSink, CallerAt, SameFlags
<1>2. /\ Holding(c) /\ caller[c].held.run = lastRun /\ run = NoHandles
      /\ ~caller[c].joinFailed /\ ~caller[c].held.capture
      /\ snapshot.state \notin {"Running", "Stopped"}
  <2>1. Holding(c)
    BY <1>1 DEF Holding, HoldingPcs
  <2>2. QED
    BY <1>1, <1>f, <2>1 DEF CommandRun, CommandPhase
<1>3. h.run = lastRun /\ ~h.sink /\ ~h.capture
  BY <1>2, <1>f DEF HandleType
<1>4. PICK e :
        /\ caller'[c] = e
        /\ \/ e.pc = "install" /\ caller[c].goal = "park"
           \/ e.pc = "clear" /\ caller[c].goal # "park"
        /\ e.goal = caller[c].goal /\ e.target = caller[c].target
        /\ e.held = h /\ ~e.joinFailed
  <2>1. CASE caller[c].goal = "park"
    <3> DEFINE e == [caller[c] EXCEPT !.pc = "install", !.held = h, !.joinFailed = FALSE]
    <3>1. Become(c, e)
      BY <1>1, <1>f, <2>1 DEF AfterJoin, CallerType
    <3>2. caller'[c] = e
      BY <1>f, <3>1, BecomeCaller DEF LInv
    <3> HIDE DEF h
    <3>3. /\ e.pc = "install" /\ e.goal = caller[c].goal /\ e.target = caller[c].target
          /\ e.held = h /\ ~e.joinFailed
      BY <1>f DEF CallerType
    <3> HIDE DEF e
    <3>4. QED
      BY <2>1, <3>2, <3>3
  <2>2. CASE caller[c].goal # "park"
    <3> DEFINE e == [caller[c] EXCEPT !.pc = "clear", !.held = h]
    <3>1. Become(c, e)
      BY <1>1, <1>2, <1>f, <2>2 DEF AfterJoin, CallerType
    <3>2. caller'[c] = e
      BY <1>f, <3>1, BecomeCaller DEF LInv
    <3> HIDE DEF h
    <3>3. /\ e.pc = "clear" /\ e.goal = caller[c].goal /\ e.target = caller[c].target
          /\ e.held = h /\ ~e.joinFailed
      BY <1>2, <1>f DEF CallerType
    <3> HIDE DEF e
    <3>4. QED
      BY <2>2, <3>2, <3>3
  <2>3. QED
    BY <2>1, <2>2
<1> HIDE DEF h
<1>5. Holding(c)'
  BY <1>4 DEF Holding, HoldingPcs
<1>6. CommandRun(c)' /\ CommandPhase(c)' /\ CommandServes(c)'
  BY <1>1, <1>2, <1>3, <1>4, <1>5, <1>f
  DEF CommandRun, CommandPhase, CommandServes, LaunchPcs, ClearingPcs, SameFlags
<1>7. Owned'
  <2>1. ASSUME NEW r \in Runs
        PROVE  HoldsSink(r) => SinkQuiet(r)
    <3>1. HoldsSink(r) => r = lastRun /\ caller[c].held.sink
      BY <1>2, <1>f DEF HoldsSink
    <3>2. SinkEnded(lastRun) => SinkQuiet(lastRun)
      BY DEF SinkEnded, SinkQuiet
    <3>3. QED
      BY <1>1, <1>2, <3>1, <3>2
  <2>2. \A r \in Runs : ~HoldsCapture(r)
    BY <1>2, <1>f DEF HoldsCapture
  <2>3. QED
    BY <1>1, <2>1, <2>2, OwnedBySlot DEF SameFlags
<1>8. Settled'
  BY <1>f, <1>5 DEF Settled
<1>9. QED
  BY <1>1, <1>4, <1>6, <1>7, <1>8, CommandOnly DEF ResetPcs

LEMMA ClearKeepsSingle ==
  ASSUME NEW c, Callers = {c}, LInv, ClearQueue(c)
  PROVE  Single'
<1>f. /\ c \in Callers /\ CommandRun(c) /\ CommandPhase(c) /\ CommandSound(c)
      /\ OneRun /\ Owned /\ Fresh /\ Phases /\ OneFailure /\ Faulty /\ Served /\ Accounts /\ TypeOK
      /\ snapshot \in SnapshotType /\ lastRun \in Nat
      /\ \A r \in Runs : r \in Nat /\ r # NoRun
  BY SoleFacts DEF Single
<1>1. /\ Free(CallerThread(c)) /\ caller[c].pc = "clear" /\ AfterCleanup(c)
      /\ UNCHANGED <<stopRequested, terminalFailure, run, lastRun, sink, capture, fault>>
  BY DEF ClearQueue, CallerAt
<1>2. /\ Holding(c) /\ caller[c].held.run = lastRun /\ run = NoHandles
      /\ snapshot.state \notin {"Running", "Stopped"} /\ lastRun \in Runs /\ RunSound(lastRun)
  <2>1. Holding(c)
    BY <1>1 DEF Holding, HoldingPcs
  <2>2. caller[c].held.run \in Runs /\ RunSound(caller[c].held.run)
    BY <2>1, <1>f, CommandFacts DEF LInv
  <2>3. QED
    BY <1>1, <1>f, <2>1, <2>2 DEF CommandRun, CommandPhase
<1>n. /\ sink[lastRun].sequence \in Nat /\ capture[lastRun].made \in Nat
      /\ Len(queue[lastRun].frames) \in Nat /\ queue[lastRun].discarded \in Nat
      /\ queue[lastRun] \in QueueOf
      /\ snapshot.output \in Nat /\ snapshot.accepted \in Nat
  BY <1>2, <1>f, RunTypes DEF SnapshotType
<1>3. /\ \A r \in Runs : r # lastRun => queue'[r] = queue[r]
      /\ queue'[lastRun].frames = <<>>
      /\ queue'[lastRun].discarded = queue[lastRun].discarded
      /\ queue'[lastRun].failed = queue[lastRun].failed
      /\ queue'[lastRun].producerDone = queue[lastRun].producerDone
  BY <1>2, <1>f, <1>n DEF ClearQueue, Clear, QueueOf, TypeOK
<1>4. /\ snapshot'.state = snapshot.state /\ snapshot'.run = snapshot.run
      /\ snapshot'.error = snapshot.error /\ snapshot'.output = snapshot.output
      /\ snapshot'.accepted = snapshot.accepted
      /\ snapshot'.discarded = queue[lastRun].discarded
  <2> DEFINE cleared == Clear(queue[lastRun])
  <2>1. snapshot' = [snapshot EXCEPT !.depth = Len(cleared.frames), !.discarded = cleared.discarded]
    BY <1>2 DEF ClearQueue
  <2>2. cleared.discarded = queue[lastRun].discarded
    BY <1>n DEF Clear, QueueOf
  <2> HIDE DEF cleared
  <2>3. QED
    BY <1>f, <2>1, <2>2 DEF SnapshotType
<1>5. /\ CommandRun(c)' /\ CommandPhase(c)' /\ CommandServes(c)'
      /\ ~Holding(c)' /\ caller'[c].pc \notin ResetPcs
  BY <1>1, <1>2, <1>4, AfterCleanupKeeps
<1>6. /\ \A r \in Runs : SinkQuiet(r) /\ CaptureQuiet(r)
      /\ \A r \in Runs : sink[r].pc # "open" /\ capture[r].pc # "open"
  BY <1>1, BetweenRuns
<1>7. OneRun'
  BY <1>1, <1>2, <1>4, <1>5, <1>f DEF OneRun
<1>8. Owned'
  BY <1>1, <1>6, OwnedBySlot
<1>9. Fresh'
  BY <1>1, <1>3, <1>5, <1>f DEF Fresh, Untouched
<1>10. Phases'
  BY <1>1, <1>2, <1>4, <1>5, <1>f DEF Phases
<1>11. OneFailure' /\ Faulty'
  BY <1>1, <1>4, <1>f DEF OneFailure, Faulty, InRecord, Free
<1>12. Served'
  <2>1. ASSUME NEW r \in Runs
        PROVE  Announced(r)'
    BY <1>1, <1>6, <1>f DEF Served, Announced
  <2>2. WorkersServe(lastRun)'
    BY <1>1, <1>2, <1>3, <1>f DEF Served, WorkersServe, Serving, Free
  <2>3. QED
    BY <1>1, <1>2, <1>4, <1>5, <2>1, <2>2 DEF Served
<1>13. Accounts'
  <2>1. RunAccounts(lastRun) /\ WorkersServe(lastRun) /\ Announced(lastRun)
    BY <1>2, <1>f DEF Accounts, Served
  <2>2. RunAccounts(lastRun)'
    BY <1>1, <1>3, <1>4, <2>1 DEF RunAccounts, Counting, Drained, Free
  <2>3. Counting(lastRun) = 0 /\ Free(SinkThread(lastRun))
    BY <1>2, <1>6 DEF CaptureQuiet, SinkQuiet, Counting
  <2>4. ASSUME ~terminalFailure
        PROVE  snapshot.output = snapshot.accepted + queue[lastRun].discarded
    <3>1. snapshot.output = capture[lastRun].made /\ snapshot.accepted = sink[lastRun].sequence
      BY <1>n, <2>1, <2>3 DEF RunAccounts
    <3>2. CASE sink[lastRun].pc = "done"
      BY <2>1, <2>3, <2>4, <3>1, <3>2 DEF RunAccounts, Drained
    <3>3. CASE sink[lastRun].pc = "none"
      <4>1. capture[lastRun].pc = "none" /\ sink[lastRun].sequence = 0 /\ InFlight(lastRun) = 0
        BY <2>1, <3>3 DEF Announced, InFlight
      <4>2. ~queue[lastRun].failed
        BY <2>1, <2>4 DEF WorkersServe
      <4>3. capture[lastRun].made = 0 /\ Balance(lastRun)
        BY <1>2, <3>3, <4>1, <4>2 DEF RunSound, ServingPcs
      <4>4. QED
        BY <1>n, <3>1, <4>1, <4>3 DEF Balance
    <3>4. QED
      BY <1>2, <1>6, <3>2, <3>3 DEF SinkQuiet
  <2>5. Settled'
    BY <1>1, <1>4, <2>4 DEF Settled
  <2>6. QED
    BY <1>1, <1>5, <2>2, <2>5 DEF Accounts, ResetPcs
<1>14. QED
  BY <1>7, <1>8, <1>9, <1>10, <1>11, <1>12, <1>13 DEF Single

-----------------------------------------------------------------------------
(* The invariant is inductive.                                             *)

LEMMA CommandKeepsSingle ==
  ASSUME NEW c, Callers = {c}, "slow_join" \notin Faults, LInv,
         BeginStart(c) \/ BeginStop(c) \/ CallerSteps(c)
  PROVE  Single'
BY BeginKeepsSingle, StateKeepsSingle, SetStoppedKeepsSingle, FinishStartKeepsSingle,
   ResolveKeepsSingle, ResetKeepsSingle, SpawnSinkKeepsSingle, WaitSinkKeepsSingle,
   SpawnCaptureKeepsSingle, InstallKeepsSingle, WaitCaptureKeepsSingle, TakeKeepsSingle,
   JoinCaptureKeepsSingle, JoinSinkKeepsSingle, ClearKeepsSingle
DEF CallerSteps, StartSteps, CleanupSteps

LEMMA InitLInv ==
  ASSUME NEW c, Callers = {c}
  PROVE  Init => LInv
<1> SUFFICES ASSUME Init
             PROVE  Single
  BY InitCInv DEF LInv
<1>1. /\ caller[c] = IdleCaller /\ c \in Callers /\ snapshot = NoSnapshot /\ run = NoHandles
      /\ lastRun = 0 /\ \A r \in Runs : r \in Nat /\ r # 0
      /\ ~stopRequested /\ ~terminalFailure
  BY EngineAssumption DEF Init, Runs
<1>2. \A r \in Runs : sink[r] = NewSink /\ capture[r] = NewCapture /\ queue[r] = NewQueue
  BY DEF Init
<1>3. \A t \in Threads : Free(t) /\ ~InRecord(t)
  BY DEF Init, Free, InRecord, NoFault
<1>4. /\ \A r \in Runs : SinkThread(r) \in Threads /\ CaptureThread(r) \in Threads
      /\ CallerThread(c) \in Threads
  BY <1>1, ThreadsApart
<1>5. OneRun
  BY <1>1 DEF OneRun, CommandRun, Holding, HoldingPcs, LaunchPcs, IdleCaller, NoSnapshot, NoRun
<1>6. Owned
  BY <1>2, <1>3, <1>4 DEF Owned, SinkQuiet, CaptureQuiet, NewSink, NewCapture
<1>7. Fresh
  BY <1>1, <1>2 DEF Fresh, Untouched, ResetPcs, IdleCaller
<1>8. Phases
  BY <1>1 DEF Phases, CommandPhase, IdleCaller, LaunchPcs, ClearingPcs, NoSnapshot
<1>9. OneFailure /\ Faulty
  BY <1>3, <1>4 DEF OneFailure, Faulty
<1>10. Served
  BY <1>1, <1>2 DEF Served, CommandServes, Announced, IdleCaller, LaunchPcs, NoSnapshot,
                    NewSink, NewCapture
<1>11. Accounts
  BY <1>1, <1>2 DEF Accounts, Settled, IdleCaller, NoSnapshot
<1>12. QED
  BY <1>5, <1>6, <1>7, <1>8, <1>9, <1>10, <1>11 DEF Single

LEMMA NextLInv ==
  ASSUME NEW c, Callers = {c}, "slow_join" \notin Faults
  PROVE  LInv /\ [Next]_vars => LInv'
<1> SUFFICES ASSUME LInv, [Next]_vars
             PROVE  Single'
  BY NextCInv DEF LInv
<1>1. CASE UNCHANGED vars
  <2>1. Single
    BY DEF LInv
  <2>2. Fresh' /\ OneFailure' /\ Faulty' /\ Owned'
    BY <1>1, <2>1 DEF Single, vars, Fresh, Untouched, OneFailure, Faulty, InRecord, Free, Owned,
      SinkQuiet, CaptureQuiet, HoldsSink, HoldsCapture, Holding
  <2>3. OneRun' /\ Phases'
    BY <1>1, <2>1 DEF Single, vars, OneRun, CommandRun, Holding, Phases, CommandPhase
  <2>4. Served'
    BY <1>1, <2>1 DEF Single, vars, Served, CommandServes, Requested, Announced, Listening,
      WorkersServe, Serving, Free
  <2>5. Accounts'
    BY <1>1, <2>1 DEF Single, vars, Accounts, RunAccounts, Counting, Drained, Settled, Holding, Free
  <2>6. QED
    BY <2>2, <2>3, <2>4, <2>5 DEF Single
<1>2. QED
  BY <1>1, CommandKeepsSingle, SinkKeepsSingle, CaptureKeepsSingle, FailureKeepsSingle DEF Next

-----------------------------------------------------------------------------
(* The theorems.                                                           *)

\* In a run that serves the producer has not finished the queue.
LEMMA ProducerLives ==
  ASSUME NEW c, Callers = {c}, LInv, ~terminalFailure, ~stopRequested,
         lastRun \in Runs, capture[lastRun].ready = "ok"
  PROVE  ~queue[lastRun].producerDone
<1>1. /\ WorkersServe(lastRun) /\ RunSound(lastRun) /\ Faulty
  BY SoleFacts DEF Single, Served, Sound
<1>2. capture[lastRun].pc \notin {"none", "done"}
  BY <1>1 DEF WorkersServe, Faulty
<1>3. QED
  BY <1>1, <1>2 DEF RunSound, WorkersServe

\* With one caller and workers that answer every join, a live worker always
\* belongs to the run the snapshot names, and a stopped engine has none: a
\* restart begins when the run before has ended (Engine::start, stop).
THEOREM NoOrphansCorrect ==
  ASSUME NEW c, Callers = {c}, "slow_join" \notin Faults
  PROVE  Spec => []NoOrphanWorkers
<1>1. LInv => NoOrphanWorkers
  <2> SUFFICES ASSUME LInv, NEW r \in Runs, SinkAlive(r) \/ CaptureAlive(r)
               PROVE  snapshot.run = r /\ snapshot.state # "Stopped"
    BY DEF NoOrphanWorkers
  <2>1. ~SinkQuiet(r) \/ ~CaptureQuiet(r)
    BY DEF SinkAlive, SinkEnded, SinkQuiet, CaptureAlive, CaptureEnded, CaptureQuiet
  <2>2. OneRun
    BY DEF LInv, Single
  <2>3. QED
    BY <2>1, <2>2, LiveIsLast DEF OneRun
<1>2. QED
  BY <1>1, InitLInv, NextLInv, PTL DEF Spec

\* Running without a recorded failure means that both workers serve, or that
\* one is about to record why not (the check at the end of Engine::start).
THEOREM ServedCorrect ==
  ASSUME NEW c, Callers = {c}, "slow_join" \notin Faults
  PROVE  Spec => []RunningIsServed
<1>1. LInv => RunningIsServed
  <2> SUFFICES ASSUME LInv, snapshot.state = "Running", ~terminalFailure
               PROVE  /\ run = Handed(snapshot.run)
                      /\ Serving(snapshot.run) \/ ~Free(SinkThread(snapshot.run))
                      /\ capture[snapshot.run].pc \in {"check", "read", "push", "count"}
                           \/ ~Free(CaptureThread(snapshot.run))
    BY DEF RunningIsServed, Handed
  <2>1. /\ snapshot.run = lastRun /\ run = Handed(lastRun) /\ ~stopRequested
        /\ sink[lastRun].ready = "ok" /\ capture[lastRun].ready = "ok"
    BY SoleFacts DEF Single, OneRun, Served, Requested
  <2>2. lastRun \in Runs
    <3>1. run.run = lastRun /\ run.sink
      BY <2>1 DEF Handed
    <3>2. run = NoHandles \/ run.run \in Runs
      BY SoleFacts DEF HandlesNamed
    <3>3. QED
      BY <3>1, <3>2, SoleFacts
  <2>3. WorkersServe(lastRun)
    BY <2>2, SoleFacts DEF Single, Served
  <2>4. ~queue[lastRun].producerDone
    BY <2>1, <2>2, ProducerLives
  <2>5. QED
    BY <2>1, <2>3, <2>4 DEF WorkersServe
<1>2. QED
  BY <1>1, InitLInv, NextLInv, PTL DEF Spec

\* A run that was stopped without failing wrote every frame it did not count
\* as discarded: stop drains the queue before it reports Stopped.
THEOREM AccountingCorrect ==
  ASSUME NEW c, Callers = {c}, "slow_join" \notin Faults
  PROVE  Spec => []CleanStopAccounting
<1>1. LInv => CleanStopAccounting
  <2> SUFFICES ASSUME LInv, snapshot.state = "Stopped", ~terminalFailure
               PROVE  snapshot.output = snapshot.accepted + snapshot.discarded
    BY DEF CleanStopAccounting
  <2>1. run = NoHandles /\ Settled /\ CommandPhase(c)
    BY SoleFacts DEF Single, Phases, Accounts
  <2>2. ~Holding(c)
    BY <2>1 DEF CommandPhase, Holding, HoldingPcs
  <2>3. QED
    BY <2>1, <2>2 DEF Settled
<1>2. QED
  BY <1>1, InitLInv, NextLInv, PTL DEF Spec

\* The error of a run is the first one recorded: a later failure of the same
\* run never replaces it (the compare-exchange in record_failure).
THEOREM FirstErrorCorrect ==
  ASSUME NEW c, Callers = {c}, "slow_join" \notin Faults
  PROVE  Spec => FirstErrorSticks
<1>1. LInv /\ [Next]_vars =>
        [snapshot.error # "None" /\ snapshot'.run = snapshot.run =>
           snapshot'.error = snapshot.error]_snapshot
  <2> SUFFICES ASSUME LInv, [Next]_vars, snapshot.error # "None", snapshot'.run = snapshot.run
               PROVE  snapshot'.error = snapshot.error
    OBVIOUS
  <2>0. /\ snapshot \in SnapshotType /\ OneRun /\ OneFailure /\ lastRun \in Nat /\ TypeOK
        /\ CommandPhase(c)
    BY SoleFacts DEF Single
  <2>1. ASSUME NEW r \in Runs, SinkNext(r)
        PROVE  snapshot'.error = snapshot.error
    BY <2>1, SinkMoves DEF SinkFrame
  <2>2. ASSUME NEW r \in Runs, CaptureNext(r)
        PROVE  snapshot'.error = snapshot.error
    BY <2>2, CaptureMoves DEF CaptureFrame
  <2>3. ASSUME NEW t \in Threads, RecordFailure(t)
        PROVE  snapshot' = snapshot
    <3>1. ~Publish(t)
      BY <2>0 DEF Publish, OneFailure, InRecord
    <3>2. QED
      BY <2>3, <3>1 DEF RecordFailure, Exchange, RaiseStop, FailQueue
  <2>4. ASSUME BeginStart(c) \/ BeginStop(c) \/ CallerSteps(c)
        PROVE  snapshot'.error = snapshot.error
    <3>1. CASE Resolve(c)
      <4>1. snapshot' = snapshot \/ snapshot'.run = lastRun + 1
        BY <3>1 DEF Resolve, NoSnapshot
      <4>2. snapshot' = snapshot
        BY <2>0, <4>1 DEF OneRun
      <4>3. QED
        BY <4>2
    <3>2. CASE ClearQueue(c)
      <4>1. PICK d, n : snapshot' = [snapshot EXCEPT !.depth = d, !.discarded = n]
        BY <3>2 DEF ClearQueue
      <4>2. QED
        BY <2>0, <4>1 DEF SnapshotType
    <3>3. CASE ~Resolve(c) /\ ~ClearQueue(c)
      BY <2>0, <2>4, <3>3
      DEF BeginStart, BeginStop, CallerSteps, StartSteps, CleanupSteps, ResetStop, ResetFailure,
          SpawnSink, WaitSink, SpawnCapture, InstallRun, WaitCapture, FinishStart, RequestStop,
          TakeRun, JoinCapture, JoinSink, SetStopping, SetStopped, SnapshotType
    <3>4. QED
      BY <3>1, <3>2, <3>3
  <2>5. QED
    BY <2>1, <2>2, <2>3, <2>4 DEF Next, vars
<1>2. QED
  BY <1>1, InitLInv, NextLInv, PTL DEF Spec, FirstErrorSticks

\* A session accepts frames only while the snapshot names its run: no frame of
\* an earlier run reaches the output after a restart (the sink's write_frame).
THEOREM NoStalePcmCorrect ==
  ASSUME NEW c, Callers = {c}, "slow_join" \notin Faults
  PROVE  Spec => NoStalePcm
<1>1. LInv /\ [Next]_vars =>
        [\A r \in Runs : sink'[r].sequence # sink[r].sequence => snapshot.run = r]_vars
  <2> SUFFICES ASSUME LInv, Next, NEW r \in Runs, sink'[r].sequence # sink[r].sequence
               PROVE  snapshot.run = r
    OBVIOUS
  <2>0. TypeOK /\ OneRun
    BY SoleFacts DEF Single
  <2>1. ASSUME NEW x \in Runs, SinkNext(x)
        PROVE  snapshot.run = r
    <3>1. x = r /\ x = lastRun
      BY <2>1, SinkMoves, SinkIsLast DEF SinkFrame
    <3>2. QED
      BY <2>0, <3>1 DEF OneRun
  <2>2. CASE BeginStart(c) \/ BeginStop(c) \/ CallerSteps(c)
    <3>1. sink' = sink \/ \E x : sink' = [sink EXCEPT ![x].pc = "open"]
      BY <2>2
      DEF BeginStart, BeginStop, CallerSteps, StartSteps, CleanupSteps, Resolve, ResetStop,
          ResetFailure, SpawnSink, WaitSink, SpawnCapture, InstallRun, WaitCapture, FinishStart,
          RequestStop, TakeRun, JoinCapture, JoinSink, ClearQueue, SetStopping, SetStopped
    <3>2. sink[r] \in SinkType /\ sink \in [Runs -> SinkType]
      BY <2>0 DEF TypeOK
    <3>3. ASSUME NEW x, sink' = [sink EXCEPT ![x].pc = "open"]
          PROVE  sink'[r].sequence = sink[r].sequence
      BY <3>2, <3>3 DEF SinkType
    <3>4. QED
      BY <3>1, <3>3
  <2>3. ASSUME NEW x \in Runs, CaptureNext(x)
        PROVE  sink' = sink
    BY <2>3 DEF CaptureNext, CaptureOpen, CaptureCheck, CaptureRead, CapturePush,
                CaptureCount, CaptureStop, CaptureFinish
  <2>4. ASSUME NEW t \in Threads, RecordFailure(t)
        PROVE  sink' = sink
    BY <2>4 DEF RecordFailure, Exchange, RaiseStop, FailQueue, Publish
  <2>5. QED
    BY <2>1, <2>2, <2>3, <2>4 DEF Next
<1>2. QED
  BY <1>1, InitLInv, NextLInv, PTL DEF Spec, NoStalePcm

-----------------------------------------------------------------------------
(* The refinement.  Only the last run can hold a session, so the abstract  *)
(* session and opened are functions of that run's output worker.           *)

Session == IF lastRun \in Runs /\ HoldsSession(lastRun) THEN lastRun ELSE NoRun
Opened == lastRun \in Runs /\ sink[lastRun].pc \notin {"none", "open"} /\ sink[lastRun].ready = "ok"

\* The expression EngineLifecycle gets for opened.
OpenedNow ==
  \E r \in Runs : r = snapshot.run /\ sink[r].pc \notin {"none", "open"} /\ sink[r].ready = "ok"

Mapping == OpenRun = Session /\ OpenedNow = Opened /\ snapshot.run = lastRun

LEMMA Mapped ==
  ASSUME NEW c, Callers = {c}
  PROVE  LInv => Mapping
<1> SUFFICES ASSUME LInv
             PROVE  Mapping
  OBVIOUS
<1>1. snapshot.run = lastRun
  BY SoleFacts DEF Single, OneRun
<1>2. \A r \in Runs : HoldsSession(r) => r = lastRun
  BY LiveIsLast DEF HoldsSession, SinkQuiet
<1>3. OpenRun = Session
  <2>1. CASE \E r \in Runs : HoldsSession(r)
    <3> DEFINE o == CHOOSE r \in Runs : HoldsSession(r)
    <3>1. o \in Runs /\ HoldsSession(o)
      BY <2>1
    <3>2. OpenRun = o
      BY <2>1 DEF OpenRun
    <3> HIDE DEF o
    <3>3. o = lastRun
      BY <1>2, <3>1
    <3>4. QED
      BY <3>1, <3>2, <3>3 DEF Session
  <2>2. CASE ~\E r \in Runs : HoldsSession(r)
    BY <2>2 DEF OpenRun, Session
  <2>3. QED
    BY <2>1, <2>2
<1>4. OpenedNow = Opened
  BY <1>1 DEF OpenedNow, Opened
<1>5. QED
  BY <1>1, <1>3, <1>4 DEF Mapping

\* What the lifecycle sees of the engine is unchanged.
SameView ==
  /\ snapshot'.state = snapshot.state /\ lastRun' = lastRun
  /\ Session' = Session /\ Opened' = Opened /\ snapshot'.accepted = snapshot.accepted

LEMMA SinkImplements ==
  ASSUME NEW c, Callers = {c}, LInv, Mapping, Mapping', NEW r \in Runs, SinkNext(r)
  PROVE  \/ SameView
         \/ Lifecycle!OpenSession \/ Lifecycle!Deliver \/ Lifecycle!CloseSession
<1>0. /\ SinkFrame(r) /\ SinkMove(r) /\ r = lastRun /\ snapshot.state # "Stopped"
      /\ Announced(r) /\ snapshot \in SnapshotType /\ r # NoRun /\ NoRun = 0
      /\ CommandPhase(c) /\ Served /\ c \in Callers
  BY SinkMoves, SinkIsLast, SoleFacts DEF Single, Served, NoRun
<1>1. /\ snapshot'.state = snapshot.state /\ lastRun' = lastRun
      /\ Session = (IF HoldsSession(r) THEN r ELSE 0)
      /\ Session' = (IF HoldsSession(r)' THEN r ELSE 0)
      /\ Opened = (sink[r].pc \notin {"none", "open"} /\ sink[r].ready = "ok")
      /\ Opened' = (sink'[r].pc \notin {"none", "open"} /\ sink'[r].ready = "ok")
  BY <1>0 DEF SinkFrame, Session, Opened
<1>2. /\ OpenRun = Session /\ OpenRun' = Session' /\ OpenedNow = Opened /\ OpenedNow' = Opened'
      /\ snapshot.run = r /\ snapshot'.run = r
  BY <1>0 DEF Mapping, SinkFrame
<1>3. CASE sink[r].pc = "open"
  <2>1. snapshot'.accepted = snapshot.accepted /\ ~HoldsSession(r) /\ ~Opened
    BY <1>0, <1>1, <1>3 DEF SinkMove, HoldsSession
  <2>2. CASE sink'[r].pc = "done" /\ sink'[r].ready = "error"
    BY <1>1, <2>1, <2>2 DEF SameView, HoldsSession
  <2>3. CASE sink'[r].pc = "loop" /\ sink'[r].ready = "ok"
    <3>1. HoldsSession(r)' /\ Opened'
      BY <1>1, <2>3 DEF HoldsSession
    <3>2. snapshot.state \in {"Starting", "Failed"}
      <4>1. sink[r].ready = "pending" /\ Listening(r)
        BY <1>0, <1>3 DEF Announced
      <4>2. snapshot.state # "Running"
        BY <1>0, <4>1 DEF Served
      <4>3. snapshot.state # "Stopping"
        <5>1. caller[c].target = r /\ caller[c].goal \in {"none", "start", "stop", "abort", "park"}
          BY <4>1, SoleFacts DEF Listening, CallerType
        <5>2. QED
          BY <1>0, <5>1 DEF CommandPhase, ClearingPcs
      <4>4. QED
        BY <1>0, <4>2, <4>3 DEF SnapshotType, States
    <3>3. Lifecycle!OpenSession
      BY <1>1, <1>2, <2>1, <3>1, <3>2 DEF Lifecycle!OpenSession, OpenedNow
    <3>4. QED
      BY <3>3
  <2>4. QED
    BY <1>0, <1>3, <2>2, <2>3 DEF SinkMove
<1>4. CASE sink[r].pc # "open" /\ sink'[r].sequence # sink[r].sequence
  <2>1. /\ HoldsSession(r) /\ HoldsSession(r)' /\ Opened' = Opened
        /\ snapshot'.accepted = snapshot.accepted + 1
    BY <1>0, <1>1, <1>4 DEF SinkMove, HoldsSession
  <2>2. Lifecycle!Deliver
    BY <1>0, <1>1, <1>2, <2>1 DEF Lifecycle!Deliver, OpenedNow
  <2>3. QED
    BY <2>2
<1>5. CASE sink[r].pc = "close"
  <2>1. /\ HoldsSession(r) /\ ~HoldsSession(r)' /\ Opened' = Opened
        /\ snapshot'.accepted = snapshot.accepted
    BY <1>0, <1>1, <1>5 DEF SinkMove, HoldsSession
  <2>2. Lifecycle!CloseSession
    BY <1>0, <1>1, <1>2, <2>1 DEF Lifecycle!CloseSession, OpenedNow
  <2>3. QED
    BY <2>2
<1>6. CASE sink[r].pc \notin {"open", "close"} /\ sink'[r].sequence = sink[r].sequence
  <2>1. sink[r].sequence \in Nat
    BY <1>0, RunTypes, SoleFacts
  <2>2. /\ HoldsSession(r)' = HoldsSession(r) /\ Opened' = Opened
        /\ snapshot'.accepted = snapshot.accepted
    BY <1>0, <1>1, <1>6, <2>1 DEF SinkMove, HoldsSession
  <2>3. QED
    BY <1>1, <2>2 DEF SameView
<1>7. QED
  BY <1>3, <1>4, <1>5, <1>6

\* The rest of the engine moves nothing but the state, and the run when a
\* start launches one.
LEMMA FailureImplements ==
  ASSUME NEW c, Callers = {c}, LInv, Mapping, Mapping', NEW t \in Threads, RecordFailure(t)
  PROVE  SameView \/ Lifecycle!FailRun
<1>0. snapshot \in SnapshotType /\ CommandPhase(c)
  BY SoleFacts
<1>1. UNCHANGED <<sink, lastRun>> /\ ~Free(t)
  BY DEF RecordFailure, Exchange, RaiseStop, FailQueue, Publish, Free, NoFault
<1>2. Session' = Session /\ Opened' = Opened
  BY <1>1 DEF Session, Opened, HoldsSession
<1>3. CASE snapshot' = snapshot
  BY <1>1, <1>2, <1>3 DEF SameView
<1>4. CASE Publish(t)
  <2>1. /\ snapshot'.state = "Failed" /\ snapshot'.accepted = snapshot.accepted
        /\ snapshot'.run = snapshot.run
    BY <1>0, <1>4 DEF Publish, SnapshotType
  <2>2. snapshot.state # "Stopped"
    BY <1>0, <1>1, BusyIsLast DEF CommandPhase
  <2>3. CASE snapshot.state = "Failed"
    BY <1>1, <1>2, <2>1, <2>3 DEF SameView
  <2>4. CASE snapshot.state # "Failed"
    <3>1. Lifecycle!FailRun
      BY <1>0, <1>2, <2>1, <2>2, <2>4
      DEF Lifecycle!FailRun, Mapping, OpenedNow, SnapshotType, States
    <3>2. QED
      BY <3>1
  <2>5. QED
    BY <2>3, <2>4
<1>5. QED
  BY <1>3, <1>4 DEF RecordFailure, Exchange, RaiseStop, FailQueue

\* A start that ends well finds the session of its run open.
LEMMA SessionOpen ==
  ASSUME NEW c, Callers = {c}, LInv, FinishStart(c), ~terminalFailure
  PROVE  lastRun \in Runs /\ HoldsSession(lastRun)
<1>1. /\ run = Handed(lastRun) /\ ~stopRequested
      /\ sink[lastRun].ready = "ok" /\ capture[lastRun].ready = "ok"
  <2>1. /\ caller[c].pc = "finish_start" /\ caller[c].goal # "park"
    BY SoleFacts DEF FinishStart, CallerAt, CommandSound, Parking
  <2>2. QED
    BY <2>1, SoleFacts DEF CommandRun, CommandServes, LaunchPcs, Requested
<1>2. lastRun \in Runs
  <2>1. run.run = lastRun /\ run.sink
    BY <1>1 DEF Handed
  <2>2. run = NoHandles \/ run.run \in Runs
    BY SoleFacts DEF HandlesNamed
  <2>3. QED
    BY <2>1, <2>2, SoleFacts
<1>3. WorkersServe(lastRun) /\ ~queue[lastRun].producerDone
  BY <1>1, <1>2, ProducerLives, SoleFacts DEF Single, Served
<1>4. QED
  BY <1>1, <1>2, <1>3 DEF WorkersServe, Serving, HoldsSession

LEMMA CommandImplements ==
  ASSUME NEW c, Callers = {c}, LInv, Mapping, Mapping',
         BeginStart(c) \/ BeginStop(c) \/ CallerSteps(c)
  PROVE  \/ SameView
         \/ Lifecycle!Launch \/ Lifecycle!Ready \/ Lifecycle!RequestStop \/ Lifecycle!FinishStop
<1>0. /\ snapshot \in SnapshotType /\ CommandPhase(c) /\ CommandRun(c) /\ Phases /\ Fresh
      /\ lastRun \in Nat /\ TypeOK
      /\ \A r \in Runs : r \in Nat /\ r # NoRun
  BY SoleFacts DEF Single
<1>1. ASSUME UNCHANGED <<sink, lastRun>>
      PROVE  Session' = Session /\ Opened' = Opened
  BY <1>1 DEF Session, Opened, HoldsSession
<1>2. ASSUME UNCHANGED <<sink, lastRun>>, snapshot'.state = snapshot.state,
             snapshot'.accepted = snapshot.accepted
      PROVE  SameView
  BY <1>1, <1>2 DEF SameView
<1>3. ASSUME caller[c].pc \in {"resolve", "set_stopped", "spawn_sink"}
      PROVE  Session = NoRun
  <2>1. \A r \in Runs : ~HoldsSession(r)
    BY <1>3, BetweenRuns DEF SinkQuiet, HoldsSession
  <2>2. QED
    BY <2>1 DEF Session
<1>4. CASE Resolve(c)
  <2>1. CASE UNCHANGED <<snapshot, lastRun>>
    BY <1>2, <1>4, <2>1 DEF Resolve
  <2>2. CASE /\ lastRun' = lastRun + 1
             /\ snapshot' = [NoSnapshot EXCEPT !.state = "Starting", !.run = lastRun + 1]
    <3>1. /\ caller[c].pc = "resolve" /\ sink' = sink
          /\ snapshot'.state = "Starting" /\ snapshot'.accepted = 0 /\ snapshot'.run = lastRun + 1
      BY <1>4, <2>2 DEF Resolve, CallerAt, NoSnapshot
    <3>2. snapshot.state \in {"Stopped", "Failed"} /\ Session = 0
      BY <1>0, <1>3, <3>1 DEF CommandPhase, NoRun
    <3>3. Session' = 0 /\ Opened' = FALSE
      <4>1. lastRun + 1 \in Runs => sink[lastRun + 1] = NewSink
        BY <1>0 DEF Fresh, Untouched
      <4>2. QED
        BY <2>2, <3>1, <4>1 DEF Session, Opened, HoldsSession, NewSink, NoRun
    <3>4. Lifecycle!Launch
      BY <2>2, <3>1, <3>2, <3>3 DEF Lifecycle!Launch, Mapping, OpenedNow
    <3>5. QED
      BY <3>4
  <2>3. QED
    BY <1>4, <2>1, <2>2 DEF Resolve
<1>5. CASE SpawnSink(c)
  <2>1. /\ caller[c].pc = "spawn_sink" /\ UNCHANGED <<snapshot, lastRun>>
    BY <1>5 DEF SpawnSink, CallerAt
  <2>2. CASE sink' = sink
    BY <1>2, <2>1, <2>2
  <2>3. CASE sink' = [sink EXCEPT ![caller[c].target].pc = "open"]
    <3>1. Session = NoRun /\ caller[c].target = lastRun
          /\ (lastRun \in Runs => sink[lastRun] = NewSink)
      BY <1>0, <1>3, <2>1 DEF CommandRun, LaunchPcs, Fresh, ResetPcs, Untouched
    <3>2. lastRun \in Runs => sink'[lastRun].pc = "open"
      BY <1>0, <2>3, <3>1 DEF TypeOK, SinkType
    <3>3. Session' = NoRun /\ Opened' = FALSE /\ Opened = FALSE
      BY <2>1, <3>1, <3>2 DEF Session, Opened, HoldsSession, NewSink
    <3>4. QED
      BY <2>1, <3>1, <3>3 DEF SameView
  <2>4. QED
    BY <1>5, <2>2, <2>3 DEF SpawnSink
<1>6. CASE FinishStart(c)
  <2>1. UNCHANGED <<sink, lastRun>> /\ caller[c].pc = "finish_start"
    BY <1>6 DEF FinishStart, CallerAt
  <2>2. CASE terminalFailure
    BY <1>2, <1>6, <2>1, <2>2 DEF FinishStart
  <2>3. CASE ~terminalFailure
    <3>1. /\ snapshot'.state = "Running" /\ snapshot'.accepted = snapshot.accepted
          /\ snapshot'.run = snapshot.run
      BY <1>0, <1>6, <2>3 DEF FinishStart, SnapshotType
    <3>2. snapshot.state = "Starting"
      BY <1>0, <2>1, <2>3 DEF CommandPhase, LaunchPcs, Phases
    <3>3. Session = lastRun
      BY <1>6, <2>3, SessionOpen DEF Session
    <3>4. Lifecycle!Ready
      BY <1>1, <2>1, <3>1, <3>2, <3>3 DEF Lifecycle!Ready, Mapping, OpenedNow
    <3>5. QED
      BY <3>4
  <2>4. QED
    BY <2>2, <2>3
<1>7. CASE SetStopping(c) \/ SetStopped(c)
  <2>1. /\ UNCHANGED <<sink, lastRun>>
        /\ \/ caller[c].pc = "set_stopping" /\ snapshot'.state = "Stopping"
           \/ caller[c].pc = "set_stopped" /\ snapshot'.state = "Stopped"
        /\ snapshot'.accepted = snapshot.accepted /\ snapshot'.run = snapshot.run
    BY <1>0, <1>7 DEF SetStopping, SetStopped, CallerAt, SnapshotType
  <2>2. CASE caller[c].pc = "set_stopping"
    <3>1. snapshot.state \in {"Starting", "Running", "Failed"}
      BY <1>0, <2>2 DEF CommandPhase, SnapshotType, States
    <3>2. Lifecycle!RequestStop
      BY <1>1, <2>1, <2>2, <3>1 DEF Lifecycle!RequestStop, Mapping, OpenedNow
    <3>3. QED
      BY <3>2
  <2>3. CASE caller[c].pc = "set_stopped"
    <3>1. snapshot.state \in {"Stopping", "Failed"} /\ Session = 0
      BY <1>0, <1>3, <2>3 DEF CommandPhase, NoRun
    <3>2. Lifecycle!FinishStop
      BY <1>1, <2>1, <2>3, <3>1 DEF Lifecycle!FinishStop, Mapping, OpenedNow
    <3>3. QED
      BY <3>2
  <2>4. QED
    BY <2>1, <2>2, <2>3
<1>8. CASE ClearQueue(c)
  <2>1. PICK d, n : snapshot' = [snapshot EXCEPT !.depth = d, !.discarded = n]
    BY <1>8 DEF ClearQueue
  <2>2. snapshot'.state = snapshot.state /\ snapshot'.accepted = snapshot.accepted
    BY <1>0, <2>1 DEF SnapshotType
  <2>3. QED
    BY <1>2, <1>8, <2>2 DEF ClearQueue
<1>9. CASE \/ BeginStart(c) \/ BeginStop(c) \/ ResetStop(c) \/ ResetFailure(c) \/ WaitSink(c)
           \/ SpawnCapture(c) \/ InstallRun(c) \/ WaitCapture(c) \/ RequestStop(c) \/ TakeRun(c)
           \/ JoinCapture(c) \/ JoinSink(c)
  <2>1. UNCHANGED <<snapshot, sink, lastRun>>
    BY <1>9 DEF BeginStart, BeginStop, ResetStop, ResetFailure, WaitSink, SpawnCapture, InstallRun,
                WaitCapture, RequestStop, TakeRun, JoinCapture, JoinSink
  <2>2. QED
    BY <1>2, <2>1
<1>10. QED
  BY <1>4, <1>5, <1>6, <1>7, <1>8, <1>9 DEF CallerSteps, StartSteps, CleanupSteps

\* One caller and workers that answer every join: the threads, the queues and
\* the flags implement the lifecycle that EngineLifecycle promises, with one
\* output session at a time (runtime.rs: start, stop, restart).
THEOREM LifecycleImplemented ==
  ASSUME NEW c, Callers = {c}, "slow_join" \notin Faults
  PROVE  Spec => ImplementsLifecycle
<1>1. LInv => Mapping
  BY Mapped
<1>2. Init => Lifecycle!Init
  <2> SUFFICES ASSUME Init
               PROVE  Lifecycle!Init
    OBVIOUS
  <2>1. \A r \in Runs : sink[r].pc = "none"
    BY DEF Init, NewSink
  <2>2. OpenRun = NoRun
    BY <2>1 DEF OpenRun, HoldsSession
  <2>3. QED
    BY <2>1, <2>2 DEF Init, Lifecycle!Init, NoSnapshot, NoRun
<1>3. LInv /\ Mapping /\ Mapping' /\ [Next]_vars => [Lifecycle!Next]_Lifecycle!lifecycleVars
  <2> SUFFICES ASSUME LInv, Mapping, Mapping', [Next]_vars
               PROVE  [Lifecycle!Next]_Lifecycle!lifecycleVars
    OBVIOUS
  <2>1. ASSUME SameView
        PROVE  UNCHANGED Lifecycle!lifecycleVars
    BY <2>1 DEF SameView, Mapping, OpenedNow, Lifecycle!lifecycleVars
  <2>2. ASSUME NEW r \in Runs, CaptureNext(r)
        PROVE  SameView
    BY <2>2, CaptureMoves DEF CaptureFrame, SameView, Session, Opened, HoldsSession
  <2>3. CASE UNCHANGED vars
    BY <2>3, <2>1 DEF vars, SameView, Session, Opened, HoldsSession
  <2>4. CASE Next
    <3>1. \/ SameView \/ Lifecycle!Next
      BY <2>2, <2>4, SinkImplements, FailureImplements, CommandImplements DEF Next, Lifecycle!Next
    <3>2. QED
      BY <2>1, <3>1
  <2>5. QED
    BY <2>3, <2>4
<1>4. QED
  BY <1>1, <1>2, <1>3, InitLInv, NextLInv, PTL DEF Spec, ImplementsLifecycle, Lifecycle!Spec
=============================================================================
