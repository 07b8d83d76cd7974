------------------------- MODULE ConservationProofs -------------------------
(***************************************************************************)
(* Two theorems about BypassEngine, for every set of callers, every bound  *)
(* and every set of environment faults.                                    *)
(*                                                                         *)
(* The handles of a run have one owner: whatever the interleaving of       *)
(* starts and stops, no two commands join, clear or install the same run,  *)
(* and none holds the run that is installed in the engine.  The property   *)
(* is not inductive: a start makes a new run, and that nobody holds it     *)
(* already follows only from a bound on the runs that are held.            *)
(*                                                                         *)
(* Frame conservation: while a sink serves an unfailed queue no captured   *)
(* frame is lost without being counted.  A queue may be cleared, or        *)
(* finished on behalf of a capture, only by the one owner of the run's     *)
(* handles, and only when the sink has ended or the capture was never      *)
(* spawned.  That is what the second invariant carries along.              *)
(***************************************************************************)
EXTENDS BypassProofs

\* Only launched runs have handles, and the handles of a run have one owner.
Ownership ==
  /\ run.run <= lastRun
  /\ \A c \in Callers : Holding(c) => caller[c].held.run <= lastRun
  /\ HandlesHaveOneOwner

OInv == IInv /\ Ownership

-----------------------------------------------------------------------------
(* How ownership moves when caller c becomes e: it lets go, it installs    *)
(* what it held, it keeps it, it takes the installed run, or it launches.  *)

LetsGo(c, e) ==
  /\ e.pc \notin HoldingPcs
  /\ run' \in {run, NoHandles}
  /\ lastRun' = lastRun

Installs(c, e) ==
  /\ e.pc \notin HoldingPcs
  /\ Holding(c) /\ run' = caller[c].held
  /\ lastRun' = lastRun

Keeps(c, e) ==
  /\ Holding(c) /\ e.held.run = caller[c].held.run
  /\ run' = run
  /\ lastRun' = lastRun

Takes(c, e) ==
  /\ run # NoHandles /\ e.held.run = run.run
  /\ run' = NoHandles
  /\ lastRun' = lastRun

Launches(c, e) ==
  /\ e.held.run = lastRun + 1
  /\ run' = run
  /\ lastRun' = lastRun + 1

OwnerMove(c, e) ==
  /\ Become(c, e)
  /\ LetsGo(c, e) \/ Installs(c, e) \/ Keeps(c, e) \/ Takes(c, e) \/ Launches(c, e)

OwnerMoves(c) == \E e : OwnerMove(c, e)

\* The numbers that name runs are numbers.
LEMMA RunNumbers ==
  ASSUME TypeOK
  PROVE  /\ lastRun \in Nat /\ run.run \in Nat
         /\ NoHandles.run = 0
         /\ \A c \in Callers : caller[c].held.run \in Nat
         /\ \A r \in Runs : r \in Nat \ {0}
<1>1. MaxRuns \in Nat /\ Runs = 1..MaxRuns /\ MaybeRun = Runs \union {0}
  BY EngineAssumption DEF Runs, MaybeRun, NoRun
<1>2. \A h \in HandleType : h.run \in Nat
  BY <1>1 DEF HandleType
<1>3. \A c \in Callers : caller[c].held \in HandleType
  BY DEF TypeOK, CallerType
<1>4. QED
  BY <1>1, <1>2, <1>3 DEF TypeOK, NoHandles, NoRun

\* Each way ownership moves keeps it unique.
LEMMA OwnershipMoves ==
  ASSUME TypeOK, HandlesNamed, Ownership, NEW c \in Callers, OwnerMoves(c)
  PROVE  Ownership'
<1> USE DEF Ownership, HandlesHaveOneOwner, Holding
<1>0. PICK e : OwnerMove(c, e)
  BY DEF OwnerMoves
<1>1. caller'[c] = e /\ \A d \in Callers \ {c} : caller'[d] = caller[d]
  BY <1>0 DEF OwnerMove, Become, TypeOK
<1>2. /\ lastRun \in Nat /\ run.run \in Nat /\ NoHandles.run = 0
      /\ \A d \in Callers : caller[d].held.run \in Nat
      /\ \A r \in Runs : r \in Nat \ {0}
  BY RunNumbers
<1>3. \A d \in Callers : Holding(d) => caller[d].held.run \in Nat \ {0}
  BY <1>2 DEF HandlesNamed
<1>4. CASE LetsGo(c, e)
  BY <1>1, <1>2, <1>3, <1>4 DEF LetsGo
<1>5. CASE Installs(c, e)
  BY <1>1, <1>2, <1>3, <1>5 DEF Installs
<1>6. CASE Keeps(c, e)
  BY <1>1, <1>2, <1>3, <1>6 DEF Keeps
<1>7. CASE Takes(c, e)
  <2>1. run.run \in Nat \ {0}
    BY <1>2, <1>7 DEF Takes, HandlesNamed
  <2>2. QED
    BY <1>1, <1>2, <1>3, <1>7, <2>1 DEF Takes
<1>8. CASE Launches(c, e)
  BY <1>1, <1>2, <1>3, <1>8 DEF Launches
<1>9. QED
  BY <1>0, <1>4, <1>5, <1>6, <1>7, <1>8 DEF OwnerMove

-----------------------------------------------------------------------------
(* Every step of a command is such a move.                                 *)

\* Only the program counter of a command changes.
LEMMA GoOwns ==
  ASSUME TypeOK, NEW c \in Callers, NEW pc, Go(c, pc),
         pc \in HoldingPcs => Holding(c), run' = run, lastRun' = lastRun
  PROVE  OwnerMoves(c)
<1> DEFINE e == [caller[c] EXCEPT !.pc = pc]
<1>1. caller[c] \in CallerType
  BY DEF TypeOK
<1>2. e.pc = pc /\ e.held = caller[c].held
  BY <1>1 DEF CallerType
<1>3. Become(c, e)
  BY DEF Go
<1> HIDE DEF e
<1>4. LetsGo(c, e) \/ Keeps(c, e)
  BY <1>2 DEF LetsGo, Keeps
<1>5. QED
  BY <1>3, <1>4 DEF OwnerMoves, OwnerMove

\* A command that returns lets go of what it held.
LEMMA ReturnOwns ==
  ASSUME NEW c \in Callers, Return(c), run' \in {run, NoHandles}, lastRun' = lastRun
  PROVE  OwnerMoves(c)
<1>1. LetsGo(c, IdleCaller)
  BY DEF LetsGo, IdleCaller, HoldingPcs
<1>2. QED
  BY <1>1 DEF Return, OwnerMoves, OwnerMove

\* What follows a successful cleanup holds nothing.
LEMMA AfterCleanupOwns ==
  ASSUME TypeOK, NEW c \in Callers, AfterCleanup(c), run' \in {run, NoHandles},
         lastRun' = lastRun
  PROVE  OwnerMoves(c)
<1>1. CASE Return(c)
  BY <1>1, ReturnOwns
<1>2. ASSUME NEW pc \in {"resolve", "set_stopped"}, Go(c, pc)
      PROVE  OwnerMoves(c)
  <2> DEFINE e == [caller[c] EXCEPT !.pc = pc]
  <2>1. e.pc = pc
    BY DEF TypeOK, CallerType
  <2>2. Become(c, e)
    BY <1>2 DEF Go
  <2> HIDE DEF e
  <2>3. LetsGo(c, e)
    BY <2>1 DEF LetsGo, HoldingPcs
  <2>4. QED
    BY <2>2, <2>3 DEF OwnerMoves, OwnerMove
<1>3. QED
  BY <1>1, <1>2 DEF AfterCleanup

\* A holder that changes anything but the run it holds still holds it.
LEMMA KeepOwns ==
  ASSUME TypeOK, NEW c \in Callers, NEW e, Become(c, e), Holding(c),
         e.held.run = caller[c].held.run, run' = run, lastRun' = lastRun
  PROVE  OwnerMoves(c)
BY DEF OwnerMoves, OwnerMove, Keeps

\* A start that gives up early still holds what it spawned.
LEMMA GiveUpOwns ==
  ASSUME TypeOK, NEW c \in Callers, NEW error, GiveUpEarly(c, error), Holding(c),
         run' = run, lastRun' = lastRun
  PROVE  OwnerMoves(c)
<1> DEFINE e == [caller[c] EXCEPT !.pc = "join_capture", !.goal = "park"]
<1>1. caller[c] \in CallerType
  BY DEF TypeOK
<1>2. e.held = caller[c].held
  BY <1>1 DEF CallerType
<1>3. Become(c, e)
  BY DEF GiveUpEarly
<1> HIDE DEF e
<1>4. QED
  BY <1>2, <1>3, KeepOwns

LEMMA StartStepOwns ==
  ASSUME TypeOK, NEW c \in Callers, StartSteps(c)
  PROVE  OwnerMoves(c)
<1>0. caller[c] \in CallerType /\ caller[c].held \in HandleType
  BY DEF TypeOK, CallerType
<1>1. CASE Resolve(c)
  <2>1. CASE Return(c) /\ lastRun' = lastRun
    BY <1>1, <2>1, ReturnOwns DEF Resolve
  <2> DEFINE h == [NoHandles EXCEPT !.run = lastRun + 1]
             e == [caller[c] EXCEPT !.pc = "reset_stop", !.target = lastRun + 1, !.held = h]
  <2>2. CASE Become(c, e) /\ lastRun' = lastRun + 1
    <3>1. h.run = lastRun + 1
      BY DEF NoHandles
    <3> HIDE DEF h
    <3>2. e.held = h
      BY <1>0 DEF CallerType
    <3> HIDE DEF e
    <3>3. Launches(c, e)
      BY <1>1, <2>2, <3>1, <3>2 DEF Launches, Resolve
    <3>4. QED
      BY <2>2, <3>3 DEF OwnerMoves, OwnerMove
  <2>3. QED
    BY <1>1, <2>1, <2>2 DEF Resolve
<1>2. CASE ResetStop(c) \/ ResetFailure(c)
  BY <1>2, GoOwns DEF ResetStop, ResetFailure, CallerAt, Holding, HoldingPcs
<1>3. CASE SpawnSink(c)
  <2> DEFINE h == [caller[c].held EXCEPT !.sink = TRUE]
             e == [caller[c] EXCEPT !.pc = "wait_sink", !.held = h]
  <2>1. CASE Become(c, [caller[c] EXCEPT !.pc = "wait_sink", !.held.sink = TRUE])
    <3>1. Become(c, e)
      BY <1>0, <2>1 DEF Become, CallerType
    <3>2. h.run = caller[c].held.run
      BY <1>0 DEF HandleType
    <3> HIDE DEF h
    <3>3. e.held = h
      BY <1>0 DEF CallerType
    <3> HIDE DEF e
    <3>4. QED
      BY <1>3, <3>1, <3>2, <3>3, KeepOwns DEF SpawnSink, CallerAt, Holding, HoldingPcs
  <2>2. CASE Return(c)
    BY <1>3, <2>2, ReturnOwns DEF SpawnSink
  <2>3. QED
    BY <1>3, <2>1, <2>2 DEF SpawnSink
<1>4. CASE WaitSink(c)
  <2>1. Holding(c) /\ run' = run /\ lastRun' = lastRun
    BY <1>4 DEF WaitSink, CallerAt, Holding, HoldingPcs
  <2>2. Go(c, "spawn_capture") \/ GiveUpEarly(c, "SinkFailure") \/ GiveUpEarly(c, "WorkerFailure")
    BY <1>4 DEF WaitSink
  <2>3. QED
    BY <2>1, <2>2, GoOwns, GiveUpOwns
<1>5. CASE SpawnCapture(c)
  <2> DEFINE h == [caller[c].held EXCEPT !.capture = TRUE]
             e == [caller[c] EXCEPT !.pc = "install", !.held = h]
  <2>0. Holding(c) /\ run' = run /\ lastRun' = lastRun
    BY <1>5 DEF SpawnCapture, CallerAt, Holding, HoldingPcs
  <2>1. CASE Become(c, [caller[c] EXCEPT !.pc = "install", !.held.capture = TRUE])
    <3>1. Become(c, e)
      BY <1>0, <2>1 DEF Become, CallerType
    <3>2. h.run = caller[c].held.run
      BY <1>0 DEF HandleType
    <3> HIDE DEF h
    <3>3. e.held = h
      BY <1>0 DEF CallerType
    <3> HIDE DEF e
    <3>4. QED
      BY <2>0, <3>1, <3>2, <3>3, KeepOwns
  <2>2. CASE GiveUpEarly(c, "WorkerFailure")
    BY <2>0, <2>2, GiveUpOwns
  <2>3. QED
    BY <1>5, <2>1, <2>2 DEF SpawnCapture
<1>6. CASE InstallRun(c)
  <2>1. Holding(c) /\ run' = caller[c].held /\ lastRun' = lastRun
    BY <1>6 DEF InstallRun, CallerAt, Holding, HoldingPcs
  <2> DEFINE e == [caller[c] EXCEPT !.pc = "wait_capture", !.held = NoHandles]
  <2>2. e.pc \notin HoldingPcs
    BY <1>0 DEF CallerType, HoldingPcs
  <2>3. IdleCaller.pc \notin HoldingPcs
    BY DEF IdleCaller, HoldingPcs
  <2>4. Become(c, IdleCaller) \/ Become(c, e)
    BY <1>6 DEF InstallRun, Return
  <2> HIDE DEF e
  <2>5. QED
    BY <2>1, <2>2, <2>3, <2>4 DEF Installs, OwnerMoves, OwnerMove
<1>7. CASE WaitCapture(c)
  <2>1. run' = run /\ lastRun' = lastRun
    BY <1>7 DEF WaitCapture
  <2> DEFINE e == [caller[c] EXCEPT !.pc = "request_stop", !.goal = "abort"]
  <2>2. Go(c, "finish_start") \/ Become(c, e)
    BY <1>7 DEF WaitCapture
  <2>3. CASE Become(c, e)
    <3>1. e.pc \notin HoldingPcs
      BY <1>0 DEF CallerType, HoldingPcs
    <3> HIDE DEF e
    <3>2. QED
      BY <2>1, <2>3, <3>1 DEF LetsGo, OwnerMoves, OwnerMove
  <2>4. "finish_start" \notin HoldingPcs
    BY DEF HoldingPcs
  <2>5. QED
    BY <2>1, <2>2, <2>3, <2>4, GoOwns
<1>8. CASE FinishStart(c)
  BY <1>8, ReturnOwns DEF FinishStart
<1>9. QED
  BY <1>1, <1>2, <1>3, <1>4, <1>5, <1>6, <1>7, <1>8 DEF StartSteps

LEMMA CleanupStepOwns ==
  ASSUME TypeOK, NEW c \in Callers, CleanupSteps(c)
  PROVE  OwnerMoves(c)
<1>0. caller[c] \in CallerType /\ caller[c].held \in HandleType
  BY DEF TypeOK, CallerType
<1>1. CASE RequestStop(c)
  BY <1>1, GoOwns DEF RequestStop, HoldingPcs
<1>2. CASE TakeRun(c)
  <2>1. run' = NoHandles /\ lastRun' = lastRun
    BY <1>2 DEF TakeRun
  <2>2. CASE AfterCleanup(c)
    BY <2>1, <2>2, AfterCleanupOwns
  <2> DEFINE e == [caller[c] EXCEPT !.pc = "join_capture", !.held = run]
  <2>3. CASE run # NoHandles /\ Become(c, e)
    <3>1. e.held = run
      BY <1>0 DEF CallerType
    <3> HIDE DEF e
    <3>2. QED
      BY <2>1, <2>3, <3>1 DEF Takes, OwnerMoves, OwnerMove
  <2>4. QED
    BY <1>2, <2>2, <2>3 DEF TakeRun
<1>3. CASE JoinCapture(c)
  <2>1. Holding(c) /\ run' = run /\ lastRun' = lastRun
    BY <1>3 DEF JoinCapture, CallerAt, Holding, HoldingPcs
  <2>2. PICK failed \in BOOLEAN :
          Become(c, [caller[c] EXCEPT !.pc = "join_sink", !.held.capture = FALSE,
                                      !.joinFailed = failed])
    BY <1>3 DEF JoinCapture
  <2> DEFINE h == [caller[c].held EXCEPT !.capture = FALSE]
             e == [caller[c] EXCEPT !.pc = "join_sink", !.held = h, !.joinFailed = failed]
  <2>3. Become(c, e)
    BY <1>0, <2>2 DEF Become, CallerType
  <2>4. h.run = caller[c].held.run
    BY <1>0 DEF HandleType
  <2> HIDE DEF h
  <2>5. e.held = h
    BY <1>0 DEF CallerType
  <2> HIDE DEF e
  <2>6. QED
    BY <2>1, <2>3, <2>4, <2>5, KeepOwns
<1>4. CASE JoinSink(c)
  <2>1. Holding(c) /\ run' = run /\ lastRun' = lastRun
    BY <1>4 DEF JoinSink, CallerAt, Holding, HoldingPcs
  <2>2. PICK failed : AfterJoin(c, failed)
    BY <1>4 DEF JoinSink
  <2> DEFINE h == [caller[c].held EXCEPT !.sink = FALSE]
             installing == [caller[c] EXCEPT !.pc = "install", !.held = h, !.joinFailed = FALSE]
             clearing == [caller[c] EXCEPT !.pc = "clear", !.held = h]
  <2>3. Become(c, installing) \/ Become(c, clearing) \/ Return(c)
    BY <1>0, <2>2 DEF AfterJoin, Become, CallerType
  <2>4. h.run = caller[c].held.run
    BY <1>0 DEF HandleType
  <2> HIDE DEF h
  <2>5. installing.held = h /\ clearing.held = h
    BY <1>0 DEF CallerType
  <2> HIDE DEF installing, clearing
  <2>6. QED
    BY <2>1, <2>3, <2>4, <2>5, KeepOwns, ReturnOwns
<1>5. CASE ClearQueue(c)
  BY <1>5, AfterCleanupOwns DEF ClearQueue
<1>6. QED
  BY <1>1, <1>2, <1>3, <1>4, <1>5 DEF CleanupSteps

LEMMA CommandStepOwns ==
  ASSUME TypeOK, NEW c \in Callers, BeginStart(c) \/ BeginStop(c) \/ CallerSteps(c)
  PROVE  OwnerMoves(c)
<1>0. caller[c] \in CallerType
  BY DEF TypeOK
<1>1. CASE BeginStart(c) \/ BeginStop(c)
  <2>1. run' = run /\ lastRun' = lastRun
    BY <1>1 DEF BeginStart, BeginStop
  <2>2. PICK pc \in CallerPcs \ HoldingPcs, goal \in {"start", "stop"} :
          Become(c, [caller[c] EXCEPT !.pc = pc, !.goal = goal])
    BY <1>1 DEF BeginStart, BeginStop, CallerPcs, HoldingPcs
  <2> DEFINE e == [caller[c] EXCEPT !.pc = pc, !.goal = goal]
  <2>3. e.pc = pc
    BY <1>0 DEF CallerType
  <2>4. Become(c, e)
    BY <2>2
  <2> HIDE DEF e
  <2>5. QED
    BY <2>1, <2>2, <2>3, <2>4 DEF LetsGo, OwnerMoves, OwnerMove
<1>2. CASE SetStopping(c)
  BY <1>2, GoOwns DEF SetStopping, HoldingPcs
<1>3. CASE SetStopped(c)
  BY <1>3, ReturnOwns DEF SetStopped
<1>4. QED
  BY <1>1, <1>2, <1>3, StartStepOwns, CleanupStepOwns DEF CallerSteps

-----------------------------------------------------------------------------
(* The theorem.                                                            *)

LEMMA InitOwns == Init => OInv
<1> SUFFICES ASSUME Init
             PROVE  Ownership
  BY InitIInv DEF OInv
<1>1. \A c \in Callers : ~Holding(c)
  BY DEF Init, IdleCaller, Holding, HoldingPcs
<1>2. QED
  BY <1>1 DEF Init, Ownership, HandlesHaveOneOwner, NoHandles, NoRun

LEMMA NextOwns == OInv /\ [Next]_vars => OInv'
<1> SUFFICES ASSUME OInv, [Next]_vars
             PROVE  Ownership'
  BY NextIInv DEF OInv
<1>0. TypeOK /\ HandlesNamed /\ Ownership
  BY DEF OInv, IInv
<1>1. ASSUME NEW c \in Callers, BeginStart(c) \/ BeginStop(c) \/ CallerSteps(c)
      PROVE  Ownership'
  BY <1>0, <1>1, CommandStepOwns, OwnershipMoves
<1>2. CASE UNCHANGED <<run, lastRun, caller>>
  BY <1>0, <1>2 DEF Ownership, HandlesHaveOneOwner, Holding
<1>3. ASSUME NEW r \in Runs, SinkNext(r)
      PROVE  UNCHANGED <<run, lastRun, caller>>
  BY <1>3 DEF SinkNext, SinkOpen, SinkPop, SinkAccepts, SinkFails, SinkRefreshed,
              SinkClose, SinkFinal
<1>4. ASSUME NEW r \in Runs, CaptureNext(r)
      PROVE  UNCHANGED <<run, lastRun, caller>>
  BY <1>4 DEF CaptureNext, CaptureOpen, CaptureCheck, CaptureRead, CapturePush,
              CaptureCount, CaptureStop, CaptureFinish
<1>5. ASSUME NEW t \in Threads, RecordFailure(t)
      PROVE  UNCHANGED <<run, lastRun, caller>>
  BY <1>5 DEF RecordFailure, Exchange, RaiseStop, FailQueue, Publish
<1>6. QED
  BY <1>1, <1>2, <1>3, <1>4, <1>5 DEF Next, vars

\* Engine::start and Engine::stop may be called by any number of threads at
\* once: the handles one of them took or created belong to it alone until it
\* installs or drops them (RunHandles in Engine.run, taken under its lock).
THEOREM OwnershipCorrect == Spec => []HandlesHaveOneOwner
<1>1. OInv => HandlesHaveOneOwner
  BY DEF OInv, Ownership
<1>2. QED
  BY <1>1, InitOwns, NextOwns, PTL DEF Spec

-----------------------------------------------------------------------------
(* What commands know about the runs they hold.                            *)

Launching == {"reset_stop", "reset_failure", "spawn_sink", "wait_sink", "spawn_capture"}
Parking == {"join_capture", "join_sink", "install"}

NotSpawned(r) == capture[r].pc = "none"

\* What a command knows about the run it holds.
CommandSound(c) ==
  LET h == caller[c].held
      r == h.run
      pc == caller[c].pc
  IN /\ caller[c].goal = "park" => pc \in Parking /\ NotSpawned(r)
     /\ pc \in Launching => /\ caller[c].target = r
                            /\ NotSpawned(r)
                            /\ queue[r].producerDone => queue[r].failed
     /\ pc \in {"reset_stop", "reset_failure", "spawn_sink"} => sink[r].pc = "none"
     /\ pc \in {"wait_sink", "spawn_capture"} => h.sink
     /\ pc = "install" /\ caller[c].goal # "park" => h.capture /\ h.sink
     /\ pc = "join_capture" => (h.capture /\ h.sink) \/ NotSpawned(r)
     /\ pc = "join_sink" => h.sink \/ NotSpawned(r)
     /\ pc = "clear" => sink[r].pc = "done" \/ NotSpawned(r)

\* What the installed handles say about their run.
InstalledSound == (run.capture /\ run.sink) \/ NotSpawned(run.run)
SlotSound == run # NoHandles => InstalledSound

\* A run that was not launched has no workers and an untouched queue.
FreshSound(r) ==
  r > lastRun => /\ sink[r].pc = "none" /\ NotSpawned(r)
                 /\ queue[r].producerDone => queue[r].failed

ServingPcs == {"none", "open", "loop", "write", "refresh"}

Balance(r) ==
  capture[r].made = sink[r].sequence + InFlight(r) + Len(queue[r].frames)
                    + queue[r].discarded

\* Unused captures have made nothing, a live capture's queue is unfinished
\* unless it failed, and the frames of an unfailed run balance until its sink
\* stops serving.
RunSound(r) ==
  /\ capture[r].pc \in {"none", "open"} => capture[r].made = 0
  /\ capture[r].pc \notin {"none", "done"} /\ queue[r].producerDone => queue[r].failed
  /\ sink[r].pc \in ServingPcs /\ ~queue[r].failed => Balance(r)

Sound ==
  /\ SlotSound
  /\ \A c \in Callers : CommandSound(c)
  /\ \A r \in Runs : FreshSound(r) /\ RunSound(r)

CInv == OInv /\ Sound

-----------------------------------------------------------------------------
(* What is left to show of a step of a caller: the facts about itself and  *)
(* about the one run it touches.                                           *)

SameRun(x) == sink'[x] = sink[x] /\ capture'[x] = capture[x] /\ queue'[x] = queue[x]

\* A command touches at most the run it holds.
LocalTo(c) == \A x \in Runs : SameRun(x) \/ (Holding(c) /\ x = caller[c].held.run)

CommandStep(c) == BeginStart(c) \/ BeginStop(c) \/ CallerSteps(c)

LEMMA CommandKeeps ==
  ASSUME CInv, NEW c \in Callers, CommandStep(c), LocalTo(c), CommandSound(c)',
         run' = run \/ run' = NoHandles \/ InstalledSound',
         \A x \in Runs : Holding(c) /\ x = caller[c].held.run => RunSound(x)'
  PROVE  Sound'
<1>0. TypeOK /\ HandlesNamed /\ Ownership /\ Sound
  BY DEF CInv, OInv, IInv
<1>1. PICK e : OwnerMove(c, e)
  BY <1>0, CommandStepOwns DEF CommandStep, OwnerMoves
<1>2. /\ lastRun \in Nat /\ \A r \in Runs : r \in Nat \ {0}
      /\ lastRun' = lastRun \/ lastRun' = lastRun + 1
  BY <1>0, <1>1, RunNumbers DEF OwnerMove, LetsGo, Installs, Keeps, Takes, Launches
<1>3. \A d \in Callers \ {c} : caller'[d] = caller[d]
  BY <1>0, <1>1 DEF OwnerMove, Become, TypeOK
<1>4. ASSUME NEW d \in Callers
      PROVE  CommandSound(d)'
  <2>1. CASE d = c
    BY <2>1
  <2>2. CASE d # c /\ ~Holding(d)
    <3>1. CommandSound(d) /\ caller'[d] = caller[d]
      BY <1>0, <1>3, <2>2 DEF Sound
    <3>2. QED
      BY <2>2, <3>1 DEF CommandSound, Holding, HoldingPcs, Launching, Parking
  <2>3. CASE d # c /\ Holding(d)
    <3> DEFINE x == caller[d].held.run
    <3>1. x \in Runs
      BY <1>0, <2>3 DEF HandlesNamed, Holding
    <3>2. ~(Holding(c) /\ x = caller[c].held.run)
      BY <1>0, <2>3 DEF Ownership, HandlesHaveOneOwner
    <3>3. SameRun(x)
      BY <3>1, <3>2 DEF LocalTo
    <3>4. caller'[d] = caller[d]
      BY <1>3, <2>3
    <3>5. CommandSound(d)
      BY <1>0 DEF Sound
    <3>6. QED
      BY <3>3, <3>4, <3>5 DEF CommandSound, SameRun, NotSpawned
  <2>4. QED
    BY <2>1, <2>2, <2>3
<1>5. SlotSound'
  <2>1. CASE run' = run /\ run # NoHandles
    <3>1. run.run \in Runs
      BY <1>0, <2>1 DEF HandlesNamed
    <3>2. ~(Holding(c) /\ run.run = caller[c].held.run)
      BY <1>0 DEF Ownership, HandlesHaveOneOwner
    <3>3. SameRun(run.run)
      BY <3>1, <3>2 DEF LocalTo
    <3>4. SlotSound
      BY <1>0 DEF Sound
    <3>5. QED
      BY <2>1, <3>3, <3>4 DEF SlotSound, InstalledSound, SameRun, NotSpawned
  <2>2. CASE run' = NoHandles
    BY <2>2 DEF SlotSound
  <2>3. CASE InstalledSound'
    BY <2>3 DEF SlotSound
  <2>4. QED
    BY <2>1, <2>2, <2>3
<1>6. ASSUME NEW x \in Runs
      PROVE  RunSound(x)'
  <2>1. CASE Holding(c) /\ x = caller[c].held.run
    BY <2>1
  <2>2. CASE ~(Holding(c) /\ x = caller[c].held.run)
    <3>1. SameRun(x)
      BY <2>2 DEF LocalTo
    <3>2. RunSound(x)
      BY <1>0 DEF Sound
    <3>3. QED
      BY <3>1, <3>2 DEF RunSound, SameRun, Balance, InFlight
  <2>3. QED
    BY <2>1, <2>2
<1>7. ASSUME NEW x \in Runs
      PROVE  FreshSound(x)'
  <2>1. SUFFICES ASSUME x > lastRun'
                 PROVE  FreshSound(x)'
    BY DEF FreshSound
  <2>2. x > lastRun
    BY <1>2, <2>1
  <2>3. ~(Holding(c) /\ x = caller[c].held.run)
    BY <1>0, <1>2, <2>2 DEF Ownership
  <2>4. SameRun(x)
    BY <2>3 DEF LocalTo
  <2>5. FreshSound(x)
    BY <1>0 DEF Sound
  <2>6. QED
    BY <2>2, <2>4, <2>5 DEF FreshSound, SameRun, NotSpawned
<1>8. QED
  BY <1>4, <1>5, <1>6, <1>7 DEF Sound

\* A command that holds nothing afterwards has nothing to show about itself.
LEMMA FreeSound ==
  ASSUME NEW c \in Callers, caller'[c].pc \notin HoldingPcs, caller'[c].goal # "park"
  PROVE  CommandSound(c)'
BY DEF CommandSound, HoldingPcs, Launching

-----------------------------------------------------------------------------
(* What is left to show of a step of a worker or of record_failure.        *)

\* Nothing a command or the slot relies on is taken back.
Monotone(x) ==
  /\ NotSpawned(x) => NotSpawned(x)'
  /\ NotSpawned(x) /\ queue'[x].producerDone => queue[x].producerDone \/ queue'[x].failed
  /\ queue[x].failed => queue'[x].failed
  /\ sink[x].pc = "none" => sink'[x].pc = "none"
  /\ sink[x].pc = "done" => sink'[x].pc = "done"

LEMMA WorkerKeeps ==
  ASSUME CInv, UNCHANGED <<run, caller, lastRun>>,
         \A x \in Runs : Monotone(x) /\ RunSound(x)'
  PROVE  Sound'
<1>0. TypeOK /\ HandlesNamed /\ Sound
  BY DEF CInv, OInv, IInv
<1>2. ASSUME NEW d \in Callers
      PROVE  CommandSound(d)'
  <2>1. CASE ~Holding(d)
    BY <1>0, <2>1 DEF Sound, Holding, CommandSound, HoldingPcs, Launching, Parking
  <2>2. CASE Holding(d)
    <3> DEFINE x == caller[d].held.run
    <3>1. x \in Runs
      BY <1>0, <2>2 DEF HandlesNamed, Holding
    <3>2. Monotone(x)
      BY <3>1
    <3>3. CommandSound(d)
      BY <1>0 DEF Sound
    <3>4. QED
      BY <3>2, <3>3 DEF CommandSound, Monotone, NotSpawned
  <2>3. QED
    BY <2>1, <2>2
<1>3. SlotSound'
  <2>1. CASE run = NoHandles
    BY <2>1 DEF SlotSound
  <2>2. CASE run # NoHandles
    <3>1. run.run \in Runs
      BY <1>0, <2>2 DEF HandlesNamed
    <3>2. Monotone(run.run)
      BY <3>1
    <3>3. SlotSound
      BY <1>0 DEF Sound
    <3>4. QED
      BY <3>2, <3>3 DEF SlotSound, InstalledSound, Monotone, NotSpawned
  <2>3. QED
    BY <2>1, <2>2
<1>4. ASSUME NEW x \in Runs
      PROVE  FreshSound(x)'
  <2>1. FreshSound(x) /\ Monotone(x)
    BY <1>0 DEF Sound
  <2>2. QED
    BY <2>1 DEF FreshSound, Monotone, NotSpawned
<1>5. QED
  BY <1>2, <1>3, <1>4 DEF Sound

-----------------------------------------------------------------------------
(* Steps of the workers and of record_failure.                             *)

LEMMA RunTypes ==
  ASSUME TypeOK, NEW r \in Runs
  PROVE  /\ sink[r] \in SinkType /\ capture[r] \in CaptureType
         /\ queue[r] \in QueueOf
         /\ sink[r].sequence \in Nat /\ capture[r].made \in Nat
         /\ Len(queue[r].frames) \in Nat /\ queue[r].discarded \in Nat
         /\ queue[r].failed \in BOOLEAN /\ queue[r].producerDone \in BOOLEAN
<1>1. sink[r] \in SinkType /\ capture[r] \in CaptureType /\ queue[r] \in QueueOf
  BY RunFields DEF TypeOK
<1>2. sink[r].sequence \in Nat /\ capture[r].made \in Nat
  BY <1>1 DEF SinkType, CaptureType
<1>3. QED
  BY <1>1, <1>2, QueueFields

LEMMA FailureSound ==
  ASSUME CInv, NEW t \in Threads, RecordFailure(t)
  PROVE  Sound'
<1>1. UNCHANGED <<run, caller, lastRun, sink, capture>>
  BY DEF RecordFailure, Exchange, RaiseStop, FailQueue, Publish
<1>2. queue' = queue \/ queue' = [queue EXCEPT ![fault[t].run] = Fail(@)]
  BY DEF RecordFailure, Exchange, RaiseStop, FailQueue, Publish
<1>3. TypeOK /\ Sound
  BY DEF CInv, OInv, IInv
<1>4. ASSUME NEW x \in Runs
      PROVE  queue'[x] = queue[x] \/ queue'[x].failed
  BY <1>2, <1>3, RunTypes, ControlType DEF TypeOK
<1>5. ASSUME NEW x \in Runs
      PROVE  Monotone(x) /\ RunSound(x)'
  <2>1. RunSound(x)
    BY <1>3 DEF Sound
  <2>2. QED
    BY <1>1, <1>4, <2>1 DEF Monotone, RunSound, NotSpawned, Balance, InFlight
<1>6. QED
  BY <1>1, <1>5, WorkerKeeps

\* A step of the sink of r that leaves the queue alone.
LEMMA SinkMoved ==
  ASSUME CInv, NEW r \in Runs, SinkNext(r), ~SinkPop(r)
  PROVE  Sound'
<1>1. UNCHANGED <<run, caller, lastRun, queue, capture>>
  BY DEF SinkNext, SinkOpen, SinkAccepts, SinkFails, SinkRefreshed, SinkClose, SinkFinal
<1>2. TypeOK /\ Sound
  BY DEF CInv, OInv, IInv
<1>3. RunSound(r) /\ sink[r] \in SinkType /\ sink[r].sequence \in Nat
  BY <1>2, RunTypes DEF Sound
<1>4. /\ \A x \in Runs : x # r => sink'[x] = sink[x]
      /\ sink[r].pc # "none" /\ sink[r].pc # "done" /\ sink'[r].pc # "none"
      /\ sink'[r].pc \in ServingPcs =>
           /\ sink[r].pc \in ServingPcs
           /\ sink'[r].sequence + InFlight(r)' = sink[r].sequence + InFlight(r)
  <2>1. CASE SinkOpen(r)
    <3>1. PICK pc \in {"done", "loop"}, ready \in ReadyValues :
            sink' = [sink EXCEPT ![r].pc = pc, ![r].ready = ready]
      BY <2>1 DEF SinkOpen, ReadyValues
    <3>2. sink[r].pc = "open"
      BY <2>1 DEF SinkOpen, SinkAt
    <3>3. sink'[r].pc = pc /\ sink'[r].sequence = sink[r].sequence
      BY <1>2, <3>1 DEF TypeOK, SinkType
    <3>4. QED
      BY <1>2, <3>1, <3>2, <3>3 DEF TypeOK, InFlight, ServingPcs
  <2>2. CASE SinkAccepts(r)
    <3>1. PICK pc \in {"loop", "refresh"} :
            sink' = [sink EXCEPT ![r].pc = pc, ![r].sequence = @ + 1]
      BY <2>2 DEF SinkAccepts
    <3>2. sink[r].pc = "write"
      BY <2>2 DEF SinkAccepts, SinkAt
    <3>3. sink'[r].pc = pc /\ sink'[r].sequence = sink[r].sequence + 1
      BY <1>2, <3>1 DEF TypeOK, SinkType
    <3>4. InFlight(r)' = 0 /\ InFlight(r) = 1
      BY <3>1, <3>2, <3>3 DEF InFlight
    <3>5. QED
      BY <1>2, <1>3, <3>1, <3>2, <3>3, <3>4 DEF TypeOK, ServingPcs
  <2>3. CASE SinkFails(r) \/ SinkRefreshed(r) \/ SinkClose(r) \/ SinkFinal(r)
    <3>1. PICK pc \in {"close", "loop", "final", "done"} :
            sink' = [sink EXCEPT ![r].pc = pc] /\ (pc = "loop" => sink[r].pc = "refresh")
      BY <2>3 DEF SinkFails, SinkRefreshed, SinkClose, SinkFinal, SinkAt
    <3>2. sink[r].pc \in {"write", "refresh", "close", "final"}
      BY <2>3 DEF SinkFails, SinkRefreshed, SinkClose, SinkFinal, SinkAt
    <3>3. sink'[r].pc = pc /\ sink'[r].sequence = sink[r].sequence
      BY <1>2, <3>1 DEF TypeOK, SinkType
    <3>4. QED
      BY <1>2, <3>1, <3>2, <3>3 DEF TypeOK, InFlight, ServingPcs
  <2>4. QED
    BY <2>1, <2>2, <2>3 DEF SinkNext
<1>5. ASSUME NEW x \in Runs
      PROVE  Monotone(x) /\ RunSound(x)'
  <2>1. RunSound(x) /\ sink[x].sequence \in Nat
    BY <1>2, RunTypes DEF Sound
  <2>2. CASE x # r
    BY <1>1, <1>4, <2>1, <2>2 DEF Monotone, RunSound, NotSpawned, Balance, InFlight
  <2>3. CASE x = r
    <3>1. Monotone(r)
      BY <1>1, <1>4 DEF Monotone, NotSpawned
    <3>2. sink'[r].pc \in ServingPcs /\ ~queue'[r].failed => Balance(r)'
      <4>1. SUFFICES ASSUME sink'[r].pc \in ServingPcs, ~queue'[r].failed
                     PROVE  Balance(r)'
        OBVIOUS
      <4>2. Balance(r)
        BY <1>1, <1>3, <1>4, <4>1 DEF RunSound
      <4>3. sink'[r].sequence + InFlight(r)' = sink[r].sequence + InFlight(r)
        BY <1>4, <4>1
      <4>4. QED
        BY <1>1, <4>2, <4>3 DEF Balance
    <3>3. QED
      BY <1>1, <1>3, <2>3, <3>1, <3>2 DEF RunSound
  <2>4. QED
    BY <2>2, <2>3
<1>6. QED
  BY <1>1, <1>5, WorkerKeeps

\* A frame goes from the queue into the hands of the sink: the sum stays.
LEMMA OneLess ==
  ASSUME NEW s \in Nat, NEW n \in Nat, NEW d \in Nat
  PROVE  s + 0 + n + d = s + 1 + (n - 1) + d
OBVIOUS

LEMMA PopSound ==
  ASSUME CInv, NEW r \in Runs, SinkPop(r)
  PROVE  Sound'
<1>1. UNCHANGED <<run, caller, lastRun, capture>> /\ sink[r].pc = "loop"
  BY DEF SinkPop, SinkAt
<1>2. TypeOK /\ Sound
  BY DEF CInv, OInv, IInv
<1>3. RunSound(r) /\ queue[r] \in QueueOf /\ sink[r] \in SinkType /\ sink[r].sequence \in Nat
  BY <1>2, RunTypes DEF Sound
<1>4. /\ \A x \in Runs : x # r => sink'[x] = sink[x] /\ queue'[x] = queue[x]
      /\ queue'[r].failed = queue[r].failed
      /\ queue'[r].producerDone = queue[r].producerDone
      /\ sink'[r].pc \notin {"none", "done"}
      /\ sink'[r].pc \in ServingPcs /\ ~queue'[r].failed => Balance(r)'
  <2>1. CASE PopResult(queue[r]) = "Frame"
    <3> DEFINE p == Popped(queue[r])
               f == Head(queue[r].frames)
    <3>1. sink' = [sink EXCEPT ![r].pc = "write", ![r].frame = f]
          /\ queue' = [queue EXCEPT ![r] = p]
      BY <2>1 DEF SinkPop
    <3>2. /\ p.frames = Tail(queue[r].frames) /\ queue[r].frames # <<>>
          /\ p.discarded = queue[r].discarded
      BY <1>3, <2>1, PoppedQueue
    <3>3. p.failed = queue[r].failed /\ p.producerDone = queue[r].producerDone
      BY <1>3 DEF Popped, QueueOf
    <3>4. Len(p.frames) = Len(queue[r].frames) - 1 /\ Len(queue[r].frames) \in Nat
      BY <1>3, <3>2, QueueFields, Shifted
    <3> HIDE DEF p, f
    <3>5. queue'[r] = p /\ sink'[r].pc = "write" /\ sink'[r].sequence = sink[r].sequence
      BY <1>2, <3>1 DEF TypeOK, SinkType
    <3>6. InFlight(r)' = 1 /\ InFlight(r) = 0
      BY <1>1, <3>5 DEF InFlight
    <3>7. Balance(r) \/ queue[r].failed
      BY <1>1, <1>3 DEF RunSound, ServingPcs
    <3>8. ~queue'[r].failed => Balance(r)'
      <4>1. SUFFICES ASSUME ~queue'[r].failed
                     PROVE  Balance(r)'
        OBVIOUS
      <4>2. Balance(r)
        BY <3>3, <3>5, <3>7, <4>1
      <4>3. capture[r].made = sink[r].sequence + 0 + Len(queue[r].frames) + queue[r].discarded
        BY <3>6, <4>2 DEF Balance
      <4>4. queue[r].discarded \in Nat /\ sink[r].sequence \in Nat
            /\ p.discarded = queue[r].discarded
        BY <1>2, <1>3, <3>2, RunTypes
      <4>5. capture[r].made = sink[r].sequence + 1 + Len(p.frames) + p.discarded
        <5>1. sink[r].sequence + 0 + Len(queue[r].frames) + queue[r].discarded
                = sink[r].sequence + 1 + (Len(queue[r].frames) - 1) + queue[r].discarded
          BY <3>4, <4>4, OneLess
        <5>2. Len(p.frames) = Len(queue[r].frames) - 1 /\ p.discarded = queue[r].discarded
          BY <3>4, <4>4
        <5>3. QED
          BY <4>3, <5>1, <5>2
      <4>6. capture' = capture
        BY <1>1
      <4>7. QED
        BY <3>5, <3>6, <4>5, <4>6 DEF Balance
    <3>9. QED
      BY <1>2, <3>1, <3>3, <3>5, <3>8 DEF TypeOK
  <2>2. CASE PopResult(queue[r]) # "Frame"
    <3>1. sink' = [sink EXCEPT ![r].pc = "close"] /\ queue' = queue
      BY <2>2 DEF SinkPop
    <3>2. QED
      BY <1>2, <3>1 DEF TypeOK, SinkType, ServingPcs
  <2>3. QED
    BY <2>1, <2>2
<1>5. ASSUME NEW x \in Runs
      PROVE  Monotone(x) /\ RunSound(x)'
  <2>1. RunSound(x)
    BY <1>2 DEF Sound
  <2>2. CASE x # r
    BY <1>1, <1>4, <2>1, <2>2 DEF Monotone, RunSound, NotSpawned, Balance, InFlight
  <2>3. CASE x = r
    <3>1. Monotone(r)
      BY <1>1, <1>4 DEF Monotone, NotSpawned
    <3>2. RunSound(r)'
      BY <1>1, <1>3, <1>4 DEF RunSound
    <3>3. QED
      BY <2>3, <3>1, <3>2
  <2>4. QED
    BY <2>2, <2>3
<1>6. QED
  BY <1>1, <1>5, WorkerKeeps

\* A step of the capture of r that pushes nothing.
LEMMA CaptureMoved ==
  ASSUME CInv, NEW r \in Runs, CaptureNext(r), ~CapturePush(r)
  PROVE  Sound'
<1>1. UNCHANGED <<run, caller, lastRun, sink>>
  BY DEF CaptureNext, CaptureOpen, CaptureCheck, CaptureRead, CaptureCount, CaptureStop,
         CaptureFinish
<1>2. TypeOK /\ Sound
  BY DEF CInv, OInv, IInv
<1>3. RunSound(r) /\ queue[r] \in QueueOf /\ capture[r] \in CaptureType
  BY <1>2, RunTypes DEF Sound
<1>4. /\ \A x \in Runs : x # r => capture'[x] = capture[x]
      /\ capture[r].pc \notin {"none", "done"}
      /\ capture'[r].made = capture[r].made
      /\ capture'[r].pc \notin {"none", "open"}
      /\ \/ queue' = queue /\ capture'[r].pc # "done"
         \/ queue' = [queue EXCEPT ![r] = FinishProducer(@)] /\ capture'[r].pc = "done"
  <2>1. CASE CaptureRead(r)
    <3>1. capture[r].pc = "read" /\ queue' = queue
      BY <2>1 DEF CaptureRead, CaptureAt
    <3>2. ASSUME NEW pc \in {"check", "push", "stop"}, NEW n,
                 capture' = [capture EXCEPT ![r].pc = pc, ![r].pending = n]
          PROVE  /\ \A x \in Runs : x # r => capture'[x] = capture[x]
                 /\ capture'[r].made = capture[r].made
                 /\ capture'[r].pc = pc
      BY <1>2, <3>2 DEF TypeOK, CaptureType
    <3>3. CASE capture' = [capture EXCEPT ![r].pc = "stop"]
      BY <1>2, <3>1, <3>3 DEF TypeOK, CaptureType
    <3>4. ASSUME NEW n \in 0..MaxBurst,
                 capture' = [capture EXCEPT ![r].pc = IF n = 0 THEN "check" ELSE "push",
                                            ![r].pending = n]
          PROVE  /\ \A x \in Runs : x # r => capture'[x] = capture[x]
                 /\ capture'[r].made = capture[r].made
                 /\ capture'[r].pc \in {"check", "push"}
      <4> DEFINE next == IF n = 0 THEN "check" ELSE "push"
      <4>1. next \in {"check", "push"}
        OBVIOUS
      <4>2. capture' = [capture EXCEPT ![r].pc = next, ![r].pending = n]
        BY <3>4
      <4> HIDE DEF next
      <4>3. QED
        BY <3>2, <4>1, <4>2
    <3>5. \/ capture' = [capture EXCEPT ![r].pc = "stop"]
          \/ \E n \in 0..MaxBurst :
               capture' = [capture EXCEPT ![r].pc = IF n = 0 THEN "check" ELSE "push",
                                          ![r].pending = n]
      BY <2>1 DEF CaptureRead
    <3>6. QED
      BY <3>1, <3>3, <3>4, <3>5
  <2>2. CASE CaptureOpen(r)
    <3>1. capture[r].pc = "open"
      BY <2>2 DEF CaptureOpen, CaptureAt
    <3>2. PICK pc \in {"done", "check"}, ready \in ReadyValues :
            /\ capture' = [capture EXCEPT ![r].pc = pc, ![r].ready = ready]
            /\ \/ queue' = queue /\ pc # "done"
               \/ queue' = [queue EXCEPT ![r] = FinishProducer(@)] /\ pc = "done"
      BY <2>2 DEF CaptureOpen, ReadyValues
    <3>3. QED
      BY <1>2, <3>1, <3>2 DEF TypeOK, CaptureType
  <2>3. CASE CaptureCheck(r) \/ CaptureCount(r) \/ CaptureStop(r)
    <3>1. capture[r].pc \in {"check", "count", "stop"} /\ queue' = queue
      BY <2>3 DEF CaptureCheck, CaptureCount, CaptureStop, CaptureAt
    <3>2. PICK pc \in {"stop", "read", "check", "push", "finish"} :
            capture' = [capture EXCEPT ![r].pc = pc]
      BY <2>3 DEF CaptureCheck, CaptureCount, CaptureStop
    <3>3. QED
      BY <1>2, <3>1, <3>2 DEF TypeOK, CaptureType
  <2>4. CASE CaptureFinish(r)
    BY <1>2, <2>4 DEF CaptureFinish, CaptureAt, TypeOK, CaptureType
  <2>5. QED
    BY <2>1, <2>2, <2>3, <2>4 DEF CaptureNext
<1>6. /\ \A x \in Runs : x # r => queue'[x] = queue[x]
      /\ queue'[r].frames = queue[r].frames /\ queue'[r].failed = queue[r].failed
      /\ queue'[r].discarded = queue[r].discarded
      /\ capture'[r].pc # "done" => queue'[r].producerDone = queue[r].producerDone
  BY <1>2, <1>3, <1>4 DEF TypeOK, FinishProducer, QueueOf
<1>7. ASSUME NEW x \in Runs
      PROVE  Monotone(x) /\ RunSound(x)'
  <2>1. RunSound(x)
    BY <1>2 DEF Sound
  <2>2. CASE x # r
    BY <1>1, <1>4, <1>6, <2>1, <2>2 DEF Monotone, RunSound, NotSpawned, Balance, InFlight
  <2>3. CASE x = r
    <3>1. Monotone(r)
      BY <1>1, <1>4, <1>6 DEF Monotone, NotSpawned
    <3>2. RunSound(r)'
      BY <1>1, <1>3, <1>4, <1>6 DEF RunSound, Balance, InFlight
    <3>3. QED
      BY <2>3, <3>1, <3>2
  <2>4. QED
    BY <2>2, <2>3
<1>8. QED
  BY <1>1, <1>7, WorkerKeeps

LEMMA PushSound ==
  ASSUME CInv, NEW r \in Runs, CapturePush(r)
  PROVE  Sound'
<1> DEFINE p == Push(queue[r], capture[r].made + 1, QueueCapacity)
<1>1. /\ UNCHANGED <<run, caller, lastRun, sink>> /\ capture[r].pc = "push"
      /\ queue' = [queue EXCEPT ![r] = p]
      /\ capture' = [capture EXCEPT ![r].pc = "count", ![r].pending = @ - 1,
                                    ![r].made = @ + 1, ![r].metrics = Metrics(p)]
  BY DEF CapturePush, CaptureAt
<1>2. TypeOK /\ Sound
  BY DEF CInv, OInv, IInv
<1>3. /\ RunSound(r) /\ queue[r] \in QueueOf /\ Len(queue[r].frames) <= QueueCapacity
      /\ capture[r] \in CaptureType /\ capture[r].made \in Nat /\ capture[r].made + 1 \in Nat
  BY <1>2, RunTypes, RunFields DEF Sound
<1>4. /\ p.failed = queue[r].failed /\ p.producerDone = queue[r].producerDone
      /\ ~queue[r].failed /\ ~queue[r].producerDone =>
           Len(p.frames) + p.discarded = Len(queue[r].frames) + queue[r].discarded + 1
      /\ p \in QueueOf
  BY <1>3, PushedQueue, EngineAssumption
<1> HIDE DEF p
<1>5. queue'[r] = p /\ \A x \in Runs : x # r => queue'[x] = queue[x]
  BY <1>1, <1>2 DEF TypeOK
<1>6. /\ capture'[r].made = capture[r].made + 1 /\ capture'[r].pc = "count"
      /\ \A x \in Runs : x # r => capture'[x] = capture[x]
  <2> DEFINE e == [capture[r] EXCEPT !.pc = "count", !.pending = capture[r].pending - 1,
                                     !.made = capture[r].made + 1, !.metrics = Metrics(p)]
  <2>1. capture' = [capture EXCEPT ![r] = e]
    BY <1>1, <1>2 DEF TypeOK
  <2>2. e.made = capture[r].made + 1 /\ e.pc = "count"
    BY <1>3 DEF CaptureType
  <2> HIDE DEF e
  <2>3. QED
    BY <1>2, <2>1, <2>2 DEF TypeOK
<1>7. sink[r].pc \in ServingPcs /\ ~queue'[r].failed => Balance(r)'
  <2>1. SUFFICES ASSUME sink[r].pc \in ServingPcs, ~queue'[r].failed
                 PROVE  Balance(r)'
    OBVIOUS
  <2>2. ~queue[r].failed /\ ~queue[r].producerDone
    BY <1>1, <1>3, <1>4, <1>5, <2>1 DEF RunSound
  <2>3. Balance(r)
    BY <1>3, <2>1, <2>2 DEF RunSound
  <2>4. Len(p.frames) + p.discarded = Len(queue[r].frames) + queue[r].discarded + 1
    BY <1>4, <2>2
  <2>5. /\ sink[r].sequence \in Nat /\ InFlight(r) \in Nat
        /\ Len(queue[r].frames) \in Nat /\ queue[r].discarded \in Nat
        /\ Len(p.frames) \in Nat /\ p.discarded \in Nat
    BY <1>2, <1>4, RunTypes, QueueFields DEF InFlight
  <2>6. InFlight(r)' = InFlight(r)
    BY <1>1 DEF InFlight
  <2>7. /\ capture'[r].made = capture[r].made + 1
        /\ sink'[r].sequence = sink[r].sequence
        /\ Len(queue'[r].frames) = Len(p.frames) /\ queue'[r].discarded = p.discarded
    BY <1>1, <1>5, <1>6
  <2>8. capture[r].made = sink[r].sequence + InFlight(r) + Len(queue[r].frames)
                          + queue[r].discarded
    BY <2>3 DEF Balance
  <2>9. capture[r].made + 1 = sink[r].sequence + InFlight(r) + Len(p.frames) + p.discarded
    <3> DEFINE m == capture[r].made
               a == sink[r].sequence + InFlight(r)
               l == Len(queue[r].frames)
               d == queue[r].discarded
               k == Len(p.frames)
               e == p.discarded
    <3>1. m \in Nat /\ a \in Nat /\ l \in Nat /\ d \in Nat /\ k \in Nat /\ e \in Nat
      BY <1>3, <2>5
    <3>2. m = a + l + d /\ k + e = l + d + 1
      BY <2>4, <2>8
    <3> HIDE DEF m, a, l, d, k, e
    <3>3. m + 1 = a + k + e
      BY <3>1, <3>2
    <3>4. QED
      BY <3>3 DEF m, a, k, e
  <2>10. QED
    BY <2>6, <2>7, <2>9 DEF Balance
<1>8. ASSUME NEW x \in Runs
      PROVE  Monotone(x) /\ RunSound(x)'
  <2>1. RunSound(x)
    BY <1>2 DEF Sound
  <2>2. CASE x # r
    BY <1>1, <1>5, <1>6, <2>1, <2>2 DEF Monotone, RunSound, NotSpawned, Balance, InFlight
  <2>3. CASE x = r
    <3>1. Monotone(r)
      BY <1>1, <1>4, <1>5 DEF Monotone, NotSpawned
    <3>2. RunSound(r)'
      BY <1>1, <1>3, <1>4, <1>5, <1>6, <1>7 DEF RunSound
    <3>3. QED
      BY <2>3, <3>1, <3>2
  <2>4. QED
    BY <2>2, <2>3
<1>9. QED
  BY <1>1, <1>8, WorkerKeeps

-----------------------------------------------------------------------------
(* Steps of the commands.                                                  *)

\* What is known of the caller, and of the run it holds.
LEMMA CommandFacts ==
  ASSUME CInv, NEW c \in Callers
  PROVE  /\ TypeOK /\ HandlesNamed /\ Ownership /\ Sound
         /\ caller[c] \in CallerType /\ caller[c].held \in HandleType
         /\ CommandSound(c)
         /\ Holding(c) => caller[c].held.run \in Runs /\ RunSound(caller[c].held.run)
BY CallerFields DEF CInv, OInv, IInv, Sound, Holding

\* A step that leaves queues and workers alone.
LEMMA QuietKeeps ==
  ASSUME CInv, NEW c \in Callers, CommandStep(c), UNCHANGED <<queue, sink, capture>>,
         CommandSound(c)', run' = run \/ run' = NoHandles \/ InstalledSound'
  PROVE  Sound'
<1>1. LocalTo(c)
  BY DEF LocalTo, SameRun
<1>2. ASSUME NEW x \in Runs
      PROVE  RunSound(x)'
  BY CommandFacts DEF Sound, RunSound, Balance, InFlight
<1>3. QED
  BY <1>1, <1>2, CommandKeeps

\* The caller after a step that names its record.
LEMMA BecomeCaller ==
  ASSUME CInv, NEW c \in Callers, NEW e, Become(c, e)
  PROVE  caller'[c] = e
BY CommandFacts DEF Become, TypeOK

LEMMA IdleSound ==
  ASSUME CInv, NEW c \in Callers, Return(c)
  PROVE  CommandSound(c)'
<1>1. caller'[c] = IdleCaller
  BY BecomeCaller DEF Return
<1>2. QED
  BY <1>1, FreeSound DEF IdleCaller, HoldingPcs

\* A command without handles that moves on to another such point.
LEMMA GoFreeSound ==
  ASSUME CInv, NEW c \in Callers, NEW pc, pc \notin HoldingPcs, Go(c, pc),
         caller[c].goal # "park"
  PROVE  CommandSound(c)'
<1> DEFINE e == [caller[c] EXCEPT !.pc = pc]
<1>1. e.pc = pc /\ e.goal = caller[c].goal
  BY CommandFacts DEF CallerType
<1>2. caller'[c] = e
  BY BecomeCaller DEF Go
<1> HIDE DEF e
<1>3. QED
  BY <1>1, <1>2, FreeSound

LEMMA AfterCleanupSound ==
  ASSUME CInv, NEW c \in Callers, AfterCleanup(c)
  PROVE  CommandSound(c)'
<1>1. CASE caller[c].goal = "start"
  BY <1>1, GoFreeSound DEF AfterCleanup, HoldingPcs
<1>2. CASE caller[c].goal = "stop"
  BY <1>2, GoFreeSound DEF AfterCleanup, HoldingPcs
<1>3. CASE caller[c].goal # "start" /\ caller[c].goal # "stop"
  BY <1>3, IdleSound DEF AfterCleanup
<1>4. QED
  BY <1>1, <1>2, <1>3

\* A start that gives up before the capture exists has a capture to park.
LEMMA GiveUpSound ==
  ASSUME CInv, NEW c \in Callers, NEW error, GiveUpEarly(c, error),
         UNCHANGED capture, NotSpawned(caller[c].held.run)
  PROVE  CommandSound(c)'
<1> DEFINE e == [caller[c] EXCEPT !.pc = "join_capture", !.goal = "park"]
<1>1. e.pc = "join_capture" /\ e.held = caller[c].held
  BY CommandFacts DEF CallerType
<1>2. caller'[c] = e
  BY BecomeCaller DEF GiveUpEarly
<1> HIDE DEF e
<1>3. QED
  BY <1>1, <1>2 DEF CommandSound, NotSpawned, Launching, Parking

LEMMA CleanupSound ==
  ASSUME CInv, NEW c \in Callers, CleanupSteps(c)
  PROVE  Sound'
<1>0. /\ TypeOK /\ HandlesNamed /\ Ownership /\ Sound /\ CommandSound(c)
      /\ caller[c] \in CallerType /\ caller[c].held \in HandleType
      /\ Holding(c) => caller[c].held.run \in Runs /\ RunSound(caller[c].held.run)
      /\ CommandStep(c)
  BY CommandFacts DEF CommandStep, CallerSteps
<1>1. CASE RequestStop(c)
  <2>1. caller[c].goal # "park"
    BY <1>0, <1>1 DEF RequestStop, CallerAt, CommandSound, Parking
  <2>2. CommandSound(c)'
    BY <1>1, <2>1, GoFreeSound DEF RequestStop, HoldingPcs
  <2>3. QED
    BY <1>0, <1>1, <2>2, QuietKeeps DEF RequestStop
<1>2. CASE TakeRun(c)
  <2>1. caller[c].goal # "park"
    BY <1>0, <1>2 DEF TakeRun, CallerAt, CommandSound, Parking
  <2> DEFINE e == [caller[c] EXCEPT !.pc = "join_capture", !.held = run]
  <2>2. CASE run # NoHandles /\ Become(c, e)
    <3>1. e.pc = "join_capture" /\ e.held = run /\ e.goal = caller[c].goal
      BY <1>0 DEF CallerType
    <3>2. caller'[c] = e
      BY <2>2, BecomeCaller
    <3> HIDE DEF e
    <3>3. InstalledSound /\ capture' = capture
      BY <1>0, <1>2, <2>2 DEF Sound, SlotSound, TakeRun
    <3>4. CommandSound(c)'
      BY <2>1, <3>1, <3>2, <3>3 DEF CommandSound, InstalledSound, NotSpawned, Launching
    <3>5. QED
      BY <1>0, <1>2, <3>4, QuietKeeps DEF TakeRun
  <2>3. CASE AfterCleanup(c)
    BY <1>0, <1>2, <2>3, AfterCleanupSound, QuietKeeps DEF TakeRun
  <2>4. QED
    BY <1>2, <2>2, <2>3 DEF TakeRun
<1>3. CASE JoinCapture(c)
  <2>0. PICK r : r = caller[c].held.run
    OBVIOUS
  <2>1. /\ caller[c].pc = "join_capture" /\ Holding(c) /\ r \in Runs /\ RunSound(r)
        /\ UNCHANGED <<run, sink, capture>>
    BY <1>0, <1>3, <2>0 DEF JoinCapture, CallerAt, Holding, HoldingPcs
  <2>2. PICK failed \in BOOLEAN :
          Become(c, [caller[c] EXCEPT !.pc = "join_sink", !.held.capture = FALSE,
                                      !.joinFailed = failed])
    BY <1>3 DEF JoinCapture
  <2> DEFINE h == [caller[c].held EXCEPT !.capture = FALSE]
             e == [caller[c] EXCEPT !.pc = "join_sink", !.held = h, !.joinFailed = failed]
  <2>3. Become(c, e)
    BY <1>0, <2>2 DEF Become, CallerType
  <2>4. h.run = r /\ h.sink = caller[c].held.sink
    BY <1>0, <2>0 DEF HandleType
  <2> HIDE DEF h
  <2>5. e.held = h /\ e.pc = "join_sink" /\ e.goal = caller[c].goal
    BY <1>0 DEF CallerType
  <2> HIDE DEF e
  <2>6. caller'[c] = e
    BY <2>3, BecomeCaller
  <2>7. CommandSound(c)'
    BY <1>0, <2>0, <2>1, <2>4, <2>5, <2>6 DEF CommandSound, NotSpawned, Launching, Parking
  <2>8. /\ \A x \in Runs : x # r => queue'[x] = queue[x]
        /\ \/ queue'[r] = queue[r]
           \/ queue'[r] = FinishProducer(queue[r]) /\ NotSpawned(r)
           \/ queue'[r] = Fail(queue[r])
    BY <1>0, <1>3, <2>0, <2>1 DEF JoinCapture, CommandSound, TypeOK
  <2>9. RunSound(r)'
    <3>1. queue[r] \in QueueOf
      BY <1>0, <2>1, RunTypes
    <3>2. CASE queue'[r] = queue[r]
      BY <2>1, <3>2 DEF RunSound, Balance, InFlight
    <3>3. CASE queue'[r] = FinishProducer(queue[r]) /\ NotSpawned(r)
      <4>1. /\ queue'[r].frames = queue[r].frames /\ queue'[r].failed = queue[r].failed
            /\ queue'[r].discarded = queue[r].discarded
        BY <3>1, <3>3 DEF FinishProducer, QueueOf
      <4>2. QED
        BY <2>1, <3>3, <4>1 DEF RunSound, Balance, InFlight, NotSpawned
    <3>4. CASE queue'[r] = Fail(queue[r])
      <4>1. queue'[r].failed
        BY <3>1, <3>4, ControlType
      <4>2. QED
        BY <2>1, <4>1 DEF RunSound
    <3>5. QED
      BY <2>8, <3>2, <3>3, <3>4
  <2>10. LocalTo(c)
    BY <2>0, <2>1, <2>8 DEF LocalTo, SameRun
  <2>11. QED
    BY <1>0, <2>0, <2>1, <2>7, <2>9, <2>10, CommandKeeps
<1>4. CASE JoinSink(c)
  <2>1. caller[c].pc = "join_sink" /\ UNCHANGED <<run, queue, sink, capture>>
    BY <1>4 DEF JoinSink, CallerAt
  <2> DEFINE h == [caller[c].held EXCEPT !.sink = FALSE]
             installing == [caller[c] EXCEPT !.pc = "install", !.held = h, !.joinFailed = FALSE]
             clearing == [caller[c] EXCEPT !.pc = "clear", !.held = h]
             Cleared == sink[caller[c].held.run].pc = "done" \/ NotSpawned(caller[c].held.run)
  <2>2. \/ Return(c)
        \/ Become(c, installing) /\ caller[c].goal = "park"
        \/ Become(c, clearing) /\ caller[c].goal # "park" /\ Cleared
    <3>1. caller[c].held.sink \/ NotSpawned(caller[c].held.run)
      BY <1>0, <2>1 DEF CommandSound
    <3>2. PICK failed : AfterJoin(c, failed) /\ (failed \/ Cleared)
      BY <1>4, <3>1 DEF JoinSink, SinkEnded
    <3>3. QED
      BY <1>0, <3>2 DEF AfterJoin, Become, CallerType
  <2>3. h.run = caller[c].held.run
    BY <1>0 DEF HandleType
  <2> HIDE DEF h
  <2>4. /\ installing.held = h /\ installing.pc = "install"
        /\ installing.goal = caller[c].goal
        /\ clearing.held = h /\ clearing.pc = "clear" /\ clearing.goal = caller[c].goal
    BY <1>0 DEF CallerType
  <2> HIDE DEF installing, clearing
  <2>5. CASE Return(c)
    BY <1>0, <2>1, <2>5, IdleSound, QuietKeeps
  <2>6. CASE Become(c, installing) /\ caller[c].goal = "park"
    <3>1. caller'[c] = installing
      BY <2>6, BecomeCaller
    <3>2. CommandSound(c)'
      BY <1>0, <2>1, <2>3, <2>4, <2>6, <3>1
         DEF CommandSound, NotSpawned, Launching, Parking
    <3>3. QED
      BY <1>0, <2>1, <3>2, QuietKeeps
  <2>7. CASE Become(c, clearing) /\ caller[c].goal # "park" /\ Cleared
    <3>1. caller'[c] = clearing
      BY <2>7, BecomeCaller
    <3>2. CommandSound(c)'
      BY <2>1, <2>3, <2>4, <2>7, <3>1 DEF CommandSound, NotSpawned, Launching
    <3>3. QED
      BY <1>0, <2>1, <3>2, QuietKeeps
  <2>8. QED
    BY <2>2, <2>5, <2>6, <2>7
<1>5. CASE ClearQueue(c)
  <2>0. PICK r : r = caller[c].held.run
    OBVIOUS
  <2>1. /\ caller[c].pc = "clear" /\ Holding(c) /\ r \in Runs /\ RunSound(r)
        /\ UNCHANGED <<run, sink, capture>> /\ AfterCleanup(c)
        /\ queue' = [queue EXCEPT ![r] = Clear(queue[r])]
    BY <1>0, <1>5, <2>0 DEF ClearQueue, CallerAt, Holding, HoldingPcs
  <2>2. CommandSound(c)'
    BY <2>1, AfterCleanupSound
  <2>3. LocalTo(c)
    BY <1>0, <2>0, <2>1 DEF LocalTo, SameRun, TypeOK
  <2>4. /\ queue[r] \in QueueOf /\ sink[r].sequence \in Nat /\ InFlight(r) \in Nat
        /\ Len(queue[r].frames) \in Nat /\ queue[r].discarded \in Nat
    BY <1>0, <2>1, RunTypes DEF InFlight
  <2>5. /\ queue'[r].failed = queue[r].failed
        /\ queue'[r].producerDone = queue[r].producerDone
        /\ queue'[r].discarded = queue[r].discarded
        /\ Len(queue'[r].frames) = 0
    <3>1. queue'[r] = Clear(queue[r])
      BY <1>0, <2>1 DEF TypeOK
    <3>2. Clear(queue[r]).frames = <<>>
      BY <2>4, ControlType
    <3>3. QED
      BY <2>4, <3>1, <3>2 DEF Clear, QueueOf
  <2>6. RunSound(r)'
    <3>1. sink[r].pc = "done" \/ NotSpawned(r)
      BY <1>0, <2>0, <2>1 DEF CommandSound
    <3>2. CASE sink[r].pc = "done"
      BY <2>1, <2>5, <3>2 DEF RunSound, ServingPcs
    <3>3. CASE NotSpawned(r)
      <4>1. capture[r].made = 0
        BY <2>1, <3>3 DEF RunSound, NotSpawned
      <4>2. Balance(r) => Len(queue[r].frames) = 0
        <5>1. SUFFICES ASSUME 0 = sink[r].sequence + InFlight(r) + Len(queue[r].frames)
                                  + queue[r].discarded
                       PROVE  Len(queue[r].frames) = 0
          BY <4>1 DEF Balance
        <5>2. QED
          BY <2>4, <5>1
      <4>3. Balance(r) => Balance(r)'
        BY <2>1, <2>5, <4>2 DEF Balance, InFlight
      <4>4. QED
        BY <2>1, <2>5, <4>3 DEF RunSound
    <3>4. QED
      BY <3>1, <3>2, <3>3
  <2>7. QED
    BY <1>0, <2>0, <2>1, <2>2, <2>3, <2>6, CommandKeeps
<1>6. QED
  BY <1>1, <1>2, <1>3, <1>4, <1>5 DEF CleanupSteps

LEMMA StartSound ==
  ASSUME CInv, NEW c \in Callers, StartSteps(c)
  PROVE  Sound'
<1>0. /\ TypeOK /\ HandlesNamed /\ Ownership /\ Sound /\ CommandSound(c)
      /\ caller[c] \in CallerType /\ caller[c].held \in HandleType
      /\ Holding(c) => caller[c].held.run \in Runs /\ RunSound(caller[c].held.run)
      /\ CommandStep(c)
  BY CommandFacts DEF CommandStep, CallerSteps
<1>1. CASE Resolve(c)
  <2>0. UNCHANGED <<run, queue, sink, capture>>
    BY <1>1 DEF Resolve
  <2>1. CASE Return(c)
    BY <1>0, <2>0, <2>1, IdleSound, QuietKeeps
  <2>r. PICK r : r = lastRun + 1
    OBVIOUS
  <2> DEFINE h == [NoHandles EXCEPT !.run = r]
             e == [caller[c] EXCEPT !.pc = "reset_stop", !.target = r, !.held = h]
  <2>2. CASE Become(c, e) /\ lastRun < MaxRuns
    <3>1. h.run = r
      BY DEF NoHandles
    <3>2. r \in Runs /\ r > lastRun
      BY <1>0, <2>r, <2>2, EngineAssumption DEF TypeOK, Runs
    <3>3. FreshSound(r)
      BY <1>0, <3>2 DEF Sound
    <3>4. caller[c].goal # "park"
      BY <1>0, <1>1 DEF Resolve, CallerAt, CommandSound, Parking
    <3> HIDE DEF h
    <3>5. e.held = h /\ e.pc = "reset_stop" /\ e.target = r /\ e.goal = caller[c].goal
      BY <1>0 DEF CallerType
    <3>6. caller'[c] = e
      BY <2>2, BecomeCaller
    <3> HIDE DEF e
    <3>7. CommandSound(c)'
      <4>1. caller'[c].held.run = r /\ caller'[c].target = r
        BY <3>1, <3>5, <3>6
      <4>2. /\ sink'[r].pc = "none" /\ NotSpawned(r)'
            /\ queue'[r].producerDone => queue'[r].failed
        BY <2>0, <3>2, <3>3 DEF FreshSound, NotSpawned
      <4>3. caller'[c].pc = "reset_stop" /\ caller'[c].goal # "park"
        BY <3>4, <3>5, <3>6
      <4>4. QED
        BY <4>1, <4>2, <4>3 DEF CommandSound
    <3>8. QED
      BY <1>0, <2>0, <3>7, QuietKeeps
  <2>3. QED
    BY <1>1, <2>r, <2>1, <2>2 DEF Resolve
<1>2. CASE ResetStop(c) \/ ResetFailure(c)
  <2>1. PICK pc \in {"reset_failure", "spawn_sink"} :
          Become(c, [caller[c] EXCEPT !.pc = pc])
    BY <1>2 DEF ResetStop, ResetFailure, Go
  <2> DEFINE e == [caller[c] EXCEPT !.pc = pc]
  <2>2. /\ e.pc = pc /\ e.held = caller[c].held /\ e.target = caller[c].target
        /\ e.goal = caller[c].goal
    BY <1>0 DEF CallerType
  <2>3. caller'[c] = e
    BY <2>1, BecomeCaller
  <2> HIDE DEF e
  <2>4. UNCHANGED <<run, queue, sink, capture>> /\ caller[c].pc \in {"reset_stop", "reset_failure"}
    BY <1>2 DEF ResetStop, ResetFailure, CallerAt
  <2>5. CommandSound(c)'
    BY <1>0, <2>1, <2>2, <2>3, <2>4 DEF CommandSound, NotSpawned, Launching, Parking
  <2>6. QED
    BY <1>0, <2>4, <2>5, QuietKeeps
<1>3. CASE SpawnSink(c)
  <2>0. caller[c].pc = "spawn_sink" /\ Holding(c) /\ UNCHANGED <<run, queue, capture>>
    BY <1>3 DEF SpawnSink, CallerAt, Holding, HoldingPcs
  <2>1. CASE Return(c) /\ sink' = sink
    BY <1>0, <2>0, <2>1, IdleSound, QuietKeeps
  <2>r. PICK r : r = caller[c].held.run
    OBVIOUS
  <2> DEFINE h == [caller[c].held EXCEPT !.sink = TRUE]
             e == [caller[c] EXCEPT !.pc = "wait_sink", !.held = h]
  <2>2. CASE /\ Become(c, [caller[c] EXCEPT !.pc = "wait_sink", !.held.sink = TRUE])
             /\ sink' = [sink EXCEPT ![caller[c].target].pc = "open"]
    <3>1. Become(c, e)
      BY <1>0, <2>2 DEF Become, CallerType
    <3>2. h.run = r /\ h.sink
      BY <1>0, <2>r DEF HandleType
    <3> HIDE DEF h
    <3>3. /\ e.held = h /\ e.pc = "wait_sink" /\ e.target = caller[c].target
          /\ e.goal = caller[c].goal
      BY <1>0 DEF CallerType
    <3> HIDE DEF e
    <3>4. caller'[c] = e
      BY <3>1, BecomeCaller
    <3>5. /\ caller[c].target = r /\ sink[r].pc = "none" /\ r \in Runs /\ RunSound(r)
          /\ caller[c].goal # "park"
      BY <1>0, <2>r, <2>0 DEF CommandSound, Launching, Parking
    <3>6. CommandSound(c)'
      BY <1>0, <2>r, <2>0, <3>2, <3>3, <3>4, <3>5 DEF CommandSound, NotSpawned, Launching
    <3>7. /\ sink'[r].pc = "open" /\ sink'[r].sequence = sink[r].sequence
          /\ \A x \in Runs : x # r => sink'[x] = sink[x]
      BY <1>0, <2>2, <3>5 DEF TypeOK, SinkType
    <3>8. RunSound(r)'
      BY <2>0, <3>5, <3>7 DEF RunSound, Balance, InFlight, ServingPcs
    <3>9. LocalTo(c)
      BY <2>r, <2>0, <3>7 DEF LocalTo, SameRun
    <3>10. QED
      BY <1>0, <2>r, <2>0, <3>6, <3>8, <3>9, CommandKeeps
  <2>3. QED
    BY <1>3, <2>1, <2>2 DEF SpawnSink
<1>4. CASE WaitSink(c)
  <2>0. caller[c].pc = "wait_sink" /\ UNCHANGED <<run, queue, sink, capture>>
    BY <1>4 DEF WaitSink, CallerAt
  <2>1. CASE Go(c, "spawn_capture")
    <3> DEFINE e == [caller[c] EXCEPT !.pc = "spawn_capture"]
    <3>1. /\ e.pc = "spawn_capture" /\ e.held = caller[c].held
          /\ e.target = caller[c].target /\ e.goal = caller[c].goal
      BY <1>0 DEF CallerType
    <3>2. caller'[c] = e
      BY <2>1, BecomeCaller DEF Go
    <3> HIDE DEF e
    <3>3. CommandSound(c)'
      BY <1>0, <2>0, <3>1, <3>2 DEF CommandSound, NotSpawned, Launching, Parking
    <3>4. QED
      BY <1>0, <2>0, <3>3, QuietKeeps
  <2>2. ASSUME NEW error, GiveUpEarly(c, error)
        PROVE  Sound'
    <3>1. NotSpawned(caller[c].held.run)
      BY <1>0, <2>0 DEF CommandSound, Launching
    <3>2. QED
      BY <1>0, <2>0, <2>2, <3>1, GiveUpSound, QuietKeeps
  <2>3. QED
    BY <1>4, <2>1, <2>2 DEF WaitSink
<1>5. CASE SpawnCapture(c)
  <2>r. PICK r : r = caller[c].held.run
    OBVIOUS
  <2> DEFINE h == [caller[c].held EXCEPT !.capture = TRUE]
             e == [caller[c] EXCEPT !.pc = "install", !.held = h]
  <2>0. /\ caller[c].pc = "spawn_capture" /\ Holding(c) /\ UNCHANGED <<run, queue, sink>>
        /\ caller[c].target = r /\ r \in Runs /\ RunSound(r) /\ NotSpawned(r)
        /\ caller[c].held.sink /\ caller[c].goal # "park"
        /\ queue[r].producerDone => queue[r].failed
    <3>1. caller[c].pc = "spawn_capture" /\ UNCHANGED <<run, queue, sink>>
      BY <1>5 DEF SpawnCapture, CallerAt
    <3>2. QED
      BY <1>0, <2>r, <3>1 DEF Holding, HoldingPcs, CommandSound, Launching, Parking
  <2>1. CASE GiveUpEarly(c, "WorkerFailure") /\ capture' = capture
    BY <1>0, <2>r, <2>0, <2>1, GiveUpSound, QuietKeeps
  <2>2. CASE /\ Become(c, [caller[c] EXCEPT !.pc = "install", !.held.capture = TRUE])
             /\ capture' = [capture EXCEPT ![caller[c].target].pc = "open"]
    <3>1. Become(c, e)
      BY <1>0, <2>2 DEF Become, CallerType
    <3>2. h.run = r /\ h.capture /\ h.sink
      BY <1>0, <2>r, <2>0 DEF HandleType
    <3> HIDE DEF h
    <3>3. e.held = h /\ e.pc = "install" /\ e.goal = caller[c].goal
      BY <1>0 DEF CallerType
    <3> HIDE DEF e
    <3>4. caller'[c] = e
      BY <3>1, BecomeCaller
    <3>5. CommandSound(c)'
      BY <2>0, <3>2, <3>3, <3>4 DEF CommandSound, Launching
    <3>6. /\ capture'[r].pc = "open" /\ capture'[r].made = capture[r].made
          /\ \A x \in Runs : x # r => capture'[x] = capture[x]
      BY <1>0, <2>0, <2>2 DEF TypeOK, CaptureType
    <3>7. RunSound(r)'
      BY <2>0, <3>6 DEF RunSound, Balance, InFlight, NotSpawned
    <3>8. LocalTo(c)
      BY <2>r, <2>0, <3>6 DEF LocalTo, SameRun
    <3>9. QED
      BY <1>0, <2>r, <2>0, <3>5, <3>7, <3>8, CommandKeeps
  <2>3. QED
    BY <1>5, <2>1, <2>2 DEF SpawnCapture
<1>6. CASE InstallRun(c)
  <2>0. /\ caller[c].pc = "install" /\ run' = caller[c].held
        /\ UNCHANGED <<queue, sink, capture>>
    BY <1>6 DEF InstallRun, CallerAt
  <2>1. InstalledSound'
    BY <1>0, <2>0 DEF CommandSound, InstalledSound, NotSpawned
  <2> DEFINE e == [caller[c] EXCEPT !.pc = "wait_capture", !.held = NoHandles]
  <2>2. Return(c) \/ (Become(c, e) /\ caller[c].goal # "park")
    BY <1>6 DEF InstallRun
  <2>3. e.pc = "wait_capture" /\ e.goal = caller[c].goal
    BY <1>0 DEF CallerType
  <2> HIDE DEF e
  <2>4. CASE Become(c, e) /\ caller[c].goal # "park"
    <3>1. caller'[c] = e
      BY <2>4, BecomeCaller
    <3>2. CommandSound(c)'
      BY <2>3, <2>4, <3>1, FreeSound DEF HoldingPcs
    <3>3. QED
      BY <1>0, <2>0, <2>1, <3>2, QuietKeeps
  <2>5. CASE Return(c)
    BY <1>0, <2>0, <2>1, <2>5, IdleSound, QuietKeeps
  <2>6. QED
    BY <2>2, <2>4, <2>5
<1>7. CASE WaitCapture(c)
  <2>0. /\ caller[c].pc = "wait_capture" /\ caller[c].goal # "park"
        /\ UNCHANGED <<run, queue, sink, capture>>
    BY <1>0, <1>7 DEF WaitCapture, CallerAt, CommandSound, Parking
  <2> DEFINE e == [caller[c] EXCEPT !.pc = "request_stop", !.goal = "abort"]
  <2>1. Go(c, "finish_start") \/ Become(c, e)
    BY <1>7 DEF WaitCapture
  <2>2. e.pc = "request_stop" /\ e.goal = "abort"
    BY <1>0 DEF CallerType
  <2> HIDE DEF e
  <2>3. CASE Become(c, e)
    <3>1. caller'[c] = e
      BY <2>3, BecomeCaller
    <3>2. CommandSound(c)'
      BY <2>2, <3>1, FreeSound DEF HoldingPcs
    <3>3. QED
      BY <1>0, <2>0, <3>2, QuietKeeps
  <2>4. CASE Go(c, "finish_start")
    BY <1>0, <2>0, <2>4, GoFreeSound, QuietKeeps DEF HoldingPcs
  <2>5. QED
    BY <2>1, <2>3, <2>4
<1>8. CASE FinishStart(c)
  BY <1>0, <1>8, IdleSound, QuietKeeps DEF FinishStart
<1>9. QED
  BY <1>1, <1>2, <1>3, <1>4, <1>5, <1>6, <1>7, <1>8 DEF StartSteps

LEMMA BeginSound ==
  ASSUME CInv, NEW c \in Callers,
         BeginStart(c) \/ BeginStop(c) \/ SetStopping(c) \/ SetStopped(c)
  PROVE  Sound'
<1>0. caller[c] \in CallerType /\ CommandSound(c) /\ CommandStep(c)
  BY CommandFacts DEF CommandStep, CallerSteps
<1>1. UNCHANGED <<run, queue, sink, capture>>
  BY DEF BeginStart, BeginStop, SetStopping, SetStopped
<1>2. CASE BeginStart(c) \/ BeginStop(c)
  <2>1. PICK pc \in CallerPcs \ HoldingPcs, goal \in {"start", "stop"} :
          Become(c, [caller[c] EXCEPT !.pc = pc, !.goal = goal])
    BY <1>2 DEF BeginStart, BeginStop, CallerPcs, HoldingPcs
  <2> DEFINE e == [caller[c] EXCEPT !.pc = pc, !.goal = goal]
  <2>2. e.pc = pc /\ e.goal = goal
    BY <1>0 DEF CallerType
  <2>3. caller'[c] = e
    BY <2>1, BecomeCaller
  <2> HIDE DEF e
  <2>4. CommandSound(c)'
    BY <2>1, <2>2, <2>3, FreeSound
  <2>5. QED
    BY <1>0, <1>1, <2>4, QuietKeeps
<1>3. CASE SetStopping(c)
  <2>1. caller[c].goal # "park"
    BY <1>0, <1>3 DEF SetStopping, CallerAt, CommandSound, Parking
  <2>2. QED
    BY <1>0, <1>1, <1>3, <2>1, GoFreeSound, QuietKeeps DEF SetStopping, HoldingPcs
<1>4. CASE SetStopped(c)
  BY <1>0, <1>1, <1>4, IdleSound, QuietKeeps DEF SetStopped
<1>5. QED
  BY <1>2, <1>3, <1>4

-----------------------------------------------------------------------------
(* The theorem.                                                            *)

LEMMA InitCInv == Init => CInv
<1> SUFFICES ASSUME Init
             PROVE  Sound
  BY InitOwns DEF CInv
<1>1. ASSUME NEW c \in Callers
      PROVE  CommandSound(c)
  BY DEF Init, CommandSound, IdleCaller, Launching
<1>2. ASSUME NEW r \in Runs
      PROVE  FreshSound(r) /\ RunSound(r)
  <2>1. /\ queue[r].producerDone = FALSE /\ queue[r].discarded = 0
        /\ Len(queue[r].frames) = 0
    BY EmptySeq DEF Init, NewQueue
  <2>2. sink[r] = NewSink /\ capture[r] = NewCapture
    BY DEF Init
  <2>3. sink[r].pc = "none" /\ sink[r].sequence = 0 /\ capture[r].pc = "none"
        /\ capture[r].made = 0
    BY <2>2 DEF NewSink, NewCapture
  <2>4. InFlight(r) = 0
    BY <2>3 DEF InFlight
  <2>5. QED
    BY <2>1, <2>3, <2>4 DEF FreshSound, RunSound, Balance, NotSpawned
<1>3. SlotSound
  BY DEF Init, SlotSound
<1>4. QED
  BY <1>1, <1>2, <1>3 DEF Sound

LEMMA NextCInv == CInv /\ [Next]_vars => CInv'
<1> SUFFICES ASSUME CInv, [Next]_vars
             PROVE  Sound'
  BY NextOwns DEF CInv
<1>1. ASSUME NEW c \in Callers, CommandStep(c)
      PROVE  Sound'
  BY <1>1, BeginSound, StartSound, CleanupSound DEF CommandStep, CallerSteps
<1>2. ASSUME NEW r \in Runs, SinkNext(r)
      PROVE  Sound'
  BY <1>2, SinkMoved, PopSound
<1>3. ASSUME NEW r \in Runs, CaptureNext(r)
      PROVE  Sound'
  BY <1>3, CaptureMoved, PushSound
<1>4. ASSUME NEW t \in Threads, RecordFailure(t)
      PROVE  Sound'
  BY <1>4, FailureSound
<1>5. CASE UNCHANGED vars
  BY <1>5 DEF CInv, Sound, SlotSound, InstalledSound, CommandSound, FreshSound, RunSound,
              Balance, InFlight, NotSpawned, vars
<1>6. QED
  BY <1>1, <1>2, <1>3, <1>4, <1>5 DEF Next, CommandStep

\* While the output worker of a run serves a queue that has not failed, every
\* captured frame is accepted, being written, queued, or counted as discarded
\* (FrameQueue::push and pop, sink_worker, join_run, cleanup_previous_run):
\* no concurrent stop or start clears a queue that is still being served.
THEOREM ConservationCorrect == Spec => []FrameConservation
<1>1. CInv => FrameConservation
  <2> SUFFICES ASSUME CInv, NEW r \in Runs, Serving(r), ~queue[r].failed
               PROVE  Balance(r)
    BY DEF FrameConservation, Balance
  <2>1. RunSound(r)
    BY DEF CInv, Sound
  <2>2. QED
    BY <2>1 DEF RunSound, Serving, ServingPcs
<1>2. QED
  BY <1>1, InitCInv, NextCInv, PTL DEF Spec
=============================================================================
