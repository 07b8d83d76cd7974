---------------------------- MODULE BypassProofs ----------------------------
(***************************************************************************)
(* Theorems about BypassEngine for every set of callers, every bound and   *)
(* every set of environment faults: concurrent commands and workers that   *)
(* outlive a join are covered.                                             *)
(***************************************************************************)
EXTENDS BypassEngine, SequenceTheorems, TLAPS

-----------------------------------------------------------------------------
(* What the queue operators return, for every capacity and every state of  *)
(* a queue of numbered frames.                                             *)

QueueOf ==
  [frames : Seq(Nat), producerDone : BOOLEAN, failed : BOOLEAN, discarded : Nat]

\* Frame numbers that strictly increase from the oldest to the newest.
Increasing(s) == \A i, j \in 1..Len(s) : i < j => s[i] < s[j]

\* The fields of a queue have their types.
LEMMA QueueFields ==
  ASSUME NEW q \in QueueOf
  PROVE  /\ q.frames \in Seq(Nat)
         /\ q.producerDone \in BOOLEAN
         /\ q.failed \in BOOLEAN
         /\ q.discarded \in Nat
         /\ Len(q.frames) \in Nat
<1>1. q.frames \in Seq(Nat)
  BY DEF QueueOf
<1>2. q.producerDone \in BOOLEAN /\ q.failed \in BOOLEAN /\ q.discarded \in Nat
  BY DEF QueueOf
<1>3. QED
  BY <1>1, <1>2, LenProperties

\* A new queue is a queue, and an empty one.
LEMMA NewQueueType == NewQueue \in QueueOf /\ NewQueue.frames = <<>>
<1>1. <<>> \in Seq(Nat)
  BY EmptySeq
<1>2. QED
  BY <1>1 DEF NewQueue, QueueOf

\* Replacing the frames of a queue changes nothing else.
LEMMA ReplacedFrames ==
  ASSUME NEW q \in QueueOf, NEW s \in Seq(Nat)
  PROVE  LET p == [q EXCEPT !.frames = s]
         IN /\ p \in QueueOf
            /\ p.frames = s
            /\ p.failed = q.failed
            /\ p.producerDone = q.producerDone
            /\ p.discarded = q.discarded
BY DEF QueueOf

\* Failing, finishing and clearing keep a queue a queue; what is not emptied
\* is left alone.
LEMMA ControlType ==
  ASSUME NEW q \in QueueOf
  PROVE  /\ Fail(q) \in QueueOf /\ Fail(q).frames = <<>> /\ Fail(q).failed
         /\ Clear(q) \in QueueOf /\ Clear(q).frames = <<>>
         /\ FinishProducer(q) \in QueueOf /\ FinishProducer(q).frames = q.frames
<1>0. <<>> \in Seq(Nat)
  BY EmptySeq
<1>1. Clear(q) \in QueueOf /\ Clear(q).frames = <<>>
  BY <1>0, ReplacedFrames DEF Clear
<1>2. FinishProducer(q) \in QueueOf /\ FinishProducer(q).frames = q.frames
  BY DEF FinishProducer, QueueOf
<1>3. Fail(q) \in QueueOf
  BY <1>0 DEF Fail, QueueOf
<1>4. Fail(q).frames = <<>>
  BY DEF Fail, QueueOf
<1>5. Fail(q).failed = TRUE
  BY DEF Fail, QueueOf
<1>6. QED
  BY <1>1, <1>2, <1>3, <1>4, <1>5

\* Dropping the head of a sequence shifts the rest by one.
LEMMA Shifted ==
  ASSUME NEW s \in Seq(Nat), s # <<>>
  PROVE  /\ Head(s) \in Nat /\ Head(s) = s[1]
         /\ Len(s) \in Nat /\ Len(s) >= 1
         /\ Tail(s) \in Seq(Nat) /\ Len(Tail(s)) = Len(s) - 1
         /\ \A i \in 1..(Len(s) - 1) : Tail(s)[i] = s[i + 1]
<1>1. /\ Head(s) \in Nat /\ Tail(s) \in Seq(Nat) /\ Len(Tail(s)) = Len(s) - 1
      /\ \A i \in 1..Len(Tail(s)) : Tail(s)[i] = s[i + 1]
  BY HeadTailProperties
<1>2. Len(s) \in Nat /\ Len(s) # 0
  BY LenProperties, EmptySeq
<1>3. Head(s) = s[1]
  OBVIOUS
<1>4. QED
  BY <1>1, <1>2, <1>3

\* Handing out the oldest frame of an increasing queue leaves an increasing
\* queue of later frames.
LEMMA PoppedQueue ==
  ASSUME NEW q \in QueueOf, PopResult(q) = "Frame"
  PROVE  /\ Popped(q) \in QueueOf
         /\ Popped(q).frames = Tail(q.frames)
         /\ q.frames # <<>>
         /\ ~q.failed
         /\ Popped(q).discarded = q.discarded
<1>1. q.frames # <<>> /\ ~q.failed
  BY DEF PopResult, QueueOf
<1>2. Tail(q.frames) \in Seq(Nat)
  BY <1>1, QueueFields, Shifted
<1>3. QED
  BY <1>1, <1>2, ReplacedFrames DEF Popped

\* Making room leaves less than the capacity, and counts what it drops.
LEMMA MadeRoom ==
  ASSUME NEW q \in QueueOf, NEW cap \in Nat \ {0}, Len(q.frames) <= cap
  PROVE  LET m == MakeRoom(q, cap)
         IN /\ m \in QueueOf
            /\ Len(m.frames) < cap
            /\ Len(m.frames) + m.discarded = Len(q.frames) + q.discarded
            /\ m.failed = q.failed
            /\ m.producerDone = q.producerDone
            /\ \/ m.frames = q.frames
               \/ q.frames # <<>> /\ m.frames = Tail(q.frames)
<1>0. q.frames \in Seq(Nat) /\ Len(q.frames) \in Nat /\ q.discarded \in Nat
  BY QueueFields
<1>1. CASE Len(q.frames) = cap
  <2>1. q.frames # <<>>
    BY <1>1, <1>0, EmptySeq
  <2>2. Tail(q.frames) \in Seq(Nat) /\ Len(Tail(q.frames)) = Len(q.frames) - 1
    BY <2>1, <1>0, Shifted
  <2> DEFINE t == Tail(q.frames)
             k == q.discarded + 1
  <2>3. MakeRoom(q, cap) = [q EXCEPT !.frames = t, !.discarded = k]
    BY <1>1 DEF MakeRoom, QueueOf
  <2>4. t \in Seq(Nat) /\ k \in Nat
    BY <2>2, <1>0
  <2> HIDE DEF t, k
  <2>5. [q EXCEPT !.frames = t, !.discarded = k] \in QueueOf
    BY <2>4 DEF QueueOf
  <2>6. LET m == [q EXCEPT !.frames = t, !.discarded = k]
        IN /\ m.frames = t /\ m.discarded = k
           /\ m.failed = q.failed /\ m.producerDone = q.producerDone
    BY DEF QueueOf
  <2>7. QED
    BY <1>0, <1>1, <2>1, <2>2, <2>3, <2>5, <2>6 DEF t, k
<1>2. CASE Len(q.frames) # cap
  BY <1>0, <1>2 DEF MakeRoom
<1>3. QED
  BY <1>1, <1>2

\* A push never exceeds the capacity, and an accepted frame is the last one.
LEMMA PushedQueue ==
  ASSUME NEW q \in QueueOf, NEW cap \in Nat \ {0}, Len(q.frames) <= cap,
         NEW f \in Nat
  PROVE  LET m == MakeRoom(q, cap)
             p == Push(q, f, cap)
         IN /\ p \in QueueOf
            /\ Len(p.frames) <= cap
            /\ p.failed = q.failed
            /\ p.producerDone = q.producerDone
            /\ q.failed \/ q.producerDone => p = q
            /\ ~q.failed /\ ~q.producerDone =>
                 /\ p.frames = Append(m.frames, f)
                 /\ Len(p.frames) + p.discarded = Len(q.frames) + q.discarded + 1
<1> DEFINE m == MakeRoom(q, cap)
           p == Push(q, f, cap)
<1>1. /\ m \in QueueOf /\ Len(m.frames) < cap
      /\ Len(m.frames) + m.discarded = Len(q.frames) + q.discarded
      /\ m.failed = q.failed /\ m.producerDone = q.producerDone
  BY MadeRoom
<1>2. CASE q.failed \/ q.producerDone
  BY <1>2 DEF Push
<1>3. CASE ~(q.failed \/ q.producerDone)
  <2>1. p = [m EXCEPT !.frames = Append(m.frames, f)]
    BY <1>3, <1>1 DEF Push, QueueOf
  <2> HIDE DEF m, p
  <2>2. m.frames \in Seq(Nat) /\ Len(m.frames) \in Nat /\ m.discarded \in Nat
    BY <1>1, QueueFields
  <2>3. /\ Append(m.frames, f) \in Seq(Nat)
        /\ Len(Append(m.frames, f)) = Len(m.frames) + 1
    BY <2>2, AppendProperties
  <2>4. /\ p \in QueueOf /\ p.frames = Append(m.frames, f) /\ p.failed = m.failed
        /\ p.producerDone = m.producerDone /\ p.discarded = m.discarded
    BY <2>1, <2>3, <1>1, ReplacedFrames
  <2>5. q.discarded \in Nat /\ Len(q.frames) \in Nat
    BY QueueFields
  <2>6. Len(p.frames) = Len(m.frames) + 1
    BY <2>3, <2>4
  <2>7. Len(p.frames) <= cap
    BY <1>1, <2>2, <2>6
  <2>8. Len(p.frames) + p.discarded = Len(q.frames) + q.discarded + 1
    <3>1. Len(m.frames) + m.discarded = Len(q.frames) + q.discarded
      BY <1>1
    <3>2. p.discarded = m.discarded
      BY <2>4
    <3>3. QED
      BY <2>2, <2>6, <3>1, <3>2, <2>5
  <2>9. QED
    BY <1>1, <1>3, <2>4, <2>7, <2>8 DEF m, p
<1>4. QED
  BY <1>2, <1>3

-----------------------------------------------------------------------------
(* The inductive invariant.  TypeOK alone is not inductive: clear() needs  *)
(* to know that the caller really holds a run, and the emit closure that a *)
(* frame is pending.                                                       *)

\* Handles, installed or held by a command, name a run.
HandlesNamed ==
  /\ run = NoHandles \/ run.run \in Runs
  /\ \A c \in Callers : caller[c].pc \in HoldingPcs => caller[c].held.run \in Runs

\* A capture about to push has a frame to push.
PushPending ==
  \A r \in Runs : capture[r].pc = "push" => capture[r].pending > 0

IInv == TypeOK /\ HandlesNamed /\ PushPending /\ CaptureOrder

-----------------------------------------------------------------------------
(* Types of updated functions.                                             *)

\* Entering record_failure keeps the fault of every thread well typed.
LEMMA RaiseType ==
  ASSUME TypeOK, NEW t, NEW e \in Errors, NEW x \in MaybeRun, Raise(t, e, x)
  PROVE  fault' \in [Threads -> FaultType]
BY DEF TypeOK, Raise, FaultType

\* Replacing the queue of one run by a queue within the capacity.
LEMMA QueueType1 ==
  ASSUME TypeOK, NEW r, NEW q \in QueueType, Len(q.frames) <= QueueCapacity,
         queue' = [queue EXCEPT ![r] = q]
  PROVE  /\ queue' \in [Runs -> QueueType]
         /\ \A x \in Runs : Len(queue'[x].frames) <= QueueCapacity
BY DEF TypeOK

\* The control methods of the queue keep every queue within its type and
\* capacity, whether or not r is a run.
LEMMA ControlledQueue ==
  ASSUME TypeOK, NEW r,
         \/ queue' = [queue EXCEPT ![r] = FinishProducer(@)]
         \/ queue' = [queue EXCEPT ![r] = Fail(@)]
         \/ queue' = [queue EXCEPT ![r] = Clear(@)]
  PROVE  /\ queue' \in [Runs -> QueueType]
         /\ \A x \in Runs : /\ Len(queue'[x].frames) <= QueueCapacity
                            /\ \/ queue'[x].frames = queue[x].frames
                               \/ queue'[x].frames = <<>>
<1>1. QueueType = QueueOf
  BY DEF QueueType, QueueOf
<1>2. Len(<<>>) = 0 /\ QueueCapacity \in Nat
  BY EmptySeq, EngineAssumption
<1>3. CASE r \in Runs
  <2>1. queue[r] \in QueueOf /\ Len(queue[r].frames) <= QueueCapacity
    BY <1>1, <1>3 DEF TypeOK
  <2>2. PICK q \in {FinishProducer(queue[r]), Fail(queue[r]), Clear(queue[r])} :
          queue' = [queue EXCEPT ![r] = q]
    OBVIOUS
  <2>3. /\ q \in QueueOf
        /\ q.frames = queue[r].frames \/ q.frames = <<>>
    BY <2>1, <2>2, ControlType
  <2>4. Len(q.frames) <= QueueCapacity
    BY <1>2, <2>1, <2>3
  <2>5. /\ queue' \in [Runs -> QueueType]
        /\ \A x \in Runs : Len(queue'[x].frames) <= QueueCapacity
    BY <1>1, <2>2, <2>3, <2>4, QueueType1
  <2>6. \A x \in Runs : queue'[x].frames = queue[x].frames \/ queue'[x].frames = <<>>
    BY <2>2, <2>3 DEF TypeOK
  <2>7. QED
    BY <2>5, <2>6
<1>4. CASE r \notin Runs
  <2>1. queue' = queue
    BY <1>4 DEF TypeOK
  <2>2. QED
    BY <2>1 DEF TypeOK
<1>5. QED
  BY <1>3, <1>4

-----------------------------------------------------------------------------
(* Type correctness, one step per action.                                  *)

LEMMA FailureStepType ==
  ASSUME TypeOK, NEW t \in Threads, RecordFailure(t)
  PROVE  TypeOK'
<1>1. CASE Exchange(t)
  <2>1. fault' \in [Threads -> FaultType]
    BY <1>1 DEF TypeOK, Exchange, FaultType, NoFault, Errors, MaybeRun
  <2>2. QED
    BY <1>1, <2>1 DEF TypeOK, Exchange
<1>2. CASE FailQueue(t)
  <2>1. fault' \in [Threads -> FaultType]
    BY <1>2 DEF TypeOK, FailQueue, FaultType
  <2>2. /\ queue' \in [Runs -> QueueType]
        /\ \A x \in Runs : Len(queue'[x].frames) <= QueueCapacity
    BY <1>2, ControlledQueue DEF FailQueue
  <2>3. QED
    BY <1>2, <2>1, <2>2 DEF TypeOK, FailQueue
<1>3. CASE Publish(t)
  <2>1. fault' \in [Threads -> FaultType]
    BY <1>3 DEF TypeOK, Publish, FaultType, NoFault, Errors, MaybeRun
  <2>2. fault[t].error \in Errors
    BY DEF TypeOK, FaultType
  <2>3. snapshot' \in SnapshotType
    BY <1>3, <2>2 DEF TypeOK, Publish, SnapshotType, States
  <2>4. QED
    BY <1>3, <2>1, <2>3 DEF TypeOK, Publish
<1>4. CASE RaiseStop(t)
  <2>1. fault' \in [Threads -> FaultType]
    BY <1>4 DEF TypeOK, RaiseStop, FaultType
  <2>2. QED
    BY <1>4, <2>1 DEF TypeOK, RaiseStop
<1>5. QED
  BY <1>1, <1>2, <1>3, <1>4 DEF RecordFailure

LEMMA SinkStepType ==
  ASSUME TypeOK, NEW r \in Runs, SinkNext(r)
  PROVE  TypeOK'
<1> USE DEF SinkType, SinkPcs
<1>0. r \in MaybeRun /\ "SinkFailure" \in Errors
  BY DEF MaybeRun, Errors
<1>1. CASE SinkOpen(r)
  <2> DEFINE pc == IF Listening(r) THEN "loop" ELSE "done"
  <2>0. pc \in SinkPcs
    OBVIOUS
  <2>1. \/ sink' = [sink EXCEPT ![r].pc = "done", ![r].ready = "error"]
        \/ sink' = [sink EXCEPT ![r].pc = pc, ![r].ready = "ok"]
    BY <1>1 DEF SinkOpen
  <2> HIDE DEF pc
  <2>3. sink' \in [Runs -> SinkType]
    <3>1. CASE sink' = [sink EXCEPT ![r].pc = "done", ![r].ready = "error"]
      BY <3>1, ZenonT(60) DEF TypeOK, ReadyValues
    <3>2. CASE sink' = [sink EXCEPT ![r].pc = pc, ![r].ready = "ok"]
      BY <2>0, <3>2, ZenonT(60) DEF TypeOK, ReadyValues
    <3>3. QED
      BY <2>1, <3>1, <3>2
  <2>2. QED
    BY <1>1, <2>3 DEF TypeOK, SinkOpen
<1>2. CASE SinkPop(r)
  <2>1. CASE PopResult(queue[r]) = "Frame"
    <3>1. queue[r] \in QueueOf /\ Len(queue[r].frames) <= QueueCapacity
      BY DEF TypeOK, QueueType, QueueOf
    <3>2. queue[r].frames \in Seq(Nat) /\ queue[r].frames # <<>>
      BY <3>1, <2>1, QueueFields, PoppedQueue
    <3>3. /\ Popped(queue[r]) \in QueueType
          /\ Popped(queue[r]).frames = Tail(queue[r].frames)
      BY <3>1, <2>1, PoppedQueue DEF QueueType, QueueOf
    <3>4. Len(Popped(queue[r]).frames) <= QueueCapacity
      BY <3>1, <3>2, <3>3, Shifted, EngineAssumption
    <3>5. /\ sink' = [sink EXCEPT ![r].pc = "write", ![r].frame = Head(queue[r].frames)]
          /\ queue' = [queue EXCEPT ![r] = Popped(queue[r])]
      BY <1>2, <2>1 DEF SinkPop
    <3>6. Head(queue[r].frames) \in Nat
      BY <3>2, Shifted
    <3>7. sink' \in [Runs -> SinkType]
      BY <3>5, <3>6 DEF TypeOK
    <3>8. /\ queue' \in [Runs -> QueueType]
          /\ \A x \in Runs : Len(queue'[x].frames) <= QueueCapacity
      BY <3>3, <3>4, <3>5, QueueType1
    <3>9. QED
      BY <1>2, <3>7, <3>8 DEF TypeOK, SinkPop
  <2>2. CASE PopResult(queue[r]) # "Frame"
    <3>1. sink' \in [Runs -> SinkType] /\ UNCHANGED queue
      BY <1>2, <2>2 DEF TypeOK, SinkPop
    <3>2. QED
      BY <1>2, <3>1 DEF TypeOK, SinkPop
  <2>3. QED
    BY <2>1, <2>2
<1>3. CASE SinkAccepts(r)
  <2> DEFINE pc == IF (sink[r].sequence + 1) % RefreshEvery = 0 THEN "refresh" ELSE "loop"
  <2>0. pc \in SinkPcs
    OBVIOUS
  <2>3. sink' = [sink EXCEPT ![r].pc = pc, ![r].sequence = @ + 1]
    BY <1>3 DEF SinkAccepts
  <2> HIDE DEF pc
  <2>1. sink' \in [Runs -> SinkType]
    BY <2>0, <2>3 DEF TypeOK
  <2>2. snapshot' \in SnapshotType
    <3>1. snapshot' = [snapshot EXCEPT !.accepted = snapshot.accepted + 1]
      BY <1>3 DEF SinkAccepts
    <3>2. snapshot \in SnapshotType
      BY DEF TypeOK
    <3>3. QED
      BY <3>1, <3>2 DEF SnapshotType
  <2>4. QED
    BY <1>3, <2>1, <2>2 DEF TypeOK, SinkAccepts
<1>4. CASE SinkFails(r)
  <2>1. sink' \in [Runs -> SinkType]
    BY <1>4 DEF TypeOK, SinkFails
  <2>2. fault' \in [Threads -> FaultType]
    BY <1>0, <1>4, RaiseType DEF SinkFails
  <2>3. QED
    BY <1>4, <2>1, <2>2 DEF TypeOK, SinkFails
<1>5. CASE SinkRefreshed(r)
  <2>1. sink' \in [Runs -> SinkType]
    BY <1>5 DEF TypeOK, SinkRefreshed
  <2>2. QED
    BY <1>5, <2>1 DEF TypeOK, SinkRefreshed
<1>6. CASE SinkClose(r)
  <2>1. sink' \in [Runs -> SinkType]
    BY <1>6 DEF TypeOK, SinkClose
  <2>2. fault' \in [Threads -> FaultType]
    BY <1>0, <1>6, RaiseType DEF SinkClose, TypeOK
  <2>3. QED
    BY <1>6, <2>1, <2>2 DEF TypeOK, SinkClose
<1>7. CASE SinkFinal(r)
  <2>1. sink' \in [Runs -> SinkType]
    BY <1>7 DEF TypeOK, SinkFinal
  <2>2. fault' \in [Threads -> FaultType]
    BY <1>0, <1>7, RaiseType DEF SinkFinal, TypeOK
  <2>3. QED
    BY <1>7, <2>1, <2>2 DEF TypeOK, SinkFinal
<1>8. QED
  BY <1>1, <1>2, <1>3, <1>4, <1>5, <1>6, <1>7 DEF SinkNext

LEMMA CaptureStepType ==
  ASSUME TypeOK, PushPending, NEW r \in Runs, CaptureNext(r)
  PROVE  TypeOK'
<1> USE DEF CaptureType, CapturePcs
<1>0. r \in MaybeRun /\ "SourceFailure" \in Errors
  BY DEF MaybeRun, Errors
<1>1. CASE CaptureOpen(r)
  <2>1. capture' \in [Runs -> CaptureType]
    <3>1. PICK pc \in CapturePcs, ready \in ReadyValues :
            capture' = [capture EXCEPT ![r].pc = pc, ![r].ready = ready]
      BY <1>1 DEF CaptureOpen, ReadyValues
    <3>2. QED
      BY <3>1, ZenonT(60) DEF TypeOK
  <2>2. /\ queue' \in [Runs -> QueueType]
        /\ \A x \in Runs : Len(queue'[x].frames) <= QueueCapacity
    <3>1. CASE queue' = queue
      BY <3>1 DEF TypeOK
    <3>2. CASE queue' = [queue EXCEPT ![r] = FinishProducer(@)]
      BY <3>2, ControlledQueue
    <3>3. QED
      BY <1>1, <3>1, <3>2 DEF CaptureOpen
  <2>3. QED
    BY <1>1, <2>1, <2>2 DEF TypeOK, CaptureOpen
<1>2. CASE CaptureCheck(r)
  <2> DEFINE pc == IF stopRequested THEN "stop" ELSE "read"
  <2>0. pc \in CapturePcs
    OBVIOUS
  <2>1. capture' = [capture EXCEPT ![r].pc = pc]
    BY <1>2 DEF CaptureCheck
  <2> HIDE DEF pc
  <2>2. capture' \in [Runs -> CaptureType]
    BY <2>0, <2>1 DEF TypeOK
  <2>3. QED
    BY <1>2, <2>2 DEF TypeOK, CaptureCheck
<1>3. CASE CaptureRead(r)
  <2>1. capture' \in [Runs -> CaptureType]
    <3>1. CASE capture' = [capture EXCEPT ![r].pc = "stop"]
      BY <3>1 DEF TypeOK
    <3>2. ASSUME NEW n \in 0..MaxBurst,
                 capture' = [capture EXCEPT ![r].pc = IF n = 0 THEN "check" ELSE "push",
                                            ![r].pending = n]
          PROVE  capture' \in [Runs -> CaptureType]
      <4> DEFINE pc == IF n = 0 THEN "check" ELSE "push"
      <4>1. pc \in CapturePcs
        OBVIOUS
      <4>2. capture' = [capture EXCEPT ![r].pc = pc, ![r].pending = n]
        BY <3>2
      <4> HIDE DEF pc
      <4>3. n \in Nat
        BY EngineAssumption
      <4>4. QED
        BY <4>1, <4>2, <4>3, ZenonT(60) DEF TypeOK
    <3>3. QED
      BY <1>3, <3>1, <3>2 DEF CaptureRead
  <2>2. fault' \in [Threads -> FaultType]
    BY <1>0, <1>3, RaiseType DEF CaptureRead, TypeOK
  <2>3. QED
    BY <1>3, <2>1, <2>2 DEF TypeOK, CaptureRead
<1>4. CASE CapturePush(r)
  <2> DEFINE p == Push(queue[r], capture[r].made + 1, QueueCapacity)
  <2>1. /\ queue' = [queue EXCEPT ![r] = p]
        /\ capture' = [capture EXCEPT ![r].pc = "count", ![r].pending = @ - 1,
                                      ![r].made = @ + 1, ![r].metrics = Metrics(p)]
    BY <1>4 DEF CapturePush
  <2>2. capture[r].made + 1 \in Nat /\ capture[r].pending - 1 \in Nat
    BY <1>4 DEF TypeOK, PushPending, CapturePush, CaptureAt
  <2>3. queue[r] \in QueueOf /\ Len(queue[r].frames) <= QueueCapacity
    BY DEF TypeOK, QueueType, QueueOf
  <2>4. p \in QueueOf /\ Len(p.frames) <= QueueCapacity
    BY <2>2, <2>3, PushedQueue, EngineAssumption
  <2> HIDE DEF p
  <2>5. Metrics(p) \in [depth : Nat, discarded : Nat]
    BY <2>4, QueueFields DEF Metrics
  <2>6. /\ queue' \in [Runs -> QueueType]
        /\ \A x \in Runs : Len(queue'[x].frames) <= QueueCapacity
    BY <2>1, <2>4, QueueType1 DEF QueueType, QueueOf
  <2>7. capture' \in [Runs -> CaptureType]
    <3> DEFINE e == [capture[r] EXCEPT !.pc = "count", !.pending = capture[r].pending - 1,
                                       !.made = capture[r].made + 1, !.metrics = Metrics(p)]
    <3>1. capture' = [capture EXCEPT ![r] = e]
      BY <2>1 DEF TypeOK
    <3>2. capture[r] \in CaptureType
      BY DEF TypeOK
    <3>3. e \in CaptureType
      BY <2>2, <2>5, <3>2
    <3> HIDE DEF e
    <3>4. QED
      BY <3>1, <3>3 DEF TypeOK
  <2>8. QED
    BY <1>4, <2>6, <2>7 DEF TypeOK, CapturePush
<1>5. CASE CaptureCount(r)
  <2>1. capture' \in [Runs -> CaptureType]
    BY <1>5, ZenonT(60) DEF TypeOK, CaptureCount
  <2>2. capture[r].metrics \in [depth : Nat, discarded : Nat]
    BY DEF TypeOK
  <2>3. capture[r].metrics.depth \in Nat /\ capture[r].metrics.discarded \in Nat
    BY <2>2
  <2>4. snapshot' \in SnapshotType
    <3>1. PICK d \in Nat, k \in Nat :
            snapshot' = [snapshot EXCEPT !.output = snapshot.output + 1,
                                         !.depth = d, !.discarded = k]
      BY <1>5, <2>3 DEF CaptureCount
    <3>2. snapshot \in SnapshotType
      BY DEF TypeOK
    <3>3. snapshot.output + 1 \in Nat
      BY <3>2 DEF SnapshotType
    <3>4. QED
      BY <3>1, <3>2, <3>3 DEF SnapshotType
  <2>5. QED
    BY <1>5, <2>1, <2>4 DEF TypeOK, CaptureCount
<1>6. CASE CaptureStop(r)
  <2>1. capture' \in [Runs -> CaptureType]
    BY <1>6 DEF TypeOK, CaptureStop
  <2>2. fault' \in [Threads -> FaultType]
    BY <1>0, <1>6, RaiseType DEF CaptureStop, TypeOK
  <2>3. QED
    BY <1>6, <2>1, <2>2 DEF TypeOK, CaptureStop
<1>7. CASE CaptureFinish(r)
  <2>1. capture' \in [Runs -> CaptureType]
    BY <1>7 DEF TypeOK, CaptureFinish
  <2>2. /\ queue' \in [Runs -> QueueType]
        /\ \A x \in Runs : Len(queue'[x].frames) <= QueueCapacity
    BY <1>7, ControlledQueue DEF CaptureFinish
  <2>3. QED
    BY <1>7, <2>1, <2>2 DEF TypeOK, CaptureFinish
<1>8. QED
  BY <1>1, <1>2, <1>3, <1>4, <1>5, <1>6, <1>7 DEF CaptureNext

-----------------------------------------------------------------------------
(* Steps of the callers.  Each replaces the record of one caller by one    *)
(* that still names a run wherever it holds handles.                       *)

MovesTo(c, e) ==
  /\ e \in CallerType
  /\ caller' = [caller EXCEPT ![c] = e]
  /\ e.pc \in HoldingPcs => e.held.run \in Runs

Moves(c) == \E e : MovesTo(c, e)

\* The types of the fields of a caller, and the run it holds.
LEMMA CallerFields ==
  ASSUME TypeOK, HandlesNamed, NEW c \in Callers
  PROVE  /\ caller[c] \in CallerType
         /\ caller[c].target \in MaybeRun
         /\ caller[c].held \in HandleType
         /\ caller[c].held.run \in MaybeRun
         /\ caller[c].pc \in HoldingPcs => caller[c].held.run \in Runs
<1>1. caller[c] \in CallerType
  BY DEF TypeOK
<1>2. caller[c].target \in MaybeRun /\ caller[c].held \in HandleType
  BY <1>1 DEF CallerType
<1>3. caller[c].held.run \in MaybeRun
  BY <1>2 DEF HandleType
<1>4. QED
  BY <1>1, <1>2, <1>3 DEF HandlesNamed

LEMMA GoMoves ==
  ASSUME TypeOK, HandlesNamed, NEW c \in Callers, NEW pc \in CallerPcs,
         pc \in HoldingPcs => caller[c].pc \in HoldingPcs,
         Go(c, pc)
  PROVE  Moves(c)
<1> DEFINE e == [caller[c] EXCEPT !.pc = pc]
<1>1. caller[c] \in CallerType
  BY DEF TypeOK
<1>2. e \in CallerType /\ e.pc = pc /\ e.held = caller[c].held
  BY <1>1 DEF CallerType
<1>3. caller' = [caller EXCEPT ![c] = e]
  BY DEF Go, Become
<1>4. e.pc \in HoldingPcs => e.held.run \in Runs
  BY <1>2 DEF HandlesNamed
<1> HIDE DEF e
<1>5. QED
  BY <1>2, <1>3, <1>4 DEF Moves, MovesTo

LEMMA ReturnMoves ==
  ASSUME NEW c \in Callers, Return(c)
  PROVE  Moves(c)
<1>1. NoHandles \in HandleType
  BY DEF NoHandles, HandleType, MaybeRun
<1>2. IdleCaller \in CallerType /\ IdleCaller.pc = "idle"
  BY <1>1 DEF IdleCaller, CallerType, CallerPcs, MaybeRun
<1>3. QED
  BY <1>2 DEF Return, Become, Moves, MovesTo, HoldingPcs

LEMMA CleanupMoves ==
  ASSUME TypeOK, HandlesNamed, NEW c \in Callers, AfterCleanup(c)
  PROVE  Moves(c)
<1>1. Go(c, "resolve") \/ Go(c, "set_stopped") \/ Return(c)
  BY DEF AfterCleanup
<1>2. "resolve" \in CallerPcs \ HoldingPcs /\ "set_stopped" \in CallerPcs \ HoldingPcs
  BY DEF CallerPcs, HoldingPcs
<1>3. QED
  BY <1>1, <1>2, GoMoves, ReturnMoves

LEMMA JoinMoves ==
  ASSUME TypeOK, HandlesNamed, NEW c \in Callers, NEW failed,
         caller[c].pc = "join_sink", AfterJoin(c, failed)
  PROVE  Moves(c)
<1>1. caller[c] \in CallerType /\ caller[c].held \in HandleType /\ caller[c].held.run \in Runs
  BY CallerFields DEF HoldingPcs
<1> DEFINE handles == [caller[c].held EXCEPT !.sink = FALSE]
<1>2. handles \in HandleType /\ handles.run \in Runs
  BY <1>1 DEF HandleType
<1>3. CASE Become(c, [caller[c] EXCEPT !.pc = "install", !.held.sink = FALSE,
                                       !.joinFailed = FALSE])
  <2> DEFINE e == [caller[c] EXCEPT !.pc = "install", !.held = handles, !.joinFailed = FALSE]
  <2>1. caller' = [caller EXCEPT ![c] = e]
    BY <1>1, <1>3 DEF Become, CallerType
  <2> HIDE DEF handles
  <2>2. e \in CallerType /\ e.held.run \in Runs
    BY <1>1, <1>2 DEF CallerType, CallerPcs
  <2> HIDE DEF e
  <2>3. QED
    BY <2>1, <2>2 DEF Moves, MovesTo
<1>4. CASE Become(c, [caller[c] EXCEPT !.pc = "clear", !.held.sink = FALSE])
  <2> DEFINE e == [caller[c] EXCEPT !.pc = "clear", !.held = handles]
  <2>1. caller' = [caller EXCEPT ![c] = e]
    BY <1>1, <1>4 DEF Become, CallerType
  <2> HIDE DEF handles
  <2>2. e \in CallerType /\ e.held.run \in Runs
    BY <1>1, <1>2 DEF CallerType, CallerPcs
  <2> HIDE DEF e
  <2>3. QED
    BY <2>1, <2>2 DEF Moves, MovesTo
<1>5. QED
  BY <1>3, <1>4, ReturnMoves DEF AfterJoin

\* What a move leaves to show.
LEMMA MoveKeeps ==
  ASSUME TypeOK, HandlesNamed, NEW c \in Callers, Moves(c),
         \/ run' = run
         \/ run' = NoHandles
         \/ run' = caller[c].held /\ caller[c].pc \in HoldingPcs
  PROVE  /\ caller' \in [Callers -> CallerType]
         /\ run' \in HandleType
         /\ HandlesNamed'
<1>1. PICK e : MovesTo(c, e)
  BY DEF Moves
<1>2. caller' \in [Callers -> CallerType]
  BY <1>1 DEF TypeOK, MovesTo
<1>3. NoHandles \in HandleType
  BY DEF NoHandles, HandleType, MaybeRun
<1>4. run' \in HandleType /\ (run' = NoHandles \/ run'.run \in Runs)
  BY <1>3, CallerFields DEF TypeOK, HandlesNamed
<1>5. \A d \in Callers : caller'[d].pc \in HoldingPcs => caller'[d].held.run \in Runs
  BY <1>1 DEF TypeOK, MovesTo, HandlesNamed
<1>6. QED
  BY <1>2, <1>4, <1>5 DEF HandlesNamed

\* Replacing one or two plain fields of a caller.
LEMMA BecomeMoves ==
  ASSUME TypeOK, HandlesNamed, NEW c \in Callers, NEW e \in CallerType,
         Become(c, e), e.pc \in HoldingPcs => e.held.run \in Runs
  PROVE  Moves(c)
BY DEF Become, Moves, MovesTo

\* A start that gives up early goes on to join what it spawned.
LEMMA GiveUpMoves ==
  ASSUME TypeOK, HandlesNamed, NEW c \in Callers, NEW error \in Errors,
         GiveUpEarly(c, error), caller[c].pc \in HoldingPcs
  PROVE  Moves(c) /\ fault' \in [Threads -> FaultType]
<1> DEFINE e == [caller[c] EXCEPT !.pc = "join_capture", !.goal = "park"]
<1>1. caller[c] \in CallerType /\ caller[c].held.run \in Runs /\ caller[c].target \in MaybeRun
  BY CallerFields
<1>2. e \in CallerType /\ e.held.run \in Runs
  BY <1>1 DEF CallerType, CallerPcs
<1>3. Become(c, e) /\ Raise(CallerThread(c), error, caller[c].target)
  BY DEF GiveUpEarly
<1> HIDE DEF e
<1>4. QED
  BY <1>1, <1>2, <1>3, BecomeMoves, RaiseType

LEMMA CleanupStepType ==
  ASSUME TypeOK, HandlesNamed, NEW c \in Callers, CleanupSteps(c)
  PROVE  TypeOK' /\ HandlesNamed'
<1>0. /\ caller[c] \in CallerType /\ caller[c].held \in HandleType
      /\ caller[c].pc \in HoldingPcs => caller[c].held.run \in Runs
  BY CallerFields
<1>1. CASE TakeRun(c)
  <2>1. Moves(c)
    <3>1. CASE run = NoHandles
      BY <1>1, <3>1, CleanupMoves DEF TakeRun
    <3>2. CASE run # NoHandles
      <4> DEFINE e == [caller[c] EXCEPT !.pc = "join_capture", !.held = run]
      <4>1. Become(c, e)
        BY <1>1, <3>2 DEF TakeRun
      <4>2. e \in CallerType /\ e.held.run \in Runs
        BY <1>0, <3>2 DEF CallerType, CallerPcs, TypeOK, HandlesNamed
      <4> HIDE DEF e
      <4>3. QED
        BY <4>1, <4>2, BecomeMoves
    <3>3. QED
      BY <3>1, <3>2
  <2>2. run' = NoHandles
    BY <1>1 DEF TakeRun
  <2>3. caller' \in [Callers -> CallerType] /\ run' \in HandleType /\ HandlesNamed'
    BY <2>1, <2>2, MoveKeeps
  <2>4. QED
    BY <1>1, <2>3 DEF TypeOK, TakeRun
<1>2. CASE JoinCapture(c)
  <2>1. Moves(c)
    <3>1. PICK failed \in BOOLEAN :
            Become(c, [caller[c] EXCEPT !.pc = "join_sink", !.held.capture = FALSE,
                                        !.joinFailed = failed])
      BY <1>2 DEF JoinCapture
    <3> DEFINE h == [caller[c].held EXCEPT !.capture = FALSE]
               e == [caller[c] EXCEPT !.pc = "join_sink", !.held = h, !.joinFailed = failed]
    <3>2. Become(c, e)
      BY <1>0, <3>1 DEF Become, CallerType
    <3>3. h \in HandleType /\ h.run \in Runs
      BY <1>0, <1>2 DEF HandleType, JoinCapture, CallerAt, HoldingPcs
    <3> HIDE DEF h
    <3>4. e \in CallerType /\ e.held.run \in Runs
      BY <1>0, <3>3 DEF CallerType, CallerPcs
    <3> HIDE DEF e
    <3>5. QED
      BY <3>2, <3>4, BecomeMoves
  <2>2. caller' \in [Callers -> CallerType] /\ run' \in HandleType /\ HandlesNamed'
    BY <1>2, <2>1, MoveKeeps DEF JoinCapture
  <2>3. /\ queue' \in [Runs -> QueueType]
        /\ \A x \in Runs : Len(queue'[x].frames) <= QueueCapacity
    <3>1. CASE queue' = queue
      BY <3>1 DEF TypeOK
    <3>2. CASE queue' = [queue EXCEPT ![caller[c].held.run] = FinishProducer(@)]
      BY <3>2, ControlledQueue
    <3>3. CASE queue' = [queue EXCEPT ![caller[c].held.run] = Fail(@)]
      BY <3>3, ControlledQueue
    <3>4. QED
      BY <1>2, <3>1, <3>2, <3>3 DEF JoinCapture
  <2>4. QED
    BY <1>2, <2>2, <2>3 DEF TypeOK, JoinCapture
<1>3. CASE JoinSink(c)
  <2>1. PICK failed : AfterJoin(c, failed)
    BY <1>3 DEF JoinSink
  <2>2. Moves(c)
    BY <1>3, <2>1, JoinMoves DEF JoinSink, CallerAt
  <2>3. caller' \in [Callers -> CallerType] /\ run' \in HandleType /\ HandlesNamed'
    BY <1>3, <2>2, MoveKeeps DEF JoinSink
  <2>4. QED
    BY <1>3, <2>3 DEF TypeOK, JoinSink
<1>4. CASE ClearQueue(c)
  <2> DEFINE r == caller[c].held.run
  <2>1. r \in Runs
    BY <1>0, <1>4 DEF ClearQueue, CallerAt, HoldingPcs
  <2>2. queue[r] \in QueueOf
    BY <2>1 DEF TypeOK, QueueType, QueueOf
  <2>3. Clear(queue[r]) \in QueueOf
    BY <2>2, ControlType
  <2>4. PICK d \in Nat, k \in Nat :
          snapshot' = [snapshot EXCEPT !.depth = d, !.discarded = k]
    BY <1>4, <2>3, QueueFields DEF ClearQueue
  <2>5. snapshot' \in SnapshotType
    BY <2>4 DEF TypeOK, SnapshotType
  <2>6. /\ queue' \in [Runs -> QueueType]
        /\ \A x \in Runs : Len(queue'[x].frames) <= QueueCapacity
    BY <1>4, ControlledQueue DEF ClearQueue
  <2>7. Moves(c)
    BY <1>4, CleanupMoves DEF ClearQueue
  <2>8. caller' \in [Callers -> CallerType] /\ run' \in HandleType /\ HandlesNamed'
    BY <1>4, <2>7, MoveKeeps DEF ClearQueue
  <2>9. QED
    BY <1>4, <2>5, <2>6, <2>8 DEF TypeOK, ClearQueue
<1>6. CASE RequestStop(c)
  <2>1. "take" \in CallerPcs \ HoldingPcs
    BY DEF CallerPcs, HoldingPcs
  <2>2. Moves(c)
    BY <1>6, <2>1, GoMoves DEF RequestStop
  <2>3. caller' \in [Callers -> CallerType] /\ run' \in HandleType /\ HandlesNamed'
    BY <1>6, <2>2, MoveKeeps DEF RequestStop
  <2>4. QED
    BY <1>6, <2>3 DEF TypeOK, RequestStop
<1>7. QED
  BY <1>1, <1>2, <1>3, <1>4, <1>6 DEF CleanupSteps

LEMMA StartStepType ==
  ASSUME TypeOK, HandlesNamed, NEW c \in Callers, StartSteps(c)
  PROVE  TypeOK' /\ HandlesNamed'
<1>0. /\ caller[c] \in CallerType /\ caller[c].held \in HandleType
      /\ caller[c].target \in MaybeRun
      /\ caller[c].pc \in HoldingPcs => caller[c].held.run \in Runs
  BY CallerFields
<1>1. CASE Resolve(c)
  <2>1. CASE Return(c) /\ UNCHANGED <<snapshot, lastRun>>
    <3>1. caller' \in [Callers -> CallerType] /\ run' \in HandleType /\ HandlesNamed'
      BY <1>1, <2>1, ReturnMoves, MoveKeeps DEF Resolve
    <3>2. QED
      BY <1>1, <2>1, <3>1 DEF TypeOK, Resolve
  <2>2. CASE ~(Return(c) /\ UNCHANGED <<snapshot, lastRun>>)
    <3> DEFINE new == lastRun + 1
               h == [NoHandles EXCEPT !.run = new]
               e == [caller[c] EXCEPT !.pc = "reset_stop", !.target = new, !.held = h]
    <3>1. lastRun < MaxRuns /\ lastRun' = new /\ Become(c, e)
      BY <1>1, <2>2 DEF Resolve
    <3>2. snapshot' = [NoSnapshot EXCEPT !.state = "Starting", !.run = new]
      BY <1>1, <2>2 DEF Resolve
    <3>3. new \in Runs /\ new \in 0..MaxRuns
      BY <3>1, EngineAssumption DEF TypeOK, Runs
    <3>4. new \in MaybeRun
      BY <3>3 DEF MaybeRun
    <3> HIDE DEF new
    <3>5. h \in HandleType /\ h.run = new
      BY <3>4 DEF NoHandles, HandleType
    <3> HIDE DEF h
    <3>6. e \in CallerType /\ e.held.run \in Runs
      BY <1>0, <3>3, <3>4, <3>5 DEF CallerType, CallerPcs
    <3> HIDE DEF e
    <3>7. caller' \in [Callers -> CallerType] /\ run' \in HandleType /\ HandlesNamed'
      BY <1>1, <3>1, <3>6, BecomeMoves, MoveKeeps DEF Resolve
    <3>8. snapshot' \in SnapshotType
      BY <3>2, <3>4 DEF NoSnapshot, SnapshotType, States, Errors
    <3>9. QED
      BY <1>1, <3>1, <3>3, <3>7, <3>8 DEF TypeOK, Resolve
  <2>3. QED
    BY <2>1, <2>2
<1>2. CASE ResetStop(c) \/ ResetFailure(c)
  <2>1. Moves(c)
    BY <1>2, GoMoves DEF ResetStop, ResetFailure, CallerAt, HoldingPcs, CallerPcs
  <2>2. caller' \in [Callers -> CallerType] /\ run' \in HandleType /\ HandlesNamed'
    BY <1>2, <2>1, MoveKeeps DEF ResetStop, ResetFailure
  <2>3. QED
    BY <1>2, <2>2 DEF TypeOK, ResetStop, ResetFailure
<1>3. CASE SpawnSink(c)
  <2>1. Moves(c)
    <3>1. CASE Become(c, [caller[c] EXCEPT !.pc = "wait_sink", !.held.sink = TRUE])
      <4> DEFINE h == [caller[c].held EXCEPT !.sink = TRUE]
                 e == [caller[c] EXCEPT !.pc = "wait_sink", !.held = h]
      <4>1. Become(c, e)
        BY <1>0, <3>1 DEF Become, CallerType
      <4>2. h \in HandleType /\ h.run \in Runs
        BY <1>0, <1>3 DEF HandleType, SpawnSink, CallerAt, HoldingPcs
      <4> HIDE DEF h
      <4>3. e \in CallerType /\ e.held.run \in Runs
        BY <1>0, <4>2 DEF CallerType, CallerPcs
      <4> HIDE DEF e
      <4>4. QED
        BY <4>1, <4>3, BecomeMoves
    <3>2. QED
      BY <1>3, <3>1, ReturnMoves DEF SpawnSink
  <2>2. caller' \in [Callers -> CallerType] /\ run' \in HandleType /\ HandlesNamed'
    BY <1>3, <2>1, MoveKeeps DEF SpawnSink
  <2>3. sink' \in [Runs -> SinkType]
    <3>1. sink' = sink \/ sink' = [sink EXCEPT ![caller[c].target].pc = "open"]
      BY <1>3 DEF SpawnSink
    <3>2. CASE caller[c].target \in Runs
      BY <3>1, <3>2, ZenonT(60) DEF TypeOK, SinkType, SinkPcs
    <3>3. CASE caller[c].target \notin Runs
      BY <3>1, <3>3 DEF TypeOK
    <3>4. QED
      BY <3>2, <3>3
  <2>4. QED
    BY <1>3, <2>2, <2>3 DEF TypeOK, SpawnSink
<1>4. CASE WaitSink(c)
  <2>1. ASSUME NEW error \in Errors, GiveUpEarly(c, error), caller[c].pc = "wait_sink"
        PROVE  Moves(c) /\ fault' \in [Threads -> FaultType]
    <3>1. caller[c].pc \in HoldingPcs
      BY <2>1 DEF HoldingPcs
    <3>2. QED
      BY <2>1, <3>1, GiveUpMoves
  <2>2. Moves(c) /\ fault' \in [Threads -> FaultType]
    <3>1. "SinkFailure" \in Errors /\ "WorkerFailure" \in Errors
      BY DEF Errors
    <3>2. CASE Go(c, "spawn_capture") /\ UNCHANGED fault
      BY <1>4, <3>2, GoMoves DEF WaitSink, CallerAt, HoldingPcs, CallerPcs, TypeOK
    <3>3. QED
      BY <1>4, <2>1, <3>1, <3>2 DEF WaitSink, CallerAt
  <2>3. caller' \in [Callers -> CallerType] /\ run' \in HandleType /\ HandlesNamed'
    BY <1>4, <2>2, MoveKeeps DEF WaitSink
  <2>4. QED
    BY <1>4, <2>2, <2>3 DEF TypeOK, WaitSink
<1>5. CASE SpawnCapture(c)
  <2>1. Moves(c) /\ fault' \in [Threads -> FaultType]
    <3>1. CASE /\ Become(c, [caller[c] EXCEPT !.pc = "install", !.held.capture = TRUE])
               /\ UNCHANGED fault
      <4> DEFINE h == [caller[c].held EXCEPT !.capture = TRUE]
                 e == [caller[c] EXCEPT !.pc = "install", !.held = h]
      <4>1. Become(c, e)
        BY <1>0, <3>1 DEF Become, CallerType
      <4>2. h \in HandleType /\ h.run \in Runs
        BY <1>0, <1>5 DEF HandleType, SpawnCapture, CallerAt, HoldingPcs
      <4> HIDE DEF h
      <4>3. e \in CallerType /\ e.held.run \in Runs
        BY <1>0, <4>2 DEF CallerType, CallerPcs
      <4> HIDE DEF e
      <4>4. QED
        BY <3>1, <4>1, <4>3, BecomeMoves DEF TypeOK
    <3>2. CASE GiveUpEarly(c, "WorkerFailure")
      <4>1. caller[c].pc \in HoldingPcs
        BY <1>5 DEF SpawnCapture, CallerAt, HoldingPcs
      <4>2. "WorkerFailure" \in Errors
        BY DEF Errors
      <4>3. QED
        BY <3>2, <4>1, <4>2, GiveUpMoves
    <3>3. QED
      BY <1>5, <3>1, <3>2 DEF SpawnCapture
  <2>2. caller' \in [Callers -> CallerType] /\ run' \in HandleType /\ HandlesNamed'
    BY <1>5, <2>1, MoveKeeps DEF SpawnCapture
  <2>3. capture' \in [Runs -> CaptureType]
    <3>1. \/ capture' = capture
          \/ capture' = [capture EXCEPT ![caller[c].target].pc = "open"]
      BY <1>5 DEF SpawnCapture
    <3>2. CASE caller[c].target \in Runs
      <4> DEFINE t == caller[c].target
                 e == [capture[t] EXCEPT !.pc = "open"]
      <4>1. capture[t] \in CaptureType
        BY <3>2 DEF TypeOK
      <4>2. e \in CaptureType
        BY <4>1 DEF CaptureType, CapturePcs
      <4>3. capture' = capture \/ capture' = [capture EXCEPT ![t] = e]
        BY <3>1
      <4> HIDE DEF e
      <4>4. QED
        BY <4>2, <4>3 DEF TypeOK
    <3>3. CASE caller[c].target \notin Runs
      BY <3>1, <3>3 DEF TypeOK
    <3>4. QED
      BY <3>2, <3>3
  <2>4. QED
    BY <1>5, <2>1, <2>2, <2>3 DEF TypeOK, SpawnCapture
<1>6. CASE InstallRun(c)
  <2>1. Moves(c)
    <3>1. CASE Return(c)
      BY <3>1, ReturnMoves
    <3>2. CASE Become(c, [caller[c] EXCEPT !.pc = "wait_capture", !.held = NoHandles])
      <4> DEFINE e == [caller[c] EXCEPT !.pc = "wait_capture", !.held = NoHandles]
      <4>1. NoHandles \in HandleType
        BY DEF NoHandles, HandleType, MaybeRun
      <4>2. e \in CallerType /\ e.pc \notin HoldingPcs
        BY <1>0, <4>1 DEF CallerType, CallerPcs, HoldingPcs
      <4> HIDE DEF e
      <4>3. QED
        BY <3>2, <4>2, BecomeMoves DEF e
    <3>3. QED
      BY <1>6, <3>1, <3>2 DEF InstallRun
  <2>2. run' = caller[c].held /\ caller[c].pc \in HoldingPcs
    BY <1>6 DEF InstallRun, CallerAt, HoldingPcs
  <2>3. caller' \in [Callers -> CallerType] /\ run' \in HandleType /\ HandlesNamed'
    BY <2>1, <2>2, MoveKeeps
  <2>4. QED
    BY <1>6, <2>3 DEF TypeOK, InstallRun
<1>7. CASE WaitCapture(c)
  <2>1. ASSUME NEW error \in Errors, Raise(CallerThread(c), error, caller[c].target),
               Become(c, [caller[c] EXCEPT !.pc = "request_stop", !.goal = "abort"])
        PROVE  Moves(c) /\ fault' \in [Threads -> FaultType]
    <3> DEFINE e == [caller[c] EXCEPT !.pc = "request_stop", !.goal = "abort"]
    <3>1. e \in CallerType /\ e.pc \notin HoldingPcs
      BY <1>0 DEF CallerType, CallerPcs, HoldingPcs
    <3> HIDE DEF e
    <3>2. QED
      BY <1>0, <2>1, <3>1, BecomeMoves, RaiseType DEF e
  <2>2. Moves(c) /\ fault' \in [Threads -> FaultType]
    <3>1. "SourceFailure" \in Errors /\ "WorkerFailure" \in Errors
      BY DEF Errors
    <3>2. CASE Go(c, "finish_start") /\ UNCHANGED fault
      BY <3>2, GoMoves DEF HoldingPcs, CallerPcs, TypeOK
    <3>3. QED
      BY <1>7, <2>1, <3>1, <3>2 DEF WaitCapture
  <2>3. caller' \in [Callers -> CallerType] /\ run' \in HandleType /\ HandlesNamed'
    BY <1>7, <2>2, MoveKeeps DEF WaitCapture
  <2>4. QED
    BY <1>7, <2>2, <2>3 DEF TypeOK, WaitCapture
<1>8. CASE FinishStart(c)
  <2>1. caller' \in [Callers -> CallerType] /\ run' \in HandleType /\ HandlesNamed'
    BY <1>8, ReturnMoves, MoveKeeps DEF FinishStart
  <2>2. snapshot' \in SnapshotType
    BY <1>8 DEF FinishStart, TypeOK, SnapshotType, States
  <2>3. QED
    BY <1>8, <2>1, <2>2 DEF TypeOK, FinishStart
<1>9. QED
  BY <1>1, <1>2, <1>3, <1>4, <1>5, <1>6, <1>7, <1>8 DEF StartSteps

LEMMA CommandStepType ==
  ASSUME TypeOK, HandlesNamed, NEW c \in Callers,
         BeginStart(c) \/ BeginStop(c) \/ CallerSteps(c)
  PROVE  TypeOK' /\ HandlesNamed'
<1>0. caller[c] \in CallerType
  BY CallerFields
<1>1. CASE BeginStart(c)
  <2> DEFINE pc == IF snapshot.state = "Failed" THEN "request_stop" ELSE "resolve"
             e == [caller[c] EXCEPT !.pc = pc, !.goal = "start"]
  <2>1. Become(c, e)
    BY <1>1 DEF BeginStart
  <2>2. pc \in CallerPcs \ HoldingPcs
    BY DEF CallerPcs, HoldingPcs
  <2> HIDE DEF pc
  <2>3. e \in CallerType /\ e.pc \notin HoldingPcs
    BY <1>0, <2>2 DEF CallerType
  <2> HIDE DEF e
  <2>4. caller' \in [Callers -> CallerType] /\ run' \in HandleType /\ HandlesNamed'
    BY <1>1, <2>1, <2>3, BecomeMoves, MoveKeeps DEF BeginStart
  <2>5. QED
    BY <1>1, <2>4 DEF TypeOK, BeginStart
<1>2. CASE BeginStop(c)
  <2> DEFINE pc == IF snapshot.state = "Failed" THEN "request_stop" ELSE "set_stopping"
             e == [caller[c] EXCEPT !.pc = pc, !.goal = "stop"]
  <2>1. Become(c, e)
    BY <1>2 DEF BeginStop
  <2>2. pc \in CallerPcs \ HoldingPcs
    BY DEF CallerPcs, HoldingPcs
  <2> HIDE DEF pc
  <2>3. e \in CallerType /\ e.pc \notin HoldingPcs
    BY <1>0, <2>2 DEF CallerType
  <2> HIDE DEF e
  <2>4. caller' \in [Callers -> CallerType] /\ run' \in HandleType /\ HandlesNamed'
    BY <1>2, <2>1, <2>3, BecomeMoves, MoveKeeps DEF BeginStop
  <2>5. QED
    BY <1>2, <2>4 DEF TypeOK, BeginStop
<1>3. CASE SetStopping(c)
  <2>1. "request_stop" \in CallerPcs /\ "request_stop" \notin HoldingPcs
    BY DEF CallerPcs, HoldingPcs
  <2>2. caller' \in [Callers -> CallerType] /\ run' \in HandleType /\ HandlesNamed'
    BY <1>3, <2>1, GoMoves, MoveKeeps DEF SetStopping
  <2>3. snapshot' \in SnapshotType
    BY <1>3 DEF SetStopping, TypeOK, SnapshotType, States
  <2>4. QED
    BY <1>3, <2>2, <2>3 DEF TypeOK, SetStopping
<1>4. CASE SetStopped(c)
  <2>1. caller' \in [Callers -> CallerType] /\ run' \in HandleType /\ HandlesNamed'
    BY <1>4, ReturnMoves, MoveKeeps DEF SetStopped
  <2>2. snapshot' \in SnapshotType
    BY <1>4 DEF SetStopped, TypeOK, SnapshotType, States
  <2>3. QED
    BY <1>4, <2>1, <2>2 DEF TypeOK, SetStopped
<1>5. QED
  BY <1>1, <1>2, <1>3, <1>4, StartStepType, CleanupStepType DEF CallerSteps

-----------------------------------------------------------------------------
(* The order of the frames of one run.                                     *)

OrderOf(frames, last, made) ==
  /\ \A i, j \in 1..Len(frames) : i < j => frames[i] < frames[j]
  /\ \A i \in 1..Len(frames) : frames[i] > last /\ frames[i] <= made
  /\ last <= made

RunOrder(r) == OrderOf(queue[r].frames, sink[r].frame, capture[r].made)

LEMMA CaptureOrderByRun == CaptureOrder <=> \A r \in Runs : RunOrder(r)
BY DEF CaptureOrder, RunOrder, OrderOf

LEMMA OrderOfEmpty ==
  ASSUME NEW last \in Nat, NEW made \in Nat, last <= made
  PROVE  OrderOf(<<>>, last, made)
<1>1. Len(<<>>) = 0
  BY EmptySeq
<1>2. 1..Len(<<>>) = {}
  BY <1>1
<1>3. QED
  BY <1>2 DEF OrderOf

\* Popping moves the last frame forward to the head; dropping the head does
\* not move it.
LEMMA OrderOfTail ==
  ASSUME NEW s \in Seq(Nat), NEW last \in Nat, NEW made \in Nat,
         s # <<>>, OrderOf(s, last, made)
  PROVE  OrderOf(Tail(s), Head(s), made) /\ OrderOf(Tail(s), last, made)
<1>1. /\ Head(s) \in Nat /\ Head(s) = s[1]
      /\ Len(s) \in Nat /\ Len(s) >= 1
      /\ Tail(s) \in Seq(Nat) /\ Len(Tail(s)) = Len(s) - 1
      /\ \A i \in 1..(Len(s) - 1) : Tail(s)[i] = s[i + 1]
  BY Shifted
<1>2. \A i \in 1..Len(s) : s[i] \in Nat
  BY ElementOfSeq
<1>3. \A i, j \in 1..Len(s) : i < j => s[i] < s[j]
  BY DEF OrderOf
<1>4. \A i \in 1..Len(s) : s[i] > last /\ s[i] <= made
  BY DEF OrderOf
<1>5. ASSUME NEW i \in 1..Len(Tail(s)), NEW j \in 1..Len(Tail(s)), i < j
      PROVE  Tail(s)[i] < Tail(s)[j]
  <2>1. Tail(s)[i] = s[i + 1] /\ Tail(s)[j] = s[j + 1]
    BY <1>1
  <2>2. i + 1 \in 1..Len(s) /\ j + 1 \in 1..Len(s) /\ i + 1 < j + 1
    BY <1>1, <1>5
  <2>3. QED
    BY <1>3, <2>1, <2>2
<1>6. ASSUME NEW i \in 1..Len(Tail(s))
      PROVE  Tail(s)[i] > Head(s) /\ Tail(s)[i] > last /\ Tail(s)[i] <= made
  <2>1. Tail(s)[i] = s[i + 1]
    BY <1>1
  <2>2. i + 1 \in 1..Len(s) /\ 1 \in 1..Len(s) /\ 1 < i + 1
    BY <1>1
  <2>3. s[1] < s[i + 1] /\ s[i + 1] > last /\ s[i + 1] <= made
    BY <1>3, <1>4, <2>2
  <2>4. QED
    BY <1>1, <1>2, <2>1, <2>2, <2>3
<1>7. Head(s) <= made /\ last <= made
  BY <1>1, <1>4 DEF OrderOf
<1>8. QED
  BY <1>5, <1>6, <1>7 DEF OrderOf

\* The next captured frame goes to the end; an ignored one is only counted.
LEMMA OrderOfAppend ==
  ASSUME NEW s \in Seq(Nat), NEW last \in Nat, NEW made \in Nat,
         OrderOf(s, last, made)
  PROVE  OrderOf(Append(s, made + 1), last, made + 1) /\ OrderOf(s, last, made + 1)
<1> DEFINE a == Append(s, made + 1)
<1>1. /\ Len(s) \in Nat /\ Len(a) = Len(s) + 1
      /\ \A i \in 1..Len(s) : a[i] = s[i]
      /\ a[Len(s) + 1] = made + 1
  BY AppendProperties, LenProperties
<1> HIDE DEF a
<1>2. \A i \in 1..Len(s) : s[i] \in Nat
  BY ElementOfSeq
<1>3. \A i, j \in 1..Len(s) : i < j => s[i] < s[j]
  BY DEF OrderOf
<1>4. last <= made /\ \A i \in 1..Len(s) : s[i] > last /\ s[i] <= made
  BY DEF OrderOf
<1>5. OrderOf(s, last, made + 1)
  BY <1>2, <1>3, <1>4 DEF OrderOf
<1>6. \A i \in 1..Len(a) : a[i] > last /\ a[i] <= made + 1
  BY <1>1, <1>2, <1>4
<1>7. ASSUME NEW i \in 1..Len(a), NEW j \in 1..Len(a), i < j
      PROVE  a[i] < a[j]
  <2>1. i \in 1..Len(s) /\ a[i] = s[i]
    BY <1>1, <1>7
  <2>2. CASE j \in 1..Len(s)
    BY <1>1, <1>3, <1>7, <2>1, <2>2
  <2>3. CASE j = Len(s) + 1
    BY <1>1, <1>2, <1>4, <2>1, <2>3
  <2>4. QED
    BY <1>1, <1>7, <2>2, <2>3
<1>8. OrderOf(a, last, made + 1)
  BY <1>4, <1>6, <1>7 DEF OrderOf
<1>9. QED
  BY <1>5, <1>8 DEF a

-----------------------------------------------------------------------------
(* CaptureOrder is preserved.  Only a pop and a push touch the order; every *)
(* other step keeps the frames of a queue or empties it.                    *)

DataKept ==
  \A r \in Runs : /\ queue'[r].frames = queue[r].frames \/ queue'[r].frames = <<>>
                  /\ sink'[r].frame = sink[r].frame
                  /\ capture'[r].made = capture[r].made

LEMMA RunFields ==
  ASSUME TypeOK, NEW r \in Runs
  PROVE  /\ queue[r] \in QueueOf
         /\ Len(queue[r].frames) <= QueueCapacity
         /\ queue[r].frames \in Seq(Nat)
         /\ sink[r].frame \in Nat
         /\ capture[r].made \in Nat
<1>1. queue[r] \in QueueOf /\ Len(queue[r].frames) <= QueueCapacity
  BY DEF TypeOK, QueueType, QueueOf
<1>2. sink[r] \in SinkType /\ capture[r] \in CaptureType
  BY DEF TypeOK
<1>3. sink[r].frame \in Nat /\ capture[r].made \in Nat
  BY <1>2 DEF SinkType, CaptureType
<1>4. QED
  BY <1>1, <1>3, QueueFields

LEMMA DataKeptOrder ==
  ASSUME TypeOK, CaptureOrder, DataKept
  PROVE  CaptureOrder'
<1>1. ASSUME NEW r \in Runs
      PROVE  OrderOf(queue'[r].frames, sink'[r].frame, capture'[r].made)
  <2>1. RunOrder(r) /\ sink[r].frame \in Nat /\ capture[r].made \in Nat
    BY CaptureOrderByRun, RunFields
  <2>2. sink[r].frame <= capture[r].made
    BY <2>1 DEF RunOrder, OrderOf
  <2>3. CASE queue'[r].frames = queue[r].frames
    BY <2>1, <2>3 DEF DataKept, RunOrder
  <2>4. CASE queue'[r].frames = <<>>
    BY <2>1, <2>2, <2>4, OrderOfEmpty DEF DataKept
  <2>5. QED
    BY <2>3, <2>4 DEF DataKept
<1>2. \A r \in Runs : RunOrder(r)'
  BY <1>1 DEF RunOrder
<1>3. QED
  BY <1>2 DEF CaptureOrder, RunOrder, OrderOf

LEMMA FailureStepOrder ==
  ASSUME TypeOK, CaptureOrder, NEW t \in Threads, RecordFailure(t)
  PROVE  CaptureOrder'
<1>1. sink' = sink /\ capture' = capture
  BY DEF RecordFailure, Exchange, RaiseStop, FailQueue, Publish
<1>2. queue' = queue \/ queue' = [queue EXCEPT ![fault[t].run] = Fail(@)]
  BY DEF RecordFailure, Exchange, RaiseStop, FailQueue, Publish
<1>3. \A r \in Runs : queue'[r].frames = queue[r].frames \/ queue'[r].frames = <<>>
  BY <1>2, ControlledQueue
<1>4. QED
  BY <1>1, <1>3, DataKeptOrder DEF DataKept

LEMMA PopOrder ==
  ASSUME TypeOK, CaptureOrder, NEW r \in Runs, SinkPop(r)
  PROVE  CaptureOrder'
<1>1. capture' = capture
  BY DEF SinkPop
<1>2. CASE PopResult(queue[r]) = "Frame"
  <2> DEFINE s == queue[r].frames
  <2>1. /\ sink' = [sink EXCEPT ![r].pc = "write", ![r].frame = Head(s)]
        /\ queue' = [queue EXCEPT ![r] = Popped(queue[r])]
    BY <1>2 DEF SinkPop
  <2>2. s # <<>> /\ Popped(queue[r]).frames = Tail(s)
    BY <1>2, RunFields, PoppedQueue
  <2>3. OrderOf(Tail(s), Head(s), capture[r].made)
    BY <2>2, RunFields, OrderOfTail, CaptureOrderByRun DEF RunOrder
  <2>4. queue'[r].frames = Tail(s) /\ sink'[r].frame = Head(s)
    BY <2>1, <2>2 DEF TypeOK, SinkType
  <2>5. \A x \in Runs : x # r => queue'[x] = queue[x] /\ sink'[x] = sink[x]
    BY <2>1 DEF TypeOK
  <2> HIDE DEF s
  <2>6. ASSUME NEW x \in Runs
        PROVE  OrderOf(queue'[x].frames, sink'[x].frame, capture'[x].made)
    <3>1. CASE x = r
      BY <1>1, <2>3, <2>4, <3>1
    <3>2. CASE x # r
      BY <1>1, <2>5, <3>2, CaptureOrderByRun DEF RunOrder
    <3>3. QED
      BY <3>1, <3>2
  <2>7. QED
    BY <2>6 DEF CaptureOrder, OrderOf
<1>3. CASE PopResult(queue[r]) # "Frame"
  <2>1. queue' = queue /\ sink' = [sink EXCEPT ![r].pc = "close"]
    BY <1>3 DEF SinkPop
  <2>2. DataKept
    BY <1>1, <2>1 DEF DataKept, TypeOK, SinkType
  <2>3. QED
    BY <2>2, DataKeptOrder
<1>4. QED
  BY <1>2, <1>3

LEMMA SinkStepOrder ==
  ASSUME TypeOK, CaptureOrder, NEW r \in Runs, SinkNext(r)
  PROVE  CaptureOrder'
<1>1. CASE SinkPop(r)
  BY <1>1, PopOrder
<1>2. CASE ~SinkPop(r)
  <2>1. queue' = queue /\ capture' = capture
    BY <1>2 DEF SinkNext, SinkOpen, SinkAccepts, SinkFails, SinkRefreshed, SinkClose, SinkFinal
  <2>2. \A x \in Runs : sink'[x].frame = sink[x].frame
    <3>1. CASE SinkOpen(r)
      <4>1. PICK pc, ready : sink' = [sink EXCEPT ![r].pc = pc, ![r].ready = ready]
        BY <3>1 DEF SinkOpen
      <4>2. QED
        BY <4>1 DEF TypeOK, SinkType
    <3>2. CASE SinkAccepts(r)
      <4>1. PICK pc : sink' = [sink EXCEPT ![r].pc = pc, ![r].sequence = @ + 1]
        BY <3>2 DEF SinkAccepts
      <4>2. QED
        BY <4>1 DEF TypeOK, SinkType
    <3>3. CASE SinkFails(r)
      BY <3>3 DEF SinkFails, TypeOK, SinkType
    <3>4. CASE SinkRefreshed(r)
      BY <3>4 DEF SinkRefreshed, TypeOK, SinkType
    <3>5. CASE SinkClose(r)
      BY <3>5 DEF SinkClose, TypeOK, SinkType
    <3>6. CASE SinkFinal(r)
      BY <3>6 DEF SinkFinal, TypeOK, SinkType
    <3>7. QED
      BY <1>2, <3>1, <3>2, <3>3, <3>4, <3>5, <3>6 DEF SinkNext
  <2>3. QED
    BY <2>1, <2>2, DataKeptOrder DEF DataKept
<1>3. QED
  BY <1>1, <1>2

LEMMA PushOrder ==
  ASSUME TypeOK, CaptureOrder, NEW r \in Runs, CapturePush(r)
  PROVE  CaptureOrder'
<1> DEFINE q == queue[r]
           made == capture[r].made
           m == MakeRoom(q, QueueCapacity)
           p == Push(q, made + 1, QueueCapacity)
<1>1. /\ q \in QueueOf /\ Len(q.frames) <= QueueCapacity /\ q.frames \in Seq(Nat)
      /\ sink[r].frame \in Nat /\ made \in Nat /\ made + 1 \in Nat
  BY RunFields
<1>2. OrderOf(q.frames, sink[r].frame, made)
  BY CaptureOrderByRun DEF RunOrder
<1>3. /\ m \in QueueOf
      /\ m.frames = q.frames \/ (q.frames # <<>> /\ m.frames = Tail(q.frames))
  BY <1>1, MadeRoom, EngineAssumption
<1>4. m.frames \in Seq(Nat)
  BY <1>3, QueueFields
<1>5. OrderOf(m.frames, sink[r].frame, made)
  BY <1>1, <1>2, <1>3, OrderOfTail
<1>6. p.frames = q.frames \/ p.frames = Append(m.frames, made + 1)
  <2>1. CASE q.failed \/ q.producerDone
    BY <2>1 DEF Push
  <2>2. CASE ~(q.failed \/ q.producerDone)
    <3>1. p = [m EXCEPT !.frames = Append(m.frames, made + 1)]
      BY <1>3, <2>2 DEF Push, QueueOf
    <3>2. Append(m.frames, made + 1) \in Seq(Nat)
      BY <1>1, <1>4, AppendProperties
    <3> HIDE DEF m, p
    <3>3. QED
      BY <1>3, <3>1, <3>2, ReplacedFrames
  <2>3. QED
    BY <2>1, <2>2
<1>7. OrderOf(p.frames, sink[r].frame, made + 1)
  BY <1>1, <1>2, <1>4, <1>5, <1>6, OrderOfAppend
<1>8. /\ queue' = [queue EXCEPT ![r] = p]
      /\ capture' = [capture EXCEPT ![r].pc = "count", ![r].pending = @ - 1,
                                    ![r].made = @ + 1, ![r].metrics = Metrics(p)]
      /\ sink' = sink
  BY DEF CapturePush
<1> HIDE DEF p, m
<1>9. queue'[r] = p /\ \A x \in Runs : x # r => queue'[x] = queue[x]
  BY <1>8 DEF TypeOK
<1>10. capture'[r].made = made + 1 /\ \A x \in Runs : x # r => capture'[x] = capture[x]
  <2> DEFINE e == [capture[r] EXCEPT !.pc = "count", !.pending = capture[r].pending - 1,
                                     !.made = made + 1, !.metrics = Metrics(p)]
  <2>1. capture[r] \in CaptureType
    BY DEF TypeOK
  <2>2. capture' = [capture EXCEPT ![r] = e]
    BY <1>8 DEF TypeOK
  <2>3. e.made = made + 1
    BY <2>1 DEF CaptureType
  <2> HIDE DEF e
  <2>4. QED
    BY <2>2, <2>3 DEF TypeOK
<1>11. ASSUME NEW x \in Runs
       PROVE  OrderOf(queue'[x].frames, sink'[x].frame, capture'[x].made)
  <2>1. CASE x = r
    BY <1>7, <1>8, <1>9, <1>10, <2>1
  <2>2. CASE x # r
    BY <1>8, <1>9, <1>10, <2>2, CaptureOrderByRun DEF RunOrder
  <2>3. QED
    BY <2>1, <2>2
<1>12. QED
  BY <1>11 DEF CaptureOrder, OrderOf

LEMMA CaptureStepOrder ==
  ASSUME TypeOK, CaptureOrder, NEW r \in Runs, CaptureNext(r)
  PROVE  CaptureOrder'
<1>1. CASE CapturePush(r)
  BY <1>1, PushOrder
<1>2. CASE ~CapturePush(r)
  <2>1. sink' = sink
    BY <1>2 DEF CaptureNext, CaptureOpen, CaptureCheck, CaptureRead, CaptureCount,
                CaptureStop, CaptureFinish
  <2>2. queue' = queue \/ queue' = [queue EXCEPT ![r] = FinishProducer(@)]
    BY <1>2 DEF CaptureNext, CaptureOpen, CaptureCheck, CaptureRead, CaptureCount,
                CaptureStop, CaptureFinish
  <2>3. \A x \in Runs : queue'[x].frames = queue[x].frames \/ queue'[x].frames = <<>>
    BY <2>2, ControlledQueue
  <2>4. \A x \in Runs : capture'[x].made = capture[x].made
    <3>1. CASE CaptureOpen(r)
      <4>1. PICK pc, ready : capture' = [capture EXCEPT ![r].pc = pc, ![r].ready = ready]
        BY <3>1 DEF CaptureOpen
      <4>2. QED
        BY <4>1 DEF TypeOK, CaptureType
    <3>2. CASE CaptureCheck(r)
      <4>1. PICK pc : capture' = [capture EXCEPT ![r].pc = pc]
        BY <3>2 DEF CaptureCheck
      <4>2. QED
        BY <4>1 DEF TypeOK, CaptureType
    <3>3. CASE CaptureRead(r)
      <4>1. \/ capture' = [capture EXCEPT ![r].pc = "stop"]
            \/ \E n, pc : capture' = [capture EXCEPT ![r].pc = pc, ![r].pending = n]
        BY <3>3 DEF CaptureRead
      <4>2. CASE capture' = [capture EXCEPT ![r].pc = "stop"]
        BY <4>2 DEF TypeOK, CaptureType
      <4>3. ASSUME NEW n, NEW pc,
                   capture' = [capture EXCEPT ![r].pc = pc, ![r].pending = n]
            PROVE  \A x \in Runs : capture'[x].made = capture[x].made
        BY <4>3 DEF TypeOK, CaptureType
      <4>4. QED
        BY <4>1, <4>2, <4>3
    <3>4. CASE CaptureCount(r)
      <4>1. PICK pc : capture' = [capture EXCEPT ![r].pc = pc]
        BY <3>4 DEF CaptureCount
      <4>2. QED
        BY <4>1 DEF TypeOK, CaptureType
    <3>5. CASE CaptureStop(r)
      BY <3>5 DEF CaptureStop, TypeOK, CaptureType
    <3>6. CASE CaptureFinish(r)
      BY <3>6 DEF CaptureFinish, TypeOK, CaptureType
    <3>7. QED
      BY <1>2, <3>1, <3>2, <3>3, <3>4, <3>5, <3>6 DEF CaptureNext
  <2>5. QED
    BY <2>1, <2>3, <2>4, DataKeptOrder DEF DataKept
<1>3. QED
  BY <1>1, <1>2

LEMMA CommandStepOrder ==
  ASSUME TypeOK, CaptureOrder, NEW c \in Callers,
         BeginStart(c) \/ BeginStop(c) \/ CallerSteps(c)
  PROVE  CaptureOrder'
<1>1. \/ queue' = queue
      \/ \E r : \/ queue' = [queue EXCEPT ![r] = FinishProducer(@)]
                \/ queue' = [queue EXCEPT ![r] = Fail(@)]
                \/ queue' = [queue EXCEPT ![r] = Clear(@)]
  BY DEF BeginStart, BeginStop, CallerSteps, StartSteps, CleanupSteps, Resolve, ResetStop, ResetFailure,
         SpawnSink, WaitSink, SpawnCapture, InstallRun, WaitCapture, FinishStart,
         RequestStop, TakeRun, JoinCapture, JoinSink, ClearQueue, SetStopping, SetStopped
<1>2. \A x \in Runs : queue'[x].frames = queue[x].frames \/ queue'[x].frames = <<>>
  BY <1>1, ControlledQueue
<1>3. sink' = sink \/ \E t : sink' = [sink EXCEPT ![t].pc = "open"]
  BY DEF BeginStart, BeginStop, CallerSteps, StartSteps, CleanupSteps, Resolve, ResetStop, ResetFailure,
         SpawnSink, WaitSink, SpawnCapture, InstallRun, WaitCapture, FinishStart,
         RequestStop, TakeRun, JoinCapture, JoinSink, ClearQueue, SetStopping, SetStopped
<1>4. capture' = capture \/ \E t : capture' = [capture EXCEPT ![t].pc = "open"]
  BY DEF BeginStart, BeginStop, CallerSteps, StartSteps, CleanupSteps, Resolve, ResetStop, ResetFailure,
         SpawnSink, WaitSink, SpawnCapture, InstallRun, WaitCapture, FinishStart,
         RequestStop, TakeRun, JoinCapture, JoinSink, ClearQueue, SetStopping, SetStopped
<1>5. \A x \in Runs : sink'[x].frame = sink[x].frame
  BY <1>3, ZenonT(60) DEF TypeOK, SinkType
<1>6. \A x \in Runs : capture'[x].made = capture[x].made
  <2>1. ASSUME NEW t, capture' = [capture EXCEPT ![t].pc = "open"], NEW x \in Runs
        PROVE  capture'[x].made = capture[x].made
    <3>1. CASE x = t
      BY <2>1, <3>1 DEF TypeOK, CaptureType
    <3>2. CASE x # t
      BY <2>1, <3>2 DEF TypeOK
    <3>3. QED
      BY <3>1, <3>2
  <2>2. QED
    BY <1>4, <2>1
<1>7. QED
  BY <1>2, <1>5, <1>6, DataKeptOrder DEF DataKept

-----------------------------------------------------------------------------
(* A pending frame stays pending.                                          *)

LEMMA PendingStep ==
  ASSUME TypeOK, PushPending, [Next]_vars
  PROVE  PushPending'
<1>1. CASE capture' = capture
  BY <1>1 DEF PushPending
<1>2. ASSUME NEW r \in Runs, CaptureNext(r)
      PROVE  PushPending'
  <2> USE DEF TypeOK, CaptureType, PushPending
  <2>1. CASE CaptureOpen(r)
    <3>1. PICK pc \in {"done", "check"}, ready \in ReadyValues :
            capture' = [capture EXCEPT ![r].pc = pc, ![r].ready = ready]
      BY <2>1 DEF CaptureOpen, ReadyValues
    <3>2. QED
      BY <3>1
  <2>2. CASE CaptureCheck(r)
    <3>1. PICK pc \in {"stop", "read"} : capture' = [capture EXCEPT ![r].pc = pc]
      BY <2>2 DEF CaptureCheck
    <3>2. QED
      BY <3>1
  <2>3. CASE CaptureRead(r)
    <3>1. CASE capture' = [capture EXCEPT ![r].pc = "stop"]
      BY <3>1
    <3>2. ASSUME NEW n \in 0..MaxBurst,
                 capture' = [capture EXCEPT ![r].pc = IF n = 0 THEN "check" ELSE "push",
                                            ![r].pending = n]
          PROVE  PushPending'
      <4>1. n \in Nat
        BY EngineAssumption
      <4>2. PICK pc : /\ capture' = [capture EXCEPT ![r].pc = pc, ![r].pending = n]
                      /\ pc = "push" => n # 0
        <5> DEFINE next == IF n = 0 THEN "check" ELSE "push"
        <5>1. capture' = [capture EXCEPT ![r].pc = next, ![r].pending = n]
          BY <3>2
        <5>2. next = "push" => n # 0
          OBVIOUS
        <5> HIDE DEF next
        <5>3. QED
          BY <5>1, <5>2
      <4>3. n = 0 \/ n > 0
        BY <4>1
      <4>4. QED
        BY <4>2, <4>3
    <3>3. QED
      BY <2>3, <3>1, <3>2 DEF CaptureRead
  <2>4. CASE CapturePush(r)
    <3>1. PICK k, m, x : capture' = [capture EXCEPT ![r].pc = "count", ![r].pending = k,
                                                    ![r].made = m, ![r].metrics = x]
      BY <2>4 DEF CapturePush
    <3>2. QED
      BY <3>1
  <2>5. CASE CaptureCount(r)
    <3>1. PICK pc : /\ capture' = [capture EXCEPT ![r].pc = pc]
                    /\ pc = "push" => capture[r].pending # 0
      <4> DEFINE next == IF capture[r].pending = 0 THEN "check" ELSE "push"
      <4>1. capture' = [capture EXCEPT ![r].pc = next]
        BY <2>5 DEF CaptureCount
      <4>2. next = "push" => capture[r].pending # 0
        OBVIOUS
      <4> HIDE DEF next
      <4>3. QED
        BY <4>1, <4>2
    <3>2. capture[r].pending \in Nat
      OBVIOUS
    <3>3. capture[r].pending # 0 => capture[r].pending > 0
      BY <3>2
    <3>4. QED
      BY <3>1, <3>3
  <2>6. CASE CaptureStop(r)
    BY <2>6 DEF CaptureStop
  <2>7. CASE CaptureFinish(r)
    BY <2>7 DEF CaptureFinish
  <2>8. QED
    BY <1>2, <2>1, <2>2, <2>3, <2>4, <2>5, <2>6, <2>7 DEF CaptureNext
<1>3. ASSUME NEW t, capture' = [capture EXCEPT ![t].pc = "open"]
      PROVE  PushPending'
  BY <1>3 DEF TypeOK, CaptureType, PushPending
<1>4. ASSUME NEW c \in Callers, BeginStart(c) \/ BeginStop(c) \/ CallerSteps(c)
      PROVE  capture' = capture \/ \E t : capture' = [capture EXCEPT ![t].pc = "open"]
  BY <1>4
     DEF BeginStart, BeginStop, CallerSteps, StartSteps, CleanupSteps, Resolve, ResetStop, ResetFailure,
         SpawnSink, WaitSink, SpawnCapture, InstallRun, WaitCapture, FinishStart,
         RequestStop, TakeRun, JoinCapture, JoinSink, ClearQueue, SetStopping, SetStopped
<1>5. ASSUME NEW r \in Runs, SinkNext(r)
      PROVE  capture' = capture
  BY <1>5 DEF SinkNext, SinkOpen, SinkPop, SinkAccepts, SinkFails, SinkRefreshed,
              SinkClose, SinkFinal
<1>6. ASSUME NEW t \in Threads, RecordFailure(t)
      PROVE  capture' = capture
  BY <1>6 DEF RecordFailure, Exchange, RaiseStop, FailQueue, Publish
<1>7. CASE UNCHANGED vars
  BY <1>1, <1>7 DEF vars
<1>8. QED
  BY <1>1, <1>2, <1>3, <1>4, <1>5, <1>6, <1>7 DEF Next

-----------------------------------------------------------------------------
(* The theorems.                                                           *)

LEMMA InitIInv == Init => IInv
<1> SUFFICES ASSUME Init
             PROVE  IInv
  OBVIOUS
<1> USE DEF Init
<1>1. NewQueue \in QueueOf /\ NewQueue.frames = <<>> /\ Len(<<>>) = 0
  BY NewQueueType, EmptySeq
<1>2. NoHandles \in HandleType
  BY DEF NoHandles, HandleType, MaybeRun
<1>3. /\ queue \in [Runs -> QueueType]
      /\ \A r \in Runs : Len(queue[r].frames) <= QueueCapacity
  BY <1>1, EngineAssumption DEF QueueType, QueueOf
<1>4. sink \in [Runs -> SinkType]
  BY DEF NewSink, SinkType, SinkPcs, ReadyValues
<1>5. capture \in [Runs -> CaptureType]
  BY DEF NewCapture, CaptureType, CapturePcs, ReadyValues
<1>6. caller \in [Callers -> CallerType]
  BY <1>2 DEF IdleCaller, CallerType, CallerPcs, MaybeRun
<1>7. fault \in [Threads -> FaultType]
  BY DEF NoFault, FaultType, Errors, MaybeRun
<1>8. snapshot \in SnapshotType
  BY DEF NoSnapshot, SnapshotType, States, Errors, MaybeRun
<1>9. TypeOK
  <2>1. lastRun \in 0..MaxRuns /\ run \in HandleType
    BY <1>2, EngineAssumption
  <2>2. stopRequested \in BOOLEAN /\ terminalFailure \in BOOLEAN
    OBVIOUS
  <2> QED
    BY <1>3, <1>4, <1>5, <1>6, <1>7, <1>8, <2>1, <2>2 DEF TypeOK
<1>10. HandlesNamed
  BY DEF HandlesNamed, IdleCaller, HoldingPcs
<1>11. PushPending
  BY DEF PushPending, NewCapture
<1>12. \A r \in Runs : RunOrder(r)
  BY <1>1, OrderOfEmpty DEF RunOrder, NewSink, NewCapture
<1>13. QED
  BY <1>9, <1>10, <1>11, <1>12, CaptureOrderByRun DEF IInv

LEMMA NextIInv == IInv /\ [Next]_vars => IInv'
<1> SUFFICES ASSUME TypeOK, HandlesNamed, PushPending, CaptureOrder, [Next]_vars
             PROVE  IInv'
  BY DEF IInv
<1>1. PushPending'
  BY PendingStep
<1>2. ASSUME NEW c \in Callers, BeginStart(c) \/ BeginStop(c) \/ CallerSteps(c)
      PROVE  IInv'
  BY <1>1, <1>2, CommandStepType, CommandStepOrder DEF IInv
<1>3. ASSUME NEW r \in Runs, SinkNext(r)
      PROVE  IInv'
  <2>1. UNCHANGED <<run, caller>>
    BY <1>3 DEF SinkNext, SinkOpen, SinkPop, SinkAccepts, SinkFails, SinkRefreshed,
                SinkClose, SinkFinal
  <2>2. HandlesNamed'
    BY <2>1 DEF HandlesNamed
  <2>3. QED
    BY <1>1, <1>3, <2>2, SinkStepType, SinkStepOrder DEF IInv
<1>4. ASSUME NEW r \in Runs, CaptureNext(r)
      PROVE  IInv'
  <2>1. UNCHANGED <<run, caller>>
    BY <1>4 DEF CaptureNext, CaptureOpen, CaptureCheck, CaptureRead, CapturePush,
                CaptureCount, CaptureStop, CaptureFinish
  <2>2. HandlesNamed'
    BY <2>1 DEF HandlesNamed
  <2>3. QED
    BY <1>1, <1>4, <2>2, CaptureStepType, CaptureStepOrder DEF IInv
<1>5. ASSUME NEW t \in Threads, RecordFailure(t)
      PROVE  IInv'
  <2>1. UNCHANGED <<run, caller>>
    BY <1>5 DEF RecordFailure, Exchange, RaiseStop, FailQueue, Publish
  <2>2. HandlesNamed'
    BY <2>1 DEF HandlesNamed
  <2>3. QED
    BY <1>1, <1>5, <2>2, FailureStepType, FailureStepOrder DEF IInv
<1>6. CASE UNCHANGED vars
  <2>1. TypeOK'
    BY <1>6 DEF TypeOK, vars
  <2>2. HandlesNamed' /\ CaptureOrder'
    BY <1>6 DEF HandlesNamed, CaptureOrder, vars
  <2>3. QED
    BY <1>1, <2>1, <2>2 DEF IInv
<1>7. QED
  BY <1>2, <1>3, <1>4, <1>5, <1>6 DEF Next

\* Every variable keeps its type and no queue outgrows QUEUE_CAPACITY
\* (FrameQueue::push and its callers), whatever the callers do.
THEOREM TypeCorrect == Spec => []TypeOK
<1>1. IInv => TypeOK
  BY DEF IInv
<1>2. QED
  BY <1>1, InitIInv, NextIInv, PTL DEF Spec

\* Frames reach the output session in capture order and none twice
\* (capture_worker, FrameQueue, sink_worker), for every number of concurrent
\* callers and even when workers outlive the commands that joined them.
THEOREM CaptureOrderCorrect == Spec => []CaptureOrder
<1>1. IInv => CaptureOrder
  BY DEF IInv
<1>2. QED
  BY <1>1, InitIInv, NextIInv, PTL DEF Spec

-----------------------------------------------------------------------------
(***************************************************************************)
(* A published failure is never hidden, for every set of callers and every *)
(* bound, as long as no worker outlives a join: whatever commands overlap, *)
(* none of them writes another state over Failed and then returns.         *)
(*                                                                         *)
(* The property is not inductive: between the exchange and the publication *)
(* the failure is not yet to be seen, a start that has replaced the        *)
(* snapshot has still to reset the flag, and a stop that overtook the      *)
(* publication shows Stopping until it has cleaned up.                     *)
(***************************************************************************)

\* What record_failure is about to record is an error.
ErrorsNamed == \A t \in Threads : Free(t) \/ fault[t].error # "None"

\* Only a stop writes Stopping and Stopped.
StopsOnly ==
  \A c \in Callers : caller[c].pc \in {"set_stopping", "set_stopped"} => caller[c].goal = "stop"

\* Every worker has answered every join.
JoinsInTime == \A c \in Callers : ~caller[c].joinFailed

\* A start between its new snapshot and the reset of the failure flag.
Resetting(c) == caller[c].pc \in {"reset_stop", "reset_failure"}

\* A stop that may have written Stopping and will write Stopped.
Stopping(c) ==
  /\ caller[c].goal = "stop"
  /\ caller[c].pc \in {"request_stop", "take", "join_capture", "join_sink", "clear", "set_stopped"}

Shown ==
  /\ snapshot.error # "None"
  /\ snapshot.state \in {"Failed", "Stopped"} \/ \E c \in Callers : Stopping(c)

Visible == terminalFailure => Publishing \/ (\E c \in Callers : Resetting(c)) \/ Shown

VInv == IInv /\ ErrorsNamed /\ StopsOnly /\ JoinsInTime /\ Visible

-----------------------------------------------------------------------------
(* The threads that record failures.                                       *)

\* A free thread that enters record_failure leaves the others publishing.
LEMMA RaiseShows ==
  ASSUME TypeOK, ErrorsNamed, NEW t \in Threads, Free(t), NEW e, e # "None", NEW r, Raise(t, e, r)
  PROVE  ErrorsNamed' /\ (Publishing => Publishing')
<1>1. /\ fault'[t].error = e
      /\ \A u \in Threads \ {t} : fault'[u] = fault[u]
  BY DEF TypeOK, Raise
<1>2. fault[t].step = "none"
  BY DEF Free, NoFault
<1>3. ErrorsNamed'
  BY <1>1 DEF ErrorsNamed, Free
<1>4. ASSUME Publishing PROVE Publishing'
  <2>1. PICK u \in Threads : fault[u].step \in {"request", "fail_queue", "publish"}
    BY <1>4 DEF Publishing
  <2>2. u # t
    BY <1>2, <2>1
  <2>3. QED
    BY <1>1, <2>1, <2>2 DEF Publishing
<1>5. QED
  BY <1>3, <1>4

LEMMA FailureShows ==
  ASSUME TypeOK, ErrorsNamed, Visible, NEW t \in Threads, RecordFailure(t)
  PROVE  ErrorsNamed' /\ Visible'
<1>0. fault \in [Threads -> FaultType] /\ fault[t] \in FaultType
  BY DEF TypeOK
<1>1. \A c \in Callers : Resetting(c)' = Resetting(c) /\ Stopping(c)' = Stopping(c)
  BY DEF RecordFailure, Exchange, RaiseStop, FailQueue, Publish, Resetting, Stopping
<1>2. fault[t].step # "none" => fault[t].error # "None"
  BY DEF ErrorsNamed, Free, NoFault
<1>3. \A u \in Threads \ {t} : fault'[u] = fault[u]
  BY <1>0 DEF RecordFailure, Exchange, RaiseStop, FailQueue, Publish
<1>4. CASE Exchange(t)
  <2>1. CASE terminalFailure
    <3>1. fault'[t] = NoFault
      BY <1>0, <1>4, <2>1 DEF Exchange
    <3>2. Publishing => Publishing'
      BY <1>3, <1>4 DEF Publishing, Exchange
    <3>3. snapshot' = snapshot
      BY <1>4 DEF Exchange
    <3>4. QED
      BY <1>1, <1>3, <2>1, <3>1, <3>2, <3>3 DEF ErrorsNamed, Free, Visible, Shown
  <2>2. CASE ~terminalFailure
    <3>1. fault'[t].step = "request" /\ fault'[t].error = fault[t].error
      BY <1>0, <1>4, <2>2 DEF Exchange, FaultType
    <3>2. Publishing'
      BY <3>1 DEF Publishing
    <3>3. fault[t].error # "None"
      BY <1>2, <1>4 DEF Exchange
    <3>4. QED
      BY <1>3, <3>1, <3>2, <3>3 DEF ErrorsNamed, Free, Visible
  <2>3. QED
    BY <2>1, <2>2
<1>5. CASE RaiseStop(t) \/ FailQueue(t)
  <2>1. fault'[t].step \in {"fail_queue", "publish"} /\ fault'[t].error = fault[t].error
    BY <1>0, <1>5 DEF RaiseStop, FailQueue, FaultType
  <2>2. Publishing'
    BY <2>1 DEF Publishing
  <2>3. fault[t].error # "None"
    BY <1>2, <1>5 DEF RaiseStop, FailQueue
  <2>4. QED
    BY <1>3, <2>1, <2>2, <2>3 DEF ErrorsNamed, Free, Visible
<1>6. CASE Publish(t)
  <2>1. fault'[t] = NoFault
    BY <1>0, <1>6 DEF Publish
  <2>2. fault[t].error # "None"
    BY <1>2, <1>6 DEF Publish
  <2>3. snapshot'.state = "Failed" /\ snapshot'.error = fault[t].error
    BY <1>6 DEF Publish, TypeOK, SnapshotType
  <2>4. QED
    BY <1>3, <2>1, <2>2, <2>3 DEF ErrorsNamed, Free, Visible, Shown
<1>7. QED
  BY <1>4, <1>5, <1>6 DEF RecordFailure

-----------------------------------------------------------------------------
(* The workers.  They write counters, not states.                          *)

\* A step that leaves the state, the error, the flag and the commands alone.
LEMMA AsideShows ==
  ASSUME Visible, Publishing => Publishing', terminalFailure' = terminalFailure,
         caller' = caller, snapshot'.state = snapshot.state, snapshot'.error = snapshot.error
  PROVE  Visible'
<1>1. \A c \in Callers : Resetting(c)' = Resetting(c) /\ Stopping(c)' = Stopping(c)
  BY DEF Resetting, Stopping
<1>2. QED
  BY <1>1 DEF Visible, Shown

LEMMA SinkShows ==
  ASSUME TypeOK, ErrorsNamed, Visible, NEW r \in Runs, SinkNext(r)
  PROVE  ErrorsNamed' /\ Visible'
<1>0. SinkThread(r) \in Threads
  BY DEF SinkThread, Threads, WorkerThreads
<1>1. terminalFailure' = terminalFailure /\ caller' = caller
  BY DEF SinkNext, SinkOpen, SinkPop, SinkAccepts, SinkFails, SinkRefreshed, SinkClose, SinkFinal
<1>2. snapshot'.state = snapshot.state /\ snapshot'.error = snapshot.error
  BY DEF SinkNext, SinkOpen, SinkPop, SinkAccepts, SinkFails, SinkRefreshed, SinkClose, SinkFinal,
         TypeOK, SnapshotType
<1>3. \/ fault' = fault
      \/ Free(SinkThread(r)) /\ Raise(SinkThread(r), "SinkFailure", r)
  BY DEF SinkNext, SinkOpen, SinkPop, SinkAccepts, SinkFails, SinkRefreshed, SinkClose, SinkFinal,
         SinkAt
<1>4. ErrorsNamed' /\ (Publishing => Publishing')
  <2>1. CASE fault' = fault
    BY <2>1 DEF ErrorsNamed, Free, Publishing
  <2>2. QED
    BY <1>0, <1>3, <2>1, RaiseShows
<1>5. QED
  BY <1>1, <1>2, <1>4, AsideShows

LEMMA CaptureShows ==
  ASSUME TypeOK, ErrorsNamed, Visible, NEW r \in Runs, CaptureNext(r)
  PROVE  ErrorsNamed' /\ Visible'
<1>0. CaptureThread(r) \in Threads
  BY DEF CaptureThread, Threads, WorkerThreads
<1>1. terminalFailure' = terminalFailure /\ caller' = caller
  BY DEF CaptureNext, CaptureOpen, CaptureCheck, CaptureRead, CapturePush, CaptureCount,
         CaptureStop, CaptureFinish
<1>2. snapshot'.state = snapshot.state /\ snapshot'.error = snapshot.error
  BY DEF CaptureNext, CaptureOpen, CaptureCheck, CaptureRead, CapturePush, CaptureCount,
         CaptureStop, CaptureFinish, TypeOK, SnapshotType
<1>3. \/ fault' = fault
      \/ Free(CaptureThread(r)) /\ Raise(CaptureThread(r), "SourceFailure", r)
  BY DEF CaptureNext, CaptureOpen, CaptureCheck, CaptureRead, CapturePush, CaptureCount,
         CaptureStop, CaptureFinish, CaptureAt
<1>4. ErrorsNamed' /\ (Publishing => Publishing')
  <2>1. CASE fault' = fault
    BY <2>1 DEF ErrorsNamed, Free, Publishing
  <2>2. QED
    BY <1>0, <1>3, <2>1, RaiseShows
<1>5. QED
  BY <1>1, <1>2, <1>4, AsideShows

-----------------------------------------------------------------------------
(* The commands.  Command c becomes e: either it has just replaced the     *)
(* snapshot, or what was to be seen of a failure still is.                 *)

ResettingPcs == {"reset_stop", "reset_failure"}
StoppingPcs == {"request_stop", "take", "join_capture", "join_sink", "clear", "set_stopped"}
StoppingAs(e) == e.goal = "stop" /\ e.pc \in StoppingPcs

KeepsShowing(c, e) ==
  terminalFailure' =>
    /\ terminalFailure
    /\ ~Resetting(c)
    /\ snapshot'.error = snapshot.error
    /\ \/ snapshot'.state \in {"Failed", "Stopped"}
       \/ StoppingAs(e)
       \/ snapshot'.state = snapshot.state /\ ~Stopping(c)

ShowingMove(c, e) ==
  /\ Become(c, e)
  /\ ~e.joinFailed
  /\ e.pc \in {"set_stopping", "set_stopped"} => e.goal = "stop"
  /\ e.pc \in ResettingPcs \/ KeepsShowing(c, e)

ShowingMoves(c) == \E e : ShowingMove(c, e)

\* Every such move keeps the failure to be seen.
LEMMA MoveShows ==
  ASSUME TypeOK, StopsOnly, JoinsInTime, Visible, NEW c \in Callers, ShowingMoves(c),
         Publishing => Publishing'
  PROVE  StopsOnly' /\ JoinsInTime' /\ Visible'
<1>0. PICK e : ShowingMove(c, e)
  BY DEF ShowingMoves
<1>1. caller'[c] = e /\ \A d \in Callers \ {c} : caller'[d] = caller[d]
  BY <1>0 DEF ShowingMove, Become, TypeOK
<1>2. StopsOnly' /\ JoinsInTime'
  BY <1>0, <1>1 DEF ShowingMove, StopsOnly, JoinsInTime
<1>3. \A d \in Callers \ {c} : Resetting(d)' = Resetting(d) /\ Stopping(d)' = Stopping(d)
  BY <1>1 DEF Resetting, Stopping
<1>4. CASE e.pc \in ResettingPcs
  <2>1. Resetting(c)'
    BY <1>1, <1>4 DEF Resetting, ResettingPcs
  <2>2. QED
    BY <1>2, <2>1 DEF Visible
<1>5. CASE terminalFailure' /\ KeepsShowing(c, e)
  <2>1. terminalFailure /\ ~Resetting(c) /\ snapshot'.error = snapshot.error
    BY <1>5 DEF KeepsShowing
  <2>2. CASE Publishing
    BY <1>2, <2>2 DEF Visible
  <2>3. CASE \E d \in Callers : Resetting(d)
    <3>1. PICK d \in Callers \ {c} : Resetting(d)
      BY <2>1, <2>3
    <3>2. QED
      BY <1>2, <1>3, <3>1 DEF Visible
  <2>4. CASE Shown
    <3>1. StoppingAs(e) => Stopping(c)'
      BY <1>1 DEF StoppingAs, StoppingPcs, Stopping
    <3>2. Shown'
      <4>1. CASE snapshot'.state \in {"Failed", "Stopped"} \/ StoppingAs(e)
        BY <2>1, <2>4, <3>1, <4>1 DEF Shown
      <4>2. CASE snapshot'.state = snapshot.state /\ ~Stopping(c)
        <5>1. CASE snapshot.state \in {"Failed", "Stopped"}
          BY <2>1, <2>4, <4>2, <5>1 DEF Shown
        <5>2. CASE \E d \in Callers : Stopping(d)
          <6>1. PICK d \in Callers \ {c} : Stopping(d)
            BY <4>2, <5>2
          <6>2. QED
            BY <1>3, <2>1, <2>4, <6>1 DEF Shown
        <5>3. QED
          BY <2>4, <5>1, <5>2 DEF Shown
      <4>3. QED
        BY <1>5, <4>1, <4>2 DEF KeepsShowing
    <3>3. QED
      BY <1>2, <3>2 DEF Visible
  <2>5. QED
    BY <2>1, <2>2, <2>3, <2>4 DEF Visible
<1>6. CASE ~terminalFailure'
  BY <1>2, <1>6 DEF Visible
<1>7. QED
  BY <1>0, <1>4, <1>5, <1>6 DEF ShowingMove

\* A command that neither stops nor resets and leaves the snapshot alone.
LEMMA ElsewhereShows ==
  ASSUME TypeOK, NEW c \in Callers, NEW e, Become(c, e), ~e.joinFailed,
         e.pc \notin {"set_stopping", "set_stopped"} \/ e.goal = "stop",
         ~Resetting(c), ~Stopping(c) \/ StoppingAs(e), snapshot' = snapshot,
         terminalFailure' = terminalFailure
  PROVE  ShowingMoves(c)
BY DEF ShowingMoves, ShowingMove, KeepsShowing

\* Going on to another program counter changes nothing else of the command.
LEMMA GoShows ==
  ASSUME TypeOK, NEW c \in Callers, NEW pc, Go(c, pc)
  PROVE  \E e : /\ Become(c, e)
                /\ e.pc = pc
                /\ e.goal = caller[c].goal
                /\ e.joinFailed = caller[c].joinFailed
<1> DEFINE e == [caller[c] EXCEPT !.pc = pc]
<1>1. caller[c] \in CallerType
  BY DEF TypeOK
<1>2. e.pc = pc /\ e.goal = caller[c].goal /\ e.joinFailed = caller[c].joinFailed
  BY <1>1 DEF CallerType
<1>3. Become(c, e)
  BY DEF Go
<1> HIDE DEF e
<1>4. QED
  BY <1>2, <1>3

\* A command that returns and leaves the failure to be seen.
LEMMA ReturnShows ==
  ASSUME NEW c \in Callers, Return(c), KeepsShowing(c, IdleCaller)
  PROVE  ShowingMoves(c)
<1>1. ~IdleCaller.joinFailed /\ IdleCaller.pc \notin {"set_stopping", "set_stopped"}
  BY DEF IdleCaller
<1>2. Become(c, IdleCaller)
  BY DEF Return
<1>3. QED
  BY <1>1, <1>2 DEF ShowingMoves, ShowingMove

\* Where a successful cleanup leads.
LEMMA AfterCleanupShows ==
  ASSUME TypeOK, JoinsInTime, NEW c \in Callers, AfterCleanup(c), ~Resetting(c),
         snapshot'.state = snapshot.state, snapshot'.error = snapshot.error,
         terminalFailure' = terminalFailure
  PROVE  ShowingMoves(c)
<1>1. CASE caller[c].goal = "start"
  <2>1. PICK e : Become(c, e) /\ e.pc = "resolve" /\ ~e.joinFailed
    BY <1>1, GoShows DEF AfterCleanup, JoinsInTime
  <2>2. ~Stopping(c)
    BY <1>1 DEF Stopping
  <2>3. KeepsShowing(c, e)
    BY <2>2 DEF KeepsShowing
  <2>4. QED
    BY <2>1, <2>3 DEF ShowingMoves, ShowingMove
<1>2. CASE caller[c].goal = "stop"
  <2>1. PICK e : Become(c, e) /\ e.pc = "set_stopped" /\ e.goal = "stop" /\ ~e.joinFailed
    BY <1>2, GoShows DEF AfterCleanup, JoinsInTime
  <2>2. StoppingAs(e)
    BY <2>1 DEF StoppingAs, StoppingPcs
  <2>3. KeepsShowing(c, e)
    BY <2>2 DEF KeepsShowing
  <2>4. QED
    BY <2>1, <2>3 DEF ShowingMoves, ShowingMove
<1>3. CASE caller[c].goal \notin {"start", "stop"}
  <2>1. Return(c)
    BY <1>3 DEF AfterCleanup
  <2>2. ~Stopping(c)
    BY <1>3 DEF Stopping
  <2>3. KeepsShowing(c, IdleCaller)
    BY <2>2 DEF KeepsShowing
  <2>4. QED
    BY <2>1, <2>3, ReturnShows
<1>4. QED
  BY <1>1, <1>2, <1>3

\* A start that gives up has published nothing yet: its thread has still to
\* enter the exchange.
LEMMA GiveUpShows ==
  ASSUME TypeOK, JoinsInTime, NEW c \in Callers, NEW error, GiveUpEarly(c, error),
         ~Resetting(c), ~Stopping(c), snapshot' = snapshot, terminalFailure' = terminalFailure
  PROVE  ShowingMoves(c)
<1> DEFINE e == [caller[c] EXCEPT !.pc = "join_capture", !.goal = "park"]
<1>1. caller[c] \in CallerType
  BY DEF TypeOK
<1>2. e.pc = "join_capture" /\ ~e.joinFailed
  BY <1>1 DEF CallerType, JoinsInTime
<1>3. Become(c, e)
  BY DEF GiveUpEarly
<1> HIDE DEF e
<1>4. QED
  BY <1>2, <1>3, ElsewhereShows

LEMMA StartStepShows ==
  ASSUME TypeOK, JoinsInTime, NEW c \in Callers, StartSteps(c)
  PROVE  ShowingMoves(c)
<1>0. caller[c] \in CallerType /\ ~caller[c].joinFailed
  BY DEF TypeOK, JoinsInTime
<1>1. CASE Resolve(c)
  <2>1. ~Resetting(c) /\ ~Stopping(c) /\ terminalFailure' = terminalFailure
    BY <1>1 DEF Resolve, CallerAt, Resetting, Stopping
  <2>2. CASE Return(c) /\ snapshot' = snapshot
    BY <2>1, <2>2, ReturnShows DEF KeepsShowing
  <2> DEFINE h == [NoHandles EXCEPT !.run = lastRun + 1]
             e == [caller[c] EXCEPT !.pc = "reset_stop", !.target = lastRun + 1, !.held = h]
  <2>3. CASE Become(c, e)
    <3> HIDE DEF h
    <3>1. e.pc = "reset_stop" /\ ~e.joinFailed
      BY <1>0 DEF CallerType
    <3> HIDE DEF e
    <3>2. QED
      BY <2>3, <3>1 DEF ShowingMoves, ShowingMove, ResettingPcs
  <2>4. QED
    BY <1>1, <2>2, <2>3 DEF Resolve
<1>2. CASE ResetStop(c)
  <2>1. PICK e : Become(c, e) /\ e.pc = "reset_failure" /\ ~e.joinFailed
    BY <1>0, <1>2, GoShows DEF ResetStop
  <2>2. QED
    BY <2>1 DEF ShowingMoves, ShowingMove, ResettingPcs
<1>3. CASE ResetFailure(c)
  <2>1. PICK e : Become(c, e) /\ e.pc = "spawn_sink" /\ ~e.joinFailed
    BY <1>0, <1>3, GoShows DEF ResetFailure
  <2>2. KeepsShowing(c, e)
    BY <1>3 DEF ResetFailure, KeepsShowing
  <2>3. QED
    BY <2>1, <2>2 DEF ShowingMoves, ShowingMove
<1>4. CASE SpawnSink(c)
  <2>1. ~Resetting(c) /\ ~Stopping(c) /\ snapshot' = snapshot /\ terminalFailure' = terminalFailure
    BY <1>4 DEF SpawnSink, CallerAt, Resetting, Stopping
  <2> DEFINE h == [caller[c].held EXCEPT !.sink = TRUE]
             e == [caller[c] EXCEPT !.pc = "wait_sink", !.held = h]
  <2>2. CASE Become(c, [caller[c] EXCEPT !.pc = "wait_sink", !.held.sink = TRUE])
    <3>1. Become(c, e)
      BY <1>0, <2>2 DEF Become, CallerType
    <3> HIDE DEF h
    <3>2. e.pc = "wait_sink" /\ ~e.joinFailed
      BY <1>0 DEF CallerType
    <3> HIDE DEF e
    <3>3. QED
      BY <2>1, <3>1, <3>2, ElsewhereShows
  <2>3. CASE Return(c)
    BY <2>1, <2>3, ReturnShows DEF KeepsShowing
  <2>4. QED
    BY <1>4, <2>2, <2>3 DEF SpawnSink
<1>5. CASE WaitSink(c)
  <2>1. ~Resetting(c) /\ ~Stopping(c) /\ snapshot' = snapshot /\ terminalFailure' = terminalFailure
    BY <1>5 DEF WaitSink, CallerAt, Resetting, Stopping
  <2>2. CASE Go(c, "spawn_capture")
    <3>1. PICK e : Become(c, e) /\ e.pc = "spawn_capture" /\ ~e.joinFailed
      BY <1>0, <2>2, GoShows
    <3>2. QED
      BY <2>1, <3>1, ElsewhereShows
  <2>3. CASE GiveUpEarly(c, "SinkFailure") \/ GiveUpEarly(c, "WorkerFailure")
    BY <2>1, <2>3, GiveUpShows
  <2>4. QED
    BY <1>5, <2>2, <2>3 DEF WaitSink
<1>6. CASE SpawnCapture(c)
  <2>1. ~Resetting(c) /\ ~Stopping(c) /\ snapshot' = snapshot /\ terminalFailure' = terminalFailure
    BY <1>6 DEF SpawnCapture, CallerAt, Resetting, Stopping
  <2> DEFINE h == [caller[c].held EXCEPT !.capture = TRUE]
             e == [caller[c] EXCEPT !.pc = "install", !.held = h]
  <2>2. CASE Become(c, [caller[c] EXCEPT !.pc = "install", !.held.capture = TRUE])
    <3>1. Become(c, e)
      BY <1>0, <2>2 DEF Become, CallerType
    <3> HIDE DEF h
    <3>2. e.pc = "install" /\ ~e.joinFailed
      BY <1>0 DEF CallerType
    <3> HIDE DEF e
    <3>3. QED
      BY <2>1, <3>1, <3>2, ElsewhereShows
  <2>3. CASE GiveUpEarly(c, "WorkerFailure")
    BY <2>1, <2>3, GiveUpShows
  <2>4. QED
    BY <1>6, <2>2, <2>3 DEF SpawnCapture
<1>7. CASE InstallRun(c)
  <2>1. ~Resetting(c) /\ ~Stopping(c) /\ snapshot' = snapshot /\ terminalFailure' = terminalFailure
    BY <1>7 DEF InstallRun, CallerAt, Resetting, Stopping
  <2> DEFINE e == [caller[c] EXCEPT !.pc = "wait_capture", !.held = NoHandles]
  <2>2. e.pc = "wait_capture" /\ ~e.joinFailed
    BY <1>0 DEF CallerType
  <2>3. Return(c) \/ Become(c, e)
    BY <1>7 DEF InstallRun
  <2> HIDE DEF e
  <2>4. CASE Return(c)
    BY <2>1, <2>4, ReturnShows DEF KeepsShowing
  <2>5. CASE Become(c, e)
    BY <2>1, <2>2, <2>5, ElsewhereShows
  <2>6. QED
    BY <2>3, <2>4, <2>5
<1>8. CASE WaitCapture(c)
  <2>1. ~Resetting(c) /\ ~Stopping(c) /\ snapshot' = snapshot /\ terminalFailure' = terminalFailure
    BY <1>8 DEF WaitCapture, CallerAt, Resetting, Stopping
  <2> DEFINE e == [caller[c] EXCEPT !.pc = "request_stop", !.goal = "abort"]
  <2>2. e.pc = "request_stop" /\ ~e.joinFailed
    BY <1>0 DEF CallerType
  <2>3. Go(c, "finish_start") \/ Become(c, e)
    BY <1>8 DEF WaitCapture
  <2> HIDE DEF e
  <2>4. CASE Go(c, "finish_start")
    <3>1. PICK f : Become(c, f) /\ f.pc = "finish_start" /\ ~f.joinFailed
      BY <1>0, <2>4, GoShows
    <3>2. QED
      BY <2>1, <3>1, ElsewhereShows
  <2>5. CASE Become(c, e)
    BY <2>1, <2>2, <2>5, ElsewhereShows
  <2>6. QED
    BY <2>3, <2>4, <2>5
<1>9. CASE FinishStart(c)
  <2>1. ~Resetting(c) /\ ~Stopping(c) /\ terminalFailure' = terminalFailure /\ Return(c)
    BY <1>9 DEF FinishStart, CallerAt, Resetting, Stopping
  <2>2. terminalFailure => snapshot' = snapshot
    BY <1>9 DEF FinishStart
  <2>3. QED
    BY <2>1, <2>2, ReturnShows DEF KeepsShowing
<1>10. QED
  BY <1>1, <1>2, <1>3, <1>4, <1>5, <1>6, <1>7, <1>8, <1>9 DEF StartSteps

LEMMA CleanupStepShows ==
  ASSUME TypeOK, JoinsInTime, "slow_join" \notin Faults, NEW c \in Callers, CleanupSteps(c)
  PROVE  ShowingMoves(c)
<1>0. caller[c] \in CallerType /\ ~caller[c].joinFailed
  BY DEF TypeOK, JoinsInTime
<1>1. CASE RequestStop(c)
  <2>1. PICK e : Become(c, e) /\ e.pc = "take" /\ e.goal = caller[c].goal /\ ~e.joinFailed
    BY <1>0, <1>1, GoShows DEF RequestStop
  <2>2. ~Resetting(c) /\ (Stopping(c) => StoppingAs(e))
    BY <1>1, <2>1 DEF RequestStop, CallerAt, Resetting, Stopping, StoppingAs, StoppingPcs
  <2>3. QED
    BY <1>1, <2>1, <2>2, ElsewhereShows DEF RequestStop
<1>2. CASE TakeRun(c)
  <2>1. ~Resetting(c) /\ snapshot' = snapshot /\ terminalFailure' = terminalFailure
    BY <1>2 DEF TakeRun, CallerAt, Resetting
  <2>2. CASE AfterCleanup(c)
    BY <2>1, <2>2, AfterCleanupShows
  <2> DEFINE e == [caller[c] EXCEPT !.pc = "join_capture", !.held = run]
  <2>3. CASE Become(c, e)
    <3>1. e.pc = "join_capture" /\ e.goal = caller[c].goal /\ ~e.joinFailed
      BY <1>0 DEF CallerType
    <3> HIDE DEF e
    <3>2. Stopping(c) => StoppingAs(e)
      BY <3>1 DEF Stopping, StoppingAs, StoppingPcs
    <3>3. QED
      BY <2>1, <2>3, <3>1, <3>2, ElsewhereShows
  <2>4. QED
    BY <1>2, <2>2, <2>3 DEF TakeRun
<1>3. CASE JoinCapture(c)
  <2>1. ~Resetting(c) /\ snapshot' = snapshot /\ terminalFailure' = terminalFailure
    BY <1>3 DEF JoinCapture, CallerAt, Resetting
  <2>2. Become(c, [caller[c] EXCEPT !.pc = "join_sink", !.held.capture = FALSE,
                                    !.joinFailed = FALSE])
    BY <1>3 DEF JoinCapture
  <2> DEFINE h == [caller[c].held EXCEPT !.capture = FALSE]
             e == [caller[c] EXCEPT !.pc = "join_sink", !.held = h, !.joinFailed = FALSE]
  <2>3. Become(c, e)
    BY <1>0, <2>2 DEF Become, CallerType
  <2> HIDE DEF h
  <2>4. e.pc = "join_sink" /\ e.goal = caller[c].goal /\ ~e.joinFailed
    BY <1>0 DEF CallerType
  <2> HIDE DEF e
  <2>5. Stopping(c) => StoppingAs(e)
    BY <2>4 DEF Stopping, StoppingAs, StoppingPcs
  <2>6. QED
    BY <2>1, <2>3, <2>4, <2>5, ElsewhereShows
<1>4. CASE JoinSink(c)
  <2>1. ~Resetting(c) /\ snapshot' = snapshot /\ terminalFailure' = terminalFailure
    BY <1>4 DEF JoinSink, CallerAt, Resetting
  <2>2. AfterJoin(c, FALSE)
    <3>1. caller[c].joinFailed = FALSE
      BY <1>0 DEF CallerType
    <3>2. QED
      BY <1>4, <3>1 DEF JoinSink
  <2> DEFINE h == [caller[c].held EXCEPT !.sink = FALSE]
             installing == [caller[c] EXCEPT !.pc = "install", !.held = h, !.joinFailed = FALSE]
             clearing == [caller[c] EXCEPT !.pc = "clear", !.held = h]
  <2>3. \/ caller[c].goal = "park" /\ Become(c, installing)
        \/ Become(c, clearing)
    BY <1>0, <2>2 DEF AfterJoin, Become, CallerType
  <2> HIDE DEF h
  <2>4. /\ installing.pc = "install" /\ ~installing.joinFailed
        /\ clearing.pc = "clear" /\ clearing.goal = caller[c].goal /\ ~clearing.joinFailed
    BY <1>0 DEF CallerType
  <2> HIDE DEF installing, clearing
  <2>5. CASE caller[c].goal = "park" /\ Become(c, installing)
    <3>1. ~Stopping(c)
      BY <2>5 DEF Stopping
    <3>2. QED
      BY <2>1, <2>4, <2>5, <3>1, ElsewhereShows
  <2>6. CASE Become(c, clearing)
    <3>1. Stopping(c) => StoppingAs(clearing)
      BY <2>4 DEF Stopping, StoppingAs, StoppingPcs
    <3>2. QED
      BY <2>1, <2>4, <2>6, <3>1, ElsewhereShows
  <2>7. QED
    BY <2>3, <2>5, <2>6
<1>5. CASE ClearQueue(c)
  <2>1. snapshot'.state = snapshot.state /\ snapshot'.error = snapshot.error
    BY <1>5 DEF ClearQueue, TypeOK, SnapshotType
  <2>2. ~Resetting(c) /\ AfterCleanup(c) /\ terminalFailure' = terminalFailure
    BY <1>5 DEF ClearQueue, CallerAt, Resetting
  <2>3. QED
    BY <2>1, <2>2, AfterCleanupShows
<1>6. QED
  BY <1>1, <1>2, <1>3, <1>4, <1>5 DEF CleanupSteps

LEMMA CommandStepShows ==
  ASSUME TypeOK, JoinsInTime, StopsOnly, "slow_join" \notin Faults, NEW c \in Callers,
         BeginStart(c) \/ BeginStop(c) \/ CallerSteps(c)
  PROVE  ShowingMoves(c)
<1>0. caller[c] \in CallerType /\ ~caller[c].joinFailed
  BY DEF TypeOK, JoinsInTime
<1>1. CASE BeginStart(c) \/ BeginStop(c)
  <2>1. /\ ~Resetting(c) /\ ~Stopping(c)
        /\ snapshot' = snapshot /\ terminalFailure' = terminalFailure
    BY <1>1 DEF BeginStart, BeginStop, CallerAt, Resetting, Stopping
  <2>2. PICK pc \in {"request_stop", "resolve", "set_stopping"}, goal \in {"start", "stop"} :
          /\ Become(c, [caller[c] EXCEPT !.pc = pc, !.goal = goal])
          /\ pc = "set_stopping" => goal = "stop"
    BY <1>1 DEF BeginStart, BeginStop
  <2> DEFINE e == [caller[c] EXCEPT !.pc = pc, !.goal = goal]
  <2>3. e.pc = pc /\ e.goal = goal /\ ~e.joinFailed
    BY <1>0 DEF CallerType
  <2>4. Become(c, e)
    BY <2>2
  <2> HIDE DEF e
  <2>5. QED
    BY <2>1, <2>2, <2>3, <2>4, ElsewhereShows
<1>2. CASE SetStopping(c)
  <2>1. PICK e : Become(c, e) /\ e.pc = "request_stop" /\ e.goal = caller[c].goal /\ ~e.joinFailed
    BY <1>0, <1>2, GoShows DEF SetStopping
  <2>2. ~Resetting(c) /\ StoppingAs(e)
    BY <1>2, <2>1 DEF SetStopping, CallerAt, StopsOnly, Resetting, StoppingAs, StoppingPcs
  <2>3. snapshot'.error = snapshot.error /\ terminalFailure' = terminalFailure
    BY <1>2 DEF SetStopping, TypeOK, SnapshotType
  <2>4. KeepsShowing(c, e)
    BY <2>2, <2>3 DEF KeepsShowing
  <2>5. QED
    BY <2>1, <2>4 DEF ShowingMoves, ShowingMove
<1>3. CASE SetStopped(c)
  <2>1. ~Resetting(c) /\ terminalFailure' = terminalFailure /\ Return(c)
    BY <1>3 DEF SetStopped, CallerAt, Resetting
  <2>2. snapshot'.state = "Stopped" /\ snapshot'.error = snapshot.error
    BY <1>3 DEF SetStopped, TypeOK, SnapshotType
  <2>3. QED
    BY <2>1, <2>2, ReturnShows DEF KeepsShowing
<1>4. QED
  BY <1>1, <1>2, <1>3, StartStepShows, CleanupStepShows DEF CallerSteps

\* The thread of a command is free when the command fails, and the error it
\* records has a name.
LEMMA CommandStepRaises ==
  ASSUME TypeOK, ErrorsNamed, NEW c \in Callers,
         BeginStart(c) \/ BeginStop(c) \/ CallerSteps(c)
  PROVE  ErrorsNamed' /\ (Publishing => Publishing')
<1>0. CallerThread(c) \in Threads
  BY DEF CallerThread, Threads
<1>1. \/ fault' = fault
      \/ Free(CallerThread(c)) /\ \E e \in Errors \ {"None"} : \E r : Raise(CallerThread(c), e, r)
  <2>1. CASE BeginStart(c) \/ BeginStop(c) \/ SetStopping(c) \/ SetStopped(c)
    BY <2>1 DEF BeginStart, BeginStop, SetStopping, SetStopped
  <2>2. CASE CleanupSteps(c)
    BY <2>2 DEF CleanupSteps, RequestStop, TakeRun, JoinCapture, JoinSink, ClearQueue
  <2>3. CASE StartSteps(c)
    BY <2>3 DEF StartSteps, Resolve, ResetStop, ResetFailure, SpawnSink, WaitSink, SpawnCapture,
         InstallRun, WaitCapture, FinishStart, GiveUpEarly, CallerAt, Errors
  <2>4. QED
    BY <2>1, <2>2, <2>3 DEF CallerSteps
<1>2. CASE fault' = fault
  BY <1>2 DEF ErrorsNamed, Free, Publishing
<1>3. QED
  BY <1>0, <1>1, <1>2, RaiseShows

-----------------------------------------------------------------------------
(* The theorem.                                                            *)

LEMMA InitShows == Init => VInv
<1> SUFFICES ASSUME Init
             PROVE  ErrorsNamed /\ StopsOnly /\ JoinsInTime /\ Visible
  BY InitIInv DEF VInv
<1>1. ErrorsNamed /\ Visible
  BY DEF Init, ErrorsNamed, Free, Visible
<1>2. StopsOnly /\ JoinsInTime
  BY DEF Init, StopsOnly, JoinsInTime, IdleCaller
<1>3. QED
  BY <1>1, <1>2

LEMMA NextShows ==
  ASSUME "slow_join" \notin Faults, VInv, [Next]_vars
  PROVE  VInv'
<1> SUFFICES ErrorsNamed' /\ StopsOnly' /\ JoinsInTime' /\ Visible'
  BY NextIInv DEF VInv
<1>0. TypeOK /\ ErrorsNamed /\ StopsOnly /\ JoinsInTime /\ Visible
  BY DEF VInv, IInv
<1>1. ASSUME NEW c \in Callers, BeginStart(c) \/ BeginStop(c) \/ CallerSteps(c)
      PROVE  ErrorsNamed' /\ StopsOnly' /\ JoinsInTime' /\ Visible'
  BY <1>0, <1>1, CommandStepRaises, CommandStepShows, MoveShows
<1>2. caller' = caller => StopsOnly' /\ JoinsInTime'
  BY <1>0 DEF StopsOnly, JoinsInTime
<1>3. ASSUME NEW r \in Runs, SinkNext(r)
      PROVE  ErrorsNamed' /\ StopsOnly' /\ JoinsInTime' /\ Visible'
  <2>1. caller' = caller
    BY <1>3 DEF SinkNext, SinkOpen, SinkPop, SinkAccepts, SinkFails, SinkRefreshed,
                SinkClose, SinkFinal
  <2>2. QED
    BY <1>0, <1>2, <1>3, <2>1, SinkShows
<1>4. ASSUME NEW r \in Runs, CaptureNext(r)
      PROVE  ErrorsNamed' /\ StopsOnly' /\ JoinsInTime' /\ Visible'
  <2>1. caller' = caller
    BY <1>4 DEF CaptureNext, CaptureOpen, CaptureCheck, CaptureRead, CapturePush,
                CaptureCount, CaptureStop, CaptureFinish
  <2>2. QED
    BY <1>0, <1>2, <1>4, <2>1, CaptureShows
<1>5. ASSUME NEW t \in Threads, RecordFailure(t)
      PROVE  ErrorsNamed' /\ StopsOnly' /\ JoinsInTime' /\ Visible'
  <2>1. caller' = caller
    BY <1>5 DEF RecordFailure, Exchange, RaiseStop, FailQueue, Publish
  <2>2. QED
    BY <1>0, <1>2, <1>5, <2>1, FailureShows
<1>6. CASE UNCHANGED vars
  <2>1. ErrorsNamed' /\ (Publishing => Publishing')
    BY <1>0, <1>6 DEF vars, ErrorsNamed, Free, Publishing
  <2>2. QED
    BY <1>0, <1>2, <1>6, <2>1, AsideShows DEF vars
<1>7. QED
  BY <1>1, <1>3, <1>4, <1>5, <1>6 DEF Next

\* Any number of threads may start and stop the engine at once: as long as
\* every join succeeds (JOIN_TIMEOUT), a failure whose recording has been won
\* (the exchange of record_failure) and completed is still to be read once all
\* commands have returned, as Failed or as the Stopped of a later stop, with
\* its error.
THEOREM FailureVisibleCorrect ==
  ASSUME "slow_join" \notin Faults
  PROVE  Spec => []FailureIsVisible
<1>1. VInv => FailureIsVisible
  <2> SUFFICES ASSUME VInv, terminalFailure, ~Publishing, AllReturned
               PROVE  snapshot.state \in {"Failed", "Stopped"} /\ snapshot.error # "None"
    BY DEF FailureIsVisible
  <2>1. \A c \in Callers : ~Resetting(c) /\ ~Stopping(c)
    BY DEF AllReturned, IdleCaller, Resetting, Stopping
  <2>2. QED
    BY <2>1 DEF VInv, Visible, Shown
<1>2. VInv /\ [Next]_vars => VInv'
  BY NextShows
<1>3. QED
  BY <1>1, <1>2, InitShows, PTL DEF Spec
=============================================================================
