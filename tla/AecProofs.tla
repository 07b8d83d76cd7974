------------------------------ MODULE AecProofs ------------------------------
(***************************************************************************)
(* Theorems about AecEngine for every offset, advance and tolerance of the *)
(* two timelines, every capacity, threshold and bound, and every subset of *)
(* the faults.                                                             *)
(***************************************************************************)
EXTENDS AecEngine, SequenceTheorems, TLAPS

-----------------------------------------------------------------------------
(* The timed queue.                                                        *)

\* A queue whose frames are replaced is the queue with other frames.
LEMMA ReplacedFrames ==
  ASSUME NEW q \in QueueType, NEW s \in Seq(FrameType)
  PROVE  LET p == [q EXCEPT !.frames = s]
         IN p \in QueueType /\ p.frames = s /\ p.failed = q.failed
            /\ p.producerDone = q.producerDone /\ p.discarded = q.discarded
BY DEF QueueType

\* The operations that take no frame and give none.
LEMMA ControlType ==
  ASSUME NEW q \in QueueType
  PROVE  /\ Fail(q) \in QueueType /\ Fail(q).frames = <<>> /\ Fail(q).failed
         /\ Fail(q).producerDone = q.producerDone
         /\ Clear(q) \in QueueType /\ Clear(q).frames = <<>>
         /\ Clear(q).failed = q.failed /\ Clear(q).producerDone = q.producerDone
         /\ FinishProducer(q) \in QueueType /\ FinishProducer(q).frames = q.frames
         /\ FinishProducer(q).failed = q.failed /\ FinishProducer(q).discarded = q.discarded
<1>0. <<>> \in Seq(FrameType)
  BY EmptySeq
<1>1. QED
  BY <1>0, ReplacedFrames DEF Fail, Clear, FinishProducer, QueueType

LEMMA NewQueueType == NewQueue \in QueueType /\ Len(NewQueue.frames) = 0
<1>1. <<>> \in Seq(FrameType)
  BY EmptySeq
<1>2. QED
  BY <1>1 DEF NewQueue, QueueType

\* A queue that is not empty gives its oldest frame.
LEMMA PoppedQueue ==
  ASSUME NEW q \in QueueType, q.frames # <<>>
  PROVE  /\ Popped(q) \in QueueType /\ Head(q.frames) \in FrameType
         /\ Len(Popped(q).frames) = Len(q.frames) - 1
         /\ Popped(q).failed = q.failed /\ Popped(q).producerDone = q.producerDone
         /\ Popped(q).discarded = q.discarded
<1>1. q.frames \in Seq(FrameType)
  BY DEF QueueType
<1>2. /\ Head(q.frames) \in FrameType /\ Tail(q.frames) \in Seq(FrameType)
      /\ Len(Tail(q.frames)) = Len(q.frames) - 1
  BY <1>1, HeadTailProperties
<1>3. QED
  BY <1>2, ReplacedFrames DEF Popped

LEMMA HasFrame ==
  ASSUME NEW q \in QueueType, PopResult(q) = "Frame"
  PROVE  q.frames # <<>> /\ ~q.failed
BY DEF PopResult, QueueType

\* A pushed queue stays within its capacity and has the frame, or counts the one
\* it gave up for it.
LEMMA PushedQueue ==
  ASSUME NEW q \in QueueType, Len(q.frames) <= QueueCapacity, NEW f \in FrameType
  PROVE  LET p == Push(q, f, QueueCapacity)
         IN /\ p \in QueueType /\ Len(p.frames) <= QueueCapacity
            /\ p.failed = q.failed /\ p.producerDone = q.producerDone
            /\ ~q.failed /\ ~q.producerDone =>
                 Len(p.frames) + p.discarded = Len(q.frames) + q.discarded + 1
<1> DEFINE m == MakeRoom(q, QueueCapacity)
<1>1. QueueCapacity \in Nat \ {0}
  BY AecAssumption
<1>2. q.frames \in Seq(FrameType) /\ Len(q.frames) \in Nat /\ q.discarded \in Nat
  BY LenProperties DEF QueueType
<1>3. /\ m \in QueueType /\ Len(m.frames) < QueueCapacity
      /\ m.failed = q.failed /\ m.producerDone = q.producerDone
      /\ Len(m.frames) + m.discarded = Len(q.frames) + q.discarded
  <2>1. CASE Len(q.frames) = QueueCapacity
    <3>1. m = [q EXCEPT !.frames = Tail(q.frames), !.discarded = q.discarded + 1]
      BY <2>1 DEF MakeRoom
    <3>2. Tail(q.frames) \in Seq(FrameType) /\ Len(Tail(q.frames)) = Len(q.frames) - 1
      BY <1>1, <1>2, <2>1, HeadTailProperties, EmptySeq
    <3>3. /\ m \in QueueType /\ m.frames = Tail(q.frames) /\ m.discarded = q.discarded + 1
          /\ m.failed = q.failed /\ m.producerDone = q.producerDone
      <4>1. q.discarded + 1 \in Nat
        BY <1>2
      <4> HIDE DEF m
      <4>2. QED
        BY <3>1, <3>2, <4>1 DEF QueueType
    <3>4. QED
      BY <1>1, <1>2, <2>1, <3>2, <3>3
  <2>2. CASE Len(q.frames) # QueueCapacity
    <3>1. m = q
      BY <2>2 DEF MakeRoom
    <3>2. QED
      BY <1>1, <1>2, <2>2, <3>1
  <2>3. QED
    BY <2>1, <2>2
<1>4. CASE q.failed \/ q.producerDone
  BY <1>4 DEF Push
<1>5. CASE ~q.failed /\ ~q.producerDone
  <2>1. m.frames \in Seq(FrameType) /\ Len(m.frames) \in Nat /\ m.discarded \in Nat
    BY <1>3, LenProperties DEF QueueType
  <2>2. /\ Append(m.frames, f) \in Seq(FrameType)
        /\ Len(Append(m.frames, f)) = Len(m.frames) + 1
    BY <2>1, AppendProperties
  <2>3. Push(q, f, QueueCapacity) = [m EXCEPT !.frames = Append(m.frames, f)]
    BY <1>5 DEF Push
  <2> HIDE DEF m
  <2>4. /\ Push(q, f, QueueCapacity) \in QueueType
        /\ Push(q, f, QueueCapacity).frames = Append(m.frames, f)
        /\ Push(q, f, QueueCapacity).failed = m.failed
        /\ Push(q, f, QueueCapacity).producerDone = m.producerDone
        /\ Push(q, f, QueueCapacity).discarded = m.discarded
    BY <1>3, <2>2, <2>3 DEF QueueType
  <2>5. Len(m.frames) + 1 <= QueueCapacity
    BY <1>1, <1>3, <2>1
  <2>6. Len(m.frames) + 1 + m.discarded = Len(q.frames) + q.discarded + 1
    BY <1>2, <1>3, <2>1
  <2>7. QED
    BY <1>3, <2>2, <2>4, <2>5, <2>6
<1>6. QED
  BY <1>4, <1>5

-----------------------------------------------------------------------------
(* Types.                                                                  *)

\* One queue is replaced by one that fits.
LEMMA OneQueue ==
  ASSUME TypeOK, NEW i \in Inputs, NEW q \in QueueType, Len(q.frames) <= QueueCapacity,
         queue' = [queue EXCEPT ![i] = q]
  PROVE  /\ queue' \in [Inputs -> QueueType]
         /\ \A j \in Inputs : Len(queue'[j].frames) <= QueueCapacity
BY DEF TypeOK

LEMMA Sizes ==
  ASSUME TypeOK, NEW i \in Inputs
  PROVE  /\ queue[i] \in QueueType /\ Len(queue[i].frames) <= QueueCapacity
         /\ Len(queue[i].frames) \in Nat /\ QueueCapacity \in Nat \ {0}
<1>1. queue[i] \in QueueType /\ Len(queue[i].frames) <= QueueCapacity
  BY DEF TypeOK
<1>2. queue[i].frames \in Seq(FrameType)
  BY <1>1 DEF QueueType
<1>3. QED
  BY <1>1, <1>2, LenProperties, AecAssumption

LEMMA RaiseType ==
  ASSUME TypeOK, NEW t \in Threads, NEW e \in Errors, Raise(t, e)
  PROVE  fault' \in [Threads -> FaultType]
BY DEF TypeOK, Raise, FaultType

LEMMA FailureType ==
  ASSUME TypeOK, NEW t \in Threads, RecordFailure(t)
  PROVE  TypeOK'
<1>1. CASE Exchange(t)
  <2>1. fault' \in [Threads -> FaultType]
    BY <1>1 DEF TypeOK, Exchange, FaultType, NoFault, Errors
  <2>2. QED
    BY <1>1, <2>1 DEF TypeOK, Exchange
<1>2. CASE RaiseStop(t)
  <2>1. fault' \in [Threads -> FaultType]
    BY <1>2 DEF TypeOK, RaiseStop, Advance, FaultType
  <2>2. QED
    BY <1>2, <2>1 DEF TypeOK, RaiseStop
<1>3. CASE FailQueues(t)
  <2>1. fault' \in [Threads -> FaultType]
    BY <1>3 DEF TypeOK, FailQueues, Advance, FaultType
  <2>2. PICK i \in Inputs : queue' = [queue EXCEPT ![i] = Fail(queue[i])]
    BY <1>3 DEF FailQueues, FirstQueue, SecondQueue, Inputs
  <2>3. Fail(queue[i]) \in QueueType /\ Len(Fail(queue[i]).frames) <= QueueCapacity
    BY Sizes, ControlType
  <2>4. /\ queue' \in [Inputs -> QueueType]
        /\ \A j \in Inputs : Len(queue'[j].frames) <= QueueCapacity
    BY <2>2, <2>3, OneQueue
  <2>5. QED
    BY <1>3, <2>1, <2>4 DEF TypeOK, FailQueues
<1>4. CASE Publish(t)
  <2>1. fault' \in [Threads -> FaultType]
    BY <1>4 DEF TypeOK, Publish, FaultType, NoFault, Errors
  <2>2. fault[t].error \in Errors
    BY DEF TypeOK, FaultType
  <2>3. snapshot' \in SnapshotType
    BY <1>4, <2>2 DEF TypeOK, Publish, SnapshotType
  <2>4. QED
    BY <1>4, <2>1, <2>3 DEF TypeOK, Publish
<1>5. QED
  BY <1>1, <1>2, <1>3, <1>4 DEF RecordFailure

\* A packet under way has frames left.
Pending == \A i \in Inputs : input[i].pc = "push" => input[i].pending > 0

LEMMA InputStepType ==
  ASSUME TypeOK, Pending, NEW i \in Inputs, InputNext(i)
  PROVE  TypeOK'
<1>0. /\ InputError(i) \in Errors /\ InputError(i) \in ReadyValues /\ "ok" \in ReadyValues
      /\ i \in Threads /\ input[i] \in InputType
      /\ FinishProducer(queue[i]) \in QueueType
      /\ Len(FinishProducer(queue[i]).frames) <= QueueCapacity
  BY Sizes, ControlType DEF InputError, Errors, ReadyValues, Threads, TypeOK
<1>1. CASE InputOpen(i)
  <2>1. input' \in [Inputs -> InputType]
    <3>1. \/ input' = [input EXCEPT ![i].pc = "done", ![i].ready = InputError(i)]
          \/ \E time \in Offsets[i] :
               input' = [input EXCEPT ![i].pc = "read", ![i].ready = "ok", ![i].clock = time]
          \/ input' = [input EXCEPT ![i].pc = "done"]
      BY <1>1 DEF InputOpen
    <3>2. Offsets[i] \subseteq Nat
      BY AecAssumption
    <3>3. CASE input' = [input EXCEPT ![i].pc = "done", ![i].ready = InputError(i)]
      BY <1>0, <3>3 DEF TypeOK, InputType
    <3>4. ASSUME NEW time \in Offsets[i],
                 input' = [input EXCEPT ![i].pc = "read", ![i].ready = "ok", ![i].clock = time]
          PROVE  input' \in [Inputs -> InputType]
      <4> DEFINE x == [input[i] EXCEPT !.pc = "read", !.ready = "ok", !.clock = time]
      <4>1. x \in InputType
        BY <1>0, <3>2, <3>4 DEF InputType
      <4>2. input' = [input EXCEPT ![i] = x]
        BY <3>4 DEF TypeOK
      <4> HIDE DEF x
      <4>3. QED
        BY <4>1, <4>2 DEF TypeOK
    <3>5. CASE input' = [input EXCEPT ![i].pc = "done"]
      BY <3>5, ZenonT(60) DEF TypeOK, InputType
    <3>6. QED
      BY <3>1, <3>3, <3>4, <3>5
  <2>2. /\ queue' \in [Inputs -> QueueType]
        /\ \A j \in Inputs : Len(queue'[j].frames) <= QueueCapacity
    <3>1. queue' = queue \/ queue' = [queue EXCEPT ![i] = FinishProducer(queue[i])]
      BY <1>1 DEF InputOpen
    <3>2. QED
      BY <1>0, <3>1, OneQueue DEF TypeOK
  <2>3. QED
    BY <1>1, <2>1, <2>2 DEF InputOpen, TypeOK
<1>2. CASE InputLeave(i)
  <2>1. input' \in [Inputs -> InputType]
    BY <1>2 DEF InputLeave, TypeOK, InputType
  <2>2. QED
    BY <1>2, <2>1 DEF InputLeave, TypeOK
<1>3. CASE InputRead(i)
  <2>1. MaxBurst \in Nat
    BY AecAssumption
  <2>2. PICK n \in 1..MaxBurst, flagged \in BOOLEAN, jump \in Jumps[i] :
          input' = [input EXCEPT ![i].pc = "push", ![i].pending = n,
                                 ![i].clock = Stamp(@ + jump), ![i].mark = flagged,
                                 ![i].epoch = IF flagged THEN @ + 1 ELSE @]
    BY <1>3 DEF InputRead
  <2> DEFINE epoch == IF flagged THEN input[i].epoch + 1 ELSE input[i].epoch
             clock == Stamp(input[i].clock + jump)
  <2>3. epoch \in Nat /\ n \in Nat /\ clock \in Nat
    <3>1. input[i].clock \in Nat /\ jump \in Int
      BY <1>0, AecAssumption DEF InputType
    <3>2. input[i].clock + jump \in Int
      BY <3>1
    <3>3. clock \in Nat
      BY <3>2 DEF Stamp
    <3>4. QED
      BY <1>0, <2>1, <3>3 DEF InputType
  <2>4. input' = [input EXCEPT ![i].pc = "push", ![i].pending = n, ![i].clock = clock,
                               ![i].mark = flagged, ![i].epoch = epoch]
    BY <2>2
  <2> HIDE DEF epoch, clock
  <2> DEFINE x == [input[i] EXCEPT !.pc = "push", !.pending = n, !.clock = clock,
                                   !.mark = flagged, !.epoch = epoch]
  <2>5. x \in InputType
    BY <1>0, <2>3 DEF InputType
  <2>6. input' = [input EXCEPT ![i] = x]
    BY <2>4 DEF TypeOK
  <2> HIDE DEF x
  <2>7. input' \in [Inputs -> InputType]
    BY <2>5, <2>6 DEF TypeOK
  <2>8. QED
    BY <1>3, <2>7 DEF InputRead, TypeOK
<1>4. CASE InputReadFails(i)
  <2>1. input' \in [Inputs -> InputType]
    BY <1>4 DEF InputReadFails, TypeOK, InputType
  <2>2. fault' \in [Threads -> FaultType]
    BY <1>0, <1>4, RaiseType DEF InputReadFails
  <2>3. QED
    BY <1>4, <2>1, <2>2 DEF InputReadFails, TypeOK
<1>5. CASE InputPush(i)
  <2>1. NextFrame(i) \in FrameType
    BY <1>0 DEF NextFrame, FrameType, InputType
  <2>2. /\ queue' \in [Inputs -> QueueType]
        /\ \A j \in Inputs : Len(queue'[j].frames) <= QueueCapacity
    BY <1>5, <2>1, Sizes, PushedQueue, OneQueue DEF InputPush
  <2>3. input' = [input EXCEPT ![i].pc = IF input[i].pending = 1 THEN "read" ELSE "push",
                               ![i].pending = @ - 1, ![i].made = @ + 1,
                               ![i].clock = @ + FrameTicks,
                               ![i].mark = FALSE, ![i].lost = @ \/ LosesMark(queue[i])]
    BY <1>5 DEF InputPush
  <2>4. FrameTicks \in Nat
    BY AecAssumption DEF FrameTicks
  <2>5. input' \in [Inputs -> InputType]
    <3> DEFINE x == [input[i] EXCEPT !.pc = IF input[i].pending = 1 THEN "read" ELSE "push",
                       !.pending = input[i].pending - 1, !.made = input[i].made + 1,
                       !.clock = input[i].clock + FrameTicks, !.mark = FALSE,
                       !.lost = input[i].lost \/ LosesMark(queue[i])]
    <3>1. input[i].pending - 1 \in Nat /\ input[i].made + 1 \in Nat
          /\ input[i].clock + FrameTicks \in Nat
      BY <1>0, <1>5, <2>4 DEF InputType, InputPush, InputAt, Pending
    <3>2. (input[i].lost \/ LosesMark(queue[i])) \in BOOLEAN
      OBVIOUS
    <3>3. x \in InputType
      BY <1>0, <3>1, <3>2 DEF InputType
    <3>4. input' = [input EXCEPT ![i] = x]
      BY <2>3 DEF TypeOK
    <3> HIDE DEF x
    <3>5. QED
      BY <3>3, <3>4 DEF TypeOK
  <2>6. QED
    BY <1>5, <2>2, <2>5 DEF InputPush, TypeOK
<1>6. CASE InputStop(i)
  <2>1. input' \in [Inputs -> InputType]
    BY <1>6 DEF InputStop, TypeOK, InputType
  <2>2. fault' \in [Threads -> FaultType]
    BY <1>0, <1>6, RaiseType DEF InputStop, TypeOK
  <2>3. QED
    BY <1>6, <2>1, <2>2 DEF InputStop, TypeOK
<1>7. CASE InputFinish(i)
  <2>1. input' \in [Inputs -> InputType]
    BY <1>7, ZenonT(60) DEF InputFinish, TypeOK, InputType
  <2>2. /\ queue' \in [Inputs -> QueueType]
        /\ \A j \in Inputs : Len(queue'[j].frames) <= QueueCapacity
    BY <1>0, <1>7, OneQueue DEF InputFinish
  <2>3. QED
    BY <1>7, <2>1, <2>2 DEF InputFinish, TypeOK
<1>8. QED
  BY <1>1, <1>2, <1>3, <1>4, <1>5, <1>6, <1>7 DEF InputNext, InputSteps

\* The misses and the failures in a row end the run when they reach their limits.
Limits ==
  proc.pc # "final" => proc.misses < MaxMisses /\ proc.failures < MaxAecFailures

LEMMA Frames ==
  ASSUME TypeOK
  PROVE  /\ NoFrame \in MaybeFrame /\ FrameType \subseteq MaybeFrame /\ NoFrame \notin FrameType
         /\ proc \in ProcessingType
         /\ \A i \in Inputs : /\ Oldest(queue[i]) \in MaybeFrame
                              /\ TryPopped(queue[i]) \in QueueType
                              /\ Len(TryPopped(queue[i]).frames) <= QueueCapacity
                              /\ PopResult(queue[i]) = "Frame" =>
                                   /\ Head(queue[i].frames) \in FrameType
                                   /\ Popped(queue[i]) \in QueueType
                                   /\ Len(Popped(queue[i]).frames) <= QueueCapacity
<1>1. NoFrame \notin FrameType
  BY DEF NoFrame, FrameType
<1>2. ASSUME NEW i \in Inputs, queue[i].frames # <<>>
      PROVE  /\ Head(queue[i].frames) \in FrameType
             /\ Popped(queue[i]) \in QueueType
             /\ Len(Popped(queue[i]).frames) <= QueueCapacity
  BY <1>2, Sizes, PoppedQueue
<1>3. ASSUME NEW i \in Inputs
      PROVE  /\ Oldest(queue[i]) \in MaybeFrame
             /\ TryPopped(queue[i]) \in QueueType
             /\ Len(TryPopped(queue[i]).frames) <= QueueCapacity
  BY <1>2, Sizes DEF Oldest, TryPopped, MaybeFrame
<1>4. QED
  BY <1>1, <1>2, <1>3, Sizes, HasFrame DEF MaybeFrame, TypeOK

LEMMA FreshTypes ==
  /\ NewProcessing \in ProcessingType
  /\ NewProcessing.misses < MaxMisses /\ NewProcessing.failures < MaxAecFailures
  /\ \A e \in ReadyValues : [NewProcessing EXCEPT !.pc = "done", !.ready = e] \in ProcessingType
  /\ FreshEcho \in EchoType
  /\ NewInput \in InputType
  /\ NewQueue \in QueueType /\ Len(NewQueue.frames) <= QueueCapacity
  /\ NoSnapshot \in SnapshotType
<1>1. /\ MaxMisses \in Nat \ {0} /\ MaxAecFailures \in Nat \ {0} /\ MaxRuns \in Nat \ {0}
      /\ QueueCapacity \in Nat \ {0}
  BY AecAssumption
<1>2. "pending" \in ReadyValues /\ "None" \in Errors /\ NoFrame \in MaybeFrame
  BY DEF ReadyValues, Errors, MaybeFrame
<1>3. NewProcessing \in ProcessingType
  BY <1>1, <1>2 DEF NewProcessing, ProcessingType
<1>4. NewProcessing.misses < MaxMisses /\ NewProcessing.failures < MaxAecFailures
  BY <1>1 DEF NewProcessing
<1>5. \A e \in ReadyValues : [NewProcessing EXCEPT !.pc = "done", !.ready = e] \in ProcessingType
  BY <1>3 DEF ProcessingType
<1>6. FreshEcho \in EchoType
  BY DEF FreshEcho, EchoType, NoEpoch
<1>7. NewInput \in InputType
  BY <1>2 DEF NewInput, InputType
<1>8. NewQueue \in QueueType /\ Len(NewQueue.frames) <= QueueCapacity
  BY <1>1, NewQueueType
<1>9. NoSnapshot \in SnapshotType
  BY <1>1, <1>2 DEF NoSnapshot, SnapshotType
<1>10. QED
  BY <1>3, <1>4, <1>5, <1>6, <1>7, <1>8, <1>9

ProcPcs ==
  {"none", "open", "first_mic", "first_render", "announce", "check", "mic", "mic_reset", "fetch",
   "examine", "judge", "record", "process", "rebuild", "deadline", "write", "refresh", "final",
   "done"}

\* What a step of the processing worker may change, and what has to have its type.
ProcChanges ==
  /\ proc' \in ProcessingType
  /\ proc'.pc # "final" => proc'.misses < MaxMisses /\ proc'.failures < MaxAecFailures
  /\ echo' \in EchoType
  /\ fault' \in [Threads -> FaultType]
  /\ snapshot' \in SnapshotType
  /\ queue' \in [Inputs -> QueueType]
  /\ \A i \in Inputs : Len(queue'[i].frames) <= QueueCapacity
  /\ UNCHANGED <<stopRequested, terminalFailure, installed, input, caller>>

LEMMA ProcChangesType ==
  ASSUME TypeOK, ProcChanges
  PROVE  TypeOK' /\ Limits'
BY DEF TypeOK, ProcChanges, Limits

LEMMA GoProcType ==
  ASSUME TypeOK, Limits, NEW pc \in ProcPcs, GoProc(pc), proc.pc # "final"
  PROVE  /\ proc' \in ProcessingType
         /\ proc'.misses < MaxMisses /\ proc'.failures < MaxAecFailures
BY DEF TypeOK, Limits, GoProc, ProcessingType, ProcPcs

LEMMA EndUnreadyType ==
  ASSUME TypeOK, NEW e \in ReadyValues, EndUnready(e)
  PROVE  /\ proc' \in ProcessingType
         /\ proc'.misses < MaxMisses /\ proc'.failures < MaxAecFailures
<1>1. proc' = [NewProcessing EXCEPT !.pc = "done", !.ready = e]
  BY DEF EndUnready
<1>2. proc'.misses = NewProcessing.misses /\ proc'.failures = NewProcessing.failures
  BY <1>1 DEF NewProcessing
<1>3. QED
  BY <1>1, <1>2, FreshTypes

LEMMA ProcStartType ==
  ASSUME TypeOK, Limits, ProcStart
  PROVE  TypeOK' /\ Limits'
<1>0. /\ {"SinkFailure", "EchoCancellerFailure", "SynchronizationFailure", "RenderFailure", "ok"}
           \subseteq ReadyValues
      /\ snapshot.error \in ReadyValues
      /\ {"mic", "render"} \subseteq Inputs
  BY DEF ReadyValues, Errors, Inputs, TypeOK, SnapshotType
<1>1. CASE ProcOpen
  <2>1. /\ proc' \in ProcessingType
        /\ proc'.misses < MaxMisses /\ proc'.failures < MaxAecFailures
    BY <1>0, <1>1, GoProcType, EndUnreadyType DEF ProcOpen, ProcAt, ProcPcs
  <2>2. ProcChanges
    BY <1>1, <2>1 DEF ProcOpen, ProcChanges, TypeOK
  <2>3. QED
    BY <2>2, ProcChangesType
<1>2. CASE ProcFirstMic
  <2>1. CASE PopResult(queue["mic"]) = "Frame"
    <3> DEFINE f == Head(queue["mic"].frames)
               x == [proc EXCEPT !.pc = "first_render", !.mic = f]
    <3>1. f \in MaybeFrame /\ proc \in ProcessingType
      BY <1>0, <2>1, Frames
    <3>2. proc' = x
      BY <1>2, <2>1 DEF ProcFirstMic
    <3>3. x \in ProcessingType /\ x.misses = proc.misses /\ x.failures = proc.failures
      <4> HIDE DEF f
      <4>1. QED
        BY <3>1 DEF ProcessingType
    <3>4. proc.pc = "first_mic"
      BY <1>2 DEF ProcFirstMic, ProcAt
    <3>5. queue' = [queue EXCEPT !["mic"] = Popped(queue["mic"])]
      BY <1>2, <2>1 DEF ProcFirstMic
    <3>6. /\ queue' \in [Inputs -> QueueType]
          /\ \A i \in Inputs : Len(queue'[i].frames) <= QueueCapacity
      BY <1>0, <2>1, <3>5, Frames, OneQueue
    <3> HIDE DEF x
    <3>7. ProcChanges
      BY <1>2, <3>2, <3>3, <3>4, <3>6 DEF ProcFirstMic, ProcChanges, TypeOK, Limits
    <3>8. QED
      BY <3>7, ProcChangesType
  <2>2. CASE PopResult(queue["mic"]) # "Frame"
    <3>1. EndUnready("SynchronizationFailure") /\ queue' = queue
      BY <1>2, <2>2 DEF ProcFirstMic
    <3>2. ProcChanges
      BY <1>0, <1>2, <3>1, EndUnreadyType DEF ProcFirstMic, ProcChanges, TypeOK
    <3>3. QED
      BY <3>2, ProcChangesType
  <2>3. QED
    BY <2>1, <2>2
<1>3. CASE ProcFirstRender
  <2>1. CASE PopResult(queue["render"]) = "Frame"
    <3> DEFINE f == Head(queue["render"].frames)
               x == [proc EXCEPT !.pc = "announce", !.render = f]
    <3>1. f \in MaybeFrame /\ proc \in ProcessingType
      BY <1>0, <2>1, Frames
    <3>2. proc' = x
      BY <1>3, <2>1 DEF ProcFirstRender
    <3>3. x \in ProcessingType /\ x.misses = proc.misses /\ x.failures = proc.failures
      <4> HIDE DEF f
      <4>1. QED
        BY <3>1 DEF ProcessingType
    <3>4. proc.pc = "first_render"
      BY <1>3 DEF ProcFirstRender, ProcAt
    <3>5. queue' = [queue EXCEPT !["render"] = Popped(queue["render"])]
      BY <1>3, <2>1 DEF ProcFirstRender
    <3>6. /\ queue' \in [Inputs -> QueueType]
          /\ \A i \in Inputs : Len(queue'[i].frames) <= QueueCapacity
      BY <1>0, <2>1, <3>5, Frames, OneQueue
    <3> HIDE DEF x
    <3>7. ProcChanges
      BY <1>3, <3>2, <3>3, <3>4, <3>6 DEF ProcFirstRender, ProcChanges, TypeOK, Limits
    <3>8. QED
      BY <3>7, ProcChangesType
  <2>2. CASE PopResult(queue["render"]) # "Frame"
    <3>1. queue' = queue
      BY <1>3, <2>2 DEF ProcFirstRender
    <3>2. \/ EndUnready("RenderFailure") \/ EndUnready(snapshot.error)
          \/ proc' = [proc EXCEPT !.pc = "announce", !.exhausted = TRUE]
      BY <1>3, <2>2 DEF ProcFirstRender
    <3>3. /\ proc' \in ProcessingType
          /\ proc'.misses < MaxMisses /\ proc'.failures < MaxAecFailures
      <4>1. CASE proc' = [proc EXCEPT !.pc = "announce", !.exhausted = TRUE]
        BY <1>3, <4>1 DEF ProcFirstRender, ProcAt, TypeOK, Limits, ProcessingType
      <4>2. QED
        BY <1>0, <3>2, <4>1, EndUnreadyType
    <3>4. ProcChanges
      BY <1>3, <3>1, <3>3 DEF ProcFirstRender, ProcChanges, TypeOK
    <3>5. QED
      BY <3>4, ProcChangesType
  <2>3. QED
    BY <2>1, <2>2
<1>4. CASE ProcAnnounce
  <2>1. /\ proc' \in ProcessingType
        /\ proc'.misses < MaxMisses /\ proc'.failures < MaxAecFailures
    <3>1. CASE proc' = [proc EXCEPT !.pc = "check", !.ready = "ok"]
      BY <1>0, <1>4, <3>1 DEF ProcAnnounce, ProcAt, TypeOK, Limits, ProcessingType
    <3>2. QED
      BY <1>0, <1>4, <3>1, EndUnreadyType DEF ProcAnnounce
  <2>2. ProcChanges
    BY <1>4, <2>1 DEF ProcAnnounce, ProcChanges, TypeOK
  <2>3. QED
    BY <2>2, ProcChangesType
<1>5. QED
  BY <1>1, <1>2, <1>3, <1>4 DEF ProcStart

\* rebuild_echo keeps the worker's counters.
LEMMA RebuildType ==
  ASSUME TypeOK, Limits, proc.pc # "final", NEW alignment \in BOOLEAN, NEW next \in ProcPcs,
         Rebuild(alignment, next),
         UNCHANGED <<stopRequested, terminalFailure, installed, queue, input, caller>>
  PROVE  ProcChanges
<1>1. "EchoCancellerFailure" \in Errors /\ "processing" \in Threads /\ "final" \in ProcPcs
  BY DEF Errors, Threads, ProcPcs
<1>2. GoProc(next) \/ GoProc("final")
  BY DEF Rebuild
<1>3. /\ proc' \in ProcessingType
      /\ proc'.misses < MaxMisses /\ proc'.failures < MaxAecFailures
  BY <1>1, <1>2, GoProcType
<1>4. echo' \in EchoType
  BY FreshTypes DEF Rebuild, TypeOK
<1>5. fault' \in [Threads -> FaultType]
  BY <1>1, RaiseType DEF Rebuild, TypeOK
<1>6. snapshot' \in SnapshotType
  <2> DEFINE resets == IF alignment THEN snapshot.alignmentResets + 1 ELSE snapshot.alignmentResets
             x == [snapshot EXCEPT !.state = "Degraded", !.reason = "reset",
                                   !.alignmentResets = resets]
  <2>1. snapshot \in SnapshotType /\ resets \in Nat
    BY DEF TypeOK, SnapshotType
  <2>2. snapshot' = snapshot \/ snapshot' = x
    BY DEF Rebuild
  <2> HIDE DEF resets
  <2>3. x \in SnapshotType
    BY <2>1 DEF SnapshotType
  <2> HIDE DEF x
  <2>4. QED
    BY <2>1, <2>2, <2>3
<1>7. QED
  BY <1>3, <1>4, <1>5, <1>6 DEF ProcChanges, TypeOK

LEMMA DegradeType ==
  ASSUME TypeOK, NEW reason \in {"none", "missing", "reset", "deadline"}, Degrade(reason)
  PROVE  snapshot' \in SnapshotType
BY DEF TypeOK, Degrade, SnapshotType

\* The steps that look for a frame or a partner.
LEMMA ProcSearchType ==
  ASSUME TypeOK, Limits, ProcCheck \/ ProcMic \/ ProcFetch \/ ProcJudge
  PROVE  ProcChanges
<1>0. proc.pc # "final" /\ proc \in ProcessingType /\ {"mic", "render"} \subseteq Inputs
  BY DEF ProcCheck, ProcMic, ProcFetch, ProcJudge, ProcAt, TypeOK, Inputs
<1>1. CASE ProcCheck
  <2>1. /\ proc' \in ProcessingType
        /\ proc'.misses < MaxMisses /\ proc'.failures < MaxAecFailures
    BY <1>0, <1>1, GoProcType DEF ProcCheck, ProcPcs
  <2>2. QED
    BY <1>1, <2>1 DEF ProcCheck, ProcChanges, TypeOK
<1>2. CASE ProcMic
  <2>1. CASE proc.mic = NoFrame /\ PopResult(queue["mic"]) = "Frame"
    <3> DEFINE f == Head(queue["mic"].frames)
               pc == AfterMic(f)
               x == [proc EXCEPT !.pc = pc, !.mic = f]
    <3>1. f \in MaybeFrame /\ pc \in ProcPcs
      BY <1>0, <2>1, Frames DEF AfterMic, ProcPcs
    <3>2. proc' = x /\ queue' = [queue EXCEPT !["mic"] = Popped(queue["mic"])]
      BY <1>2, <2>1 DEF ProcMic
    <3>3. /\ queue' \in [Inputs -> QueueType]
          /\ \A i \in Inputs : Len(queue'[i].frames) <= QueueCapacity
      BY <1>0, <2>1, <3>2, Frames, OneQueue
    <3> HIDE DEF f, pc
    <3>4. x \in ProcessingType /\ x.misses = proc.misses /\ x.failures = proc.failures
      BY <1>0, <3>1 DEF ProcessingType, ProcPcs
    <3> HIDE DEF x
    <3>5. QED
      BY <1>0, <1>2, <3>2, <3>3, <3>4 DEF ProcMic, ProcChanges, TypeOK, Limits
  <2>2. CASE ~(proc.mic = NoFrame /\ PopResult(queue["mic"]) = "Frame")
    <3>1. queue' = queue /\ \E pc \in ProcPcs : GoProc(pc)
      BY <1>2, <2>2 DEF ProcMic, AfterMic, ProcPcs
    <3>2. /\ proc' \in ProcessingType
          /\ proc'.misses < MaxMisses /\ proc'.failures < MaxAecFailures
      BY <1>0, <3>1, GoProcType
    <3>3. QED
      BY <1>2, <3>1, <3>2 DEF ProcMic, ProcChanges, TypeOK
  <2>3. QED
    BY <2>1, <2>2
<1>3. CASE ProcFetch
  <2> DEFINE found == proc.render # NoFrame
             q == queue["render"]
             taken == IF proc.exhausted \/ PopResult(q) = "Frame" THEN Oldest(q) ELSE NoFrame
             frame == IF found THEN proc.render ELSE taken
             exhausted == IF found THEN proc.exhausted ELSE taken = NoFrame
             x == [proc EXCEPT !.pc = "examine", !.render = frame, !.exhausted = exhausted]
  <2>1. taken \in MaybeFrame
    BY <1>0, Frames
  <2>2. frame \in MaybeFrame /\ exhausted \in BOOLEAN
    <3> HIDE DEF taken
    <3>1. QED
      BY <1>0, <2>1 DEF ProcessingType
  <2>3. proc' = x
    BY <1>3 DEF ProcFetch
  <2>4. queue' = queue \/ (queue' = [queue EXCEPT !["render"] = Popped(q)] /\ taken # NoFrame)
    BY <1>3 DEF ProcFetch, TypeOK
  <2>5. taken # NoFrame => Popped(q) = TryPopped(q)
    BY DEF Oldest, TryPopped
  <2>6. /\ queue' \in [Inputs -> QueueType]
        /\ \A i \in Inputs : Len(queue'[i].frames) <= QueueCapacity
    <3> HIDE DEF taken
    <3>1. QED
      BY <1>0, <2>4, <2>5, Frames, OneQueue DEF TypeOK
  <2> HIDE DEF frame, exhausted
  <2>7. x \in ProcessingType /\ x.misses = proc.misses /\ x.failures = proc.failures
    BY <1>0, <2>2 DEF ProcessingType
  <2> HIDE DEF x
  <2>8. QED
    BY <1>0, <1>3, <2>3, <2>6, <2>7 DEF ProcFetch, ProcChanges, TypeOK, Limits
<1>4. CASE ProcJudge
  <2> DEFINE oldest == Oldest(queue["render"])
             stale == [proc EXCEPT !.pc = "examine", !.render = oldest]
             match == [proc EXCEPT !.pc = "record", !.match = proc.render, !.render = oldest,
                                   !.exhausted = FALSE]
             later == [proc EXCEPT !.pc = "record", !.match = NoFrame]
  <2>1. proc' \in {stale, match, later}
    BY <1>4 DEF ProcJudge
  <2>2. queue' = queue \/ queue' = [queue EXCEPT !["render"] = TryPopped(queue["render"])]
    BY <1>4 DEF ProcJudge
  <2>3. /\ queue' \in [Inputs -> QueueType]
        /\ \A i \in Inputs : Len(queue'[i].frames) <= QueueCapacity
    BY <1>0, <2>2, Frames, OneQueue DEF TypeOK
  <2>4. oldest \in MaybeFrame /\ NoFrame \in MaybeFrame /\ proc.render \in MaybeFrame
    BY <1>0, Frames DEF ProcessingType
  <2> HIDE DEF oldest
  <2>5. stale \in ProcessingType /\ stale.misses = proc.misses /\ stale.failures = proc.failures
    BY <1>0, <2>4 DEF ProcessingType
  <2>6. match \in ProcessingType /\ match.misses = proc.misses /\ match.failures = proc.failures
    BY <1>0, <2>4 DEF ProcessingType
  <2>7. later \in ProcessingType /\ later.misses = proc.misses /\ later.failures = proc.failures
    BY <1>0, <2>4 DEF ProcessingType
  <2> HIDE DEF stale, match, later
  <2>8. /\ proc' \in ProcessingType
        /\ proc'.misses < MaxMisses /\ proc'.failures < MaxAecFailures
    BY <1>0, <2>1, <2>5, <2>6, <2>7 DEF Limits
  <2>9. QED
    BY <1>4, <2>3, <2>8 DEF ProcJudge, ProcChanges, TypeOK
<1>5. QED
  BY <1>1, <1>2, <1>3, <1>4

\* The number and the epoch of a frame at hand, or of none.
LEMMA FrameParts ==
  ASSUME NEW f \in MaybeFrame
  PROVE  f.number \in Nat /\ f.epoch \in Nat \union {NoEpoch}
BY DEF MaybeFrame, FrameType, NoFrame, NoEpoch

\* The steps that judge and process the frame.
LEMMA ProcWorkType ==
  ASSUME TypeOK, Limits, ProcPaired \/ ProcUnpaired \/ ProcProcessed \/ ProcRejected
  PROVE  ProcChanges
<1>0. /\ proc.pc # "final" /\ proc \in ProcessingType /\ snapshot \in SnapshotType
      /\ MaxMisses \in Nat \ {0} /\ MaxAecFailures \in Nat \ {0}
      /\ {"EchoCancellerFailure", "SynchronizationFailure"} \subseteq Errors
      /\ "processing" \in Threads
  BY AecAssumption DEF ProcPaired, ProcUnpaired, ProcProcessed, ProcRejected, ProcAt, TypeOK,
                       Errors, Threads
<1>1. /\ proc.misses \in Nat /\ proc.misses + 1 <= MaxMisses
      /\ proc.failures \in Nat /\ proc.failures + 1 <= MaxAecFailures
      /\ proc.healthy + 1 \in Nat /\ proc.streak + 1 \in Nat
      /\ 0 \in 0..MaxMisses /\ 0 \in 0..MaxAecFailures
  BY <1>0 DEF Limits, ProcessingType
<1>2. CASE ProcPaired
  <2> DEFINE pair == [mic |-> proc.mic.number, render |-> proc.match.number]
             healthy == proc.healthy + 1
             x == [proc EXCEPT !.pc = "process", !.misses = 0, !.healthy = healthy,
                               !.pair = pair]
  <2>1. pair \in [mic : Nat \union {-1}, render : Nat \union {-1}]
    BY <1>0 DEF ProcessingType, MaybeFrame, FrameType, NoFrame
  <2>2. proc' = x
    BY <1>2 DEF ProcPaired
  <2> HIDE DEF pair, healthy
  <2>3. x \in ProcessingType /\ x.misses = 0 /\ x.failures = proc.failures
    <3>1. healthy \in Nat
      BY <1>1 DEF healthy
    <3>2. QED
      BY <1>0, <1>1, <2>1, <3>1 DEF ProcessingType
  <2> HIDE DEF x
  <2>4. snapshot' \in SnapshotType
    BY <1>0, <1>2 DEF ProcPaired, SnapshotType
  <2>5. QED
    BY <1>0, <1>1, <1>2, <2>2, <2>3, <2>4 DEF ProcPaired, ProcChanges, TypeOK
<1>3. CASE ProcUnpaired
  <2> DEFINE misses == IF proc.render = NoFrame THEN 0 ELSE proc.misses + 1
             pc == IF misses >= MaxMisses THEN "final" ELSE "process"
             x == [proc EXCEPT !.pc = pc, !.misses = misses, !.healthy = 0, !.streak = 0]
  <2>1. misses \in 0..MaxMisses /\ pc \in {"final", "process"}
    BY <1>0, <1>1
  <2>2. pc # "final" => misses < MaxMisses
    BY <1>0, <1>1
  <2>3. proc' = x
    BY <1>3 DEF ProcUnpaired
  <2> HIDE DEF misses, pc
  <2>4. x \in ProcessingType /\ x.pc = pc /\ x.misses = misses /\ x.failures = proc.failures
    BY <1>0, <2>1 DEF ProcessingType
  <2> HIDE DEF x
  <2>5. snapshot' \in SnapshotType
    BY <1>3, DegradeType DEF ProcUnpaired
  <2>6. fault' \in [Threads -> FaultType]
    BY <1>0, <1>3, RaiseType DEF ProcUnpaired, TypeOK
  <2>7. QED
    BY <1>0, <1>1, <1>3, <2>2, <2>3, <2>4, <2>5, <2>6 DEF ProcUnpaired, ProcChanges, TypeOK
<1>4. Seen \in EchoType
  <2>1. /\ proc.mic.epoch \in Nat \union {NoEpoch} /\ proc.match.epoch \in Nat \union {NoEpoch}
        /\ echo.render \in Nat \union {NoEpoch}
    <3>1. /\ proc.mic \in MaybeFrame /\ proc.match \in MaybeFrame
          /\ echo \in EchoType
      BY <1>0 DEF ProcessingType, TypeOK
    <3>2. QED
      BY <3>1, FrameParts DEF EchoType
  <2>2. QED
    BY <2>1 DEF Seen, EchoType
<1>5. CASE ProcProcessed
  <2> DEFINE streak == IF proc.match = NoFrame THEN 0 ELSE proc.streak + 1
             x == [proc EXCEPT !.pc = "deadline", !.failures = 0, !.streak = streak]
  <2>1. streak \in Nat
    BY <1>1
  <2>2. proc' = x
    BY <1>5 DEF ProcProcessed
  <2> HIDE DEF streak
  <2>3. x \in ProcessingType /\ x.misses = proc.misses /\ x.failures = 0
    BY <1>0, <1>1, <2>1 DEF ProcessingType
  <2> HIDE DEF x
  <2>4. QED
    BY <1>0, <1>1, <1>4, <1>5, <2>2, <2>3 DEF ProcProcessed, ProcChanges, TypeOK
<1>6. CASE ProcRejected
  <2> DEFINE last == proc.failures + 1 >= MaxAecFailures
             pc == IF last THEN "final" ELSE "rebuild"
             x == [proc EXCEPT !.pc = pc, !.failures = proc.failures + 1, !.healthy = 0,
                               !.streak = 0]
  <2>1. proc.failures + 1 \in 0..MaxAecFailures /\ pc \in {"final", "rebuild"}
    BY <1>0, <1>1
  <2>2. pc # "final" => proc.failures + 1 < MaxAecFailures
    BY <1>0, <1>1
  <2>3. proc' = x
    BY <1>6 DEF ProcRejected
  <2> HIDE DEF pc
  <2>4. /\ x \in ProcessingType /\ x.pc = pc /\ x.misses = proc.misses
        /\ x.failures = proc.failures + 1
    BY <1>0, <2>1 DEF ProcessingType
  <2> HIDE DEF x
  <2>5. snapshot' \in SnapshotType
    BY <1>6, DegradeType DEF ProcRejected
  <2>6. fault' \in [Threads -> FaultType]
    BY <1>0, <1>6, RaiseType DEF ProcRejected, TypeOK
  <2>7. QED
    BY <1>0, <1>1, <1>4, <1>6, <2>2, <2>3, <2>4, <2>5, <2>6 DEF ProcRejected, ProcChanges, TypeOK
<1>7. QED
  BY <1>2, <1>3, <1>5, <1>6

\* The steps that finish the frame.
LEMMA ProcOutType ==
  ASSUME TypeOK, Limits,
         ProcDeadline \/ ProcWritten \/ ProcFails \/ ProcRefreshed \/ ProcClose
  PROVE  ProcChanges
<1>0. /\ proc \in ProcessingType /\ snapshot \in SnapshotType /\ "SinkFailure" \in Errors
      /\ "processing" \in Threads /\ {"write", "final", "check"} \subseteq ProcPcs
  BY DEF TypeOK, Errors, Threads, ProcPcs
<1>1. CASE ProcDeadline
  <2>1. /\ proc' \in ProcessingType
        /\ proc'.misses < MaxMisses /\ proc'.failures < MaxAecFailures
    BY <1>0, <1>1, GoProcType DEF ProcDeadline, ProcAt
  <2>2. snapshot' \in SnapshotType
    BY <1>0, <1>1, DegradeType DEF ProcDeadline
  <2>3. QED
    BY <1>1, <2>1, <2>2 DEF ProcDeadline, ProcChanges, TypeOK
<1>2. CASE ProcWritten
  <2> DEFINE sequence == proc.sequence + 1
             pc == IF sequence % RefreshEvery = 0 THEN "refresh" ELSE "check"
             x == [proc EXCEPT !.pc = pc, !.sequence = sequence, !.mic = NoFrame,
                               !.match = NoFrame]
  <2>1. sequence \in Nat /\ pc \in {"refresh", "check"}
    BY <1>0 DEF ProcessingType
  <2>2. proc' = x /\ proc.pc = "write"
    BY <1>2 DEF ProcWritten, ProcAt
  <2> HIDE DEF sequence, pc
  <2>3. x \in ProcessingType /\ x.misses = proc.misses /\ x.failures = proc.failures
    BY <1>0, <2>1, Frames DEF ProcessingType
  <2> HIDE DEF x
  <2>4. snapshot' \in SnapshotType
    BY <1>0, <1>2 DEF ProcWritten, SnapshotType
  <2>5. QED
    BY <1>2, <2>2, <2>3, <2>4 DEF ProcWritten, ProcChanges, TypeOK, Limits
<1>3. CASE ProcFails
  <2>1. /\ proc' \in ProcessingType
        /\ proc'.misses < MaxMisses /\ proc'.failures < MaxAecFailures
    BY <1>0, <1>3, GoProcType DEF ProcFails, ProcAt
  <2>2. fault' \in [Threads -> FaultType]
    BY <1>0, <1>3, RaiseType DEF ProcFails
  <2>3. QED
    BY <1>3, <2>1, <2>2 DEF ProcFails, ProcChanges, TypeOK
<1>4. CASE ProcRefreshed
  <2>1. /\ proc' \in ProcessingType
        /\ proc'.misses < MaxMisses /\ proc'.failures < MaxAecFailures
    BY <1>0, <1>4, GoProcType DEF ProcRefreshed, ProcAt
  <2>2. QED
    BY <1>4, <2>1 DEF ProcRefreshed, ProcChanges, TypeOK
<1>5. CASE ProcClose
  <2> DEFINE x == [NewProcessing EXCEPT !.pc = "done", !.ready = proc.ready,
                                        !.sequence = proc.sequence]
  <2>1. proc' = x
    BY <1>5 DEF ProcClose
  <2>2. x \in ProcessingType
    BY <1>0, FreshTypes DEF ProcessingType
  <2>3. x.misses = NewProcessing.misses /\ x.failures = NewProcessing.failures
    BY DEF NewProcessing
  <2>4. fault' \in [Threads -> FaultType]
    BY <1>0, <1>5, RaiseType DEF ProcClose, TypeOK
  <2>5. QED
    BY <1>5, <2>1, <2>2, <2>3, <2>4, FreshTypes DEF ProcClose, ProcChanges, TypeOK
<1>6. QED
  BY <1>1, <1>2, <1>3, <1>4, <1>5

LEMMA ProcStepType ==
  ASSUME TypeOK, Limits, ProcNext
  PROVE  TypeOK' /\ Limits'
<1>1. CASE ProcResetByMic \/ ProcResetByRender \/ ProcRebuild
  <2>1. ProcChanges
    BY <1>1, RebuildType DEF ProcResetByMic, ProcResetByRender, ProcRebuild, ProcAt, ProcPcs
  <2>2. QED
    BY <2>1, ProcChangesType
<1>2. QED
  BY <1>1, ProcStartType, ProcSearchType, ProcWorkType, ProcOutType, ProcChangesType
     DEF ProcNext, ProcLoop

\* A command has a goal, and while it launches a run the workers that it has not
\* spawned yet are new.
Launching ==
  /\ caller.pc # "idle" => caller.goal # "none"
  /\ caller.pc \in {"reset_stop", "reset_failure", "spawn_mic"} => input["mic"] = NewInput
  /\ caller.pc \in {"reset_stop", "reset_failure", "spawn_mic", "spawn_render"} =>
       input["render"] = NewInput
  /\ caller.pc \in {"reset_stop", "reset_failure", "spawn_mic", "spawn_render",
                    "spawn_processing"} => proc = NewProcessing

LEMMA CallerStepType ==
  ASSUME TypeOK, Limits, Launching, BeginStart \/ BeginStop \/ CallerSteps
  PROVE  TypeOK' /\ Limits'
<1> USE DEF CallerType
<1>0. /\ caller \in CallerType /\ IdleCaller \in CallerType /\ snapshot \in SnapshotType
      /\ {"mic", "render"} \subseteq Inputs /\ "caller" \in Threads
  BY DEF TypeOK, IdleCaller, Inputs, Threads
<1>1. CASE BeginStart \/ BeginStop
  BY <1>0, <1>1 DEF BeginStart, BeginStop, TypeOK, Limits
<1>2. CASE SetStopping \/ SetStopped
  <2>1. snapshot' \in SnapshotType
    BY <1>0, <1>2 DEF SetStopping, SetStopped, SnapshotType
  <2>2. caller' \in CallerType
    BY <1>0, <1>2 DEF SetStopping, SetStopped, Go, Return
  <2>3. QED
    BY <1>2, <2>1, <2>2 DEF SetStopping, SetStopped, TypeOK, Limits
<1>3. CASE RequestStop \/ TakeRun
  <2>1. caller' \in CallerType
    BY <1>0, <1>3 DEF RequestStop, TakeRun, AfterCleanup, Go, Return, CallerAt, Launching
  <2>2. QED
    BY <1>3, <2>1 DEF RequestStop, TakeRun, TypeOK, Limits
<1>4. CASE JoinRun
  <2>1. caller' \in CallerType
    BY <1>0, <1>4 DEF JoinRun, AfterCleanup, Go, Return, CallerAt, Launching
  <2>2. \A i \in Inputs : /\ Clear(queue[i]) \in QueueType
                          /\ Len(Clear(queue[i]).frames) <= QueueCapacity
    BY Sizes, ControlType
  <2>3. queue' = [i \in Inputs |-> Clear(queue[i])]
    BY <1>4 DEF JoinRun
  <2>4. QED
    BY <1>4, <2>1, <2>2, <2>3 DEF JoinRun, TypeOK, Limits
<1>5. CASE Resolve
  <2>1. caller' \in CallerType
    BY <1>0, <1>5 DEF Resolve, Go, Return
  <2>2. CASE UNCHANGED <<snapshot, queue, input, proc, echo>>
    BY <1>5, <2>1, <2>2 DEF Resolve, TypeOK, Limits
  <2>3. CASE ~UNCHANGED <<snapshot, queue, input, proc, echo>>
    <3>1. /\ snapshot.run < MaxRuns
          /\ snapshot' = [NoSnapshot EXCEPT !.state = "Starting", !.run = snapshot.run + 1]
          /\ queue' = [i \in Inputs |-> NewQueue]
          /\ input' = [i \in Inputs |-> NewInput]
          /\ proc' = NewProcessing
          /\ echo' = FreshEcho
          /\ UNCHANGED <<stopRequested, terminalFailure, installed, fault>>
      BY <1>5, <2>3 DEF Resolve
    <3>2. snapshot' \in SnapshotType
      <4>1. snapshot.run + 1 \in 0..MaxRuns
        BY <1>0, <3>1, AecAssumption DEF SnapshotType
      <4>2. QED
        BY <3>1, <4>1, FreshTypes DEF SnapshotType
    <3>3. /\ queue' \in [Inputs -> QueueType] /\ input' \in [Inputs -> InputType]
          /\ \A i \in Inputs : Len(queue'[i].frames) <= QueueCapacity
      BY <3>1, FreshTypes
    <3>4. QED
      BY <2>1, <3>1, <3>2, <3>3, FreshTypes DEF TypeOK, Limits
  <2>4. QED
    BY <2>2, <2>3
<1>6. CASE ResetStop \/ ResetFailure \/ SpawnFails \/ InstallRun
  <2>1. caller' \in CallerType
    BY <1>0, <1>6 DEF ResetStop, ResetFailure, SpawnFails, InstallRun, Go, Return
  <2>2. QED
    BY <1>6, <2>1 DEF ResetStop, ResetFailure, SpawnFails, InstallRun, TypeOK, Limits
<1>7. ASSUME NEW i \in Inputs, SpawnInput(i)
      PROVE  TypeOK' /\ Limits'
  <2>1. caller' \in CallerType
    BY <1>0, <1>7 DEF SpawnInput, Go
  <2>2. input' \in [Inputs -> InputType]
    BY <1>7, ZenonT(60) DEF SpawnInput, TypeOK, InputType
  <2>3. QED
    BY <1>7, <2>1, <2>2 DEF SpawnInput, TypeOK, Limits
<1>8. CASE SpawnProcessing
  <2>1. caller' \in CallerType
    BY <1>0, <1>8 DEF SpawnProcessing, Go
  <2>2. proc.pc # "final" /\ "open" \in ProcPcs
    BY <1>8 DEF SpawnProcessing, CallerAt, Launching, NewProcessing, ProcPcs
  <2>3. /\ proc' \in ProcessingType
        /\ proc'.misses < MaxMisses /\ proc'.failures < MaxAecFailures
    BY <1>8, <2>2, GoProcType DEF SpawnProcessing
  <2>4. QED
    BY <1>8, <2>1, <2>3 DEF SpawnProcessing, TypeOK, Limits
<1>9. CASE WaitRun
  <2>1. PICK pc \in {"wait_mic", "wait_render", "wait_processing"}, ready \in ReadyValues,
             next \in {"wait_render", "wait_processing", "finish_start"} :
               WaitReady(pc, ready, next)
    <3>1. input["mic"].ready \in ReadyValues /\ input["render"].ready \in ReadyValues
          /\ proc.ready \in ReadyValues
      BY <1>0 DEF TypeOK, InputType, ProcessingType
    <3>2. QED
      BY <1>9, <3>1 DEF WaitRun
  <2>2. caller' \in CallerType
    BY <1>0, <2>1 DEF WaitReady, Go
  <2>3. fault' \in [Threads -> FaultType]
    <3>1. CASE fault' = fault
      BY <3>1 DEF TypeOK
    <3>2. CASE fault' # fault
      <4>1. PICK e \in Errors : Raise("caller", e)
        BY <2>1, <3>2 DEF WaitReady, ReadyValues, Errors
      <4>2. QED
        BY <1>0, <4>1, RaiseType
    <3>3. QED
      BY <3>1, <3>2
  <2>4. QED
    BY <2>1, <2>2, <2>3 DEF WaitReady, TypeOK, Limits
<1>10. CASE FinishStart
  <2>1. snapshot' \in SnapshotType
    BY <1>0, <1>10 DEF FinishStart, SnapshotType
  <2>2. caller' \in CallerType
    BY <1>0, <1>10 DEF FinishStart, Return
  <2>3. QED
    BY <1>10, <2>1, <2>2 DEF FinishStart, TypeOK, Limits
<1>11. QED
  BY <1>1, <1>2, <1>3, <1>4, <1>5, <1>6, <1>7, <1>8, <1>9, <1>10 DEF CallerSteps, StartSteps

\* The worker's step leaves the caller alone; the caller's leaves it launching.
LEMMA LaunchingKept ==
  ASSUME TypeOK, Limits, Launching, Next
  PROVE  Launching'
<1> USE DEF Launching
<1>1. CASE BeginStart \/ BeginStop
  BY <1>1 DEF BeginStart, BeginStop
<1>2. CASE SetStopping \/ RequestStop \/ TakeRun \/ JoinRun \/ SetStopped
  <2>1. /\ UNCHANGED <<input, proc>>
        /\ caller' = IdleCaller \/
             \E pc \in {"request_stop", "take", "join", "resolve", "set_stopped"} : Go(pc)
    <3>1. caller.goal \in {"start", "stop", "abort"}
      BY <1>2 DEF SetStopping, RequestStop, TakeRun, JoinRun, SetStopped, CallerAt, TypeOK,
                  CallerType
    <3>2. QED
      BY <1>2, <3>1 DEF SetStopping, RequestStop, TakeRun, JoinRun, SetStopped, AfterCleanup, Return
  <2>2. caller.pc # "idle"
    BY <1>2 DEF SetStopping, RequestStop, TakeRun, JoinRun, SetStopped, CallerAt
  <2>3. QED
    BY <2>1, <2>2 DEF Go, IdleCaller, TypeOK, CallerType
<1>3. CASE Resolve
  BY <1>3 DEF Resolve, Go, Return, IdleCaller, CallerAt, TypeOK, CallerType, Inputs
<1>4. CASE ResetStop \/ ResetFailure \/ SpawnFails \/ InstallRun \/ FinishStart
  <2>1. CASE ResetStop \/ ResetFailure
    BY <2>1 DEF ResetStop, ResetFailure, Go, CallerAt, TypeOK, CallerType
  <2>2. CASE SpawnFails \/ FinishStart
    BY <2>2 DEF SpawnFails, FinishStart, Return, IdleCaller
  <2>3. CASE InstallRun
    BY <2>3 DEF InstallRun, Go, CallerAt, TypeOK, CallerType
  <2>4. QED
    BY <1>4, <2>1, <2>2, <2>3
<1>5. ASSUME NEW i \in Inputs, SpawnInput(i)
      PROVE  Launching'
  BY <1>5 DEF SpawnInput, Go, CallerAt, TypeOK, CallerType, Inputs
<1>6. CASE SpawnProcessing \/ WaitRun
  BY <1>6 DEF SpawnProcessing, WaitRun, WaitReady, Go, CallerAt, TypeOK, CallerType
<1>7. ASSUME NEW i \in Inputs, InputNext(i)
      PROVE  Launching'
  <2>1. input[i].pc # "none" /\ caller' = caller /\ proc' = proc
    BY <1>7 DEF InputNext, InputSteps, InputOpen, InputLeave, InputRead, InputReadFails, InputPush,
                InputStop, InputFinish, InputAt
  <2>2. \A j \in Inputs \ {i} : input'[j] = input[j]
    BY <1>7 DEF InputNext, InputSteps, InputOpen, InputLeave, InputRead, InputReadFails, InputPush,
                InputStop, InputFinish, TypeOK
  <2>3. QED
    BY <2>1, <2>2 DEF NewInput, Inputs
<1>8. CASE ProcNext
  <2>1. proc.pc # "none" /\ UNCHANGED <<caller, input>>
    BY <1>8 DEF ProcNext, ProcStart, ProcLoop, ProcOpen, ProcFirstMic, ProcFirstRender, ProcAnnounce,
                ProcCheck, ProcMic, ProcResetByMic, ProcFetch, ProcResetByRender, ProcJudge,
                ProcPaired, ProcUnpaired, ProcProcessed, ProcRejected, ProcRebuild, ProcDeadline,
                ProcWritten, ProcFails, ProcRefreshed, ProcClose, ProcAt
  <2>2. QED
    BY <2>1 DEF NewProcessing
<1>9. ASSUME NEW t \in Threads, RecordFailure(t)
      PROVE  Launching'
  BY <1>9 DEF RecordFailure, Exchange, RaiseStop, FailQueues, Publish
<1>10. QED
  BY <1>1, <1>2, <1>3, <1>4, <1>5, <1>6, <1>7, <1>8, <1>9 DEF Next, CallerSteps, StartSteps

LEMMA PendingKept ==
  ASSUME TypeOK, Pending, Next
  PROVE  Pending'
<1> USE DEF Pending
<1>1. ASSUME NEW i \in Inputs, InputNext(i)
      PROVE  Pending'
  <2>1. CASE InputPush(i)
    BY <1>1, <2>1 DEF InputPush, InputAt, TypeOK, InputType
  <2>2. CASE InputRead(i)
    <3>1. MaxBurst \in Nat
      BY AecAssumption
    <3>2. QED
      BY <2>2, <3>1 DEF InputRead, TypeOK
  <2>3. CASE InputOpen(i)
    <3>1. /\ \A j \in Inputs \ {i} : input'[j] = input[j]
          /\ input'[i].pc # "push"
      BY <1>1, <2>3 DEF InputOpen, TypeOK, InputType
    <3>2. QED
      BY <3>1
  <2>4. CASE InputLeave(i) \/ InputReadFails(i) \/ InputStop(i) \/ InputFinish(i)
    <3>1. /\ \A j \in Inputs \ {i} : input'[j] = input[j]
          /\ input'[i].pc # "push"
      BY <1>1, <2>4 DEF InputLeave, InputReadFails, InputStop, InputFinish, TypeOK, InputType
    <3>2. QED
      BY <3>1
  <2>5. QED
    BY <1>1, <2>1, <2>2, <2>3, <2>4 DEF InputNext, InputSteps
<1>2. CASE ProcNext
  BY <1>2 DEF ProcNext, ProcStart, ProcLoop, ProcOpen, ProcFirstMic, ProcFirstRender, ProcAnnounce,
              ProcCheck, ProcMic, ProcResetByMic, ProcFetch, ProcResetByRender, ProcJudge,
              ProcPaired, ProcUnpaired, ProcProcessed, ProcRejected, ProcRebuild, ProcDeadline,
              ProcWritten, ProcFails, ProcRefreshed, ProcClose
<1>3. ASSUME NEW t \in Threads, RecordFailure(t)
      PROVE  Pending'
  BY <1>3 DEF RecordFailure, Exchange, RaiseStop, FailQueues, Publish
<1>4. CASE BeginStart \/ BeginStop \/ CallerSteps
  <2>1. CASE Resolve
    BY <2>1 DEF Resolve, NewInput
  <2>2. ASSUME NEW i \in Inputs, SpawnInput(i)
        PROVE  Pending'
    BY <2>2 DEF SpawnInput, TypeOK
  <2>3. QED
    BY <1>4, <2>1, <2>2 DEF BeginStart, BeginStop, CallerSteps, StartSteps, SetStopping, RequestStop,
         TakeRun, JoinRun, SetStopped, ResetStop, ResetFailure, SpawnFails, SpawnProcessing,
         InstallRun, WaitRun, WaitReady, FinishStart
<1>5. QED
  BY <1>1, <1>2, <1>3, <1>4 DEF Next

Typed == TypeOK /\ Pending /\ Limits /\ Launching

LEMMA InitTyped == Init => Typed
<1> SUFFICES ASSUME Init
             PROVE  Typed
  OBVIOUS
<1>1. snapshot \in SnapshotType /\ proc \in ProcessingType /\ echo \in EchoType
  BY FreshTypes DEF Init
<1>2. /\ queue \in [Inputs -> QueueType] /\ input \in [Inputs -> InputType]
      /\ \A i \in Inputs : Len(queue[i].frames) <= QueueCapacity
  BY FreshTypes DEF Init
<1>3. caller \in CallerType /\ fault \in [Threads -> FaultType]
  BY DEF Init, CallerType, IdleCaller, FaultType, NoFault, Errors
<1>4. TypeOK
  BY <1>1, <1>2, <1>3 DEF Init, TypeOK
<1>5. Pending /\ Launching
  BY DEF Init, Pending, NewInput, Launching, IdleCaller
<1>6. Limits
  BY FreshTypes DEF Init, Limits
<1>7. QED
  BY <1>4, <1>5, <1>6 DEF Typed

LEMMA NextTyped == Typed /\ [Next]_vars => Typed'
<1> SUFFICES ASSUME Typed, [Next]_vars
             PROVE  Typed'
  OBVIOUS
<1>1. CASE UNCHANGED vars
  BY <1>1 DEF Typed, vars, TypeOK, Pending, Limits, Launching
<1>2. CASE Next
  <2>1. TypeOK' /\ Limits'
    <3>1. ASSUME NEW i \in Inputs, InputNext(i)
          PROVE  TypeOK' /\ Limits'
      <4>1. proc' = proc
        BY <3>1 DEF InputNext, InputSteps, InputOpen, InputLeave, InputRead, InputReadFails,
                    InputPush, InputStop, InputFinish
      <4>2. QED
        BY <3>1, <4>1, InputStepType DEF Typed, Limits
    <3>2. ASSUME NEW t \in Threads, RecordFailure(t)
          PROVE  TypeOK' /\ Limits'
      <4>1. proc' = proc
        BY <3>2 DEF RecordFailure, Exchange, RaiseStop, FailQueues, Publish
      <4>2. QED
        BY <3>2, <4>1, FailureType DEF Typed, Limits
    <3>3. QED
      BY <1>2, <3>1, <3>2, CallerStepType, ProcStepType DEF Next, Typed
  <2>2. QED
    BY <1>2, <2>1, PendingKept, LaunchingKept DEF Typed
<1>3. QED
  BY <1>1, <1>2

\* TypeOK: every variable has its type, no timed queue outgrows its capacity, and
\* the misses and failures in a row stay within their limits, for every choice of
\* the constants.
THEOREM TypeCorrect == Spec => []TypeOK
<1>1. Typed => TypeOK
  BY DEF Typed
<1>2. QED
  BY <1>1, InitTyped, NextTyped, PTL DEF Spec

-----------------------------------------------------------------------------
(* The processing worker's own variables.                                  *)

\* A step that is not the processing worker's creates it or leaves it alone.
LEMMA ProcMoves ==
  ASSUME Typed, Next
  PROVE  \/ proc' = proc
         \/ proc' = NewProcessing
         \/ proc = NewProcessing /\ proc' = [NewProcessing EXCEPT !.pc = "open"]
         \/ ProcNext
<1>1. ASSUME NEW i \in Inputs, InputNext(i)
      PROVE  proc' = proc
  BY <1>1 DEF InputNext, InputSteps, InputOpen, InputLeave, InputRead, InputReadFails, InputPush,
              InputStop, InputFinish
<1>2. ASSUME NEW t \in Threads, RecordFailure(t)
      PROVE  proc' = proc
  BY <1>2 DEF RecordFailure, Exchange, RaiseStop, FailQueues, Publish
<1>3. CASE BeginStart \/ BeginStop \/ CallerSteps
  <2>1. CASE Resolve
    BY <2>1 DEF Resolve
  <2>2. CASE SpawnProcessing
    BY <2>2 DEF SpawnProcessing, GoProc, CallerAt, Typed, Launching
  <2>3. ASSUME NEW i \in Inputs, SpawnInput(i)
        PROVE  proc' = proc
    BY <2>3 DEF SpawnInput
  <2>4. QED
    BY <1>3, <2>1, <2>2, <2>3 DEF BeginStart, BeginStop, CallerSteps, StartSteps, SetStopping,
         RequestStop, TakeRun, JoinRun, SetStopped, ResetStop, ResetFailure, SpawnFails,
         InstallRun, WaitRun, WaitReady, FinishStart
<1>4. QED
  BY <1>1, <1>2, <1>3 DEF Next

\* The microphone frame and the last match are there exactly when a frame is worked
\* on, and nothing is written before the timeline is announced.
Stages ==
  /\ proc.pc \in {"none", "open", "first_mic"} => proc.mic = NoFrame
  /\ proc.pc \in {"none", "open", "first_mic", "first_render", "announce"} => proc.sequence = 0
  /\ Iterating => proc.mic # NoFrame

\* The frames that count as healthy are frames in a row that were paired and
\* processed, the one being processed included.
Health ==
  /\ proc.pc = "process" /\ proc.match = NoFrame => proc.healthy = 0
  /\ proc.healthy <= proc.streak + (IF proc.pc = "process" /\ proc.match # NoFrame THEN 1 ELSE 0)

LEMMA NewWorker ==
  ASSUME \/ proc' = NewProcessing \/ proc' = [NewProcessing EXCEPT !.pc = "open"]
  PROVE  Stages' /\ Health'
BY DEF Stages, Health, Iterating, NewProcessing

LEMMA ProcKeeps ==
  ASSUME TypeOK, Stages, Health, ProcNext
  PROVE  Stages' /\ Health'
<1> USE DEF ProcAt, Iterating
<1>0. /\ proc \in ProcessingType /\ proc.healthy \in Nat /\ proc.streak \in Nat
      /\ proc.sequence \in Nat
      /\ proc.pc # "process" => proc.healthy <= proc.streak
  BY DEF TypeOK, ProcessingType, Health
<1>1. ASSUME NEW e, EndUnready(e)
      PROVE  Stages' /\ Health'
  BY <1>1 DEF EndUnready, NewProcessing, Stages, Health
<1>2. ASSUME NEW pc \in ProcPcs, GoProc(pc),
             pc \notin {"none", "open", "process"}, proc.pc # "process",
             pc = "first_mic" => proc.pc = "open",
             pc \notin {"first_render", "announce"},
             pc \in {"mic_reset", "fetch", "examine", "judge", "record", "rebuild", "deadline",
                     "write"} => proc.mic # NoFrame
      PROVE  Stages' /\ Health'
  <2>1. /\ proc'.pc = pc /\ proc'.mic = proc.mic /\ proc'.sequence = proc.sequence
        /\ proc'.healthy = proc.healthy /\ proc'.streak = proc.streak
    BY <1>0, <1>2 DEF GoProc, ProcessingType
  <2>2. QED
    BY <1>0, <1>2, <2>1 DEF Stages, Health
<1>3. CASE ProcOpen
  BY <1>1, <1>2, <1>3 DEF ProcOpen, ProcPcs
<1>4. CASE ProcFirstMic
  <2>1. CASE PopResult(queue["mic"]) = "Frame"
    <3> DEFINE f == Head(queue["mic"].frames)
    <3>1. proc' = [proc EXCEPT !.pc = "first_render", !.mic = f]
      BY <1>4, <2>1 DEF ProcFirstMic
    <3> HIDE DEF f
    <3>2. /\ proc'.pc = "first_render" /\ proc'.sequence = proc.sequence
          /\ proc'.healthy = proc.healthy /\ proc'.streak = proc.streak
      BY <1>0, <3>1 DEF ProcessingType
    <3>3. QED
      BY <1>0, <1>4, <3>2 DEF ProcFirstMic, Stages, Health
  <2>2. QED
    BY <1>1, <1>4, <2>1 DEF ProcFirstMic
<1>5. CASE ProcFirstRender
  <2>1. CASE \E e \in ReadyValues : EndUnready(e)
    BY <1>1, <2>1
  <2>2. CASE /\ proc'.pc = "announce" /\ proc'.sequence = proc.sequence
             /\ proc'.healthy = proc.healthy /\ proc'.streak = proc.streak
    BY <1>0, <1>5, <2>2 DEF ProcFirstRender, Stages, Health
  <2>3. "RenderFailure" \in ReadyValues /\ snapshot.error \in ReadyValues
    BY DEF ReadyValues, Errors, TypeOK, SnapshotType
  <2>4. CASE PopResult(queue["render"]) = "Frame"
    <3> DEFINE f == Head(queue["render"].frames)
    <3>1. proc' = [proc EXCEPT !.pc = "announce", !.render = f]
      BY <1>5, <2>4 DEF ProcFirstRender
    <3> HIDE DEF f
    <3>2. QED
      BY <1>0, <2>2, <3>1 DEF ProcessingType
  <2>5. CASE PopResult(queue["render"]) # "Frame"
    <3>1. \/ \E e \in ReadyValues : EndUnready(e)
          \/ proc' = [proc EXCEPT !.pc = "announce", !.exhausted = TRUE]
      BY <1>5, <2>3, <2>5 DEF ProcFirstRender
    <3>2. QED
      BY <1>0, <2>1, <2>2, <3>1 DEF ProcessingType
  <2>6. QED
    BY <2>4, <2>5
<1>6. CASE ProcAnnounce
  <2>1. CASE proc' = [proc EXCEPT !.pc = "check", !.ready = "ok"]
    BY <1>0, <1>6, <2>1 DEF ProcAnnounce, Stages, Health, ProcessingType
  <2>2. QED
    BY <1>1, <1>6, <2>1 DEF ProcAnnounce
<1>7. CASE ProcCheck \/ ProcRefreshed \/ ProcFails
  BY <1>2, <1>7 DEF ProcCheck, ProcRefreshed, ProcFails, ProcPcs
<1>8. CASE ProcMic
  <2>1. CASE proc.mic = NoFrame /\ PopResult(queue["mic"]) = "Frame"
    <3> DEFINE f == Head(queue["mic"].frames)
    <3>1. proc' = [proc EXCEPT !.pc = AfterMic(f), !.mic = f] /\ proc.pc = "mic"
      BY <1>8, <2>1 DEF ProcMic
    <3>2. f # NoFrame /\ AfterMic(f) \in {"mic_reset", "fetch"}
      BY <2>1, Frames DEF AfterMic, Inputs
    <3> HIDE DEF f
    <3>3. /\ proc'.pc \in {"mic_reset", "fetch"} /\ proc'.mic = f
          /\ proc'.healthy = proc.healthy /\ proc'.streak = proc.streak
      BY <1>0, <3>1, <3>2 DEF ProcessingType
    <3>4. QED
      BY <1>0, <3>1, <3>2, <3>3 DEF Stages, Health
  <2>2. CASE ~(proc.mic = NoFrame /\ PopResult(queue["mic"]) = "Frame")
    BY <1>2, <1>8, <2>2 DEF ProcMic, AfterMic, ProcPcs
  <2>3. QED
    BY <2>1, <2>2
<1>9. CASE ProcResetByMic \/ ProcResetByRender \/ ProcRebuild
  <2>1. proc.pc \in {"mic_reset", "examine", "rebuild"}
        /\ \E pc \in {"fetch", "judge", "deadline", "final"} : GoProc(pc)
    BY <1>9 DEF ProcResetByMic, ProcResetByRender, ProcRebuild, Rebuild
  <2>2. QED
    BY <1>2, <2>1 DEF ProcPcs, Stages
<1>10. CASE ProcFetch \/ ProcJudge
  <2>1. /\ proc.pc \in {"fetch", "examine", "judge"}
        /\ proc'.pc \in {"examine", "record"} /\ proc'.mic = proc.mic
        /\ proc'.healthy = proc.healthy /\ proc'.streak = proc.streak
    <3>1. CASE ProcFetch
      <4>1. /\ proc.pc = "fetch"
            /\ \E f, x : proc' = [proc EXCEPT !.pc = "examine", !.render = f, !.exhausted = x]
        BY <3>1 DEF ProcFetch
      <4>2. QED
        BY <1>0, <4>1 DEF ProcessingType
    <3>2. CASE ProcJudge
      <4> DEFINE oldest == Oldest(queue["render"])
      <4>1. /\ proc.pc \in {"examine", "judge"}
            /\ \/ proc' = [proc EXCEPT !.pc = "examine", !.render = oldest]
               \/ proc' = [proc EXCEPT !.pc = "record", !.match = proc.render, !.render = oldest,
                                       !.exhausted = FALSE]
               \/ proc' = [proc EXCEPT !.pc = "record", !.match = NoFrame]
        BY <3>2 DEF ProcJudge
      <4> HIDE DEF oldest
      <4>2. QED
        BY <1>0, <4>1, ZenonT(60) DEF ProcessingType
    <3>3. QED
      BY <1>10, <3>1, <3>2
  <2>2. QED
    BY <1>0, <2>1 DEF Stages, Health
<1>11. CASE ProcPaired
  <2>1. /\ proc.pc = "record" /\ proc.match # NoFrame
        /\ proc'.pc = "process" /\ proc'.mic = proc.mic /\ proc'.match = proc.match
        /\ proc'.healthy = proc.healthy + 1 /\ proc'.streak = proc.streak
    BY <1>0, <1>11 DEF ProcPaired, ProcessingType
  <2>2. QED
    BY <1>0, <2>1 DEF Stages, Health
<1>12. CASE ProcUnpaired
  <2>1. /\ proc.pc = "record"
        /\ proc'.pc \in {"process", "final"} /\ proc'.mic = proc.mic
        /\ proc'.healthy = 0 /\ proc'.streak = 0
    BY <1>0, <1>12 DEF ProcUnpaired, ProcessingType
  <2>2. QED
    BY <1>0, <2>1 DEF Stages, Health
<1>13. CASE ProcProcessed
  <2>1. /\ proc.pc = "process"
        /\ proc'.pc = "deadline" /\ proc'.mic = proc.mic /\ proc'.healthy = proc.healthy
        /\ proc'.streak = IF proc.match = NoFrame THEN 0 ELSE proc.streak + 1
    BY <1>0, <1>13 DEF ProcProcessed, ProcessingType
  <2>2. proc'.healthy <= proc'.streak
    BY <1>0, <2>1 DEF Health
  <2>3. proc'.mic # NoFrame
    BY <2>1 DEF Stages
  <2>4. QED
    BY <1>0, <2>1, <2>2, <2>3 DEF Stages, Health
<1>14. CASE ProcRejected
  <2>1. /\ proc.pc = "process"
        /\ proc'.pc \in {"final", "rebuild"} /\ proc'.mic = proc.mic
        /\ proc'.healthy = 0 /\ proc'.streak = 0
    BY <1>0, <1>14 DEF ProcRejected, ProcessingType
  <2>2. QED
    BY <1>0, <2>1 DEF Stages, Health
<1>15. CASE ProcDeadline
  BY <1>2, <1>15 DEF ProcDeadline, ProcPcs, Stages
<1>16. CASE ProcWritten
  <2>1. /\ proc.pc = "write"
        /\ proc'.pc \in {"check", "refresh"}
        /\ proc'.healthy = proc.healthy /\ proc'.streak = proc.streak
    BY <1>0, <1>16 DEF ProcWritten, ProcessingType
  <2>2. QED
    BY <1>0, <2>1 DEF Stages, Health
<1>17. CASE ProcClose
  BY <1>17 DEF ProcClose, NewProcessing, Stages, Health
<1>18. QED
  BY <1>3, <1>4, <1>5, <1>6, <1>7, <1>8, <1>9, <1>10, <1>11, <1>12, <1>13, <1>14, <1>15, <1>16,
     <1>17 DEF ProcNext, ProcStart, ProcLoop


\* DoneMic: the microphone's queue is finished by the microphone worker's end only.
DoneMic == queue["mic"].producerDone => input["mic"].pc = "done"

LEMMA DoneMicKept ==
  ASSUME Typed, DoneMic, Next
  PROVE  DoneMic'
<1> USE DEF DoneMic
<1>0. /\ TypeOK /\ {"mic", "render"} \subseteq Inputs
      /\ queue \in [Inputs -> QueueType] /\ input \in [Inputs -> InputType]
  BY DEF Typed, TypeOK, Inputs
<1>1. ASSUME NEW i \in Inputs, InputNext(i)
      PROVE  DoneMic'
  <2>1. CASE InputPush(i)
    <3>1. /\ NextFrame(i) \in FrameType /\ Len(queue[i].frames) <= QueueCapacity
          /\ queue[i] \in QueueType
      BY <1>0, Sizes DEF NextFrame, FrameType, InputType
    <3>2. Push(queue[i], NextFrame(i), QueueCapacity).producerDone = queue[i].producerDone
      BY <3>1, PushedQueue
    <3>3. /\ queue'["mic"].producerDone = queue["mic"].producerDone
          /\ i # "mic" => input'["mic"] = input["mic"]
      BY <1>0, <2>1, <3>2 DEF InputPush
    <3>4. i = "mic" => input["mic"].pc # "done"
      BY <2>1 DEF InputPush, InputAt
    <3>5. QED
      BY <3>3, <3>4
  <2>2. CASE InputLeave(i) \/ InputRead(i) \/ InputReadFails(i) \/ InputStop(i)
    <3>1. /\ queue' = queue /\ input[i].pc # "done"
          /\ i # "mic" => input'["mic"] = input["mic"]
      BY <1>0, <2>2 DEF InputLeave, InputRead, InputReadFails, InputStop, InputAt
    <3>2. QED
      BY <3>1
  <2>3. CASE InputOpen(i) \/ InputFinish(i)
    <3>1. CASE i = "mic"
      <4>1. input["mic"].pc # "done"
        BY <2>3, <3>1 DEF InputOpen, InputFinish, InputAt
      <4>2. queue' = queue \/ input'["mic"].pc = "done"
        BY <1>0, <2>3, <3>1 DEF InputOpen, InputFinish, InputType
      <4>3. QED
        BY <4>1, <4>2
    <3>2. CASE i # "mic"
      BY <1>0, <2>3, <3>2 DEF InputOpen, InputFinish
    <3>3. QED
      BY <3>1, <3>2
  <2>4. QED
    BY <1>1, <2>1, <2>2, <2>3 DEF InputNext, InputSteps
<1>2. CASE ProcNext
  <2>1. /\ input' = input
        /\ \/ queue' = queue
           \/ /\ PopResult(queue["mic"]) = "Frame"
              /\ queue' = [queue EXCEPT !["mic"] = Popped(queue["mic"])]
           \/ \E q : queue' = [queue EXCEPT !["render"] = q]
    BY <1>2 DEF ProcNext, ProcStart, ProcLoop, ProcOpen, ProcFirstMic, ProcFirstRender, ProcAnnounce,
                ProcCheck, ProcMic, ProcResetByMic, ProcFetch, ProcResetByRender, ProcJudge,
                ProcPaired, ProcUnpaired, ProcProcessed, ProcRejected, ProcRebuild, ProcDeadline,
                ProcWritten, ProcFails, ProcRefreshed, ProcClose
  <2>2. QED
    BY <1>0, <2>1 DEF Popped, QueueType
<1>3. ASSUME NEW t \in Threads, RecordFailure(t)
      PROVE  DoneMic'
  BY <1>0, <1>3 DEF RecordFailure, Exchange, RaiseStop, FailQueues, FirstQueue, SecondQueue,
                    Publish, Fail, QueueType
<1>4. CASE BeginStart \/ BeginStop \/ CallerSteps
  <2>1. CASE Resolve
    BY <2>1, <1>0 DEF Resolve, NewQueue
  <2>2. ASSUME NEW i \in Inputs, SpawnInput(i)
        PROVE  DoneMic'
    <3>1. i = "mic" => input["mic"].pc # "done"
      BY <2>2 DEF SpawnInput, CallerAt, Typed, Launching, NewInput
    <3>2. QED
      BY <1>0, <2>2, <3>1 DEF SpawnInput
  <2>3. CASE JoinRun
    BY <1>0, <2>3 DEF JoinRun, Clear, QueueType
  <2>4. QED
    BY <1>4, <2>1, <2>2, <2>3 DEF BeginStart, BeginStop, CallerSteps, StartSteps, SetStopping,
         RequestStop, TakeRun, SetStopped, ResetStop, ResetFailure, SpawnFails, SpawnProcessing,
         InstallRun, WaitRun, WaitReady, FinishStart
<1>5. QED
  BY <1>1, <1>2, <1>3, <1>4 DEF Next

-----------------------------------------------------------------------------
(* What the state says.                                                    *)

\* A run that is starting or running has had no frame without a reference, no
\* rejected frame and none that is about to be.
Honest ==
  snapshot.state \in {"Starting", "Running"} =>
    /\ LastFrameGood
    /\ proc.pc = "process" => proc.match # NoFrame
    /\ proc.pc # "rebuild"

LEMMA HonestKept ==
  ASSUME Typed, Stages, Honest, Next
  PROVE  Honest'
<1> USE DEF ProcAt, Between
<1>0. /\ TypeOK /\ proc \in ProcessingType /\ snapshot \in SnapshotType
      /\ proc.sequence \in Nat /\ proc.streak \in Nat
  BY DEF Typed, TypeOK, ProcessingType
<1>1. ASSUME snapshot'.state \in {"Starting", "Running"} =>
                snapshot.state \in {"Starting", "Running"},
             proc' = proc
      PROVE  Honest'
  BY <1>1 DEF Honest, LastFrameGood
<1>2. ASSUME proc'.pc \in {"none", "open", "first_mic", "first_render", "announce", "mic_reset",
                           "fetch", "examine", "judge", "record", "final", "done"}
      PROVE  Honest'
  BY <1>2 DEF Honest, LastFrameGood
<1>3. ASSUME snapshot'.state \notin {"Starting", "Running"}
      PROVE  Honest'
  BY <1>3 DEF Honest
<1>4. ASSUME NEW i \in Inputs, InputNext(i)
      PROVE  Honest'
  BY <1>1, <1>4 DEF InputNext, InputSteps, InputOpen, InputLeave, InputRead, InputReadFails,
                    InputPush, InputStop, InputFinish
<1>5. ASSUME NEW t \in Threads, RecordFailure(t)
      PROVE  Honest'
  <2>1. CASE Publish(t)
    BY <1>0, <1>3, <2>1 DEF Publish, SnapshotType
  <2>2. QED
    BY <1>1, <1>5, <2>1 DEF RecordFailure, Exchange, RaiseStop, FailQueues
<1>6. CASE BeginStart \/ BeginStop \/ CallerSteps
  <2>1. CASE SetStopping \/ SetStopped
    BY <1>0, <1>3, <2>1 DEF SetStopping, SetStopped, SnapshotType
  <2>2. CASE Resolve
    BY <1>1, <1>2, <2>2 DEF Resolve, NewProcessing
  <2>3. CASE SpawnProcessing
    <3>1. proc'.pc = "open"
      BY <1>0, <2>3 DEF SpawnProcessing, GoProc, ProcessingType
    <3>2. QED
      BY <1>2, <3>1
  <2>4. CASE FinishStart
    BY <1>0, <1>1, <2>4 DEF FinishStart, SnapshotType
  <2>5. ASSUME NEW i \in Inputs, SpawnInput(i)
        PROVE  Honest'
    BY <1>1, <2>5 DEF SpawnInput
  <2>6. QED
    BY <1>1, <1>6, <2>1, <2>2, <2>3, <2>4, <2>5 DEF BeginStart, BeginStop, CallerSteps, StartSteps,
         RequestStop, TakeRun, JoinRun, ResetStop, ResetFailure, SpawnFails, InstallRun, WaitRun,
         WaitReady
<1>7. CASE ProcStart
  <2>1. CASE ProcAnnounce
    <3>1. snapshot' = snapshot /\ proc.sequence = 0
      BY <2>1 DEF ProcAnnounce, Stages
    <3>2. \/ proc'.pc = "done"
          \/ proc'.pc = "check" /\ proc'.sequence = proc.sequence
      BY <1>0, <2>1 DEF ProcAnnounce, EndUnready, NewProcessing, ProcessingType
    <3>3. QED
      BY <1>2, <3>1, <3>2 DEF Honest, LastFrameGood
  <2>2. CASE ProcOpen \/ ProcFirstMic \/ ProcFirstRender
    <3>1. proc'.pc \in {"first_mic", "first_render", "announce", "done"}
      BY <1>0, <2>2 DEF ProcOpen, ProcFirstMic, ProcFirstRender, EndUnready, GoProc, NewProcessing,
                        ProcessingType
    <3>2. QED
      BY <1>2, <3>1
  <2>3. QED
    BY <1>7, <2>1, <2>2 DEF ProcStart
<1>8. CASE ProcCheck \/ ProcMic \/ ProcRefreshed
  <2>1. proc.pc \in {"check", "mic", "refresh"} /\ snapshot' = snapshot
    BY <1>8 DEF ProcCheck, ProcMic, ProcRefreshed
  <2>2. \/ proc'.pc \in {"final", "mic_reset", "fetch"}
        \/ /\ proc'.pc \in {"check", "mic"}
           /\ proc'.sequence = proc.sequence /\ proc'.streak = proc.streak
    BY <1>0, <1>8 DEF ProcCheck, ProcMic, ProcRefreshed, GoProc, AfterMic, ProcessingType
  <2>3. QED
    BY <1>2, <2>1, <2>2 DEF Honest, LastFrameGood
<1>9. CASE ProcResetByMic \/ ProcResetByRender \/ ProcRebuild
  <2>1. \/ snapshot'.state = "Degraded"
        \/ proc'.pc = "final"
    BY <1>0, <1>9 DEF ProcResetByMic, ProcResetByRender, ProcRebuild, Rebuild, GoProc,
                      SnapshotType, ProcessingType
  <2>2. QED
    BY <1>2, <1>3, <2>1
<1>10. CASE ProcFetch \/ ProcJudge \/ ProcFails \/ ProcClose
  <2>1. proc'.pc \in {"examine", "record", "final", "done"}
    <3>1. CASE ProcFetch
      <4>1. \E f, x : proc' = [proc EXCEPT !.pc = "examine", !.render = f, !.exhausted = x]
        BY <3>1 DEF ProcFetch
      <4>2. QED
        BY <1>0, <4>1 DEF ProcessingType
    <3>2. CASE ProcJudge \/ ProcFails \/ ProcClose
      BY <1>0, <3>2 DEF ProcJudge, ProcFails, ProcClose, GoProc, NewProcessing, ProcessingType
    <3>3. QED
      BY <1>10, <3>1, <3>2
  <2>2. QED
    BY <1>2, <2>1
<1>11. CASE ProcPaired
  <2>1. proc'.pc = "process" /\ proc'.match = proc.match /\ proc.match # NoFrame
    BY <1>0, <1>11 DEF ProcPaired, ProcessingType
  <2>2. QED
    BY <2>1 DEF Honest, LastFrameGood
<1>12. CASE ProcUnpaired \/ ProcRejected
  BY <1>0, <1>3, <1>12 DEF ProcUnpaired, ProcRejected, Degrade, SnapshotType
<1>13. CASE ProcProcessed
  <2>1. /\ proc.pc = "process" /\ proc'.pc = "deadline" /\ snapshot' = snapshot
        /\ proc'.streak = IF proc.match = NoFrame THEN 0 ELSE proc.streak + 1
    BY <1>0, <1>13 DEF ProcProcessed, ProcessingType
  <2>2. QED
    BY <1>0, <2>1 DEF Honest, LastFrameGood
<1>14. CASE ProcDeadline
  <2>1. /\ proc.pc = "deadline" /\ proc'.pc = "write" /\ proc'.streak = proc.streak
        /\ snapshot' = snapshot \/ snapshot'.state = "Degraded"
    BY <1>0, <1>14 DEF ProcDeadline, GoProc, Degrade, ProcessingType, SnapshotType
  <2>2. QED
    BY <2>1 DEF Honest, LastFrameGood
<1>15. CASE ProcWritten
  <2>1. /\ proc.pc = "write" /\ proc'.pc \in {"check", "refresh"} /\ proc'.streak = proc.streak
        /\ snapshot'.state = snapshot.state
    BY <1>0, <1>15 DEF ProcWritten, ProcessingType, SnapshotType
  <2>2. QED
    BY <2>1 DEF Honest, LastFrameGood
<1>16. QED
  BY <1>4, <1>5, <1>6, <1>7, <1>8, <1>9, <1>10, <1>11, <1>12, <1>13, <1>14, <1>15
     DEF Next, ProcNext, ProcLoop

-----------------------------------------------------------------------------
(* Every microphone frame is accounted for.                                *)

\* The frames of this run: written, worked on, waiting in the queue, discarded.
Accounted ==
  proc.sequence + (IF proc.mic = NoFrame THEN 0 ELSE 1) + Len(queue["mic"].frames)
  + queue["mic"].discarded

Balanced ==
  proc.pc \notin {"final", "done"} /\ ~queue["mic"].failed => input["mic"].made = Accounted

LEMMA BalancedByInput ==
  ASSUME Typed, DoneMic, Balanced, NEW i \in Inputs, InputNext(i)
  PROVE  Balanced'
<1>0. /\ {"mic", "render"} \subseteq Inputs /\ i \in {"mic", "render"}
      /\ queue \in [Inputs -> QueueType] /\ input \in [Inputs -> InputType]
      /\ queue[i] \in QueueType /\ TypeOK
  BY DEF Typed, TypeOK, Inputs
<1>1. proc' = proc
  BY DEF InputNext, InputSteps, InputOpen, InputLeave, InputRead, InputReadFails, InputPush,
         InputStop, InputFinish
<1>2. CASE InputPush(i)
  <2> DEFINE q == Push(queue[i], NextFrame(i), QueueCapacity)
  <2>1. CASE i = "mic"
    <3>1. /\ NextFrame(i) \in FrameType /\ Len(queue[i].frames) <= QueueCapacity
      BY <1>0, Sizes DEF NextFrame, FrameType, InputType
    <3>2. /\ q.failed = queue[i].failed /\ q \in QueueType
          /\ ~queue[i].failed /\ ~queue[i].producerDone =>
               Len(q.frames) + q.discarded = Len(queue[i].frames) + queue[i].discarded + 1
      BY <1>0, <3>1, PushedQueue
    <3>3. queue'["mic"] = q /\ ~queue["mic"].producerDone
      BY <1>0, <1>2, <2>1 DEF InputPush, InputAt, DoneMic
    <3>4. input'["mic"].made = input["mic"].made + 1
      BY <1>0, <1>2, <2>1 DEF InputPush, InputType
    <3> HIDE DEF q
    <3>5. /\ Len(q.frames) \in Nat /\ q.discarded \in Nat
          /\ Len(queue["mic"].frames) \in Nat /\ queue["mic"].discarded \in Nat
          /\ proc.sequence \in Nat /\ input["mic"].made \in Nat
      BY <1>0, <3>2, LenProperties DEF QueueType, TypeOK, ProcessingType, InputType
    <3>6. ~queue["mic"].failed =>
            Len(q.frames) + q.discarded = Len(queue["mic"].frames) + queue["mic"].discarded + 1
      BY <2>1, <3>2, <3>3
    <3>7. q.failed = queue["mic"].failed
      BY <2>1, <3>2
    <3> DEFINE held == IF proc.mic = NoFrame THEN 0 ELSE 1
    <3>8. Accounted = proc.sequence + held + Len(queue["mic"].frames) + queue["mic"].discarded
      BY DEF Accounted
    <3>9. Accounted' = proc.sequence + held + Len(q.frames) + q.discarded
      BY <1>1, <3>3 DEF Accounted
    <3>10. held \in Nat
      OBVIOUS
    <3> HIDE DEF held
    <3>11. ~queue["mic"].failed => Accounted' = Accounted + 1
      <4> DEFINE l == Len(queue["mic"].frames)
                 d == queue["mic"].discarded
                 m == Len(q.frames)
                 e == q.discarded
                 s == proc.sequence
      <4>1. /\ l \in Nat /\ d \in Nat /\ m \in Nat /\ e \in Nat /\ s \in Nat
            /\ (~queue["mic"].failed => m + e = l + d + 1)
        BY <3>5, <3>6
      <4>2. Accounted = s + held + l + d /\ Accounted' = s + held + m + e
        BY <3>8, <3>9
      <4> HIDE DEF l, d, m, e, s
      <4>3. ~queue["mic"].failed =>
              s + held + m + e = s + held + l + d + 1
        BY <3>10, <4>1
      <4>4. QED
        BY <4>2, <4>3
    <3>12. QED
      BY <1>1, <3>3, <3>4, <3>7, <3>11 DEF Balanced
  <2>2. CASE i # "mic"
    <3>1. queue'["mic"] = queue["mic"]
      BY <1>0, <1>2, <2>2 DEF InputPush
    <3>2. input'["mic"] = input["mic"]
      BY <1>0, <1>2, <2>2 DEF InputPush
    <3>3. QED
      BY <1>1, <3>1, <3>2 DEF Balanced, Accounted
  <2>3. QED
    BY <2>1, <2>2
<1>3. CASE ~InputPush(i)
  <2>1. input'["mic"].made = input["mic"].made
    <3>1. CASE i # "mic"
      BY <1>0, <1>3, <3>1 DEF InputNext, InputSteps, InputOpen, InputLeave, InputRead,
                              InputReadFails, InputStop, InputFinish
    <3>2. CASE InputRead("mic")
      <4>1. PICK n \in 1..MaxBurst, flagged \in BOOLEAN, jump \in Jumps["mic"] :
              input' = [input EXCEPT !["mic"].pc = "push",
                                     !["mic"].pending = n,
                                     !["mic"].clock = Stamp(@ + jump),
                                     !["mic"].mark = flagged,
                                     !["mic"].epoch = IF flagged THEN @ + 1 ELSE @]
        BY <3>2 DEF InputRead
      <4>2. QED
        BY <1>0, <4>1 DEF InputType
    <3>3. CASE i = "mic" /\ ~InputRead("mic")
      BY <1>0, <1>3, <3>3 DEF InputNext, InputSteps, InputOpen, InputLeave, InputReadFails,
                              InputStop, InputFinish, InputType
    <3>4. QED
      BY <3>1, <3>2, <3>3
  <2>2. queue'["mic"] \in {queue["mic"], FinishProducer(queue["mic"])}
    BY <1>0, <1>3 DEF InputNext, InputSteps, InputOpen, InputLeave, InputRead, InputReadFails,
                      InputStop, InputFinish
  <2>3. QED
    BY <1>0, <1>1, <2>1, <2>2, ControlType DEF Balanced, Accounted
<1>4. QED
  BY <1>2, <1>3

LEMMA BalancedByWorker ==
  ASSUME Typed, Stages, Balanced, ProcNext
  PROVE  Balanced'
<1>0. /\ {"mic", "render"} \subseteq Inputs /\ TypeOK
      /\ queue \in [Inputs -> QueueType] /\ proc \in ProcessingType /\ proc.sequence \in Nat
      /\ queue["mic"] \in QueueType
      /\ Len(queue["mic"].frames) \in Nat /\ queue["mic"].discarded \in Nat
      /\ input["mic"].made \in Nat
  BY Sizes DEF Typed, TypeOK, Inputs, ProcessingType, QueueType, InputType
<1>1. input' = input
  BY DEF ProcNext, ProcStart, ProcLoop, ProcOpen, ProcFirstMic, ProcFirstRender, ProcAnnounce,
         ProcCheck, ProcMic, ProcResetByMic, ProcFetch, ProcResetByRender, ProcJudge, ProcPaired,
         ProcUnpaired, ProcProcessed, ProcRejected, ProcRebuild, ProcDeadline, ProcWritten,
         ProcFails, ProcRefreshed, ProcClose
<1>2. ASSUME proc'.pc \in {"final", "done"}
      PROVE  Balanced'
  BY <1>2 DEF Balanced
\* The worker takes no microphone frame and writes none.
<1>3. ASSUME queue'["mic"] = queue["mic"], proc'.mic = proc.mic, proc'.sequence = proc.sequence,
             proc.pc \notin {"final", "done"}
      PROVE  Balanced'
  BY <1>1, <1>3 DEF Balanced, Accounted
\* The worker takes the oldest microphone frame.
<1>4. ASSUME PopResult(queue["mic"]) = "Frame", proc.mic = NoFrame,
             queue'["mic"] = Popped(queue["mic"]), proc'.mic = Head(queue["mic"].frames),
             proc'.sequence = proc.sequence, proc.pc \notin {"final", "done"}
      PROVE  Balanced'
  <2> DEFINE q == Popped(queue["mic"])
  <2>1. /\ queue["mic"].frames # <<>> /\ Head(queue["mic"].frames) # NoFrame
    BY <1>0, <1>4, HasFrame, Frames
  <2>2. /\ Len(q.frames) = Len(queue["mic"].frames) - 1 /\ q.failed = queue["mic"].failed
        /\ q.discarded = queue["mic"].discarded
    BY <1>0, <2>1, PoppedQueue
  <2> HIDE DEF q
  <2>3. queue'["mic"] = q
    BY <1>4 DEF q
  <2>4. Accounted' = Accounted
    BY <1>0, <1>4, <2>1, <2>2, <2>3, SMTT(30) DEF Accounted
  <2>5. QED
    BY <1>1, <1>4, <2>2, <2>3, <2>4 DEF Balanced
<1>5. CASE ProcOpen \/ ProcAnnounce \/ ProcCheck \/ ProcRefreshed \/ ProcFails \/ ProcClose
  <2>1. \/ proc'.pc \in {"final", "done"}
        \/ /\ proc'.mic = proc.mic /\ proc'.sequence = proc.sequence
           /\ proc.pc \notin {"final", "done"}
    BY <1>0, <1>5 DEF ProcOpen, ProcAnnounce, ProcCheck, ProcRefreshed, ProcFails, ProcClose,
                      EndUnready, GoProc, NewProcessing, ProcAt, ProcessingType
  <2>2. queue' = queue
    BY <1>5 DEF ProcOpen, ProcAnnounce, ProcCheck, ProcRefreshed, ProcFails, ProcClose
  <2>3. QED
    BY <1>2, <1>3, <2>1, <2>2
<1>6. CASE ProcFirstMic
  <2>1. proc.pc = "first_mic" /\ proc.mic = NoFrame
    BY <1>6 DEF ProcFirstMic, ProcAt, Stages
  <2>2. CASE PopResult(queue["mic"]) = "Frame"
    <3> DEFINE f == Head(queue["mic"].frames)
    <3>1. /\ proc' = [proc EXCEPT !.pc = "first_render", !.mic = f]
          /\ queue'["mic"] = Popped(queue["mic"])
      BY <1>0, <1>6, <2>2 DEF ProcFirstMic
    <3> HIDE DEF f
    <3>2. proc'.mic = f /\ proc'.sequence = proc.sequence
      BY <1>0, <3>1 DEF ProcessingType
    <3>3. QED
      BY <1>4, <2>1, <2>2, <3>1, <3>2 DEF f
  <2>3. QED
    BY <1>2, <1>6, <2>2 DEF ProcFirstMic, EndUnready, NewProcessing
<1>7. CASE ProcFirstRender \/ ProcFetch \/ ProcJudge
  <2>1. /\ proc.pc \notin {"final", "done"}
        /\ queue'["mic"] = queue["mic"]
    BY <1>0, <1>7 DEF ProcFirstRender, ProcFetch, ProcJudge, ProcAt
  <2>2. CASE proc'.pc = "done"
    BY <1>2, <2>2
  <2>3. CASE /\ proc'.mic = proc.mic /\ proc'.sequence = proc.sequence
    BY <1>3, <2>1, <2>3
  <2>4. CASE ProcFirstRender
    <3> DEFINE f == Head(queue["render"].frames)
    <3>1. \/ \E e : EndUnready(e)
          \/ proc' = [proc EXCEPT !.pc = "announce", !.render = f]
          \/ proc' = [proc EXCEPT !.pc = "announce", !.exhausted = TRUE]
      BY <2>4 DEF ProcFirstRender
    <3> HIDE DEF f
    <3>2. CASE \E e : EndUnready(e)
      BY <2>2, <3>2 DEF EndUnready, NewProcessing
    <3>3. QED
      BY <1>0, <2>3, <3>1, <3>2 DEF ProcessingType
  <2>5. CASE ProcFetch
    <3>1. \E f, x : proc' = [proc EXCEPT !.pc = "examine", !.render = f, !.exhausted = x]
      BY <2>5 DEF ProcFetch
    <3>2. QED
      BY <1>0, <2>3, <3>1 DEF ProcessingType
  <2>6. CASE ProcJudge
    <3> DEFINE oldest == Oldest(queue["render"])
    <3>1. \/ proc' = [proc EXCEPT !.pc = "examine", !.render = oldest]
          \/ proc' = [proc EXCEPT !.pc = "record", !.match = proc.render, !.render = oldest,
                                  !.exhausted = FALSE]
          \/ proc' = [proc EXCEPT !.pc = "record", !.match = NoFrame]
      BY <2>6 DEF ProcJudge
    <3> HIDE DEF oldest
    <3>2. QED
      BY <1>0, <2>3, <3>1 DEF ProcessingType
  <2>7. QED
    BY <1>7, <2>4, <2>5, <2>6
<1>8. CASE ProcMic
  <2>1. CASE proc.mic = NoFrame /\ PopResult(queue["mic"]) = "Frame"
    <3> DEFINE f == Head(queue["mic"].frames)
    <3>1. /\ proc' = [proc EXCEPT !.pc = AfterMic(f), !.mic = f] /\ proc.pc = "mic"
          /\ queue'["mic"] = Popped(queue["mic"])
      BY <1>0, <1>8, <2>1 DEF ProcMic, ProcAt
    <3> HIDE DEF f
    <3>2. proc'.mic = f /\ proc'.sequence = proc.sequence
      BY <1>0, <3>1 DEF ProcessingType
    <3>3. QED
      BY <1>4, <2>1, <3>1, <3>2 DEF f
  <2>2. CASE ~(proc.mic = NoFrame /\ PopResult(queue["mic"]) = "Frame")
    <3>1. queue' = queue /\ proc.pc = "mic" /\ \E pc : GoProc(pc)
      BY <1>8, <2>2 DEF ProcMic, ProcAt
    <3>2. proc'.mic = proc.mic /\ proc'.sequence = proc.sequence
      BY <1>0, <3>1 DEF GoProc, ProcessingType
    <3>3. QED
      BY <1>3, <3>1, <3>2
  <2>3. QED
    BY <2>1, <2>2
<1>9. CASE ProcResetByMic \/ ProcResetByRender \/ ProcRebuild \/ ProcDeadline
  <2>1. /\ queue' = queue /\ proc.pc \notin {"final", "done"} /\ \E pc : GoProc(pc)
    BY <1>9 DEF ProcResetByMic, ProcResetByRender, ProcRebuild, ProcDeadline, Rebuild, ProcAt
  <2>2. proc'.mic = proc.mic /\ proc'.sequence = proc.sequence
    BY <1>0, <2>1 DEF GoProc, ProcessingType
  <2>3. QED
    BY <1>3, <2>1, <2>2
<1>10. CASE ProcPaired \/ ProcUnpaired \/ ProcProcessed \/ ProcRejected
  <2>1. queue' = queue /\ proc.pc \notin {"final", "done"}
    BY <1>10 DEF ProcPaired, ProcUnpaired, ProcProcessed, ProcRejected, ProcAt
  <2>2. proc'.mic = proc.mic /\ proc'.sequence = proc.sequence
    BY <1>0, <1>10 DEF ProcPaired, ProcUnpaired, ProcProcessed, ProcRejected, ProcessingType
  <2>3. QED
    BY <1>3, <2>1, <2>2
<1>11. CASE ProcWritten
  <2>1. /\ proc.pc = "write" /\ proc.mic # NoFrame /\ queue' = queue
        /\ proc'.mic = NoFrame /\ proc'.sequence = proc.sequence + 1
    BY <1>0, <1>11 DEF ProcWritten, ProcAt, Stages, Iterating, ProcessingType
  <2>2. Accounted' = Accounted
    BY <1>0, <2>1 DEF Accounted
  <2>3. QED
    BY <1>1, <2>1, <2>2 DEF Balanced
<1>12. QED
  BY <1>5, <1>6, <1>7, <1>8, <1>9, <1>10, <1>11 DEF ProcNext, ProcStart, ProcLoop

LEMMA BalancedKept ==
  ASSUME Typed, Stages, DoneMic, Balanced, Next
  PROVE  Balanced'
<1>0. /\ {"mic", "render"} \subseteq Inputs /\ queue \in [Inputs -> QueueType]
      /\ input \in [Inputs -> InputType] /\ proc \in ProcessingType
  BY DEF Typed, TypeOK, Inputs
<1>1. ASSUME NEW t \in Threads, RecordFailure(t)
      PROVE  Balanced'
  <2>1. /\ UNCHANGED <<input, proc>>
        /\ queue'["mic"] \in {queue["mic"], Fail(queue["mic"])}
    BY <1>0, <1>1 DEF RecordFailure, Exchange, RaiseStop, FailQueues, FirstQueue, SecondQueue,
                      Publish
  <2>2. QED
    BY <1>0, <2>1, ControlType DEF Balanced, Accounted
<1>2. CASE BeginStart \/ BeginStop \/ CallerSteps
  <2>1. CASE Resolve
    <3>1. \/ UNCHANGED <<queue, input, proc>>
          \/ /\ queue'["mic"] = NewQueue /\ input'["mic"] = NewInput /\ proc' = NewProcessing
      BY <1>0, <2>1 DEF Resolve
    <3>2. QED
      BY <3>1, NewQueueType DEF Balanced, Accounted, NewQueue, NewInput, NewProcessing
  <2>2. ASSUME NEW i \in Inputs, SpawnInput(i)
        PROVE  Balanced'
    <3>1. input'["mic"].made = input["mic"].made /\ UNCHANGED <<queue, proc>>
      BY <1>0, <2>2 DEF SpawnInput, InputType
    <3>2. QED
      BY <3>1 DEF Balanced, Accounted
  <2>3. CASE SpawnProcessing
    <3>1. /\ proc = NewProcessing /\ proc' = [proc EXCEPT !.pc = "open"]
          /\ UNCHANGED <<queue, input>>
      BY <2>3 DEF SpawnProcessing, GoProc, CallerAt, Typed, Launching
    <3>2. proc.pc = "none" /\ proc'.mic = proc.mic /\ proc'.sequence = proc.sequence
      BY <3>1 DEF NewProcessing
    <3>3. QED
      BY <3>1, <3>2 DEF Balanced, Accounted
  <2>4. CASE JoinRun
    BY <2>4 DEF JoinRun, WorkersEnded, ProcEnded, Balanced
  <2>5. QED
    <3>1. CASE UNCHANGED <<queue, input, proc>>
      BY <3>1 DEF Balanced, Accounted
    <3>2. QED
      BY <1>2, <2>1, <2>2, <2>3, <2>4, <3>1 DEF BeginStart, BeginStop, CallerSteps, StartSteps,
         SetStopping, RequestStop, TakeRun, SetStopped, ResetStop, ResetFailure, SpawnFails,
         InstallRun, WaitRun, WaitReady, FinishStart
<1>3. QED
  BY <1>1, <1>2, BalancedByInput, BalancedByWorker DEF Next

-----------------------------------------------------------------------------
(* The timeline.  Each input's frames are numbered as they are made, and   *)
(* come later and later in the device, in the queue and in the worker's    *)
(* hands, whatever their times, so a frame that is paired was made after   *)
(* every one paired before it.                                             *)

Alive(i) == input[i].pc \in {"read", "push"}
Unborn(i) == input[i].pc \in {"none", "open"}

\* Every frame that waits in the queue of i, or that i has yet to make, has a
\* number above t.
Before(t, i) ==
  /\ \A a \in 1..Len(queue[i].frames) : t < queue[i].frames[a].number
  /\ Alive(i) => t < input[i].made

\* The worker has had the frame of input i with the number t, and remembers it.
Holds(i, t) ==
  \/ i = "mic" /\ t = proc.pair.mic
  \/ i = "mic" /\ proc.mic # NoFrame /\ t = proc.mic.number
  \/ i = "render" /\ t = proc.pair.render
  \/ i = "render" /\ proc.render # NoFrame /\ t = proc.render.number
  \/ i = "render" /\ proc.match # NoFrame /\ t = proc.match.number

Ordered(s) == \A a, b \in 1..Len(s) : a < b => s[a].number < s[b].number

Chain(i) ==
  /\ Unborn(i) => queue[i].frames = <<>> /\ \A t \in Int : Holds(i, t) => t = -1
  /\ Alive(i) => \A a \in 1..Len(queue[i].frames) : queue[i].frames[a].number < input[i].made
  /\ Ordered(queue[i].frames)
  /\ \A t \in Int : Holds(i, t) => Before(t, i)

Selecting == proc.pc \notin {"process", "rebuild", "deadline", "write", "final"}

\* The worker's frames are later than the last pair, and the match it has just
\* found is within the tolerance.
Hand ==
  /\ Selecting /\ proc.mic # NoFrame => proc.pair.mic < proc.mic.number
  /\ proc.render # NoFrame =>
       /\ proc.pair.render < proc.render.number
       /\ proc.match # NoFrame => proc.match.number < proc.render.number
  /\ proc.pc = "record" /\ proc.match # NoFrame =>
       /\ proc.pair.render < proc.match.number
       /\ proc.match.time - proc.mic.time \in -Tolerance..Tolerance

Timeline == Hand /\ \A i \in Inputs : Chain(i)

LEMMA NextIndices ==
  ASSUME NEW n \in Nat, NEW a \in 1..n, NEW b \in 1..n, a < b
  PROVE  /\ a + 1 \in 1..(n + 1) /\ b + 1 \in 1..(n + 1) /\ a + 1 < b + 1
OBVIOUS

LEMMA Times ==
  ASSUME TypeOK
  PROVE  /\ proc.pair.mic \in Int /\ proc.pair.render \in Int /\ proc.mic.number \in Int
         /\ proc.render.number \in Int /\ proc.match.number \in Int
         /\ \A i \in Inputs : /\ input[i].made \in Nat
                              /\ queue[i].frames \in Seq(FrameType)
                              /\ Len(queue[i].frames) \in Nat
                              /\ \A a \in 1..Len(queue[i].frames) :
                                   queue[i].frames[a].number \in Nat
<1>1. /\ proc.pair.mic \in Int /\ proc.pair.render \in Int /\ proc.mic.number \in Int
      /\ proc.render.number \in Int /\ proc.match.number \in Int
  <2>1. /\ proc.mic \in MaybeFrame /\ proc.render \in MaybeFrame /\ proc.match \in MaybeFrame
        /\ proc.pair \in [mic : Nat \union {-1}, render : Nat \union {-1}]
    BY DEF TypeOK, ProcessingType
  <2>2. proc.pair.mic \in Int /\ proc.pair.render \in Int
    BY <2>1
  <2>3. /\ proc.mic.number \in Nat /\ proc.render.number \in Nat
        /\ proc.match.number \in Nat
    BY <2>1, FrameParts
  <2>4. QED
    BY <2>2, <2>3
<1>2. ASSUME NEW i \in Inputs
      PROVE  /\ input[i].made \in Nat /\ queue[i].frames \in Seq(FrameType)
             /\ Len(queue[i].frames) \in Nat
             /\ \A a \in 1..Len(queue[i].frames) : queue[i].frames[a].number \in Nat
  <2>1. input[i] \in InputType /\ queue[i].frames \in Seq(FrameType)
    BY DEF TypeOK, QueueType
  <2>2. \A a \in 1..Len(queue[i].frames) : queue[i].frames[a] \in FrameType
    BY <2>1, ElementOfSeq
  <2>3. QED
    BY <2>1, <2>2, LenProperties DEF InputType, FrameType
<1>3. QED
  BY <1>1, <1>2

\* An input and its queue that stay, or a queue that loses all its frames.
LEMMA ChainStays ==
  ASSUME TypeOK, NEW i \in Inputs, Chain(i),
         Alive(i)' => Alive(i) /\ input'[i].made = input[i].made,
         Unborn(i)' => Unborn(i),
         queue'[i].frames = queue[i].frames \/ queue'[i].frames = <<>>,
         \A t \in Int : Holds(i, t)' => Holds(i, t) \/ t = -1
  PROVE  Chain(i)'
<1>1. Len(<<>>) = 0 /\ \A a \in 1..0 : FALSE
  OBVIOUS
<1>2. Ordered(queue'[i].frames)
  BY <1>1 DEF Chain, Ordered
<1>3. Alive(i)' => \A a \in 1..Len(queue'[i].frames) : queue'[i].frames[a].number < input'[i].made
  BY <1>1 DEF Chain
<1>4. Unborn(i)' => queue'[i].frames = <<>> /\ \A t \in Int : Holds(i, t)' => t = -1
  BY DEF Chain
<1>5. ASSUME NEW t \in Int, Holds(i, t)'
      PROVE  Before(t, i)'
  <2>1. Before(t, i)
    <3>1. CASE Holds(i, t)
      BY <3>1 DEF Chain
    <3>2. CASE t = -1
      BY <3>2, Times DEF Before
    <3>3. QED
      BY <1>5, <3>1, <3>2
  <2>2. QED
    BY <1>1, <2>1 DEF Before
<1>6. QED
  BY <1>2, <1>3, <1>4, <1>5 DEF Chain

\* The worker takes the oldest frame of the queue of i.
LEMMA ChainTakes ==
  ASSUME TypeOK, NEW i \in Inputs, Chain(i), queue[i].frames # <<>>,
         input' = input, queue'[i] = Popped(queue[i]),
         \A t \in Int : Holds(i, t)' =>
                          Holds(i, t) \/ t = Head(queue[i].frames).number \/ t = -1
  PROVE  /\ Chain(i)'
         /\ \A t \in Int : Holds(i, t) => t < Head(queue[i].frames).number
<1> DEFINE s == queue[i].frames
           r == Tail(s)
           h == Head(s)
<1>1. /\ s \in Seq(FrameType) /\ r \in Seq(FrameType) /\ Len(r) = Len(s) - 1
      /\ \A a \in 1..Len(r) : r[a] = s[a + 1]
      /\ h = s[1] /\ Len(s) \in Nat /\ Len(s) > 0
  <2>1. s \in Seq(FrameType) /\ Len(s) \in Nat
    BY Times
  <2>2. Len(s) # 0
    BY <2>1, EmptySeq
  <2>3. QED
    BY <2>1, <2>2, HeadTailProperties
<1>2. queue'[i].frames = r
  BY DEF Popped, QueueType, TypeOK
<1>3. /\ \A a \in 1..Len(s) : s[a].number \in Nat
      /\ Ordered(s)
      /\ Alive(i) => \A a \in 1..Len(s) : s[a].number < input[i].made
      /\ \A t \in Int : Holds(i, t) => Before(t, i)
      /\ ~Unborn(i)
  BY <1>1, Times DEF Chain
<1>4. \A t \in Int : Before(t, i) => \A a \in 1..Len(s) : t < s[a].number
  BY DEF Before
<1>5. \A t \in Int : Before(t, i) /\ Alive(i) => t < input[i].made
  BY DEF Before
<1> HIDE DEF r, s, h
<1>6. Ordered(r)
  <2>1. SUFFICES ASSUME NEW a \in 1..Len(r), NEW b \in 1..Len(r), a < b
                 PROVE  r[a].number < r[b].number
    BY DEF Ordered
  <2>2. a + 1 \in 1..Len(s) /\ b + 1 \in 1..Len(s) /\ a + 1 < b + 1
    <3>1. Len(r) \in Nat /\ Len(s) = Len(r) + 1
      BY <1>1
    <3>2. QED
      BY <2>1, <3>1, NextIndices
  <2>3. s[a + 1].number < s[b + 1].number
    BY <1>3, <2>2 DEF Ordered
  <2>4. QED
    BY <1>1, <2>3
<1>7. \A a \in 1..Len(r) : r[a].number = s[a + 1].number /\ a + 1 \in 1..Len(s)
  BY <1>1
<1>8. Alive(i) => \A a \in 1..Len(r) : r[a].number < input[i].made
  BY <1>3, <1>7
<1>9. /\ h.number \in Nat
      /\ \A a \in 1..Len(r) : h.number < r[a].number
      /\ Alive(i) => h.number < input[i].made
  <2>1. 1 \in 1..Len(s) /\ \A a \in 1..Len(r) : a + 1 \in 1..Len(s) /\ 1 < a + 1
    BY <1>1
  <2>2. \A a \in 1..Len(r) : s[1].number < s[a + 1].number
    BY <1>3, <2>1 DEF Ordered
  <2>3. QED
    BY <1>1, <1>3, <1>7, <2>1, <2>2
<1>10. ASSUME NEW t \in Int, Holds(i, t)
       PROVE  t < h.number
  BY <1>1, <1>3, <1>4, <1>10
<1>11. ASSUME NEW t \in Int, Holds(i, t)'
       PROVE  /\ \A a \in 1..Len(r) : t < r[a].number
              /\ Alive(i) => t < input[i].made
  <2>1. CASE Holds(i, t)
    BY <1>3, <1>4, <1>5, <1>7, <2>1
  <2>2. CASE t = h.number
    BY <1>9, <2>2
  <2>3. CASE t = -1
    <3>1. \A a \in 1..Len(r) : r[a].number \in Nat
      BY <1>3, <1>7
    <3>2. input[i].made \in Nat
      BY Times
    <3>3. QED
      BY <2>3, <3>1, <3>2
  <2>4. QED
    BY <1>11, <2>1, <2>2, <2>3 DEF h, s
<1>12. (Alive(i)' <=> Alive(i)) /\ (Unborn(i)' <=> Unborn(i)) /\ input'[i].made = input[i].made
  BY DEF Alive, Unborn
<1>13. \A t \in Int : Holds(i, t)' => Before(t, i)'
  BY <1>2, <1>11, <1>12 DEF Before
<1>14. Chain(i)'
  BY <1>2, <1>3, <1>6, <1>8, <1>12, <1>13 DEF Chain
<1>15. QED
  BY <1>10, <1>14 DEF h, s

\* The accumulator's frame is later than all before it, and so is its next one.
LEMMA ChainPush ==
  ASSUME TypeOK, DoneMic, NEW i \in Inputs, Chain(i), InputPush(i)
  PROVE  Chain(i)'
<1> DEFINE s == queue[i].frames
           f == NextFrame(i)
           m == MakeRoom(queue[i], QueueCapacity).frames
           r == queue'[i].frames
           made == input[i].made
<1>0. /\ queue[i] \in QueueType /\ input[i] \in InputType /\ QueueCapacity \in Nat \ {0}
      /\ Len(s) <= QueueCapacity /\ s \in Seq(FrameType) /\ Len(s) \in Nat /\ made \in Nat
      /\ queue \in [Inputs -> QueueType] /\ input \in [Inputs -> InputType]
      /\ \A a \in 1..Len(s) : s[a].number \in Nat
  BY Sizes, Times DEF TypeOK
<1>1. f \in FrameType /\ f.number = made
  BY <1>0 DEF NextFrame, FrameType, InputType
<1>2. Alive(i) /\ ~Unborn(i)
  BY DEF InputPush, InputAt, Alive, Unborn
<1>3. /\ Ordered(s) /\ \A a \in 1..Len(s) : s[a].number < made
      /\ \A t \in Int : Holds(i, t) => Before(t, i)
  BY <1>2 DEF Chain
<1>4. input' = [input EXCEPT ![i].pc = IF input[i].pending = 1 THEN "read" ELSE "push",
                             ![i].pending = @ - 1, ![i].made = @ + 1,
                             ![i].clock = @ + FrameTicks,
                             ![i].mark = FALSE, ![i].lost = @ \/ LosesMark(queue[i])]
  BY DEF InputPush
<1>5. input'[i].made = made + 1 /\ input'[i].pc \in {"read", "push"}
  <2> DEFINE pc == IF input[i].pending = 1 THEN "read" ELSE "push"
             lost == input[i].lost \/ LosesMark(queue[i])
             clock == input[i].clock + FrameTicks
  <2>1. input' = [input EXCEPT ![i] = [input[i] EXCEPT !.pc = pc, !.pending = input[i].pending - 1,
                     !.made = input[i].made + 1, !.clock = clock, !.mark = FALSE, !.lost = lost]]
    BY <1>0, <1>4
  <2>2. pc \in {"read", "push"}
    OBVIOUS
  <2> HIDE DEF pc, lost, clock
  <2>3. QED
    BY <1>0, <2>1, <2>2 DEF InputType
<1>6. r = s \/ (r = Append(m, f) /\ m = s)
      \/ (r = Append(m, f) /\ m = Tail(s) /\ s # <<>>)
  <2>1. queue'[i] = Push(queue[i], f, QueueCapacity)
    BY <1>0 DEF InputPush
  <2>2. CASE queue[i].failed \/ queue[i].producerDone
    BY <2>1, <2>2 DEF Push
  <2>3. CASE ~(queue[i].failed \/ queue[i].producerDone)
    <3>1. MakeRoom(queue[i], QueueCapacity) \in {queue[i],
            [queue[i] EXCEPT !.frames = Tail(s), !.discarded = queue[i].discarded + 1]}
      BY DEF MakeRoom
    <3>2. Len(s) # QueueCapacity => m = s
      BY DEF MakeRoom
    <3>3. Len(s) = QueueCapacity => m = Tail(s) /\ s # <<>>
      <4>1. Len(s) = QueueCapacity => s # <<>>
        BY <1>0
      <4>2. QED
        BY <1>0, <4>1 DEF MakeRoom, QueueType
    <3>4. r = Append(m, f)
      <4> DEFINE room == MakeRoom(queue[i], QueueCapacity)
      <4>1. queue'[i] = [room EXCEPT !.frames = Append(room.frames, f)]
        BY <2>1, <2>3 DEF Push
      <4>2. room = queue[i] \/ room = [queue[i] EXCEPT !.frames = Tail(s),
                                         !.discarded = queue[i].discarded + 1]
        BY <3>1
      <4> HIDE DEF room
      <4>3. room.frames = m
        BY DEF room
      <4>4. QED
        BY <1>0, <4>1, <4>2, <4>3 DEF QueueType
    <3>5. QED
      BY <3>2, <3>3, <3>4
  <2>4. QED
    BY <2>2, <2>3
<1> HIDE DEF r, m, f, s, made
\* What is left of the queue is a later part of it.
<1>7. ASSUME m = s \/ (m = Tail(s) /\ s # <<>>)
      PROVE  /\ m \in Seq(FrameType) /\ Len(m) \in Nat
             /\ Ordered(m)
             /\ \A a \in 1..Len(m) : \E b \in 1..Len(s) : m[a] = s[b]
  <2>1. CASE m = s
    BY <1>0, <1>3, <2>1
  <2>2. CASE m = Tail(s) /\ s # <<>>
    <3>1. /\ m \in Seq(FrameType) /\ Len(m) = Len(s) - 1 /\ Len(m) \in Nat
          /\ \A a \in 1..Len(m) : m[a] = s[a + 1]
      BY <1>0, <2>2, HeadTailProperties, LenProperties
    <3>2. \A a \in 1..Len(m) : a + 1 \in 1..Len(s)
      BY <1>0, <3>1
    <3>3. Ordered(m)
      <4>1. SUFFICES ASSUME NEW a \in 1..Len(m), NEW b \in 1..Len(m), a < b
                     PROVE  m[a].number < m[b].number
        BY DEF Ordered
      <4>2. s[a + 1].number < s[b + 1].number
        <5>1. a + 1 < b + 1
          BY <3>1, <4>1, NextIndices
        <5>2. QED
          BY <1>3, <3>2, <5>1 DEF Ordered
      <4>3. QED
        BY <3>1, <4>2
    <3>4. QED
      BY <3>1, <3>2, <3>3
  <2>3. QED
    BY <1>7, <2>1, <2>2
<1>8. /\ Ordered(r)
      /\ \A a \in 1..Len(r) : r[a].number = made \/ \E b \in 1..Len(s) : r[a] = s[b]
  <2>1. CASE r = s
    BY <1>3, <2>1
  <2>2. CASE r = Append(m, f)
    <3>0. m = s \/ (m = Tail(s) /\ s # <<>>) \/ r = s
      BY <1>6
    <3>1. CASE m = s \/ (m = Tail(s) /\ s # <<>>)
      <4>1. /\ Len(r) = Len(m) + 1 /\ \A a \in 1..Len(m) : r[a] = m[a]
            /\ r[Len(m) + 1] = f
        BY <1>1, <1>7, <2>2, <3>1, AppendProperties
      <4>2. \A a \in 1..Len(r) : a \in 1..Len(m) \/ a = Len(m) + 1
        BY <1>7, <3>1, <4>1
      <4>3. \A a \in 1..Len(m) : m[a].number < made
        BY <1>3, <1>7, <3>1
      <4>4. Ordered(r)
        <5>1. SUFFICES ASSUME NEW a \in 1..Len(r), NEW b \in 1..Len(r), a < b
                       PROVE  r[a].number < r[b].number
          BY DEF Ordered
        <5>2. a \in 1..Len(m)
          BY <1>7, <3>1, <4>1, <5>1
        <5>3. CASE b \in 1..Len(m)
          BY <1>7, <3>1, <4>1, <5>1, <5>2, <5>3 DEF Ordered
        <5>4. CASE b = Len(m) + 1
          BY <1>1, <4>1, <4>3, <5>2, <5>4
        <5>5. QED
          BY <4>2, <5>3, <5>4
      <4>5. QED
        BY <1>1, <1>7, <3>1, <4>1, <4>2, <4>4
    <3>2. QED
      BY <2>1, <3>0, <3>1
  <2>3. QED
    BY <1>6, <2>1, <2>2
<1>9. (Alive(i))' /\ ~(Unborn(i))'
  BY <1>5 DEF Alive, Unborn
<1>10. \A a \in 1..Len(r) : r[a].number < made + 1
  BY <1>0, <1>3, <1>5, <1>8
<1>11. ASSUME NEW t \in Int, Holds(i, t)'
       PROVE  Before(t, i)'
  <2>1. Holds(i, t)
    BY <1>11 DEF Holds, InputPush
  <2>2. /\ \A a \in 1..Len(s) : t < s[a].number
        /\ t < made
    BY <1>2, <1>3, <2>1 DEF Before, s, made
  <2>3. \A a \in 1..Len(r) : t < r[a].number
    BY <1>8, <2>2
  <2>4. t < made + 1
    BY <1>0, <1>5, <2>2
  <2>5. QED
    BY <1>5, <2>3, <2>4 DEF Before, r
<1>12. QED
  BY <1>5, <1>8, <1>9, <1>10, <1>11 DEF Chain, r

LEMMA TimelineByInput ==
  ASSUME Typed, DoneMic, Timeline, NEW i \in Inputs, InputNext(i)
  PROVE  Timeline'
<1>0. /\ TypeOK /\ queue \in [Inputs -> QueueType] /\ input \in [Inputs -> InputType]
  BY DEF Typed, TypeOK
<1>1. proc' = proc
  BY DEF InputNext, InputSteps, InputOpen, InputLeave, InputRead, InputReadFails, InputPush,
         InputStop, InputFinish
<1>2. \A j \in Inputs, t \in Int : Holds(j, t)' <=> Holds(j, t)
  BY <1>1 DEF Holds
<1>3. Hand'
  BY <1>1 DEF Timeline, Hand, Selecting
<1>4. ASSUME NEW j \in Inputs, j # i
      PROVE  Chain(j)'
  <2>1. queue'[j] = queue[j] /\ input'[j] = input[j]
    BY <1>0, <1>4 DEF InputNext, InputSteps, InputOpen, InputLeave, InputRead, InputReadFails,
                      InputPush, InputStop, InputFinish
  <2>2. /\ Alive(j)' => Alive(j) /\ input'[j].made = input[j].made
        /\ Unborn(j)' => Unborn(j)
    BY <2>1 DEF Alive, Unborn
  <2>3. QED
    BY <1>0, <1>2, <2>1, <2>2, ChainStays DEF Timeline
<1>5. Chain(i)'
  <2>1. CASE InputPush(i)
    BY <1>0, <2>1, ChainPush DEF Timeline
  <2>2. CASE InputOpen(i) /\ input'[i].pc = "read"
    <3>1. PICK time \in Offsets[i] :
            /\ input' = [input EXCEPT ![i].pc = "read", ![i].ready = "ok", ![i].clock = time]
            /\ queue' = queue
      BY <1>0, <2>2 DEF InputOpen, InputType
    <3>2. input'[i].made = input[i].made /\ input[i].made \in Nat
      BY <1>0, <3>1 DEF InputType
    <3>3. /\ queue[i].frames = <<>> /\ \A t \in Int : Holds(i, t) => t = -1
      BY <2>2 DEF InputOpen, InputAt, Timeline, Chain, Unborn
    <3>4. Len(<<>>) = 0
      OBVIOUS
    <3>5. QED
      BY <1>2, <2>2, <3>1, <3>2, <3>3, <3>4 DEF Chain, Ordered, Before, Alive, Unborn
  <2>3. CASE InputRead(i)
    <3>1. PICK n \in 1..MaxBurst, flagged \in BOOLEAN, jump \in Jumps[i] :
            input' = [input EXCEPT ![i].pc = "push",
                                   ![i].pending = n,
                                   ![i].clock = Stamp(@ + jump),
                                   ![i].mark = flagged,
                                   ![i].epoch = IF flagged THEN @ + 1 ELSE @]
      BY <2>3 DEF InputRead
    <3>2. /\ input'[i].made = input[i].made /\ input'[i].pc = "push" /\ input[i].pc = "read"
          /\ queue' = queue
      BY <1>0, <2>3, <3>1 DEF InputRead, InputAt, InputType
    <3>3. QED
      BY <1>0, <1>2, <3>2, ChainStays DEF Timeline, Alive, Unborn
  <2>4. CASE ~InputPush(i) /\ ~InputRead(i) /\ ~(InputOpen(i) /\ input'[i].pc = "read")
    <3>1. input'[i].pc \in {"stop", "finish", "done"}
      BY <1>0, <2>4 DEF InputNext, InputSteps, InputOpen, InputLeave, InputReadFails, InputStop,
                        InputFinish, InputType
    <3>2. queue'[i] = queue[i] \/ queue'[i] = FinishProducer(queue[i])
      BY <1>0, <2>4 DEF InputNext, InputSteps, InputOpen, InputLeave, InputReadFails, InputStop,
                        InputFinish
    <3>3. queue'[i].frames = queue[i].frames
      BY <1>0, <3>2, ControlType
    <3>4. QED
      BY <1>0, <1>2, <3>1, <3>3, ChainStays DEF Timeline, Alive, Unborn
  <2>5. QED
    BY <2>1, <2>2, <2>3, <2>4
<1>6. QED
  BY <1>3, <1>4, <1>5 DEF Timeline

\* The worker's step takes no frame.
LEMMA ChainsKept ==
  ASSUME TypeOK, \A i \in Inputs : Chain(i), input' = input, queue' = queue,
         \A i \in Inputs, t \in Int : Holds(i, t)' => Holds(i, t) \/ t = -1
  PROVE  \A i \in Inputs : Chain(i)'
<1>1. SUFFICES ASSUME NEW i \in Inputs
               PROVE  Chain(i)'
  OBVIOUS
<1>2. (Alive(i)' <=> Alive(i)) /\ (Unborn(i)' <=> Unborn(i))
  BY DEF Alive, Unborn
<1>3. QED
  BY <1>2, ChainStays

\* The worker's step takes the oldest frame of the queue of i.
LEMMA ChainsTake ==
  ASSUME TypeOK, \A j \in Inputs : Chain(j), NEW i \in Inputs, queue[i].frames # <<>>,
         input' = input, queue' = [queue EXCEPT ![i] = Popped(queue[i])],
         \A j \in Inputs, t \in Int :
           Holds(j, t)' => Holds(j, t) \/ t = -1 \/ (j = i /\ t = Head(queue[i].frames).number)
  PROVE  /\ \A j \in Inputs : Chain(j)'
         /\ \A t \in Int : Holds(i, t) => t < Head(queue[i].frames).number
<1>1. queue \in [Inputs -> QueueType]
  BY DEF TypeOK
<1>2. queue'[i] = Popped(queue[i])
  BY <1>1
<1>3. /\ Chain(i)'
      /\ \A t \in Int : Holds(i, t) => t < Head(queue[i].frames).number
  BY <1>2, ChainTakes
<1>4. ASSUME NEW j \in Inputs, j # i
      PROVE  Chain(j)'
  <2>1. queue'[j] = queue[j]
    BY <1>1, <1>4
  <2>2. (Alive(j)' <=> Alive(j)) /\ (Unborn(j)' <=> Unborn(j))
    BY DEF Alive, Unborn
  <2>3. QED
    BY <1>4, <2>1, <2>2, ChainStays
<1>5. QED
  BY <1>3, <1>4

\* The worker drops what it had.
LEMMA TimelineEnds ==
  ASSUME TypeOK, Timeline, input' = input, queue' = queue,
         \/ \E e : EndUnready(e)
         \/ ProcClose
  PROVE  Timeline'
<1>1. /\ proc'.mic = NoFrame /\ proc'.render = NoFrame /\ proc'.match = NoFrame
      /\ proc'.pair = [mic |-> -1, render |-> -1]
  BY DEF EndUnready, ProcClose, NewProcessing
<1>2. \A i \in Inputs, t \in Int : Holds(i, t)' => t = -1
  BY <1>1 DEF Holds
<1>3. \A i \in Inputs : Chain(i)'
  BY <1>2, ChainsKept DEF Timeline
<1>4. QED
  BY <1>1, <1>3 DEF Timeline, Hand

\* The worker goes on with the frames it has.
LEMMA TimelineGoesOn ==
  ASSUME TypeOK, Timeline, input' = input, queue' = queue,
         proc'.mic = proc.mic, proc'.render = proc.render, proc'.match = proc.match,
         proc'.pair = proc.pair, proc'.pc # "record",
         Selecting' => Selecting
  PROVE  Timeline'
<1>1. \A i \in Inputs, t \in Int : Holds(i, t)' => Holds(i, t)
  BY DEF Holds
<1>2. \A i \in Inputs : Chain(i)'
  BY <1>1, ChainsKept DEF Timeline
<1>3. QED
  BY <1>2 DEF Timeline, Hand

\* The worker takes a microphone frame.
LEMMA TimelineTakesMic ==
  ASSUME TypeOK, Timeline, PopResult(queue["mic"]) = "Frame", input' = input,
         queue' = [queue EXCEPT !["mic"] = Popped(queue["mic"])],
         proc'.mic = Head(queue["mic"].frames), proc'.render = proc.render,
         proc'.match = proc.match, proc'.pair = proc.pair, proc'.pc # "record"
  PROVE  Timeline'
<1>1. "mic" \in Inputs /\ queue["mic"].frames # <<>>
  BY HasFrame, Sizes DEF Inputs
<1>2. \A j \in Inputs, t \in Int :
        Holds(j, t)' => Holds(j, t) \/ (j = "mic" /\ t = Head(queue["mic"].frames).number)
  BY DEF Holds
<1>3. /\ \A j \in Inputs : Chain(j)'
      /\ \A t \in Int : Holds("mic", t) => t < Head(queue["mic"].frames).number
  BY <1>1, <1>2, ChainsTake DEF Timeline
<1>4. proc.pair.mic < Head(queue["mic"].frames).number
  BY <1>3, Times DEF Holds
<1>5. QED
  BY <1>3, <1>4 DEF Timeline, Hand

\* The worker takes a render frame: it becomes the candidate, and the candidate
\* before it may have become the match.
LEMMA TimelineTakesRender ==
  ASSUME TypeOK, Timeline, queue["render"].frames # <<>>, input' = input,
         queue' = [queue EXCEPT !["render"] = Popped(queue["render"])],
         proc'.mic = proc.mic, proc'.render = Head(queue["render"].frames),
         proc'.pair = proc.pair, Selecting' => Selecting,
         \/ proc'.match = proc.match /\ proc'.pc # "record"
         \/ /\ proc'.match = proc.render /\ proc.render # NoFrame
            /\ proc.render.time - proc.mic.time \in -Tolerance..Tolerance
  PROVE  Timeline'
<1>1. "render" \in Inputs
  BY DEF Inputs
<1>2. \A j \in Inputs, t \in Int :
        Holds(j, t)' => Holds(j, t) \/ (j = "render" /\ t = Head(queue["render"].frames).number)
  BY DEF Holds
<1>3. /\ \A j \in Inputs : Chain(j)'
      /\ \A t \in Int : Holds("render", t) => t < Head(queue["render"].frames).number
  BY <1>1, <1>2, ChainsTake DEF Timeline
<1>4. /\ proc.pair.render < Head(queue["render"].frames).number
      /\ proc.render # NoFrame => proc.render.number < Head(queue["render"].frames).number
      /\ proc.match # NoFrame => proc.match.number < Head(queue["render"].frames).number
  BY <1>3, Times DEF Holds
<1>5. Hand'
  BY <1>4 DEF Timeline, Hand
<1>6. QED
  BY <1>3, <1>5 DEF Timeline

\* The worker finds no next candidate, or keeps the one it has.
LEMMA TimelineKeepsRender ==
  ASSUME TypeOK, Timeline, input' = input, queue' = queue,
         proc'.mic = proc.mic, proc'.pair = proc.pair, Selecting' => Selecting,
         proc'.render = NoFrame \/ proc'.render = proc.render,
         \/ proc'.match = proc.match /\ proc'.pc # "record"
         \/ proc'.match = NoFrame
         \/ /\ proc'.match = proc.render /\ proc'.render = NoFrame /\ proc.render # NoFrame
            /\ proc.render.time - proc.mic.time \in -Tolerance..Tolerance
  PROVE  Timeline'
<1>1. \A j \in Inputs, t \in Int : Holds(j, t)' => Holds(j, t)
  BY DEF Holds
<1>2. \A j \in Inputs : Chain(j)'
  BY <1>1, ChainsKept DEF Timeline
<1>3. Hand'
  BY DEF Timeline, Hand
<1>4. QED
  BY <1>2, <1>3 DEF Timeline

LEMMA TimelineByWorker ==
  ASSUME Typed, Stages, Timeline, ProcNext
  PROVE  Timeline'
<1> USE DEF ProcAt
<1>0. /\ TypeOK /\ proc \in ProcessingType /\ {"mic", "render"} \subseteq Inputs
      /\ queue \in [Inputs -> QueueType]
  BY DEF Typed, TypeOK, Inputs
<1>1. ASSUME NEW e, EndUnready(e), queue' = queue, input' = input
      PROVE  Timeline'
  BY <1>0, <1>1, TimelineEnds
<1>2. ASSUME NEW pc \in ProcPcs, GoProc(pc), queue' = queue, input' = input, pc # "record",
             pc \notin {"process", "rebuild", "deadline", "write", "final"} => Selecting
      PROVE  Timeline'
  <2>1. /\ proc'.pc = pc /\ proc'.mic = proc.mic /\ proc'.render = proc.render
        /\ proc'.match = proc.match /\ proc'.pair = proc.pair
    BY <1>0, <1>2 DEF GoProc, ProcessingType
  <2>2. Selecting' => Selecting
    BY <1>2, <2>1 DEF Selecting
  <2>3. QED
    BY <1>0, <1>2, <2>1, <2>2, TimelineGoesOn
<1>3. CASE ProcOpen \/ ProcCheck \/ ProcRefreshed \/ ProcFails \/ ProcDeadline
  <2>1. queue' = queue /\ input' = input
    BY <1>3 DEF ProcOpen, ProcCheck, ProcRefreshed, ProcFails, ProcDeadline
  <2>2. \/ \E e : EndUnready(e)
        \/ /\ \E pc \in {"first_mic", "mic", "final", "check", "write"} : GoProc(pc)
           /\ Selecting \/ GoProc("write") \/ GoProc("final")
    BY <1>3 DEF ProcOpen, ProcCheck, ProcRefreshed, ProcFails, ProcDeadline, Selecting
  <2>3. QED
    BY <1>1, <1>2, <2>1, <2>2 DEF ProcPcs
<1>4. CASE ProcFirstMic
  <2>1. CASE PopResult(queue["mic"]) = "Frame"
    <3> DEFINE f == Head(queue["mic"].frames)
    <3>1. /\ proc' = [proc EXCEPT !.pc = "first_render", !.mic = f]
          /\ queue' = [queue EXCEPT !["mic"] = Popped(queue["mic"])] /\ input' = input
      BY <1>4, <2>1 DEF ProcFirstMic
    <3> HIDE DEF f
    <3>2. /\ proc'.mic = f /\ proc'.render = proc.render /\ proc'.match = proc.match
          /\ proc'.pair = proc.pair /\ proc'.pc = "first_render"
      BY <1>0, <3>1 DEF ProcessingType
    <3>3. QED
      BY <1>0, <2>1, <3>1, <3>2, TimelineTakesMic DEF f
  <2>2. QED
    BY <1>1, <1>4, <2>1 DEF ProcFirstMic
<1>5. CASE ProcFirstRender
  <2>1. input' = input /\ Selecting
    BY <1>5 DEF ProcFirstRender, Selecting
  <2>2. CASE PopResult(queue["render"]) = "Frame"
    <3> DEFINE f == Head(queue["render"].frames)
    <3>1. /\ proc' = [proc EXCEPT !.pc = "announce", !.render = f]
          /\ queue' = [queue EXCEPT !["render"] = Popped(queue["render"])]
      BY <1>5, <2>2 DEF ProcFirstRender
    <3> HIDE DEF f
    <3>2. /\ proc'.render = f /\ proc'.mic = proc.mic /\ proc'.match = proc.match
          /\ proc'.pair = proc.pair /\ proc'.pc = "announce"
      BY <1>0, <3>1 DEF ProcessingType
    <3>3. queue["render"].frames # <<>>
      BY <1>0, <2>2, HasFrame
    <3>4. QED
      BY <1>0, <2>1, <3>1, <3>2, <3>3, TimelineTakesRender DEF f
  <2>3. CASE PopResult(queue["render"]) # "Frame"
    <3>1. queue' = queue
      BY <1>5, <2>3 DEF ProcFirstRender
    <3>2. \/ \E e : EndUnready(e)
          \/ proc' = [proc EXCEPT !.pc = "announce", !.exhausted = TRUE]
      BY <1>5, <2>3 DEF ProcFirstRender
    <3>3. CASE proc' = [proc EXCEPT !.pc = "announce", !.exhausted = TRUE]
      <4>1. /\ proc'.mic = proc.mic /\ proc'.render = proc.render /\ proc'.match = proc.match
            /\ proc'.pair = proc.pair /\ proc'.pc = "announce"
        BY <1>0, <3>3 DEF ProcessingType
      <4>2. QED
        BY <1>0, <2>1, <3>1, <4>1, TimelineGoesOn
    <3>4. QED
      BY <1>1, <2>1, <3>1, <3>2, <3>3
  <2>4. QED
    BY <2>2, <2>3
<1>6. CASE ProcAnnounce
  <2>1. queue' = queue /\ input' = input /\ Selecting
    BY <1>6 DEF ProcAnnounce, Selecting
  <2>2. CASE proc' = [proc EXCEPT !.pc = "check", !.ready = "ok"]
    <3>1. /\ proc'.mic = proc.mic /\ proc'.render = proc.render /\ proc'.match = proc.match
          /\ proc'.pair = proc.pair /\ proc'.pc = "check"
      BY <1>0, <2>2 DEF ProcessingType
    <3>2. QED
      BY <1>0, <2>1, <3>1, TimelineGoesOn
  <2>3. QED
    BY <1>1, <1>6, <2>1, <2>2 DEF ProcAnnounce
<1>7. CASE ProcMic
  <2>1. CASE proc.mic = NoFrame /\ PopResult(queue["mic"]) = "Frame"
    <3> DEFINE f == Head(queue["mic"].frames)
    <3>1. /\ proc' = [proc EXCEPT !.pc = AfterMic(f), !.mic = f] /\ input' = input
          /\ queue' = [queue EXCEPT !["mic"] = Popped(queue["mic"])]
      BY <1>7, <2>1 DEF ProcMic
    <3>2. AfterMic(f) \in {"mic_reset", "fetch"}
      BY DEF AfterMic
    <3> HIDE DEF f
    <3>3. /\ proc'.mic = f /\ proc'.render = proc.render /\ proc'.match = proc.match
          /\ proc'.pair = proc.pair /\ proc'.pc # "record"
      BY <1>0, <3>1, <3>2 DEF ProcessingType
    <3>4. QED
      BY <1>0, <2>1, <3>1, <3>3, TimelineTakesMic DEF f
  <2>2. CASE ~(proc.mic = NoFrame /\ PopResult(queue["mic"]) = "Frame")
    <3>1. /\ queue' = queue /\ input' = input /\ Selecting
          /\ \E pc \in {"mic_reset", "fetch", "check", "final"} : GoProc(pc)
      BY <1>7, <2>2 DEF ProcMic, AfterMic, Selecting
    <3>2. QED
      BY <1>2, <3>1 DEF ProcPcs
  <2>3. QED
    BY <2>1, <2>2
<1>8. CASE ProcResetByMic \/ ProcResetByRender \/ ProcRebuild
  <2>1. /\ queue' = queue /\ input' = input
        /\ \E pc \in {"fetch", "judge", "deadline", "final"} :
             GoProc(pc) /\ (pc \in {"fetch", "judge"} => Selecting)
    BY <1>8 DEF ProcResetByMic, ProcResetByRender, ProcRebuild, Rebuild, Selecting
  <2>2. QED
    BY <1>2, <2>1 DEF ProcPcs
<1>9. CASE ProcFetch
  <2> DEFINE found == proc.render # NoFrame
             q == queue["render"]
             taken == IF proc.exhausted \/ PopResult(q) = "Frame" THEN Oldest(q) ELSE NoFrame
             frame == IF found THEN proc.render ELSE taken
             exhausted == IF found THEN proc.exhausted ELSE taken = NoFrame
  <2>1. /\ proc' = [proc EXCEPT !.pc = "examine", !.render = frame, !.exhausted = exhausted]
        /\ input' = input /\ proc.pc = "fetch"
    BY <1>9 DEF ProcFetch
  <2>2. \/ queue' = queue /\ (frame = proc.render \/ frame = NoFrame)
        \/ /\ queue' = [queue EXCEPT !["render"] = Popped(q)]
           /\ frame = taken /\ taken # NoFrame
    BY <1>0, <1>9 DEF ProcFetch
  <2>3. taken # NoFrame => taken = Head(q.frames) /\ q.frames # <<>>
    BY DEF Oldest
  <2> HIDE DEF frame, exhausted, taken
  <2>4. /\ proc'.mic = proc.mic /\ proc'.render = frame /\ proc'.match = proc.match
        /\ proc'.pair = proc.pair /\ proc'.pc = "examine"
    BY <1>0, <2>1 DEF ProcessingType
  <2>5. Selecting
    BY <2>1 DEF Selecting
  <2>6. CASE queue' = queue /\ (frame = proc.render \/ frame = NoFrame)
    BY <1>0, <2>1, <2>4, <2>5, <2>6, TimelineKeepsRender
  <2>7. CASE queue' = [queue EXCEPT !["render"] = Popped(q)] /\ frame = taken /\ taken # NoFrame
    BY <1>0, <2>1, <2>3, <2>4, <2>5, <2>7, TimelineTakesRender
  <2>8. QED
    BY <2>2, <2>6, <2>7
<1>10. CASE ProcJudge
  <2> DEFINE oldest == Oldest(queue["render"])
             good == Delta \in -Tolerance..Tolerance
  <2>1. input' = input /\ Selecting
    BY <1>10 DEF ProcJudge, Selecting
  <2>2. \/ /\ proc' = [proc EXCEPT !.pc = "examine", !.render = oldest]
           /\ queue' = [queue EXCEPT !["render"] = TryPopped(queue["render"])]
        \/ /\ proc' = [proc EXCEPT !.pc = "record", !.match = proc.render, !.render = oldest,
                                   !.exhausted = FALSE]
           /\ proc.render # NoFrame /\ good
           /\ queue' = [queue EXCEPT !["render"] = TryPopped(queue["render"])]
        \/ proc' = [proc EXCEPT !.pc = "record", !.match = NoFrame] /\ queue' = queue
    BY <1>10 DEF ProcJudge
  <2> HIDE DEF oldest
  <2>3. \/ /\ proc'.pc = "examine" /\ proc'.match = proc.match /\ proc'.render = oldest
           /\ queue' = [queue EXCEPT !["render"] = TryPopped(queue["render"])]
        \/ /\ proc'.match = proc.render /\ proc'.render = oldest
           /\ proc.render # NoFrame /\ good
           /\ queue' = [queue EXCEPT !["render"] = TryPopped(queue["render"])]
        \/ proc'.match = NoFrame /\ proc'.render = proc.render /\ queue' = queue
    BY <1>0, <2>2 DEF ProcessingType
  <2>4. proc'.mic = proc.mic /\ proc'.pair = proc.pair
    BY <1>0, <2>2 DEF ProcessingType
  <2>5. good => proc.render.time - proc.mic.time \in -Tolerance..Tolerance
    BY DEF Delta
  <2> HIDE DEF good
  <2>6. CASE queue["render"].frames = <<>>
    <3>1. oldest = NoFrame /\ TryPopped(queue["render"]) = queue["render"]
      BY <2>6 DEF Oldest, TryPopped, oldest
    <3>2. queue' = queue
      BY <1>0, <2>3, <3>1
    <3>3. QED
      BY <1>0, <2>1, <2>3, <2>4, <2>5, <3>1, <3>2, TimelineKeepsRender
  <2>7. CASE queue["render"].frames # <<>>
    <3>1. /\ oldest = Head(queue["render"].frames)
          /\ TryPopped(queue["render"]) = Popped(queue["render"])
      BY <2>7 DEF Oldest, TryPopped, oldest
    <3>2. CASE queue' = [queue EXCEPT !["render"] = TryPopped(queue["render"])]
               /\ proc'.render = oldest
               /\ \/ proc'.pc = "examine" /\ proc'.match = proc.match
                  \/ proc'.match = proc.render /\ proc.render # NoFrame /\ good
      BY <1>0, <2>1, <2>4, <2>5, <2>7, <3>1, <3>2, TimelineTakesRender
    <3>3. CASE proc'.match = NoFrame /\ proc'.render = proc.render /\ queue' = queue
      BY <1>0, <2>1, <2>4, <3>3, TimelineKeepsRender
    <3>4. QED
      BY <2>3, <3>2, <3>3
  <2>8. QED
    BY <2>6, <2>7
<1>11. CASE ProcPaired
  <2> DEFINE pair == [mic |-> proc.mic.number, render |-> proc.match.number]
  <2>1. /\ proc.pc = "record" /\ proc.match # NoFrame /\ proc.mic # NoFrame
        /\ proc' = [proc EXCEPT !.pc = "process", !.misses = 0, !.healthy = proc.healthy + 1,
                                !.pair = pair]
        /\ queue' = queue /\ input' = input
    BY <1>11 DEF ProcPaired, Stages, Iterating
  <2>2. pair.mic = proc.mic.number /\ pair.render = proc.match.number
    OBVIOUS
  <2> HIDE DEF pair
  <2>3. /\ proc'.mic = proc.mic /\ proc'.render = proc.render /\ proc'.match = proc.match
        /\ proc'.pair = pair /\ proc'.pc = "process"
    BY <1>0, <2>1 DEF ProcessingType
  <2>4. \A i \in Inputs, t \in Int : Holds(i, t)' => Holds(i, t)
    BY <2>1, <2>2, <2>3 DEF Holds
  <2>5. \A i \in Inputs : Chain(i)'
    BY <1>0, <2>1, <2>4, ChainsKept DEF Timeline
  <2>6. Hand'
    BY <2>1, <2>2, <2>3 DEF Timeline, Hand, Selecting
  <2>7. QED
    BY <2>5, <2>6 DEF Timeline
<1>12. CASE ProcUnpaired \/ ProcProcessed \/ ProcRejected
  <2>1. /\ queue' = queue /\ input' = input
        /\ proc'.mic = proc.mic /\ proc'.render = proc.render /\ proc'.match = proc.match
        /\ proc'.pair = proc.pair /\ proc'.pc \in {"process", "deadline", "rebuild", "final"}
    BY <1>0, <1>12, ZenonT(60) DEF ProcUnpaired, ProcProcessed, ProcRejected, ProcessingType
  <2>2. QED
    BY <1>0, <2>1, TimelineGoesOn DEF Selecting
<1>13. CASE ProcWritten
  <2>1. /\ queue' = queue /\ input' = input
        /\ proc'.mic = NoFrame /\ proc'.render = proc.render /\ proc'.match = NoFrame
        /\ proc'.pair = proc.pair
    BY <1>0, <1>13 DEF ProcWritten, ProcessingType
  <2>2. \A i \in Inputs, t \in Int : Holds(i, t)' => Holds(i, t)
    BY <2>1 DEF Holds
  <2>3. \A i \in Inputs : Chain(i)'
    BY <1>0, <2>1, <2>2, ChainsKept DEF Timeline
  <2>4. QED
    BY <2>1, <2>3 DEF Timeline, Hand
<1>14. CASE ProcClose
  BY <1>0, <1>14, TimelineEnds DEF ProcClose
<1>15. QED
  BY <1>3, <1>4, <1>5, <1>6, <1>7, <1>8, <1>9, <1>10, <1>11, <1>12, <1>13, <1>14
     DEF ProcNext, ProcStart, ProcLoop

LEMMA TimelineKept ==
  ASSUME Typed, Stages, DoneMic, Timeline, Next
  PROVE  Timeline'
<1>0. /\ TypeOK /\ queue \in [Inputs -> QueueType] /\ input \in [Inputs -> InputType]
      /\ proc \in ProcessingType
  BY DEF Typed, TypeOK
<1>1. ASSUME input' = input, proc' = proc,
             \A i \in Inputs : queue'[i].frames \in {queue[i].frames, <<>>}
      PROVE  Timeline'
  <2>1. Hand'
    BY <1>1 DEF Timeline, Hand, Selecting
  <2>2. ASSUME NEW i \in Inputs
        PROVE  Chain(i)'
    <3>1. /\ Alive(i)' <=> Alive(i)
          /\ Unborn(i)' <=> Unborn(i)
          /\ \A t \in Int : Holds(i, t)' <=> Holds(i, t)
      BY <1>1 DEF Alive, Unborn, Holds
    <3>2. QED
      BY <1>0, <1>1, <3>1, ChainStays DEF Timeline
  <2>3. QED
    BY <2>1, <2>2 DEF Timeline
<1>2. ASSUME NEW t \in Threads, RecordFailure(t)
      PROVE  Timeline'
  <2>1. /\ UNCHANGED <<input, proc>>
        /\ \A i \in Inputs : queue'[i] \in {queue[i], Fail(queue[i])}
    BY <1>0, <1>2 DEF RecordFailure, Exchange, RaiseStop, FailQueues, Publish
  <2>2. \A i \in Inputs : queue'[i].frames \in {queue[i].frames, <<>>}
    BY <1>0, <2>1, ControlType
  <2>3. QED
    BY <1>1, <2>1, <2>2
<1>3. CASE BeginStart \/ BeginStop \/ CallerSteps
  <2>1. CASE Resolve
    <3>1. CASE UNCHANGED <<queue, input, proc>>
      BY <1>1, <3>1
    <3>2. CASE ~UNCHANGED <<queue, input, proc>>
      <4>1. /\ queue' = [i \in Inputs |-> NewQueue] /\ input' = [i \in Inputs |-> NewInput]
            /\ proc' = NewProcessing
        BY <2>1, <3>2 DEF Resolve
      <4>2. Hand'
        BY <4>1 DEF Hand, NewProcessing
      <4>3. ASSUME NEW i \in Inputs
            PROVE  Chain(i)'
        <5>1. /\ queue'[i].frames = <<>> /\ input'[i].pc = "none"
              /\ Len(<<>>) = 0
          BY <4>1 DEF NewQueue, NewInput
        <5>2. \A t \in Int : Holds(i, t)' => t = -1
          BY <4>1 DEF Holds, NewProcessing
        <5>3. QED
          BY <5>1, <5>2 DEF Chain, Ordered, Before, Alive
      <4>4. QED
        BY <4>2, <4>3 DEF Timeline
    <3>3. QED
      BY <3>1, <3>2
  <2>2. ASSUME NEW i \in Inputs, SpawnInput(i)
        PROVE  Timeline'
    <3>1. /\ UNCHANGED <<queue, proc>> /\ input' = [input EXCEPT ![i].pc = "open"]
          /\ input[i].pc = "none"
      BY <2>2 DEF SpawnInput, CallerAt, Typed, Launching, NewInput, Inputs
    <3>2. Hand'
      BY <3>1 DEF Timeline, Hand, Selecting
    <3>3. ASSUME NEW j \in Inputs
          PROVE  Chain(j)'
      <4>1. /\ Alive(j)' => Alive(j) /\ input'[j].made = input[j].made
            /\ Unborn(j)' => Unborn(j)
        BY <1>0, <3>1 DEF Alive, Unborn, InputType
      <4>2. \A t \in Int : Holds(j, t)' <=> Holds(j, t)
        BY <3>1 DEF Holds
      <4>3. QED
        BY <1>0, <3>1, <4>1, <4>2, ChainStays DEF Timeline
    <3>4. QED
      BY <3>2, <3>3 DEF Timeline
  <2>3. CASE SpawnProcessing
    <3>1. /\ proc = NewProcessing /\ proc' = [proc EXCEPT !.pc = "open"]
          /\ UNCHANGED <<queue, input>>
      BY <2>3 DEF SpawnProcessing, GoProc, CallerAt, Typed, Launching
    <3>2. /\ Selecting /\ proc'.pc = "open" /\ proc'.mic = proc.mic /\ proc'.render = proc.render
          /\ proc'.match = proc.match /\ proc'.pair = proc.pair
      BY <3>1 DEF NewProcessing, Selecting
    <3>3. QED
      BY <1>0, <3>1, <3>2, TimelineGoesOn
  <2>4. CASE JoinRun
    <3>1. \A i \in Inputs : queue'[i].frames = <<>>
      BY <1>0, <2>4, ControlType DEF JoinRun
    <3>2. QED
      BY <1>1, <2>4, <3>1 DEF JoinRun
  <2>5. CASE UNCHANGED <<queue, input, proc>>
    BY <1>1, <2>5
  <2>6. QED
    BY <1>3, <2>1, <2>2, <2>3, <2>4, <2>5 DEF BeginStart, BeginStop, CallerSteps, StartSteps,
       SetStopping, RequestStop, TakeRun, SetStopped, ResetStop, ResetFailure, SpawnFails,
       InstallRun, WaitRun, WaitReady, FinishStart
<1>4. QED
  BY <1>2, <1>3, TimelineByInput, TimelineByWorker DEF Next

-----------------------------------------------------------------------------
(* The theorems.                                                           *)

IInv == Typed /\ Stages /\ Health /\ DoneMic /\ Honest /\ Balanced /\ Timeline

LEMMA InitInv == Init => IInv
<1> SUFFICES ASSUME Init
             PROVE  IInv
  OBVIOUS
<1>1. Typed
  BY InitTyped
<1>2. Stages /\ Health /\ DoneMic /\ Honest
  BY DEF Init, Stages, Health, DoneMic, Honest, LastFrameGood, Iterating, Between, NewProcessing,
         NewQueue, NewInput, NoSnapshot, Inputs
<1>3. Balanced
  <2>1. queue["mic"] = NewQueue /\ input["mic"] = NewInput /\ proc = NewProcessing
    BY DEF Init, Inputs
  <2>2. QED
    BY <2>1, NewQueueType DEF Balanced, Accounted, NewQueue, NewInput, NewProcessing
<1>4. Timeline
  <2>1. /\ \A i \in Inputs : queue[i].frames = <<>> /\ input[i].pc = "none"
        /\ proc = NewProcessing /\ Len(<<>>) = 0
    BY DEF Init, NewQueue, NewInput
  <2>2. /\ proc.pair = [mic |-> -1, render |-> -1] /\ proc.mic = NoFrame
        /\ proc.render = NoFrame /\ proc.match = NoFrame
    BY <2>1 DEF NewProcessing
  <2>3. \A i \in Inputs, t \in Int : Holds(i, t) => t = -1
    BY <2>2 DEF Holds
  <2>4. ASSUME NEW i \in Inputs
        PROVE  Chain(i)
    BY <2>1, <2>3 DEF Chain, Ordered, Before, Alive
  <2>5. QED
    BY <2>2, <2>4 DEF Timeline, Hand
<1>5. QED
  BY <1>1, <1>2, <1>3, <1>4 DEF IInv

LEMMA NextInv == IInv /\ [Next]_vars => IInv'
<1> SUFFICES ASSUME IInv, [Next]_vars
             PROVE  IInv'
  OBVIOUS
<1>1. Typed'
  BY NextTyped DEF IInv
<1>2. CASE UNCHANGED vars
  <2>1. Stages' /\ Health' /\ DoneMic' /\ Honest' /\ Balanced'
    BY <1>2 DEF IInv, vars, Stages, Health, DoneMic, Honest, LastFrameGood, Iterating, Between,
                Balanced, Accounted
  <2>2. Timeline'
    BY <1>2 DEF IInv, vars, Timeline, Hand, Selecting, Chain, Ordered, Before, Holds, Alive, Unborn
  <2>3. QED
    BY <1>1, <2>1, <2>2 DEF IInv
<1>3. CASE Next
  <2>1. Stages' /\ Health'
    <3>1. CASE proc' = proc
      BY <3>1 DEF IInv, Stages, Health, Iterating
    <3>2. QED
      BY <1>3, <3>1, ProcMoves, NewWorker, ProcKeeps DEF IInv, Typed
  <2>2. QED
    BY <1>1, <1>3, <2>1, DoneMicKept, HonestKept, BalancedKept, TimelineKept DEF IInv
<1>4. QED
  BY <1>2, <1>3

\* OneOutputPerMicFrame: whatever the render side, the deadline and the echo
\* canceller do, every frame the microphone completed is written, is the one being
\* worked on, waits in the queue, or was discarded by an overflow that counted it.
THEOREM OneOutputCorrect == Spec => []OneOutputPerMicFrame
<1>1. IInv => OneOutputPerMicFrame
  BY DEF IInv, Balanced, Accounted, OneOutputPerMicFrame, Iterating, Between
<1>2. QED
  BY <1>1, InitInv, NextInv, PTL DEF Spec

\* RunningIsHonest: start's final write and the worker's own writes of the state,
\* in whatever order, never show RunningAec over a frame that had no reference or
\* was replaced by silence.
THEOREM HonestCorrect == Spec => []RunningIsHonest
<1>1. IInv => RunningIsHonest
  BY DEF IInv, Honest, RunningIsHonest
<1>2. QED
  BY <1>1, InitInv, NextInv, PTL DEF Spec

\* RecoveryNeedsStreak: Degraded becomes RunningAec only on the RecoveryFrames-th
\* good frame in a row.
THEOREM RecoveryCorrect == Spec => RecoveryNeedsStreak
<1>1. ASSUME IInv, [Next]_vars, snapshot' # snapshot, snapshot.state = "Degraded",
             snapshot'.state = "Running"
      PROVE  proc.match # NoFrame /\ proc.streak + 1 >= RecoveryFrames
  <2>0. snapshot \in SnapshotType /\ proc \in ProcessingType
    BY <1>1 DEF IInv, Typed, TypeOK
  <2>1. Next
    BY <1>1 DEF vars
  <2>2. ProcPaired
    <3>1. ASSUME NEW i \in Inputs, InputNext(i)
          PROVE  FALSE
      BY <1>1, <3>1 DEF InputNext, InputSteps, InputOpen, InputLeave, InputRead, InputReadFails,
                        InputPush, InputStop, InputFinish
    <3>2. ASSUME NEW t \in Threads, RecordFailure(t)
          PROVE  FALSE
      BY <1>1, <2>0, <3>2 DEF RecordFailure, Exchange, RaiseStop, FailQueues, Publish, SnapshotType
    <3>3. CASE BeginStart \/ BeginStop \/ CallerSteps
      <4>1. ASSUME NEW i \in Inputs, SpawnInput(i)
            PROVE  FALSE
        BY <1>1, <4>1 DEF SpawnInput
      <4>2. CASE Resolve
        BY <1>1, <4>2 DEF Resolve, NoSnapshot
      <4>3. CASE SetStopping \/ SetStopped \/ FinishStart
        BY <1>1, <2>0, <4>3 DEF SetStopping, SetStopped, FinishStart, SnapshotType
      <4>4. QED
        BY <1>1, <3>3, <4>1, <4>2, <4>3 DEF BeginStart, BeginStop, CallerSteps, StartSteps,
           RequestStop, TakeRun, JoinRun, ResetStop, ResetFailure, SpawnFails, SpawnProcessing,
           InstallRun, WaitRun, WaitReady
    <3>4. ~(ProcStart \/ ProcClose)
      BY <1>1 DEF ProcStart, ProcOpen, ProcFirstMic, ProcFirstRender, ProcAnnounce, ProcClose
    <3>5. ~(ProcResetByMic \/ ProcResetByRender \/ ProcRebuild)
      BY <1>1, <2>0 DEF ProcResetByMic, ProcResetByRender, ProcRebuild, Rebuild, SnapshotType
    <3>6. ~(ProcUnpaired \/ ProcRejected \/ ProcDeadline \/ ProcWritten)
      BY <1>1, <2>0 DEF ProcUnpaired, ProcRejected, ProcDeadline, ProcWritten, Degrade,
                        SnapshotType
    <3>7. ~(ProcCheck \/ ProcMic \/ ProcFetch \/ ProcJudge \/ ProcProcessed \/ ProcFails
            \/ ProcRefreshed)
      BY <1>1 DEF ProcCheck, ProcMic, ProcFetch, ProcJudge, ProcProcessed, ProcFails, ProcRefreshed
    <3>8. QED
      BY <2>1, <3>1, <3>2, <3>3, <3>4, <3>5, <3>6, <3>7 DEF Next, ProcNext, ProcLoop
  <2>3. proc.healthy + 1 >= RecoveryFrames
    BY <1>1, <2>0, <2>2 DEF ProcPaired, SnapshotType
  <2>4. /\ proc.healthy <= proc.streak /\ proc.healthy \in Nat /\ proc.streak \in Nat
    BY <1>1, <2>0, <2>2 DEF ProcPaired, ProcAt, IInv, Health, ProcessingType
  <2>5. RecoveryFrames \in Nat
    BY AecAssumption
  <2>6. QED
    BY <2>2, <2>3, <2>4, <2>5 DEF ProcPaired
<1>2. IInv /\ [Next]_vars =>
        [snapshot.state = "Degraded" /\ snapshot'.state = "Running" =>
           proc.match # NoFrame /\ proc.streak + 1 >= RecoveryFrames]_snapshot
  BY <1>1
<1>3. QED
  BY <1>2, InitInv, NextInv, PTL DEF Spec, RecoveryNeedsStreak

\* PairsAdvance: whatever times the two devices give their packets, forwards or
\* backwards, and whatever the queues discard, two frames are paired only within the
\* tolerance, and each was made after its counterpart of the pair before.
THEOREM PairsAdvanceCorrect == Spec => PairsAdvance
<1>1. ASSUME IInv, [Next]_vars, proc' # proc, proc'.pair # proc.pair,
             proc'.pair # NewProcessing.pair
      PROVE  /\ proc.match.time - proc.mic.time \in -Tolerance..Tolerance
             /\ proc'.pair.mic > proc.pair.mic
             /\ proc'.pair.render > proc.pair.render
  <2>0. TypeOK /\ proc \in ProcessingType /\ Next
    BY <1>1 DEF IInv, Typed, TypeOK, vars
  <2>1. ProcPaired
    <3>1. NewProcessing.pair = [NewProcessing EXCEPT !.pc = "open"].pair
      BY DEF NewProcessing
    <3>2. ProcNext
      BY <1>1, <2>0, <3>1, ProcMoves DEF IInv
    <3>3. ~\E e : EndUnready(e)
      BY <1>1 DEF EndUnready, NewProcessing
    <3>4. ~\E pc : GoProc(pc)
      BY <1>1, <2>0 DEF GoProc, ProcessingType
    <3>5. ~(ProcOpen \/ ProcCheck \/ ProcResetByMic \/ ProcResetByRender \/ ProcRebuild
            \/ ProcDeadline \/ ProcFails \/ ProcRefreshed)
      BY <3>3, <3>4 DEF ProcOpen, ProcCheck, ProcResetByMic, ProcResetByRender, ProcRebuild,
                        Rebuild, ProcDeadline, ProcFails, ProcRefreshed
    <3>6. ~(ProcUnpaired \/ ProcProcessed \/ ProcRejected \/ ProcWritten)
      <4>1. ~ProcUnpaired
        BY <1>1, <2>0 DEF ProcUnpaired, ProcessingType
      <4>2. ~ProcProcessed
        <5>1. ProcProcessed => \E n : proc' = [proc EXCEPT !.pc = "deadline", !.failures = 0,
                                                           !.streak = n]
          BY DEF ProcProcessed
        <5>2. QED
          BY <1>1, <2>0, <5>1 DEF ProcessingType
      <4>3. ~ProcRejected
        BY <1>1, <2>0 DEF ProcRejected, ProcessingType
      <4>4. ~ProcWritten
        BY <1>1, <2>0 DEF ProcWritten, ProcessingType
      <4>5. QED
        BY <4>1, <4>2, <4>3, <4>4
    <3>7. ~ProcClose
      BY <1>1 DEF ProcClose, NewProcessing
    <3>8. ~(ProcFirstMic \/ ProcMic)
      <4> DEFINE f == Head(queue["mic"].frames)
      <4>1. ProcFirstMic \/ ProcMic => \E pc : proc' = [proc EXCEPT !.pc = pc, !.mic = f]
        BY <3>3, <3>4 DEF ProcFirstMic, ProcMic
      <4> HIDE DEF f
      <4>2. QED
        BY <1>1, <2>0, <4>1 DEF ProcessingType
    <3>9. ~(ProcFirstRender \/ ProcAnnounce)
      <4> DEFINE f == Head(queue["render"].frames)
      <4>1. ProcFirstRender \/ ProcAnnounce =>
              \/ proc' = [proc EXCEPT !.pc = "announce", !.render = f]
              \/ proc' = [proc EXCEPT !.pc = "announce", !.exhausted = TRUE]
              \/ proc' = [proc EXCEPT !.pc = "check", !.ready = "ok"]
        BY <3>3 DEF ProcFirstRender, ProcAnnounce
      <4> HIDE DEF f
      <4>2. QED
        BY <1>1, <2>0, <4>1 DEF ProcessingType
    <3>10. ~ProcFetch
      <4>1. ProcFetch =>
              \E f, x : proc' = [proc EXCEPT !.pc = "examine", !.render = f, !.exhausted = x]
        BY DEF ProcFetch
      <4>2. QED
        BY <1>1, <2>0, <4>1 DEF ProcessingType
    <3>11. ~ProcJudge
      <4> DEFINE oldest == Oldest(queue["render"])
      <4>1. ProcJudge =>
              \/ proc' = [proc EXCEPT !.pc = "examine", !.render = oldest]
              \/ proc' = [proc EXCEPT !.pc = "record", !.match = proc.render,
                                      !.render = oldest, !.exhausted = FALSE]
              \/ proc' = [proc EXCEPT !.pc = "record", !.match = NoFrame]
        BY DEF ProcJudge
      <4> HIDE DEF oldest
      <4>2. QED
        BY <1>1, <2>0, <4>1 DEF ProcessingType
    <3>12. QED
      BY <3>2, <3>5, <3>6, <3>7, <3>8, <3>9, <3>10, <3>11 DEF ProcNext, ProcStart, ProcLoop
  <2>2. /\ proc.pc = "record" /\ proc.match # NoFrame /\ proc.mic # NoFrame
        /\ proc'.pair.mic = proc.mic.number /\ proc'.pair.render = proc.match.number
    BY <1>1, <2>0, <2>1 DEF ProcPaired, ProcAt, IInv, Stages, Iterating, ProcessingType
  <2>3. /\ proc.pair.mic < proc.mic.number /\ proc.pair.render < proc.match.number
        /\ proc.match.time - proc.mic.time \in -Tolerance..Tolerance
    BY <1>1, <2>2 DEF IInv, Timeline, Hand, Selecting
  <2>4. QED
    BY <2>0, <2>2, <2>3, Times
<1>2. IInv /\ [Next]_vars =>
        [proc'.pair # proc.pair /\ proc'.pair # NewProcessing.pair =>
           /\ proc.match.time - proc.mic.time \in -Tolerance..Tolerance
           /\ proc'.pair.mic > proc.pair.mic
           /\ proc'.pair.render > proc.pair.render]_proc
  BY <1>1
<1>3. QED
  BY <1>2, InitInv, NextInv, PTL DEF Spec, PairsAdvance

=============================================================================
