----------------------------- MODULE FrameQueue -----------------------------
(***************************************************************************)
(* The bounded latest-wins frame queue between a capture thread and a      *)
(* consumer thread, as pure operators on a record.  Two Rust types have    *)
(* this behaviour: FrameQueue (queue.rs, capacity 4) and TimedFrameQueue   *)
(* (synchronization.rs, capacity 8).  Every method of both runs under one  *)
(* mutex, so a call is one operator applied in one step.                   *)
(*                                                                         *)
(* The metrics overflows and discarded are always incremented together and *)
(* are one field here; depth is Len(frames); the high-water mark is left   *)
(* out.  A frame is any value.                                             *)
(***************************************************************************)
EXTENDS Naturals, Sequences

NewQueue ==
  [frames |-> <<>>, producerDone |-> FALSE, failed |-> FALSE, discarded |-> 0]

Metrics(q) == [depth |-> Len(q.frames), discarded |-> q.discarded]

\* Mutant of MakeRoom: the overflow is not counted.
MakeRoomUncounted(q, cap) ==
  IF Len(q.frames) = cap THEN [q EXCEPT !.frames = Tail(@)] ELSE q

\* Mutant of MakeRoom: the capacity test is off by one.
MakeRoomLate(q, cap) ==
  IF Len(q.frames) > cap
  THEN [q EXCEPT !.frames = Tail(@), !.discarded = @ + 1]
  ELSE q

\* A full queue gives up its oldest frame and counts it.
MakeRoom(q, cap) ==
  IF Len(q.frames) = cap
  THEN [q EXCEPT !.frames = Tail(@), !.discarded = @ + 1]
  ELSE q

\* A frame offered to a failed or finished queue is ignored.
Push(q, frame, cap) ==
  IF q.failed \/ q.producerDone
  THEN q
  ELSE [MakeRoom(q, cap) EXCEPT !.frames = Append(@, frame)]

\* What pop returns once its wait is over.
PopResult(q) ==
  CASE q.failed                           -> "Finished"
    [] ~q.failed /\ q.frames # <<>>       -> "Frame"
    [] ~q.failed /\ q.frames = <<>>       ->
         IF q.producerDone THEN "Finished" ELSE "Timeout"

\* The queue after pop or try_pop has handed out its oldest frame.
Popped(q) == [q EXCEPT !.frames = Tail(@)]

FinishProducer(q) == [q EXCEPT !.producerDone = TRUE]

Fail(q) == [q EXCEPT !.failed = TRUE, !.frames = <<>>]

Clear(q) == [q EXCEPT !.frames = <<>>]
=============================================================================
