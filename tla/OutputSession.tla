--------------------------- MODULE OutputSession ----------------------------
(***************************************************************************)
(* The VB-CABLE output (mini-aec-windows-output): WindowsVbCableOutput,    *)
(* its render stream, the buffer of the WASAPI device behind it, and a     *)
(* client that makes any call of the AudioOutput contract in any order.    *)
(*                                                                         *)
(* A frame is its session and its sequence number, and fills FrameSize     *)
(* units of the device buffer; the device takes one unit at a time once    *)
(* the stream is started.  Every WASAPI call may fail.  Left out: the      *)
(* conversion of samples and the counters of the diagnostics.              *)
(***************************************************************************)
EXTENDS Naturals, Sequences

CONSTANTS
  FrameSize,    \* converter.output_frames: units of one frame
  BufferSizes,  \* the buffer sizes a device may have, in units
  MaxSessions,  \* bound on the sessions opened
  MaxFrames     \* bound on the frames of one session

ASSUME OutputAssumption ==
  /\ {FrameSize, MaxSessions, MaxFrames} \subseteq Nat \ {0}
  /\ BufferSizes \subseteq Nat \ {0}

VARIABLES
  output,  \* the sequence and session state of WindowsVbCableOutput
  stream,  \* its render stream
  device,  \* the units the device holds
  client,  \* the call under way, and what the last one returned
  history  \* history: what was heard last, and what was given to the device

vars == <<output, stream, device, client, history>>

NoStream == [open |-> FALSE, started |-> FALSE, buffer |-> 0]

Units(session, frame) ==
  [i \in 1..FrameSize |-> [session |-> session, frame |-> frame]]

Init ==
  /\ output = [state |-> "Closed", session |-> 0, next |-> 0]
  /\ stream = NoStream
  /\ device = <<>>
  /\ client = [pc |-> "idle", result |-> "none"]
  /\ history = [heard |-> [session |-> 0, frame |-> 0], given |-> 0, failed |-> FALSE]

\* get_available_space_in_frames, get_current_padding.
Space == stream.buffer - Len(device)
Padding == Len(device)

Idle == client.pc = "idle"
Returns(result) == client' = [pc |-> "idle", result |-> result]
Go(pc) == client' = [client EXCEPT !.pc = pc]

-----------------------------------------------------------------------------
(* open_session and close_session.                                         *)

Opens ==
  /\ Idle /\ ~stream.open /\ output.session < MaxSessions
  /\ \E size \in BufferSizes : stream' = [open |-> TRUE, started |-> FALSE, buffer |-> size]
  /\ output' = [state |-> "Open", session |-> output.session + 1, next |-> 0]
  /\ history' = [history EXCEPT !.given = 0, !.failed = FALSE]
  /\ Returns("ok")
  /\ UNCHANGED device

\* A session is open already, or the stream cannot be opened.
OpenFails ==
  /\ Idle
  /\ Returns(IF stream.open THEN "state" ELSE "failed")
  /\ UNCHANGED <<output, stream, device, history>>

\* The stream is taken, so that the device is released on every path.
ReleaseStream == stream' = NoStream /\ device' = <<>>

\* Mutant of CloseFails: the stream stays, with what its buffer holds, and is
\* lost with the next session.
CloseFailsKeepsBuffer ==
  /\ Idle /\ stream.open
  /\ stream' = NoStream
  /\ Returns("failed")
  /\ UNCHANGED <<output, device, history>>

\* stop_stream or reset_stream fails: the diagnostics go on to say Open.
CloseFails ==
  /\ Idle /\ stream.open
  /\ ReleaseStream
  /\ Returns("failed")
  /\ UNCHANGED <<output, history>>

Closes ==
  /\ Idle
  /\ ReleaseStream
  /\ output' = [output EXCEPT !.state = "Closed", !.next = 0]
  /\ Returns("ok")
  /\ UNCHANGED history

-----------------------------------------------------------------------------
(* write_frame and RenderStream::write.                                    *)

\* The sequence is compared before the stream is looked for.
WriteRefused ==
  /\ Idle
  /\ \E frame \in 0..MaxFrames :
       \/ frame # output.next /\ Returns("sequence")
       \/ frame = output.next /\ ~stream.open /\ Returns("state")
  /\ UNCHANGED <<output, stream, device, history>>

WriteBegins ==
  /\ Idle /\ stream.open
  /\ output.next < MaxFrames
  /\ Go("wait")
  /\ UNCHANGED <<output, stream, device, history>>

\* The wait for a render event.
WriteBlocks ==
  /\ client.pc = "wait" /\ Space < FrameSize
  /\ Go("blocked")
  /\ UNCHANGED <<output, stream, device, history>>

WriteWakes ==
  /\ client.pc = "blocked"
  /\ Go("wait")
  /\ UNCHANGED <<output, stream, device, history>>

\* Mutant of WriteTimesOut: the wait for space has no deadline.
WriteTimesOutNever == FALSE /\ UNCHANGED vars

\* Mutant of WriteTimesOut: the frame that found no space is skipped.
WriteTimesOutSkips ==
  /\ client.pc = "blocked"
  /\ output' = [output EXCEPT !.next = @ + 1]
  /\ Returns("rejected")
  /\ UNCHANGED <<stream, device, history>>

\* No space for one complete frame was seen within OUTPUT_WAIT.
WriteTimesOut ==
  /\ client.pc = "blocked"
  /\ Returns("rejected")
  /\ UNCHANGED <<output, stream, device, history>>

\* write_to_device.
WriteGives ==
  /\ client.pc = "wait" /\ Space >= FrameSize
  /\ device' = device \o Units(output.session, output.next)
  /\ history' = [history EXCEPT !.given = output.next + 1, !.failed = FALSE]
  /\ Go("start")
  /\ UNCHANGED <<output, stream>>

\* A query, the wait or the write fails before anything is given.
WriteFailsEarly ==
  /\ client.pc \in {"wait", "blocked"}
  /\ Returns("failed")
  /\ UNCHANGED <<output, stream, device, history>>

\* Mutant of Prefill: three frames have to be buffered.
PrefillThree ==
  IF stream.buffer < 3 * FrameSize THEN stream.buffer ELSE 3 * FrameSize

\* prefill_target: two frames, or the buffer if it is smaller.
Prefill ==
  IF stream.buffer < 2 * FrameSize THEN stream.buffer ELSE 2 * FrameSize

Started == [stream EXCEPT !.started = @ \/ Padding >= Prefill]

WriteStarts ==
  /\ client.pc = "start"
  /\ stream' = Started
  /\ Go("accept")
  /\ UNCHANGED <<output, device, history>>

\* The padding, the start or the clock cannot be had: the device keeps a frame
\* that is not accepted.
WriteFailsLate ==
  /\ client.pc = "start"
  /\ stream' \in {stream, Started}
  /\ history' = [history EXCEPT !.failed = TRUE]
  /\ Returns("failed")
  /\ UNCHANGED <<output, device>>

WriteAccepts ==
  /\ client.pc = "accept"
  /\ output' = [output EXCEPT !.next = @ + 1]
  /\ Returns("ok")
  /\ UNCHANGED <<stream, device, history>>

WriteSteps ==
  \/ WriteBlocks \/ WriteWakes \/ WriteTimesOut \/ WriteGives \/ WriteFailsEarly
  \/ WriteStarts \/ WriteFailsLate \/ WriteAccepts

-----------------------------------------------------------------------------

\* The device takes a unit from the buffer of a running stream.
Render ==
  /\ stream.started /\ device # <<>>
  /\ device' = Tail(device)
  /\ history' = [history EXCEPT !.heard = Head(device)]
  /\ UNCHANGED <<output, stream, client>>

Next ==
  \/ Opens \/ OpenFails \/ Closes \/ CloseFails
  \/ WriteRefused \/ WriteBegins \/ WriteSteps
  \/ Render

Spec == Init /\ [][Next]_vars

\* The thread of the client runs, and a write that goes on waiting reaches the
\* deadline that was fixed when it began.  Nothing is assumed of the device.
FairSpec == Spec /\ WF_vars(WriteSteps) /\ SF_vars(WriteTimesOut)

-----------------------------------------------------------------------------

\* The device is given the frames of a session in order and without a gap, and
\* one of them again only when its write reported a failure (write_frame).
GaplessOutput ==
  [][Len(device') > Len(device) =>
       LET frame == device'[Len(device')].frame
       IN frame = history.given \/ (frame + 1 = history.given /\ history.failed)]_device

\* A stream that is not started never lacks the space for the next frame, or it
\* would wait for a device that does not run (prefill_target in
\* RenderStream::write).  Left out are buffers that hold no frame, and those of
\* more than one frame and less than two, where the second write always times out.
SilentStreamHasSpace ==
  client.pc = "wait" /\ ~stream.started /\ ~history.failed =>
    \/ Space >= FrameSize
    \/ stream.buffer < FrameSize
    \/ FrameSize < stream.buffer /\ stream.buffer < 2 * FrameSize

\* Every write returns, whatever the device does (OUTPUT_WAIT).
WritesReturn == ~Idle ~> Idle

\* The output keeps its contract with the engine and with the listener.
Contract == INSTANCE OutputContract WITH
  open <- stream.open,
  session <- output.session,
  next <- IF stream.open THEN output.next ELSE 0,
  heard <- history.heard

ImplementsContract == Contract!Spec
=============================================================================
