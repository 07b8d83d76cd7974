----------------------------- MODULE CaptureRun -----------------------------
(***************************************************************************)
(* The capture command of mini-aec-lab (platform/windows/capture.rs): two  *)
(* threads that record one track each and send what they read through one  *)
(* bounded channel to the coordinator, which writes the files and, when    *)
(* both tracks have ended, the manifest; and the aec command (offline.rs), *)
(* which later puts the two recordings on one timeline.                    *)
(*                                                                         *)
(* A sample is the device time at which it was taken.  Time is counted in  *)
(* parts of which both a sample and a QPC tick last a whole number, though *)
(* no sample need last a whole number of ticks.  Left out: the metrics of  *)
(* the report and what is printed.                                         *)
(***************************************************************************)
EXTENDS Integers, Sequences, FiniteSets, SequencesExt

CONSTANTS
  ChannelCapacity,  \* CHANNEL_CAPACITY, 128
  SampleRate,       \* SAMPLE_RATE, 48000
  TicksPerSecond,   \* QPC_TICKS_PER_SECOND, 10000000
  FrameSamples,     \* FRAME_SAMPLES, 480
  Starts,           \* possible times of a track's first sample
  Gap,              \* how long a device may lose samples between two packets
  WrongStamps,      \* what a packet may say of its time when it flags an error in it
  MaxPackets,       \* bound on the packets of a track
  MaxPacket,        \* bound on the samples of a packet
  CaptureFaults     \* what may go wrong in the environment

Tracks == {"microphone", "render"}
CaptureFaultKinds == {"spawn", "device", "panic", "disk"}

ASSUME CaptureAssumption ==
  /\ {ChannelCapacity, SampleRate, TicksPerSecond, FrameSamples, MaxPackets, MaxPacket}
       \subseteq Nat \ {0}
  /\ Starts \subseteq Nat /\ Gap \in Nat /\ WrongStamps \subseteq Nat
  /\ CaptureFaults \subseteq CaptureFaultKinds

VARIABLES
  capture,   \* the coordinator: pc, tracks finished, tracks failed, result
  track,     \* the two capture threads
  channel,   \* the messages under way
  writer,    \* the track writers, by track; the finalized ones are the manifest's
  manifest,  \* manifest.json
  aligned    \* what the aec command made of the run

captureVars == <<capture, track, channel, writer, manifest, aligned>>

NoManifest == [written |-> FALSE]
NotAligned == [status |-> "none"]

\* A second is SampleRate * TicksPerSecond parts.
SampleTime == TicksPerSecond
TickTime == SampleRate

\* time is when its first sample was taken, stamp what the device says of that.
NoPacket == [time |-> 0, stamp |-> 0, samples |-> 0, gap |-> FALSE, uncertain |-> FALSE]

\* time is the device's clock; sent, the packets sent so far, is history.
NewTrack == [pc |-> "none", time |-> 0, packet |-> NoPacket, sent |-> <<>>]
NewWriter == [samples |-> <<>>, packets |-> 0, gaps |-> 0, errors |-> 0, first |-> <<>>]

CaptureInit ==
  /\ capture = [pc |-> "idle", finished |-> 0, failures |-> {}, result |-> "none"]
  /\ track = [t \in Tracks |-> NewTrack]
  /\ channel = <<>>
  /\ writer = <<>>
  /\ manifest = NoManifest
  /\ aligned = NotAligned

-----------------------------------------------------------------------------
(* A capture thread.  Dropping the coordinator's receiver wakes a blocked  *)
(* sender with an error; the end of the process, soon after, is left out.  *)

TrackAt(t, pc) == track[t].pc = pc
GoTrack(t, pc) == track' = [track EXCEPT ![t].pc = pc]
Connected == capture.pc # "returned"

\* Mutant of Send: a full channel loses the message.
SendOrDrop(t, kind, next) ==
  \/ /\ Connected
     /\ channel' = IF Len(channel) < ChannelCapacity
                   THEN Append(channel, [kind |-> kind, track |-> t, packet |-> track[t].packet])
                   ELSE channel
     /\ track' = [track EXCEPT ![t].pc = next,
                    ![t].packet = NoPacket,
                    ![t].sent = IF kind = "packet" THEN Append(@, track[t].packet) ELSE @]
  \/ /\ ~Connected
     /\ GoTrack(t, IF kind = "failed" THEN "done" ELSE "report")
     /\ UNCHANGED channel

\* Mutant of Send: mpsc::channel for mpsc::sync_channel.
SendUnbounded(t, kind, next) ==
  \/ /\ Connected
     /\ channel' = Append(channel, [kind |-> kind, track |-> t, packet |-> track[t].packet])
     /\ track' = [track EXCEPT ![t].pc = next,
                    ![t].packet = NoPacket,
                    ![t].sent = IF kind = "packet" THEN Append(@, track[t].packet) ELSE @]
  \/ /\ ~Connected
     /\ GoTrack(t, IF kind = "failed" THEN "done" ELSE "report")
     /\ UNCHANGED channel

\* sender.send: it blocks while the channel is full; a receiver that is gone is an
\* error, which capture_track returns and the report of it ignores.
Send(t, kind, next) ==
  \/ /\ Connected /\ Len(channel) < ChannelCapacity
     /\ channel' = Append(channel, [kind |-> kind, track |-> t, packet |-> track[t].packet])
     /\ track' = [track EXCEPT ![t].pc = next,
                    ![t].packet = NoPacket,
                    ![t].sent = IF kind = "packet" THEN Append(@, track[t].packet) ELSE @]
  \/ /\ ~Connected
     /\ GoTrack(t, IF kind = "failed" THEN "done" ELSE "report")
     /\ UNCHANGED channel

\* Everything up to the started message.
OpenTrack(t) ==
  /\ TrackAt(t, "open")
  /\ \/ \E time \in Starts : track' = [track EXCEPT ![t].pc = "started", ![t].time = time]
     \/ "device" \in CaptureFaults /\ GoTrack(t, "report")
  /\ UNCHANGED <<capture, channel, writer, manifest, aligned>>

\* What the counter shows at a time: whole ticks.
Qpc(time) == time \div TickTime

\* read_from_device: the device goes on where it was, or has lost a while and
\* flags the packet as discontinuous; it tells when the packet began, or something
\* else, and flags a timestamp error.
ReadPacket(t) ==
  /\ TrackAt(t, "read")
  /\ Len(track[t].sent) < MaxPackets
  /\ \E samples \in 1..MaxPacket, gap \in BOOLEAN, uncertain \in BOOLEAN :
       LET time == track[t].time + (IF gap THEN Gap ELSE 0)
       IN \E stamp \in IF uncertain THEN WrongStamps ELSE {Qpc(time)} :
            track' = [track EXCEPT ![t].pc = "packet",
                        ![t].packet = [time |-> time, stamp |-> stamp, samples |-> samples,
                                       gap |-> gap, uncertain |-> uncertain],
                        ![t].time = time + samples * SampleTime]
  /\ UNCHANGED <<capture, channel, writer, manifest, aligned>>

\* The deadline has passed and the stream is stopped.
StopTrack(t) ==
  /\ TrackAt(t, "read")
  /\ GoTrack(t, "stopped")
  /\ UNCHANGED <<capture, channel, writer, manifest, aligned>>

\* A WASAPI call after the started message fails, or the thread panics.
TrackFails(t) ==
  /\ TrackAt(t, "read")
  /\ \/ "device" \in CaptureFaults /\ GoTrack(t, "report")
     \/ "panic" \in CaptureFaults /\ GoTrack(t, "done")
  /\ UNCHANGED <<capture, channel, writer, manifest, aligned>>

SendStarted(t) == TrackAt(t, "started") /\ Send(t, "started", "read")
SendPacket(t)  == TrackAt(t, "packet")  /\ Send(t, "packet", "read")
SendStopped(t) == TrackAt(t, "stopped") /\ Send(t, "stopped", "done")
SendFailed(t)  == TrackAt(t, "report")  /\ Send(t, "failed", "done")

SendMessage(t) ==
  /\ SendStarted(t) \/ SendPacket(t) \/ SendStopped(t) \/ SendFailed(t)
  /\ UNCHANGED <<capture, writer, manifest, aligned>>

TrackSteps(t) == OpenTrack(t) \/ SendMessage(t) \/ StopTrack(t)
TrackNext(t) == TrackSteps(t) \/ ReadPacket(t) \/ TrackFails(t)

-----------------------------------------------------------------------------
(* The coordinator.                                                        *)

CaptureAt(pc) == capture.pc = pc
Ends(result) == capture' = [capture EXCEPT !.pc = "returned", !.result = result]

\* The second spawn, the event file or a write of one of the files fails: the
\* command returns through `?`, drops its receiver and detaches the threads.
GiveUp == Ends("error")

BeginCapture ==
  /\ CaptureAt("idle")
  /\ capture' = [capture EXCEPT !.pc = "spawn_microphone"]
  /\ UNCHANGED <<track, channel, writer, manifest, aligned>>

SpawnTrack(t, next) ==
  /\ CaptureAt(IF t = "microphone" THEN "spawn_microphone" ELSE "spawn_render")
  /\ \/ capture' = [capture EXCEPT !.pc = next] /\ GoTrack(t, "open")
     \/ "spawn" \in CaptureFaults /\ GiveUp /\ UNCHANGED track
  /\ UNCHANGED <<channel, writer, manifest, aligned>>

CreateEvents ==
  /\ CaptureAt("events")
  /\ \/ capture' = [capture EXCEPT !.pc = "receive"]
     \/ "disk" \in CaptureFaults /\ GiveUp
  /\ UNCHANGED <<track, channel, writer, manifest, aligned>>

SamplesOf(packet) == [i \in 1..packet.samples |-> packet.time + (i - 1) * SampleTime]

\* write_packet: the samples, and the counts and times of the manifest; the first
\* packet's stamp is kept whether or not it is in error.
Written(w, packet) ==
  [samples |-> w.samples \o SamplesOf(packet),
   packets |-> w.packets + 1,
   gaps    |-> w.gaps + (IF packet.gap THEN 1 ELSE 0),
   errors  |-> w.errors + (IF packet.uncertain THEN 1 ELSE 0),
   first   |-> IF w.first = <<>> THEN <<packet.stamp>> ELSE w.first]

\* The writers after a message.
Handled(message) ==
  LET t == message.track
  IN CASE message.kind = "started" ->
            [u \in DOMAIN writer \union {t} |-> IF u = t THEN NewWriter ELSE writer[u]]
       [] message.kind = "packet" -> [writer EXCEPT ![t] = Written(@, message.packet)]
       [] OTHER -> writer

\* One message: audio before its start event is an error, like a failed write.
Receive ==
  /\ CaptureAt("receive") /\ capture.finished < 2
  /\ channel # <<>>
  /\ channel' = Tail(channel)
  /\ LET message == Head(channel)
         refused == message.kind = "packet" /\ message.track \notin DOMAIN writer
     IN \/ /\ ~refused
           /\ writer' = Handled(message)
           /\ capture' = [capture EXCEPT
                !.finished = IF message.kind \in {"stopped", "failed"} THEN @ + 1 ELSE @,
                !.failures = IF message.kind = "failed" THEN @ \union {message.track} ELSE @]
        \/ /\ refused \/ "disk" \in CaptureFaults
           /\ GiveUp
           /\ UNCHANGED writer
  /\ UNCHANGED <<track, manifest, aligned>>

TrackEnded(t) == track[t].pc = "done"

\* Mutant of Disconnected: the coordinator keeps a sender of its own.
DisconnectedNever ==
  /\ FALSE
  /\ UNCHANGED captureVars

\* recv fails: both senders are gone and a track has not reported its end.
Disconnected ==
  /\ CaptureAt("receive") /\ capture.finished < 2
  /\ channel = <<>> /\ \A t \in Tracks : TrackEnded(t)
  /\ GiveUp
  /\ UNCHANGED <<track, channel, writer, manifest, aligned>>

\* Both threads are joined, the files finalized and the manifest written.
FinishCapture ==
  /\ CaptureAt("receive") /\ capture.finished = 2
  /\ \A t \in Tracks : TrackEnded(t)
  /\ \/ /\ manifest' = [written |-> TRUE, tracks |-> writer, failures |-> capture.failures]
        /\ Ends(IF capture.failures = {} THEN "ok" ELSE "failed")
     \/ "disk" \in CaptureFaults /\ GiveUp /\ UNCHANGED manifest
  /\ UNCHANGED <<track, channel, writer, aligned>>

CoordinatorNext ==
  \/ SpawnTrack("microphone", "spawn_render") \/ SpawnTrack("render", "events")
  \/ CreateEvents \/ Receive \/ Disconnected \/ FinishCapture

-----------------------------------------------------------------------------
(* The aec command.                                                        *)

\* Mutant of QpcDeltaToSamples: the remainder is cut off.
QpcDeltaToWholeSamples(delta) == (delta * SampleRate) \div TicksPerSecond

\* qpc_delta_to_samples rounds to the nearest sample.
QpcDeltaToSamples(delta) ==
  (delta * SampleRate + TicksPerSecond \div 2) \div TicksPerSecond

Earlier(a, b) == IF a < b THEN a ELSE b
Later(a, b) == IF a > b THEN a ELSE b

\* align_tracks: the start of each track on the common timeline, which covers both
\* and is a whole number of frames.
AlignTracks(tracks) ==
  LET first(t)  == tracks[t].first[1]
      origin    == Earlier(first("microphone"), first("render"))
      offset(t) == QpcDeltaToSamples(first(t) - origin)
      end(t)    == offset(t) + Len(tracks[t].samples)
      common    == Later(end("microphone"), end("render"))
  IN [status |-> "ok",
      offset |-> [t \in Tracks |-> offset(t)],
      length |-> ((common + FrameSamples - 1) \div FrameSamples) * FrameSamples]

\* process: without a manifest it does nothing; the manifest must name both tracks
\* and the stamp of their first packet.  It looks at no failure, gap or error.
Align ==
  /\ manifest.written /\ aligned = NotAligned
  /\ aligned' =
       IF DOMAIN manifest.tracks # Tracks THEN [status |-> "no track"]
       ELSE IF \E t \in Tracks : manifest.tracks[t].first = <<>> THEN [status |-> "no time"]
       ELSE AlignTracks(manifest.tracks)
  /\ UNCHANGED <<capture, track, channel, writer, manifest>>

-----------------------------------------------------------------------------

\* The operating system schedules the threads, a device's wait is finite, and the
\* deadline passes.
CaptureFairness ==
  /\ WF_captureVars(CoordinatorNext)
  /\ \A t \in Tracks : WF_captureVars(TrackSteps(t)) /\ SF_captureVars(StopTrack(t))

TrackType ==
  [pc : {"none", "open", "started", "read", "packet", "stopped", "report", "done"},
   time : Nat,
   packet : [time : Nat, stamp : Nat, samples : 0..MaxPacket, gap : BOOLEAN, uncertain : BOOLEAN],
   sent : Seq([time : Nat, stamp : Nat, samples : 1..MaxPacket, gap : BOOLEAN,
               uncertain : BOOLEAN])]

\* Every variable has its type; the channel keeps to its capacity.
CaptureTypeOK ==
  /\ capture \in [pc : {"idle", "spawn_microphone", "spawn_render", "events", "receive",
                        "returned"},
                  finished : 0..2, failures : SUBSET Tracks,
                  result : {"none", "ok", "failed", "error"}]
  /\ track \in [Tracks -> TrackType]
  /\ Len(channel) <= ChannelCapacity
  /\ \A i \in DOMAIN channel : channel[i].kind \in {"started", "packet", "stopped", "failed"}
  /\ DOMAIN writer \subseteq Tracks
  /\ manifest.written \in BOOLEAN
  /\ aligned.status \in {"none", "ok", "no track", "no time"}

\* Writer w holds the packets that were sent, all and in order.
Holds(w, sent) ==
  /\ w.samples = FlattenSeq([i \in DOMAIN sent |-> SamplesOf(sent[i])])
  /\ w.packets = Len(sent)
  /\ w.gaps = Cardinality({i \in DOMAIN sent : sent[i].gap})
  /\ w.errors = Cardinality({i \in DOMAIN sent : sent[i].uncertain})
  /\ w.first = [i \in 1..Earlier(1, Len(sent)) |-> sent[i].stamp]

\* The manifest tells what was recorded: every packet a track sent is in its file, in
\* order, with its counts and the stamp of the first, also when the track failed
\* later or the other track ended first; only a track that failed is missing; and
\* the command succeeds exactly when no track is listed as failed (capture,
\* write_packet, finalize_writers).
ManifestIsFaithful ==
  /\ manifest.written =>
       /\ \A t \in DOMAIN manifest.tracks : Holds(manifest.tracks[t], track[t].sent)
       /\ Tracks \ DOMAIN manifest.tracks \subseteq manifest.failures
       /\ (capture.result = "ok") <=> (manifest.failures = {})
  /\ capture.result \in {"ok", "failed"} => manifest.written

\* The reference is in phase with the microphone: when the manifest counts neither a
\* lost while nor a timestamp error, every sample of both tracks is on the common
\* timeline, at most half a sample and a tick from its time, whichever track started
\* first.  One error is enough to lose that, for it may be the first stamp's
\* (align_tracks, write_packet).
ReferenceInPhase ==
  aligned.status = "ok" /\ (\A t \in Tracks : /\ manifest.tracks[t].gaps = 0
                                            /\ manifest.tracks[t].errors = 0) =>
    LET samples(t) == manifest.tracks[t].samples
        origin == Earlier(samples("microphone")[1], samples("render")[1])
        slack == SampleTime + 2 * TickTime
    IN \A t \in Tracks : \A i \in DOMAIN samples(t) :
         LET place == aligned.offset[t] + i - 1
             late  == place * SampleTime - (samples(t)[i] - origin)
         IN 2 * late \in -slack..slack /\ place < aligned.length

\* The command returns, whatever fails: it waits for a message or for a thread only
\* as long as one can come, also when a thread died without a word (capture).
CaptureReturns == capture.pc = "spawn_microphone" ~> capture.pc = "returned"
=============================================================================
