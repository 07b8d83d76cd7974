# Verification of MiniAEC

MiniAEC is a Windows tray program. It captures a physical microphone and, in
AEC mode, the loopback of a physical render endpoint, cancels the echo, and
writes 10 ms frames to a VB-CABLE playback endpoint from whose recording side
other programs read. This directory holds TLA+ models of its Rust code, the
TLC configurations that check them, and machine-checked proofs.

## 1. Inventory

| Component | Source | State it keeps | Operations | Hard behaviour |
|---|---|---|---|---|
| Engine, bypass mode | `mini-aec-engine/src/runtime.rs` | snapshot (mutex), `stop_requested`, `terminal_failure` (atomics), `run` handles (mutex) | start, stop, restart, record_failure, sink worker, capture worker | callers and four threads interleave; one pair of flags serves all runs; join and ready timeouts |
| Engine, AEC mode | same | the same, plus two queues and the processing loop's counters | start_aec, two input workers, processing loop, select_render_frame, rebuild_echo | pairing by timestamp, degradation and recovery written to the state other threads fail |
| Frame queues | `queue.rs`, `synchronization.rs` | frames, producer_done, failed, metrics | push, pop, try_pop, finish_producer, fail, clear | latest-wins overflow against a concurrent consumer |
| Framing | `framing.rs`, `synchronization.rs` | partial frame, reset mark | push_packet, clear | packets that do not divide into frames, discontinuities |
| Output contract | `mini-aec-output/src/lib.rs` | none | resolve_pair, PcmFrame, SessionConfig | ambiguous endpoints |
| VB-CABLE output | `mini-aec-windows-output/src/lib.rs` | session, next sequence, stream, diagnostics | open_session, write_frame, close_session, RenderStream.write | sequence protocol, prebuffered start, bounded wait |
| Configuration store | `src-tauri/src/config.rs` | config.json, .tmp, .bak | load, save | a crash between two renames, two writers |
| Tray controller | `src-tauri/src/audio.rs`, `main.rs` | draft, configuration, source, flags, inventory | select_*, set_aec_enabled, apply_current, refresh_inventory | the menu and the polling thread interleave |
| Lab recording | `mini-aec-lab`: `capture.rs`, `offline.rs` | channel, track writers, manifest, recordings | capture, aec | two capture threads and a coordinator; a device, a disk or a thread fails while messages are queued |
| Lab validation | `main.rs`, `bypass.rs` | evidence file | bypass, realtime-aec | the engine changes between and after the snapshots; the command is killed at any write |
| Stability analysis | `stability.rs` | the report | stability-report | what may be measured across a discontinuity, a gap or a torn file |

The engine is driven by calls (start, stop, restart, snapshot). Its workers
talk through the queues, through one-shot ready channels, and through the
shared snapshot and the two flags. The tray calls the engine from its menu
thread and from a polling thread.

What makes each component correct:

- engine: frames in capture order, each at most once, none lost without being
  counted; no worker, session or frame of a run outlives it; a failure is
  recorded once and stays visible; Running means served; every command returns;
- queues: bounded, ordered, overflow counted;
- AEC: pairs in order, degraded only visibly, recovery bounded;
- output session: gap-free sequence, closed exactly when it was opened;
- configuration store: after a crash the last saved configuration is found;
- tray: what is applied is what was selected;
- lab: the manifest holds what was recorded, tracks are put together in phase,
  and only evidence that earned it is accepted.

## 2. Plan

Done, the most important behaviour first:

1. `FrameQueue`: the queue of both engine modes, as pure operators.
2. `BypassEngine`: one engine object, any number of callers, runs and faults,
   with `EngineLifecycle` as what it promises.
3. `BypassProofs`, `ConservationProofs`, `LifecycleProofs`: the queue operators,
   types, frame order, no failure hidden, one owner for the handles of a run, no
   frame lost without being counted, no worker left behind, and the refinement of
   `EngineLifecycle`.
4. `AecEngine`: one AEC run after another, pairing, degradation, recovery, with
   `AecProofs` (frames and states) and `AecRunProofs` (runs and discontinuities).
5. `ConfigStore` and `TrayController`: the two tray threads and the files, with
   `TrayProofs`.
6. `OutputContract` and `OutputSession`: the output session over the device, with
   `OutputProofs`, which shows the one to implement the other.
7. `CaptureRun`, `StabilityReport`, `EvidenceRun` and `LabCommands`: the commands
   of the lab, with `LabProofs`.

Left, in the order in which it would add most:

8. `Framing`: cutting packets of any size into frames with gap accounting
   (`framing.rs` and the timed accumulator), against a reference that numbers
   the samples.
9. `PairResolution`: `resolve_pair` and the enumeration of pairs against a
    reference definition.
10. The composition of the bypass sink with `OutputSession`.

## 3. Modules and code

**`FrameQueue`** (`queue.rs`). A queue is a record of its frames, the two flags
and the discard count; `Push`, `PopResult`, `FinishProducer`, `Fail`, `Clear`
and `Metrics` are the methods. Every method holds the mutex for all of its
work, so each use is one step of a thread. `TimedFrameQueue`
(`synchronization.rs`) is the same queue with `try_pop`.

**`BypassEngine`** (`runtime.rs`, bypass mode). `snapshot`, `stopRequested`,
`terminalFailure` and `run` are the fields of `Shared` and `Engine`; they are
shared by all runs, as in the code. `queue`, `sink`, `capture` are indexed by
run: a run has its own queue, session and threads. `caller` holds the program
counter of every thread inside start, stop or the cleanup that both call. A step
is one critical section, one atomic access or one adapter call; record_failure
is four steps (exchange, request stop, fail the queue, publish) that interleave
with everything else. `start` and `stop` are cut at each lock: between the read
of the state and its write another thread may run. Frames are the numbers 1,
2, ... in the order they are captured. Left out: samples, levels and the
diagnostics no property reads.

**`EngineLifecycle`** is the promise to the program that commands the engine:
one lifecycle, one session at a time, frames only in the session of the current
run, and no new run before the session of the last one is closed.
`BypassEngine` implements it under a mapping that reads the session from the
sinks (`OpenRun`) and the rest from the snapshot.

**`AecEngine`** (`runtime.rs`, AEC mode, with `synchronization.rs`). Same
shape: the fields of `Shared`, two input workers with a queue each, and the
processing worker, whose loop is cut at every call that touches shared state:
fetch a microphone frame, rebuild on its mark, search for the render partner
(fetch, examine, judge), record the pairing in the snapshot, process, rebuild on
rejection, check the deadline, write, refresh. A frame is its timestamp and its
reset mark; time is counted in ticks of half a frame, so that the tolerance is
one tick. The timestamp of a packet is whatever the device says, also in a packet
that is flagged for a timestamp error; neither the accumulator nor the worker
compares it with the ones before (`synchronization.rs:59`). `Jumps` has the ticks by
which it may miss the time that would be expected, so it may stand still and go
back; it is never below 0. One caller, joins succeed: what only overlapping runs or callers can
do is in `BypassEngine`, whose start and stop have the same structure. History
fields (`number`, `epoch`, `lost`, `streak`, `pair`, `echo`) record the past for properties
and are read by no action.

**`ConfigStore`** (`config.rs`): the three file names and the file-system calls
as operators. **`TrayController`** (`audio.rs`, `main.rs`, and the control
flow of `save` and `replace_file`): the main thread boots, then handles menu
events; the polling thread, which exists after the boot, refreshes the
inventory and applies on a change. Each field of `TrayEngine` is behind its own
mutex, so every field access of `apply_current` and `initialize_defaults` is a
step (adjacent accesses to the default-choice flags are one). The engine is
abstracted to the configuration it runs; `Torn` stands for one that failed to
stop. `Exit` ends both threads wherever they are, keeps the files and boots
again with the same environment.

**`OutputSession`** (`mini-aec-windows-output`): `output` is the state of
`WindowsVbCableOutput`, `stream` its `RenderStream`, `device` the units in the
buffer behind it, which the device takes out one at a time while the stream
runs. A write is cut at the wait for space, the submission, the start of the
stream and the acceptance; each WASAPI call may fail. The client calls anything
at any time, repeated closes and wrong sequence numbers included, which is more
than the sinks of the engine do: they end a session at the first error.
**`OutputContract`** is the promise: sessions one after another, frames accepted
in order from 0, and sound heard only inside its session, in order and never
ahead of what was offered.

**`CaptureRun`** (`capture.rs`, `offline.rs`). Each track's thread reads packets and
sends them through one bounded channel; the coordinator (`capture`) receives,
writes, and ends with the manifest or an error; a device, the disk and a thread
that panics or cannot be spawned may fail at any step. `Align` is the aec
command: it reads the manifest and the recordings and pads both tracks to one
timeline. A sample is the device time at which it was taken, so that "in phase" can
be stated. Time is counted in parts of a second of which both a sample and a tick of
the counter last a whole number (`SampleTime`, `TickTime`); a sample need not last a
whole number of ticks, as it does not at 48 kHz and 10 MHz. Where a packet begins
the device stamps in whole ticks (`Qpc`), or, with the timestamp-error flag, it stamps
one of `WrongStamps`; the writer keeps the first stamp either way.

**`EvidenceRun`** (`bypass.rs`): the loop that writes a started event, a snapshot per
interval and a terminal event, with late wake-ups, an engine that may change
state and counters in every interval, a stop that may fail, and a process that
may be killed at each write. **`StabilityReport`** (`stability.rs`) is the analysis of
such a file as operators on the sequence of its lines: `parse_evidence`, the
segments without discontinuity, the clock windows, coverage, gates and
verdict. `MakeReport` in `EvidenceRun` applies it to whatever the file holds at that
moment. **`LabCommands`** composes the commands: each is a process of its own, and
they meet only in the files.

`MCBypass`, `MCAec`, `MCTray`, `MCOutput` and `MCLab` define the instances. Definitions whose
comment says "Mutant of" are wrong variants of the definition that follows
them; no specification uses them.

## 4. Runs

| Run | Instance | Shows |
|---|---|---|
| `bypass_core` | 1 caller, 2 runs, 2 frames in packets of up to 2, capacity 1, failing adapters and spawns; 226 k states, 30 s | order, conservation, no orphan workers, Running is served, the first error stays, a clean stop accounts for every frame, no PCM of an earlier run, refinement of `EngineLifecycle`, every command returns |
| `bypass_race` | 2 callers, 1 run, 1 frame, failing spawns, late ready messages; 165 k states, 20 s | handles have one owner; failures stay visible under concurrent commands; a failure ends both workers without a command |
| `bypass_race_running` | the same without spawn and ready faults | violation, finding 1 |
| `bypass_slow_join` | 1 caller, 2 runs, a thread may outlive `JOIN_TIMEOUT` | violation, finding 2 |
| `aec_timeline` | 1 run, 3 microphone and 2 render frames, render times that may go back by a frame and a half, capacity 2, one discontinuity or timestamp error, failing canceller and missed deadlines; 4.9 M states, 80 s | one output per microphone frame, pairs advance, one epoch per canceller, Running is honest, recovery needs a streak |
| `aec_faults` | 2 runs, 1 frame, failing render source, output and spawns; 93 k states, 25 s | a running engine has its workers, a stopped one has none, commands return, failures tear down, a microphone frame completes |
| `aec_failed_overwritten` | 1 run, 1 frame, failing microphone | violation, finding 3 |
| `output_session` | 2 sessions of 4 frames, frames of 2 units, buffers of 1 to 6 units, every call failing at every point; 15 k states | no gap in what the device is given, nothing heard outside its session or out of order, a silent stream has space, every write returns |
| `tray_core` | 2 microphones, 1 render, 1 pair, 3 stored contents, with and without an override, one each of command, device change, failing call and exit; 1.5 M states, 30 s | consistency of engine, tray and store; default choices followed; overrides never stored; a failed save restores |
| `tray_overlap` | 1 command against a poll | violation, finding 4 |
| `tray_save_cut` | 1 command, 1 exit | violation, finding 5 |
| `lab` | 3 scripts of two commands each; 2 packets per track with gaps and timestamp errors, a channel of 1; runs of 2 or 8 intervals with one disturbance and late wake-ups; 753 k states, 90 s | the manifest is faithful, the reference is in phase, capture returns; reports only on concluded evidence, windows continuous, acceptance earned, drift judged alike in both directions |

States are distinct states; times are those of two workers on a desktop machine.

Why the bounds are enough to be worth something: two runs are the least in
which something of one run can leak into the next. A capacity of one with a
burst of two makes the queue overflow while the consumer is between pop and
write. Two callers are what the tray has. In `aec_timeline` a render stream that
starts one and a half frames late makes frames without partner, late
candidates and pairs at exactly the tolerance; with thresholds of two every
counter (healthy frames, misses, rejections) reaches its limit and is reset; a
render time that goes back by three ticks repeats one or precedes one that is
already paired.
In `aec_faults` the render stream starts earlier, so that stale frames are
dropped; a failing microphone is in `aec_failed_overwritten`, and ready messages
that come too late are in `bypass_race` only, since both modes wait for them in
the same way. In `tray_core` the poll and one command overlap in every way, and
one exit hits every step of a save; a second failing call would make
`SavedIsFound` false (section 6). In `lab` the thresholds of the analysis are
scaled down so that a file of eight lines reaches each of them: a window is two
intervals, the gate seven, the longest segment three. A sample lasts 7 parts and a
tick 3, so no number of samples below 3 is one of ticks and starts that are 8 parts
apart have to be rounded. Larger instances have not
been checked; what is proved holds for all values.

Deadlock is checked in every run but `lab`, where the commands of a script end. The
engines never stop for good: when the bound on the runs is used up, a start ends at
its preflight. In the tray the
poll wakes up for ever, and an output can always be closed once more.

### Fairness

`FairSpec` of the engines asks weak fairness of each thread's own steps and of
each `record_failure` in progress. The code justifies it: every wait of a
worker is bounded (`INPUT_WAIT`, `SINK_WAIT`), adapter calls return, and
Windows schedules all threads. Callers are never forced to issue a command. In
`AecEngine` a read that brings a packet and a read that fails are not part of the
fair steps: nothing is assumed of the device. In `BypassEngine` the fair step of
the capture worker includes its idle read, which changes nothing but its
program counter; devices may stay silent for ever there too. `OutputSession`
adds strong fairness of the timeout of a write: the deadline is fixed when the
write begins, so a write that goes round its wait loop reaches it. In the lab
only the capture command has a liveness property, and weak fairness is asked of its
coordinator and of its threads (`CaptureFairness`).

## 5. Findings

1. *A stop that overlaps a start leaves RunningBypass with no worker*
   (`runtime.rs:334`, `bypass_race_running`). start looks at the failure flag,
   not at the state, before it publishes.
2. *A sink that outlives `JOIN_TIMEOUT` writes into the next run*
   (`runtime.rs:1552`, `bypass_slow_join`). Its handle is dropped and the flags
   are shared.
3. *A failed AEC run is shown as Degraded or RunningAec for good*
   (`runtime.rs:1234`, `aec_failed_overwritten`). The processing worker writes
   the state without looking at the failure flag.
4. *A poll undoes a selection in the tray but not in the engine*
   (`audio.rs:613`, `tray_overlap`).
5. *An exit between two renames loses the configuration*
   (`config.rs:126`, `tray_save_cut`): only the backup is left and nothing reads
   it.

Seen while modelling, with no sentence of the repository against it: a start
that clears the stop request of a concurrent stop (that stop then ends by its
timeout); two saves at once through one temporary name, of which the failing
one can remove what the other saved (`SavedIsFound` excludes them); a save in
which the rename fails and the rename that restores the backup fails too, which
nobody is told; AEC spawns
that fail after the first forget the workers they have; one marked render frame
that waits for a later microphone frame rebuilds the canceller once per
microphone frame (`runtime.rs:1374`); a device buffer of more than one frame and
less than two makes the second write of every session time out, because the
stream starts only when the buffer is full or holds two frames
(`mini-aec-windows-output/src/lib.rs:437`), which ends the run with an error; a
recording is put in phase by the stamp of its first packet even when the device
flagged an error in it (`capture.rs:528`), and the aec command looks neither at
`timestamp_errors` nor at `discontinuities` of the manifest (`offline.rs:96`);
`ReferenceInPhase` is stated for recordings that count neither.

## 6. Proofs

`BypassProofs` begins with lemmas about the queue operators: the type of every
result, that a pushed queue stays within its capacity and is the old one without
a prefix and with the new frame at its end, and that a popped queue is the tail.
It proves for every set of callers, every `MaxRuns`, `MaxFrames`,
`MaxBurst`, `QueueCapacity`, `RefreshEvery` and every subset of the faults,
including threads that outlive their join, from `EngineAssumption` alone:

- `TypeCorrect`: `Spec => []TypeOK`, which includes that no queue outgrows
  its capacity;
- `CaptureOrderCorrect`: `Spec => []CaptureOrder`.

The inductive invariant is `IInv`: `TypeOK`, `CaptureOrder`, and two facts they
need. `HandlesNamed`: whoever holds handles holds those of a run, else `clear`
would be applied to no queue. `PushPending`: a capture about to push has a frame
left of its packet, else the number it pushes would not be new. `CaptureOrder`
bounds the queue from below by the frame the sink popped last and from above by
the frame captured last, which is what makes it inductive: a push appends a
larger number, an overflow and a pop drop a prefix. There is one lemma per thread
and invariant (`SinkStepType`, `CaptureStepOrder`, ...), one step per action in
each, and `InitIInv`, `NextIInv` put them together.

It then proves, if no thread outlives its join (`"slow_join" \notin Faults`),

- `FailureVisibleCorrect`: `Spec => []FailureIsVisible`: whatever starts and stops
  overlap, a recorded failure is to be read with its error once they have
  returned.

The property says nothing of the moments in between, so its invariant `VInv` does:
while the flag is set, the failure is either still being published, or a start
has yet to reset the flag, or it is shown, or a stop that has overtaken it is
under way (`Visible`). `StopsOnly`, `ErrorsNamed` and `JoinsInTime` rule out the steps
that would break this; `JoinsInTime` is where the assumption is used.

`ConservationProofs` proves, from `EngineAssumption` again,

- `OwnershipCorrect`: `Spec => []HandlesHaveOneOwner`: with any number of
  threads calling `start` and `stop` at once, no two of them join, clear or
  install the same run.

Its invariant is `OInv`: `IInv` and `Ownership`, which adds that nobody holds a
run that was not launched yet, else a new run could already have an owner. The
argument is a classification: a step of a command lets go, installs what it
held, keeps it, takes the installed run, or launches a new one (`LetsGo`,
`Installs`, `Keeps`, `Takes`, `Launches`). `CommandStepOwns` shows that every
action is one of them, `OwnershipMoves` that each keeps the owner unique.

It then proves

- `ConservationCorrect`: `Spec => []FrameConservation`.

The property is about one queue, but what could break it is a command: `clear`
on a queue that is still being served, or `finish_producer` on behalf of a
capture that lives. Its invariant `CInv` adds `Sound` to `OInv`. `RunSound`: the
frames of a run balance as long as its queue has not failed and its sink may
still serve, and the queue of a live capture is not finished. `CommandSound` and
`SlotSound`: what a command, or the run slot, knows about the run it owns; a
command reaches `clear` only when the sink has ended or the capture was never
spawned, and finishes a queue itself only in the latter case. `FreshSound`: a
run that was not launched is untouched. A step of a worker takes nothing back
that a command relies on (`WorkerKeeps`), and a step of a command touches only
the run it owns, which is where ownership is used (`CommandKeeps`).

`LifecycleProofs` proves for one caller whose workers answer every join
(`Callers = {c}`, `"slow_join" \notin Faults`), for every bound and with adapters,
ready messages and spawns that fail,

- `NoOrphansCorrect`: `Spec => []NoOrphanWorkers`;
- `ServedCorrect`: `Spec => []RunningIsServed`;
- `AccountingCorrect`: `Spec => []CleanStopAccounting`;
- `FirstErrorCorrect`: `Spec => FirstErrorSticks`;
- `NoStalePcmCorrect`: `Spec => NoStalePcm`;
- `LifecycleImplemented`: `Spec => ImplementsLifecycle`, the refinement of
  `EngineLifecycle`.

The two hypotheses are a program that issues one command after the other, as the lab
does from its only thread, and workers that end within `JOIN_TIMEOUT`. The runs `bypass_race_running` and `bypass_slow_join` show that without them a stopped run
may be called Running and a forgotten worker writes into the next run. The invariant
`LInv` adds `Single` to `CInv`. Its parts, and what fails without each:

- `OneRun`: the handles of the last run are in the slot or with the command; else a
  stop could join nothing and call the engine Stopped;
- `Owned`: whoever is to end a live worker has its handle;
- `Fresh`: a run that was not launched, or whose start has not spawned yet, is
  untouched, so that the counters of the snapshot and of the run start together;
- `Phases`: which steps of a command can be under way in each lifecycle state;
- `OneFailure`: one thread at a time is past the exchange of `terminal_failure`, and no
  error is shown before it has published; that is `FirstErrorSticks`;
- `Faulty`: where a thread is when it records a failure;
- `Served`: `stop_requested` without a failure is the work of a stop, a worker that said
  ready serves until it is told to end or records why it does not;
- `Accounts`: the counters of the snapshot against the run's, and an output worker that
  ended without a failure has drained its queue.

In the refinement `Resolve` is `Launch`, a successful `SinkOpen` is `OpenSession`,
`SinkAccepts` is `Deliver`, `SinkClose` is `CloseSession`, `FinishStart` is `Ready`, the
publishing step of record_failure is `FailRun`, `SetStopping` is `RequestStop`,
`SetStopped` is `FinishStop`, and every other step leaves what the lifecycle shows
(`SameView`). The mapping chooses the run whose sink holds a session; `LiveIsLast` shows
that there is at most one.

`AecProofs` proves for all times at which the two inputs may start, every amount by
which the time of a packet may miss the expected one, every tolerance, capacity, threshold and bound and every
subset of the faults, from `AecAssumption`:

- `TypeCorrect`: `Spec => []TypeOK`, which includes that the queues stay within
  their capacity and that misses and failures in a row end the run at their limits;
- `PairsAdvanceCorrect`: `Spec => PairsAdvance`;
- `OneOutputCorrect`: `Spec => []OneOutputPerMicFrame`;
- `HonestCorrect`: `Spec => []RunningIsHonest`;
- `RecoveryCorrect`: `Spec => RecoveryNeedsStreak`.

Nothing is assumed of the timestamps: `PairsAdvance` asks of the times of a pair only
that they are within the tolerance of each other, and states the order by the numbers
of the frames, in which the inputs made them.

The invariant `IInv` has one part per question. `Timeline`: whatever frame the worker
remembers of an input (the last pair, the frame in its hands, the candidate, the
match) was made before every frame that waits in the queue, which are in order, and
these before the next frame of the device (`Chain`); so a frame that is paired was made
after all paired before, also when overflows have discarded frames in between.
`Balanced`: the frames that a live worker has to account for, which needs `DoneMic`
(only the end of the microphone thread finishes its queue) and `Stages` (a frame is
at hand exactly while one is worked on). `Honest` speaks of Starting as well as of
Running, because `start` turns the one into the other at a moment of its own choice.
`Health`: frames counted as healthy are frames in a row that were paired and
processed.

`AecRunProofs` proves, from the same assumption,

- `QuietRunningCorrect`: `Spec => []QuietRunningIsServed`;
- `StoppedIsQuietCorrect`: `Spec => []StoppedIsQuiet`;
- `OneEpochCorrect`: `Spec => EchoSeesOneEpoch`.

The first two need the inductive invariant `RInv`, `IInv` and `Service`, because three
spawns, three ready messages, two flags and three workers can each fail in the middle of
a start or a stop:

- `Handles`: which steps of a command have the handles of a run that is not quiet;
  without it a stop could join nothing. A spawn that fails after the first is covered:
  the forgotten workers are inputs without a processing worker, and the
  property that a stop leaves silence starts where the processing worker was spawned;
- `Fresh` and `Goals`: a run starts in silence, and where a command may be with its goal;
- `Failures` and `Stops`: a failure that was recorded is shown or about to be, and a stop
  request without one is the work of a stop;
- `Announced`, `Serves` and `Served`: a worker that said ready is in its loop until it is
  told to end or records why not, and a processing worker in its loop has both inputs or
  a failure under way.

The third needs `EInv`. `Epochs` is about the whole stream of an input at once: the
candidate or the frame in the hands of the worker, the frames that wait, and the
frame the accumulator is about to complete. Each carries the epoch of the one before
or says that it does not (`Linked`, `Follows`), unless the input has lost a mark; so an
overflow, a mark put on the newest frame, and a drop of a candidate keep the chain whole.
`Accepted` says where in its turn the worker has acted on the marks it holds, and
`Silent` that a new canceller has heard nothing.

`OutputProofs` proves for every frame and buffer size, any number of sessions and
frames and every failing call, from `OutputAssumption`:

- `ContractKept`: `Spec => ImplementsContract`, the refinement of `OutputContract`;
- `GaplessCorrect`: `Spec => GaplessOutput`;
- `SilentStreamCorrect`: `Spec => []SilentStreamHasSpace`.

The invariant `OInv` relates the three parts of a session: what is buffered belongs
to the open session and is in order (`OwnUnits`, `Ordered`), what was heard comes
before it (`HeardBefore`), the sequence is at most one frame behind what the device
was given, and only after a failed write (`GivenNext`), and a stream that is not
started holds whole frames below its target (`Waiting`, `Fits`).

`TrayProofs` proves for any roles, devices, inventories, overrides and stored
contents, and any number of commands, device changes and exits, from
`TrayAssumption`:

- `TypeCorrect`;
- `EnvironmentCorrect`: `Spec => []EnvironmentIsTemporary`, for any number of failing
  calls. Its invariant `Temporary` adds that with an override the source stays
  `Environment` and no thread is ever inside a save;
- `SavedCorrect`: `MaxFaults <= 1 => (Spec => []SavedIsFound)`. Its invariant `SInv` says
  where the old and the new configuration are at each step of a save (`Under`),
  that a leftover backup means the one failure has been spent (`Settled`), and that
  operations that do not overlap leave one thread working at a time (`Alone`).
  With two failing calls the theorem is false: both renames may fail;
- `QuietCorrect`: `Spec => []QuietIsConsistent`, and `DefaultCorrect`:
  `Spec => []DefaultIsFollowed`, for any number of failing calls. Their invariant `QInv`
  says of the one thread that works what holds at each step (`Phase`). `Finding`: a refresh
  that found what the tray knows will change nothing the engine runs with, because a
  role that follows the default already has it and nothing is pending once an
  engine runs, so each of the two properties is needed for the other. `Choosing`: between
  the two writes of a command one role is apart. `Building`: the candidate is what the
  tray shows as far as it has been read, the engine does not run meanwhile, and what
  has been saved is the candidate. `TrayAssumption` says that some role is needed in
  both modes (`into_configuration` always asks for the microphone and the cable); without
  it a configuration could be applied before any inventory is known, and the next
  refresh would change its defaults without applying them.

`LabProofs` proves for every script and every bound, from the assumptions of
`CaptureRun`, `StabilityReport`, `EvidenceRun` and `LabCommands`,

- `TypeCorrect`: `Spec => []TypeOK`;
- `ManifestCorrect`: `Spec => []ManifestIsFaithful`;
- `PhaseCorrect`: `Spec => []ReferenceInPhase`;
- `ConcludedCorrect`: `Spec => []ReportedIffConcluded`;
- `AcceptedCorrect`: `Spec => []AcceptedIsEarned`;
- `WindowsCorrect`: `Spec => []WindowsAreContinuous`;
- `SymmetryCorrect`: `Spec => []DriftIsSymmetric`.

The recording and the evidence share no variable, so there are two invariants. `CInv` is
of the recording. The messages of two threads mix in one channel, and the manifest is
made of what has come out of it; `Accounted` says for each track that the
coordinator, should it receive everything that waits, will have seen all that the
thread has sent so far and how far it has got (`Flow`, `Reach`). A send moves the far
end of the flow and a receive the near end, whatever is sent in between. The command
concludes when both tracks are over or the channel is empty and closed, so nothing is
missing then (`Concluding`). `Recorded` adds that a writer holds the first part
of what was sent, sample by sample, which needs the concatenation of the packets
(`FlattenAppend`), and `Chained` that packets without a gap follow each other in time.
`PhaseCorrect` is for every sample rate and every frequency of the counter. A manifest
without timestamp errors has the true tick of each first packet (`Stamped`); the
difference of two ticks is off by less than a tick (`QpcDelta`), and its rounding to
samples by at most half a sample (`Nearest`), so every sample lies within half a sample
and a tick of its time. Both hypotheses, no gap and no timestamp error counted, are
needed: without either the run `lab` refutes the property.

`EInv` is of the evidence. `Told`: each line is of this run, in its place and in order of
time, and a terminal one is there exactly when the command came to a verdict. `Counted`:
whatever happened since the started event shows in a counter that only grows, and the
final line has the counters of the end. `Rising`: as long as the engine has not failed, a
queue that is n frames deep was told n - 1 deep in the line before, so four intervals of
growth are in the file in a row. A report that accepts has seen the last line, so none
of this can have happened unseen.

`WindowsCorrect` has two parts. `CutsTold` says that a cut of a stream after a line shows in
what comes next, the following line or the engine as it is (`Severed`): a counter
differs or the render position has not moved on, whatever happens before the line is
written. The other part is about `CleanSegments` and `ClockWindows` alone: every
segment is a stretch of neighbouring lines without a boundary (`SegmentsArePieces`), and
every window goes from one line of its segment to a later one (`WindowsAreSpans`), so
any moment inside it falls between two neighbours without a boundary (`PairAcross`).

`SymmetryCorrect` needs the median. `Ranked` defines the value at a place of the sorted
values by counting: fewer are below it and enough are not above it. There is always
one (`RankedExists`) and only one (`RankedOnce`), and of the negated values it is the one
at the mirrored place (`RankedMirrors`), so medians change their sign and uncertainties
do not. `EvidenceAssumption` counts the ppm of a window in units of which the midpoint of
two is whole, as the code's floating point has it. No set of measures is persistently
faster and slower (`DirectionMirrors`), so the order in which the two are asked for does
not matter. `Reported` says that a report is of the file and of the measures it tells.

**Induction over data.** The library's induction theorems cannot be instantiated by the
installed provers, but strict inclusion of finite sets is proved to be well founded
there, so a nonempty set of naturals has a least element (`LeastNat`). With it a
recursive function is shown to exist (`JoinsExists`), to be determined by its
definition (`JoinsAgree`) and to satisfy it (`FlattenAppend`); so are the functions that
split the file (`SplitsExist`) and walk a segment (`ForwardExists`).

Every safety invariant that a passing run checks is a theorem, under the hypothesis given
with it (one caller, joins that succeed, at most one failing call). Only model-checked,
because out of the prover's reach: liveness (`CommandsReturn`, `FailureTearsDown`,
`MicFrameCompletes`, `WritesReturn`, `CaptureReturns`) and `ENABLED`.

## 7. Not modelled

- The echo canceller adapter (`aec.rs`): one pure call per frame into the vendored
  processor; it appears as the outcomes of that call.
- The WASAPI inputs of the engine (`windows.rs`) and the device listing of the lab:
  COM calls without a protocol of their own; they appear as the outcomes of open,
  read and stop.
- Engine types and conversions (`lib.rs`), menu and status texts.
- Framing and pair resolution (section 2, items 8 and 9).
- Of the lab: the metrics of a capture and of an offline run, argument and path
  checks, and what is printed. In `StabilityReport` the two queues are one, with
  one depth and one counter of what they lost, and
  identities, the output pair and the optional diagnostics, which one command
  never changes within a file, are left out; the regressions of a clock window, each of
  which is taken to succeed, and the trend of the synchronization delta are
  parameters; the elapsed time of files
  of an older schema is taken as the same time. A command is killed only at its writes, and a process ends only
  after its coordinator has returned.
