----------------------------- MODULE EvidenceRun -----------------------------
(***************************************************************************)
(* The bypass and realtime-aec commands of mini-aec-lab (bypass.rs): they  *)
(* start an engine, write its snapshot to the evidence file once per       *)
(* interval until the deadline, stop it and write a terminal event.  The   *)
(* stability-report command (StabilityReport) may read the file any time.  *)
(*                                                                         *)
(* The engine is seen through its snapshot: what may happen to it in an    *)
(* interval is a choice.  Time is counted in snapshot intervals.           *)
(***************************************************************************)
EXTENDS StabilityReport

CONSTANTS
  Plans,            \* requested durations, and the schema the command's version writes
  Profiles,         \* measures that the clock windows of a file may yield, in turn
  Trends,           \* trends of the synchronization delta
  Operators,        \* operator observations
  EngineErrors,     \* kinds of last_error with which the engine may fail
  MaxLate,          \* bound on the delay of a wake-up
  MaxDisturbances   \* bound on what goes wrong in a run

ASSUME EvidenceAssumption ==
  /\ Plans \subseteq [schema : 2..CurrentSchema, requested : Nat \ {0}]
  /\ "none" \notin EngineErrors   \* it stands for an engine without one
  /\ MaxLate \in Nat /\ MaxDisturbances \in Nat
  /\ Profiles \subseteq Seq(Measures) \ {<<>>}
  /\ \A profile \in Profiles : \A i \in DOMAIN profile :
       profile[i].ppm % 2 = 0     \* counted so that the midpoint of two is whole
  /\ Trends \subseteq Seq(Int)

VARIABLES
  run,      \* the command: pc, mode, schema, requested, time, deadline, outcome
  engine,   \* what a snapshot of the engine shows
  file,     \* engine.jsonl
  report,   \* stability-report.json, or why there is none
  history   \* what happened to the engine after the started event

evidenceVars == <<run, engine, file, report, history>>

NoReport == [status |-> "none"]
NoCounts == [kind \in CounterKinds |-> 0]
EvidenceAt(pc) == run.pc = pc
GoRun(pc) == run' = [run EXCEPT !.pc = pc]

\* disturbances bounds the model; troubles, cuts (times at which the streams were
\* cut), deepest (the deepest queue at a wake-up) and failed are history.
EvidenceInit ==
  /\ run = [pc |-> "idle", mode |-> "none", schema |-> CurrentSchema, requested |-> 0,
            time |-> 0, outcome |-> "none"]
  /\ engine = [state |-> "stopped", error |-> "none", microphone |-> 0, render |-> 0,
               frames |-> 0, depth |-> 0, slow |-> FALSE, count |-> NoCounts]
  /\ file = <<>>
  /\ report = NoReport
  /\ history = [disturbances |-> 0, troubles |-> {}, cuts |-> {}, deepest |-> 0, failed |-> FALSE]

-----------------------------------------------------------------------------
(* The engine.                                                             *)

Alive == engine.state = "running"
MayDisturb == history.disturbances < MaxDisturbances

\* What may happen to a running engine in an interval: a counter goes up, the render
\* device goes silent, a queue starts to grow or is drained.
Calm == {"nothing", "drained"}
Disturbances == CounterKinds \union {"silence", "slow"}

After(kind) ==
  LET slow == (engine.slow /\ kind # "drained") \/ kind = "slow"
  IN [engine EXCEPT
        !.microphone = @ + 1,
        !.render = IF kind = "silence" THEN @ ELSE @ + 1,
        !.frames = @ + 1,
        !.slow = slow, !.depth = IF slow THEN @ + 1 ELSE 0,
        !.count = [k \in CounterKinds |-> @[k] + (IF k = kind THEN 1 ELSE 0)]]

Noted(kind, time, depth) ==
  [history EXCEPT
     !.disturbances = IF kind \in Calm THEN @ ELSE @ + 1,
     !.troubles = @ \union ({kind} \ Calm),
     !.cuts = IF kind \in {"input", "reset", "silence"} THEN @ \union {time} ELSE @,
     !.deepest = Largest({@, depth})]

\* kinds is what the interval may bring; an engine that failed does nothing more.
Possible(kinds) ==
  IF ~Alive THEN {"nothing"}
  ELSE {"nothing"} \union (IF engine.slow THEN {"drained"} ELSE {})
                   \union (IF MayDisturb THEN kinds ELSE {})

\* record_failure in a worker, at any moment of the run.
EngineFails ==
  /\ run.pc \notin {"idle", "done"} /\ Alive
  /\ \E error \in EngineErrors :
       engine' = [engine EXCEPT !.state = "failed", !.error = error, !.depth = 0, !.slow = FALSE]
  /\ history' = [history EXCEPT !.failed = TRUE]
  /\ UNCHANGED <<run, file, report>>

-----------------------------------------------------------------------------
(* The command.                                                            *)

\* validation_event: a line with a snapshot of its own.
Line(event, time) ==
  [whole |-> TRUE, schema |-> run.schema, event |-> event, time |-> time,
   requested |-> IF run.schema = CurrentSchema THEN run.requested ELSE 0,
   state |-> engine.state, error |-> engine.error,
   microphone |-> engine.microphone, render |-> engine.render, frames |-> engine.frames,
   depth |-> engine.depth, count |-> engine.count,
   described |-> run.mode = "realtime-aec"]

Write(event, time) == file' = Append(file, Line(event, time))

Over(outcome) == run' = [run EXCEPT !.pc = "done", !.outcome = outcome]

\* engine.start, which may take an interval of the run's time, with its first audio
\* and a missed deadline.
StartEvidence(mode) ==
  /\ EvidenceAt("idle")
  /\ \/ \E plan \in Plans, took \in 0..1 :
          /\ run' = [pc |-> "started", mode |-> mode, schema |-> plan.schema,
                     requested |-> plan.requested, time |-> took, outcome |-> "none"]
          /\ engine' = [engine EXCEPT !.state = "running", !.microphone = took,
                          !.frames = took, !.count["miss"] = took]
     \/ /\ run' = [run EXCEPT !.pc = "done", !.mode = mode, !.outcome = "not started"]
        /\ UNCHANGED engine
  /\ UNCHANGED <<file, report, history>>

\* The while condition.
Continue == IF run.time < run.requested THEN "sleep" ELSE "stop"

WriteStarted ==
  /\ EvidenceAt("started")
  /\ Write("started", 0)
  /\ GoRun(Continue)
  /\ UNCHANGED <<engine, report, history>>

\* The sleep is short of an interval only before the deadline, and may end late.
WakeUp ==
  /\ EvidenceAt("sleep")
  /\ \E late \in 0..MaxLate, kind \in Possible(Disturbances \union {"late"}) :
       LET time == run.time + 1 + late
       IN /\ kind = "late" <=> late > 0
          /\ run' = [run EXCEPT !.pc = "check", !.time = time]
          /\ engine' = IF Alive THEN After(kind) ELSE engine
          /\ history' = Noted(kind, time, engine'.depth)
  /\ UNCHANGED <<file, report>>

\* The first of the iteration's two snapshots.
CheckEngine ==
  /\ EvidenceAt("check")
  /\ GoRun(IF engine.state = "failed" THEN "failed" ELSE "periodic")
  /\ UNCHANGED <<engine, file, report, history>>

\* The second one, in write_event.
WritePeriodic ==
  /\ EvidenceAt("periodic")
  /\ Write("periodic", run.time)
  /\ GoRun(Continue)
  /\ UNCHANGED <<engine, report, history>>

\* The result of the stop that follows is not looked at.
WriteFailed ==
  /\ EvidenceAt("failed")
  /\ Write("failed", run.time)
  /\ Over("failed")
  /\ UNCHANGED <<engine, report, history>>

Halted(e, state) == [e EXCEPT !.state = state, !.depth = 0, !.slow = FALSE]

\* engine.stop, which may take an interval; a worker that does not end in time is an
\* error, and no terminal event is written.
StopRun ==
  /\ EvidenceAt("stop")
  /\ \/ /\ GoRun("final")
        /\ engine' = Halted(engine, "stopped")
        /\ UNCHANGED history
     \/ \E kind \in Possible(CounterKinds) :
          /\ run' = [run EXCEPT !.pc = "final", !.time = @ + 1]
          /\ engine' = Halted(IF Alive THEN After(kind) ELSE engine, "stopped")
          /\ history' = Noted(kind, run.time + 1, 0)
     \/ /\ Over("not stopped")
        /\ UNCHANGED <<engine, history>>
  /\ UNCHANGED <<file, report>>

WriteFinal ==
  /\ EvidenceAt("final")
  /\ Write("final", run.time)
  /\ Over("completed")
  /\ UNCHANGED <<engine, report, history>>

\* The command is killed, or a line cannot be written: the file ends with a part of
\* the line, or before it, as when the command is killed between two writes.
CutShort ==
  /\ run.pc \in {"started", "periodic", "failed", "final"}
  /\ Over("cut short")
  /\ \/ UNCHANGED file
     \/ file' = Append(file, [Line("torn", run.time) EXCEPT !.whole = FALSE])
  /\ UNCHANGED <<engine, report, history>>

RunNext ==
  \/ WriteStarted \/ WakeUp \/ CheckEngine \/ WritePeriodic \/ WriteFailed
  \/ StopRun \/ WriteFinal \/ CutShort \/ EngineFails

Measured(windows, profile) == [i \in DOMAIN windows |-> profile[((i - 1) % Len(profile)) + 1]]

\* create_report: of a file that does not parse there is none.  What the windows
\* measure matters only when the data suffice.
MakeReport ==
  /\ report = NoReport
  /\ Parses(file)
  /\ \E operator \in Operators \union {NoOperator} :
       IF GateReady(file)
       THEN \E profile \in Profiles, trend \in Trends :
              report' = Report(file, Measured(ClockWindows(file), profile), trend, operator)
       ELSE report' = Report(file, <<>>, <<>>, operator)
  /\ UNCHANGED <<run, engine, file, history>>

-----------------------------------------------------------------------------

EvidenceTypeOK ==
  /\ run.pc \in {"idle", "started", "sleep", "check", "periodic", "failed", "stop", "final", "done"}
  /\ run.mode \in {"none", "bypass", "realtime-aec"}
  /\ run.outcome \in {"none", "not started", "failed", "not stopped", "completed", "cut short"}
  /\ run.time \in 0..(run.requested + 2 + MaxLate)
  /\ engine.state \in {"stopped", "running", "failed"}
  /\ engine.error \in EngineErrors \union {"none"}
  /\ engine.count \in [CounterKinds -> 0..(MaxDisturbances + 1)]
  /\ report.status \in {"none", "written"}
  /\ report.status = "written" =>
       /\ report.drift \in {"inconclusive", "compensation required", "sufficient"}
       /\ report.functional \in {"failed", "inconclusive", "passed"}

\* The report accepts a file exactly when the run of which it tells got as far as a
\* verdict: never one that still goes on, was killed in a line, or whose engine
\* could not be stopped; and always one that completed or failed (run_engine,
\* parse_evidence).
ReportedIffConcluded ==
  Parses(file) <=> run.outcome \in {"completed", "failed"} /\ run.mode = "realtime-aec"

\* No clock window spans a moment at which one of the streams was cut, or at which
\* nothing was observed for long: a rate is measured over one piece of each clock
\* (clean_segments, clock_windows).
WindowsAreContinuous ==
  report.status = "written" =>
    \A i \in DOMAIN report.windows :
      LET window   == report.windows[i]
          observed == {file[j].time : j \in DOMAIN file} \intersect (window.start..window.end)
      IN /\ \A cut \in history.cuts : ~(window.start < cut /\ cut <= window.end)
         /\ \A t \in window.start..(window.end - MaxEventGap) :
              \E u \in observed : t < u /\ u <= t + MaxEventGap

\* Acceptance is earned: the run was of the current schema and of full length, its
\* engine never failed, not even after it was last looked at, nothing that no
\* explanation excuses happened after the started event, the operator explained the
\* rest, and no queue grew for four intervals (classify_functional, analyze).
AcceptedIsEarned ==
  report.status = "written" /\ report.accepted =>
    /\ run.schema = CurrentSchema /\ run.outcome = "completed"
    /\ run.requested >= MinGateDuration /\ run.time >= run.requested
    /\ ~history.failed
    /\ history.troubles \intersect Intolerable = {}
    /\ history.troubles \intersect Explainable \subseteq report.operator.explained
    /\ report.operator.confirmed
    /\ history.deepest < 4

\* The same evidence with the two devices' clocks exchanged.
Mirrored(measure) ==
  [measure EXCEPT !.ppm = -@, !.silent = measure.stale, !.stale = measure.silent]

\* The verdict on drift does not depend on which of the two clocks is the faster one
\* (summarize_clock_analysis, classify_drift).
DriftIsSymmetric ==
  report.status = "written" =>
    report.drift = ClassifyDrift(file, report.ready,
                     [i \in DOMAIN report.measures |-> Mirrored(report.measures[i])],
                     [i \in DOMAIN report.trend |-> -report.trend[i]])
=============================================================================
