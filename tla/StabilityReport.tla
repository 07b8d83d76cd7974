--------------------------- MODULE StabilityReport ---------------------------
(***************************************************************************)
(* The stability-report command of mini-aec-lab (stability.rs): what it    *)
(* makes of an evidence file, as operators on the sequence of its lines.   *)
(*                                                                         *)
(* A line is a record: whole (a JSON object that parses), schema, event,   *)
(* time (elapsed), requested, and of the snapshot: state, error, microphone*)
(* and render (the last positions, 0 when there is none), described (both  *)
(* source descriptors), frames, depth (of one queue), and count, the       *)
(* counters of CounterKinds.  "overflow" stands for the overflows and the  *)
(* discarded frames of the two queues; "input" for the discontinuity and   *)
(* the timestamp-error counters; "reset" for alignment_resets, aec_resets, *)
(* aec_rebuilds, the epoch and the AEC instance, which change together;    *)
(* "invalid" for invalid outputs of the AEC; "miss" for missed deadlines;  *)
(* "refused" for the counters of the output that are never tolerated.      *)
(* Times are in snapshot intervals.  Left out: identities and the output   *)
(* pair, which one command never changes within a file, and the layout of  *)
(* the report.  The regressions of a clock window are a parameter, its     *)
(* measure.                                                                *)
(***************************************************************************)
EXTENDS Integers, Sequences, FiniteSets, SequencesExt

CONSTANTS
  MaxEventGap,            \* MAX_EVENT_GAP_MS
  Window,                 \* WINDOW_MS
  MinWindowDuration,      \* MIN_WINDOW_DURATION_MS
  MinWindowObservations,  \* MIN_WINDOW_OBSERVATIONS
  MinGateDuration,        \* MIN_GATE_DURATION_MS
  MinLongestSegment,      \* MIN_LONGEST_SEGMENT_MS
  CoveragePercent,        \* MIN_COVERAGE, in percent
  MinNumericalPpm,        \* MIN_NUMERICAL_PPM
  AlignmentTolerance,     \* ALIGNMENT_TOLERANCE_MS, in ppm times intervals
  TrendNoise,             \* the 0.01 ms per minute up to which a trend has no sign
  TrendTolerance          \* the 1 ms over the run at which a trend can conflict

ASSUME ReportAssumption ==
  {MaxEventGap, Window, MinWindowDuration, MinWindowObservations, MinGateDuration,
   MinLongestSegment, CoveragePercent, MinNumericalPpm, AlignmentTolerance, TrendNoise,
   TrendTolerance}
    \subseteq Nat \ {0}

CurrentSchema == 3
Explainable == {"overflow", "input", "reset", "underrun"}
Intolerable == {"invalid", "miss", "refused"}
CounterKinds == Explainable \union Intolerable
NoOperator == [given |-> FALSE]

Magnitude(x) == IF x < 0 THEN -x ELSE x
Largest(S) == CHOOSE x \in S : \A y \in S : y <= x
Total(s) == FoldLeft(LAMBDA a, b : a + b, 0, s)

-----------------------------------------------------------------------------
(* parse_evidence.                                                         *)

Terminal(line) == line.event \in {"final", "failed"}

\* Every line is a validation event of a known schema.
Readable(file) == \A i \in DOMAIN file : file[i].whole /\ file[i].schema \in 1..CurrentSchema

\* Mutant of Framed: the end of the file is not looked at.
FramedOpen(file) == Len(file) >= 2 /\ file[1].event = "started"

\* A started event first, a terminal event last and nowhere else.
Framed(file) ==
  /\ Len(file) >= 2
  /\ file[1].event = "started"
  /\ \A i \in DOMAIN file : Terminal(file[i]) <=> i = Len(file)

Authoritative(file) == file[1].schema = CurrentSchema

\* The lines tell of one run: of one schema, in time order, with the descriptors it
\* needs and, in the current schema, with one requested duration.
OneRun(file) ==
  /\ \A i \in DOMAIN file : file[i].schema = file[1].schema
  /\ \A i \in 2..Len(file) : file[i - 1].time <= file[i].time
  /\ \A i \in DOMAIN file : file[i].described
  /\ Authoritative(file) =>
       /\ file[1].requested # 0
       /\ \A i \in DOMAIN file : file[i].requested = file[1].requested

Parses(file) == Readable(file) /\ Framed(file) /\ OneRun(file)

Requested(file) == IF Authoritative(file) THEN file[1].requested ELSE 0
Observed(file) == Last(file).time

-----------------------------------------------------------------------------
(* clean_segments and clock_windows.                                       *)

\* observation: all four positions are known.
Observable(line) == line.microphone > 0 /\ line.render > 0

\* Mutant of Boundary: a render stream that stands still is not looked for.
BoundaryByMicrophone(previous, current) ==
  \/ current.time - previous.time > MaxEventGap
  \/ current.count["reset"] # previous.count["reset"]
  \/ current.count["input"] # previous.count["input"]
  \/ current.microphone <= previous.microphone

\* segment_boundary_reason.
Boundary(previous, current) ==
  \/ current.time - previous.time > MaxEventGap
  \/ current.count["reset"] # previous.count["reset"]
  \/ current.count["input"] # previous.count["input"]
  \/ current.microphone <= previous.microphone
  \/ current.render <= previous.render

\* finish_segment: a segment has at least two observations.
Closed(split) ==
  [segments |-> IF Len(split.current) >= 2 THEN Append(split.segments, split.current)
                ELSE split.segments,
   current  |-> <<>>]

Observe(split, line) ==
  IF ~Observable(line) THEN Closed(split)
  ELSE LET cut == split.current # <<>> /\ Boundary(Last(split.current), line)
           s   == IF cut THEN Closed(split) ELSE split
       IN [s EXCEPT !.current = Append(@, line)]

\* What has been split off when the lines up to i have been read.
CleanSegments(file) ==
  LET scored == {i \in DOMAIN file : file[i].event \in {"periodic", "final"}}
      split[i \in 0..Len(file)] ==
        IF i = 0 THEN [segments |-> <<>>, current |-> <<>>]
        ELSE IF i \in scored THEN Observe(split[i - 1], file[i]) ELSE split[i - 1]
  IN Closed(split[Len(file)]).segments

\* The windows of one segment: each goes from an observation to the first that is at
\* least Window later, where the next one starts; those with too few are skipped.
SegmentWindows(segment) ==
  LET End(i)  == {j \in DOMAIN segment : segment[j].time >= segment[i].time + Window}
      first(i) == CHOOSE j \in End(i) : \A k \in End(i) : j <= k
      Eligible(i, j) == /\ segment[j].time - segment[i].time >= MinWindowDuration
                        /\ j - i + 1 >= MinWindowObservations
      from[i \in DOMAIN segment] ==
        IF End(i) = {} THEN <<>>
        ELSE (IF Eligible(i, first(i))
              THEN <<[start |-> segment[i].time, end |-> segment[first(i)].time]>> ELSE <<>>)
             \o from[first(i)]
  IN from[1]

ClockWindows(file) ==
  LET segments == CleanSegments(file)
  IN FlattenSeq([i \in DOMAIN segments |-> SegmentWindows(segments[i])])

-----------------------------------------------------------------------------
(* data_quality.                                                           *)

Duration(segment) == Last(segment).time - segment[1].time

\* periodic_event_coverage; with nothing expected it is zero.
Covered(file) ==
  LET Periodic(line) == line.event = "periodic"
  IN /\ Requested(file) > 0
     /\ 100 * Len(SelectSeq(file, Periodic)) >= CoveragePercent * Requested(file)

GateReady(file) ==
  LET segments  == CleanSegments(file)
      durations == [i \in DOMAIN segments |-> Duration(segments[i])]
  IN /\ Authoritative(file)
     /\ Requested(file) >= MinGateDuration
     /\ Observed(file) >= Requested(file)
     /\ Covered(file)
     /\ Total(durations) >= (Requested(file) * 5) \div 6
     /\ \E i \in DOMAIN durations : durations[i] >= MinLongestSegment

-----------------------------------------------------------------------------
(* summarize_clock_analysis and classify_drift.  A measure of a window is  *)
(* its relative ppm (positive: render faster), its uncertainty and whether *)
(* silent references or stale frames increased; trend is that of the       *)
(* synchronization delta, <<>> when it is not known.                       *)

\* The value at place k of the sorted values.
Ranked(values, k) ==
  LET Below(x) == {i \in DOMAIN values : values[i] < x}
      UpTo(x)  == {i \in DOMAIN values : values[i] <= x}
  IN CHOOSE x \in {values[i] : i \in DOMAIN values} :
       Cardinality(Below(x)) < k /\ k <= Cardinality(UpTo(x))

\* median of a nonempty sequence.
Median(values) ==
  LET middle == Len(values) \div 2
  IN IF Len(values) % 2 = 0 THEN (Ranked(values, middle) + Ranked(values, middle + 1)) \div 2
     ELSE Ranked(values, middle + 1)

\* What a window measures.
Measures == [ppm : Int, uncertainty : Nat, silent : BOOLEAN, stale : BOOLEAN]

MedianPpm(measures) == Median([i \in DOMAIN measures |-> measures[i].ppm])

\* The larger of the median uncertainty, the median absolute deviation and the floor.
DecisionUncertainty(measures) ==
  LET centre == MedianPpm(measures)
  IN Largest({MinNumericalPpm,
              Median([i \in DOMAIN measures |-> measures[i].uncertainty]),
              Median([i \in DOMAIN measures |-> Magnitude(measures[i].ppm - centre)])})

ConservativePpm(measures) ==
  Largest({0, Magnitude(MedianPpm(measures)) - DecisionUncertainty(measures)})

\* persistent_direction: at least three windows, four fifths of them beyond their
\* own uncertainty on one side.
Direction(measures) ==
  LET Beyond(m)    == Largest({m.uncertainty, MinNumericalPpm})
      Faster       == {i \in DOMAIN measures : measures[i].ppm > Beyond(measures[i])}
      Slower       == {i \in DOMAIN measures : measures[i].ppm < -Beyond(measures[i])}
      Persistent(S) == Len(measures) >= 3 /\ 5 * Cardinality(S) >= 4 * Len(measures)
  IN IF Persistent(Faster) THEN "faster" ELSE IF Persistent(Slower) THEN "slower" ELSE "none"

\* Mutant of Recurring: one consequence for both directions.
RecurringSilence(measures) ==
  /\ Direction(measures) # "none"
  /\ Cardinality({i \in DOMAIN measures : measures[i].silent}) >= 3

\* The same consequence in three windows: silence when the render device is faster,
\* stale frames when it is slower.
Recurring(measures) ==
  LET Windows(consequence) == {i \in DOMAIN measures : measures[i][consequence]}
  IN CASE Direction(measures) = "faster" -> Cardinality(Windows("silent")) >= 3
       [] Direction(measures) = "slower" -> Cardinality(Windows("stale")) >= 3
       [] OTHER -> FALSE

\* The delta falls when the render device is faster: a trend against that.
Conflicts(measures, trend, requested) ==
  /\ trend # <<>>
  /\ \/ Direction(measures) = "faster" /\ trend[1] > TrendNoise
     \/ Direction(measures) = "slower" /\ trend[1] < -TrendNoise
  /\ Magnitude(trend[1]) * requested >= TrendTolerance

\* ready is GateReady(file).
ClassifyDrift(file, ready, measures, trend) ==
  LET persistent  == Direction(measures) # "none"
      syncFailure == Last(file).error = "sync"
      material    == Magnitude(MedianPpm(measures)) > DecisionUncertainty(measures)
      consequence == Recurring(measures) \/ syncFailure
      crosses     == ConservativePpm(measures) * Requested(file) >= AlignmentTolerance
  IN IF ~ready \/ Len(measures) < 3 THEN "inconclusive"
     ELSE IF (material \/ consequence) /\ ~persistent THEN "inconclusive"
     ELSE IF Conflicts(measures, trend, Requested(file)) THEN "inconclusive"
     ELSE IF persistent /\ (crosses \/ consequence) THEN "compensation required"
     ELSE "sufficient"

-----------------------------------------------------------------------------
(* classify_functional.                                                    *)

\* A counter from the started event to the last one.
Increase(file, kind) == Last(file).count[kind] - file[1].count[kind]

\* has_growing_queue: three rises in a row among the periodic events.
GrowingQueue(file) ==
  LET Periodic    == {i \in DOMAIN file : file[i].event = "periodic"}
      Rises(i, j) == /\ i < j /\ Periodic \intersect (i + 1)..(j - 1) = {}
                     /\ file[i].depth < file[j].depth
  IN \E i \in Periodic : \E j \in Periodic :
       Rises(i, j) /\ \E k \in Periodic : Rises(j, k) /\ \E l \in Periodic : Rises(k, l)

\* Mutant of EndedBadly: only the kind of the terminal event tells of a failure.
EndedBadlyByEvent(file) ==
  \/ Last(file).event = "failed"
  \/ Authoritative(file) /\ Observed(file) < Requested(file)
  \/ Last(file).event = "final" /\ Last(file).state # "stopped"

\* The engine failed, or the run was cut short or not stopped.
EndedBadly(file) ==
  \/ Last(file).event = "failed" \/ Last(file).error # "none"
  \/ Authoritative(file) /\ Observed(file) < Requested(file)
  \/ Last(file).event = "final" /\ Last(file).state # "stopped"

\* push_counter_failure: a counter went up and the operator does not explain it.
Unexplained(file, operator) ==
  \E kind \in Explainable :
    Increase(file, kind) > 0 /\ ~(operator.given /\ kind \in operator.explained)

\* What no explanation excuses.
Inexcusable(file) ==
  \/ \E kind \in Intolerable : Increase(file, kind) > 0
  \/ Last(file).frames = file[1].frames
  \/ Last(file).depth # 0
  \/ GrowingQueue(file)

Objects(operator) ==
  /\ operator.given
  /\ \/ ~operator.confirmed
     \/ operator.explained # {} /\ ~operator.notes

ClassifyFunctional(file, operator) ==
  IF EndedBadly(file) \/ Unexplained(file, operator) \/ Inexcusable(file) \/ Objects(operator)
  THEN "failed"
  ELSE IF ~operator.given THEN "inconclusive" ELSE "passed"

-----------------------------------------------------------------------------
(* create_report and analyze.                                              *)

FollowUp(drift, functional) ==
  CASE drift = "compensation required" -> "propose compensation"
    [] drift = "inconclusive" -> "repeat"
    [] OTHER -> CASE functional = "passed" -> "monitor"
                  [] functional = "failed" -> "resolve failure"
                  [] OTHER -> "complete observations"

\* measures and trend are those of the clock windows; they, the windows, whether the
\* data suffice and the operator's words are told with the verdicts.
Report(file, measures, trend, operator) ==
  LET ready      == GateReady(file)
      drift      == ClassifyDrift(file, ready, measures, trend)
      functional == ClassifyFunctional(file, operator)
  IN [status |-> "written", drift |-> drift, functional |-> functional,
      accepted |-> /\ Requested(file) >= MinGateDuration
                   /\ drift = "sufficient" /\ functional = "passed",
      follow_up |-> FollowUp(drift, functional),
      operator |-> operator, windows |-> ClockWindows(file), ready |-> ready,
      measures |-> measures, trend |-> trend]
=============================================================================
