----------------------------- MODULE LabCommands -----------------------------
(***************************************************************************)
(* The commands of mini-aec-lab as its user runs them (main.rs): each is a *)
(* process of its own, and they meet only in the files one writes and      *)
(* another reads.  A script is the set of the commands that are run, each  *)
(* once, in any order and at once.                                         *)
(***************************************************************************)
EXTENDS CaptureRun, EvidenceRun

CONSTANT Scripts
Commands == {"capture", "aec", "bypass", "realtime-aec", "stability-report"}
ASSUME ScriptAssumption == Scripts \subseteq SUBSET Commands

VARIABLE script   \* the commands not begun yet
labVars == <<captureVars, evidenceVars, script>>

Init ==
  /\ script \in Scripts
  /\ CaptureInit /\ EvidenceInit

Begin(command) ==
  /\ command \in script
  /\ script' = script \ {command}

\* The arms of main's match; list_devices only prints.
Dispatch ==
  \/ Begin("capture") /\ BeginCapture /\ UNCHANGED evidenceVars
  \/ Begin("aec") /\ Align /\ UNCHANGED evidenceVars
  \/ \E mode \in {"bypass", "realtime-aec"} :
       Begin(mode) /\ StartEvidence(mode) /\ UNCHANGED captureVars
  \/ Begin("stability-report") /\ MakeReport /\ UNCHANGED captureVars

CaptureSteps ==
  /\ CoordinatorNext \/ \E t \in Tracks : TrackNext(t)
  /\ UNCHANGED <<evidenceVars, script>>

EvidenceSteps ==
  /\ RunNext
  /\ UNCHANGED <<captureVars, script>>

Next == Dispatch \/ CaptureSteps \/ EvidenceSteps

Spec == Init /\ [][Next]_labVars

\* Of the capture command alone something must eventually happen.
FairSpec == Spec /\ CaptureFairness

\* Every variable of the commands has its type.
TypeOK == CaptureTypeOK /\ EvidenceTypeOK /\ script \subseteq Commands
=============================================================================
