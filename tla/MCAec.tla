------------------------------- MODULE MCAec -------------------------------
(* Instances of AecEngine for TLC.  A frame lasts two ticks. *)
EXTENDS AecEngine

StreamFaults == {"echo", "deadline"}
WorkerFaults == {"render", "sink", "spawn"}

\* Render starts one and a half frames after the microphone.
StartApart == [i \in Inputs |-> IF i = "mic" THEN {2} ELSE {5}]
\* Render starts earlier than the microphone: its first frame is stale.
RenderFirst == [i \in Inputs |-> IF i = "mic" THEN {5} ELSE {2}]
\* The times are always the expected ones.
Regular == [i \in Inputs |-> {0}]
\* A packet of the render may come with a time of a frame and a half before.
Regress == [i \in Inputs |-> IF i = "mic" THEN {0} ELSE {0, -3}]

OneEach == [i \in Inputs |-> 1]
\* The microphone outlasts the render.
MicLonger == [i \in Inputs |-> IF i = "mic" THEN 3 ELSE 2]
=============================================================================
