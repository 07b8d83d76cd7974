------------------------------- MODULE MCTray -------------------------------
(* Instances of TrayController for TLC: two microphones, one render endpoint *)
(* and one VB-CABLE pair, which is always there.                             *)
EXTENDS TrayController

CONSTANTS m1, m2, r1, c1

AllRoles == {"microphone", "render", "cable"}
BothRoles == {"microphone", "render"}

Find(mics, mic, renders, render) ==
  [list |-> [r \in AllRoles |-> CASE r = "microphone" -> mics [] r = "render" -> renders
                                   [] r = "cable" -> <<c1>>],
   default |-> [r \in BothRoles |-> IF r = "microphone" THEN mic ELSE render]]

\* The microphone that was the default goes, and with it the only render.
TwoInventories == {Find(<<m1, m2>>, m1, <<r1>>, r1), Find(<<m2>>, m2, <<>>, NoDevice)}

Saved(mode, mic, follow) ==
  [mode |-> mode, device |-> [r \in AllRoles |-> CASE r = "microphone" -> mic [] r = "render" -> r1
                                              [] r = "cable" -> c1],
   follows |-> [r \in BothRoles |-> follow]]

NoOverride == {Missing}
AnyOverride == {Missing, Saved("Aec", m1, FALSE)}
FirstBoot == {Missing}
AnyStored == {Missing, Torn, Saved("Bypass", m1, TRUE)}
=============================================================================
