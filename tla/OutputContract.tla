--------------------------- MODULE OutputContract ---------------------------
(***************************************************************************)
(* What an output promises to the engine that writes to it and to the      *)
(* program that records from the other side of the cable: sessions that do *)
(* not overlap, frames accepted in order from 0, and sound that is heard   *)
(* only inside its session, in order, and never ahead of what was offered. *)
(***************************************************************************)
EXTENDS Naturals

VARIABLES
  open,     \* a session is open
  session,  \* the number of sessions opened so far
  next,     \* the frame the open session accepts next
  heard     \* the session and frame of what was heard last

contractVars == <<open, session, next, heard>>

Init ==
  /\ open = FALSE
  /\ session = 0
  /\ next = 0
  /\ heard = [session |-> 0, frame |-> 0]

Open ==
  /\ ~open
  /\ open' = TRUE
  /\ session' = session + 1
  /\ UNCHANGED <<next, heard>>

Accept ==
  /\ open
  /\ next' = next + 1
  /\ UNCHANGED <<open, session, heard>>

\* The frame being offered may be heard before it is accepted.
Hear ==
  /\ open
  /\ heard' \in [session : {session}, frame : 0..next]
  /\ heard.session = session => heard'.frame >= heard.frame
  /\ UNCHANGED <<open, session, next>>

Close ==
  /\ open
  /\ open' = FALSE
  /\ next' = 0
  /\ UNCHANGED <<session, heard>>

Next == Open \/ Accept \/ Hear \/ Close

Spec == Init /\ [][Next]_contractVars
=============================================================================
