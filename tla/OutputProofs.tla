---------------------------- MODULE OutputProofs ----------------------------
(***************************************************************************)
(* Theorems about OutputSession for every frame size, every set of buffer  *)
(* sizes, any number of sessions and frames, every sequence of calls of    *)
(* the client and every failing call of the device.                        *)
(***************************************************************************)
EXTENDS OutputSession, SequenceTheorems, TLAPS

-----------------------------------------------------------------------------
(* The inductive invariant.                                                *)

Unit == [session : Nat, frame : Nat]
WritePcs == {"wait", "blocked", "start", "accept"}
Results == {"none", "ok", "state", "failed", "sequence", "rejected"}

TypeOK ==
  /\ output \in [state : {"Closed", "Open"}, session : Nat, next : Nat]
  /\ stream \in [open : BOOLEAN, started : BOOLEAN, buffer : Nat]
  /\ device \in Seq(Unit)
  /\ client \in [pc : WritePcs \union {"idle"}, result : Results]
  /\ history \in [heard : Unit, given : Nat, failed : BOOLEAN]

\* Without a stream nothing is buffered, running or under way.
Released == ~stream.open => device = <<>> /\ Idle /\ ~stream.started

\* What is buffered belongs to the session, and was offered.
OwnUnits ==
  \A i \in 1..Len(device) :
    device[i].session = output.session /\ device[i].frame <= output.next

\* It is buffered in order.
Ordered == \A i, j \in 1..Len(device) : i < j => device[i].frame <= device[j].frame

\* What was heard comes before what is buffered and what is to come.
HeardBefore ==
  /\ history.heard.session <= output.session
  /\ stream.open /\ history.heard.session = output.session =>
       /\ history.heard.frame <= output.next
       /\ \A i \in 1..Len(device) : history.heard.frame <= device[i].frame

\* Where the sequence stands relative to what the device was given: only a
\* write that failed after giving its frame leaves it behind.
GivenNext ==
  stream.open =>
    IF client.pc \in {"start", "accept"}
    THEN history.given = output.next + 1
    ELSE history.given = output.next \/ (history.given = output.next + 1 /\ history.failed)

\* A stream that is not started holds whole frames, fewer than it needs to start
\* unless it is about to.
Waiting ==
  stream.open /\ ~stream.started =>
    /\ Len(device) < 2 * FrameSize => Len(device) \in {0, FrameSize}
    /\ client.pc # "start" /\ ~history.failed => Len(device) < Prefill

\* The buffer is never overfilled.
Fits == stream.open => Len(device) <= stream.buffer

OInv ==
  /\ TypeOK
  /\ Released
  /\ OwnUnits
  /\ Ordered
  /\ HeardBefore
  /\ GivenNext
  /\ Waiting
  /\ Fits

-----------------------------------------------------------------------------
(* The two ways the buffer changes.                                        *)

\* A frame offered to the device is FrameSize units of it.
LEMMA FrameUnits ==
  ASSUME NEW s \in Nat, NEW f \in Nat
  PROVE  /\ Units(s, f) \in Seq(Unit)
         /\ Len(Units(s, f)) = FrameSize
         /\ \A i \in 1..FrameSize : Units(s, f)[i] = [session |-> s, frame |-> f]
<1>1. FrameSize \in Nat
  BY OutputAssumption
<1>2. [session |-> s, frame |-> f] \in Unit
  BY DEF Unit
<1>3. Units(s, f) \in [1..FrameSize -> Unit]
  BY <1>2 DEF Units
<1>4. Units(s, f) \in Seq(Unit)
  BY <1>1, <1>3, SeqDef
<1>5. Len(Units(s, f)) = FrameSize
  <2>1. DOMAIN Units(s, f) = 1..FrameSize
    BY DEF Units
  <2>2. Len(Units(s, f)) \in Nat /\ DOMAIN Units(s, f) = 1..Len(Units(s, f))
    BY <1>4, LenProperties
  <2>3. QED
    BY <1>1, <2>1, <2>2
<1>6. QED
  BY <1>4, <1>5 DEF Units

\* What write_to_device leaves in the buffer.
LEMMA GivenUnits ==
  ASSUME TypeOK, WriteGives
  PROVE  /\ device' \in Seq(Unit)
         /\ Len(device) \in Nat
         /\ Len(device') = Len(device) + FrameSize
         /\ \A i \in 1..Len(device) : device'[i] = device[i]
         /\ \A i \in 1..Len(device') :
              i > Len(device) => device'[i] = [session |-> output.session, frame |-> output.next]
<1>1. output.session \in Nat /\ output.next \in Nat /\ device \in Seq(Unit) /\ FrameSize \in Nat
  BY OutputAssumption DEF TypeOK
<1> DEFINE units == Units(output.session, output.next)
<1>2. /\ units \in Seq(Unit) /\ Len(units) = FrameSize
      /\ \A i \in 1..FrameSize : units[i] = [session |-> output.session, frame |-> output.next]
  BY <1>1, FrameUnits
<1>3. device' = device \o units
  BY DEF WriteGives
<1> HIDE DEF units
<1>4. /\ device' \in Seq(Unit)
      /\ Len(device') = Len(device) + Len(units)
      /\ \A i \in 1..Len(device) + Len(units) :
           device'[i] = IF i <= Len(device) THEN device[i] ELSE units[i - Len(device)]
  BY <1>1, <1>2, <1>3, ConcatProperties
<1>5. Len(device) \in Nat /\ Len(device') = Len(device) + FrameSize
  BY <1>1, <1>2, <1>4, LenProperties
<1>6. ASSUME NEW i \in 1..Len(device)
      PROVE  device'[i] = device[i]
  <2>1. i \in 1..Len(device) + Len(units) /\ i <= Len(device)
    BY <1>1, <1>2, <1>5
  <2>2. QED
    BY <1>4, <2>1
<1>7. ASSUME NEW i \in 1..Len(device'), i > Len(device)
      PROVE  device'[i] = [session |-> output.session, frame |-> output.next]
  <2>1. i \in 1..Len(device) + Len(units) /\ ~(i <= Len(device)) /\ i - Len(device) \in 1..FrameSize
    BY <1>1, <1>2, <1>5, <1>7
  <2>2. device'[i] = units[i - Len(device)]
    BY <1>4, <2>1
  <2>3. QED
    BY <1>2, <2>1, <2>2
<1>8. QED
  BY <1>4, <1>5, <1>6, <1>7

\* What the device leaves in the buffer.
LEMMA RenderedUnits ==
  ASSUME TypeOK, Render
  PROVE  /\ device' \in Seq(Unit)
         /\ Len(device) \in Nat /\ Len(device) >= 1
         /\ Len(device') = Len(device) - 1
         /\ history'.heard = device[1] /\ device[1] \in Unit
         /\ \A i \in 1..Len(device') : device'[i] = device[i + 1]
<1>1. device \in Seq(Unit) /\ device # <<>> /\ device' = Tail(device)
  BY DEF TypeOK, Render
<1>2. /\ Head(device) \in Unit /\ Tail(device) \in Seq(Unit)
      /\ Len(Tail(device)) = Len(device) - 1
      /\ \A i \in 1..Len(Tail(device)) : Tail(device)[i] = device[i + 1]
  BY <1>1, HeadTailProperties
<1>3. Len(device) \in Nat /\ Len(device) # 0
  BY <1>1, LenProperties, EmptySeq
<1>4. Head(device) = device[1]
  BY <1>1
<1>5. history'.heard = Head(device)
  BY DEF Render, TypeOK
<1>6. QED
  BY <1>1, <1>2, <1>3, <1>4, <1>5

\* An empty buffer.
LEMMA EmptyDevice == <<>> \in Seq(Unit) /\ Len(<<>>) = 0
  BY EmptySeq

-----------------------------------------------------------------------------
(* The calls that leave the buffer, or all but the client, alone.          *)

Calls ==
  \/ OpenFails \/ WriteRefused \/ WriteBegins \/ WriteBlocks \/ WriteWakes \/ WriteTimesOut
  \/ WriteFailsEarly

LEMMA NextType == TypeOK /\ [Next]_vars => TypeOK'
<1> SUFFICES ASSUME TypeOK, [Next]_vars
             PROVE  TypeOK'
  OBVIOUS
<1> USE DEF TypeOK
<1>1. CASE Opens
  <2>1. output' \in [state : {"Closed", "Open"}, session : Nat, next : Nat]
    BY <1>1 DEF Opens
  <2>2. stream' \in [open : BOOLEAN, started : BOOLEAN, buffer : Nat]
    BY <1>1, OutputAssumption DEF Opens
  <2>3. client' \in [pc : WritePcs \union {"idle"}, result : Results]
    BY <1>1 DEF Opens, Returns, Results
  <2>4. history' \in [heard : Unit, given : Nat, failed : BOOLEAN]
    BY <1>1 DEF Opens
  <2>5. QED
    BY <1>1, <2>1, <2>2, <2>3, <2>4 DEF Opens
<1>2. CASE Closes
  BY <1>2, EmptyDevice DEF Closes, ReleaseStream, NoStream, Returns, Results
<1>3. CASE CloseFails
  BY <1>3, EmptyDevice DEF CloseFails, ReleaseStream, NoStream, Returns, Results
<1>4. CASE Calls
  <2>1. client' \in [pc : WritePcs \union {"idle"}, result : Results]
    BY <1>4 DEF Calls, OpenFails, WriteRefused, WriteBegins, WriteBlocks, WriteWakes,
                WriteTimesOut, WriteFailsEarly, Returns, Go, Results, WritePcs
  <2>2. UNCHANGED <<output, stream, device, history>>
    BY <1>4 DEF Calls, OpenFails, WriteRefused, WriteBegins, WriteBlocks, WriteWakes,
                WriteTimesOut, WriteFailsEarly
  <2>3. QED
    BY <2>1, <2>2
<1>5. CASE WriteGives
  <2>1. device' \in Seq(Unit)
    BY <1>5, GivenUnits
  <2>2. history' \in [heard : Unit, given : Nat, failed : BOOLEAN]
    <3>1. output.next + 1 \in Nat
      OBVIOUS
    <3>2. PICK n \in Nat : history' = [history EXCEPT !.given = n, !.failed = FALSE]
      BY <1>5, <3>1 DEF WriteGives
    <3>3. QED
      BY <3>2
  <2>3. client' \in [pc : WritePcs \union {"idle"}, result : Results]
    BY <1>5 DEF WriteGives, Go, WritePcs
  <2>4. QED
    BY <1>5, <2>1, <2>2, <2>3 DEF WriteGives
<1>6. CASE WriteStarts
  BY <1>6 DEF WriteStarts, Started, Go, WritePcs
<1>7. CASE WriteFailsLate
  BY <1>7 DEF WriteFailsLate, Started, Returns, Results
<1>8. CASE WriteAccepts
  BY <1>8 DEF WriteAccepts, Returns, Results
<1>9. CASE Render
  <2>1. device' \in Seq(Unit) /\ Head(device) \in Unit
    BY <1>9, RenderedUnits DEF Render
  <2>2. QED
    BY <1>9, <2>1 DEF Render
<1>10. CASE UNCHANGED vars
  BY <1>10 DEF vars
<1>11. QED
  BY <1>1, <1>2, <1>3, <1>4, <1>5, <1>6, <1>7, <1>8, <1>9, <1>10
     DEF Next, WriteSteps, Calls

\* These calls change nothing but where the client is.
LEMMA CallsAside ==
  ASSUME TypeOK, Calls
  PROVE  /\ UNCHANGED <<output, stream, device, history>>
         /\ {client.pc, client'.pc} \subseteq {"idle", "wait", "blocked"}
         /\ client'.pc # "idle" => client.pc # "idle" \/ stream.open
<1>1. UNCHANGED <<output, stream, device, history>>
  BY DEF Calls, OpenFails, WriteRefused, WriteBegins, WriteBlocks, WriteWakes, WriteTimesOut,
         WriteFailsEarly
<1>2. client.pc \in {"idle", "wait", "blocked"}
  BY DEF Calls, OpenFails, WriteRefused, WriteBegins, WriteBlocks, WriteWakes, WriteTimesOut,
         WriteFailsEarly, Idle
<1>3. client'.pc \in {"idle", "wait", "blocked"}
  BY DEF TypeOK, Calls, OpenFails, WriteRefused, WriteBegins, WriteBlocks, WriteWakes,
         WriteTimesOut, WriteFailsEarly, Returns, Go
<1>4. client'.pc # "idle" => client.pc # "idle" \/ stream.open
  BY DEF TypeOK, Calls, OpenFails, WriteRefused, WriteBegins, WriteBlocks, WriteWakes,
         WriteTimesOut, WriteFailsEarly, Returns, Go
<1>5. QED
  BY <1>1, <1>2, <1>3, <1>4

\* Every step is a call that changes only the client, or one of eight others.
LEMMA Steps ==
  ASSUME [Next]_vars
  PROVE  \/ Calls \/ Opens \/ Closes \/ CloseFails
         \/ WriteGives \/ WriteStarts \/ WriteFailsLate \/ WriteAccepts
         \/ Render \/ UNCHANGED vars
BY DEF Next, WriteSteps, Calls

LEMMA NextReleased ==
  ASSUME TypeOK, Released, [Next]_vars
  PROVE  Released'
<1> USE DEF Released, Idle
<1>1. CASE Opens
  BY <1>1 DEF Opens
<1>2. CASE Closes \/ CloseFails
  BY <1>2 DEF Closes, CloseFails, ReleaseStream, NoStream, Returns
<1>3. CASE Calls
  BY <1>3, CallsAside
<1>4. CASE WriteGives
  BY <1>4 DEF WriteGives
<1>5. CASE WriteStarts \/ WriteFailsLate
  BY <1>5 DEF WriteStarts, WriteFailsLate, Started, TypeOK
<1>6. CASE WriteAccepts
  BY <1>6 DEF WriteAccepts
<1>7. CASE Render
  BY <1>7 DEF Render
<1>8. CASE UNCHANGED vars
  BY <1>8 DEF vars
<1>9. QED
  BY <1>1, <1>2, <1>3, <1>4, <1>5, <1>6, <1>7, <1>8, Steps

LEMMA NextOwnUnits ==
  ASSUME TypeOK, Released, OwnUnits, [Next]_vars
  PROVE  OwnUnits'
<1> USE DEF OwnUnits
<1>0. output.next \in Nat /\ output.session \in Nat
  BY DEF TypeOK
<1>1. CASE Opens
  <2>1. device' = <<>>
    BY <1>1 DEF Opens, Released
  <2>2. QED
    BY <2>1, EmptyDevice
<1>2. CASE Closes \/ CloseFails
  <2>1. device' = <<>>
    BY <1>2 DEF Closes, CloseFails, ReleaseStream
  <2>2. QED
    BY <2>1, EmptyDevice
<1>3. CASE Calls
  BY <1>3, CallsAside
<1>4. CASE WriteGives
  <2>1. output' = output
    BY <1>4 DEF WriteGives
  <2>2. ASSUME NEW i \in 1..Len(device')
        PROVE  device'[i].session = output.session /\ device'[i].frame <= output.next
    <3>1. CASE i <= Len(device)
      BY <1>4, <2>2, <3>1, GivenUnits
    <3>2. CASE i > Len(device)
      <4>1. device'[i] = [session |-> output.session, frame |-> output.next]
        BY <1>4, <2>2, <3>2, GivenUnits
      <4>2. QED
        BY <1>0, <4>1
    <3>3. QED
      BY <1>4, <2>2, <3>1, <3>2, GivenUnits
  <2>3. QED
    BY <2>1, <2>2
<1>5. CASE WriteStarts \/ WriteFailsLate
  BY <1>5 DEF WriteStarts, WriteFailsLate
<1>6. CASE WriteAccepts
  <2>1. device' = device /\ output'.session = output.session /\ output'.next = output.next + 1
    BY <1>6 DEF WriteAccepts, TypeOK
  <2>2. ASSUME NEW i \in 1..Len(device)
        PROVE  device[i].frame <= output.next + 1
    <3>1. device[i] \in Unit
      BY ElementOfSeq DEF TypeOK
    <3>2. device[i].frame \in Nat
      BY <3>1 DEF Unit
    <3>3. QED
      BY <1>0, <3>2
  <2>3. QED
    BY <2>1, <2>2
<1>7. CASE Render
  <2>1. output' = output
    BY <1>7 DEF Render
  <2>2. ASSUME NEW i \in 1..Len(device')
        PROVE  device'[i] = device[i + 1] /\ i + 1 \in 1..Len(device)
    BY <1>7, RenderedUnits
  <2>3. QED
    BY <2>1, <2>2
<1>8. CASE UNCHANGED vars
  BY <1>8 DEF vars
<1>9. QED
  BY <1>1, <1>2, <1>3, <1>4, <1>5, <1>6, <1>7, <1>8, Steps

LEMMA NextOrdered ==
  ASSUME TypeOK, Released, OwnUnits, Ordered, [Next]_vars
  PROVE  Ordered'
<1> USE DEF Ordered
<1>1. CASE Opens \/ Closes \/ CloseFails
  <2>1. device' = <<>>
    BY <1>1 DEF Opens, Released, Closes, CloseFails, ReleaseStream
  <2>2. QED
    BY <2>1, EmptyDevice
<1>2. CASE device' = device
  BY <1>2
<1>3. CASE WriteGives
  <2>1. ASSUME NEW i \in 1..Len(device'), NEW j \in 1..Len(device'), i < j
        PROVE  device'[i].frame <= device'[j].frame
    <3>0. Len(device) \in Nat /\ Len(device') \in Nat /\ output.next \in Nat
      BY <1>3, GivenUnits, OutputAssumption DEF TypeOK
    <3>1. CASE j <= Len(device)
      <4>1. i \in 1..Len(device) /\ j \in 1..Len(device)
        BY <2>1, <3>0, <3>1
      <4>2. QED
        BY <1>3, <2>1, <4>1, GivenUnits
    <3>2. CASE j > Len(device)
      <4>1. device'[j].frame = output.next
        BY <1>3, <2>1, <3>2, GivenUnits
      <4>2. CASE i <= Len(device)
        <5>1. i \in 1..Len(device)
          BY <2>1, <3>0, <4>2
        <5>2. QED
          BY <1>3, <4>1, <5>1, GivenUnits DEF OwnUnits
      <4>3. CASE i > Len(device)
        <5>1. device'[i].frame = output.next
          BY <1>3, <2>1, <4>3, GivenUnits
        <5>2. QED
          BY <3>0, <4>1, <5>1
      <4>4. QED
        BY <2>1, <3>0, <4>2, <4>3
    <3>3. QED
      BY <2>1, <3>0, <3>1, <3>2
  <2>2. QED
    BY <2>1
<1>4. CASE Render
  <2>1. ASSUME NEW i \in 1..Len(device')
        PROVE  device'[i] = device[i + 1] /\ i + 1 \in 1..Len(device)
    BY <1>4, RenderedUnits
  <2>2. ASSUME NEW i \in 1..Len(device'), NEW j \in 1..Len(device'), i < j
        PROVE  i + 1 < j + 1
    BY <2>2
  <2>3. QED
    BY <2>1, <2>2
<1>5. QED
  BY <1>1, <1>2, <1>3, <1>4, Steps, CallsAside
     DEF WriteStarts, WriteFailsLate, WriteAccepts, vars

LEMMA NextHeardBefore ==
  ASSUME TypeOK, Released, OwnUnits, Ordered, HeardBefore, [Next]_vars
  PROVE  HeardBefore'
<1> USE DEF HeardBefore
<1>0. /\ output.next \in Nat /\ output.session \in Nat
      /\ history.heard.session \in Nat /\ history.heard.frame \in Nat
  BY DEF TypeOK, Unit
<1>1. CASE Opens
  <2>1. history'.heard = history.heard /\ output'.session = output.session + 1
    BY <1>1 DEF Opens, TypeOK
  <2>2. QED
    BY <1>0, <2>1
<1>2. CASE Closes \/ CloseFails
  <2>1. ~stream'.open /\ history' = history
    BY <1>2 DEF Closes, CloseFails, ReleaseStream, NoStream
  <2>2. output'.session = output.session
    BY <1>2 DEF Closes, CloseFails, TypeOK
  <2>3. QED
    BY <2>1, <2>2
<1>3. CASE Calls
  BY <1>3, CallsAside
<1>4. CASE WriteGives
  <2>1. history'.heard = history.heard /\ output' = output /\ stream' = stream
    BY <1>4 DEF WriteGives, TypeOK
  <2>2. ASSUME stream.open, history.heard.session = output.session, NEW i \in 1..Len(device')
        PROVE  history.heard.frame <= device'[i].frame
    <3>1. CASE i <= Len(device)
      <4>1. i \in 1..Len(device) /\ device'[i] = device[i]
        BY <1>4, <2>2, <3>1, GivenUnits
      <4>2. QED
        BY <2>2, <4>1
    <3>2. CASE i > Len(device)
      BY <1>4, <2>2, <3>2, GivenUnits
    <3>3. QED
      BY <1>4, <2>2, <3>1, <3>2, GivenUnits
  <2>3. QED
    BY <2>1, <2>2
<1>5. CASE WriteStarts \/ WriteFailsLate
  <2>1. /\ history'.heard = history.heard /\ output' = output /\ device' = device
        /\ stream'.open = stream.open
    BY <1>5 DEF WriteStarts, WriteFailsLate, Started, TypeOK
  <2>2. QED
    BY <2>1
<1>6. CASE WriteAccepts
  <2>1. /\ history' = history /\ device' = device /\ stream' = stream
        /\ output'.session = output.session /\ output'.next = output.next + 1
    BY <1>6 DEF WriteAccepts, TypeOK
  <2>2. QED
    BY <1>0, <2>1
<1>7. CASE Render
  <2>1. output' = output /\ stream' = stream /\ history'.heard = device[1] /\ 1 \in 1..Len(device)
    BY <1>7, RenderedUnits DEF Render
  <2>2. device[1].session = output.session /\ device[1].frame <= output.next
    BY <2>1 DEF OwnUnits
  <2>3. ASSUME NEW i \in 1..Len(device')
        PROVE  device[1].frame <= device'[i].frame
    <3>1. device'[i] = device[i + 1] /\ i + 1 \in 1..Len(device) /\ 1 < i + 1
      BY <1>7, <2>3, RenderedUnits
    <3>2. QED
      BY <2>1, <3>1 DEF Ordered
  <2>4. QED
    BY <1>0, <2>1, <2>2, <2>3
<1>8. CASE UNCHANGED vars
  BY <1>8 DEF vars
<1>9. QED
  BY <1>1, <1>2, <1>3, <1>4, <1>5, <1>6, <1>7, <1>8, Steps

LEMMA NextGivenNext ==
  ASSUME TypeOK, GivenNext, [Next]_vars
  PROVE  GivenNext'
<1> USE DEF GivenNext
<1>0. output.next \in Nat /\ history.given \in Nat
  BY DEF TypeOK
<1>1. CASE Opens
  <2>1. output'.next = 0 /\ history'.given = 0 /\ client'.pc = "idle"
    BY <1>1 DEF Opens, Returns, TypeOK
  <2>2. QED
    BY <2>1
<1>2. CASE Closes \/ CloseFails
  <2>1. ~stream'.open
    BY <1>2 DEF Closes, CloseFails, ReleaseStream, NoStream
  <2>2. QED
    BY <2>1
<1>3. CASE Calls
  <2>1. {client.pc, client'.pc} \cap {"start", "accept"} = {}
    BY <1>3, CallsAside
  <2>2. QED
    BY <1>3, <2>1, CallsAside
<1>4. CASE WriteGives
  <2>1. output' = output /\ history'.given = output.next + 1 /\ client'.pc = "start"
    BY <1>4 DEF WriteGives, Go, TypeOK
  <2>2. QED
    BY <2>1
<1>5. CASE WriteStarts
  <2>1. /\ output' = output /\ history' = history /\ stream'.open = stream.open
        /\ client.pc = "start" /\ client'.pc = "accept"
    BY <1>5 DEF WriteStarts, Started, Go, TypeOK
  <2>2. QED
    BY <2>1
<1>6. CASE WriteFailsLate
  <2>1. /\ output' = output /\ history'.given = history.given /\ history'.failed
        /\ stream'.open = stream.open
        /\ client.pc = "start" /\ client'.pc = "idle"
    BY <1>6 DEF WriteFailsLate, Started, Returns, TypeOK
  <2>2. QED
    BY <2>1
<1>7. CASE WriteAccepts
  <2>1. /\ output'.next = output.next + 1 /\ history' = history /\ stream' = stream
        /\ client.pc = "accept" /\ client'.pc = "idle"
    BY <1>7 DEF WriteAccepts, Returns, TypeOK
  <2>2. QED
    BY <2>1
<1>8. CASE Render
  <2>1. /\ UNCHANGED <<output, stream, client>>
        /\ history'.given = history.given /\ history'.failed = history.failed
    BY <1>8 DEF Render, TypeOK
  <2>2. QED
    BY <2>1
<1>9. CASE UNCHANGED vars
  BY <1>9 DEF vars
<1>10. QED
  BY <1>1, <1>2, <1>3, <1>4, <1>5, <1>6, <1>7, <1>8, <1>9, Steps

LEMMA NextFits ==
  ASSUME TypeOK, Released, Fits, [Next]_vars
  PROVE  Fits'
<1> USE DEF Fits
<1>0. Len(device) \in Nat /\ stream.buffer \in Nat /\ FrameSize \in Nat
  BY LenProperties, OutputAssumption DEF TypeOK
<1>1. CASE Opens
  <2>1. device' = <<>> /\ stream'.buffer \in Nat
    BY <1>1, OutputAssumption DEF Opens, Released
  <2>2. QED
    BY <2>1, EmptyDevice
<1>2. CASE Closes \/ CloseFails
  <2>1. ~stream'.open
    BY <1>2 DEF Closes, CloseFails, ReleaseStream, NoStream
  <2>2. QED
    BY <2>1
<1>3. CASE WriteGives
  <2>1. stream' = stream /\ stream.buffer - Len(device) >= FrameSize
    BY <1>3 DEF WriteGives, Space
  <2>2. Len(device') = Len(device) + FrameSize
    BY <1>3, GivenUnits
  <2>3. QED
    BY <1>0, <2>1, <2>2
<1>4. CASE WriteStarts \/ WriteFailsLate
  <2>1. stream'.open = stream.open /\ stream'.buffer = stream.buffer /\ device' = device
    BY <1>4 DEF WriteStarts, WriteFailsLate, Started, TypeOK
  <2>2. QED
    BY <2>1
<1>5. CASE Render
  <2>1. stream' = stream /\ Len(device') = Len(device) - 1
    BY <1>5, RenderedUnits DEF Render
  <2>2. QED
    BY <1>0, <2>1
<1>6. QED
  BY <1>1, <1>2, <1>3, <1>4, <1>5, Steps, CallsAside DEF WriteAccepts, vars

LEMMA NextWaiting ==
  ASSUME TypeOK, Released, Waiting, [Next]_vars
  PROVE  Waiting'
<1> USE DEF Waiting
<1>0. /\ Len(device) \in Nat /\ stream.buffer \in Nat /\ FrameSize \in Nat \ {0}
      /\ stream.open \in BOOLEAN /\ stream.started \in BOOLEAN /\ history.failed \in BOOLEAN
  BY LenProperties, OutputAssumption DEF TypeOK
<1>1. CASE Opens
  <2>1. Len(device') = 0
    BY <1>1, EmptyDevice DEF Opens, Released
  <2>2. stream'.buffer \in Nat \ {0}
    BY <1>1, OutputAssumption DEF Opens
  <2>3. Prefill' > 0
    BY <1>0, <2>2 DEF Prefill
  <2>4. QED
    BY <1>0, <2>1, <2>3
<1>2. CASE Closes \/ CloseFails
  <2>1. ~stream'.open
    BY <1>2 DEF Closes, CloseFails, ReleaseStream, NoStream
  <2>2. QED
    BY <2>1
<1>3. CASE Calls
  <2>1. client.pc # "start" /\ Prefill' = Prefill /\ UNCHANGED <<stream, device, history>>
    BY <1>3, CallsAside DEF Prefill
  <2>2. QED
    BY <2>1
<1>4. CASE WriteGives
  <2>1. stream' = stream /\ client'.pc = "start"
    BY <1>4 DEF WriteGives, Go, TypeOK
  <2>2. Len(device') = Len(device) + FrameSize
    BY <1>4, GivenUnits
  <2>3. ASSUME stream.open, ~stream.started, Len(device') < 2 * FrameSize
        PROVE  Len(device') = FrameSize
    <3>1. Len(device) < FrameSize /\ Len(device) < 2 * FrameSize
      BY <1>0, <2>2, <2>3
    <3>2. Len(device) = 0
      BY <1>0, <2>3, <3>1
    <3>3. QED
      BY <1>0, <2>2, <3>2
  <2>4. QED
    BY <2>1, <2>3
<1>5. CASE WriteStarts
  <2>1. /\ stream'.open = stream.open /\ stream'.buffer = stream.buffer
        /\ stream.started \/ Len(device) >= Prefill => stream'.started
        /\ device' = device /\ history' = history
    BY <1>5 DEF WriteStarts, Started, Padding, TypeOK
  <2>2. Prefill' = Prefill /\ Prefill \in Nat
    BY <1>0, <2>1 DEF Prefill
  <2>3. ASSUME stream.open, ~stream'.started
        PROVE  ~stream.started /\ Len(device) < Prefill
    BY <1>0, <2>1, <2>2, <2>3
  <2>4. QED
    BY <2>1, <2>2, <2>3
<1>6. CASE WriteFailsLate
  <2>1. /\ stream'.open = stream.open /\ stream'.buffer = stream.buffer
        /\ stream.started => stream'.started
        /\ device' = device /\ history'.failed
    BY <1>6 DEF WriteFailsLate, Started, TypeOK
  <2>2. QED
    BY <2>1
<1>7. CASE WriteAccepts
  <2>1. client.pc # "start" /\ Prefill' = Prefill /\ UNCHANGED <<stream, device, history>>
    BY <1>7 DEF WriteAccepts, Prefill
  <2>2. QED
    BY <2>1
<1>8. CASE Render
  <2>1. stream' = stream /\ stream.started
    BY <1>8 DEF Render
  <2>2. QED
    BY <2>1
<1>9. CASE UNCHANGED vars
  BY <1>9 DEF vars, Prefill
<1>10. QED
  BY <1>1, <1>2, <1>3, <1>4, <1>5, <1>6, <1>7, <1>8, <1>9, Steps

-----------------------------------------------------------------------------
(* The theorems.                                                           *)

LEMMA InitOInv == Init => OInv
<1> SUFFICES ASSUME Init
             PROVE  OInv
  OBVIOUS
<1>1. device = <<>> /\ device \in Seq(Unit) /\ Len(device) = 0
  BY EmptyDevice DEF Init
<1>2. TypeOK
  BY <1>1 DEF Init, TypeOK, NoStream, Unit, Results
<1>3. ~stream.open /\ ~stream.started /\ Idle
  BY DEF Init, NoStream, Idle
<1>4. history.heard.session = 0 /\ output.session = 0
  BY DEF Init
<1>5. QED
  BY <1>1, <1>2, <1>3, <1>4
     DEF OInv, Released, OwnUnits, Ordered, HeardBefore, GivenNext, Waiting, Fits

LEMMA NextOInv == OInv /\ [Next]_vars => OInv'
BY NextType, NextReleased, NextOwnUnits, NextOrdered, NextHeardBefore, NextGivenNext,
   NextWaiting, NextFits DEF OInv

LEMMA Invariance == Spec => []OInv
BY InitOInv, NextOInv, PTL DEF Spec

\* A stream that is not started has the space for the next frame, whatever the
\* sizes of a frame and of the buffer (prefill_target in RenderStream::write):
\* it holds no frame, or one when the buffer holds two.
THEOREM SilentStreamCorrect == Spec => []SilentStreamHasSpace
<1>1. OInv => SilentStreamHasSpace
  <2> SUFFICES ASSUME OInv, client.pc = "wait", ~stream.started, ~history.failed
               PROVE  \/ Space >= FrameSize
                      \/ stream.buffer < FrameSize
                      \/ FrameSize < stream.buffer /\ stream.buffer < 2 * FrameSize
    BY DEF SilentStreamHasSpace
  <2>1. Len(device) \in Nat /\ stream.buffer \in Nat /\ FrameSize \in Nat \ {0}
    BY LenProperties, OutputAssumption DEF OInv, TypeOK
  <2>2. stream.open
    BY DEF OInv, Released, Idle
  <2>3. Len(device) < Prefill /\ (Len(device) < 2 * FrameSize => Len(device) \in {0, FrameSize})
    BY <2>2 DEF OInv, Waiting
  <2>4. Len(device) < stream.buffer /\ Len(device) < 2 * FrameSize
    BY <2>1, <2>3 DEF Prefill
  <2>5. CASE Len(device) = 0
    BY <2>1, <2>5 DEF Space
  <2>6. CASE Len(device) = FrameSize
    BY <2>1, <2>4, <2>6 DEF Space
  <2>7. QED
    BY <2>3, <2>4, <2>5, <2>6
<1>2. QED
  BY <1>1, Invariance, PTL

\* The device is given every frame of a session in order and without a gap, and
\* one of them a second time only after its write has reported a failure
\* (write_frame), whatever calls are made and whichever of them fail.
THEOREM GaplessCorrect == Spec => GaplessOutput
<1> DEFINE Step ==
      Len(device') > Len(device) =>
        LET frame == device'[Len(device')].frame
        IN frame = history.given \/ (frame + 1 = history.given /\ history.failed)
<1>1. OInv /\ [Next]_vars => [Step]_device
  <2> SUFFICES ASSUME OInv, [Next]_vars, Len(device') > Len(device)
               PROVE  LET frame == device'[Len(device')].frame
                      IN frame = history.given \/ (frame + 1 = history.given /\ history.failed)
    OBVIOUS
  <2>0. /\ TypeOK /\ Released /\ GivenNext
        /\ Len(device) \in Nat /\ FrameSize \in Nat \ {0} /\ output.next \in Nat
    BY LenProperties, OutputAssumption DEF OInv, TypeOK
  <2>1. WriteGives
    <3>1. device' # device
      BY <2>0
    <3>2. CASE Opens \/ Closes \/ CloseFails
      BY <2>0, <3>1, <3>2, EmptyDevice DEF Opens, Closes, CloseFails, ReleaseStream
    <3>3. CASE Render
      BY <2>0, <3>3, RenderedUnits
    <3>4. QED
      BY <2>0, <3>1, <3>2, <3>3, Steps, CallsAside
         DEF WriteStarts, WriteFailsLate, WriteAccepts, vars
  <2>2. Len(device') \in 1..Len(device') /\ Len(device') > Len(device)
    BY <2>0, <2>1, GivenUnits
  <2>3. device'[Len(device')].frame = output.next
    BY <2>0, <2>1, <2>2, GivenUnits
  <2>4. stream.open /\ client.pc = "wait"
    BY <2>0, <2>1 DEF WriteGives, Released, Idle
  <2>5. history.given = output.next \/ (history.given = output.next + 1 /\ history.failed)
    BY <2>0, <2>4 DEF GivenNext
  <2>6. QED
    BY <2>3, <2>5
<1>2. QED
  BY <1>1, Invariance, PTL DEF Spec, GaplessOutput

-----------------------------------------------------------------------------
(* The refinement.                                                         *)

\* The sequence the contract sees: none between sessions.
Sequence == IF stream.open THEN output.next ELSE 0

contract == <<stream.open, output.session, Sequence, history.heard>>

\* Every step of the output is a step of its contract, or none.
LEMMA ContractStep ==
  ASSUME OInv, [Next]_vars
  PROVE  \/ UNCHANGED contract
         \/ Contract!Open \/ Contract!Accept \/ Contract!Hear \/ Contract!Close
<1> USE DEF contract, Sequence
<1>0. /\ TypeOK /\ Released /\ OwnUnits /\ HeardBefore
      /\ output.next \in Nat /\ output.session \in Nat
  BY DEF OInv, TypeOK
<1>1. CASE Opens
  <2>1. /\ ~stream.open /\ stream'.open /\ output'.session = output.session + 1
        /\ output'.next = 0
    BY <1>1 DEF Opens
  <2>2. stream'.open = TRUE
    BY <1>1 DEF Opens
  <2>3. history'.heard = history.heard
    BY <1>0, <1>1 DEF Opens, TypeOK
  <2>4. Contract!Open
    BY <2>1, <2>2, <2>3 DEF Contract!Open
  <2>5. QED
    BY <2>4
<1>2. CASE Closes \/ CloseFails
  <2>1. stream'.open = FALSE /\ history' = history
    BY <1>2 DEF Closes, CloseFails, ReleaseStream, NoStream
  <2>2. output'.session = output.session
    BY <1>0, <1>2 DEF Closes, CloseFails, TypeOK
  <2>3. CASE stream.open
    <3>1. Contract!Close
      BY <2>1, <2>2, <2>3 DEF Contract!Close
    <3>2. QED
      BY <3>1
  <2>4. CASE ~stream.open
    <3>1. stream.open = FALSE
      BY <1>0, <2>4 DEF TypeOK
    <3>2. QED
      BY <2>1, <2>2, <2>4, <3>1
  <2>5. QED
    BY <2>3, <2>4
<1>3. CASE Calls
  BY <1>0, <1>3, CallsAside
<1>4. CASE WriteGives
  <2>1. UNCHANGED <<output, stream>> /\ history'.heard = history.heard
    BY <1>0, <1>4 DEF WriteGives, TypeOK
  <2>2. QED
    BY <2>1
<1>5. CASE WriteStarts \/ WriteFailsLate
  <2>1. output' = output /\ stream'.open = stream.open /\ history'.heard = history.heard
    BY <1>0, <1>5 DEF WriteStarts, WriteFailsLate, Started, TypeOK
  <2>2. QED
    BY <2>1
<1>6. CASE WriteAccepts
  <2>1. stream.open /\ UNCHANGED <<stream, history>>
    BY <1>0, <1>6 DEF WriteAccepts, Released, Idle
  <2>2. output'.next = output.next + 1 /\ output'.session = output.session
    BY <1>0, <1>6 DEF WriteAccepts, TypeOK
  <2>3. Contract!Accept
    BY <2>1, <2>2 DEF Contract!Accept
  <2>4. QED
    BY <2>3
<1>7. CASE Render
  <2>1. UNCHANGED <<output, stream>> /\ stream.started
    BY <1>7 DEF Render
  <2>2. history'.heard = device[1] /\ device[1] \in Unit /\ 1 \in 1..Len(device)
    BY <1>0, <1>7, RenderedUnits
  <2>3. stream.open
    BY <1>0, <2>1 DEF Released
  <2>4. device[1].session = output.session /\ device[1].frame <= output.next
    BY <1>0, <2>2 DEF OwnUnits
  <2>5. history.heard.session = output.session => history.heard.frame <= device[1].frame
    BY <1>0, <2>2, <2>3 DEF HeardBefore
  <2>6. device[1].frame \in Nat /\ history.heard.frame \in Nat
    BY <1>0, <2>2 DEF TypeOK, Unit
  <2>7. history'.heard \in [session : {output.session}, frame : 0..output.next]
    BY <1>0, <2>2, <2>4, <2>6 DEF Unit
  <2>8. history.heard.session = output.session => history'.heard.frame >= history.heard.frame
    BY <2>2, <2>5, <2>6
  <2>9. Contract!Hear
    BY <2>1, <2>3, <2>7, <2>8 DEF Contract!Hear
  <2>10. QED
    BY <2>9
<1>8. CASE UNCHANGED vars
  BY <1>8 DEF vars
<1>9. QED
  BY <1>1, <1>2, <1>3, <1>4, <1>5, <1>6, <1>7, <1>8, Steps

\* The output keeps its contract (AudioOutput in mini-aec-output): sessions do
\* not overlap, frames are accepted in order, and what is heard belongs to the
\* open session, comes in order and was offered, whatever calls the client makes
\* and whichever of them fail.
THEOREM ContractKept == Spec => ImplementsContract
<1>1. Init => Contract!Init
  BY DEF Init, Contract!Init, NoStream
<1>2. OInv /\ [Next]_vars => [Contract!Next]_Contract!contractVars
  BY ContractStep DEF Contract!Next, Contract!contractVars, contract, Sequence
<1>3. QED
  BY <1>1, <1>2, Invariance, PTL DEF Spec, ImplementsContract, Contract!Spec
=============================================================================
