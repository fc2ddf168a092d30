------------------------- MODULE ReorderBufferProofs -------------------------
(***************************************************************************)
(* Proofs about ReorderBuffer for every window, offset, capacity and set   *)
(* of buses.                                                               *)
(***************************************************************************)
EXTENDS ReorderBuffer, FiniteSetTheorems, SequenceTheorems, TLAPS

LEMMA ConstantFacts ==
  /\ ClockOffset \in Int /\ Window \in Nat \ {0} /\ MaxTime \in Nat
  /\ RawCap \in Nat \ {0} /\ OrderedCap \in Nat \ {0}
  /\ Virtual \notin Buses /\ UserspaceStamps \subseteq Buses
  /\ NegInfinity \in Int
  /\ \A s \in Sources : MaxFrames[s] \in Nat
BY ConstantsAssumption DEF NegInfinity, Sources

(***************************************************************************)
(* Type correctness                                                        *)
(***************************************************************************)

LEMMA TimestampType == \A f \in Frame : Timestamp(f) \in Int
BY ConstantFacts DEF Frame, Timestamp

\* What was stamped in the past stays stamped in the past.
LEMMA FrameGrows ==
  ASSUME clock \in Nat, clock' \in Nat, clock <= clock'
  PROVE  /\ Frame \subseteq Frame'
         /\ \A s : s \in Seq(Frame) => s \in Seq(Frame')
<1>1. Frame \subseteq Frame'
  BY DEF Frame
<1>2. ASSUME NEW s \in Seq(Frame) PROVE s \in Seq(Frame')
  <2>1. Len(s) \in Nat /\ \A i \in 1..Len(s) : s[i] \in Frame
    OBVIOUS
  <2> QED BY <1>1, <2>1
<1> QED BY <1>1, <1>2

LEMMA SameTasks ==
  TasksOK /\ UNCHANGED <<clock, running, open, stopped, count, sock, hand>> => TasksOK'
BY DEF TasksOK, Frame

LEMMA SameRaw == RawOK /\ UNCHANGED <<clock, raw>> => RawOK'
BY DEF RawOK, Frame

LEMMA SameHeap ==
  HeapOK /\ UNCHANGED <<clock, heap, watermark, cur, phase, late, newest>> => HeapOK'
BY DEF HeapOK, Frame

LEMMA SameOut == OutOK /\ UNCHANGED <<clock, ordered, taken, lost>> => OutOK'
BY DEF OutOK, Frame

LEMMA InitType == Init => TypeOK
<1> SUFFICES ASSUME Init PROVE TypeOK
  OBVIOUS
<1> USE ConstantFacts, EmptySeq DEF Init
<1>1. TasksOK BY DEF TasksOK
<1>2. RawOK BY DEF RawOK
<1>3. HeapOK
  <2>1. NegInfinity - Window \in Int OBVIOUS
  <2> QED BY <2>1 DEF HeapOK
<1>4. OutOK BY DEF OutOK
<1> QED BY <1>1, <1>2, <1>3, <1>4 DEF TypeOK

\* What the buffer releases comes from the heap and goes into the ordered channel.
LEMMA ReleaseType ==
  ASSUME TypeOK, NEW f \in heap, Release(f), phase' \in {"recv", "drain", "flush", "done"}
  PROVE  TypeOK'
<1>1. f \in Frame /\ Frame' = Frame /\ HeapOK /\ OutOK /\ TasksOK /\ RawOK
  BY DEF TypeOK, HeapOK, Release, Frame
<1>2. HeapOK'
  <2>1. newest' \in Int
    BY <1>1, TimestampType DEF Release, Greater, HeapOK
  <2> QED BY <1>1, <2>1 DEF Release, HeapWithout, HeapOK
<1>3. OutOK'
  <2>1. ordered' \in Seq(Frame) /\ Len(ordered') = Len(ordered) + 1 /\ Len(ordered) \in Nat
    BY <1>1 DEF Release, OutOK
  <2>2. Len(ordered') <= OrderedCap
    BY <1>1, <2>1, ConstantFacts DEF Release
  <2> QED BY <1>1, <2>1, <2>2 DEF Release, OutOK
<1> QED BY <1>1, <1>2, <1>3, SameTasks, SameRaw DEF TypeOK, Release, taskVars

LEMMA NextType == TypeOK /\ [Next]_vars => TypeOK'
<1> SUFFICES ASSUME TypeOK, [Next]_vars PROVE TypeOK'
  OBVIOUS
<1>0. TasksOK /\ RawOK /\ HeapOK /\ OutOK /\ clock \in Nat
  BY ConstantFacts DEF TypeOK, TasksOK
<1> USE ConstantFacts, SameTasks, SameRaw, SameHeap, SameOut DEF taskVars, bufferVars
<1>1. CASE Tick
  <2>1. clock' = clock + 1 /\ clock' \in 0..MaxTime
    BY <1>0, <1>1 DEF Tick, TasksOK
  <2>2. Frame \subseteq Frame' /\ \A s : s \in Seq(Frame) => s \in Seq(Frame')
    BY <1>0, <2>1, FrameGrows
  <2>3. TasksOK' BY <1>0, <1>1, <2>1, <2>2 DEF Tick, TasksOK
  <2>4. RawOK' BY <1>0, <1>1, <2>2 DEF Tick, RawOK
  <2>5. HeapOK' BY <1>0, <1>1, <2>2 DEF Tick, HeapOK
  <2>6. OutOK' BY <1>0, <1>1, <2>2 DEF Tick, OutOK
  <2> QED BY <2>3, <2>4, <2>5, <2>6 DEF TypeOK
<1>2. ASSUME NEW b \in Buses, Arrive(b) PROVE TypeOK'
  <2>1. Frame' = Frame /\ NewFrame(b) \in Frame /\ count[b] + 1 \in Nat /\ b \in Sources
    BY <1>0, <1>2 DEF Arrive, Frame, NewFrame, TasksOK, Sources
  <2>2. Append(sock[b], NewFrame(b)) \in Seq(Frame)
    BY <1>0, <2>1 DEF TasksOK
  <2>3. TasksOK' BY <1>0, <1>2, <2>1, <2>2 DEF Arrive, TasksOK
  <2>4. OutOK' BY <1>0, <1>2, <2>1 DEF Arrive, OutOK, Id, Frame
  <2> QED BY <1>0, <1>2, <2>3, <2>4 DEF Arrive, TypeOK
<1>3. ASSUME NEW b \in Buses, Open(b) PROVE TypeOK'
  <2>1. TasksOK' BY <1>0, <1>3 DEF Open, TasksOK, Frame
  <2> QED BY <1>0, <1>3, <2>1 DEF Open, TypeOK
<1>4. ASSUME NEW b \in Buses, Read(b) PROVE TypeOK'
  <2>1. Frame' = Frame /\ b \in Sources
    BY <1>4 DEF Read, Frame, Sources
  <2>2. Head(sock[b]) \in Frame /\ Tail(sock[b]) \in Seq(Frame)
    BY <1>0, <1>4 DEF Read, TasksOK
  <2>3. Stamped(Head(sock[b])) \in Frame
    <3>1. \A f \in Frame : [f EXCEPT !.at = clock] \in Frame
      BY <1>0 DEF Frame
    <3> QED BY <2>2, <3>1 DEF Stamped
  <2>4. TasksOK' BY <1>0, <1>4, <2>1, <2>2, <2>3 DEF Read, TasksOK
  <2> QED BY <1>0, <1>4, <2>4 DEF Read, TypeOK
<1>5. ASSUME NEW b \in Buses, NEW s \in Seq(Frame), TasksOK,
             lost' = lost \cup {Id(f) : f \in Range(s)}, UNCHANGED <<clock, ordered, taken>>
      PROVE  OutOK'
  <2>1. Range(s) \subseteq Frame
    BY <1>5 DEF Range
  <2>2. Frame' = Frame
    BY <1>5 DEF Frame
  <2>3. \A f \in Frame : Id(f) \in Sources \X Nat
    BY DEF Id, Frame
  <2> QED BY <1>0, <1>5, <2>1, <2>2, <2>3 DEF OutOK
<1>6. ASSUME NEW b \in Buses, ReadFails(b) PROVE TypeOK'
  <2>1. TasksOK' BY <1>0, <1>6, EmptySeq DEF ReadFails, TasksOK, Frame
  <2>2. OutOK' BY <1>0, <1>5, <1>6 DEF ReadFails, TasksOK
  <2> QED BY <1>0, <1>6, <2>1, <2>2 DEF ReadFails, TypeOK
<1>7. CASE Generate
  <2>1. Frame' = Frame /\ NewFrame(Virtual) \in Frame /\ count[Virtual] + 1 \in Nat
    BY <1>0, <1>7 DEF Generate, Frame, NewFrame, TasksOK, Sources
  <2>2. TasksOK' BY <1>0, <1>7, <2>1 DEF Generate, TasksOK, Sources
  <2> QED BY <1>0, <1>7, <2>2 DEF Generate, TypeOK
<1>8. ASSUME NEW s \in Sources, SendRaw(s) PROVE TypeOK'
  <2>1. Frame' = Frame /\ hand[s] \in Frame
    BY <1>0, <1>8 DEF SendRaw, Frame, TasksOK
  <2>2. raw' \in Seq(Frame) /\ Len(raw') = Len(raw) + 1 /\ Len(raw) \in Nat
    BY <1>0, <1>8, <2>1 DEF SendRaw, RawOK
  <2>3. RawOK' BY <1>8, <2>1, <2>2 DEF SendRaw, RawHasRoom, RawOK
  <2>4. TasksOK' BY <1>0, <1>8, <2>1 DEF SendRaw, TasksOK
  <2> QED BY <1>0, <1>8, <2>3, <2>4 DEF SendRaw, TypeOK
<1>9. CASE Shutdown
  <2>1. TasksOK' BY <1>0, <1>9 DEF Shutdown, TasksOK, Frame
  <2> QED BY <1>0, <1>9, <2>1 DEF Shutdown, TypeOK
<1>10. ASSUME NEW s \in Sources, Stop(s) PROVE TypeOK'
  <2>0. Frame' = Frame
    BY <1>10 DEF Stop, Frame
  <2>1. TasksOK'
    <3>1. sock' \in [Buses -> Seq(Frame)]
      <4>1. sock' = sock \/ (s \in Buses /\ sock' = [sock EXCEPT ![s] = <<>>])
        BY <1>10, Zenon DEF Stop
      <4>2. sock \in [Buses -> Seq(Frame)] /\ <<>> \in Seq(Frame)
        BY <1>0, EmptySeq DEF TasksOK
      <4> QED BY <4>1, <4>2
    <3>2. open' \subseteq Buses /\ stopped' \subseteq Sources
      BY <1>0, <1>10 DEF Stop, TasksOK
    <3> QED BY <1>0, <1>10, <2>0, <3>1, <3>2 DEF Stop, TasksOK
  <2>2. CASE s \in Buses
    <3>1. OutOK' BY <1>0, <1>5, <1>10, <2>2 DEF Stop, TasksOK
    <3> QED BY <1>0, <1>10, <2>1, <3>1 DEF Stop, TypeOK
  <2>3. CASE s \notin Buses
    BY <1>0, <1>10, <2>1, <2>3 DEF Stop, TypeOK
  <2> QED BY <2>2, <2>3
<1>11. CASE Recv
  <2>0. Frame' = Frame
    BY <1>11 DEF Recv, Frame
  <2>1. Head(raw) \in Frame /\ Tail(raw) \in Seq(Frame)
        /\ Len(Tail(raw)) <= RawCap
    BY <1>0, <1>11 DEF Recv, RawOK
  <2>2. HeapOK'
    <3>1. Timestamp(Head(raw)) \in Int
      BY <2>1, TimestampType
    <3> QED BY <1>0, <1>11, <2>0, <2>1, <3>1 DEF Recv, HeapOK, RaisedBy, Greater
  <2>3. RawOK' BY <1>11, <2>0, <2>1 DEF Recv, RawOK
  <2> QED BY <1>0, <1>11, <2>2, <2>3 DEF Recv, TypeOK
<1>12. ASSUME NEW f \in heap, Drain(f) \/ FlushRest(f) PROVE TypeOK'
  <2>1. Release(f) /\ phase' \in {"recv", "drain", "flush", "done"}
    BY <1>0, <1>12 DEF Drain, FlushRest, HeapOK
  <2> QED BY <2>1, ReleaseType
<1>13. CASE Drained \/ RawClosed \/ Done
  <2>1. HeapOK' BY <1>0, <1>13 DEF Drained, RawClosed, Done, HeapOK, Frame
  <2> QED BY <1>0, <1>13, <2>1 DEF Drained, RawClosed, Done, TypeOK
<1>14. CASE Take
  <2>1. Head(ordered) \in Frame /\ Tail(ordered) \in Seq(Frame)
        /\ Len(Tail(ordered)) <= OrderedCap
    BY <1>0, <1>14 DEF Take, OutOK
  <2>2. Frame' = Frame
    BY <1>14 DEF Take, Frame
  <2>3. Id(Head(ordered)) \in Sources \X Nat
    BY <2>1 DEF Id, Frame
  <2>4. OutOK' BY <1>0, <1>14, <2>1, <2>2, <2>3 DEF Take, OutOK
  <2> QED BY <1>0, <1>14, <2>4 DEF Take, TypeOK
<1>15. CASE UNCHANGED vars
  BY <1>0, <1>15 DEF vars, TypeOK
<1> QED
  BY <1>1, <1>2, <1>3, <1>4, <1>6, <1>7, <1>8, <1>9, <1>10, <1>11, <1>12, <1>13, <1>14,
     <1>15 DEF Next, Reader, Sender, Buffer

\* For all buses, capacities, windows and offsets, no channel outgrows its capacity and
\* no frame carries a stamp from the future.
THEOREM TypeCorrect == Spec => []TypeOK
BY InitType, NextType, PTL DEF Spec

(***************************************************************************)
(* The order of the output.  What has been released is older than the     *)
(* window; what waits in the heap is not, except for the frame that has    *)
(* just been received, and except while a run of frames is being drained.  *)
(***************************************************************************)

Waiting ==
  /\ phase \in {"recv", "drain"} => newest <= watermark - Window
  /\ phase = "recv" => \A f \in heap : Timestamp(f) > watermark - Window
  /\ phase = "drain" => cur \in Frame /\ \A f \in heap : f = cur \/ Timestamp(f) >= newest
  /\ phase \in {"flush", "done"} => \A f \in heap : Timestamp(f) >= newest

\* A release keeps what it leaves behind newer than what it gave away.
LEMMA ReleaseWaiting ==
  ASSUME TypeOK, Waiting, NEW f \in heap, Drain(f) \/ FlushRest(f)
  PROVE  Waiting'
<1>1. /\ \A g \in heap : g \in Frame /\ Timestamp(g) \in Int /\ Timestamp(g)' = Timestamp(g)
      /\ newest \in Int /\ watermark \in Int
      /\ newest' = Greater(newest, Timestamp(f)) /\ heap' \subseteq heap
      /\ UNCHANGED <<watermark, cur, phase>> /\ Frame' = Frame
      /\ \A g \in heap : Timestamp(f) <= Timestamp(g)
  BY TimestampType
     DEF TypeOK, HeapOK, Drain, FlushRest, Release, HeapWithout, Oldest, Frame, Timestamp
<1>2. CASE phase = "drain"
  <2>1. Timestamp(f) <= watermark - Window /\ newest <= watermark - Window
    BY <1>2 DEF Drain, FlushRest, Mature, Waiting
  <2>2. newest' <= watermark - Window
    BY <1>1, <2>1 DEF Greater
  <2>3. \A g \in heap' : g = cur \/ Timestamp(g) >= newest'
    BY <1>1, <1>2 DEF Greater, Waiting
  <2>4. cur \in Frame
    BY <1>2 DEF Waiting
  <2> QED BY <1>1, <1>2, <2>2, <2>3, <2>4 DEF Waiting
<1>3. CASE phase = "flush"
  <2>1. \A g \in heap' : Timestamp(g) >= newest'
    BY <1>1, <1>3 DEF Greater, Waiting
  <2> QED BY <1>1, <1>3, <2>1 DEF Waiting
<1> QED BY <1>2, <1>3 DEF Drain, FlushRest

\* A risen watermark raises the cutoff.
LEMMA CutoffRises ==
  ASSUME NEW a \in Int, NEW b \in Int, NEW c \in Int, NEW w \in Int, a <= b, c <= a - w
  PROVE  c <= b - w
OBVIOUS

\* The frame just received is the only one that may be older than what was released.
LEMMA RecvWaiting ==
  ASSUME TypeOK, Waiting, Recv
  PROVE  Waiting'
<1>1. /\ \A g \in heap : g \in Frame
      /\ raw \in Seq(Frame) /\ Head(raw) \in Frame
      /\ newest \in Int /\ watermark \in Int /\ Window \in Nat
  BY ConstantFacts DEF TypeOK, HeapOK, RawOK, Recv
<1>2. /\ \A g \in heap \cup {Head(raw)} : Timestamp(g) \in Int
      /\ \A g : Timestamp(g)' = Timestamp(g)
  BY <1>1, TimestampType DEF Timestamp
<1>3. /\ newest' = newest /\ heap' = heap \cup {Head(raw)} /\ cur' = Head(raw)
      /\ phase = "recv" /\ phase' = "drain" /\ Frame' = Frame
  BY DEF Recv, Frame
<1>4. watermark' \in Int /\ watermark <= watermark'
  BY <1>1, <1>2 DEF Recv, RaisedBy, Greater
<1>5. newest <= watermark - Window /\ \A g \in heap : Timestamp(g) >= newest
  <2>1. newest <= watermark - Window /\ \A g \in heap : Timestamp(g) > watermark - Window
    BY <1>3 DEF Waiting
  <2> QED BY <2>1, <1>1, <1>2
<1>6. newest' <= watermark' - Window
  <2>1. newest <= watermark - Window /\ newest' = newest
    BY <1>3, <1>5
  <2>2. newest \in Int /\ watermark \in Int /\ Window \in Int
    BY <1>1
  <2>3. watermark' \in Int /\ watermark <= watermark'
    BY <1>4
  <2>4. newest <= watermark' - Window
    BY <2>1, <2>2, <2>3, CutoffRises
  <2> QED BY <2>1, <2>4
<1>7. \A g \in heap' : g = cur' \/ Timestamp(g)' >= newest'
  BY <1>2, <1>3, <1>5
<1> QED BY <1>1, <1>3, <1>6, <1>7 DEF Waiting

LEMMA WaitingStep == TypeOK /\ Waiting /\ [Next]_vars => Waiting'
<1> SUFFICES ASSUME TypeOK, Waiting, [Next]_vars PROVE Waiting'
  OBVIOUS
<1>0. /\ heap \subseteq Frame /\ newest \in Int /\ watermark \in Int /\ Window \in Nat
      /\ clock \in Nat /\ \A f : Timestamp(f)' = Timestamp(f)
      /\ \A f \in heap : Timestamp(f) \in Int
  BY ConstantFacts, TimestampType DEF TypeOK, TasksOK, HeapOK, Timestamp
<1>1. CASE Recv
  BY <1>1, RecvWaiting
<1>2. ASSUME NEW f \in heap, Drain(f) \/ FlushRest(f) PROVE Waiting'
  BY <1>2, ReleaseWaiting
<1>3. CASE Drained
  <2>1. \A f \in heap : Timestamp(f) > watermark - Window
    BY <1>0, <1>3 DEF Drained, Mature
  <2> QED BY <1>0, <1>3, <2>1 DEF Drained, Waiting
<1>4. CASE RawClosed \/ Done
  <2>1. phase = "recv" => \A f \in heap : Timestamp(f) >= newest
    BY <1>0 DEF Waiting
  <2> QED BY <1>0, <1>4, <2>1 DEF RawClosed, Done, Waiting
<1>5. CASE Tick
  <2>1. Frame \subseteq Frame'
    <3>1. clock' = clock + 1 BY <1>5 DEF Tick
    <3> QED BY <1>0, <3>1 DEF Frame
  <2> QED BY <1>0, <1>5, <2>1 DEF Tick, Waiting, bufferVars
<1>6. CASE UNCHANGED <<clock, bufferVars, newest>>
  BY <1>0, <1>6 DEF Waiting, bufferVars, Frame
<1>7. \/ UNCHANGED <<clock, bufferVars, newest>> \/ Tick \/ Recv \/ Drained \/ RawClosed \/ Done
      \/ \E f \in heap : Drain(f) \/ FlushRest(f)
  BY DEF Next, Reader, Sender, Buffer, Shutdown, Generate, Take, Arrive, Open, Read, ReadFails,
         SendRaw, Stop, vars
<1> QED BY <1>1, <1>2, <1>3, <1>4, <1>5, <1>6, <1>7

LEMMA InitWaiting == Init => Waiting
BY ConstantFacts DEF Init, Waiting

\* A frame older than what was released can only be released by the drain loop.
LEMMA ReleasedInDrain ==
  ASSUME TypeOK, Waiting, Next, NEW f \in heap, Released(f), Timestamp(f) < newest
  PROVE  phase = "drain"
<1>1. Timestamp(f) \in Int /\ newest \in Int
  BY TimestampType DEF TypeOK, HeapOK
<1>2. ordered' # ordered /\ (ordered # <<>> => ordered' # Tail(ordered))
  <2>1. ordered \in Seq(Frame) /\ Len(ordered') = Len(ordered) + 1 /\ Len(ordered) \in Nat
    BY DEF Released, TypeOK, OutOK
  <2>2. ordered # <<>> => Len(Tail(ordered)) = Len(ordered) - 1
    BY <2>1
  <2> QED BY <2>1, <2>2
<1>3. \E g \in heap : Drain(g) \/ FlushRest(g)
  BY <1>2 DEF Next, Reader, Sender, Buffer, Tick, Shutdown, Generate, Take, Arrive, Open,
              Read, ReadFails, SendRaw, Stop, Recv, Drained, RawClosed, Done
<1>4. phase # "flush"
  BY <1>1 DEF Waiting
<1> QED BY <1>3, <1>4 DEF Drain, FlushRest

\* Whatever the delays and the clock offset, only the frame received last can come out
\* after a newer one, and only if it was older than the window when it came.
THEOREM OnlyTheLateFrameIsOvertaken == Spec => OnlyLateFramesOvertaken
<1>1. TypeOK /\ Waiting /\ [Next]_vars =>
        [\A f \in heap : Released(f) /\ Timestamp(f) < newest =>
           f = cur /\ Timestamp(f) <= watermark - Window]_vars
  <2> SUFFICES ASSUME TypeOK, Waiting, Next, NEW f \in heap, Released(f),
                      Timestamp(f) < newest
               PROVE  f = cur /\ Timestamp(f) <= watermark - Window
    OBVIOUS
  <2>1. Timestamp(f) \in Int /\ newest \in Int /\ watermark \in Int /\ Window \in Nat
        /\ phase \in {"recv", "drain", "flush", "done"}
    BY ConstantFacts, TimestampType DEF TypeOK, HeapOK
  <2>2. phase = "drain"
    BY ReleasedInDrain
  <2>3. f = cur
    BY <2>1, <2>2 DEF Waiting
  <2>4. newest <= watermark - Window
    BY <2>2 DEF Waiting
  <2> QED BY <2>1, <2>3, <2>4
<1>2. Init => TypeOK /\ Waiting
  BY InitType, InitWaiting
<1>3. TypeOK /\ Waiting /\ [Next]_vars => TypeOK' /\ Waiting'
  BY NextType, WaitingStep
<1> QED BY <1>1, <1>2, <1>3, PTL DEF Spec, OnlyLateFramesOvertaken

(***************************************************************************)
(* Without a clock offset all timestamps come from one clock, so that a    *)
(* frame that is not late is not older than anything released.             *)
(***************************************************************************)

InTime ==
  /\ watermark <= clock
  /\ phase = "drain" /\ ~late => \A f \in heap : Timestamp(f) >= newest

\* A frame not older than the window is not older than the cutoff.
LEMMA NotBehind ==
  ASSUME NEW at \in Int, NEW t \in Int, NEW wm \in Int, NEW w \in Int, NEW new \in Int,
         t - at <= w, wm <= t, new <= wm - w
  PROVE  at >= new
OBVIOUS

LEMMA InTimeStep ==
  ASSUME ClockOffset = 0, TypeOK, Waiting, InTime, [Next]_vars
  PROVE  InTime'
<1>0. /\ clock \in Nat /\ watermark \in Int /\ newest \in Int /\ Window \in Nat
      /\ heap \subseteq Frame /\ raw \in Seq(Frame)
      /\ \A f : Timestamp(f)' = Timestamp(f)
      /\ \A f \in Frame : f.at \in Int /\ f.at <= clock
      /\ \A f \in Frame : Timestamp(f) \in Int /\ Timestamp(f) = f.at
  BY ConstantFacts DEF TypeOK, TasksOK, RawOK, HeapOK, Timestamp, Frame
<1>1. CASE Recv
  <2>1. /\ Head(raw) \in Frame /\ newest' = newest /\ clock' = clock /\ phase = "recv"
        /\ heap' = heap \cup {Head(raw)} /\ late' = (clock - Head(raw).at > Window)
        /\ watermark' \in {watermark, Timestamp(Head(raw))}
    BY <1>0, <1>1 DEF Recv, RaisedBy, Greater
  <2>2. watermark' <= clock'
    BY <1>0, <2>1 DEF InTime
  <2>3. newest <= watermark - Window /\ \A g \in heap : Timestamp(g) > watermark - Window
    BY <2>1 DEF Waiting
  <2>4. \A g \in heap : Timestamp(g) >= newest
    BY <1>0, <2>3
  <2>5. ~late' => Timestamp(Head(raw)) >= newest
    <3> SUFFICES ASSUME ~late' PROVE Head(raw).at >= newest
      BY <1>0, <2>1
    <3>1. clock - Head(raw).at <= Window
      <4>1. late' = (clock - Head(raw).at > Window)
        BY <2>1
      <4>2. ~(clock - Head(raw).at > Window)
        BY <4>1, Zenon
      <4>3. Head(raw).at \in Int
        BY <1>0, <2>1
      <4> QED BY <1>0, <4>2, <4>3
    <3> QED BY <1>0, <2>1, <2>3, <3>1, NotBehind DEF InTime
  <2> QED BY <1>0, <2>1, <2>2, <2>4, <2>5 DEF InTime
<1>2. ASSUME NEW f \in heap, Drain(f) \/ FlushRest(f) PROVE InTime'
  <2>1. /\ newest' = Greater(newest, Timestamp(f)) /\ heap' \subseteq heap
        /\ UNCHANGED <<clock, watermark, phase, late>>
        /\ \A g \in heap : Timestamp(f) <= Timestamp(g)
    BY <1>2 DEF Drain, FlushRest, Release, HeapWithout, Oldest
  <2>2. phase = "drain" /\ ~late => \A g \in heap' : Timestamp(g) >= newest'
    BY <1>0, <2>1 DEF InTime, Greater
  <2> QED BY <1>0, <2>1, <2>2 DEF InTime
<1>3. CASE Drained \/ RawClosed \/ Done
  BY <1>0, <1>3 DEF Drained, RawClosed, Done, InTime
<1>4. CASE Tick
  <2>1. clock' = clock + 1 /\ UNCHANGED <<watermark, phase, late, heap, newest>>
    BY <1>4 DEF Tick, bufferVars
  <2>2. watermark' <= clock'
    BY <1>0, <2>1 DEF InTime
  <2> QED BY <1>0, <2>1, <2>2 DEF InTime
<1>5. CASE UNCHANGED <<clock, bufferVars, newest>>
  BY <1>0, <1>5 DEF InTime, bufferVars
<1>6. \/ UNCHANGED <<clock, bufferVars, newest>> \/ Tick \/ Recv \/ Drained \/ RawClosed \/ Done
      \/ \E f \in heap : Drain(f) \/ FlushRest(f)
  BY DEF Next, Reader, Sender, Buffer, Shutdown, Generate, Take, Arrive, Open, Read, ReadFails,
         SendRaw, Stop, vars
<1> QED BY <1>1, <1>2, <1>3, <1>4, <1>5, <1>6

\* With a clock offset of zero, a frame that reaches the heap within the window of its
\* stamp is never released after a newer one, for all buses, windows and capacities.
THEOREM JitterIsAbsorbed == ASSUME ClockOffset = 0 PROVE Spec => WindowAbsorbsJitter
<1>1. TypeOK /\ Waiting /\ InTime /\ [Next]_vars =>
        [\A f \in heap : Released(f) /\ Timestamp(f) < newest => late]_vars
  <2> SUFFICES ASSUME TypeOK, Waiting, InTime, Next, NEW f \in heap, Released(f),
                      Timestamp(f) < newest, ~late
               PROVE  FALSE
    BY DEF TypeOK, HeapOK
  <2>1. phase = "drain"
    BY ReleasedInDrain
  <2>2. Timestamp(f) >= newest /\ Timestamp(f) \in Int /\ newest \in Int
    BY <2>1, TimestampType DEF InTime, TypeOK, HeapOK
  <2> QED BY <2>2
<1>2. Init => TypeOK /\ Waiting /\ InTime
  <2>1. ASSUME Init PROVE InTime
    <3>1. NegInfinity <= 0
      BY ConstantFacts DEF NegInfinity
    <3> QED BY <2>1, <3>1 DEF Init, InTime
  <2> QED BY <2>1, InitType, InitWaiting
<1>3. TypeOK /\ Waiting /\ InTime /\ [Next]_vars => TypeOK' /\ Waiting' /\ InTime'
  BY NextType, WaitingStep, InTimeStep
<1> QED BY <1>1, <1>2, <1>3, PTL DEF Spec, WindowAbsorbsJitter

(***************************************************************************)
(* The order of each source.  A frame passes its socket, the hand of its   *)
(* task, the raw channel and the heap, and overtakes no other frame of its *)
(* source: what is further on has a smaller number and no later stamp.     *)
(***************************************************************************)

Ahead(f, g) == f.src = g.src => f.n < g.n /\ f.at <= g.at
InOrder(q) == \A i, j \in DOMAIN q : i < j => Ahead(q[i], q[j])

\* A frame on a bus without kernel timestamps is stamped again when it is read.
AheadOfUnread(f, g) ==
  f.src = g.src => f.n < g.n /\ (g.src \notin UserspaceStamps => f.at <= g.at)

\* A socket has frames of its bus, a task those of its source.
OfTheirSource ==
  /\ \A b \in Buses : \A g \in Range(sock[b]) : g.src = b
  /\ \A s \in Sources : hand[s] # NoFrame => hand[s].src = s

SourcesInOrder ==
  /\ \A b \in Buses : InOrder(sock[b])
  /\ InOrder(raw)
  /\ \A f \in heap : \A g \in Range(raw) : Ahead(f, g)
  /\ \A f \in heap \cup Range(raw) : \A g \in InHand : Ahead(f, g)
  /\ \A f \in heap \cup Range(raw) \cup InHand :
       \A b \in Buses : \A g \in Range(sock[b]) : AheadOfUnread(f, g)
  /\ \A f, g \in heap : f.src = g.src /\ f.n < g.n => f.at <= g.at

\* No frame has a number its source has not reached.
Numbered ==
  /\ \A f \in heap \cup Range(raw) \cup InHand : f.n <= count[f.src]
  /\ \A b \in Buses : \A f \in Range(sock[b]) : f.n <= count[f.src]

OrderInv == OfTheirSource /\ SourcesInOrder /\ Numbered

\* A queue to which a frame is added, and one whose oldest frame is taken.
LEMMA QueueAdded ==
  ASSUME NEW q \in Seq(Frame), NEW e \in Frame
  PROVE  /\ Append(q, e) \in Seq(Frame)
         /\ Range(Append(q, e)) = Range(q) \cup {e}
         /\ InOrder(q) /\ (\A f \in Range(q) : Ahead(f, e)) => InOrder(Append(q, e))
<1> DEFINE r == Append(q, e)
<1>1. /\ DOMAIN q = 1..Len(q) /\ Len(q) \in Nat
      /\ DOMAIN r = 1..(Len(q) + 1)
      /\ \A i \in 1..Len(q) : r[i] = q[i]
      /\ r[Len(q) + 1] = e /\ r \in Seq(Frame)
  OBVIOUS
<1> HIDE DEF r
<1>2. 1..(Len(q) + 1) = (1..Len(q)) \cup {Len(q) + 1}
  BY <1>1
<1>3. Range(r) = Range(q) \cup {e}
  <2>1. ASSUME NEW i \in DOMAIN r PROVE r[i] \in Range(q) \cup {e}
    BY <1>1, <1>2, <2>1 DEF Range
  <2>2. ASSUME NEW i \in DOMAIN q PROVE q[i] \in Range(r)
    BY <1>1, <1>2, <2>2 DEF Range
  <2>3. e \in Range(r)
    BY <1>1, <1>2 DEF Range
  <2> QED BY <2>1, <2>2, <2>3 DEF Range
<1>4. ASSUME InOrder(q), \A f \in Range(q) : Ahead(f, e)
      PROVE  InOrder(r)
  <2> SUFFICES ASSUME NEW i \in 1..(Len(q) + 1), NEW j \in 1..(Len(q) + 1), i < j
               PROVE  Ahead(r[i], r[j])
    BY <1>1 DEF InOrder
  <2>1. i \in 1..Len(q) /\ r[i] = q[i]
    BY <1>1
  <2>2. CASE j = Len(q) + 1
    <3>1. q[i] \in Range(q)
      BY <1>1, <2>1 DEF Range
    <3> QED BY <1>1, <1>4, <2>1, <2>2, <3>1
  <2>3. CASE j # Len(q) + 1
    <3>1. j \in 1..Len(q) /\ r[j] = q[j]
      BY <1>1, <2>3
    <3> QED BY <1>1, <1>4, <2>1, <3>1 DEF InOrder
  <2> QED BY <2>2, <2>3
<1> QED BY <1>1, <1>3, <1>4 DEF r

LEMMA QueueTaken ==
  ASSUME NEW q \in Seq(Frame), q # <<>>
  PROVE  /\ Head(q) \in Frame /\ Tail(q) \in Seq(Frame)
         /\ Range(q) = {Head(q)} \cup Range(Tail(q))
         /\ InOrder(q) => InOrder(Tail(q)) /\ \A g \in Range(Tail(q)) : Ahead(Head(q), g)
<1> DEFINE r == Tail(q)
<1>1. /\ Len(q) \in Nat \ {0} /\ r \in Seq(Frame) /\ Len(r) = Len(q) - 1
      /\ DOMAIN q = 1..Len(q) /\ DOMAIN r = 1..Len(r) /\ q[1] = Head(q) /\ Head(q) \in Frame
  BY HeadTailProperties, EmptySeq
<1>2. \A i \in DOMAIN r : i + 1 \in DOMAIN q /\ r[i] = q[i + 1] /\ 1 < i + 1
  BY <1>1, HeadTailProperties
<1> HIDE DEF r
<1>3. \A i \in DOMAIN q : q[i] \in {Head(q)} \cup Range(r)
  <2> SUFFICES ASSUME NEW i \in 1..Len(q), i # 1 PROVE q[i] \in Range(r)
    BY <1>1
  <2>1. i - 1 \in DOMAIN r /\ (i - 1) + 1 = i
    BY <1>1
  <2> QED BY <1>2, <2>1 DEF Range
<1>4. Range(q) = {Head(q)} \cup Range(r)
  BY <1>1, <1>2, <1>3 DEF Range
<1>5. ASSUME InOrder(q) PROVE InOrder(r)
  <2> SUFFICES ASSUME NEW i \in DOMAIN r, NEW j \in DOMAIN r, i < j PROVE Ahead(r[i], r[j])
    BY DEF InOrder
  <2>1. i + 1 < j + 1
    BY <1>1
  <2> QED BY <1>2, <1>5, <2>1 DEF InOrder
<1>6. ASSUME InOrder(q), NEW g \in Range(r) PROVE Ahead(Head(q), g)
  <2>1. PICK i \in DOMAIN r : g = r[i]
    BY DEF Range
  <2>2. 1 \in DOMAIN q
    BY <1>1
  <2> QED BY <1>1, <1>2, <1>6, <2>1, <2>2 DEF InOrder
<1> QED BY <1>1, <1>4, <1>5, <1>6 DEF r

LEMMA EmptyQueue == Range(<<>>) = {} /\ InOrder(<<>>)
BY DEF Range, InOrder

\* A frame in a queue is a frame.
LEMMA InQueue == \A q \in Seq(Frame) : Range(q) \subseteq Frame
BY DEF Range

LEMMA OrderFacts ==
  ASSUME TypeOK
  PROVE  /\ heap \subseteq Frame /\ raw \in Seq(Frame) /\ Range(raw) \subseteq Frame
         /\ \A b \in Buses : sock[b] \in Seq(Frame) /\ Range(sock[b]) \subseteq Frame
         /\ InHand \subseteq Frame /\ clock \in Nat
         /\ \A s \in Sources : count[s] \in Nat
         /\ \A s \in Sources : hand[s] # NoFrame => hand[s] \in InHand
         /\ \A f \in Frame : f.src \in Sources /\ f.n \in Nat /\ f.at \in Nat /\ f.at <= clock
<1>1. /\ heap \subseteq Frame /\ raw \in Seq(Frame) /\ clock \in Nat
      /\ sock \in [Buses -> Seq(Frame)] /\ hand \in [Sources -> Frame \cup {NoFrame}]
      /\ count \in [Sources -> Nat]
  BY ConstantFacts DEF TypeOK, TasksOK, RawOK, HeapOK
<1>2. InHand \subseteq Frame /\ \A s \in Sources : hand[s] # NoFrame => hand[s] \in InHand
  BY <1>1 DEF InHand
<1>3. \A f \in Frame : f.src \in Sources /\ f.n \in Nat /\ f.at \in Nat /\ f.at <= clock
  BY <1>1 DEF Frame
<1> QED BY <1>1, <1>2, <1>3, InQueue

LEMMA InitOrder == Init => OrderInv
<1> SUFFICES ASSUME Init PROVE OrderInv
  OBVIOUS
<1>1. InHand = {} /\ heap = {} /\ Range(raw) = {} /\ InOrder(raw)
  BY EmptyQueue DEF Init, InHand
<1>2. \A b \in Buses : Range(sock[b]) = {} /\ InOrder(sock[b])
  BY EmptyQueue DEF Init
<1>3. OfTheirSource
  BY <1>2 DEF Init, OfTheirSource
<1> QED BY <1>1, <1>2, <1>3 DEF OrderInv, SourcesInOrder, Numbered

\* Nothing moves on: the order stays.
LEMMA SameOrder ==
  ASSUME OrderInv, UNCHANGED <<sock, hand, raw, count>>, heap' \subseteq heap
  PROVE  OrderInv'
<1>1. InHand' = InHand
  BY DEF InHand
<1>2. /\ \A b \in Buses : Range(sock'[b]) = Range(sock[b]) /\ InOrder(sock'[b]) = InOrder(sock[b])
      /\ raw' = raw
  OBVIOUS
<1>3. OfTheirSource'
  BY DEF OrderInv, OfTheirSource
<1>4. SourcesInOrder'
  BY <1>1, <1>2 DEF OrderInv, SourcesInOrder
<1>5. Numbered'
  BY <1>1, <1>2 DEF OrderInv, Numbered
<1> QED BY <1>3, <1>4, <1>5 DEF OrderInv

\* A frame's number is new, and its stamp is the latest.
LEMMA NewIsLast ==
  ASSUME TypeOK, OrderInv, NEW s \in Sources
  PROVE  /\ NewFrame(s) \in Frame /\ NewFrame(s).src = s /\ NewFrame(s).n = count[s] + 1
         /\ \A f \in heap \cup Range(raw) \cup InHand : Ahead(f, NewFrame(s))
         /\ \A b \in Buses : \A f \in Range(sock[b]) : Ahead(f, NewFrame(s))
<1>1. /\ NewFrame(s).src = s /\ NewFrame(s).n = count[s] + 1 /\ NewFrame(s).at = clock
      /\ count[s] \in Nat /\ clock \in Nat
  BY OrderFacts DEF NewFrame
<1>2. NewFrame(s) \in Frame
  BY <1>1 DEF NewFrame, Frame
<1>3. ASSUME NEW f \in Frame, f.n <= count[f.src]
      PROVE  Ahead(f, NewFrame(s))
  BY <1>1, <1>3, OrderFacts DEF Ahead
<1> QED BY <1>1, <1>2, <1>3, OrderFacts DEF OrderInv, Numbered

LEMMA ArriveOrder ==
  ASSUME TypeOK, OrderInv, NEW b \in Buses, Arrive(b)
  PROVE  OrderInv'
<1>0. /\ b \in Sources /\ sock \in [Buses -> Seq(Frame)] /\ count \in [Sources -> Nat]
      /\ count' = [count EXCEPT ![b] = @ + 1]
      /\ UNCHANGED <<hand, raw, heap>> /\ InHand' = InHand
  BY DEF Arrive, Sources, TypeOK, TasksOK, InHand, bufferVars
<1> DEFINE new == NewFrame(b)
<1>1. /\ new \in Frame /\ new.src = b /\ new.n = count[b] + 1
      /\ \A f \in heap \cup Range(raw) \cup InHand : Ahead(f, new)
      /\ \A c \in Buses : \A f \in Range(sock[c]) : Ahead(f, new)
  BY <1>0, NewIsLast
<1>2. /\ \A s \in Sources : count[s] <= count'[s] /\ count[s] \in Nat /\ count'[s] \in Nat
      /\ new.n = count'[b]
  BY <1>0, <1>1
<1>3. /\ \A c \in Buses : c # b => sock'[c] = sock[c]
      /\ \A c \in Buses : InOrder(sock'[c]) /\ Range(sock'[c]) \subseteq Range(sock[c]) \cup {new}
  <2>1. CASE sock' = sock
    BY <2>1 DEF OrderInv, SourcesInOrder
  <2>2. CASE sock' = [sock EXCEPT ![b] = Append(@, new)]
    <3>1. sock'[b] = Append(sock[b], new) /\ \A c \in Buses : c # b => sock'[c] = sock[c]
      BY <1>0, <2>2
    <3>2. sock[b] \in Seq(Frame) /\ InOrder(sock[b]) /\ \A f \in Range(sock[b]) : Ahead(f, new)
      BY <1>0, <1>1 DEF OrderInv, SourcesInOrder
    <3>3. InOrder(Append(sock[b], new)) /\ Range(Append(sock[b], new)) = Range(sock[b]) \cup {new}
      BY <1>1, <3>2, QueueAdded
    <3> QED BY <3>1, <3>3 DEF OrderInv, SourcesInOrder
  <2> QED BY <2>1, <2>2 DEF Arrive
<1> HIDE DEF new
<1>4. \A c \in Buses : \A g \in Range(sock'[c]) : g \in Range(sock[c]) \/ (c = b /\ g = new)
  BY <1>3
<1>5. OfTheirSource'
  BY <1>0, <1>1, <1>4 DEF OrderInv, OfTheirSource
<1>6. SourcesInOrder'
  <2>1. ASSUME NEW f \in heap \cup Range(raw) \cup InHand, NEW c \in Buses,
               NEW g \in Range(sock'[c])
        PROVE  AheadOfUnread(f, g)
    BY <1>1, <1>4, <2>1 DEF OrderInv, SourcesInOrder, Ahead, AheadOfUnread
  <2> QED BY <1>0, <1>3, <2>1 DEF OrderInv, SourcesInOrder
<1>7. Numbered'
  <2>1. \A f \in Frame : f.src \in Sources /\ f.n \in Nat
    BY OrderFacts
  <2>2. ASSUME NEW f \in Frame, f.n <= count[f.src] PROVE f.n <= count'[f.src]
    BY <1>2, <2>1, <2>2
  <2>3. \A f \in heap \cup Range(raw) \cup InHand : f.n <= count'[f.src]
    BY <2>2, OrderFacts DEF OrderInv, Numbered
  <2>4. \A c \in Buses : \A f \in Range(sock'[c]) : f.n <= count'[f.src]
    <3> SUFFICES ASSUME NEW c \in Buses, NEW f \in Range(sock'[c])
                 PROVE  f.n <= count'[f.src]
      OBVIOUS
    <3>1. CASE f = new
      BY <1>0, <1>1, <1>2, <3>1
    <3>2. CASE f \in Range(sock[c])
      BY <2>2, <3>2, OrderFacts DEF OrderInv, Numbered
    <3> QED BY <1>4, <3>1, <3>2
  <2> QED BY <1>0, <2>3, <2>4 DEF Numbered
<1> QED BY <1>5, <1>6, <1>7 DEF OrderInv

LEMMA GenerateOrder ==
  ASSUME TypeOK, OrderInv, Generate
  PROVE  OrderInv'
<1> DEFINE new == NewFrame(Virtual)
<1>0. /\ Virtual \in Sources /\ count \in [Sources -> Nat] /\ hand[Virtual] = NoFrame
      /\ hand \in [Sources -> Frame \cup {NoFrame}]
      /\ count' = [count EXCEPT ![Virtual] = @ + 1] /\ hand' = [hand EXCEPT ![Virtual] = new]
      /\ UNCHANGED <<sock, raw, heap>>
  BY DEF Generate, Sources, TypeOK, TasksOK, bufferVars
<1>1. /\ new \in Frame /\ new.src = Virtual /\ new.n = count[Virtual] + 1
      /\ \A f \in heap \cup Range(raw) \cup InHand : Ahead(f, new)
  BY <1>0, NewIsLast
<1>2. /\ \A s \in Sources : count[s] <= count'[s] /\ count[s] \in Nat /\ count'[s] \in Nat
      /\ new.n = count'[Virtual]
  BY <1>0, <1>1
<1> HIDE DEF new
<1>3. \A f \in InHand' : f \in InHand \/ f = new
  BY <1>0 DEF InHand
<1>4. OfTheirSource'
  BY <1>0, <1>1 DEF OrderInv, OfTheirSource
<1>5. SourcesInOrder'
  <2>1. \A b \in Buses : \A g \in Range(sock[b]) : g.src # new.src
    BY <1>1, ConstantFacts DEF OrderInv, OfTheirSource
  <2>2. \A b \in Buses : \A g \in Range(sock[b]) : AheadOfUnread(new, g)
    BY <2>1 DEF AheadOfUnread
  <2> QED BY <1>0, <1>1, <1>3, <2>2 DEF OrderInv, SourcesInOrder
<1>6. Numbered'
  <2>1. \A f \in Frame : f.src \in Sources /\ f.n \in Nat
    BY OrderFacts
  <2>2. ASSUME NEW f \in Frame, f.n <= count[f.src] PROVE f.n <= count'[f.src]
    BY <1>2, <2>1, <2>2
  <2>3. \A f \in heap \cup Range(raw) \cup InHand' : f.n <= count'[f.src]
    BY <1>1, <1>2, <1>3, <2>2, OrderFacts DEF OrderInv, Numbered
  <2>4. \A c \in Buses : \A f \in Range(sock[c]) : f.n <= count'[f.src]
    BY <2>2, OrderFacts DEF OrderInv, Numbered
  <2> QED BY <1>0, <2>3, <2>4 DEF Numbered
<1> QED BY <1>4, <1>5, <1>6 DEF OrderInv

LEMMA ReadOrder ==
  ASSUME TypeOK, OrderInv, NEW b \in Buses, Read(b)
  PROVE  OrderInv'
<1> DEFINE old == Head(sock[b])
           new == Stamped(old)
<1>0. /\ b \in Sources /\ sock \in [Buses -> Seq(Frame)] /\ sock[b] # <<>> /\ hand[b] = NoFrame
      /\ hand \in [Sources -> Frame \cup {NoFrame}]
      /\ sock' = [sock EXCEPT ![b] = Tail(@)] /\ hand' = [hand EXCEPT ![b] = new]
      /\ UNCHANGED <<count, raw, heap, clock>>
  BY DEF Read, Sources, TypeOK, TasksOK, bufferVars
<1>1. /\ old \in Frame /\ old \in Range(sock[b]) /\ Tail(sock[b]) \in Seq(Frame)
      /\ Range(Tail(sock[b])) \subseteq Range(sock[b]) /\ InOrder(Tail(sock[b]))
      /\ \A g \in Range(Tail(sock[b])) : Ahead(old, g)
  BY <1>0, QueueTaken DEF OrderInv, SourcesInOrder
<1>2. old.src = b /\ old.n <= count[b]
  BY <1>1 DEF OrderInv, OfTheirSource, Numbered
<1>3. /\ new \in Frame /\ new.src = b /\ new.n = old.n
      /\ new.at = IF b \in UserspaceStamps THEN clock ELSE old.at
  <2>1. new = IF b \in UserspaceStamps THEN [old EXCEPT !.at = clock] ELSE old
    BY <1>2 DEF Stamped
  <2>2. clock \in 0..clock
    BY OrderFacts
  <2>3. [old EXCEPT !.at = clock] \in Frame /\ [old EXCEPT !.at = clock].src = old.src
        /\ [old EXCEPT !.at = clock].n = old.n /\ [old EXCEPT !.at = clock].at = clock
    BY <1>1, <2>2 DEF Frame
  <2> QED BY <1>1, <1>2, <2>1, <2>3
<1> HIDE DEF old, new
<1>4. \A f \in InHand' : f \in InHand \/ f = new
  BY <1>0 DEF InHand
<1>5. /\ \A c \in Buses : c # b => sock'[c] = sock[c]
      /\ sock'[b] = Tail(sock[b])
      /\ \A c \in Buses : InOrder(sock'[c]) /\ Range(sock'[c]) \subseteq Range(sock[c])
  BY <1>0, <1>1 DEF OrderInv, SourcesInOrder
<1>6. ASSUME NEW f \in heap \cup Range(raw) PROVE Ahead(f, new)
  <2>1. AheadOfUnread(f, old)
    BY <1>1 DEF OrderInv, SourcesInOrder
  <2>2. f \in Frame /\ f.at <= clock
    BY OrderFacts
  <2> QED BY <1>2, <1>3, <2>1, <2>2 DEF Ahead, AheadOfUnread
<1>7. ASSUME NEW c \in Buses, NEW g \in Range(sock'[c]) PROVE AheadOfUnread(new, g)
  <2>1. CASE c = b
    BY <1>1, <1>2, <1>3, <1>5, <2>1 DEF Ahead, AheadOfUnread
  <2>2. CASE c # b
    BY <1>3, <1>5, <1>7, <2>2 DEF OrderInv, OfTheirSource, AheadOfUnread
  <2> QED BY <2>1, <2>2
<1>8. OfTheirSource'
  BY <1>0, <1>3, <1>5 DEF OrderInv, OfTheirSource
<1>9. SourcesInOrder'
  <2>1. ASSUME NEW f \in heap \cup Range(raw) \cup InHand', NEW c \in Buses,
               NEW g \in Range(sock'[c])
        PROVE  AheadOfUnread(f, g)
    BY <1>4, <1>5, <1>7 DEF OrderInv, SourcesInOrder
  <2>2. \A f \in heap \cup Range(raw) : \A g \in InHand' : Ahead(f, g)
    BY <1>4, <1>6 DEF OrderInv, SourcesInOrder
  <2> QED BY <1>0, <1>5, <2>1, <2>2 DEF OrderInv, SourcesInOrder
<1>10. Numbered'
  BY <1>0, <1>2, <1>3, <1>4, <1>5 DEF OrderInv, Numbered
<1> QED BY <1>8, <1>9, <1>10 DEF OrderInv

\* A socket that is closed loses its frames.
LEMMA CloseOrder ==
  ASSUME OrderInv, NEW b \in Buses, sock \in [Buses -> Seq(Frame)],
         sock' = [sock EXCEPT ![b] = <<>>], UNCHANGED <<hand, raw, heap, count>>
  PROVE  OrderInv'
<1>1. /\ \A c \in Buses : Range(sock'[c]) \subseteq Range(sock[c])
      /\ \A c \in Buses : InOrder(sock'[c])
      /\ InHand' = InHand
  BY EmptyQueue DEF InHand, OrderInv, SourcesInOrder
<1>2. OfTheirSource'
  BY <1>1 DEF OrderInv, OfTheirSource
<1>3. SourcesInOrder'
  BY <1>1 DEF OrderInv, SourcesInOrder
<1>4. Numbered'
  BY <1>1 DEF OrderInv, Numbered
<1> QED BY <1>2, <1>3, <1>4 DEF OrderInv

LEMMA SendOrder ==
  ASSUME TypeOK, OrderInv, NEW s \in Sources, SendRaw(s)
  PROVE  OrderInv'
<1> DEFINE e == hand[s]
<1>0. /\ hand \in [Sources -> Frame \cup {NoFrame}] /\ e \in Frame /\ e \in InHand /\ e.src = s
      /\ hand' = [hand EXCEPT ![s] = NoFrame] /\ raw' = Append(raw, e) /\ raw \in Seq(Frame)
      /\ UNCHANGED <<count, sock, heap>>
  BY OrderFacts DEF SendRaw, TypeOK, TasksOK, bufferVars, OrderInv, OfTheirSource
<1>1. \A f \in InHand' : f \in InHand /\ f.src # s
  <2> SUFFICES ASSUME NEW t \in Sources, hand'[t] # NoFrame
               PROVE  hand'[t] \in InHand /\ hand'[t].src # s
    BY <1>0 DEF InHand
  <2>1. t # s /\ hand'[t] = hand[t]
    BY <1>0
  <2> QED BY <2>1, OrderFacts DEF OrderInv, OfTheirSource
<1> HIDE DEF e
<1>2. \A f \in heap \cup Range(raw) : Ahead(f, e)
  BY <1>0 DEF OrderInv, SourcesInOrder
<1>3. Range(raw') = Range(raw) \cup {e} /\ InOrder(raw')
  BY <1>0, <1>2, QueueAdded DEF OrderInv, SourcesInOrder
<1>4. OfTheirSource'
  BY <1>0 DEF OrderInv, OfTheirSource
<1>5. SourcesInOrder'
  <2>1. \A g \in InHand' : Ahead(e, g)
    BY <1>0, <1>1 DEF Ahead
  <2> QED BY <1>0, <1>1, <1>2, <1>3, <2>1 DEF OrderInv, SourcesInOrder
<1>6. Numbered'
  BY <1>0, <1>1, <1>3 DEF OrderInv, Numbered
<1> QED BY <1>4, <1>5, <1>6 DEF OrderInv

LEMMA RecvOrder ==
  ASSUME TypeOK, OrderInv, Recv
  PROVE  OrderInv'
<1> DEFINE e == Head(raw)
<1>0. /\ raw \in Seq(Frame) /\ raw # <<>> /\ raw' = Tail(raw) /\ heap' = heap \cup {e}
      /\ UNCHANGED <<count, sock, hand>> /\ InHand' = InHand
  BY DEF Recv, TypeOK, RawOK, taskVars, InHand
<1>1. /\ e \in Frame /\ Range(raw) = {e} \cup Range(raw') /\ InOrder(raw')
      /\ \A g \in Range(raw') : Ahead(e, g)
  BY <1>0, QueueTaken DEF OrderInv, SourcesInOrder
<1> HIDE DEF e
<1>2. heap' \cup Range(raw') = heap \cup Range(raw)
  BY <1>0, <1>1
<1>3. \A f \in heap : Ahead(f, e) /\ f \in Frame /\ f.n \in Nat /\ e.n \in Nat /\ e.at \in Nat
  BY <1>1, OrderFacts DEF OrderInv, SourcesInOrder
<1>4. OfTheirSource'
  BY <1>0 DEF OrderInv, OfTheirSource
<1>5. SourcesInOrder'
  <2>1. \A f, g \in heap' : f.src = g.src /\ f.n < g.n => f.at <= g.at
    <3> SUFFICES ASSUME NEW f \in heap', NEW g \in heap', f.src = g.src, f.n < g.n
                 PROVE  f.at <= g.at
      OBVIOUS
    <3>1. CASE g = e
      BY <1>0, <1>1, <1>3, <3>1, OrderFacts DEF Ahead
    <3>2. CASE g # e /\ f = e
      BY <1>0, <1>3, <3>2 DEF Ahead
    <3>3. CASE g # e /\ f # e
      BY <1>0, <3>3 DEF OrderInv, SourcesInOrder
    <3> QED BY <3>1, <3>2, <3>3
  <2> QED BY <1>0, <1>1, <1>2, <2>1 DEF OrderInv, SourcesInOrder
<1>6. Numbered'
  BY <1>0, <1>2 DEF OrderInv, Numbered
<1> QED BY <1>4, <1>5, <1>6 DEF OrderInv

LEMMA OrderStep ==
  ASSUME TypeOK, OrderInv, [Next]_vars
  PROVE  OrderInv'
<1>1. CASE Recv
  BY <1>1, RecvOrder
<1>2. CASE Generate
  BY <1>2, GenerateOrder
<1>3. ASSUME NEW b \in Buses, Arrive(b) PROVE OrderInv'
  BY <1>3, ArriveOrder
<1>4. ASSUME NEW b \in Buses, Read(b) PROVE OrderInv'
  BY <1>4, ReadOrder
<1>5. ASSUME NEW s \in Sources, SendRaw(s) PROVE OrderInv'
  BY <1>5, SendOrder
<1>6. ASSUME NEW b \in Buses, ReadFails(b) PROVE OrderInv'
  BY <1>6, CloseOrder DEF ReadFails, TypeOK, TasksOK, bufferVars
<1>7. ASSUME NEW s \in Sources, Stop(s) PROVE OrderInv'
  <2>1. CASE s \in Buses
    BY <1>7, <2>1, CloseOrder DEF Stop, TypeOK, TasksOK, bufferVars
  <2>2. CASE s \notin Buses
    BY <1>7, <2>2, SameOrder DEF Stop, bufferVars
  <2> QED BY <2>1, <2>2
<1>8. ASSUME NEW f \in heap, Drain(f) \/ FlushRest(f) PROVE OrderInv'
  BY <1>8, SameOrder DEF Drain, FlushRest, Release, HeapWithout, taskVars
<1>9. ASSUME UNCHANGED <<sock, hand, raw, count, heap>> PROVE OrderInv'
  BY <1>9, SameOrder
<1>10. \/ UNCHANGED <<sock, hand, raw, count, heap>>
       \/ Recv \/ Generate
       \/ \E b \in Buses : Arrive(b) \/ Read(b) \/ ReadFails(b)
       \/ \E s \in Sources : SendRaw(s) \/ Stop(s)
       \/ \E f \in heap : Drain(f) \/ FlushRest(f)
  BY DEF Next, Reader, Sender, Buffer, Tick, Shutdown, Take, Open, Drained, RawClosed, Done,
         vars, taskVars, bufferVars
<1> QED BY <1>1, <1>2, <1>3, <1>4, <1>5, <1>6, <1>7, <1>8, <1>9, <1>10

\* Only the oldest of the heap is released.
LEMMA ReleasedIsOldest ==
  ASSUME TypeOK, Next, NEW f \in heap, Released(f)
  PROVE  Oldest(f)
<1>1. /\ ordered \in Seq(Frame) /\ Len(ordered') = Len(ordered) + 1 /\ Len(ordered) \in Nat
      /\ ordered'[Len(ordered) + 1] = f
  BY DEF Released, TypeOK, OutOK
<1>2. ordered' # ordered /\ (ordered # <<>> => ordered' # Tail(ordered))
  <2>1. ordered # <<>> => Len(Tail(ordered)) = Len(ordered) - 1
    BY <1>1
  <2> QED BY <1>1, <2>1
<1>3. PICK g \in heap : Drain(g) \/ FlushRest(g)
  BY <1>2 DEF Next, Reader, Sender, Buffer, Tick, Shutdown, Generate, Take, Arrive, Open,
              Read, ReadFails, SendRaw, Stop, Recv, Drained, RawClosed, Done
<1>4. ordered' = Append(ordered, g) /\ Oldest(g)
  BY <1>3 DEF Drain, FlushRest, Release
<1>5. ordered'[Len(ordered) + 1] = g
  BY <1>1, <1>4
<1> QED BY <1>1, <1>4, <1>5

(***************************************************************************)
(* The number of places of a frame.  Each step takes a frame from one      *)
(* place and puts it into another, or makes a new one.                     *)
(***************************************************************************)

One(P) == IF P THEN 1 ELSE 0
Ones(q, id) == Cardinality({i \in DOMAIN q : Id(q[i]) = id})
OnesOf(S, id) == Cardinality({f \in S : Id(f) = id})
Unread(id) == IF id[1] \in Buses THEN Ones(sock[id[1]], id) ELSE 0
Carried(id) == One(hand[id[1]] # NoFrame /\ Id(hand[id[1]]) = id)

Sum(id) ==
  Ones(raw, id) + Ones(ordered, id) + OnesOf(heap, id) + Carried(id) + One(id \in taken)
    + One(id \in lost) + Unread(id)

Ids == Sources \X Nat

Counted ==
  /\ IsFiniteSet(heap)
  /\ \A id \in Ids : Sum(id) = One(id[2] \in 1..count[id[1]])

LEMMA OnesFinite ==
  ASSUME NEW q \in Seq(Frame), NEW id
  PROVE  IsFiniteSet({i \in DOMAIN q : Id(q[i]) = id}) /\ Ones(q, id) \in Nat
<1>1. IsFiniteSet(1..Len(q)) /\ DOMAIN q = 1..Len(q)
  BY FS_Interval
<1>2. IsFiniteSet({i \in DOMAIN q : Id(q[i]) = id})
  BY <1>1, FS_Subset
<1> QED BY <1>2, FS_CardinalityType DEF Ones

LEMMA OnesNone ==
  ASSUME NEW q \in Seq(Frame), NEW id
  PROVE  Ones(q, id) = 0 <=> \A f \in Range(q) : Id(f) # id
<1>1. Ones(q, id) = 0 <=> {i \in DOMAIN q : Id(q[i]) = id} = {}
  BY OnesFinite, FS_EmptySet DEF Ones
<1> QED BY <1>1 DEF Range

LEMMA OnesEmpty == \A id : Ones(<<>>, id) = 0
<1> SUFFICES ASSUME NEW id PROVE Ones(<<>>, id) = 0
  OBVIOUS
<1>1. <<>> \in Seq(Frame)
  BY EmptySeq
<1> QED BY <1>1, OnesNone, EmptyQueue

LEMMA OnesAppend ==
  ASSUME NEW q \in Seq(Frame), NEW e \in Frame, NEW id
  PROVE  Ones(Append(q, e), id) = Ones(q, id) + One(Id(e) = id)
<1> DEFINE r == Append(q, e)
           A == {i \in DOMAIN q : Id(q[i]) = id}
           B == {i \in DOMAIN r : Id(r[i]) = id}
<1>1. /\ DOMAIN q = 1..Len(q) /\ Len(q) \in Nat
      /\ DOMAIN r = 1..(Len(q) + 1)
      /\ \A i \in 1..Len(q) : r[i] = q[i]
      /\ r[Len(q) + 1] = e
  OBVIOUS
<1>2. IsFiniteSet(A) /\ Cardinality(A) \in Nat /\ Ones(q, id) = Cardinality(A)
  BY OnesFinite DEF Ones
<1>3. Ones(r, id) = Cardinality(B)
  BY DEF Ones
<1>4. 1..(Len(q) + 1) = (1..Len(q)) \cup {Len(q) + 1} /\ Len(q) + 1 \notin 1..Len(q)
  BY <1>1
<1> HIDE DEF r
<1>5. CASE Id(e) = id
  <2>1. B = A \cup {Len(q) + 1} /\ Len(q) + 1 \notin A
    BY <1>1, <1>4, <1>5
  <2> HIDE DEF A, B
  <2>2. Cardinality(B) = Cardinality(A) + 1
    BY <1>2, <2>1, FS_AddElement
  <2>3. One(Id(e) = id) = 1
    BY <1>5 DEF One
  <2> QED BY <1>2, <1>3, <2>2, <2>3 DEF r
<1>6. CASE Id(e) # id
  <2>1. B = A
    BY <1>1, <1>4, <1>6
  <2> HIDE DEF A, B
  <2>2. One(Id(e) = id) = 0
    BY <1>6 DEF One
  <2> QED BY <1>2, <1>3, <2>1, <2>2 DEF r
<1> QED BY <1>5, <1>6

LEMMA OnesTail ==
  ASSUME NEW q \in Seq(Frame), q # <<>>, NEW id
  PROVE  Ones(q, id) = Ones(Tail(q), id) + One(Id(Head(q)) = id)
<1> DEFINE r == Tail(q)
           A == {i \in DOMAIN r : Id(r[i]) = id}
           B == {i \in DOMAIN q : Id(q[i]) = id}
           C == B \ {1}
<1>1. /\ Len(q) \in Nat \ {0} /\ r \in Seq(Frame) /\ Len(r) = Len(q) - 1
      /\ DOMAIN q = 1..Len(q) /\ DOMAIN r = 1..Len(r) /\ q[1] = Head(q)
      /\ \A i \in DOMAIN r : r[i] = q[i + 1]
  BY HeadTailProperties, EmptySeq
<1>2. /\ IsFiniteSet(A) /\ Cardinality(A) \in Nat /\ Ones(r, id) = Cardinality(A)
      /\ IsFiniteSet(B) /\ Cardinality(B) \in Nat /\ Ones(q, id) = Cardinality(B)
  BY <1>1, OnesFinite DEF Ones
<1> HIDE DEF r
<1>3. Cardinality(C) = Cardinality(A)
  <2> DEFINE next == [i \in A |-> i + 1]
  <2>1. \A i \in A : next[i] \in C
    BY <1>1
  <2>2. \A i \in A, j \in A : next[i] = next[j] => i = j
    BY <1>1
  <2>3. \A k \in C : k - 1 \in A /\ next[k - 1] = k
    <3> SUFFICES ASSUME NEW k \in C PROVE k - 1 \in A /\ next[k - 1] = k
      OBVIOUS
    <3>1. k - 1 \in DOMAIN r /\ (k - 1) + 1 = k
      BY <1>1
    <3>2. r[k - 1] = q[k]
      BY <1>1, <3>1
    <3> QED BY <3>1, <3>2
  <2>4. next \in [A -> C]
    BY <2>1
  <2> HIDE DEF A, C, next
  <2>5. next \in Bijection(A, C)
    BY <2>2, <2>3, <2>4 DEF Bijection, Injection, Surjection, IsInjective
  <2>6. ExistsBijection(A, C)
    BY <2>5 DEF ExistsBijection
  <2> QED BY <1>2, <2>6, FS_Bijection
<1>4. 1 \in B <=> Id(Head(q)) = id
  BY <1>1
<1>5. Cardinality(C) = IF 1 \in B THEN Cardinality(B) - 1 ELSE Cardinality(B)
  BY <1>2, FS_RemoveElement
<1> HIDE DEF A, B, C
<1>6. One(Id(Head(q)) = id) = IF 1 \in B THEN 1 ELSE 0
  BY <1>4 DEF One
<1>7. Cardinality(B) = Cardinality(A) + One(Id(Head(q)) = id)
  BY <1>2, <1>3, <1>5, <1>6
<1> QED BY <1>2, <1>7 DEF r

LEMMA OnesOfSet ==
  ASSUME NEW S, IsFiniteSet(S), NEW id
  PROVE  IsFiniteSet({f \in S : Id(f) = id}) /\ OnesOf(S, id) \in Nat
<1>1. IsFiniteSet({f \in S : Id(f) = id})
  BY FS_Subset
<1> QED BY <1>1, FS_CardinalityType DEF OnesOf

LEMMA OnesOfMore ==
  ASSUME NEW S, IsFiniteSet(S), NEW e, e \notin S, NEW id
  PROVE  OnesOf(S \cup {e}, id) = OnesOf(S, id) + One(Id(e) = id)
<1> DEFINE A == {f \in S : Id(f) = id}
           B == {f \in S \cup {e} : Id(f) = id}
<1>1. IsFiniteSet(A) /\ OnesOf(S, id) = Cardinality(A) /\ Cardinality(A) \in Nat
  BY OnesOfSet DEF OnesOf
<1>2. OnesOf(S \cup {e}, id) = Cardinality(B)
  BY DEF OnesOf
<1>3. CASE Id(e) = id
  <2>1. B = A \cup {e} /\ e \notin A
    BY <1>3
  <2> HIDE DEF A, B
  <2>2. Cardinality(B) = Cardinality(A) + 1
    BY <1>1, <2>1, FS_AddElement
  <2>3. One(Id(e) = id) = 1
    BY <1>3 DEF One
  <2> QED BY <1>1, <1>2, <2>2, <2>3
<1>4. CASE Id(e) # id
  <2>1. B = A
    BY <1>4
  <2> HIDE DEF A, B
  <2>2. One(Id(e) = id) = 0
    BY <1>4 DEF One
  <2> QED BY <1>1, <1>2, <2>1, <2>2
<1> QED BY <1>3, <1>4

LEMMA OnesOfLess ==
  ASSUME NEW S, IsFiniteSet(S), NEW e \in S, NEW id
  PROVE  OnesOf(S, id) = OnesOf(S \ {e}, id) + One(Id(e) = id)
<1>1. IsFiniteSet(S \ {e}) /\ (S \ {e}) \cup {e} = S
  BY FS_RemoveElement
<1> QED BY <1>1, OnesOfMore

\* The summands, in a state and in the next one.
LEMMA Summands ==
  ASSUME TypeOK, IsFiniteSet(heap), NEW id \in Ids
  PROVE  /\ Ones(raw, id) \in Nat /\ Ones(ordered, id) \in Nat /\ OnesOf(heap, id) \in Nat
         /\ Carried(id) \in Nat /\ One(id \in taken) \in Nat /\ One(id \in lost) \in Nat
         /\ Unread(id) \in Nat
<1>1. /\ raw \in Seq(Frame) /\ ordered \in Seq(Frame) /\ sock \in [Buses -> Seq(Frame)]
  BY DEF TypeOK, RawOK, OutOK, TasksOK
<1>2. Unread(id) \in Nat
  BY <1>1, OnesFinite DEF Unread
<1>3. Carried(id) \in Nat /\ One(id \in taken) \in Nat /\ One(id \in lost) \in Nat
  BY DEF One, Carried
<1> QED BY <1>1, <1>2, <1>3, OnesFinite, OnesOfSet

\* The places a frame may have, counted as the sum does.
LEMMA PlacesAreCounted ==
  ASSUME TypeOK, OfTheirSource, NEW id \in Ids
  PROVE  Places(id) = Sum(id)
<1>1. OnesOf(InHand, id) = Carried(id)
  <2> DEFINE H == {f \in InHand : Id(f) = id}
             h == hand[id[1]]
  <2>1. OnesOf(InHand, id) = Cardinality(H)
    BY DEF OnesOf
  <2>2. \A f \in H : f = h /\ h # NoFrame
    <3> SUFFICES ASSUME NEW t \in Sources, hand[t] # NoFrame, Id(hand[t]) = id
                 PROVE  t = id[1]
      BY DEF InHand
    <3>1. hand[t].src = t
      BY DEF OfTheirSource
    <3> QED BY <3>1 DEF Id
  <2>3. CASE h # NoFrame /\ Id(h) = id
    <3>1. h \in InHand
      BY <2>3 DEF InHand, Ids
    <3>2. H = {h}
      BY <2>2, <2>3, <3>1
    <3> QED BY <2>1, <2>3, <3>2, FS_Singleton DEF Carried, One
  <2>4. CASE ~(h # NoFrame /\ Id(h) = id)
    <3>1. H = {}
      BY <2>2, <2>4
    <3> QED BY <2>1, <2>4, <3>1, FS_EmptySet DEF Carried, One
  <2> QED BY <2>3, <2>4
<1>2. Places(id) = Ones(raw, id) + Ones(ordered, id) + OnesOf(heap, id) + OnesOf(InHand, id)
                   + One(id \in taken) + One(id \in lost) + Unread(id)
  BY DEF Places, Ones, OnesOf, One, Unread
<1> QED BY <1>1, <1>2 DEF Sum

LEMMA CountingFacts ==
  ASSUME TypeOK
  PROVE  /\ raw \in Seq(Frame) /\ ordered \in Seq(Frame) /\ sock \in [Buses -> Seq(Frame)]
         /\ hand \in [Sources -> Frame \cup {NoFrame}] /\ count \in [Sources -> Nat]
         /\ heap \subseteq Frame
         /\ \A f \in Frame : Id(f) \in Ids /\ Id(f)[1] = f.src /\ Id(f)[2] = f.n
         /\ \A id \in Ids : id[1] \in Sources /\ id[2] \in Nat /\ id = <<id[1], id[2]>>
         /\ \A f \in Frame : f # NoFrame
<1>1. /\ raw \in Seq(Frame) /\ ordered \in Seq(Frame) /\ sock \in [Buses -> Seq(Frame)]
      /\ hand \in [Sources -> Frame \cup {NoFrame}] /\ count \in [Sources -> Nat]
      /\ heap \subseteq Frame /\ clock \in Nat
  BY ConstantFacts DEF TypeOK, RawOK, OutOK, TasksOK, HeapOK
<1>2. \A f \in Frame : Id(f) \in Ids /\ Id(f)[1] = f.src /\ Id(f)[2] = f.n
  BY DEF Frame, Id, Ids
<1>3. \A id \in Ids : id[1] \in Sources /\ id[2] \in Nat /\ id = <<id[1], id[2]>>
  BY DEF Ids
<1>4. \A f \in Frame : f # NoFrame
  <2>1. Frame \subseteq [src : Buses \cup {Virtual}, n : Nat, at : Nat]
    BY <1>1 DEF Frame, Sources
  <2> QED BY <2>1, ConstantsAssumption
<1> QED BY <1>1, <1>2, <1>3, <1>4

LEMMA SumIsSmall ==
  ASSUME Counted, NEW id \in Ids
  PROVE  Sum(id) <= 1
<1>1. Sum(id) = One(id[2] \in 1..count[id[1]])
  BY DEF Counted
<1> QED BY <1>1 DEF One

\* A closed or shortened socket is still one.
LEMMA UnreadType ==
  ASSUME sock \in [Buses -> Seq(Frame)], NEW b \in Buses, NEW q \in Seq(Frame),
         sock' = [sock EXCEPT ![b] = q], NEW id
  PROVE  Unread(id)' \in Nat
<1>1. Unread(id)' = IF id[1] \in Buses THEN Ones(sock'[id[1]], id) ELSE 0
  BY DEF Unread
<1>2. id[1] \in Buses => sock'[id[1]] \in Seq(Frame)
  OBVIOUS
<1>3. CASE id[1] \in Buses
  <2>1. Ones(sock'[id[1]], id) \in Nat
    BY <1>2, <1>3, OnesFinite
  <2> QED BY <1>1, <1>3, <2>1
<1>4. CASE id[1] \notin Buses
  BY <1>1, <1>4
<1> QED BY <1>3, <1>4

\* A frame that moves on is counted where it comes, and no more where it was.
LEMMA SumKept ==
  ASSUME Counted, IsFiniteSet(heap'), count' = count, \A id \in Ids : Sum(id)' = Sum(id)
  PROVE  Counted'
BY DEF Counted

LEMMA SumUnmoved ==
  ASSUME Counted, UNCHANGED <<raw, ordered, heap, hand, taken, lost, sock, count>>
  PROVE  Counted'
<1>1. \A id \in Ids : Sum(id)' = Sum(id)
  BY DEF Sum, Carried, Unread
<1> QED BY <1>1, SumKept DEF Counted

LEMMA RecvCounts ==
  ASSUME TypeOK, OrderInv, Counted, Recv
  PROVE  Counted'
<1> DEFINE e == Head(raw)
<1>1. /\ raw # <<>> /\ raw' = Tail(raw) /\ heap' = heap \cup {e}
      /\ UNCHANGED <<ordered, hand, taken, lost, sock, count>>
  BY DEF Recv, taskVars
<1>2. e \in Frame /\ e \in Range(raw) /\ raw \in Seq(Frame)
  BY <1>1, CountingFacts, QueueTaken
<1>3. e \notin heap
  <2>1. e \in heap => e.n < e.n
    BY <1>2 DEF OrderInv, SourcesInOrder, Ahead
  <2> QED BY <1>2, <2>1, OrderFacts
<1> HIDE DEF e
<1>4. ASSUME NEW id \in Ids PROVE Sum(id)' = Sum(id)
  <2>1. Ones(raw, id) = Ones(raw', id) + One(Id(e) = id)
    BY <1>1, <1>2, OnesTail DEF e
  <2>2. OnesOf(heap', id) = OnesOf(heap, id) + One(Id(e) = id)
    BY <1>1, <1>3, OnesOfMore DEF Counted
  <2>3. Carried(id)' = Carried(id) /\ Unread(id)' = Unread(id)
    BY <1>1 DEF Carried, Unread
  <2>4. Ones(raw', id) \in Nat /\ One(Id(e) = id) \in Nat
    BY <1>1, <1>2, QueueTaken, OnesFinite DEF One
  <2> QED BY <1>1, <2>1, <2>2, <2>3, <2>4, Summands DEF Sum, Counted
<1>5. IsFiniteSet(heap')
  BY <1>1, FS_AddElement DEF Counted
<1> QED BY <1>1, <1>4, <1>5, SumKept

LEMMA ReleaseCounts ==
  ASSUME TypeOK, Counted, NEW f \in heap, Release(f)
  PROVE  Counted'
<1>1. /\ heap' = heap \ {f} /\ ordered' = Append(ordered, f) /\ f \in Frame
      /\ UNCHANGED <<raw, hand, taken, lost, sock, count>>
  BY CountingFacts DEF Release, HeapWithout, taskVars
<1>2. ASSUME NEW id \in Ids PROVE Sum(id)' = Sum(id)
  <2>1. Ones(ordered', id) = Ones(ordered, id) + One(Id(f) = id)
    BY <1>1, CountingFacts, OnesAppend
  <2>2. OnesOf(heap, id) = OnesOf(heap', id) + One(Id(f) = id)
    BY <1>1, OnesOfLess DEF Counted
  <2>3. Carried(id)' = Carried(id) /\ Unread(id)' = Unread(id)
    BY <1>1 DEF Carried, Unread
  <2>4. OnesOf(heap', id) \in Nat /\ One(Id(f) = id) \in Nat
    BY <1>1, FS_RemoveElement, OnesOfSet DEF One, Counted
  <2> QED BY <1>1, <2>1, <2>2, <2>3, <2>4, Summands DEF Sum, Counted
<1>3. IsFiniteSet(heap')
  BY <1>1, FS_RemoveElement DEF Counted
<1> QED BY <1>1, <1>2, <1>3, SumKept

LEMMA TakeCounts ==
  ASSUME TypeOK, Counted, Take
  PROVE  Counted'
<1> DEFINE e == Head(ordered)
<1>1. /\ ordered # <<>> /\ ordered' = Tail(ordered) /\ taken' = taken \cup {Id(e)}
      /\ UNCHANGED <<raw, heap, hand, lost, sock, count>>
  BY DEF Take, taskVars, bufferVars
<1>2. e \in Frame /\ ordered \in Seq(Frame) /\ ordered' \in Seq(Frame)
  BY <1>1, CountingFacts, QueueTaken
<1> HIDE DEF e
<1>3. ASSUME NEW id \in Ids PROVE Sum(id)' = Sum(id)
  <2>1. Ones(ordered, id) = Ones(ordered', id) + One(Id(e) = id)
    BY <1>1, <1>2, OnesTail DEF e
  <2>2. Carried(id)' = Carried(id) /\ Unread(id)' = Unread(id)
    BY <1>1 DEF Carried, Unread
  <2>3. Ones(ordered', id) \in Nat /\ Sum(id) <= 1
    BY <1>2, OnesFinite, SumIsSmall
  <2>4. One(id \in taken') = One(id \in taken) + One(Id(e) = id)
    <3>1. CASE Id(e) = id
      <4>1. One(Id(e) = id) = 1 /\ One(id \in taken') = 1
        BY <1>1, <3>1 DEF One
      <4>2. One(id \in taken) = 0
        BY <2>1, <2>3, <4>1, Summands DEF Sum, Counted
      <4> QED BY <4>1, <4>2
    <3>2. CASE Id(e) # id
      <4>1. One(Id(e) = id) = 0 /\ One(id \in taken') = One(id \in taken)
        BY <1>1, <3>2 DEF One
      <4> QED BY <4>1, Summands DEF Counted
    <3> QED BY <3>1, <3>2
  <2>5. One(Id(e) = id) \in Nat
    BY DEF One
  <2>6. Sum(id)' = Ones(raw, id) + Ones(ordered', id) + OnesOf(heap, id) + Carried(id)
                   + One(id \in taken') + One(id \in lost) + Unread(id)
    BY <1>1, <2>2 DEF Sum
  <2> QED BY <2>1, <2>3, <2>4, <2>5, <2>6, Summands DEF Sum, Counted
<1> QED BY <1>1, <1>3, SumKept DEF Counted

LEMMA SendCounts ==
  ASSUME TypeOK, OrderInv, Counted, NEW s \in Sources, SendRaw(s)
  PROVE  Counted'
<1> DEFINE e == hand[s]
<1>1. /\ e # NoFrame /\ raw' = Append(raw, e) /\ hand' = [hand EXCEPT ![s] = NoFrame]
      /\ UNCHANGED <<ordered, heap, taken, lost, sock, count>>
  BY DEF SendRaw, bufferVars
<1>2. e \in Frame /\ e.src = s
  BY <1>1, CountingFacts DEF OrderInv, OfTheirSource
<1>3. ASSUME NEW id \in Ids PROVE Sum(id)' = Sum(id)
  <2>1. Ones(raw', id) = Ones(raw, id) + One(Id(e) = id)
    BY <1>1, <1>2, CountingFacts, OnesAppend
  <2>2. Carried(id) = Carried(id)' + One(Id(e) = id)
    <3>1. CASE id[1] = s
      <4>1. hand'[id[1]] = NoFrame /\ hand[id[1]] = e
        BY <1>1, <3>1, CountingFacts
      <4>2. Carried(id)' = 0 /\ Carried(id) = One(Id(e) = id)
        BY <1>1, <4>1 DEF Carried, One
      <4> QED BY <4>2 DEF One
    <3>2. CASE id[1] # s
      <4>1. Id(e) # id
        BY <1>2, <3>2, CountingFacts
      <4>2. One(Id(e) = id) = 0
        BY <4>1 DEF One
      <4>3. Carried(id)' = Carried(id)
        BY <1>1, <3>2, CountingFacts DEF Carried
      <4> QED BY <4>2, <4>3, Summands DEF Counted
    <3> QED BY <3>1, <3>2
  <2>3. Unread(id)' = Unread(id)
    BY <1>1 DEF Unread
  <2>4. One(Id(e) = id) \in Nat /\ Carried(id)' \in Nat
    BY DEF One, Carried
  <2>5. Sum(id)' = Ones(raw', id) + Ones(ordered, id) + OnesOf(heap, id) + Carried(id)'
                   + One(id \in taken) + One(id \in lost) + Unread(id)
    BY <1>1, <2>3 DEF Sum
  <2> QED BY <2>1, <2>2, <2>4, <2>5, Summands DEF Sum, Counted
<1> QED BY <1>1, <1>3, SumKept DEF Counted

LEMMA ReadCounts ==
  ASSUME TypeOK, OrderInv, Counted, NEW b \in Buses, Read(b)
  PROVE  Counted'
<1> DEFINE e == Head(sock[b])
<1>1. /\ sock[b] # <<>> /\ hand[b] = NoFrame /\ b \in Sources
      /\ hand' = [hand EXCEPT ![b] = Stamped(e)] /\ sock' = [sock EXCEPT ![b] = Tail(@)]
      /\ UNCHANGED <<raw, ordered, heap, taken, lost, count>>
  BY DEF Read, bufferVars, Sources
<1>2. /\ e \in Frame /\ e.src = b /\ sock[b] \in Seq(Frame) /\ Tail(sock[b]) \in Seq(Frame)
      /\ sock'[b] = Tail(sock[b]) /\ \A c \in Buses : c # b => sock'[c] = sock[c]
      /\ hand'[b] = Stamped(e) /\ \A t \in Sources : t # b => hand'[t] = hand[t]
  BY <1>1, CountingFacts, QueueTaken DEF OrderInv, OfTheirSource
<1>3. Stamped(e) \in Frame /\ Id(Stamped(e)) = Id(e)
  <2>1. clock \in 0..clock
    BY OrderFacts
  <2>2. [e EXCEPT !.at = clock] \in Frame /\ Id([e EXCEPT !.at = clock]) = Id(e)
    BY <1>2, <2>1 DEF Frame, Id
  <2> QED BY <1>2, <2>2 DEF Stamped
<1> HIDE DEF e
<1>4. ASSUME NEW id \in Ids PROVE Sum(id)' = Sum(id)
  <2>1. Unread(id) = Unread(id)' + One(Id(e) = id) /\ Carried(id)' = Carried(id) + One(Id(e) = id)
    <3>1. CASE id[1] = b
      <4>1. Ones(sock[b], id) = Ones(Tail(sock[b]), id) + One(Id(e) = id)
        BY <1>1, <1>2, OnesTail DEF e
      <4>2. Unread(id) = Ones(sock[b], id) /\ Unread(id)' = Ones(Tail(sock[b]), id)
        BY <1>2, <3>1 DEF Unread
      <4>3. Carried(id) = 0 /\ Carried(id)' = One(Id(e) = id)
        <5>1. Carried(id) = 0
          BY <1>1, <3>1 DEF Carried, One
        <5>2. hand'[id[1]] # NoFrame /\ Id(hand'[id[1]]) = Id(e)
          BY <1>2, <1>3, <3>1, CountingFacts
        <5> QED BY <5>1, <5>2 DEF Carried, One
      <4> QED BY <4>1, <4>2, <4>3 DEF One
    <3>2. CASE id[1] # b
      <4>1. Id(e) # id
        BY <1>2, <3>2, CountingFacts
      <4>2. One(Id(e) = id) = 0
        BY <4>1 DEF One
      <4>3. Carried(id)' = Carried(id) /\ Unread(id)' = Unread(id)
        BY <1>2, <3>2, CountingFacts DEF Carried, Unread
      <4> QED BY <4>2, <4>3, Summands DEF Counted
    <3> QED BY <3>1, <3>2
  <2>2. One(Id(e) = id) \in Nat /\ Unread(id)' \in Nat
    <3>1. Unread(id)' \in Nat
      BY <1>1, <1>2, CountingFacts, UnreadType
    <3> QED BY <3>1 DEF One
  <2>3. Sum(id)' = Ones(raw, id) + Ones(ordered, id) + OnesOf(heap, id) + Carried(id)'
                   + One(id \in taken) + One(id \in lost) + Unread(id)'
    BY <1>1 DEF Sum
  <2> QED BY <2>1, <2>2, <2>3, Summands DEF Sum, Counted
<1> QED BY <1>1, <1>4, SumKept DEF Counted

\* The frames of a socket that is closed are lost, and were nowhere else.
Closes(b) ==
  /\ sock' = [sock EXCEPT ![b] = <<>>]
  /\ lost' = lost \cup {Id(f) : f \in Range(sock[b])}
  /\ UNCHANGED <<raw, ordered, heap, hand, taken, count>>

LEMMA CloseCounts ==
  ASSUME TypeOK, OrderInv, Counted, NEW b \in Buses, Closes(b)
  PROVE  Counted'
<1>1. /\ sock[b] \in Seq(Frame) /\ sock'[b] = <<>> /\ \A c \in Buses : c # b => sock'[c] = sock[c]
      /\ \A f \in Range(sock[b]) : f \in Frame /\ f.src = b
      /\ lost' = lost \cup {Id(f) : f \in Range(sock[b])}
      /\ UNCHANGED <<raw, ordered, heap, hand, taken, count>>
  BY CountingFacts, OrderFacts DEF OrderInv, OfTheirSource, Closes
<1>2. ASSUME NEW id \in Ids PROVE Sum(id)' = Sum(id)
  <2> DEFINE before == One(id \in lost)
             after == One(id \in lost')
  <2>1. Carried(id)' = Carried(id)
    BY <1>1 DEF Carried
  <2>2. Sum(id) <= 1
    BY SumIsSmall
  <2>3. after + Unread(id)' = before + Unread(id)
    <3>1. CASE id[1] = b
      <4>1. Unread(id) = Ones(sock[b], id) /\ Unread(id)' = 0
        BY <1>1, <3>1, OnesEmpty DEF Unread
      <4>2. CASE Ones(sock[b], id) = 0
        <5>1. \A f \in Range(sock[b]) : Id(f) # id
          BY <1>1, <4>2, OnesNone
        <5>2. after = before
          BY <1>1, <5>1 DEF One
        <5> QED BY <4>1, <4>2, <5>2
      <4>3. CASE Ones(sock[b], id) # 0
        <5>1. \E f \in Range(sock[b]) : Id(f) = id
          BY <1>1, <4>3, OnesNone
        <5>2. after = 1
          BY <1>1, <5>1 DEF One
        <5>3. Ones(sock[b], id) = 1 /\ before = 0
          <6>1. Sum(id) = Ones(raw, id) + Ones(ordered, id) + OnesOf(heap, id) + Carried(id)
                  + One(id \in taken) + before + Ones(sock[b], id)
            BY <4>1 DEF Sum
          <6>2. Ones(sock[b], id) \in Nat
            BY <1>1, OnesFinite
          <6>3. /\ Ones(raw, id) \in Nat /\ Ones(ordered, id) \in Nat /\ OnesOf(heap, id) \in Nat
                /\ Carried(id) \in Nat /\ One(id \in taken) \in Nat /\ before \in Nat
            BY Summands DEF Counted
          <6> HIDE DEF before
          <6> DEFINE rest == Ones(raw, id) + Ones(ordered, id) + OnesOf(heap, id) + Carried(id)
                             + One(id \in taken)
          <6>4. rest \in Nat /\ Sum(id) = rest + before + Ones(sock[b], id)
            BY <6>1, <6>3
          <6> HIDE DEF rest
          <6> QED BY <2>2, <4>3, <6>2, <6>3, <6>4
        <5> QED BY <4>1, <5>2, <5>3
      <4> QED BY <4>2, <4>3
    <3>2. CASE id[1] # b
      <4>1. \A f \in Range(sock[b]) : Id(f) # id
        BY <1>1, <3>2, CountingFacts
      <4>2. after = before
        BY <1>1, <4>1 DEF One
      <4>3. Unread(id)' = Unread(id)
        BY <1>1, <3>2 DEF Unread
      <4> QED BY <4>2, <4>3
    <3> QED BY <3>1, <3>2
  <2>4. after \in Nat /\ Unread(id)' \in Nat
    <3>1. Unread(id)' \in Nat
      BY CountingFacts, EmptySeq, UnreadType DEF Closes
    <3> QED BY <3>1 DEF One
  <2>5. Sum(id)' = Ones(raw, id) + Ones(ordered, id) + OnesOf(heap, id) + Carried(id)
                   + One(id \in taken) + after + Unread(id)'
    BY <1>1, <2>1 DEF Sum
  <2>6. /\ Ones(raw, id) \in Nat /\ Ones(ordered, id) \in Nat /\ OnesOf(heap, id) \in Nat
        /\ Carried(id) \in Nat /\ One(id \in taken) \in Nat /\ before \in Nat
        /\ Unread(id) \in Nat
    BY Summands DEF Counted
  <2>7. Sum(id) = Ones(raw, id) + Ones(ordered, id) + OnesOf(heap, id) + Carried(id)
                  + One(id \in taken) + before + Unread(id)
    BY DEF Sum
  <2> HIDE DEF before, after
  <2> QED BY <2>3, <2>4, <2>5, <2>6, <2>7
<1> QED BY <1>1, <1>2, SumKept DEF Counted

\* A new frame is at one place, and was at none.
LEMMA NewCounts ==
  ASSUME TypeOK, Counted, NEW s \in Sources, count' = [count EXCEPT ![s] = @ + 1],
         heap' = heap, \A id \in Ids : Sum(id)' = Sum(id) + One(Id(NewFrame(s)) = id)
  PROVE  Counted'
<1>1. /\ count[s] \in Nat /\ Id(NewFrame(s)) = <<s, count[s] + 1>>
      /\ \A t \in Sources : count'[t] = IF t = s THEN count[t] + 1 ELSE count[t]
  BY CountingFacts DEF NewFrame, Id
<1>2. ASSUME NEW id \in Ids PROVE Sum(id)' = One(id[2] \in 1..count'[id[1]])
  <2>1. Sum(id) = One(id[2] \in 1..count[id[1]]) /\ id[2] \in Nat /\ id[1] \in Sources
    BY CountingFacts DEF Counted
  <2>2. CASE id = Id(NewFrame(s))
    <3>1. id[1] = s /\ id[2] = count[s] + 1
      BY <1>1, <2>2
    <3>2. Sum(id) = 0 /\ id[2] \in 1..count'[id[1]]
      BY <1>1, <2>1, <3>1 DEF One
    <3> QED BY <2>2, <3>2 DEF One
  <2>3. CASE id # Id(NewFrame(s))
    <3>1. id[1] # s \/ id[2] # count[s] + 1
      BY <1>1, <2>3, CountingFacts
    <3>2. id[2] \in 1..count'[id[1]] <=> id[2] \in 1..count[id[1]]
      BY <1>1, <2>1, <3>1
    <3>3. One(id[2] \in 1..count'[id[1]]) = One(id[2] \in 1..count[id[1]])
      BY <3>2 DEF One
    <3>4. One(Id(NewFrame(s)) = id) = 0
      BY <2>3 DEF One
    <3>5. One(id[2] \in 1..count[id[1]]) \in Nat
      BY DEF One
    <3> QED BY <2>1, <3>3, <3>4, <3>5
  <2> QED BY <2>2, <2>3
<1> QED BY <1>2 DEF Counted

LEMMA ArriveCounts ==
  ASSUME TypeOK, OrderInv, Counted, NEW b \in Buses, Arrive(b)
  PROVE  Counted'
<1> DEFINE e == NewFrame(b)
<1>1. /\ b \in Sources /\ e \in Frame /\ e.src = b
      /\ count' = [count EXCEPT ![b] = @ + 1]
      /\ UNCHANGED <<raw, ordered, heap, hand, taken>>
  BY NewIsLast DEF Arrive, bufferVars, Sources
<1>2. ASSUME NEW id \in Ids PROVE Sum(id)' = Sum(id) + One(Id(e) = id)
  <2>1. Carried(id)' = Carried(id)
    BY <1>1 DEF Carried
  <2>2. One(Id(e) = id) \in Nat
    BY DEF One
  <2>3. CASE sock' = [sock EXCEPT ![b] = Append(@, e)] /\ UNCHANGED lost
    <3>1. /\ sock[b] \in Seq(Frame) /\ sock'[b] = Append(sock[b], e)
          /\ \A c \in Buses : c # b => sock'[c] = sock[c]
      BY <2>3, CountingFacts
    <3>2. Unread(id)' = Unread(id) + One(Id(e) = id)
      <4>1. CASE id[1] = b
        <5>1. Unread(id) = Ones(sock[b], id) /\ Unread(id)' = Ones(Append(sock[b], e), id)
          BY <3>1, <4>1 DEF Unread
        <5> QED BY <1>1, <3>1, <5>1, OnesAppend
      <4>2. CASE id[1] # b
        <5>1. Id(e) # id
          BY <1>1, <4>2, CountingFacts
        <5>2. One(Id(e) = id) = 0
          BY <5>1 DEF One
        <5>3. Unread(id)' = Unread(id)
          BY <3>1, <4>2 DEF Unread
        <5> QED BY <5>2, <5>3, Summands DEF Counted
      <4> QED BY <4>1, <4>2
    <3>3. Sum(id)' = Ones(raw, id) + Ones(ordered, id) + OnesOf(heap, id) + Carried(id)
                     + One(id \in taken) + One(id \in lost) + Unread(id)'
      BY <1>1, <2>1, <2>3 DEF Sum
    <3> QED BY <2>2, <3>2, <3>3, Summands DEF Sum, Counted
  <2>4. CASE lost' = lost \cup {Id(e)} /\ UNCHANGED sock
    <3>1. One(id \in lost') = One(id \in lost) + One(Id(e) = id)
      <4>1. CASE Id(e) = id
        <5>1. id[1] = b /\ id[2] = count[b] + 1 /\ count[b] \in Nat
          BY <1>1, <4>1, CountingFacts DEF NewFrame, Id
        <5>2. Sum(id) = 0
          BY <5>1 DEF Counted, One
        <5>3. One(id \in lost) = 0
          BY <5>2, Summands DEF Sum, Counted
        <5>4. One(id \in lost') = 1 /\ One(Id(e) = id) = 1
          BY <2>4, <4>1 DEF One
        <5> QED BY <5>3, <5>4
      <4>2. CASE Id(e) # id
        <5>1. One(Id(e) = id) = 0 /\ One(id \in lost') = One(id \in lost)
          BY <2>4, <4>2 DEF One
        <5> QED BY <5>1, Summands DEF Counted
      <4> QED BY <4>1, <4>2
    <3>2. Unread(id)' = Unread(id)
      BY <2>4 DEF Unread
    <3>3. Sum(id)' = Ones(raw, id) + Ones(ordered, id) + OnesOf(heap, id) + Carried(id)
                     + One(id \in taken) + One(id \in lost') + Unread(id)
      BY <1>1, <2>1, <3>2 DEF Sum
    <3> QED BY <2>2, <3>1, <3>3, Summands DEF Sum, Counted
  <2> QED BY <2>3, <2>4 DEF Arrive
<1> QED BY <1>1, <1>2, NewCounts

LEMMA GenerateCounts ==
  ASSUME TypeOK, OrderInv, Counted, Generate
  PROVE  Counted'
<1> DEFINE e == NewFrame(Virtual)
<1>1. /\ Virtual \in Sources /\ e \in Frame /\ e.src = Virtual /\ hand[Virtual] = NoFrame
      /\ count' = [count EXCEPT ![Virtual] = @ + 1] /\ hand' = [hand EXCEPT ![Virtual] = e]
      /\ UNCHANGED <<raw, ordered, heap, taken, lost, sock>>
  BY NewIsLast DEF Generate, bufferVars, Sources
<1>2. hand'[Virtual] = e /\ \A t \in Sources : t # Virtual => hand'[t] = hand[t]
  BY <1>1, CountingFacts
<1>3. ASSUME NEW id \in Ids PROVE Sum(id)' = Sum(id) + One(Id(e) = id)
  <2>1. Carried(id)' = Carried(id) + One(Id(e) = id)
    <3>1. CASE id[1] = Virtual
      <4>1. Carried(id) = 0
        BY <1>1, <3>1 DEF Carried, One
      <4>2. hand'[id[1]] = e /\ e # NoFrame
        BY <1>1, <1>2, <3>1, CountingFacts
      <4> QED BY <4>1, <4>2 DEF Carried, One
    <3>2. CASE id[1] # Virtual
      <4>1. Id(e) # id
        BY <1>1, <3>2, CountingFacts
      <4>2. One(Id(e) = id) = 0 /\ Carried(id)' = Carried(id)
        BY <1>2, <3>2, <4>1, CountingFacts DEF Carried, One
      <4> QED BY <4>2, Summands DEF Counted
    <3> QED BY <3>1, <3>2
  <2>2. Unread(id)' = Unread(id) /\ One(Id(e) = id) \in Nat
    BY <1>1 DEF Unread, One
  <2> QED BY <1>1, <2>1, <2>2, Summands DEF Sum, Counted
<1> QED BY <1>1, <1>3, NewCounts

LEMMA InitCounts == Init => Counted
<1> SUFFICES ASSUME Init PROVE Counted
  OBVIOUS
<1>1. IsFiniteSet(heap)
  BY FS_EmptySet DEF Init
<1>2. ASSUME NEW id \in Ids PROVE Sum(id) = One(id[2] \in 1..count[id[1]])
  <2>1. Ones(raw, id) = 0 /\ Ones(ordered, id) = 0 /\ Unread(id) = 0
    BY OnesEmpty DEF Init, Unread
  <2>2. OnesOf(heap, id) = 0
    <3>1. {f \in heap : Id(f) = id} = {}
      BY DEF Init
    <3> QED BY <3>1, FS_EmptySet DEF OnesOf
  <2>3. Carried(id) = 0 /\ One(id \in taken) = 0 /\ One(id \in lost) = 0
    BY DEF Init, Carried, One, Ids
  <2>4. One(id[2] \in 1..count[id[1]]) = 0
    <3>1. count[id[1]] = 0
      BY DEF Init, Ids
    <3> QED BY <3>1 DEF One
  <2> QED BY <2>1, <2>2, <2>3, <2>4 DEF Sum
<1> QED BY <1>1, <1>2 DEF Counted

LEMMA CountStep ==
  ASSUME TypeOK, OrderInv, Counted, [Next]_vars
  PROVE  Counted'
<1>1. CASE Recv
  BY <1>1, RecvCounts
<1>2. CASE Generate
  BY <1>2, GenerateCounts
<1>3. ASSUME NEW b \in Buses, Arrive(b) PROVE Counted'
  BY <1>3, ArriveCounts
<1>4. ASSUME NEW b \in Buses, Read(b) PROVE Counted'
  BY <1>4, ReadCounts
<1>5. ASSUME NEW s \in Sources, SendRaw(s) PROVE Counted'
  BY <1>5, SendCounts
<1>6. ASSUME NEW b \in Buses, ReadFails(b) PROVE Counted'
  BY <1>6, CloseCounts DEF Closes, ReadFails, bufferVars
<1>7. ASSUME NEW s \in Sources, Stop(s) PROVE Counted'
  <2>1. CASE s \in Buses
    BY <1>7, <2>1, CloseCounts DEF Closes, Stop, bufferVars
  <2>2. CASE s \notin Buses
    BY <1>7, <2>2, SumUnmoved DEF Stop, bufferVars
  <2> QED BY <2>1, <2>2
<1>8. ASSUME NEW f \in heap, Drain(f) \/ FlushRest(f) PROVE Counted'
  BY <1>8, ReleaseCounts DEF Drain, FlushRest
<1>9. CASE Take
  BY <1>9, TakeCounts
<1>10. CASE UNCHANGED <<raw, ordered, heap, hand, taken, lost, sock, count>>
  BY <1>10, SumUnmoved
<1>11. \/ UNCHANGED <<raw, ordered, heap, hand, taken, lost, sock, count>>
       \/ Recv \/ Generate \/ Take
       \/ \E b \in Buses : Arrive(b) \/ Read(b) \/ ReadFails(b)
       \/ \E s \in Sources : SendRaw(s) \/ Stop(s)
       \/ \E f \in heap : Drain(f) \/ FlushRest(f)
  BY DEF Next, Reader, Sender, Buffer, Tick, Shutdown, Open, Drained, RawClosed, Done,
         vars, taskVars, bufferVars
<1> QED BY <1>1, <1>2, <1>3, <1>4, <1>5, <1>6, <1>7, <1>8, <1>9, <1>10, <1>11

\* Between the buses and the main loop no frame is copied, none is lost but in the kernel,
\* and none overtakes another of its source, whatever the buses, capacities, delays,
\* window and offset, unless both carry the same stamp.
THEOREM SourcesAreKept == Spec => SourcesComeThrough
<1>1. Init => TypeOK /\ OrderInv /\ Counted
  BY InitType, InitOrder, InitCounts
<1>2. TypeOK /\ OrderInv /\ Counted /\ [Next]_vars => TypeOK' /\ OrderInv' /\ Counted'
  BY NextType, OrderStep, CountStep
<1>3. TypeOK /\ OrderInv /\ Counted => EachFrameOnce
  <2> SUFFICES ASSUME TypeOK, OrderInv, Counted, NEW s \in Sources, NEW n \in 1..count[s]
               PROVE  Places(<<s, n>>) = 1
    BY Zenon DEF EachFrameOnce
  <2>1. <<s, n>> \in Ids
    BY DEF Ids
  <2>2. Sum(<<s, n>>) = 1
    BY <2>1 DEF Counted, One
  <2> QED BY <2>1, <2>2, PlacesAreCounted DEF OrderInv
<1>4. TypeOK /\ OrderInv /\ [Next]_vars =>
        [\A f \in heap : Released(f) =>
           \A g \in InFlight \cup heap : g.src = f.src /\ g.n < f.n => g.at = f.at]_vars
  <2> SUFFICES ASSUME TypeOK, OrderInv, Next, NEW f \in heap, Released(f),
                      NEW g \in InFlight \cup heap, g.src = f.src, g.n < f.n
               PROVE  g.at = f.at
    OBVIOUS
  <2>1. f \in Frame /\ f.n \in Nat /\ f.at \in Nat
    BY OrderFacts
  <2>2. g \in heap
    <3>1. g \notin Range(raw) /\ g \notin InHand
      BY <2>1, OrderFacts DEF OrderInv, SourcesInOrder, Ahead
    <3>2. \A b \in Buses : g \notin Range(sock[b])
      BY <2>1, OrderFacts DEF OrderInv, SourcesInOrder, AheadOfUnread
    <3>3. g \notin UNION {Range(sock[b]) : b \in Buses}
      BY <3>2
    <3> QED BY <3>1, <3>3 DEF InFlight
  <2>3. g \in Frame /\ g.at \in Nat /\ g.at <= f.at
    BY <2>2, OrderFacts DEF OrderInv, SourcesInOrder
  <2>4. Timestamp(f) <= Timestamp(g)
    BY <2>2, ReleasedIsOldest DEF Oldest
  <2>5. f.at <= g.at
    BY <2>1, <2>3, <2>4, ConstantFacts DEF Timestamp
  <2> QED BY <2>1, <2>3, <2>5
<1> QED BY <1>1, <1>2, <1>3, <1>4, PTL DEF Spec, SourcesComeThrough, SourceOrderKept
===============================================================================
