---------------------------- MODULE ReorderBuffer ----------------------------
(***************************************************************************)
(* What lies between the two CAN buses and the main loop of telemetry-edge *)
(* (telemetry-edge/src/main.rs): one reader task per bus and the task that *)
(* generates the 0x700 network frame write into one raw channel;           *)
(* run_reorder_buffer sorts by timestamp with a watermark and a window and *)
(* writes into the ordered channel, which the main loop consumes, or does  *)
(* not while it is reconnecting.                                           *)
(*                                                                         *)
(* Time is a counter.  A frame records its source, its number at the       *)
(* source and the time "at" at which it was stamped; its timestamp adds    *)
(* the measured clock offset, except for the network frame, whose task     *)
(* does not add it.  A definition marked "mutant" is a wrong variant of    *)
(* the one below it and not a part of the model.                           *)
(***************************************************************************)
EXTENDS Integers, Sequences, FiniteSets, Functions

CONSTANTS
  Buses,           (* can0 and can1                                        *)
  Virtual,         (* the source of the 0x700 frames                       *)
  UserspaceStamps, (* buses on which SO_TIMESTAMPING could not be set      *)
  ClockOffset,     (* clock_offset, measured against the server at start   *)
  Window,          (* reorder_window_ms, at least 1                        *)
  SockCap,         (* frames the kernel queues per socket                  *)
  RawCap,          (* capacity of the raw channel                          *)
  OrderedCap,      (* capacity of the ordered channel                      *)
  MaxTime,         (* bound on the clock                                   *)
  MaxFrames,       (* bound on the frames of each source                   *)
  Faults,          (* which of "shutdown" and "read" (read errors) happen   *)
  NoFrame

ASSUME ConstantsAssumption ==
  /\ Virtual \notin Buses
  /\ UserspaceStamps \subseteq Buses
  /\ ClockOffset \in Int
  /\ {Window, SockCap, RawCap, OrderedCap, MaxTime} \subseteq Nat \ {0}
  /\ MaxFrames \in [Buses \cup {Virtual} -> Nat]
  /\ Faults \subseteq {"shutdown", "read"}
  /\ NoFrame \notin [src : Buses \cup {Virtual}, n : Nat, at : Nat]

Sources == Buses \cup {Virtual}
Id(f) == <<f.src, f.n>>

VARIABLES
  clock,
  running,     (* the shared AtomicBool                                    *)
  open,        (* buses whose socket is open                               *)
  count,       (* frames each source has produced so far                   *)
  sock,        (* the kernel's queue of each bus, oldest first             *)
  hand,        (* the frame a task holds in tx.send, or NoFrame            *)
  stopped,     (* sources whose task has returned                          *)
  raw,         (* the raw channel                                          *)
  heap,        (* the min-heap of run_reorder_buffer                       *)
  watermark,   (* the largest timestamp it has received                    *)
  cur,         (* the frame it received last                               *)
  phase,       (* "recv", "drain", "flush" (raw channel closed) or "done"  *)
  ordered,     (* the ordered channel                                      *)
  late,        (* cur came more than the window after its stamp (history)  *)
  newest,      (* largest timestamp released so far (history)              *)
  taken,       (* ids of the frames the main loop has received (history)   *)
  lost         (* ids of the frames lost in the kernel (history)           *)

taskVars   == <<running, open, count, sock, hand, stopped>>
bufferVars == <<heap, watermark, cur, phase, late>>
vars == <<clock, taskVars, raw, bufferVars, ordered, newest, taken, lost>>

\* Below every timestamp: f64::NEG_INFINITY.
NegInfinity == -(MaxTime + Window + 1) - (IF ClockOffset < 0 THEN -ClockOffset ELSE ClockOffset)

Timestamp(f) == IF f.src = Virtual THEN f.at ELSE f.at + ClockOffset

Init ==
  /\ clock = 0
  /\ running = TRUE
  /\ open = {}
  /\ count = [s \in Sources |-> 0]
  /\ sock = [b \in Buses |-> <<>>]
  /\ hand = [s \in Sources |-> NoFrame]
  /\ stopped = {}
  /\ raw = <<>>
  /\ heap = {}
  /\ watermark = NegInfinity
  /\ cur = NoFrame
  /\ late = FALSE
  /\ phase = "recv"
  /\ ordered = <<>>
  /\ newest = NegInfinity - Window
  /\ taken = {}
  /\ lost = {}

InHand   == {hand[s] : s \in Sources} \ {NoFrame}
InFlight == (UNION {Range(sock[b]) : b \in Buses}) \cup InHand \cup Range(raw)

\* Time passes, at any moment: a task may be scheduled late, and the main loop may leave
\* the ordered channel full for as long as it has no connection.
Tick ==
  /\ clock < MaxTime
  /\ clock' = clock + 1
  /\ UNCHANGED <<taskVars, raw, bufferVars, ordered, newest, taken, lost>>

(***************************************************************************)
(* run_socketcan_reader and the generator of the network frame             *)
(***************************************************************************)

NewFrame(s) == [src |-> s, n |-> count[s] + 1, at |-> clock]

\* A frame arrives on a bus: queued by the kernel, or lost when the queue is full
\* or the socket is not open.
Arrive(b) ==
  /\ count[b] < MaxFrames[b]
  /\ count' = [count EXCEPT ![b] = @ + 1]
  /\ IF b \in open /\ Len(sock[b]) < SockCap
     THEN sock' = [sock EXCEPT ![b] = Append(@, NewFrame(b))] /\ UNCHANGED lost
     ELSE lost' = lost \cup {Id(NewFrame(b))} /\ UNCHANGED sock
  /\ UNCHANGED <<clock, running, open, hand, stopped, raw, bufferVars, ordered, newest, taken>>

Open(b) ==
  /\ running
  /\ b \notin open \cup stopped
  /\ open' = open \cup {b}
  /\ UNCHANGED <<clock, running, count, sock, hand, stopped, raw, bufferVars, ordered,
                 newest, taken, lost>>

\* Without kernel timestamps the frame is stamped when it is read.
Stamped(f) == IF f.src \in UserspaceStamps THEN [f EXCEPT !.at = clock] ELSE f

Read(b) ==
  /\ running
  /\ b \in open
  /\ hand[b] = NoFrame
  /\ sock[b] # <<>>
  /\ hand' = [hand EXCEPT ![b] = Stamped(Head(sock[b]))]
  /\ sock' = [sock EXCEPT ![b] = Tail(@)]
  /\ UNCHANGED <<clock, running, open, count, stopped, raw, bufferVars, ordered, newest,
                 taken, lost>>

\* A read error: the socket is closed, with what the kernel had queued on it.
ReadFails(b) ==
  /\ "read" \in Faults
  /\ b \in open
  /\ hand[b] = NoFrame
  /\ open' = open \ {b}
  /\ sock' = [sock EXCEPT ![b] = <<>>]
  /\ lost' = lost \cup {Id(f) : f \in Range(sock[b])}
  /\ UNCHANGED <<clock, running, count, hand, stopped, raw, bufferVars, ordered, newest, taken>>

\* The generator ticks: its frame is stamped before the send that may block.
Generate ==
  /\ running
  /\ Virtual \notin stopped
  /\ hand[Virtual] = NoFrame
  /\ count[Virtual] < MaxFrames[Virtual]
  /\ count' = [count EXCEPT ![Virtual] = @ + 1]
  /\ hand' = [hand EXCEPT ![Virtual] = NewFrame(Virtual)]
  /\ UNCHANGED <<clock, running, open, sock, stopped, raw, bufferVars, ordered, newest,
                 taken, lost>>

Unbounded == TRUE                                                 \* mutant
RawHasRoom == Len(raw) < RawCap

\* tx.send(frame).await completes when the raw channel has room.
SendRaw(s) ==
  /\ hand[s] # NoFrame
  /\ RawHasRoom
  /\ raw' = Append(raw, hand[s])
  /\ hand' = [hand EXCEPT ![s] = NoFrame]
  /\ UNCHANGED <<clock, running, open, count, sock, stopped, bufferVars, ordered, newest,
                 taken, lost>>

Shutdown ==
  /\ "shutdown" \in Faults
  /\ running
  /\ running' = FALSE
  /\ UNCHANGED <<clock, open, count, sock, hand, stopped, raw, bufferVars, ordered, newest,
                 taken, lost>>

\* A task sees running = FALSE at the top of its loop and returns.
Stop(s) ==
  /\ ~running
  /\ s \notin stopped
  /\ hand[s] = NoFrame
  /\ stopped' = stopped \cup {s}
  /\ open' = open \ {s}
  /\ IF s \in Buses
     THEN /\ sock' = [sock EXCEPT ![s] = <<>>]
          /\ lost' = lost \cup {Id(f) : f \in Range(sock[s])}
     ELSE UNCHANGED <<sock, lost>>
  /\ UNCHANGED <<clock, running, count, hand, raw, bufferVars, ordered, newest, taken>>

(***************************************************************************)
(* run_reorder_buffer                                                      *)
(***************************************************************************)

Greater(a, b) == IF a >= b THEN a ELSE b

RaisedBy(f) == Greater(watermark, Timestamp(f))

Recv ==
  /\ phase = "recv"
  /\ raw # <<>>
  /\ raw' = Tail(raw)
  /\ cur' = Head(raw)
  /\ late' = (clock - Head(raw).at > Window)
  /\ heap' = heap \cup {Head(raw)}
  /\ watermark' = RaisedBy(Head(raw))
  /\ phase' = "drain"
  /\ UNCHANGED <<clock, taskVars, ordered, newest, taken, lost>>

NoWindow(f) == Timestamp(f) <= watermark                          \* mutant
Mature(f) == Timestamp(f) <= watermark - Window

AnyOf(f) == TRUE                                                  \* mutant
Oldest(f) == \A g \in heap : Timestamp(f) <= Timestamp(g)

PeekOnly(f) == heap                                               \* mutant
HeapWithout(f) == heap \ {f}

\* The heap gives away a frame with the least timestamp and the ordered channel
\* takes it; while the channel is full the task waits in ordered_tx.send.
Release(f) ==
  /\ f \in heap /\ Oldest(f)
  /\ Len(ordered) < OrderedCap
  /\ heap' = HeapWithout(f)
  /\ ordered' = Append(ordered, f)
  /\ newest' = Greater(newest, Timestamp(f))
  /\ UNCHANGED <<clock, taskVars, raw, watermark, cur, late, taken, lost>>

Drain(f) ==
  /\ phase = "drain"
  /\ Mature(f)
  /\ Release(f)
  /\ UNCHANGED phase

Drained ==
  /\ phase = "drain"
  /\ \A f \in heap : ~Mature(f)
  /\ phase' = "recv"
  /\ cur' = NoFrame
  /\ late' = FALSE
  /\ UNCHANGED <<clock, taskVars, raw, heap, watermark, ordered, newest, taken, lost>>

\* drop(raw_tx) in main leaves the senders of the tasks only.
NeverClosed == FALSE                                              \* mutant
SendersGone == stopped = Sources

\* raw_rx.recv() gives None: the channel is empty and every sender is gone.
RawClosed ==
  /\ phase = "recv"
  /\ raw = <<>>
  /\ SendersGone
  /\ phase' = "flush"
  /\ UNCHANGED <<clock, taskVars, raw, heap, watermark, cur, late, ordered, newest, taken, lost>>

FlushRest(f) ==
  /\ phase = "flush"
  /\ Release(f)
  /\ UNCHANGED phase

Done ==
  /\ phase = "flush"
  /\ heap = {}
  /\ phase' = "done"
  /\ UNCHANGED <<clock, taskVars, raw, heap, watermark, cur, late, ordered, newest, taken, lost>>

\* The main loop receives a frame.
Take ==
  /\ ordered # <<>>
  /\ ordered' = Tail(ordered)
  /\ taken' = taken \cup {Id(Head(ordered))}
  /\ UNCHANGED <<clock, taskVars, raw, bufferVars, newest, lost>>

-----------------------------------------------------------------------------

Reader == \E b \in Buses : Arrive(b) \/ Open(b) \/ Read(b) \/ ReadFails(b)

Sender == \E s \in Sources : SendRaw(s) \/ Stop(s)

Buffer == Recv \/ Drained \/ RawClosed \/ Done \/ \E f \in heap : Drain(f) \/ FlushRest(f)

Next ==
  \/ Tick \/ Shutdown \/ Generate \/ Take
  \/ Reader
  \/ Sender
  \/ Buffer

Spec == Init /\ [][Next]_vars

\* The runtime schedules its tasks fairly and the main loop comes back.
Fairness ==
  /\ WF_vars(Buffer)
  /\ WF_vars(Take)
  /\ WF_vars(Sender)

FairSpec == Spec /\ Fairness

-----------------------------------------------------------------------------
(* Properties *)

\* Frames never carry a stamp from the future.
Frame == [src : Sources, n : Nat, at : 0..clock]

TasksOK ==
  /\ clock \in 0..MaxTime
  /\ running \in BOOLEAN
  /\ open \subseteq Buses
  /\ stopped \subseteq Sources
  /\ count \in [Sources -> Nat]
  /\ sock \in [Buses -> Seq(Frame)]
  /\ hand \in [Sources -> Frame \cup {NoFrame}]

RawOK == raw \in Seq(Frame) /\ Len(raw) <= RawCap

HeapOK ==
  /\ heap \subseteq Frame
  /\ watermark \in Int
  /\ cur \in Frame \cup {NoFrame}
  /\ phase \in {"recv", "drain", "flush", "done"}
  /\ late \in BOOLEAN
  /\ newest \in Int

OutOK ==
  /\ ordered \in Seq(Frame) /\ Len(ordered) <= OrderedCap
  /\ taken \cup lost \subseteq Sources \X Nat

\* Channels stay within their capacities and no frame, wherever it is, carries a stamp
\* from the future.
TypeOK == TasksOK /\ RawOK /\ HeapOK /\ OutOK

Released(f) == f \in heap /\ ordered' = Append(ordered, f)

\* main.rs:690-693, "garante saida ordenada por timestamp mesmo com jitter": a frame
\* that reaches the heap within the window of its stamp never comes out after a newer one.
WindowAbsorbsJitter ==
  [][\A f \in heap : Released(f) /\ Timestamp(f) < newest => late]_vars

\* Whatever the delays and the offset, the only frame that can come out after a
\* newer one is the one received last, and only if it was mature on arrival: the
\* disorder is never passed on to the frames that wait in the heap.
OnlyLateFramesOvertaken ==
  [][\A f \in heap : Released(f) /\ Timestamp(f) < newest =>
       f = cur /\ Timestamp(f) <= watermark - Window]_vars

\* The frames of one source never overtake each other, not even when they are late.
SourceOrderKept ==
  [][\A f \in heap : Released(f) =>
       \A g \in InFlight \cup heap :
         g.src = f.src /\ g.n < f.n => g.at = f.at]_vars

\* Each frame is at exactly one place: it is lost only in the kernel, and never twice
\* in the pipeline.
Places(id) ==
  LET In(seq) == Cardinality({i \in DOMAIN seq : Id(seq[i]) = id})
      Among(S) == Cardinality({f \in S : Id(f) = id})
      Holds(ids) == IF id \in ids THEN 1 ELSE 0
  IN In(raw) + In(ordered) + Among(heap) + Among(InHand) + Holds(taken) + Holds(lost)
     + (IF id[1] \in Buses THEN In(sock[id[1]]) ELSE 0)
EachFrameOnce == \A s \in Sources : \A n \in 1..count[s] : Places(<<s, n>>) = 1

\* After a shutdown the buffer releases everything it holds and ends.
ShutdownDrains == ~running ~> phase = "done" /\ heap = {} /\ raw = <<>>

\* On its way through the buffer no frame is lost or copied, nor does it pass another
\* one of its source.
SourcesComeThrough == []EachFrameOnce /\ SourceOrderKept
===============================================================================
