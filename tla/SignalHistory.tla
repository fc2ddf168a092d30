----------------------------- MODULE SignalHistory ----------------------------
(***************************************************************************)
(* The worker's buffers along a collection (static/src/workers/worker.js   *)
(* with utils/circularBuffer.js, canDecode.js, lttb.js and chartHelpers.js)*)
(* and what the charts make of them, against what these should be: each    *)
(* function is compared, at every state, with a definition of another      *)
(* shape, on the series that the frames received have produced.            *)
(***************************************************************************)
EXTENDS View, CanSignals, SeriesOps

CONSTANTS
  Descriptors,                  \* signals by CAN id: each id has one here
  Contents,                     \* data of a frame
  Steps,                        \* time from one frame to the next
  Capacity,                     \* of a circular buffer
  MaxReceived                   \* bound: frames

ASSUME SeriesAssumption ==
  /\ Steps \subseteq Nat \ {0} /\ Capacity \in Nat \ {0} /\ MaxReceived \in Nat
  /\ \A id \in DOMAIN Descriptors, data \in Contents : DecodeSignal(data, Descriptors[id]) \in Int

VARIABLES
  rings,                        \* the circular buffer of each signal
  received                      \* ghost: every frame so far, [t, v = [id, data]]

seriesVars == <<rings, received>>

SeriesTypeOK ==
  /\ \A id \in DOMAIN Descriptors :
       /\ rings[id].head \in 0..(Capacity - 1)
       /\ rings[id].count \in 0..Capacity
  /\ Len(received) <= MaxReceived

SeriesInit ==
  /\ rings = [id \in DOMAIN Descriptors |-> EmptyRing(Capacity)]
  /\ received = << >>

(* handleFrame, for the buffer: decode and push with the frame's time.     *)
ReceiveFrame ==
  /\ Len(received) < MaxReceived
  /\ \E id \in DOMAIN Descriptors, data \in Contents, dt \in Steps :
       LET t == IF received = << >> THEN 10 ELSE Last(received).t + dt
       IN /\ received' = Append(received, Sample(t, [id |-> id, data |-> data]))
          /\ rings' = [rings EXCEPT ![id] = Push(@, Sample(t, DecodeSignal(data, Descriptors[id])))]
  /\ UNCHANGED viewVars

SeriesNext == ReceiveFrame

-----------------------------------------------------------------------------
(* What is expected, on data as one number.                                *)

(* Intel counts bits from the first byte's lowest, the number being        *)
(* little-endian; Motorola's bit is the highest of the signal.             *)
LittleEndian(data) == FoldLeft(LAMBDA n, b : 256 * n + b, 0, Reverse(data))
BigEndian(data) == FoldLeft(LAMBDA n, b : 256 * n + b, 0, data)
Raw(data, sig) ==
  IF sig.bo = "Intel" THEN (LittleEndian(data) \div 2^sig.sb) % 2^sig.len
  ELSE LET before == 8 * (sig.sb \div 8) + 7 - (sig.sb % 8)
       IN (BigEndian(data) \div 2^(8 * Len(data) - before - sig.len)) % 2^sig.len

(* Two's complement.                                                       *)
Expected(data, sig) ==
  LET raw == Raw(data, sig)
      half == 2^(sig.len - 1)
  IN sig.o + sig.f * (IF sig.signed THEN ((raw + half) % (2 * half)) - half ELSE raw)

(* Each sample in a buffer is of a frame received, and has the value that  *)
(* the frame's data stand for (canDecode.js: extractBits, decodeSignal).   *)
SamplesAreDecoded ==
  view = "series" =>
    \A id \in DOMAIN Descriptors : \A x \in ToSet(Ordered(rings[id])) :
      \E f \in ToSet(received) :
        f.v.id = id /\ f.t = x.t /\ x.v = Expected(f.v.data, Descriptors[id])

-----------------------------------------------------------------------------
(* The samples of one signal, and the whole series of what was received.   *)
DecodedFrame(frame) == Sample(frame.t, DecodeSignal(frame.v.data, Descriptors[frame.v.id]))
Recorded(id) == {DecodedFrame(received[i]) : i \in {j \in DOMAIN received : received[j].v.id = id}}
Everything == [i \in DOMAIN received |-> DecodedFrame(received[i])]
TimesAround == IF received = << >> THEN {} ELSE (received[1].t - 1)..(Last(received).t + 1)

InOrder(s) == \A i, k \in DOMAIN s : i < k => s[i].t < s[k].t

(* A circular buffer holds the newest samples, oldest first, whatever has  *)
(* been overwritten, and gives out those of a window.                      *)
BuffersHoldTheNewest ==
  \A id \in DOMAIN Descriptors :
    LET held == Ordered(rings[id])
        recordedOf == Recorded(id)
    IN /\ InOrder(held) /\ ToSet(held) \subseteq recordedOf
       /\ Len(held) = Smaller(Cardinality(recordedOf), Capacity)
       /\ \A x \in recordedOf \ ToSet(held) : \A i \in DOMAIN held : x.t < held[i].t
       /\ held # << >> =>
            \A w \in 0..4 :
              LET window == WindowOf(rings[id], w)
              IN /\ InOrder(window)
                 /\ ToSet(window) = {x \in ToSet(held) : x.t >= Last(held).t - w}

(* The reduction keeps the ends, and of each part between them one sample  *)
(* of the series: the number asked for, in order.                          *)
ReductionKeepsOrder(s) ==
  \A n \in 3..Len(s) :
    LET r == Lttb(s, n)
    IN /\ Len(r) = n
       /\ r[1] = s[1] /\ Last(r) = Last(s)
       /\ ToSet(r) \subseteq ToSet(s)
       /\ InOrder(r)

(* Each series drawn against the times of the longest one has, at each of  *)
(* them, its last value until then, or its first one, but for a series of  *)
(* the same number of samples, whose times are not looked at.              *)
At(s, t) ==
  LET until == {i \in DOMAIN s : s[i].t <= t}
  IN IF until = {} THEN s[1].v ELSE s[CHOOSE i \in until : \A k \in until : k <= i].v
AlignmentIsCausal(a, b) ==
  LET merged == MergeBuffers(<<a, b>>)
  IN \A k \in {1, 2} :
       LET s == <<a, b>>[k] IN
       /\ Len(merged.values[k]) = Len(merged.times)
       /\ \A i \in DOMAIN merged.times :
            merged.values[k][i] = IF s = << >> THEN 0
                                  ELSE IF Len(a) = Len(b) THEN s[i].v ELSE At(s, merged.times[i])

(* The sample at the cursor is the nearest one.                            *)
CursorIsNearest(s, t) ==
  LET near == NearestSample(s, t) IN
  \A i \in DOMAIN s :
    \/ Distance(near.t, t) < Distance(s[i].t, t)
    \/ Distance(near.t, t) = Distance(s[i].t, t) /\ near.t <= s[i].t

(* The figures of a window are those of the samples drawn in it.           *)
WindowAgrees(s, from, to) ==
  LET slice == SliceByWindow(s, from, to)
      figures == WindowStats(s, from, to)
      taken == ToSet(Values(slice))
  IN /\ InOrder(slice)
     /\ ToSet(slice) = {x \in ToSet(s) : x.t \in Smaller(from, to)..Larger(from, to)}
     /\ figures.count = Len(slice) /\ figures.sum = SumOf(Values(slice))
     /\ slice # << >> =>
          /\ {figures.min, figures.max} \subseteq taken
          /\ \A v \in taken : figures.min <= v /\ v <= figures.max

(* The times drawn are from the first sample of the collection on, and     *)
(* within its duration.                                                    *)
TimesAreRelative(a, b) ==
  LET bounds == HistoryBounds(<<a, b>>)
  IN \A k \in {1, 2} :
       LET s == <<a, b>>[k]
           relative == RelativeTimes(Times(s), bounds.start)
       IN s # << >> =>
            /\ relative = [i \in DOMAIN s |-> s[i].t - bounds.start]
            /\ Last(relative) <= Duration(bounds)

(* What the worker and the charts make of the frames is what the           *)
(* definitions above say of the samples recorded.                          *)
SeriesMatchReference ==
  view = "series" =>
    LET s == Everything IN
    /\ BuffersHoldTheNewest
    /\ ReductionKeepsOrder(s)
    /\ \A t \in TimesAround : CursorIsNearest(s, t)
    /\ \A from \in TimesAround : \A to \in {from - 3, from, from + 1, from + 4} :
         WindowAgrees(s, from, to)
    /\ \A p, q \in DOMAIN Descriptors :
         LET a == Ordered(rings[p])
             b == Ordered(rings[q])
         IN AlignmentIsCausal(a, b) /\ TimesAreRelative(a, b)
=============================================================================
