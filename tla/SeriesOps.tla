------------------------------- MODULE SeriesOps -------------------------------
(***************************************************************************)
(* The recorded series and what the charts compute from them: the circular *)
(* buffer of a signal (static/src/utils/circularBuffer.js), its reduction  *)
(* to a few points (utils/lttb.js), and the alignment, windows and         *)
(* statistics of utils/chartHelpers.js.                                    *)
(*                                                                         *)
(* A series is a sequence of samples [t, v]; the code has two arrays.      *)
(* Times and values are integers, and averages are kept as sum and count.  *)
(* Definitions marked "mutant" are wrong variants of the one that follows  *)
(* them.                                                                   *)
(***************************************************************************)
EXTENDS Integers, Sequences, SequencesExt, Sums

Sample(t, v) == [t |-> t, v |-> v]
Times(s) == [i \in DOMAIN s |-> s[i].t]
Values(s) == [i \in DOMAIN s |-> s[i].v]
Larger(a, b) == IF a > b THEN a ELSE b
Smaller(a, b) == IF a < b THEN a ELSE b
Distance(a, b) == Larger(a - b, b - a)

-----------------------------------------------------------------------------
(* CircularBuffer.                                                         *)

EmptyRing(size) == [slots |-> [i \in 0..(size - 1) |-> Sample(0, 0)], head |-> 0, count |-> 0]
Size(ring) == Cardinality(DOMAIN ring.slots)

(* Mutant: the head runs past the end.                                     *)
HeadPastEnd(ring) == (ring.head + 1) % (Size(ring) + 1)
NextHead(ring) == (ring.head + 1) % Size(ring)

Push(ring, sample) ==
  [slots |-> [ring.slots EXCEPT ![ring.head] = sample],
   head |-> NextHead(ring),
   count |-> Smaller(ring.count + 1, Size(ring))]

(* Mutant: the oldest sample is looked for where the next one is written,  *)
(* even before the buffer is full.                                         *)
StartAtHead(ring) == ring.head
RingStart(ring) == IF ring.count < Size(ring) THEN 0 ELSE ring.head

Ordered(ring) == [i \in 1..ring.count |-> ring.slots[(RingStart(ring) + i - 1) % Size(ring)]]
LastTimestamp(ring) == ring.slots[(ring.head - 1 + Size(ring)) % Size(ring)].t

(* toArrays: the samples after the last one that is too old.               *)
ToArrays(ring, since) ==
  LET s == Ordered(ring)
  IN SubSeq(s, SelectLastInSeq(s, LAMBDA x : x.t < since) + 1, Len(s))

(* getBuffer, with a window in seconds.                                    *)
WindowOf(ring, seconds) == ToArrays(ring, LastTimestamp(ring) - seconds)

-----------------------------------------------------------------------------
(* lttb: the first and the last sample, and from each bucket between the   *)
(* one that makes the largest triangle with the one before and the average *)
(* of the next bucket.  Indices are those of the sequence, from 1.         *)

BucketStart(s, threshold, i) == (i * (Len(s) - 2)) \div (threshold - 2) + 2
BucketEnd(s, threshold, i) == Smaller(BucketStart(s, threshold, i + 1) - 1, Len(s))

(* Twice the area, times the number of samples averaged, those of next.    *)
Area(s, a, j, next) ==
  LET n == Len(next)
      ts == SumOf(Times(next))
      vs == SumOf(Values(next))
  IN Distance((n * s[a].t - ts) * (s[j].v - s[a].v), (s[a].t - s[j].t) * (vs - n * s[a].v))

(* Mutant: a bucket begins one sample early.                               *)
OverlappingChoice(s, threshold, i, a) == BucketStart(s, threshold, i) - 1
Choice(s, threshold, i, a) ==
  LET b == BucketStart(s, threshold, i)..BucketEnd(s, threshold, i)
      next == SubSeq(s, BucketStart(s, threshold, i + 1), BucketEnd(s, threshold, i + 1))
      area(j) == Area(s, a, j, next)
  IN CHOOSE j \in b : \A k \in b : area(k) < area(j) \/ (area(k) = area(j) /\ j <= k)

Lttb(s, threshold) ==
  IF threshold >= Len(s) \/ threshold <= 2 THEN s
  ELSE LET pick[i \in 0..(threshold - 2)] ==
             IF i = 0 THEN 1 ELSE Choice(s, threshold, i - 1, pick[i - 1])
       IN [i \in 1..threshold |-> IF i = threshold THEN s[Len(s)] ELSE s[pick[i - 1]]]

-----------------------------------------------------------------------------
(* mergeBuffers: the first of the longest series gives the times.          *)

Longest(results) ==
  CHOOSE i \in DOMAIN results : \A k \in DOMAIN results :
    Len(results[k]) < Len(results[i]) \/ (Len(results[k]) = Len(results[i]) /\ i <= k)

(* The pointer into s, which only moves forward, for each of the times.    *)
Pointers(s, times) ==
  LET ptr[i \in 0..Len(times)] ==
        IF i = 0 THEN 1
        ELSE LET late == {k \in (ptr[i - 1] + 1)..Len(s) : s[k].t > times[i]}
             IN IF late = {} THEN Larger(ptr[i - 1], Len(s))
                ELSE (CHOOSE k \in late : \A m \in late : k <= m) - 1
  IN ptr

(* A series of the same length is taken to have the same times; one that   *)
(* is missing is drawn as zeros.                                           *)
Aligned(s, times) ==
  IF s = << >> THEN [i \in DOMAIN times |-> 0]
  ELSE IF Len(s) = Len(times) THEN Values(s)
  ELSE [i \in DOMAIN times |-> s[Pointers(s, times)[i]].v]

MergeBuffers(results) ==
  LET times == Times(results[Longest(results)])
  IN [times |-> times, values |-> [k \in DOMAIN results |-> Aligned(results[k], times)]]

-----------------------------------------------------------------------------
(* The bounds of a history, and times relative to its start.               *)

NoBounds == [start |-> 0, end |-> 0]
HistoryBounds(results) ==
  LET some == {i \in DOMAIN results : results[i] # << >>}
  IN IF some = {} THEN NoBounds
     ELSE [start |-> CHOOSE t \in {results[i][1].t : i \in some} :
                       \A i \in some : t <= results[i][1].t,
           end |-> CHOOSE t \in {Last(results[i]).t : i \in some} :
                     \A i \in some : t >= Last(results[i]).t]
Duration(bounds) == Larger(0, bounds.end - bounds.start)
RelativeTimes(times, start) == [i \in DOMAIN times |-> Larger(0, times[i] - start)]

-----------------------------------------------------------------------------
(* getNearestSample: a binary search, then the nearer of the two samples   *)
(* around it, the earlier one if they are as near.                         *)

(* The index found, or the place where the time would be inserted.         *)
Search(s, target) ==
  LET probe[r \in (1..(Len(s) + 1)) \X (0..Len(s))] ==
        LET lo == r[1]
            hi == r[2]
            mid == (lo + hi) \div 2
        IN IF lo > hi THEN [found |-> FALSE, at |-> lo]
           ELSE IF s[mid].t < target THEN probe[<<mid + 1, hi>>]
           ELSE IF s[mid].t > target THEN probe[<<lo, mid - 1>>]
           ELSE [found |-> TRUE, at |-> mid]
  IN probe[<<1, Len(s)>>]

NearestSample(s, target) ==
  LET hit == Search(s, target)
      next == s[Smaller(hit.at, Len(s))]
      prev == s[Larger(1, hit.at - 1)]
  IN IF hit.found THEN s[hit.at]
     ELSE IF Distance(prev.t, target) <= Distance(next.t, target) THEN prev ELSE next

(* The samples before the first one after end, and those from the first    *)
(* one not before start on.                                                *)
UpTo(s, end) ==
  LET past == {i \in DOMAIN s : s[i].t > end}
  IN IF past = {} THEN s ELSE SubSeq(s, 1, (CHOOSE i \in past : \A k \in past : i <= k) - 1)
From(s, start) ==
  LET kept == {i \in DOMAIN s : s[i].t >= start}
  IN IF kept = {} THEN << >> ELSE SubSeq(s, CHOOSE i \in kept : \A k \in kept : i <= k, Len(s))

NoStats == [count |-> 0, sum |-> 0, min |-> 0, max |-> 0]
Counted(stats, v) ==
  [count |-> stats.count + 1, sum |-> stats.sum + v,
   min |-> IF stats.count = 0 THEN v ELSE Smaller(stats.min, v),
   max |-> IF stats.count = 0 THEN v ELSE Larger(stats.max, v)]
WindowStats(s, from, to) ==
  LET read == UpTo(s, Larger(from, to))
      after[i \in 0..Len(read)] ==
        IF i = 0 THEN NoStats
        ELSE IF read[i].t < Smaller(from, to) THEN after[i - 1] ELSE Counted(after[i - 1], read[i].v)
  IN after[Len(read)]

SliceByWindow(s, from, to) == UpTo(From(s, Smaller(from, to)), Larger(from, to))
=============================================================================
