--------------------------- MODULE ServerIngestProofs ---------------------------
(***************************************************************************)
(* What the server's ingest keeps, for every number of connections and CAN *)
(* ids, every capacity and batch, and every failure of the two databases:  *)
(* no frame is lost without a cause, each table has the frames of a        *)
(* connection in order and once, and dashboards get them at their rate.    *)
(***************************************************************************)
EXTENDS ServerIngest, SequenceTheorems, TLAPS

(***************************************************************************)
(* What the operations on channels, batches and tables do to the set of    *)
(* elements a sequence holds.                                              *)
(***************************************************************************)

\* A sequence over S holds elements of S only.
LEMMA RangeInSet ==
  ASSUME NEW S, NEW s \in Seq(S)
  PROVE  Range(s) \subseteq S
BY DEF Range

\* Putting a frame in a channel adds exactly this frame.
LEMMA RangeAppend ==
  ASSUME NEW S, NEW s \in Seq(S), NEW e \in S
  PROVE  Range(Append(s, e)) = Range(s) \cup {e}
<1>1. /\ DOMAIN s = 1..Len(s) /\ Len(s) \in Nat
      /\ DOMAIN Append(s, e) = 1..(Len(s) + 1)
      /\ \A i \in 1..Len(s) : Append(s, e)[i] = s[i]
      /\ Append(s, e)[Len(s) + 1] = e
  OBVIOUS
<1>2. 1..(Len(s) + 1) = (1..Len(s)) \cup {Len(s) + 1}
  BY <1>1
<1> QED
  BY <1>1, <1>2, ZenonT(30) DEF Range

\* Taking the head of a channel removes no other frame.
LEMMA RangeTail ==
  ASSUME NEW S, NEW s \in Seq(S), s # <<>>
  PROVE  Range(s) = {Head(s)} \cup Range(Tail(s))
<1>1. Len(s) \in Nat \ {0} /\ Tail(s) \in Seq(S) /\ Len(Tail(s)) = Len(s) - 1
  BY HeadTailProperties, EmptySeq
<1>2. \A i \in DOMAIN s : s[i] \in {Head(s)} \cup Range(Tail(s))
  <2> SUFFICES ASSUME NEW i \in 1..Len(s), i # 1
               PROVE  s[i] \in Range(Tail(s))
    BY <1>1
  <2>1. i - 1 \in DOMAIN Tail(s) /\ Tail(s)[i - 1] = s[i]
    BY <1>1, HeadTailProperties
  <2> QED BY <2>1 DEF Range
<1>3. Head(s) \in Range(s)
  BY <1>1 DEF Range
<1>4. \A i \in DOMAIN Tail(s) : i + 1 \in DOMAIN s /\ Tail(s)[i] = s[i + 1]
  BY <1>1, HeadTailProperties
<1> QED
  BY <1>2, <1>3, <1>4 DEF Range

\* A transaction stores the rows it had and the frames it got.
LEMMA RangeConcat ==
  ASSUME NEW S, NEW s \in Seq(S), NEW t \in Seq(S)
  PROVE  Range(s \o t) = Range(s) \cup Range(t)
<1>1. /\ Len(s) \in Nat /\ Len(t) \in Nat
      /\ DOMAIN s = 1..Len(s) /\ DOMAIN t = 1..Len(t)
      /\ s \o t \in Seq(S) /\ DOMAIN (s \o t) = 1..(Len(s) + Len(t))
  BY ConcatProperties
<1>2. \A i \in 1..Len(s) : (s \o t)[i] = s[i]
  BY <1>1, ConcatProperties
<1>3. \A i \in 1..Len(t) : (s \o t)[Len(s) + i] = t[i] /\ Len(s) + i \in 1..(Len(s) + Len(t))
  BY <1>1, ConcatProperties
<1>4. \A i \in 1..(Len(s) + Len(t)) : i \in 1..Len(s) \/ (i - Len(s) \in 1..Len(t) /\ i = Len(s) + (i - Len(s)))
  BY <1>1
<1>5. Range(s \o t) \subseteq Range(s) \cup Range(t)
  BY <1>1, <1>2, <1>3, <1>4 DEF Range
<1>6. Range(s) \subseteq Range(s \o t)
  BY <1>1, <1>2 DEF Range
<1>7. Range(t) \subseteq Range(s \o t)
  BY <1>1, <1>3, Zenon DEF Range
<1> QED BY <1>5, <1>6, <1>7

LEMMA ConstantFacts ==
  /\ QueueCap \in Nat \ {0} /\ FlushAt \in Nat \ {0} /\ Throttle \in Nat \ {0}
  /\ MaxFrames \in Nat
BY ConstantsAssumption

(***************************************************************************)
(* The order of the frames of one connection, in a sequence of frames      *)
(***************************************************************************)

Earlier(fr, a, b) == fr[a].conn = fr[b].conn => a < b
InOrder(fr, s) == \A i, j \in DOMAIN s : i < j => Earlier(fr, s[i], s[j])
Before(fr, s, t) == \A a \in Range(s), b \in Range(t) : Earlier(fr, a, b)

\* What is received follows what was pending.
LEMMA AppendInOrder ==
  ASSUME NEW fr, NEW s \in Seq(Nat), NEW x \in Nat, InOrder(fr, s),
         \A a \in Range(s) : Earlier(fr, a, x)
  PROVE  InOrder(fr, Append(s, x))
<1> DEFINE t == Append(s, x)
<1>1. /\ DOMAIN s = 1..Len(s) /\ DOMAIN t = 1..(Len(s) + 1) /\ Len(s) \in Nat
      /\ \A i \in 1..Len(s) : t[i] = s[i] /\ s[i] \in Range(s)
      /\ t[Len(s) + 1] = x
  BY DEF Range
<1> HIDE DEF t
<1>2. ASSUME NEW i \in DOMAIN t, NEW j \in DOMAIN t, i < j PROVE Earlier(fr, t[i], t[j])
  <2>1. i \in 1..Len(s) /\ (j \in 1..Len(s) \/ j = Len(s) + 1)
    BY <1>1, <1>2
  <2> QED BY <1>1, <1>2, <2>1 DEF InOrder
<1> QED BY <1>2 DEF InOrder, t

LEMMA TailInOrder ==
  ASSUME NEW fr, NEW s \in Seq(Nat), s # <<>>, InOrder(fr, s)
  PROVE  /\ InOrder(fr, Tail(s)) /\ Head(s) \in Range(s) /\ Range(Tail(s)) \subseteq Range(s)
         /\ \A b \in Range(Tail(s)) : Earlier(fr, Head(s), b)
<1> DEFINE t == Tail(s)
<1>1. /\ Head(s) = s[1] /\ t \in Seq(Nat) /\ Len(s) \in Nat \ {0} /\ Len(t) = Len(s) - 1
      /\ \A i \in 1..Len(t) : t[i] = s[i + 1]
  BY HeadTailProperties
<1>2. DOMAIN s = 1..Len(s) /\ DOMAIN t = 1..Len(t) /\ 1 \in DOMAIN s
  BY <1>1
<1> HIDE DEF t
<1>3. \A i \in DOMAIN t : i \in Nat /\ i + 1 \in DOMAIN s /\ 1 < i + 1 /\ t[i] = s[i + 1]
  <2> DEFINE n == Len(s)
  <2>1. n \in Nat \ {0} /\ Len(t) = n - 1
    BY <1>1
  <2> HIDE DEF n
  <2>2. \A i \in 1..(n - 1) : i \in Nat /\ i + 1 \in 1..n /\ 1 < i + 1
    BY <2>1
  <2>3. DOMAIN t = 1..(n - 1) /\ DOMAIN s = 1..n
    BY <1>2, <2>1 DEF n
  <2>4. \A i \in DOMAIN t : t[i] = s[i + 1]
    BY <1>1, <1>2
  <2> QED BY <2>2, <2>3, <2>4
<1>4. ASSUME NEW i \in DOMAIN t, NEW j \in DOMAIN t, i < j PROVE Earlier(fr, t[i], t[j])
  <2>1. i + 1 < j + 1
    BY <1>3, <1>4
  <2> QED BY <1>3, <2>1 DEF InOrder
<1>5. ASSUME NEW i \in DOMAIN t PROVE Earlier(fr, Head(s), t[i]) /\ t[i] \in Range(s)
  BY <1>1, <1>2, <1>3 DEF InOrder, Range
<1> QED BY <1>1, <1>2, <1>4, <1>5 DEF InOrder, Range, t

\* A transaction puts what was pending after what the table had.
LEMMA ConcatInOrder ==
  ASSUME NEW fr, NEW s \in Seq(Nat), NEW t \in Seq(Nat),
         InOrder(fr, s), InOrder(fr, t), Before(fr, s, t)
  PROVE  InOrder(fr, s \o t)
<1> DEFINE u == s \o t
<1>1. /\ DOMAIN s = 1..Len(s) /\ DOMAIN t = 1..Len(t) /\ DOMAIN u = 1..(Len(s) + Len(t))
      /\ Len(s) \in Nat /\ Len(t) \in Nat
      /\ \A i \in 1..(Len(s) + Len(t)) : u[i] = IF i <= Len(s) THEN s[i] ELSE t[i - Len(s)]
  BY ConcatProperties
<1> HIDE DEF u
<1>2. ASSUME NEW i \in DOMAIN u, NEW j \in DOMAIN u, i < j PROVE Earlier(fr, u[i], u[j])
  <2>1. CASE j <= Len(s)
    BY <1>1, <1>2, <2>1 DEF InOrder
  <2>2. CASE i <= Len(s) /\ j > Len(s)
    <3>1. i \in DOMAIN s /\ j - Len(s) \in DOMAIN t /\ u[i] = s[i] /\ u[j] = t[j - Len(s)]
      BY <1>1, <2>2
    <3>2. u[i] \in Range(s) /\ u[j] \in Range(t)
      BY <3>1 DEF Range
    <3> QED BY <3>2 DEF Before
  <2>3. CASE i > Len(s)
    <3>1. /\ i - Len(s) \in DOMAIN t /\ j - Len(s) \in DOMAIN t /\ i - Len(s) < j - Len(s)
          /\ u[i] = t[i - Len(s)] /\ u[j] = t[j - Len(s)]
      BY <1>1, <1>2, <2>3
    <3> QED BY <3>1 DEF InOrder
  <2> QED BY <1>1, <2>1, <2>2, <2>3
<1> QED BY <1>2 DEF InOrder, u

(***************************************************************************)
(* One writer with its channel and its table                               *)
(***************************************************************************)

Writer == [queue : Seq(FrameNo), pending : Seq(FrameNo), table : Seq(FrameNo),
           lost : SUBSET FrameNo]
Bounded(u) == Len(u.queue) <= QueueCap /\ Len(u.pending) <= FlushAt
Content(u) == Range(u.queue) \cup Range(u.pending) \cup Range(u.table)
Kept(u) == Content(u) \cup u.lost
Ordered(fr, u) ==
  /\ InOrder(fr, u.table) /\ InOrder(fr, u.pending) /\ InOrder(fr, u.queue)
  /\ Before(fr, u.table, u.pending) /\ Before(fr, u.table, u.queue)
  /\ Before(fr, u.pending, u.queue)

\* Its steps, as functions of the writer.
Sent(u, x) == IF Len(u.queue) < QueueCap THEN [u EXCEPT !.queue = Append(@, x)]
              ELSE [u EXCEPT !.lost = @ \cup {x}]
Received(u) == [u EXCEPT !.queue = Tail(@), !.pending = Append(u.pending, Head(u.queue))]
Committed(u) == [u EXCEPT !.table = @ \o u.pending, !.pending = <<>>]
Failed(u) == [u EXCEPT !.lost = @ \cup Range(u.pending), !.pending = <<>>]
Emptied(u, items) ==
  [u EXCEPT !.queue = <<>>, !.pending = <<>>,
            !.lost = @ \cup (Range(u.queue) \cup Range(u.pending)) \cup items]

LEMMA EmptyRange == Range(<<>>) = {}
BY DEF Range

\* Pending items that are written or given up are cleared.
LEMMA ClearedIsWriter ==
  ASSUME NEW u \in Writer, NEW q \in Seq(FrameNo), NEW t \in Seq(FrameNo),
         NEW l \in SUBSET FrameNo
  PROVE  [u EXCEPT !.queue = q, !.pending = <<>>, !.table = t, !.lost = l] \in Writer
<1> DEFINE e == <<>>
<1>1. e \in Seq(FrameNo)
  BY EmptySeq
<1> HIDE DEF e
<1>2. [u EXCEPT !.queue = q, !.pending = e, !.table = t, !.lost = l] \in Writer
  BY <1>1 DEF Writer
<1> QED BY <1>2 DEF e

LEMMA FramesAreNumbers ==
  /\ FrameNo \subseteq Nat
  /\ \A s \in Seq(FrameNo) : s \in Seq(Nat)
<1>1. FrameNo \subseteq Nat
  BY ConstantFacts DEF FrameNo
<1> QED BY <1>1, SeqMonotonic

LEMMA SentKeeps ==
  ASSUME NEW u \in Writer, NEW x \in FrameNo, Bounded(u)
  PROVE  /\ Sent(u, x) \in Writer /\ Bounded(Sent(u, x))
         /\ Kept(Sent(u, x)) = Kept(u) \cup {x}
         /\ Content(Sent(u, x)) \subseteq Content(u) \cup {x}
<1>1. CASE Len(u.queue) < QueueCap
  <2> DEFINE q == Append(u.queue, x)
  <2>1. q \in Seq(FrameNo) /\ Len(q) = Len(u.queue) + 1 /\ Len(u.queue) \in Nat
        /\ Range(q) = Range(u.queue) \cup {x}
    <3>1. u.queue \in Seq(FrameNo)
      BY DEF Writer
    <3> QED BY <3>1, RangeAppend
  <2>2. Sent(u, x) = [u EXCEPT !.queue = q]
    BY <1>1 DEF Sent
  <2> HIDE DEF q
  <2>3. Sent(u, x) \in Writer
    BY <2>1, <2>2 DEF Writer
  <2>4. /\ Sent(u, x).queue = q /\ Sent(u, x).pending = u.pending
        /\ Sent(u, x).table = u.table /\ Sent(u, x).lost = u.lost
    BY <2>2 DEF Writer
  <2>5. Bounded(Sent(u, x))
    BY <1>1, <2>1, <2>4, ConstantFacts DEF Bounded
  <2> QED BY <2>1, <2>3, <2>4, <2>5 DEF Kept, Content
<1>2. CASE ~(Len(u.queue) < QueueCap)
  <2>1. Sent(u, x) = [u EXCEPT !.lost = @ \cup {x}]
    BY <1>2 DEF Sent
  <2>2. /\ Sent(u, x).queue = u.queue /\ Sent(u, x).pending = u.pending
        /\ Sent(u, x).table = u.table /\ Sent(u, x).lost = u.lost \cup {x}
    BY <2>1 DEF Writer
  <2>3. Sent(u, x) \in Writer
    BY <2>1 DEF Writer
  <2> QED BY <2>2, <2>3 DEF Bounded, Kept, Content
<1> QED BY <1>1, <1>2

LEMMA SentInOrder ==
  ASSUME NEW fr, NEW u \in Writer, NEW x \in FrameNo, Ordered(fr, u),
         \A e \in Content(u) : Earlier(fr, e, x)
  PROVE  Ordered(fr, Sent(u, x))
<1>1. CASE Len(u.queue) < QueueCap
  <2> DEFINE q == Append(u.queue, x)
  <2>1. Range(q) = Range(u.queue) \cup {x}
    BY RangeAppend DEF Writer
  <2>2. InOrder(fr, q)
    <3>1. u.queue \in Seq(Nat) /\ x \in Nat /\ InOrder(fr, u.queue)
      BY FramesAreNumbers DEF Writer, Ordered
    <3>2. \A a \in Range(u.queue) : Earlier(fr, a, x)
      BY DEF Content
    <3> QED BY <3>1, <3>2, AppendInOrder
  <2>3. Sent(u, x) = [u EXCEPT !.queue = q]
    BY <1>1 DEF Sent
  <2> HIDE DEF q
  <2>4. Sent(u, x).queue = q /\ Sent(u, x).pending = u.pending /\ Sent(u, x).table = u.table
    BY <2>3 DEF Writer
  <2>5. Before(fr, u.table, q) /\ Before(fr, u.pending, q)
    BY <2>1 DEF Ordered, Before, Content
  <2> QED BY <2>2, <2>4, <2>5 DEF Ordered
<1>2. CASE ~(Len(u.queue) < QueueCap)
  <2>1. /\ Sent(u, x).queue = u.queue /\ Sent(u, x).pending = u.pending
        /\ Sent(u, x).table = u.table
    BY <1>2, Sent(u, x) = [u EXCEPT !.lost = @ \cup {x}] DEF Sent, Writer
  <2> QED BY <2>1 DEF Ordered
<1> QED BY <1>1, <1>2

LEMMA ReceivedKeeps ==
  ASSUME NEW u \in Writer, Bounded(u), u.queue # <<>>, Len(u.pending) < FlushAt
  PROVE  /\ Received(u) \in Writer /\ Bounded(Received(u))
         /\ Kept(Received(u)) = Kept(u) /\ Content(Received(u)) = Content(u)
<1> DEFINE q == Tail(u.queue)
           p == Append(u.pending, Head(u.queue))
<1>1. u.queue \in Seq(FrameNo) /\ u.pending \in Seq(FrameNo)
  BY DEF Writer
<1>2. q \in Seq(FrameNo) /\ Len(q) = Len(u.queue) - 1 /\ Len(u.queue) \in Nat
      /\ Head(u.queue) \in FrameNo
  BY <1>1, HeadTailProperties
<1>3. p \in Seq(FrameNo) /\ Len(p) = Len(u.pending) + 1 /\ Len(u.pending) \in Nat
  BY <1>1, <1>2
<1>4. /\ Range(u.queue) = {Head(u.queue)} \cup Range(q)
      /\ Range(p) = Range(u.pending) \cup {Head(u.queue)}
  BY <1>1, <1>2, RangeTail, RangeAppend
<1>5. Received(u) = [u EXCEPT !.queue = q, !.pending = p]
  BY DEF Received
<1> HIDE DEF q, p
<1>6. /\ Received(u).queue = q /\ Received(u).pending = p
      /\ Received(u).table = u.table /\ Received(u).lost = u.lost
  BY <1>5 DEF Writer
<1>7. Received(u) \in Writer
  BY <1>2, <1>3, <1>5 DEF Writer
<1>8. Bounded(Received(u))
  BY <1>2, <1>3, <1>6, ConstantFacts DEF Bounded
<1> QED BY <1>4, <1>6, <1>7, <1>8 DEF Kept, Content

LEMMA ReceivedInOrder ==
  ASSUME NEW fr, NEW u \in Writer, u.queue # <<>>, Ordered(fr, u)
  PROVE  Ordered(fr, Received(u))
<1> DEFINE q == Tail(u.queue)
           h == Head(u.queue)
           p == Append(u.pending, h)
<1>1. /\ u.queue \in Seq(FrameNo) /\ u.pending \in Seq(FrameNo) /\ h \in FrameNo
      /\ u.queue \in Seq(Nat) /\ u.pending \in Seq(Nat) /\ h \in Nat
  BY FramesAreNumbers, HeadTailProperties DEF Writer
<1>2. /\ InOrder(fr, q) /\ h \in Range(u.queue) /\ Range(q) \subseteq Range(u.queue)
      /\ \A b \in Range(q) : Earlier(fr, h, b)
  BY <1>1, TailInOrder DEF Ordered
<1>3. Range(p) = Range(u.pending) \cup {h}
  BY <1>1, RangeAppend
<1>4. InOrder(fr, p)
  <2>1. \A a \in Range(u.pending) : Earlier(fr, a, h)
    BY <1>2 DEF Ordered, Before
  <2> QED BY <1>1, <2>1, AppendInOrder DEF Ordered
<1>5. Received(u) = [u EXCEPT !.queue = q, !.pending = p]
  BY DEF Received
<1> HIDE DEF q, p, h
<1>6. Received(u).queue = q /\ Received(u).pending = p /\ Received(u).table = u.table
  BY <1>5 DEF Writer
<1>7. Before(fr, u.table, p) /\ Before(fr, u.table, q) /\ Before(fr, p, q)
  BY <1>2, <1>3 DEF Ordered, Before
<1> QED BY <1>2, <1>4, <1>6, <1>7 DEF Ordered

LEMMA CommittedKeeps ==
  ASSUME NEW fr, NEW u \in Writer, Bounded(u), Ordered(fr, u)
  PROVE  /\ Committed(u) \in Writer /\ Bounded(Committed(u))
         /\ Kept(Committed(u)) = Kept(u) /\ Content(Committed(u)) = Content(u)
         /\ Ordered(fr, Committed(u))
<1> DEFINE t == u.table \o u.pending
<1>1. /\ u.table \in Seq(FrameNo) /\ u.pending \in Seq(FrameNo)
      /\ u.table \in Seq(Nat) /\ u.pending \in Seq(Nat)
  BY FramesAreNumbers DEF Writer
<1>2. t \in Seq(FrameNo) /\ Range(t) = Range(u.table) \cup Range(u.pending)
  BY <1>1, RangeConcat, ConcatProperties
<1>3. InOrder(fr, t)
  BY <1>1, ConcatInOrder DEF Ordered
<1>4. Committed(u) = [u EXCEPT !.table = t, !.pending = <<>>]
  BY DEF Committed
<1> HIDE DEF t
<1>5. /\ Committed(u).queue = u.queue /\ Committed(u).pending = <<>>
      /\ Committed(u).table = t /\ Committed(u).lost = u.lost
  BY <1>4 DEF Writer
<1>6. Committed(u) \in Writer
  <2>1. Committed(u) = [u EXCEPT !.queue = u.queue, !.pending = <<>>, !.table = t,
                                 !.lost = u.lost]
    BY <1>4 DEF Writer
  <2>2. u.queue \in Seq(FrameNo) /\ u.lost \in SUBSET FrameNo
    BY DEF Writer
  <2>3. [u EXCEPT !.queue = u.queue, !.pending = <<>>, !.table = t, !.lost = u.lost] \in Writer
    BY <1>2, <2>2, ClearedIsWriter
  <2> QED BY <2>1, <2>3
<1>7. Bounded(Committed(u))
  BY <1>5, ConstantFacts DEF Bounded
<1>8. Ordered(fr, Committed(u))
  BY <1>2, <1>3, <1>5, EmptyRange DEF Ordered, Before, InOrder
<1> QED BY <1>2, <1>5, <1>6, <1>7, <1>8, EmptyRange DEF Kept, Content

\* A transaction that fails takes a stretch out of the middle: what is left is in order.
LEMMA FailedKeeps ==
  ASSUME NEW fr, NEW u \in Writer, Bounded(u), Ordered(fr, u)
  PROVE  /\ Failed(u) \in Writer /\ Bounded(Failed(u))
         /\ Kept(Failed(u)) = Kept(u) /\ Content(Failed(u)) \subseteq Content(u)
         /\ Ordered(fr, Failed(u))
<1>1. Range(u.pending) \subseteq FrameNo
  BY RangeInSet DEF Writer
<1>2. /\ Failed(u).queue = u.queue /\ Failed(u).pending = <<>>
      /\ Failed(u).table = u.table /\ Failed(u).lost = u.lost \cup Range(u.pending)
  BY DEF Failed, Writer
<1>3. Failed(u) \in Writer
  <2>1. Failed(u) = [u EXCEPT !.queue = u.queue, !.pending = <<>>, !.table = u.table,
                              !.lost = u.lost \cup Range(u.pending)]
    BY DEF Failed, Writer
  <2>2. /\ u.queue \in Seq(FrameNo) /\ u.table \in Seq(FrameNo)
        /\ u.lost \cup Range(u.pending) \in SUBSET FrameNo
    BY <1>1 DEF Writer
  <2>3. [u EXCEPT !.queue = u.queue, !.pending = <<>>, !.table = u.table,
                  !.lost = u.lost \cup Range(u.pending)] \in Writer
    BY <2>2, ClearedIsWriter
  <2> QED BY <2>1, <2>3
<1>4. Bounded(Failed(u))
  BY <1>2, ConstantFacts DEF Bounded
<1>5. Ordered(fr, Failed(u))
  BY <1>2, EmptyRange DEF Ordered, Before, InOrder
<1> QED BY <1>2, <1>3, <1>4, <1>5, EmptyRange DEF Kept, Content

LEMMA EmptiedKeeps ==
  ASSUME NEW fr, NEW u \in Writer, Ordered(fr, u), NEW items \in SUBSET FrameNo
  PROVE  /\ Emptied(u, items) \in Writer /\ Bounded(Emptied(u, items))
         /\ Kept(Emptied(u, items)) = Kept(u) \cup items
         /\ Content(Emptied(u, items)) \subseteq Content(u)
         /\ Ordered(fr, Emptied(u, items))
<1> DEFINE l == u.lost \cup (Range(u.queue) \cup Range(u.pending)) \cup items
           v == Emptied(u, items)
<1>1. l \in SUBSET FrameNo
  <2>1. Range(u.queue) \subseteq FrameNo /\ Range(u.pending) \subseteq FrameNo
    BY RangeInSet DEF Writer
  <2> QED BY <2>1 DEF Writer
<1>2. v = [u EXCEPT !.queue = <<>>, !.pending = <<>>, !.lost = l]
  BY DEF Emptied
<1>3. v.queue = <<>> /\ v.pending = <<>> /\ v.table = u.table /\ v.lost = l
  BY <1>2 DEF Writer
<1>4. v \in Writer
  <2>1. v = [u EXCEPT !.queue = <<>>, !.pending = <<>>, !.table = u.table, !.lost = l]
    BY <1>2 DEF Writer
  <2>2. u.table \in Seq(FrameNo) /\ <<>> \in Seq(FrameNo)
    BY EmptySeq DEF Writer
  <2> HIDE DEF v, l
  <2> QED BY <1>1, <2>1, <2>2, ClearedIsWriter
<1>5. Bounded(v)
  BY <1>3, ConstantFacts DEF Bounded
<1>6. Ordered(fr, v)
  BY <1>3, EmptyRange DEF Ordered, Before, InOrder
<1>7. Kept(v) = Kept(u) \cup items /\ Content(v) \subseteq Content(u)
  BY <1>3, EmptyRange DEF Kept, Content
<1> QED BY <1>4, <1>5, <1>6, <1>7

(***************************************************************************)
(* The inductive invariant                                                 *)
(***************************************************************************)

Packets == [conn : Conns, id : CanIds]
TaskStates == [at : {"none", "read", "ended"} \cup Stages, frame : 0..MaxFrames]

FramesType == frames \in Seq(Packets) /\ Len(frames) <= MaxFrames

\* A task that handles a frame has one that it read.
Tasks(fr, tk) ==
  /\ tk \in [Conns -> TaskStates]
  /\ \A c \in Conns :
       tk[c].at \in Stages => tk[c].frame \in 1..Len(fr) /\ fr[tk[c].frame].conn = c

Owed(tk, stages) == {tk[c].frame : c \in {d \in Conns : tk[d].at \in stages}}

\* A writer has all frames but those the tasks owe it, and none that comes after one of
\* the same connection that is still owed.
Serves(fr, tk, u, stages) ==
  /\ u \in Writer /\ Bounded(u) /\ Kept(u) \subseteq 1..Len(fr) /\ Ordered(fr, u)
  /\ \A c \in Conns : tk[c].at \in stages =>
       \A e \in Content(u) : Earlier(fr, e, tk[c].frame)
  /\ 1..Len(fr) \subseteq Owed(tk, stages) \cup Kept(u)

Ages == elapsed \in [Conns -> [CanIds -> 0..Throttle]] /\ shown = elapsed

IInv ==
  /\ FramesType /\ Tasks(frames, task) /\ Ages
  /\ Serves(frames, task, sqlite, {"sqlite"})
  /\ Serves(frames, task, timescale, Stages)

\* A frame just read comes after everything the writer has.
LEMMA ReadServes ==
  ASSUME NEW fr \in Seq(Packets), NEW tk, Tasks(fr, tk), NEW u, NEW stages \in SUBSET Stages,
         NEW c \in Conns, NEW new \in Packets, Len(fr) < MaxFrames,
         Serves(fr, tk, u, stages), "sqlite" \in stages, tk[c].at \notin stages
  PROVE  Serves(Append(fr, new),
                [tk EXCEPT ![c] = [at |-> "sqlite", frame |-> Len(fr) + 1]], u, stages)
<1> DEFINE g == Append(fr, new)
           t == [tk EXCEPT ![c] = [at |-> "sqlite", frame |-> Len(fr) + 1]]
<1>1. /\ Len(fr) \in Nat /\ Len(g) = Len(fr) + 1
      /\ \A i \in 1..Len(fr) : g[i] = fr[i] /\ i < Len(fr) + 1
  OBVIOUS
<1>2. /\ t[c].at = "sqlite" /\ t[c].frame = Len(fr) + 1
      /\ \A d \in Conns : d # c => t[d] = tk[d]
  BY DEF Tasks
<1> HIDE DEF g, t
<1>3. /\ u \in Writer /\ Bounded(u) /\ Kept(u) \subseteq 1..Len(fr) /\ Content(u) \subseteq 1..Len(fr)
  BY DEF Serves, Kept
<1>4. Kept(u) \subseteq 1..Len(g)
  BY <1>1, <1>3
<1>5. \A a, b \in 1..Len(fr) : Earlier(fr, a, b) => Earlier(g, a, b)
  BY <1>1 DEF Earlier
<1>6. Ordered(g, u)
  <2>1. Ordered(fr, u)
    BY DEF Serves
  <2>2. /\ Range(u.table) \subseteq 1..Len(fr) /\ Range(u.pending) \subseteq 1..Len(fr)
        /\ Range(u.queue) \subseteq 1..Len(fr)
    BY <1>3 DEF Content
  <2>3. ASSUME NEW s, Range(s) \subseteq 1..Len(fr), InOrder(fr, s)
        PROVE  InOrder(g, s)
    BY <1>5, <2>3 DEF InOrder, Range
  <2>4. ASSUME NEW s, NEW r, Range(s) \subseteq 1..Len(fr), Range(r) \subseteq 1..Len(fr),
               Before(fr, s, r)
        PROVE  Before(g, s, r)
    BY <1>5, <2>4 DEF Before
  <2> QED BY <2>1, <2>2, <2>3, <2>4 DEF Ordered
<1>7. ASSUME NEW d \in Conns, t[d].at \in stages, NEW e \in Content(u)
      PROVE  Earlier(g, e, t[d].frame)
  <2>1. CASE d = c
    BY <1>1, <1>2, <1>3, <2>1 DEF Earlier
  <2>2. CASE d # c
    <3>1. /\ Earlier(fr, e, tk[d].frame) /\ t[d] = tk[d] /\ e \in 1..Len(fr)
          /\ tk[d].frame \in 1..Len(fr)
      BY <1>2, <1>3, <1>7, <2>2 DEF Serves, Tasks
    <3> QED BY <1>5, <3>1
  <2> QED BY <2>1, <2>2
<1>8. 1..Len(g) \subseteq Owed(t, stages) \cup Kept(u)
  BY <1>1, <1>2 DEF Serves, Owed
<1> QED BY <1>3, <1>4, <1>6, <1>7, <1>8 DEF Serves, g, t

\* Frames go on between a task's stages without a change of what it owes the writer.
LEMMA MoveServes ==
  ASSUME NEW fr, NEW tk, NEW t, NEW u, NEW stages, Serves(fr, tk, u, stages),
         \A d \in Conns : /\ t[d].at \in stages <=> tk[d].at \in stages
                          /\ t[d].at \in stages => t[d].frame = tk[d].frame
  PROVE  Serves(fr, t, u, stages)
<1>1. ASSUME NEW c \in Conns, tk[c].at \in stages PROVE tk[c].frame \in Owed(t, stages)
  <2>1. c \in {d \in Conns : t[d].at \in stages} /\ tk[c].frame = t[c].frame
    BY <1>1
  <2> QED BY <2>1 DEF Owed
<1>2. Owed(tk, stages) \subseteq Owed(t, stages)
  BY <1>1 DEF Owed
<1>3. ASSUME NEW c \in Conns, t[c].at \in stages
      PROVE  \A e \in Content(u) : Earlier(fr, e, t[c].frame)
  <2>1. tk[c].at \in stages /\ t[c].frame = tk[c].frame
    BY <1>3
  <2> QED BY <2>1 DEF Serves
<1> QED BY <1>2, <1>3 DEF Serves

\* A frame is handed over: in the channel, or among what a full channel dropped.
LEMMA SendServes ==
  ASSUME NEW fr, NEW tk, Tasks(fr, tk), NEW u, NEW stages \in SUBSET Stages,
         Serves(fr, tk, u, stages), Len(fr) \in Nat, Len(fr) <= MaxFrames,
         NEW c \in Conns, tk[c].at \in stages,
         NEW t, t[c].at \notin stages, \A d \in Conns : d # c => t[d] = tk[d]
  PROVE  Serves(fr, t, Sent(u, tk[c].frame), stages)
<1> DEFINE x == tk[c].frame
           v == Sent(u, x)
<1>1. x \in 1..Len(fr) /\ fr[x].conn = c
  BY DEF Tasks
<1>2. x \in FrameNo
  BY <1>1, ConstantFacts DEF FrameNo
<1>3. /\ u \in Writer /\ Bounded(u) /\ Ordered(fr, u) /\ Kept(u) \subseteq 1..Len(fr)
      /\ \A e \in Content(u) : Earlier(fr, e, x)
  BY DEF Serves
<1> HIDE DEF x
<1>4. /\ v \in Writer /\ Bounded(v) /\ Kept(v) = Kept(u) \cup {x}
      /\ Content(v) \subseteq Content(u) \cup {x}
  BY <1>2, <1>3, SentKeeps
<1>5. Ordered(fr, v)
  BY <1>2, <1>3, SentInOrder
<1> HIDE DEF v
<1>6. ASSUME NEW d \in Conns, t[d].at \in stages, NEW e \in Content(v)
      PROVE  Earlier(fr, e, t[d].frame)
  <2>1. d # c /\ t[d] = tk[d] /\ fr[tk[d].frame].conn = d
    BY <1>6 DEF Tasks
  <2>2. CASE e \in Content(u)
    BY <1>6, <2>1, <2>2 DEF Serves
  <2>3. CASE e = x
    BY <1>1, <2>1, <2>3 DEF Earlier
  <2> QED BY <1>4, <2>2, <2>3
<1>7. 1..Len(fr) \subseteq Owed(t, stages) \cup Kept(v)
  <2>1. Owed(tk, stages) \subseteq Owed(t, stages) \cup {x}
    BY DEF Owed, x
  <2> QED BY <1>4, <2>1 DEF Serves
<1> QED BY <1>1, <1>3, <1>4, <1>5, <1>6, <1>7 DEF Serves, v, x

\* The writer's own steps move frames between its parts.
LEMMA WriterServes ==
  ASSUME NEW fr, NEW tk, NEW u, NEW v, NEW stages, Serves(fr, tk, u, stages),
         v \in Writer, Bounded(v), Ordered(fr, v), Kept(v) = Kept(u),
         Content(v) \subseteq Content(u)
  PROVE  Serves(fr, tk, v, stages)
BY DEF Serves

LEMMA StepServes ==
  ASSUME NEW fr, NEW tk, NEW u, NEW v, NEW stages, Serves(fr, tk, u, stages),
         \/ u.queue # <<>> /\ Len(u.pending) < FlushAt /\ v = Received(u)
         \/ v = Committed(u)
         \/ v = Failed(u)
  PROVE  Serves(fr, tk, v, stages)
<1>1. u \in Writer /\ Bounded(u) /\ Ordered(fr, u)
  BY DEF Serves
<1>2. CASE u.queue # <<>> /\ Len(u.pending) < FlushAt /\ v = Received(u)
  BY <1>1, <1>2, ReceivedKeeps, ReceivedInOrder, WriterServes
<1>3. CASE v = Committed(u)
  BY <1>1, <1>3, CommittedKeeps, WriterServes
<1>4. CASE v = Failed(u)
  BY <1>1, <1>4, FailedKeeps, WriterServes
<1> QED BY <1>2, <1>3, <1>4

\* The process ends: what was owed and what waited is lost, the table stays.
LEMMA CrashServes ==
  ASSUME NEW fr, NEW tk, Tasks(fr, tk), NEW u, NEW stages \in SUBSET Stages,
         Serves(fr, tk, u, stages), Len(fr) \in Nat, Len(fr) <= MaxFrames,
         NEW t, \A d \in Conns : t[d].at \notin stages
  PROVE  Serves(fr, t, Emptied(u, Owed(tk, stages)), stages)
<1> DEFINE o == Owed(tk, stages)
           v == Emptied(u, o)
<1>1. o \subseteq 1..Len(fr)
  BY DEF Tasks, Owed
<1>2. o \in SUBSET FrameNo
  BY <1>1, ConstantFacts DEF FrameNo
<1> HIDE DEF o
<1>3. u \in Writer /\ Ordered(fr, u) /\ Kept(u) \subseteq 1..Len(fr)
  BY DEF Serves
<1>4. v \in Writer /\ Bounded(v) /\ Kept(v) = Kept(u) \cup o /\ Ordered(fr, v)
  BY <1>2, <1>3, EmptiedKeeps
<1> HIDE DEF v
<1>5. 1..Len(fr) \subseteq Kept(v)
  BY <1>4 DEF Serves, o
<1> QED BY <1>1, <1>3, <1>4, <1>5 DEF Serves, v, o

(***************************************************************************)
(* What the actions do to the two writers                                  *)
(***************************************************************************)

LEMMA SqliteSends ==
  ASSUME NEW x, Sqlite!TrySend(x)
  PROVE  sqlite' = Sent(sqlite, x)
BY DEF Sqlite!TrySend, Sent

LEMMA TimescaleSends ==
  ASSUME NEW x, Timescale!TrySend(x)
  PROVE  timescale' = Sent(timescale, x)
BY DEF Timescale!TrySend, Sent

LEMMA SqliteSteps ==
  ASSUME sqlite \in Writer, Sqlite!Step
  PROVE  \/ sqlite.queue # <<>> /\ Len(sqlite.pending) < FlushAt /\ sqlite' = Received(sqlite)
         \/ sqlite' = Committed(sqlite)
         \/ sqlite' = Failed(sqlite)
<1>1. CASE Sqlite!Receive
  BY <1>1 DEF Sqlite!Receive, Sqlite!HasRoom, Sqlite!Extended, Received
<1>2. CASE Sqlite!Commit
  BY <1>2 DEF Sqlite!Commit, Sqlite!AfterWrite, Committed
<1>3. CASE Sqlite!Fail
  BY <1>3 DEF Sqlite!Fail, Sqlite!AfterWrite, Sqlite!Items, Range, Failed
<1> QED BY <1>1, <1>2, <1>3 DEF Sqlite!Step

LEMMA TimescaleSteps ==
  ASSUME timescale \in Writer, Timescale!Step
  PROVE  \/ timescale.queue # <<>> /\ Len(timescale.pending) < FlushAt
            /\ timescale' = Received(timescale)
         \/ timescale' = Committed(timescale)
         \/ timescale' = Failed(timescale)
<1>1. CASE Timescale!Receive
  BY <1>1 DEF Timescale!Receive, Timescale!HasRoom, Timescale!Extended, Received
<1>2. CASE Timescale!Commit
  BY <1>2 DEF Timescale!Commit, Timescale!AfterWrite, Committed
<1>3. CASE Timescale!Fail
  BY <1>3 DEF Timescale!Fail, Timescale!AfterWrite, Timescale!Items, Range, Failed
<1> QED BY <1>1, <1>2, <1>3 DEF Timescale!Step

LEMMA OwedIs ==
  /\ ForSqlite = Owed(task, {"sqlite"})
  /\ ForTimescale = Owed(task, Stages)
BY DEF ForSqlite, ForTimescale, Owed, Current, At

LEMMA Crashes ==
  ASSUME Crash
  PROVE  /\ sqlite' = Emptied(sqlite, Owed(task, {"sqlite"}))
         /\ timescale' = Emptied(timescale, Owed(task, Stages))
<1>1. sqlite' = Emptied(sqlite, ForSqlite)
  BY DEF Crash, Sqlite!Die, Sqlite!Waiting, Sqlite!Items, Range, Emptied
<1>2. timescale' = Emptied(timescale, ForTimescale)
  BY DEF Crash, Timescale!Die, Timescale!Waiting, Timescale!Items, Range, Emptied
<1> QED BY <1>1, <1>2, OwedIs

(***************************************************************************)
(* The invariant holds                                                     *)
(***************************************************************************)

LEMMA InvInit == Init => IInv
<1> SUFFICES ASSUME Init PROVE IInv
  OBVIOUS
<1>1. FramesType /\ Len(frames) = 0 /\ 1..Len(frames) = {}
  BY ConstantFacts, EmptySeq DEF Init, FramesType
<1>2. Tasks(frames, task) /\ \A c \in Conns : task[c].at = "none"
  BY ConstantFacts DEF Init, Tasks, TaskStates, Rest, Stages
<1>3. Ages
  BY ConstantFacts DEF Init, Ages
<1> DEFINE e == [queue |-> <<>>, pending |-> <<>>, table |-> <<>>, lost |-> {}]
<1>4. sqlite = e /\ timescale = e
  BY DEF Init, Sqlite!Empty, Timescale!Empty
<1>5. e \in Writer
  BY EmptySeq DEF Writer
<1>6. e.queue = <<>> /\ e.pending = <<>> /\ e.table = <<>> /\ e.lost = {}
  OBVIOUS
<1> HIDE DEF e
<1>7. Bounded(e) /\ Kept(e) = {} /\ Content(e) = {}
  BY <1>6, EmptyRange, ConstantFacts DEF Bounded, Kept, Content
<1>8. Ordered(frames, e)
  BY <1>6, EmptyRange DEF Ordered, InOrder, Before
<1>9. Serves(frames, task, e, {"sqlite"}) /\ Serves(frames, task, e, Stages)
  BY <1>1, <1>2, <1>5, <1>7, <1>8 DEF Serves, Stages
<1> QED BY <1>1, <1>2, <1>3, <1>4, <1>9 DEF IInv

LEMMA StagesOf == {"sqlite"} \in SUBSET Stages /\ Stages \in SUBSET Stages
BY DEF Stages

LEMMA LengthIs ==
  ASSUME IInv
  PROVE  Len(frames) \in Nat /\ Len(frames) <= MaxFrames
BY DEF IInv, FramesType

\* Steps in which a task holds another frame or none, or goes on with the one it has.
LEMMA TasksKeep ==
  ASSUME IInv, frames' = frames, task' \in [Conns -> TaskStates],
         \A c \in Conns : task'[c].at \in Stages =>
           task[c].at \in Stages /\ task'[c].frame = task[c].frame
  PROVE  FramesType' /\ Tasks(frames', task')
BY DEF IInv, FramesType, Tasks

LEMMA TickKeeps == IInv /\ Tick => IInv'
<1> SUFFICES ASSUME IInv, Tick PROVE IInv'
  OBVIOUS
<1>1. UNCHANGED <<frames, task, sqlite, timescale>>
  BY DEF Tick
<1>2. Ages'
  BY ConstantFacts DEF Tick, IInv, Ages, Older
<1> QED BY <1>1, <1>2 DEF IInv, FramesType

\* Accept and Disconnect.
LEMMA ConnectionKeeps ==
  ASSUME NEW c \in Conns
  PROVE  IInv /\ (Accept(c) \/ Disconnect(c)) => IInv'
<1> SUFFICES ASSUME IInv, Accept(c) \/ Disconnect(c) PROVE IInv'
  OBVIOUS
<1>1. PICK stage \in {"read", "ended"} :
        /\ task' = [task EXCEPT ![c] = Rest(stage)] /\ task[c].at \in {"none", "read"}
        /\ UNCHANGED <<frames, elapsed, shown, sqlite, timescale>>
  BY DEF Accept, Disconnect, Leave, At, dashVars
<1>2. task \in [Conns -> TaskStates]
  BY DEF IInv, Tasks
<1>3. Rest(stage) \in TaskStates /\ Rest(stage).at \notin Stages /\ task[c].at \notin Stages
  BY <1>1, ConstantFacts DEF Rest, TaskStates, Stages
<1>4. task' \in [Conns -> TaskStates]
  BY <1>1, <1>2, <1>3
<1>5. \A d \in Conns : task'[d] = IF d = c THEN Rest(stage) ELSE task[d]
  BY <1>1, <1>2
<1>6. FramesType' /\ Tasks(frames', task')
  BY <1>1, <1>3, <1>4, <1>5, TasksKeep
<1>7. Serves(frames, task', sqlite, {"sqlite"})
  BY <1>3, <1>5, MoveServes DEF IInv, Stages
<1>8. Serves(frames, task', timescale, Stages)
  BY <1>3, <1>5, MoveServes DEF IInv
<1> QED BY <1>1, <1>6, <1>7, <1>8 DEF IInv, Ages

LEMMA ReadKeeps ==
  ASSUME NEW c \in Conns
  PROVE  IInv /\ Read(c) => IInv'
<1> SUFFICES ASSUME IInv, Read(c) PROVE IInv'
  OBVIOUS
<1>1. PICK id \in CanIds : frames' = Append(frames, [conn |-> c, id |-> id])
  BY DEF Read
<1> DEFINE new == [conn |-> c, id |-> id]
<1>2. /\ task[c].at = "read" /\ Len(frames) < MaxFrames
      /\ task' = [task EXCEPT ![c] = [at |-> "sqlite", frame |-> Len(frames) + 1]]
      /\ UNCHANGED <<elapsed, shown, sqlite, timescale>>
  BY DEF Read, At, dashVars
<1>3. new \in Packets /\ frames \in Seq(Packets) /\ Len(frames) \in Nat
  BY DEF Packets, IInv, FramesType
<1>4. /\ frames' \in Seq(Packets) /\ Len(frames') = Len(frames) + 1
      /\ \A i \in 1..Len(frames) : frames'[i] = frames[i]
      /\ frames'[Len(frames) + 1] = new
  BY <1>1, <1>3
<1>5. FramesType'
  BY <1>2, <1>3, <1>4, ConstantFacts DEF FramesType
<1>6. Tasks(frames', task')
  <2>1. task \in [Conns -> TaskStates]
    BY DEF IInv, Tasks
  <2>2. [at |-> "sqlite", frame |-> Len(frames) + 1] \in TaskStates
    BY <1>2, <1>3, ConstantFacts DEF TaskStates, Stages
  <2>3. \A d \in Conns : task'[d] = IF d = c THEN [at |-> "sqlite", frame |-> Len(frames) + 1]
                                    ELSE task[d]
    BY <1>2, <2>1
  <2>4. task' \in [Conns -> TaskStates]
    BY <1>2, <2>1, <2>2
  <2>5. ASSUME NEW d \in Conns, task'[d].at \in Stages
        PROVE  task'[d].frame \in 1..Len(frames') /\ frames'[task'[d].frame].conn = d
    <3>1. CASE d = c
      BY <1>3, <1>4, <2>3, <3>1
    <3>2. CASE d # c
      <4>1. task'[d] = task[d]
        BY <2>3, <3>2
      <4>2. task[d].frame \in 1..Len(frames) /\ frames[task[d].frame].conn = d
        BY <2>5, <4>1 DEF IInv, Tasks
      <4> QED BY <1>3, <1>4, <4>1, <4>2
    <3> QED BY <3>1, <3>2
  <2> QED BY <2>4, <2>5 DEF Tasks
<1>7. task[c].at \notin Stages /\ task[c].at # "sqlite"
  BY <1>2 DEF Stages
<1>8. /\ Serves(frames', task', sqlite, {"sqlite"})
      /\ Serves(frames', task', timescale, Stages)
  <2>1. /\ Tasks(frames, task) /\ Serves(frames, task, sqlite, {"sqlite"})
        /\ Serves(frames, task, timescale, Stages) /\ "sqlite" \in Stages
    BY DEF IInv, Stages
  <2> HIDE DEF new
  <2>2. Serves(Append(frames, new), [task EXCEPT ![c] = [at |-> "sqlite",
                 frame |-> Len(frames) + 1]], sqlite, {"sqlite"})
    BY <1>2, <1>3, <1>7, <2>1, StagesOf, ReadServes
  <2>3. Serves(Append(frames, new), [task EXCEPT ![c] = [at |-> "sqlite",
                 frame |-> Len(frames) + 1]], timescale, Stages)
    BY <1>2, <1>3, <1>7, <2>1, StagesOf, ReadServes
  <2> QED BY <1>1, <1>2, <2>2, <2>3 DEF new
<1> QED BY <1>2, <1>5, <1>6, <1>8 DEF IInv, Ages

LEMMA SendSqliteKeeps ==
  ASSUME NEW c \in Conns
  PROVE  IInv /\ SendSqlite(c) => IInv'
<1> SUFFICES ASSUME IInv, SendSqlite(c) PROVE IInv'
  OBVIOUS
<1>1. /\ task[c].at = "sqlite" /\ task' = [task EXCEPT ![c].at = "ws"]
      /\ sqlite' = Sent(sqlite, task[c].frame)
      /\ UNCHANGED <<frames, elapsed, shown, timescale>>
  BY SqliteSends DEF SendSqlite, At, Goto, Current, dashVars
<1>2. task \in [Conns -> TaskStates] /\ Tasks(frames, task)
  BY DEF IInv, Tasks
<1>3. /\ \A d \in Conns : d # c => task'[d] = task[d]
      /\ task'[c].at = "ws" /\ task'[c].frame = task[c].frame
      /\ task' \in [Conns -> TaskStates]
  BY <1>1, <1>2 DEF TaskStates, Stages
<1>4. FramesType' /\ Tasks(frames', task')
  BY <1>1, <1>3, TasksKeep DEF Stages
<1>5. Serves(frames, task', sqlite', {"sqlite"})
  <2>1. Serves(frames, task, sqlite, {"sqlite"}) /\ task[c].at \in {"sqlite"}
        /\ task'[c].at \notin {"sqlite"}
    BY <1>1, <1>3 DEF IInv
  <2>2. Serves(frames, task', Sent(sqlite, task[c].frame), {"sqlite"})
    BY <1>2, <1>3, <2>1, StagesOf, LengthIs, SendServes
  <2> QED BY <1>1, <2>2
<1>6. Serves(frames, task', timescale, Stages)
  <2>1. \A d \in Conns : /\ task'[d].at \in Stages <=> task[d].at \in Stages
                         /\ task'[d].at \in Stages => task'[d].frame = task[d].frame
    BY <1>1, <1>3 DEF Stages
  <2> QED BY <2>1, MoveServes DEF IInv
<1> QED BY <1>1, <1>4, <1>5, <1>6 DEF IInv, Ages

LEMMA SendWsKeeps ==
  ASSUME NEW c \in Conns
  PROVE  IInv /\ SendWs(c) => IInv'
<1> SUFFICES ASSUME IInv, SendWs(c) PROVE IInv'
  OBVIOUS
<1> DEFINE i == frames[task[c].frame].id
<1>1. /\ task[c].at = "ws"
      /\ elapsed' = [elapsed EXCEPT ![c][i] = Restarted(c, i)]
      /\ \/ Due(c, i) /\ shown' = [shown EXCEPT ![c][i] = 0]
            /\ task' = [task EXCEPT ![c].at = "shown"]
         \/ ~Due(c, i) /\ shown' = shown /\ task' = [task EXCEPT ![c].at = "kept"]
      /\ UNCHANGED <<frames, sqlite, timescale>>
  BY DEF SendWs, At, Goto, Current
<1>2. task \in [Conns -> TaskStates] /\ Tasks(frames, task)
  BY DEF IInv, Tasks
<1>3. /\ \A d \in Conns : d # c => task'[d] = task[d]
      /\ task'[c].at \in {"shown", "kept"} /\ task'[c].frame = task[c].frame
      /\ task' \in [Conns -> TaskStates]
  BY <1>1, <1>2 DEF TaskStates, Stages
<1>4. FramesType' /\ Tasks(frames', task')
  BY <1>1, <1>3, TasksKeep DEF Stages
<1>5. i \in CanIds
  <2>1. task[c].frame \in 1..Len(frames) /\ frames \in Seq(Packets)
    BY <1>1, <1>2 DEF Tasks, Stages, IInv, FramesType
  <2>2. frames[task[c].frame] \in Packets
    BY <2>1, ElementOfSeq
  <2> QED BY <2>2 DEF Packets
<1> HIDE DEF i
<1>6. Ages'
  <2>1. elapsed \in [Conns -> [CanIds -> 0..Throttle]] /\ shown = elapsed
    BY DEF IInv, Ages
  <2>2. CASE Due(c, i)
    <3>1. elapsed' = [elapsed EXCEPT ![c][i] = 0] /\ shown' = [shown EXCEPT ![c][i] = 0]
      BY <1>1, <2>2 DEF Restarted
    <3> QED BY <1>5, <2>1, <3>1, ConstantFacts DEF Ages
  <2>3. CASE ~Due(c, i)
    <3>1. elapsed' = elapsed /\ shown' = shown
      BY <1>1, <2>1, <2>3 DEF Restarted
    <3> QED BY <2>1, <3>1 DEF Ages
  <2> QED BY <2>2, <2>3
<1>7. Serves(frames, task', sqlite, {"sqlite"})
  <2>1. \A d \in Conns : /\ task'[d].at \in {"sqlite"} <=> task[d].at \in {"sqlite"}
                         /\ task'[d].at \in {"sqlite"} => task'[d].frame = task[d].frame
    BY <1>1, <1>3
  <2> QED BY <2>1, MoveServes DEF IInv
<1>8. Serves(frames, task', timescale, Stages)
  <2>1. \A d \in Conns : /\ task'[d].at \in Stages <=> task[d].at \in Stages
                         /\ task'[d].at \in Stages => task'[d].frame = task[d].frame
    BY <1>1, <1>3 DEF Stages
  <2> QED BY <2>1, MoveServes DEF IInv
<1> QED BY <1>1, <1>4, <1>6, <1>7, <1>8 DEF IInv

LEMMA SendTimescaleKeeps ==
  ASSUME NEW c \in Conns
  PROVE  IInv /\ SendTimescale(c) => IInv'
<1> SUFFICES ASSUME IInv, SendTimescale(c) PROVE IInv'
  OBVIOUS
<1>1. /\ task[c].at \in {"shown", "kept"} /\ task' = [task EXCEPT ![c] = Rest("read")]
      /\ timescale' = Sent(timescale, task[c].frame)
      /\ UNCHANGED <<frames, elapsed, shown, sqlite>>
  BY TimescaleSends DEF SendTimescale, At, Leave, Current, dashVars
<1>2. task \in [Conns -> TaskStates] /\ Tasks(frames, task)
  BY DEF IInv, Tasks
<1>3. Rest("read") \in TaskStates /\ Rest("read").at = "read"
  BY ConstantFacts DEF Rest, TaskStates
<1>4. /\ \A d \in Conns : d # c => task'[d] = task[d]
      /\ task'[c].at = "read" /\ task' \in [Conns -> TaskStates]
  BY <1>1, <1>2, <1>3
<1>5. FramesType' /\ Tasks(frames', task')
  BY <1>1, <1>4, TasksKeep DEF Stages
<1>6. Serves(frames, task', sqlite, {"sqlite"})
  <2>1. \A d \in Conns : /\ task'[d].at \in {"sqlite"} <=> task[d].at \in {"sqlite"}
                         /\ task'[d].at \in {"sqlite"} => task'[d].frame = task[d].frame
    BY <1>1, <1>4
  <2> QED BY <2>1, MoveServes DEF IInv
<1>7. Serves(frames, task', timescale', Stages)
  <2>1. Serves(frames, task, timescale, Stages) /\ task[c].at \in Stages
        /\ task'[c].at \notin Stages
    BY <1>1, <1>4 DEF IInv, Stages
  <2>2. Serves(frames, task', Sent(timescale, task[c].frame), Stages)
    BY <1>2, <1>4, <2>1, StagesOf, LengthIs, SendServes
  <2> QED BY <1>1, <2>2
<1> QED BY <1>1, <1>5, <1>6, <1>7 DEF IInv, Ages

LEMMA WritersKeep == IInv /\ (SqliteWriter \/ TimescaleWriter) => IInv'
<1> SUFFICES ASSUME IInv, SqliteWriter \/ TimescaleWriter PROVE IInv'
  OBVIOUS
<1>1. UNCHANGED <<frames, task, elapsed, shown>>
  BY DEF SqliteWriter, TimescaleWriter, dashVars
<1>2. FramesType' /\ Tasks(frames', task') /\ Ages'
  BY <1>1 DEF IInv, FramesType, Ages
<1>3. CASE SqliteWriter
  <2>1. sqlite \in Writer /\ timescale' = timescale /\ Sqlite!Step
    BY <1>3 DEF SqliteWriter, IInv, Serves
  <2>2. Serves(frames, task, sqlite', {"sqlite"})
    BY <2>1, SqliteSteps, StepServes DEF IInv
  <2> QED BY <1>1, <1>2, <2>1, <2>2 DEF IInv
<1>4. CASE TimescaleWriter
  <2>1. timescale \in Writer /\ sqlite' = sqlite /\ Timescale!Step
    BY <1>4 DEF TimescaleWriter, IInv, Serves
  <2>2. Serves(frames, task, timescale', Stages)
    BY <2>1, TimescaleSteps, StepServes DEF IInv
  <2> QED BY <1>1, <1>2, <2>1, <2>2 DEF IInv
<1> QED BY <1>3, <1>4

LEMMA CrashKeeps == IInv /\ Crash => IInv'
<1> SUFFICES ASSUME IInv, Crash PROVE IInv'
  OBVIOUS
<1>1. /\ task' = [c \in Conns |-> Rest(IF At(c, "none") THEN "none" ELSE "ended")]
      /\ UNCHANGED <<frames, elapsed, shown>>
  BY DEF Crash, dashVars
<1>2. /\ task' \in [Conns -> TaskStates]
      /\ \A c \in Conns : task'[c].at \notin Stages /\ task'[c].at \notin {"sqlite"}
  BY <1>1, ConstantFacts DEF Rest, TaskStates, Stages
<1>3. FramesType' /\ Tasks(frames', task')
  BY <1>1, <1>2, TasksKeep
<1>4. Tasks(frames, task) /\ Len(frames) \in Nat /\ Len(frames) <= MaxFrames
  BY LengthIs DEF IInv
<1>5. Serves(frames, task', sqlite', {"sqlite"})
  <2>1. Serves(frames, task', Emptied(sqlite, Owed(task, {"sqlite"})), {"sqlite"})
    BY <1>2, <1>4, StagesOf, CrashServes DEF IInv
  <2> QED BY <2>1, Crashes
<1>6. Serves(frames, task', timescale', Stages)
  <2>1. Serves(frames, task', Emptied(timescale, Owed(task, Stages)), Stages)
    BY <1>2, <1>4, StagesOf, CrashServes DEF IInv
  <2> QED BY <2>1, Crashes
<1> QED BY <1>1, <1>3, <1>5, <1>6 DEF IInv, Ages

LEMMA InvNext == IInv /\ [Next]_vars => IInv'
<1> SUFFICES ASSUME IInv, [Next]_vars PROVE IInv'
  OBVIOUS
<1>1. CASE UNCHANGED vars
  BY <1>1 DEF vars, dashVars, IInv, FramesType, Ages
<1>2. CASE Tick
  BY <1>2, TickKeeps
<1>3. CASE \E c \in Conns : Accept(c) \/ Disconnect(c)
  BY <1>3, ConnectionKeeps
<1>4. CASE \E c \in Conns : Read(c)
  BY <1>4, ReadKeeps
<1>5. CASE \E c \in Conns : Handle(c)
  BY <1>5, SendSqliteKeeps, SendWsKeeps, SendTimescaleKeeps DEF Handle
<1>6. CASE SqliteWriter \/ TimescaleWriter
  BY <1>6, WritersKeep
<1>7. CASE Crash
  BY <1>7, CrashKeeps
<1> QED BY <1>1, <1>2, <1>3, <1>4, <1>5, <1>6, <1>7 DEF Next

LEMMA Invariance == Spec => []IInv
BY InvInit, InvNext, PTL DEF Spec

(***************************************************************************)
(* The theorems                                                            *)
(***************************************************************************)

\* The values of a connection's task, the throttles, the channels and the batches are
\* what the code declares, no channel is over its capacity, and no batch over its limit.
THEOREM TypeCorrect == Spec => []TypeOK
<1>1. IInv => TypeOK
  <2> SUFFICES ASSUME IInv PROVE TypeOK
    OBVIOUS
  <2>1. frames \in Seq([conn : Conns, id : CanIds]) /\ Len(frames) <= MaxFrames
    BY DEF IInv, FramesType, Packets
  <2>2. task \in [Conns -> [at : {"none", "read", "ended"} \cup Stages, frame : 0..MaxFrames]]
    BY DEF IInv, Tasks, TaskStates
  <2>3. /\ elapsed \in [Conns -> [CanIds -> 0..Throttle]]
        /\ shown \in [Conns -> [CanIds -> 0..Throttle]]
    BY DEF IInv, Ages
  <2>4. Sqlite!TypeOK(FrameNo) /\ Timescale!TypeOK(FrameNo)
    BY DEF IInv, Serves, Writer, Bounded, Sqlite!TypeOK, Timescale!TypeOK
  <2> QED BY <2>1, <2>2, <2>3, <2>4 DEF TypeOK
<1> QED BY <1>1, Invariance, PTL

\* Every frame read is on its way to each database, in its table, or lost to a full
\* channel, a failed transaction or the end of the process.
THEOREM FramesAreAccountedFor == Spec => []NoUnexplainedLoss
<1>1. IInv => NoUnexplainedLoss
  <2> SUFFICES ASSUME IInv PROVE NoUnexplainedLoss
    OBVIOUS
  <2>1. DOMAIN frames = 1..Len(frames)
    BY DEF IInv, FramesType
  <2>2. /\ Kept(sqlite) = Sqlite!Waiting \cup Sqlite!Stored \cup sqlite.lost
        /\ Kept(timescale) = Timescale!Waiting \cup Timescale!Stored \cup timescale.lost
    BY DEF Kept, Content, Range, Sqlite!Waiting, Sqlite!Stored, Sqlite!Items,
           Timescale!Waiting, Timescale!Stored, Timescale!Items
  <2>3. /\ 1..Len(frames) \subseteq Owed(task, {"sqlite"}) \cup Kept(sqlite)
        /\ 1..Len(frames) \subseteq Owed(task, Stages) \cup Kept(timescale)
    BY DEF IInv, Serves
  <2> QED BY <2>1, <2>2, <2>3, OwedIs DEF NoUnexplainedLoss
<1> QED BY <1>1, Invariance, PTL

\* A table has the frames of one connection in the order they were read and none twice,
\* whatever was dropped or rolled back between them.
THEOREM TablesAreInOrder == Spec => []RowsInOrderOnce
<1>1. IInv => RowsInOrderOnce
  BY DEF IInv, Serves, Ordered, InOrder, Earlier, RowsInOrderOnce, InOrderOnce
<1> QED BY <1>1, Invariance, PTL

\* Dashboards get a frame of a CAN id exactly if none went out on the same connection in
\* the 50 ms before it.
THEOREM DashboardsAreThrottled == Spec => DashboardRate
<1>1. ASSUME IInv, [Next]_vars, NEW c \in Conns, At(c, "ws"), task'[c].at \in {"shown", "kept"}
      PROVE  At(c, "shown")' <=> shown[c][frames[Current(c)].id] >= Throttle
  <2>1. task \in [Conns -> TaskStates] /\ shown = elapsed /\ task[c].at = "ws"
    BY <1>1 DEF IInv, Tasks, Ages, At
  <2>2. ASSUME NEW d \in Conns, d # c,
               Accept(d) \/ Disconnect(d) \/ Read(d) \/ Handle(d)
        PROVE  FALSE
    <3>1. task'[c] = task[c]
      BY <2>1, <2>2
         DEF Accept, Disconnect, Read, Handle, SendSqlite, SendWs, SendTimescale, Leave, Goto
    <3> QED BY <1>1, <2>1, <3>1
  <2>3. ~(Accept(c) \/ Disconnect(c) \/ Read(c) \/ SendSqlite(c) \/ SendTimescale(c))
    BY <2>1 DEF Accept, Disconnect, Read, SendSqlite, SendTimescale, At
  <2>4. ~(Tick \/ SqliteWriter \/ TimescaleWriter \/ UNCHANGED vars)
    BY <1>1, <2>1 DEF Tick, SqliteWriter, TimescaleWriter, vars
  <2>5. ~Crash
    BY <1>1, <2>1 DEF Crash, Rest
  <2>6. SendWs(c)
    BY <1>1, <2>2, <2>3, <2>4, <2>5 DEF Next, Handle
  <2>7. At(c, "shown")' <=> Due(c, frames[Current(c)].id)
    <3> DEFINE due == Due(c, frames[Current(c)].id)
    <3>1. \/ due /\ task' = [task EXCEPT ![c].at = "shown"]
          \/ ~due /\ task' = [task EXCEPT ![c].at = "kept"]
      BY <2>6 DEF SendWs, Goto
    <3> HIDE DEF due
    <3>2. task'[c].at = IF due THEN "shown" ELSE "kept"
      BY <2>1, <3>1 DEF TaskStates
    <3> QED BY <3>2 DEF At, due
  <2> QED BY <2>1, <2>7 DEF Due
<1>2. IInv /\ [Next]_vars =>
        \A c \in Conns : At(c, "ws") /\ task'[c].at \in {"shown", "kept"} =>
          (At(c, "shown")' <=> shown[c][frames[Current(c)].id] >= Throttle)
  BY <1>1
<1> QED BY <1>2, Invariance, PTL DEF Spec, DashboardRate

===============================================================================
