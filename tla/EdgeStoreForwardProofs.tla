------------------------ MODULE EdgeStoreForwardProofs ------------------------
(***************************************************************************)
(* Proofs about EdgeStoreForward for every value of its constants.         *)
(***************************************************************************)
EXTENDS EdgeStoreForward, SequenceTheorems, TLAPS

(***************************************************************************)
(* What the operations on channels, batches and tables do to the set of    *)
(* elements a sequence holds.                                              *)
(***************************************************************************)

\* A sequence over S holds elements of S only.
LEMMA RangeInSet ==
  ASSUME NEW S, NEW s \in Seq(S)
  PROVE  Range(s) \subseteq S
BY DEF Range

\* Putting a frame in a channel adds exactly this frame.
LEMMA RangeAppend ==
  ASSUME NEW S, NEW s \in Seq(S), NEW e \in S
  PROVE  Range(Append(s, e)) = Range(s) \cup {e}
<1>1. /\ DOMAIN s = 1..Len(s) /\ Len(s) \in Nat
      /\ DOMAIN Append(s, e) = 1..(Len(s) + 1)
      /\ \A i \in 1..Len(s) : Append(s, e)[i] = s[i]
      /\ Append(s, e)[Len(s) + 1] = e
  OBVIOUS
<1>2. 1..(Len(s) + 1) = (1..Len(s)) \cup {Len(s) + 1}
  BY <1>1
<1> QED
  BY <1>1, <1>2, ZenonT(30) DEF Range

\* Taking the head of a channel removes no other frame.
LEMMA RangeTail ==
  ASSUME NEW S, NEW s \in Seq(S), s # <<>>
  PROVE  Range(s) = {Head(s)} \cup Range(Tail(s))
<1>1. Len(s) \in Nat \ {0} /\ Tail(s) \in Seq(S) /\ Len(Tail(s)) = Len(s) - 1
  BY HeadTailProperties, EmptySeq
<1>2. \A i \in DOMAIN s : s[i] \in {Head(s)} \cup Range(Tail(s))
  <2> SUFFICES ASSUME NEW i \in 1..Len(s), i # 1
               PROVE  s[i] \in Range(Tail(s))
    BY <1>1
  <2>1. i - 1 \in DOMAIN Tail(s) /\ Tail(s)[i - 1] = s[i]
    BY <1>1, HeadTailProperties
  <2> QED BY <2>1 DEF Range
<1>3. Head(s) \in Range(s)
  BY <1>1 DEF Range
<1>4. \A i \in DOMAIN Tail(s) : i + 1 \in DOMAIN s /\ Tail(s)[i] = s[i + 1]
  BY <1>1, HeadTailProperties
<1> QED
  BY <1>2, <1>3, <1>4 DEF Range

\* A transaction stores the rows it had and the frames it got.
LEMMA RangeConcat ==
  ASSUME NEW S, NEW s \in Seq(S), NEW t \in Seq(S)
  PROVE  Range(s \o t) = Range(s) \cup Range(t)
<1>1. /\ Len(s) \in Nat /\ Len(t) \in Nat
      /\ DOMAIN s = 1..Len(s) /\ DOMAIN t = 1..Len(t)
      /\ s \o t \in Seq(S) /\ DOMAIN (s \o t) = 1..(Len(s) + Len(t))
  BY ConcatProperties
<1>2. \A i \in 1..Len(s) : (s \o t)[i] = s[i]
  BY <1>1, ConcatProperties
<1>3. \A i \in 1..Len(t) : (s \o t)[Len(s) + i] = t[i] /\ Len(s) + i \in 1..(Len(s) + Len(t))
  BY <1>1, ConcatProperties
<1>4. \A i \in 1..(Len(s) + Len(t)) : i \in 1..Len(s) \/ (i - Len(s) \in 1..Len(t) /\ i = Len(s) + (i - Len(s)))
  BY <1>1
<1>5. Range(s \o t) \subseteq Range(s) \cup Range(t)
  BY <1>1, <1>2, <1>3, <1>4 DEF Range
<1>6. Range(s) \subseteq Range(s \o t)
  BY <1>1, <1>2 DEF Range
<1>7. Range(t) \subseteq Range(s \o t)
  BY <1>1, <1>3, Zenon DEF Range
<1> QED BY <1>5, <1>6, <1>7

\* Splitting the pipeline into a batch and the rest loses no frame.
LEMMA RangeSplit ==
  ASSUME NEW S, NEW s \in Seq(S), NEW n \in 0..Len(s)
  PROVE  /\ SubSeq(s, 1, n) \in Seq(S) /\ Len(SubSeq(s, 1, n)) = n
         /\ SubSeq(s, n + 1, Len(s)) \in Seq(S)
         /\ Len(SubSeq(s, n + 1, Len(s))) = Len(s) - n
         /\ Range(s) = Range(SubSeq(s, 1, n)) \cup Range(SubSeq(s, n + 1, Len(s)))
<1> DEFINE a == SubSeq(s, 1, n)
           b == SubSeq(s, n + 1, Len(s))
<1>1. Len(s) \in Nat /\ \A i \in 1..Len(s) : s[i] \in S
  BY ElementOfSeq, LenProperties
<1>2. a \in Seq(S) /\ Len(a) = n /\ \A i \in 1..n : a[i] = s[i]
  BY <1>1, SubSeqProperties
<1>3. b \in Seq(S) /\ Len(b) = Len(s) - n /\ \A i \in 1..(Len(s) - n) : b[i] = s[n + i]
  BY <1>1, SubSeqProperties
<1>4. \A i \in 1..Len(s) : (i \in 1..n) \/ (i - n \in 1..(Len(s) - n) /\ i = n + (i - n))
  BY <1>1
<1>5. \A i \in 1..(Len(s) - n) : n + i \in 1..Len(s)
  BY <1>1
<1>6. \A i \in 1..n : i \in 1..Len(s)
  BY <1>1
<1> HIDE DEF a, b
<1>7. DOMAIN s = 1..Len(s) /\ DOMAIN a = 1..n /\ DOMAIN b = 1..(Len(s) - n)
  BY <1>1, <1>2, <1>3
<1>8. Range(s) \subseteq Range(a) \cup Range(b)
  <2> SUFFICES ASSUME NEW i \in 1..Len(s)
               PROVE  s[i] \in Range(a) \cup Range(b)
    BY <1>7 DEF Range
  <2>1. CASE i \in 1..n
    BY <2>1, <1>2, <1>7 DEF Range
  <2>2. CASE i - n \in 1..(Len(s) - n) /\ i = n + (i - n)
    <3>1. b[i - n] = s[i]
      BY <2>2, <1>3
    <3> QED BY <3>1, <2>2, <1>7 DEF Range
  <2> QED BY <2>1, <2>2, <1>4
<1>9. Range(a) \subseteq Range(s)
  BY <1>2, <1>6, <1>7 DEF Range
<1>10. Range(b) \subseteq Range(s)
  BY <1>3, <1>5, <1>7, Zenon DEF Range
<1> QED BY <1>2, <1>3, <1>8, <1>9, <1>10 DEF a, b

\* Where the elements of both parts were.
LEMMA SplitElements ==
  ASSUME NEW S, NEW s \in Seq(S), NEW n \in 0..Len(s)
  PROVE  /\ \A i \in DOMAIN SubSeq(s, 1, n) : i \in 1..n /\ SubSeq(s, 1, n)[i] = s[i]
         /\ \A i \in DOMAIN SubSeq(s, n + 1, Len(s)) :
              n + i \in DOMAIN s /\ SubSeq(s, n + 1, Len(s))[i] = s[n + i]
<1> DEFINE a == SubSeq(s, 1, n)
           b == SubSeq(s, n + 1, Len(s))
<1>1. Len(s) \in Nat /\ \A i \in 1..Len(s) : s[i] \in S
  BY ElementOfSeq, LenProperties
<1>2. a \in Seq(S) /\ Len(a) = n /\ \A i \in 1..n : a[i] = s[i]
  BY <1>1, SubSeqProperties
<1>3. b \in Seq(S) /\ Len(b) = Len(s) - n /\ \A i \in 1..(Len(s) - n) : b[i] = s[n + i]
  BY <1>1, SubSeqProperties
<1> HIDE DEF a, b
<1>4. DOMAIN s = 1..Len(s) /\ DOMAIN a = 1..n /\ DOMAIN b = 1..(Len(s) - n)
  BY <1>2, <1>3
<1>5. /\ \A i \in DOMAIN a : i \in 1..n /\ a[i] = s[i]
      /\ \A i \in DOMAIN b : n + i \in DOMAIN s /\ b[i] = s[n + i]
  BY <1>1, <1>2, <1>3, <1>4
<1> QED BY <1>5 DEF a, b

(***************************************************************************)
(* Type correctness, part by part: what leaves the variables of a part     *)
(* alone leaves the part true.                                             *)
(***************************************************************************)

LEMMA ConstantFacts ==
  /\ MaxFrame \in Nat \ {0} /\ ChanCap \in Nat \ {0} /\ BatchSize \in Nat \ {0}
  /\ SqliteCap \in Nat \ {0} /\ FlushAt \in Nat \ {0} /\ MaxCopies \in Nat \ {0}
  /\ NoConn \notin Conns
BY ConstantsAssumption

LEMMA SamePipeline == PipelineOK /\ UNCHANGED <<arrived, rx, running>> => PipelineOK'
BY DEF PipelineOK

LEMMA SameLoop == LoopOK /\ UNCHANGED <<pc, conn, batch, pos>> => LoopOK'
BY DEF LoopOK

LEMMA SameWriter == WriterOK /\ UNCHANGED <<sqlite, pending>> => WriterOK'
BY DEF WriterOK

LEMMA SameTable ==
  TableOK /\ UNCHANGED <<rows, synced, todo, syncedIds, disk>> => TableOK'
BY DEF TableOK

LEMMA SameNet == NetOK /\ UNCHANGED <<link, net, last, got>> => NetOK'
BY DEF NetOK

LEMMA SameGone == GoneOK /\ UNCHANGED gone => GoneOK'
BY DEF GoneOK

LEMMA DropGone ==
  ASSUME NEW x \in Cause, NEW S \in SUBSET Frame, GoneOK, Drop(x, S)
  PROVE  GoneOK'
BY DEF GoneOK, Drop

\* The frames in memory are frames.
LEMMA VolatileFrames == TypeOK => Volatile \subseteq Frame
<1> SUFFICES ASSUME TypeOK PROVE Volatile \subseteq Frame
  OBVIOUS
<1>1. rx \in Seq(Frame) /\ sqlite \in Seq(Frame) /\ pending \in Seq(Frame)
      /\ batch \in Seq(Frame) /\ pos \in Nat \ {0}
  BY DEF TypeOK, PipelineOK, WriterOK, LoopOK
<1>2. Range(rx) \subseteq Frame /\ Range(sqlite) \subseteq Frame
      /\ Range(pending) \subseteq Frame /\ Range(batch) \subseteq Frame
  BY <1>1, RangeInSet
<1>3. {batch[i] : i \in pos..Len(batch)} \subseteq Frame
  BY <1>1
<1> QED BY <1>2, <1>3 DEF Volatile, Buffered

LEMMA InitType == Init => TypeOK
<1> SUFFICES ASSUME Init PROVE TypeOK
  OBVIOUS
<1> USE ConstantFacts, EmptySeq DEF Init
<1>1. PipelineOK BY DEF PipelineOK
<1>2. LoopOK BY DEF LoopOK, PC
<1>3. WriterOK BY DEF WriterOK
<1>4. TableOK BY DEF TableOK
<1>5. NetOK BY DEF NetOK
<1>6. GoneOK BY DEF GoneOK, Cause
<1> QED BY <1>1, <1>2, <1>3, <1>4, <1>5, <1>6 DEF TypeOK

\* A death of the process empties its memory and touches neither table nor wire.
LEMMA DieType == TypeOK /\ Die => PipelineOK' /\ LoopOK' /\ WriterOK' /\ NetOK'
<1> SUFFICES ASSUME TypeOK, Die PROVE PipelineOK' /\ LoopOK' /\ WriterOK' /\ NetOK'
  OBVIOUS
<1> USE ConstantFacts, EmptySeq DEF TypeOK, Die
<1>1. PipelineOK' BY DEF PipelineOK
<1>2. LoopOK' BY DEF LoopOK, PC
<1>3. WriterOK' BY DEF WriterOK
<1>4. NetOK' BY DEF NetOK
<1> QED BY <1>1, <1>2, <1>3, <1>4

\* The kernel takes a frame: only net and gone change, within their types.
LEMMA KernelType ==
  ASSUME TypeOK, NEW f \in Frame, KernelAccepts(f), conn \in Conns,
         UNCHANGED <<link, last, got>>
  PROVE  NetOK' /\ GoneOK'
<1>1. CASE link[conn] = "up"
  <2>1. net' = [net EXCEPT ![conn] = Append(@, f)] /\ UNCHANGED gone
    BY <1>1 DEF KernelAccepts
  <2>2. Append(net[conn], f) \in Seq(Frame)
    BY DEF TypeOK, NetOK
  <2> QED BY <2>1, <2>2, SameGone DEF TypeOK, NetOK
<1>2. CASE link[conn] # "up"
  <2>1. Drop("wire", {f}) /\ UNCHANGED net
    BY <1>2 DEF KernelAccepts
  <2> QED BY <2>1, DropGone, SameNet DEF TypeOK, Cause
<1> QED BY <1>1, <1>2

\* The writer's transaction: rows only grow, by frames, and pending is emptied.
LEMMA FlushType ==
  ASSUME TypeOK, NEW frames \in Seq(Frame), Flush(frames),
         UNCHANGED <<synced, todo, syncedIds, disk>>
  PROVE  pending' = <<>> /\ TableOK' /\ GoneOK'
<1>1. pending' = <<>>
  BY DEF Flush, PendingAfterFlush
<1>2. CASE rows' = rows \o frames /\ UNCHANGED gone
  <2>1. rows \in Seq(Frame)
    BY DEF TypeOK, TableOK
  <2>2. rows' \in Seq(Frame) /\ Len(rows') = Len(rows) + Len(frames)
    BY <1>2, <2>1, ConcatProperties
  <2>3. Len(rows) \in Nat /\ Len(frames) \in Nat
    BY <2>1
  <2>4. DOMAIN rows \subseteq DOMAIN rows'
    BY <2>1, <2>2, <2>3
  <2>5. TableOK'
    BY <1>2, <2>2, <2>3, <2>4 DEF TypeOK, TableOK
  <2> QED BY <1>1, <1>2, <2>5, SameGone DEF TypeOK
<1>3. CASE Drop("flush", Range(frames)) /\ UNCHANGED rows
  <2>1. Range(frames) \subseteq Frame
    BY RangeInSet
  <2> QED BY <1>1, <1>3, <2>1, DropGone, SameTable DEF TypeOK, Cause
<1> QED BY <1>2, <1>3 DEF Flush

\* Going through a batch: the position advances within it, and the loop leaves the
\* state it is in when the batch is exhausted.
AdvanceIn(there, next) ==
  /\ pc = there
  /\ IF pos = Len(batch)
     THEN pc' = next /\ conn' \in {conn, NoConn} /\ batch' = <<>> /\ pos' = 1
     ELSE pos' = pos + 1 /\ UNCHANGED <<pc, conn, batch>>

LEMMA AdvanceLoop ==
  LoopOK =>
    /\ AdvanceIn("send", "collect") /\ conn' = conn => LoopOK'
    /\ AdvanceIn("backup", "reconnect") => LoopOK'
<1> SUFFICES ASSUME LoopOK,
                    \/ AdvanceIn("send", "collect") /\ conn' = conn
                    \/ AdvanceIn("backup", "reconnect")
             PROVE  LoopOK'
  OBVIOUS
<1> USE DEF LoopOK, AdvanceIn
<1>1. pos \in Nat \ {0} /\ batch \in Seq(Frame) /\ Len(batch) \in Nat
      /\ pos <= Len(batch) /\ conn \in Conns
  OBVIOUS
<1>2. CASE pos = Len(batch)
  <2>1. batch' \in Seq(Frame) /\ Len(batch') = 0 /\ pos' = 1
    BY <1>2, EmptySeq
  <2> QED BY <1>1, <1>2, <2>1, ConstantFacts DEF PC
<1>3. CASE pos # Len(batch)
  <2>1. pos + 1 \in Nat \ {0} /\ pos + 1 <= Len(batch)
    BY <1>1, <1>3
  <2> QED BY <1>1, <1>3, <2>1
<1> QED BY <1>2, <1>3

LEMMA NextType == TypeOK /\ [Next]_vars => TypeOK'
<1> SUFFICES ASSUME TypeOK, [Next]_vars PROVE TypeOK'
  OBVIOUS
<1> USE ConstantFacts, SamePipeline, SameLoop, SameWriter, SameTable, SameNet, SameGone
    DEF loopVars, dbVars, netVars
<1>0. /\ PipelineOK /\ LoopOK /\ WriterOK /\ TableOK /\ NetOK /\ GoneOK
      /\ Volatile \subseteq Frame
  BY VolatileFrames DEF TypeOK
<1>1. CASE BusFrame
  <2> USE <1>1 DEF BusFrame
  <2>1. arrived + 1 \in Frame /\ arrived' = arrived + 1 /\ arrived' \in 0..MaxFrame
    BY <1>0 DEF PipelineOK, Frame
  <2>2. PipelineOK'
    BY <1>0, <2>1 DEF PipelineOK
  <2>3. GoneOK'
    BY <1>0, <2>1, DropGone DEF Cause
  <2> QED BY <1>0, <2>2, <2>3 DEF TypeOK
<1>2. ASSUME NEW c \in Conns, Break(c) PROVE TypeOK'
  <2>1. NetOK' BY <1>0, <1>2 DEF Break, NetOK
  <2> QED BY <1>0, <1>2, <2>1 DEF Break, TypeOK
<1>3. ASSUME NEW c \in Conns, Deliver(c) PROVE TypeOK'
  <2> USE <1>3 DEF Deliver
  <2>1. net[c] \in Seq(Frame) /\ Head(net[c]) \in Frame /\ Tail(net[c]) \in Seq(Frame)
    BY <1>0 DEF NetOK
  <2>2. Least(got[Head(net[c])] + 1, MaxCopies) \in 0..MaxCopies
    BY <1>0, <2>1 DEF NetOK, Least
  <2>3. net' \in [Conns -> Seq(Frame)]
    BY <1>0, <2>1 DEF NetOK
  <2>4. last' \in [Conns -> 0..MaxFrame]
    <3>1. Frame \subseteq 0..MaxFrame
      BY DEF Frame
    <3> QED BY <1>0, <2>1, <3>1 DEF NetOK
  <2>5. got' \in [Frame -> 0..MaxCopies]
    BY <1>0, <2>1, <2>2 DEF NetOK
  <2>6. NetOK'
    BY <1>0, <2>3, <2>4, <2>5 DEF NetOK
  <2> QED BY <1>0, <2>6 DEF TypeOK
<1>4. ASSUME NEW c \in Conns, LoseInFlight(c) PROVE TypeOK'
  <2> USE <1>4 DEF LoseInFlight
  <2>1. Range(net[c]) \subseteq Frame
    BY <1>0, RangeInSet DEF NetOK
  <2>2. NetOK'
    BY <1>0, EmptySeq DEF NetOK
  <2>3. GoneOK'
    BY <1>0, <2>1, DropGone DEF Cause
  <2> QED BY <1>0, <2>2, <2>3 DEF TypeOK
<1>5. ASSUME NEW c \in Conns, Close(c) PROVE TypeOK'
  <2>1. NetOK' BY <1>0, <1>5 DEF Close, NetOK
  <2> QED BY <1>0, <1>5, <2>1 DEF Close, TypeOK
<1>6. CASE Shutdown
  BY <1>0, <1>6 DEF Shutdown, TypeOK, PipelineOK
<1>7. CASE Exit
  <2>1. TableOK'
    BY <1>0, <1>7 DEF Exit, Die, TableOK
  <2>2. GoneOK'
    BY <1>0, <1>7, DropGone DEF Exit, Cause
  <2> QED BY <1>7, <2>1, <2>2, DieType DEF Exit, TypeOK
<1>8. CASE ReturnFromMain
  <2> USE <1>8 DEF ReturnFromMain
  <2>1. GoneOK'
    <3>1. Range(rx) \cup Buffered \subseteq Frame
      BY <1>0 DEF Volatile
    <3> QED BY <1>0, <3>1, DropGone DEF Cause
  <2>2. TableOK'
    <3>1. pending \in Seq(Frame) /\ sqlite \in Seq(Frame) /\ rows \in Seq(Frame)
      BY <1>0 DEF WriterOK, TableOK
    <3>2. rows \o pending \in Seq(Frame) /\ Len(rows \o pending) = Len(rows) + Len(pending)
      BY <3>1, ConcatProperties
    <3>3. /\ rows \o pending \o sqlite \in Seq(Frame)
          /\ Len(rows \o pending \o sqlite) = Len(rows) + Len(pending) + Len(sqlite)
      BY <3>1, <3>2, ConcatProperties
    <3>4. Len(rows) \in Nat /\ Len(pending) \in Nat /\ Len(sqlite) \in Nat
      BY <3>1
    <3>5. rows' \in Seq(Frame) /\ Len(rows') >= Len(rows)
      <4>1. CASE rows' = rows \o pending \o sqlite
        BY <3>3, <3>4, <4>1
      <4>2. CASE rows' = rows
        BY <3>1, <3>4, <4>2
      <4> QED BY <4>1, <4>2
    <3>6. DOMAIN rows \subseteq DOMAIN rows'
      BY <3>1, <3>4, <3>5
    <3> QED BY <1>0, <3>4, <3>5, <3>6 DEF Die, TableOK
  <2> QED BY <2>1, <2>2, DieType DEF TypeOK
<1>9. CASE Crash
  <2>1. TableOK'
    BY <1>0, <1>9 DEF Crash, Die, TableOK
  <2>2. GoneOK'
    BY <1>0, <1>9, DropGone DEF Crash, Cause
  <2> QED BY <1>9, <2>1, <2>2, DieType DEF Crash, TypeOK
<1>10. CASE Checkpoint
  <2>1. TableOK'
    BY <1>0, <1>10 DEF Checkpoint, TableOK
  <2> QED BY <1>0, <1>10, <2>1 DEF Checkpoint, TypeOK
<1>11. CASE PowerLoss
  <2> USE <1>11 DEF PowerLoss
  <2>1. rows \in Seq(Frame) /\ Range(rows) \subseteq Frame
    BY <1>0, RangeInSet DEF TableOK
  <2>2. GoneOK'
    BY <1>0, <2>1 DEF GoneOK
  <2>3. rows' \in Seq(Frame) /\ Len(rows') = disk.rows
    BY <1>0, <2>1, RangeSplit DEF TableOK
  <2>4. TableOK'
    BY <1>0, <2>3 DEF Die, TableOK
  <2> QED BY <2>2, <2>4, DieType DEF TypeOK
<1>12. CASE Restart
  <2>1. PipelineOK' BY <1>0, <1>12 DEF Restart, PipelineOK
  <2>2. LoopOK' BY <1>0, <1>12 DEF Restart, LoopOK, PC
  <2> QED BY <1>0, <1>12, <2>1, <2>2 DEF Restart, TypeOK
<1>13. ASSUME NEW c \in Conns, Connect(c) PROVE TypeOK'
  <2>1. LoopOK' BY <1>0, <1>13 DEF Connect, LoopOK, PC
  <2>2. NetOK' BY <1>0, <1>13 DEF Connect, NetOK
  <2> QED BY <1>0, <1>13, <2>1, <2>2 DEF Connect, TypeOK
<1>14. CASE Select
  <2>1. LoopOK' BY <1>0, <1>14 DEF Select, LoopOK, PC
  <2>2. TableOK' BY <1>0, <1>14 DEF Select, Fetched, Unsynced, TableOK
  <2> QED BY <1>0, <1>14, <2>1, <2>2 DEF Select, TypeOK
<1>15. ASSUME NEW id \in todo, Replay(id) PROVE TypeOK'
  <2> USE <1>15 DEF Replay
  <2>1. LoopOK' BY <1>0 DEF LoopOK, PC
  <2>2. TableOK' BY <1>0 DEF TableOK
  <2>3. rows[id] \in Frame /\ conn \in Conns
    BY <1>0 DEF TableOK, LoopOK
  <2> QED BY <1>0, <2>1, <2>2, <2>3, KernelType DEF TypeOK
<1>16. CASE ReplayFails
  <2>1. LoopOK' BY <1>0, <1>16 DEF ReplayFails, LoopOK, PC
  <2>2. TableOK' BY <1>0, <1>16 DEF ReplayFails, TableOK
  <2> QED BY <1>0, <1>16, <2>1, <2>2 DEF ReplayFails, TypeOK
<1>17. CASE Mark
  <2>1. LoopOK' BY <1>0, <1>17 DEF Mark, LoopOK, PC
  <2>2. TableOK' BY <1>0, <1>17 DEF Mark, IdsToMark, TableOK
  <2> QED BY <1>0, <1>17, <2>1, <2>2 DEF Mark, TypeOK
<1>18. CASE Collect
  <2> DEFINE n == Least(BatchSize, Len(rx))
  <2>1. /\ pc = "collect" /\ rx # <<>> /\ pos' = 1 /\ pc' = "send"
        /\ batch' = SubSeq(rx, 1, n) /\ rx' = SubSeq(rx, n + 1, Len(rx))
    BY <1>18 DEF Collect, RestAfter
  <2>2. rx \in Seq(Frame) /\ Len(rx) \in Nat \ {0} /\ Len(rx) <= ChanCap
    BY <1>0, <2>1, EmptySeq DEF PipelineOK
  <2>3. n \in 1..Len(rx) /\ n <= BatchSize
    BY <2>2 DEF Least
  <2>4. /\ batch' \in Seq(Frame) /\ Len(batch') = n
        /\ rx' \in Seq(Frame) /\ Len(rx') <= ChanCap
    <3> HIDE DEF n
    <3>1. n \in 0..Len(rx)
      BY <2>2, <2>3
    <3>2. /\ SubSeq(rx, 1, n) \in Seq(Frame) /\ Len(SubSeq(rx, 1, n)) = n
          /\ SubSeq(rx, n + 1, Len(rx)) \in Seq(Frame)
          /\ Len(SubSeq(rx, n + 1, Len(rx))) = Len(rx) - n
      BY <2>2, <3>1, RangeSplit
    <3> QED BY <2>1, <2>2, <2>3, <3>2
  <2>5. PipelineOK' BY <1>0, <1>18, <2>4 DEF Collect, PipelineOK
  <2>6. LoopOK' BY <1>0, <1>18, <2>1, <2>3, <2>4 DEF Collect, LoopOK, PC
  <2> QED BY <1>0, <1>18, <2>5, <2>6 DEF Collect, TypeOK
<1>19. CASE Send
  <2> USE <1>19 DEF Send
  <2>1. batch[pos] \in Frame /\ conn \in Conns
    BY <1>0 DEF LoopOK
  <2>2. LoopOK'
    BY <1>0, <1>19, AdvanceLoop DEF Send, AdvanceIn
  <2> QED BY <1>0, <2>1, <2>2, KernelType DEF TypeOK
<1>20. CASE SendFails
  <2>1. LoopOK' BY <1>0, <1>20 DEF SendFails, FirstToBackUp, AfterFailedSend, LoopOK, PC
  <2> QED BY <1>0, <1>20, <2>1 DEF SendFails, FirstToBackUp, TypeOK
<1>21. CASE BackUp
  <2> USE <1>21 DEF BackUp
  <2>1. batch[pos] \in Frame
    BY <1>0 DEF LoopOK
  <2>2. LoopOK'
    BY <1>0, AdvanceLoop DEF AdvanceIn
  <2>3. WriterOK' BY <1>0, <2>1 DEF WriterOK, RoomForBackup
  <2>4. GoneOK' BY <1>0, <2>1, DropGone DEF Cause
  <2> QED BY <1>0, <2>2, <2>3, <2>4 DEF TypeOK
<1>22. CASE Reconnect
  <2>1. LoopOK' BY <1>0, <1>22 DEF Reconnect, LoopOK, PC
  <2> QED BY <1>0, <1>22, <2>1 DEF Reconnect, TypeOK
<1>23. CASE WriterRecv
  <2> DEFINE frames == Append(pending, Head(sqlite))
  <2> USE <1>23 DEF WriterRecv
  <2>1. Head(sqlite) \in Frame /\ sqlite' \in Seq(Frame) /\ Len(sqlite') <= SqliteCap
    BY <1>0 DEF WriterOK
  <2>2. frames \in Seq(Frame)
    BY <1>0, <2>1 DEF WriterOK
  <2>3. CASE Len(frames) >= FlushAt
    <3>1. Flush(frames) BY <2>3
    <3>2. pending' = <<>> /\ TableOK' /\ GoneOK'
      BY <2>2, <3>1, FlushType
    <3>3. WriterOK' BY <2>1, <3>2, EmptySeq DEF WriterOK
    <3> QED BY <1>0, <3>2, <3>3 DEF TypeOK
  <2>4. CASE ~(Len(frames) >= FlushAt)
    <3>1. pending' = frames /\ UNCHANGED <<rows, gone>> BY <2>4
    <3>2. Len(frames) \in Nat BY <2>2
    <3>3. WriterOK' BY <2>1, <2>2, <2>4, <3>1, <3>2 DEF WriterOK
    <3> QED BY <1>0, <3>1, <3>3 DEF TypeOK
  <2> QED BY <2>3, <2>4
<1>24. CASE WriterTick
  <2>1. pending \in Seq(Frame) /\ Flush(pending)
    BY <1>0, <1>24 DEF WriterTick, WriterOK
  <2>2. pending' = <<>> /\ TableOK' /\ GoneOK'
    BY <1>24, <2>1, FlushType DEF WriterTick
  <2>3. WriterOK' BY <1>0, <1>24, <2>2, EmptySeq DEF WriterTick, WriterOK
  <2> QED BY <1>0, <1>24, <2>2, <2>3 DEF WriterTick, TypeOK
<1>25. CASE UNCHANGED vars
  BY <1>0, <1>25 DEF vars, TypeOK
<1> QED
  BY <1>1, <1>2, <1>3, <1>4, <1>5, <1>6, <1>7, <1>8, <1>9, <1>10, <1>11, <1>12, <1>13,
     <1>14, <1>15, <1>16, <1>17, <1>18, <1>19, <1>20, <1>21, <1>22, <1>23, <1>24, <1>25
  DEF Next, Network, MainLoop, Writer, Environment

\* Every reachable state of the edge, for all capacities, limits, connections and
\* faults, is well typed: no channel or batch outgrows its capacity, every id names
\* a row.
THEOREM TypeCorrect == Spec => []TypeOK
BY InitType, NextType, PTL DEF Spec

(***************************************************************************)
(* What was dropped stays accounted for, what was written stays written.   *)
(***************************************************************************)

LEMMA DropGrows ==
  ASSUME NEW x \in Cause, NEW S, GoneOK, Drop(x, S)
  PROVE  S \subseteq gone'[x] /\ \A y \in Cause : gone[y] \subseteq gone'[y]
BY DEF GoneOK, Drop

LEMMA KernelGrows ==
  ASSUME GoneOK, NEW f, KernelAccepts(f)
  PROVE  \A x \in Cause : gone[x] \subseteq gone'[x]
BY DropGrows DEF KernelAccepts, Cause

LEMMA FlushGrows ==
  ASSUME GoneOK, NEW frames, Flush(frames)
  PROVE  \A x \in Cause : gone[x] \subseteq gone'[x]
BY DropGrows DEF Flush, Cause

\* No step forgets a frame that was dropped.
LEMMA GoneGrows == TypeOK /\ [Next]_vars => \A x \in Cause : gone[x] \subseteq gone'[x]
<1> SUFFICES ASSUME TypeOK, [Next]_vars PROVE \A x \in Cause : gone[x] \subseteq gone'[x]
  OBVIOUS
<1>0. GoneOK BY DEF TypeOK
<1> USE <1>0, DropGrows
<1>1. CASE BusFrame
  BY <1>1 DEF BusFrame, Cause
<1>2. CASE Network
  <2>1. ASSUME NEW c \in Conns, LoseInFlight(c)
        PROVE  \A x \in Cause : gone[x] \subseteq gone'[x]
    BY <2>1 DEF LoseInFlight, Cause
  <2> QED BY <1>2, <2>1 DEF Network, Break, Deliver, Close
<1>3. CASE Exit \/ Crash
  BY <1>3 DEF Exit, Crash, Cause
<1>4. CASE ReturnFromMain
  BY <1>4 DEF ReturnFromMain, Cause
<1>5. CASE PowerLoss
  BY <1>5 DEF PowerLoss, GoneOK
<1>6. ASSUME NEW id \in todo, Replay(id)
      PROVE  \A x \in Cause : gone[x] \subseteq gone'[x]
  BY <1>6, KernelGrows DEF Replay
<1>7. CASE Send
  BY <1>7, KernelGrows DEF Send
<1>8. CASE BackUp
  BY <1>8 DEF BackUp, Cause
<1>9. CASE Writer
  BY <1>9, FlushGrows DEF Writer, WriterRecv, WriterTick
<1>10. CASE \/ Shutdown \/ Checkpoint \/ Restart \/ Select \/ ReplayFails \/ Mark
            \/ Collect \/ SendFails \/ Reconnect \/ \E c \in Conns : Connect(c)
  BY <1>10 DEF Shutdown, Checkpoint, Restart, Select, ReplayFails, Mark, Collect,
               SendFails, Reconnect, Connect
<1>11. CASE UNCHANGED vars
  BY <1>11 DEF vars
<1> QED
  BY <1>1, <1>2, <1>3, <1>4, <1>5, <1>6, <1>7, <1>8, <1>9, <1>10, <1>11
     DEF Next, MainLoop, Environment

LEMMA WrittenCases ==
  /\ \A f : f \in Written <=> \/ f \in Frame /\ got[f] > 0
                              \/ f \in gone["wire"]
                              \/ \E c \in Conns : f \in Range(net[c])
  /\ \A f : f \in Written' <=> \/ f \in Frame /\ got'[f] > 0
                               \/ f \in gone'["wire"]
                               \/ \E c \in Conns : f \in Range(net'[c])
BY DEF Written

LEMMA WrittenKept ==
  ASSUME UNCHANGED <<got, net>>, gone["wire"] \subseteq gone'["wire"]
  PROVE  Written \subseteq Written'
BY DEF Written

\* A frame the kernel accepts counts as written, and so do all that did before.
LEMMA KernelWrites ==
  ASSUME TypeOK, NEW f \in Frame, KernelAccepts(f), conn \in Conns, UNCHANGED got
  PROVE  f \in Written' /\ Written \subseteq Written'
<1>0. GoneOK /\ NetOK BY DEF TypeOK
<1>1. CASE link[conn] = "up"
  <2>1. net' = [net EXCEPT ![conn] = Append(@, f)] /\ UNCHANGED gone
    BY <1>1 DEF KernelAccepts
  <2>2. Range(Append(net[conn], f)) = Range(net[conn]) \cup {f}
    BY <1>0, RangeAppend DEF NetOK
  <2>3. \A c \in Conns : Range(net[c]) \subseteq Range(net'[c])
    BY <1>0, <2>1, <2>2 DEF NetOK
  <2>4. f \in Range(net'[conn])
    BY <1>0, <2>1, <2>2 DEF NetOK
  <2> QED BY <2>1, <2>3, <2>4, WrittenCases
<1>2. CASE link[conn] # "up"
  <2>1. Drop("wire", {f}) /\ UNCHANGED net
    BY <1>2 DEF KernelAccepts
  <2>2. f \in gone'["wire"] /\ gone["wire"] \subseteq gone'["wire"]
    BY <1>0, <2>1, DropGrows DEF Cause
  <2> QED BY <2>1, <2>2, WrittenCases, WrittenKept
<1> QED BY <1>1, <1>2

\* No step takes back that a frame was handed to the kernel.
LEMMA WrittenGrows == TypeOK /\ [Next]_vars => Written \subseteq Written'
<1> SUFFICES ASSUME TypeOK, [Next]_vars PROVE Written \subseteq Written'
  OBVIOUS
<1>0. NetOK /\ GoneOK /\ LoopOK /\ TableOK /\ gone["wire"] \subseteq gone'["wire"]
  BY GoneGrows DEF TypeOK, Cause
<1>1. ASSUME NEW c \in Conns, Deliver(c) PROVE Written \subseteq Written'
  <2> DEFINE h == Head(net[c])
  <2>1. /\ net' = [net EXCEPT ![c] = Tail(@)] /\ UNCHANGED gone
        /\ got' = [got EXCEPT ![h] = Least(@ + 1, MaxCopies)]
        /\ net[c] # <<>> /\ net[c] \in Seq(Frame)
    BY <1>0, <1>1 DEF Deliver, NetOK
  <2>2. h \in Frame /\ Range(net[c]) = {h} \cup Range(Tail(net[c]))
    BY <2>1, RangeTail
  <2>3. got'[h] > 0 /\ \A f \in Frame : got[f] > 0 => got'[f] > 0
    BY <1>0, <2>1, <2>2, ConstantFacts DEF NetOK, Least
  <2>4. \A d \in Conns : Range(net[d]) \subseteq {h} \cup Range(net'[d])
    BY <1>0, <2>1, <2>2 DEF NetOK
  <2> QED BY <2>1, <2>2, <2>3, <2>4, WrittenCases
<1>2. ASSUME NEW c \in Conns, LoseInFlight(c) PROVE Written \subseteq Written'
  <2>1. /\ net' = [net EXCEPT ![c] = <<>>] /\ UNCHANGED got
        /\ Range(net[c]) \subseteq gone'["wire"]
    BY <1>0, <1>2, DropGrows DEF LoseInFlight, Cause
  <2>2. \A d \in Conns : Range(net[d]) \subseteq gone'["wire"] \cup Range(net'[d])
    BY <1>0, <2>1 DEF NetOK
  <2> QED BY <1>0, <2>1, <2>2, WrittenCases
<1>3. ASSUME NEW id \in todo, Replay(id) PROVE Written \subseteq Written'
  <2>1. rows[id] \in Frame /\ conn \in Conns /\ KernelAccepts(rows[id]) /\ UNCHANGED got
    BY <1>0, <1>3 DEF Replay, TableOK, LoopOK
  <2> QED BY <2>1, KernelWrites
<1>4. CASE Send
  <2>1. batch[pos] \in Frame /\ conn \in Conns /\ KernelAccepts(batch[pos]) /\ UNCHANGED got
    BY <1>0, <1>4 DEF Send, LoopOK
  <2> QED BY <2>1, KernelWrites
<1>5. CASE UNCHANGED <<got, net>>
  BY <1>0, <1>5, WrittenKept
<1>6. \/ UNCHANGED <<got, net>> \/ Send
      \/ \E c \in Conns : Deliver(c) \/ LoseInFlight(c)
      \/ \E id \in todo : Replay(id)
  BY DEF Next, Network, MainLoop, Writer, Environment, BusFrame, Break, Close, Shutdown,
         Exit, ReturnFromMain, Crash, Checkpoint, PowerLoss, Restart, Die, Connect, Select,
         ReplayFails, Mark, Collect, SendFails, BackUp, Reconnect, WriterRecv, WriterTick,
         vars, loopVars, dbVars, netVars
<1> QED BY <1>1, <1>2, <1>3, <1>4, <1>5, <1>6

(***************************************************************************)
(* Which rows may be marked.  A row may be marked after several more       *)
(* steps, or come back unmarked after a loss of power, so the invariant    *)
(* speaks of the ids waiting to be marked and of the durable marks too.    *)
(***************************************************************************)

Settled == synced \cup syncedIds \cup disk.synced

SettledWereWritten == \A i \in Settled : rows[i] \in Written

\* No step changes a row that stays in the table; only a loss of power shortens it,
\* down to the rows that are durable.
LEMMA RowsKept ==
  TypeOK /\ [Next]_vars => /\ \A i \in 1..disk.rows : rows'[i] = rows[i]
                           /\ ~PowerLoss => \A i \in DOMAIN rows : rows'[i] = rows[i]
<1> SUFFICES ASSUME TypeOK, [Next]_vars
             PROVE  /\ \A i \in 1..disk.rows : rows'[i] = rows[i]
                    /\ ~PowerLoss => \A i \in DOMAIN rows : rows'[i] = rows[i]
  OBVIOUS
<1>0. /\ rows \in Seq(Frame) /\ disk.rows \in Nat /\ disk.rows <= Len(rows)
      /\ pending \in Seq(Frame) /\ sqlite \in Seq(Frame)
      /\ 1..disk.rows \subseteq DOMAIN rows
  <2>1. disk.rows \in Nat /\ rows \in Seq(Frame) /\ disk.rows <= Len(rows)
    BY DEF TypeOK, TableOK
  <2> QED BY <2>1 DEF TypeOK, WriterOK
<1>1. ASSUME NEW s \in Seq(Frame), rows' = rows \o s
      PROVE  \A i \in DOMAIN rows : rows'[i] = rows[i]
  BY <1>0, <1>1, ConcatProperties
<1>2. CASE ReturnFromMain
  <2>1. pending \o sqlite \in Seq(Frame)
    BY <1>0, ConcatProperties
  <2>2. rows \o pending \o sqlite = rows \o (pending \o sqlite)
    BY <1>0, ConcatAssociative
  <2>3. rows' = rows \/ rows' = rows \o (pending \o sqlite)
    BY <1>2, <2>2 DEF ReturnFromMain
  <2>4. \A i \in DOMAIN rows : rows'[i] = rows[i]
    BY <1>1, <2>1, <2>3
  <2> QED BY <1>0, <2>4
<1>3. CASE Writer
  <2>1. ASSUME NEW s \in Seq(Frame), Flush(s)
        PROVE  \A i \in DOMAIN rows : rows'[i] = rows[i]
    BY <1>1, <2>1 DEF Flush
  <2>2. CASE WriterTick
    BY <1>0, <2>1, <2>2 DEF WriterTick
  <2>3. CASE WriterRecv
    <3>1. Append(pending, Head(sqlite)) \in Seq(Frame)
      BY <1>0, <2>3 DEF WriterRecv
    <3> QED BY <1>0, <2>1, <2>3, <3>1 DEF WriterRecv
  <2> QED BY <1>0, <1>3, <2>2, <2>3 DEF Writer
<1>4. CASE PowerLoss
  <2>1. rows' = SubSeq(rows, 1, disk.rows)
    BY <1>4 DEF PowerLoss
  <2>2. \A i \in 1..disk.rows : rows'[i] = rows[i]
    BY <1>0, <2>1
  <2> QED BY <1>4, <2>2
<1>5. CASE UNCHANGED rows
  BY <1>0, <1>5
<1>6. \/ UNCHANGED rows \/ ReturnFromMain \/ Writer \/ PowerLoss
  BY DEF Next, Network, MainLoop, Environment, BusFrame, Break, Deliver, LoseInFlight, Close,
         Shutdown, Exit, Crash, Checkpoint, Restart, Connect, Select, Replay,
         ReplayFails, Mark, Collect, Send, SendFails, BackUp, Reconnect,
         vars, loopVars, dbVars, netVars
<1> QED BY <1>0, <1>2, <1>3, <1>4, <1>5, <1>6

LEMMA SettledStep ==
  TypeOK /\ SettledWereWritten /\ [Next]_vars => SettledWereWritten'
<1> SUFFICES ASSUME TypeOK, SettledWereWritten, [Next]_vars PROVE SettledWereWritten'
  OBVIOUS
<1>0. /\ Settled \subseteq DOMAIN rows /\ disk.synced \subseteq 1..disk.rows
      /\ Written \subseteq Written' /\ TableOK /\ LoopOK
      /\ \A i \in Settled : rows[i] \in Written
  <2>1. /\ synced \subseteq DOMAIN rows /\ syncedIds \subseteq DOMAIN rows /\ rows \in Seq(Frame)
        /\ disk.synced \subseteq 1..disk.rows /\ disk.rows \in Nat /\ disk.rows <= Len(rows)
    BY DEF TypeOK, TableOK
  <2>2. disk.synced \subseteq DOMAIN rows
    BY <2>1
  <2> QED BY <2>1, <2>2, WrittenGrows DEF Settled, SettledWereWritten, TypeOK
<1>1. CASE PowerLoss
  <2>1. Settled' \subseteq disk.synced
    BY <1>1 DEF PowerLoss, Die, Settled
  <2>2. disk.synced \subseteq Settled /\ \A i \in disk.synced : rows'[i] = rows[i]
    BY <1>0, RowsKept DEF Settled
  <2> QED BY <1>0, <2>1, <2>2 DEF SettledWereWritten
<1>2. ASSUME NEW id \in todo, Replay(id) PROVE SettledWereWritten'
  <2>1. rows[id] \in Written'
    <3>1. rows[id] \in Frame /\ conn \in Conns /\ KernelAccepts(rows[id]) /\ UNCHANGED got
      BY <1>0, <1>2 DEF Replay, TableOK, LoopOK
    <3> QED BY <3>1, KernelWrites
  <2>2. Settled' = Settled \cup {id} /\ rows' = rows
    BY <1>2 DEF Replay, Settled, dbVars
  <2> QED BY <1>0, <2>1, <2>2 DEF SettledWereWritten
<1>3. CASE Settled' \subseteq Settled /\ ~PowerLoss
  BY <1>0, <1>3, RowsKept DEF SettledWereWritten
<1>4. \/ Settled' \subseteq Settled \/ PowerLoss \/ \E id \in todo : Replay(id)
  <2>1. CASE Mark
    BY <2>1 DEF Mark, IdsToMark, Settled
  <2>2. CASE Checkpoint
    BY <2>2 DEF Checkpoint, Settled, loopVars
  <2>3. CASE Exit \/ ReturnFromMain \/ Crash
    BY <2>3 DEF Exit, ReturnFromMain, Crash, Die, Settled, dbVars
  <2>4. CASE UNCHANGED <<synced, syncedIds, disk>>
    BY <2>4 DEF Settled
  <2>5. \/ UNCHANGED <<synced, syncedIds, disk>> \/ Mark \/ Checkpoint \/ PowerLoss
        \/ Exit \/ ReturnFromMain \/ Crash \/ \E id \in todo : Replay(id)
    BY DEF Next, Network, MainLoop, Writer, Environment, BusFrame, Break, Deliver,
           LoseInFlight, Close, Shutdown, Restart, Connect, Select, ReplayFails, Collect,
           Send, SendFails, BackUp, Reconnect, WriterRecv, WriterTick,
           vars, loopVars, dbVars, netVars
  <2> QED BY <2>1, <2>2, <2>3, <2>4, <2>5
<1> QED BY <1>1, <1>2, <1>3, <1>4

\* A row of the backup is marked as synchronized only if its frame was handed to the
\* kernel, whatever was flushed, replayed, cut off, killed or powered off in between.
THEOREM MarkedRowsWereWritten == Spec => []SyncedRowsWereWritten
<1>1. Init => SettledWereWritten
  BY DEF Init, SettledWereWritten, Settled
<1>2. SettledWereWritten => SyncedRowsWereWritten
  BY DEF SettledWereWritten, Settled, SyncedRowsWereWritten
<1>3. TypeOK /\ SettledWereWritten /\ [Next]_vars => TypeOK' /\ SettledWereWritten'
  BY NextType, SettledStep
<1> QED BY <1>1, <1>2, <1>3, InitType, PTL DEF Spec

(***************************************************************************)
(* Conservation of frames.  The invariant is inductive only together with  *)
(* what the loop knows of its batch: outside of send and backup there is   *)
(* none, and in send the frames before pos were accepted by the kernel.    *)
(***************************************************************************)

Lost == UNION {gone[x] : x \in Cause}
Explained == Held \cup Written \cup Lost

BatchOK ==
  /\ pc \notin {"send", "backup"} => batch = <<>>
  /\ pc = "send" => \A i \in 1..(pos - 1) : batch[i] \in Written

LEMMA BatchStep == TypeOK /\ BatchOK /\ [Next]_vars => BatchOK'
<1> SUFFICES ASSUME TypeOK, BatchOK, [Next]_vars PROVE BatchOK'
  OBVIOUS
<1>0. LoopOK /\ Written \subseteq Written'
  BY WrittenGrows DEF TypeOK
<1>1. CASE Collect
  BY <1>1 DEF Collect, BatchOK
<1>2. CASE Send
  <2>1. batch[pos] \in Frame /\ conn \in Conns /\ pos \in Nat \ {0} /\ pc = "send"
    BY <1>0, <1>2 DEF Send, LoopOK
  <2>2. batch[pos] \in Written'
    BY <1>2, <2>1, KernelWrites DEF Send
  <2>3. \A i \in 1..pos : batch[i] \in Written'
    BY <1>0, <2>1, <2>2 DEF BatchOK
  <2> QED BY <1>2, <2>1, <2>3 DEF Send, BatchOK
<1>3. CASE SendFails \/ BackUp
  BY <1>3 DEF SendFails, FirstToBackUp, AfterFailedSend, BackUp, BatchOK
<1>4. CASE Die
  BY <1>4 DEF Die, BatchOK
<1>5. CASE /\ UNCHANGED <<batch, pos>>
           /\ pc' = pc \/ {pc, pc'} \cap {"send", "backup"} = {}
  BY <1>0, <1>5 DEF BatchOK
<1>6. \/ Collect \/ Send \/ SendFails \/ BackUp \/ Die
      \/ /\ UNCHANGED <<batch, pos>>
         /\ pc' = pc \/ {pc, pc'} \cap {"send", "backup"} = {}
  BY DEF Next, Network, MainLoop, Writer, Environment, BusFrame, Break, Deliver,
         LoseInFlight, Close, Shutdown, Exit, ReturnFromMain, Crash, Checkpoint, PowerLoss,
         Restart, Connect, Select, Replay, ReplayFails, Mark, Reconnect, WriterRecv,
         WriterTick, vars, loopVars, dbVars, netVars
<1> QED BY <1>1, <1>2, <1>3, <1>4, <1>5, <1>6

\* A transaction loses no frame without recording it.
LEMMA FlushHolds ==
  ASSUME TypeOK, NEW frames \in Seq(Frame), Flush(frames)
  PROVE  Range(rows) \cup Range(frames) \subseteq Range(rows') \cup Lost'
<1>0. rows \in Seq(Frame) /\ GoneOK BY DEF TypeOK, TableOK
<1>1. CASE rows' = rows \o frames
  BY <1>0, <1>1, RangeConcat
<1>2. CASE Drop("flush", Range(frames)) /\ UNCHANGED rows
  <2>1. Range(frames) \subseteq gone'["flush"]
    BY <1>0, <1>2, DropGrows DEF Cause
  <2> QED BY <1>2, <2>1 DEF Lost, Cause
<1> QED BY <1>1, <1>2 DEF Flush

LEMMA DropIsLost ==
  ASSUME GoneOK, NEW x \in Cause, NEW S, Drop(x, S)
  PROVE  S \subseteq Lost'
BY DropGrows DEF Lost

\* Wherever a frame is held, a step leaves it held, written or recorded as dropped.
LEMMA HeldStep == TypeOK /\ BatchOK /\ [Next]_vars => Held \subseteq Explained'
<1> SUFFICES ASSUME TypeOK, BatchOK, [Next]_vars PROVE Held \subseteq Explained'
  OBVIOUS
<1>0. /\ LoopOK /\ GoneOK
      /\ rx \in Seq(Frame) /\ sqlite \in Seq(Frame) /\ pending \in Seq(Frame)
      /\ rows \in Seq(Frame) /\ batch \in Seq(Frame)
  BY DEF TypeOK, PipelineOK, LoopOK, WriterOK, TableOK
<1> DEFINE Rest == Range(rx) \cup Range(sqlite) \cup Range(pending) \cup Range(rows)
<1>a. Held = Rest \cup Buffered /\ Held' = Rest' \cup Buffered' /\ Held' \subseteq Explained'
      /\ Written' \subseteq Explained' /\ Lost' \subseteq Explained'
  BY DEF Held, Explained
<1>1. CASE BusFrame
  <2>1. arrived + 1 \in Frame
    BY <1>1, ConstantFacts DEF BusFrame, TypeOK, PipelineOK, Frame
  <2>2. Range(rx) \subseteq Range(rx')
    <3>1. Range(Append(rx, arrived + 1)) = Range(rx) \cup {arrived + 1}
      BY <1>0, <2>1, RangeAppend
    <3> QED BY <1>1, <3>1 DEF BusFrame
  <2> QED BY <1>1, <1>a, <2>2 DEF BusFrame, Buffered, loopVars, dbVars
<1>2. CASE Exit \/ Crash
  <2>1. Volatile \subseteq Lost' /\ rows' = rows
    BY <1>0, <1>2, DropIsLost DEF Exit, Crash, Cause, dbVars
  <2> QED BY <1>a, <2>1 DEF Volatile
<1>3. CASE ReturnFromMain
  <2>1. CASE rows' = rows \o pending \o sqlite /\ Drop("death", Range(rx) \cup Buffered)
    <3>1. Range(rows') = Range(rows) \cup Range(pending) \cup Range(sqlite)
      <4> DEFINE both == rows \o pending
      <4>1. both \in Seq(Frame) /\ rows' = both \o sqlite
        BY <1>0, <2>1
      <4>2. Range(both) = Range(rows) \cup Range(pending)
        BY <1>0, RangeConcat
      <4> HIDE DEF both
      <4>3. Range(both \o sqlite) = Range(both) \cup Range(sqlite)
        BY <1>0, <4>1, RangeConcat
      <4> QED BY <4>1, <4>2, <4>3
    <3>2. Range(rx) \cup Buffered \subseteq Lost'
      BY <1>0, <2>1, DropIsLost DEF Cause
    <3> QED BY <1>a, <3>1, <3>2
  <2>2. CASE rows' = rows /\ Drop("death", Volatile)
    <3>1. Volatile \subseteq Lost'
      BY <1>0, <2>2, DropIsLost DEF Cause
    <3> QED BY <1>a, <2>2, <3>1 DEF Volatile
  <2> QED BY <1>3, <2>1, <2>2 DEF ReturnFromMain
<1>4. CASE PowerLoss
  <2>1. Volatile \subseteq gone'["death"] /\ Range(rows) \subseteq gone'["power"]
    BY <1>0, <1>4 DEF PowerLoss, GoneOK, Cause
  <2>2. Volatile \subseteq Lost' /\ Range(rows) \subseteq Lost'
    BY <2>1 DEF Lost, Cause
  <2> QED BY <1>a, <2>2 DEF Volatile
<1>5. CASE Collect
  <2> DEFINE n == Least(BatchSize, Len(rx))
  <2>1. /\ batch' = SubSeq(rx, 1, n) /\ rx' = SubSeq(rx, n + 1, Len(rx))
        /\ UNCHANGED <<sqlite, pending, rows>> /\ pc' = "send" /\ pc = "collect"
    BY <1>5 DEF Collect, RestAfter, dbVars
  <2>2. n \in 0..Len(rx)
    <3>1. Len(rx) \in Nat BY <1>0
    <3> QED BY <3>1, ConstantFacts DEF Least
  <2>3. Range(rx) = Range(batch') \cup Range(rx')
    BY <1>0, <2>1, <2>2, RangeSplit
  <2>4. Buffered = {} /\ Buffered' = Range(batch')
    <3>1. batch = <<>> BY <2>1 DEF BatchOK
    <3>2. Range(batch) = {} BY <3>1 DEF Range
    <3> QED BY <2>1, <3>2 DEF Buffered
  <2> QED BY <1>a, <2>1, <2>3, <2>4
<1>6. CASE Send
  <2>1. /\ batch[pos] \in Frame /\ conn \in Conns /\ pos \in Nat \ {0} /\ pos <= Len(batch)
        /\ pc = "send" /\ pc' # "backup" /\ UNCHANGED <<rx, sqlite, pending, rows>>
        /\ Len(batch) \in Nat
    BY <1>0, <1>6 DEF Send, LoopOK, dbVars
  <2>2. batch[pos] \in Written' /\ Written \subseteq Written'
    BY <1>6, <2>1, KernelWrites DEF Send
  <2>3. CASE pos = Len(batch)
    <3>1. \A i \in DOMAIN batch : batch[i] \in Written'
      BY <1>0, <2>1, <2>2, <2>3 DEF BatchOK
    <3>2. Buffered \subseteq Written'
      BY <2>1, <3>1 DEF Buffered, Range
    <3> QED BY <1>a, <2>1, <3>2
  <2>4. CASE pos # Len(batch)
    <3>1. Buffered' = Buffered
      BY <1>6, <2>1, <2>4 DEF Send, Buffered
    <3> QED BY <1>a, <2>1, <3>1
  <2> QED BY <2>3, <2>4
<1>7. CASE SendFails
  <2>1. /\ Buffered = Range(batch) /\ Buffered' = {batch[i] : i \in 1..Len(batch)}
        /\ UNCHANGED <<rx, sqlite, pending, rows>>
    BY <1>7 DEF SendFails, FirstToBackUp, AfterFailedSend, Buffered, dbVars
  <2>2. Range(batch) = {batch[i] : i \in 1..Len(batch)}
    BY <1>0 DEF Range
  <2> QED BY <1>a, <2>1, <2>2
<1>8. CASE BackUp
  <2>1. /\ batch[pos] \in Frame /\ pos \in Nat \ {0} /\ pos <= Len(batch) /\ pc = "backup"
        /\ UNCHANGED <<rx, pending, rows>> /\ Len(batch) \in Nat
    BY <1>0, <1>8 DEF BackUp, LoopOK, dbVars
  <2>2. Range(sqlite) \cup {batch[pos]} \subseteq Range(sqlite') \cup Lost'
    <3>1. CASE RoomForBackup
      <4>1. sqlite' = Append(sqlite, batch[pos]) BY <1>8, <3>1 DEF BackUp
      <4>2. sqlite \in Seq(Frame) BY <1>0
      <4> QED BY <2>1, <4>1, <4>2, RangeAppend
    <3>2. CASE ~RoomForBackup
      <4>1. Drop("overflow", {batch[pos]}) /\ sqlite' = sqlite BY <1>8, <3>2 DEF BackUp
      <4>2. {batch[pos]} \subseteq Lost' BY <1>0, <4>1, DropIsLost DEF Cause
      <4> QED BY <4>1, <4>2
    <3> QED BY <3>1, <3>2
  <2>3. Buffered \subseteq {batch[pos]} \cup Buffered'
    <3>1. CASE pos = Len(batch)
      <4>1. \A i \in pos..Len(batch) : i = pos BY <2>1, <3>1
      <4> QED BY <2>1, <4>1 DEF Buffered
    <3>2. CASE pos # Len(batch)
      <4>1. \A i \in pos..Len(batch) : i = pos \/ i \in (pos + 1)..Len(batch)
        BY <2>1
      <4>2. pc' = "backup" /\ batch' = batch /\ pos' = pos + 1
        BY <1>8, <2>1, <3>2 DEF BackUp
      <4>3. Buffered = {batch[i] : i \in pos..Len(batch)}
            /\ Buffered' = {batch[i] : i \in (pos + 1)..Len(batch)}
        BY <2>1, <4>2 DEF Buffered
      <4> QED BY <4>1, <4>3
    <3> QED BY <3>1, <3>2
  <2> QED BY <1>a, <2>1, <2>2, <2>3
<1>9. CASE Writer
  <2>0. /\ UNCHANGED <<rx, loopVars>>
        /\ Buffered' = Buffered
    BY <1>9 DEF Writer, WriterRecv, WriterTick, Buffered, loopVars
  <2>1. CASE WriterTick
    <3>1. Range(rows) \cup Range(pending) \subseteq Range(rows') \cup Lost'
      BY <1>0, <2>1, FlushHolds DEF WriterTick
    <3> QED BY <1>a, <2>0, <2>1, <3>1 DEF WriterTick
  <2>2. CASE WriterRecv
    <3> DEFINE frames == Append(pending, Head(sqlite))
    <3>1. /\ sqlite # <<>> /\ sqlite' = Tail(sqlite) /\ Head(sqlite) \in Frame
          /\ IF Len(frames) >= FlushAt THEN Flush(frames)
                                       ELSE pending' = frames /\ UNCHANGED rows
      BY <1>0, <2>2, EmptySeq DEF WriterRecv
    <3>2. frames \in Seq(Frame) /\ Range(frames) = Range(pending) \cup {Head(sqlite)}
      BY <1>0, <3>1, RangeAppend
    <3>3. Range(sqlite) = {Head(sqlite)} \cup Range(sqlite')
      BY <1>0, <3>1, RangeTail
    <3>4. Range(rows) \cup Range(frames) \subseteq Range(rows') \cup Range(pending') \cup Lost'
      BY <3>1, <3>2, FlushHolds
    <3> QED BY <1>a, <2>0, <3>2, <3>3, <3>4
  <2> QED BY <1>9, <2>1, <2>2 DEF Writer
<1>10. CASE /\ UNCHANGED <<rx, sqlite, pending, rows, batch, pos>>
            /\ pc' = pc \/ (pc # "backup" /\ pc' # "backup")
  <2>1. Buffered' = Buffered
    BY <1>10 DEF Buffered
  <2> QED BY <1>a, <1>10, <2>1
<1>11. \/ BusFrame \/ Exit \/ Crash \/ ReturnFromMain \/ PowerLoss \/ Collect \/ Send
       \/ SendFails \/ BackUp \/ Writer
       \/ /\ UNCHANGED <<rx, sqlite, pending, rows, batch, pos>>
          /\ pc' = pc \/ (pc # "backup" /\ pc' # "backup")
  BY DEF Next, Network, MainLoop, Environment, Break, Deliver, LoseInFlight, Close,
         Shutdown, Checkpoint, Restart, Connect, Select, Replay, ReplayFails, Mark,
         Reconnect, vars, loopVars, dbVars, netVars
<1> QED
  BY <1>1, <1>2, <1>3, <1>4, <1>5, <1>6, <1>7, <1>8, <1>9, <1>10, <1>11

\* Only the bus adds a frame, and this frame is queued or recorded as dropped.
LEMMA ArrivalStep ==
  TypeOK /\ [Next]_vars =>
    \A f \in 1..arrived' : f \in 1..arrived \/ f \in Explained'
<1> SUFFICES ASSUME TypeOK, [Next]_vars
             PROVE  \A f \in 1..arrived' : f \in 1..arrived \/ f \in Explained'
  OBVIOUS
<1>0. PipelineOK /\ GoneOK /\ arrived \in Nat BY DEF TypeOK, PipelineOK
<1>1. CASE BusFrame
  <2>1. arrived' = arrived + 1 /\ arrived + 1 \in Frame
    BY <1>0, <1>1, ConstantFacts DEF BusFrame, PipelineOK, Frame
  <2>2. arrived + 1 \in Range(rx') \cup Lost'
    <3>1. CASE rx' = Append(rx, arrived + 1)
      BY <1>0, <2>1, <3>1, RangeAppend DEF PipelineOK
    <3>2. CASE Drop("bus", {arrived + 1})
      BY <1>0, <3>2, DropIsLost DEF Cause
    <3> QED BY <1>1, <3>1, <3>2 DEF BusFrame
  <2>3. arrived + 1 \in Explained'
    BY <2>2 DEF Explained, Held
  <2>4. \A f \in 1..(arrived + 1) : f \in 1..arrived \/ f = arrived + 1
    BY <1>0
  <2> QED BY <2>1, <2>3, <2>4
<1>2. CASE UNCHANGED arrived
  BY <1>2
<1>3. BusFrame \/ UNCHANGED arrived
  BY DEF Next, Network, MainLoop, Writer, Environment, Break, Deliver, LoseInFlight, Close,
         Shutdown, Exit, ReturnFromMain, Crash, Checkpoint, PowerLoss, Restart, Die, Connect,
         Select, Replay, ReplayFails, Mark, Collect, Send, SendFails, BackUp, Reconnect,
         WriterRecv, WriterTick, vars
<1> QED BY <1>1, <1>2, <1>3

\* Every frame that ever arrived is held by the edge, was handed to the kernel, or was
\* dropped at one of the six points the code can drop it: for all capacities and faults.
THEOREM FramesAreConserved == Spec => []NoUnexplainedLoss
<1>1. Init => BatchOK /\ NoUnexplainedLoss
  BY DEF Init, BatchOK, NoUnexplainedLoss
<1>2. NoUnexplainedLoss <=> \A f \in 1..arrived : f \in Explained
  BY DEF NoUnexplainedLoss, Explained, Lost
<1>3. NoUnexplainedLoss' <=> \A f \in 1..arrived' : f \in Explained'
  BY DEF NoUnexplainedLoss, Explained, Lost
<1>4. TypeOK /\ BatchOK /\ NoUnexplainedLoss /\ [Next]_vars => NoUnexplainedLoss'
  <2> SUFFICES ASSUME TypeOK, BatchOK, NoUnexplainedLoss, [Next]_vars
               PROVE  NoUnexplainedLoss'
    OBVIOUS
  <2>1. Lost \subseteq Lost'
    BY GoneGrows DEF Lost
  <2>2. Written \subseteq Written' /\ Held \subseteq Explained'
    BY WrittenGrows, HeldStep
  <2>3. Explained \subseteq Explained'
    BY <2>1, <2>2 DEF Explained
  <2> QED BY <1>2, <1>3, <2>3, ArrivalStep
<1>5. TypeOK /\ BatchOK /\ NoUnexplainedLoss /\ [Next]_vars
        => TypeOK' /\ BatchOK' /\ NoUnexplainedLoss'
  BY <1>4, NextType, BatchStep
<1> QED BY <1>1, <1>5, InitType, PTL DEF Spec

(***************************************************************************)
(* The edge implements StoreForward, unless power is lost.                 *)
(***************************************************************************)

\* The edge only has frames that arrived.
Known == Range(rx) \cup Range(batch) \cup Range(sqlite) \cup Range(pending) \cup Range(rows)
OnlyArrived == Known \subseteq 1..arrived

LEMMA EmptyRange == Range(<<>>) = {}
BY DEF Range

LEMMA FlushKnown ==
  ASSUME TypeOK, NEW frames \in Seq(Frame), Flush(frames)
  PROVE  /\ rows' = rows \o frames \/ rows' = rows
         /\ Range(rows') \subseteq Range(rows) \cup Range(frames)
         /\ Range(pending') = {} /\ gone'["wire"] = gone["wire"]
<1>0. rows \in Seq(Frame) /\ GoneOK
  BY DEF TypeOK, TableOK
<1>1. Range(pending') = {}
  BY EmptyRange DEF Flush, PendingAfterFlush
<1>2. CASE rows' = rows \o frames /\ UNCHANGED gone
  BY <1>0, <1>1, <1>2, RangeConcat
<1>3. CASE Drop("flush", Range(frames)) /\ UNCHANGED rows
  BY <1>0, <1>1, <1>3 DEF Drop, GoneOK, Cause
<1> QED BY <1>2, <1>3 DEF Flush

LEMMA KnownStep ==
  ASSUME TypeOK, [Next]_vars, ~PowerLoss
  PROVE  /\ Known' \subseteq Known \cup {arrived'} /\ (Known' \subseteq Known \/ BusFrame)
         /\ arrived' = arrived \/ (BusFrame /\ arrived' = arrived + 1)
<1>0. /\ rx \in Seq(Frame) /\ sqlite \in Seq(Frame) /\ pending \in Seq(Frame)
      /\ rows \in Seq(Frame) /\ batch \in Seq(Frame) /\ pos \in Nat \ {0}
  BY DEF TypeOK, PipelineOK, LoopOK, WriterOK, TableOK
<1>1. CASE BusFrame
  <2>1. arrived' = arrived + 1 /\ UNCHANGED <<batch, sqlite, pending, rows>>
    BY <1>1 DEF BusFrame, loopVars, dbVars
  <2>2. arrived + 1 \in Frame
    BY <1>1, ConstantFacts DEF BusFrame, TypeOK, PipelineOK, Frame
  <2>3. Range(rx') \subseteq Range(rx) \cup {arrived + 1}
    <3>1. Range(Append(rx, arrived + 1)) = Range(rx) \cup {arrived + 1}
      BY <1>0, <2>2, RangeAppend
    <3> QED BY <1>1, <3>1 DEF BusFrame
  <2> QED BY <1>1, <2>1, <2>3 DEF Known
<1>2. CASE Collect
  <2> DEFINE n == Least(BatchSize, Len(rx))
  <2>1. /\ batch' = SubSeq(rx, 1, n) /\ rx' = SubSeq(rx, n + 1, Len(rx))
        /\ UNCHANGED <<arrived, sqlite, pending, rows>>
    BY <1>2 DEF Collect, RestAfter, dbVars
  <2>2. n \in 0..Len(rx)
    <3>1. Len(rx) \in Nat BY <1>0
    <3> QED BY <3>1, ConstantFacts DEF Least
  <2>3. Range(rx) = Range(batch') \cup Range(rx')
    BY <1>0, <2>1, <2>2, RangeSplit
  <2> QED BY <2>1, <2>3 DEF Known
<1>3. CASE Send
  <2>1. (batch' = <<>> \/ batch' = batch) /\ UNCHANGED <<arrived, rx, sqlite, pending, rows>>
    BY <1>3 DEF Send, dbVars
  <2> QED BY <2>1, EmptyRange DEF Known
<1>4. CASE BackUp
  <2>1. (batch' = <<>> \/ batch' = batch) /\ UNCHANGED <<arrived, rx, pending, rows>>
    BY <1>4 DEF BackUp, dbVars
  <2>2. batch[pos] \in Range(batch) /\ batch[pos] \in Frame
    <3>1. pos \in 1..Len(batch) /\ DOMAIN batch = 1..Len(batch)
      BY <1>0, <1>4 DEF BackUp, TypeOK, LoopOK
    <3> QED BY <1>0, <3>1 DEF Range
  <2>3. Range(sqlite') \subseteq Range(sqlite) \cup {batch[pos]}
    <3>1. sqlite' = Append(sqlite, batch[pos]) \/ sqlite' = sqlite
      BY <1>4 DEF BackUp
    <3>2. Range(Append(sqlite, batch[pos])) = Range(sqlite) \cup {batch[pos]}
      BY <1>0, <2>2, RangeAppend
    <3> QED BY <3>1, <3>2
  <2> QED BY <2>1, <2>2, <2>3, EmptyRange DEF Known
<1>5. CASE Writer
  <2>1. UNCHANGED <<arrived, rx, batch>>
    BY <1>5 DEF Writer, WriterRecv, WriterTick, loopVars
  <2>2. CASE WriterTick
    BY <1>0, <2>1, <2>2, FlushKnown DEF WriterTick, Known
  <2>3. CASE WriterRecv
    <3> DEFINE frames == Append(pending, Head(sqlite))
    <3>1. /\ Range(sqlite) = {Head(sqlite)} \cup Range(Tail(sqlite))
          /\ Head(sqlite) \in Frame /\ sqlite' = Tail(sqlite)
      BY <1>0, <2>3, RangeTail DEF WriterRecv
    <3>2. frames \in Seq(Frame) /\ Range(frames) = Range(pending) \cup {Head(sqlite)}
      BY <1>0, <3>1, RangeAppend
    <3> HIDE DEF frames
    <3>3. Flush(frames) \/ (pending' = frames /\ rows' = rows)
      BY <2>3 DEF WriterRecv, frames
    <3> QED BY <2>1, <3>1, <3>2, <3>3, FlushKnown DEF Known
  <2> QED BY <1>5, <2>2, <2>3 DEF Writer
<1>6. CASE Exit \/ Crash \/ ReturnFromMain
  <2>1. /\ rx' = <<>> /\ batch' = <<>> /\ sqlite' = <<>> /\ pending' = <<>>
        /\ arrived' = arrived
    BY <1>6 DEF Exit, Crash, ReturnFromMain, Die
  <2>2. rows' = rows \/ rows' = rows \o pending \o sqlite
    BY <1>6 DEF Exit, Crash, ReturnFromMain, dbVars
  <2>3. Range(rows \o pending \o sqlite) = Range(rows) \cup Range(pending) \cup Range(sqlite)
    <3> DEFINE both == rows \o pending
    <3>1. both \in Seq(Frame) /\ Range(both) = Range(rows) \cup Range(pending)
      BY <1>0, RangeConcat
    <3> HIDE DEF both
    <3>2. Range(both \o sqlite) = Range(both) \cup Range(sqlite)
      BY <1>0, <3>1, RangeConcat
    <3> QED BY <3>1, <3>2 DEF both
  <2> QED BY <2>1, <2>2, <2>3, EmptyRange DEF Known
<1>7. CASE UNCHANGED <<arrived, rx, batch, sqlite, pending, rows>>
  BY <1>7 DEF Known
<1>8. \/ UNCHANGED <<arrived, rx, batch, sqlite, pending, rows>>
      \/ BusFrame \/ Collect \/ Send \/ BackUp \/ Writer \/ Exit \/ Crash \/ ReturnFromMain
  BY DEF Next, Network, MainLoop, Environment, Break, Deliver, LoseInFlight, Close,
         Shutdown, Checkpoint, Restart, Connect, Select, Replay, ReplayFails, Mark, SendFails,
         Reconnect, vars, loopVars, dbVars, netVars
<1> QED BY <1>1, <1>2, <1>3, <1>4, <1>5, <1>6, <1>7, <1>8

LEMMA ArrivedStep ==
  ASSUME TypeOK, OnlyArrived, [Next]_vars, ~PowerLoss
  PROVE  OnlyArrived'
<1>1. arrived \in Nat
  BY ConstantFacts DEF TypeOK, PipelineOK
<1>2. CASE arrived' = arrived /\ Known' \subseteq Known
  BY <1>2 DEF OnlyArrived
<1>3. CASE arrived' = arrived + 1
  <2>1. 1..arrived \subseteq 1..arrived' /\ arrived' \in 1..arrived'
    BY <1>1, <1>3
  <2> QED BY <2>1, KnownStep DEF OnlyArrived
<1>4. CASE arrived' = arrived /\ BusFrame
  BY <1>1, <1>4 DEF BusFrame
<1> QED BY <1>2, <1>3, <1>4, KnownStep

\* What the abstract state is made of, and so what leaves it alone.
LEMMA SameView ==
  /\ UNCHANGED <<rows, synced>> => Backlog' = Backlog
  /\ UNCHANGED got => Delivered' = Delivered
  /\ UNCHANGED <<got, net>> /\ gone'["wire"] = gone["wire"] => Written' = Written
<1>1. UNCHANGED <<rows, synced>> => Backlog' = Backlog
  BY DEF Backlog, Unsynced
<1>2. UNCHANGED got => Delivered' = Delivered
  BY DEF Delivered
<1>3. UNCHANGED <<got, net>> /\ gone'["wire"] = gone["wire"] => Written' = Written
  BY DEF Written
<1> QED BY <1>1, <1>2, <1>3

\* A drop for another cause than the network is not a write.
LEMMA OtherDrop ==
  ASSUME GoneOK, NEW x \in Cause \ {"wire"}, NEW S, Drop(x, S)
  PROVE  gone'["wire"] = gone["wire"]
BY DEF Drop, GoneOK, Cause

\* Rows added to the table are frames stored in the backlog.
LEMMA RowsAreStored ==
  ASSUME TypeOK, OnlyArrived', UNCHANGED <<arrived, synced>>,
         NEW s \in Seq(Frame), rows' = rows \o s
  PROVE  \E S \in SUBSET (1..arrived) : Backlog' = Backlog \cup S
<1>1. DOMAIN rows \subseteq DOMAIN rows' /\ \A i \in DOMAIN rows : rows'[i] = rows[i]
  <2>1. rows \in Seq(Frame)
    BY DEF TypeOK, TableOK
  <2>2. /\ DOMAIN rows = 1..Len(rows) /\ Len(rows) \in Nat /\ Len(s) \in Nat
        /\ DOMAIN (rows \o s) = 1..(Len(rows) + Len(s))
        /\ \A i \in 1..Len(rows) : (rows \o s)[i] = rows[i]
    BY <2>1, ConcatProperties
  <2> QED BY <2>2
<1>2. Backlog \subseteq Backlog'
  BY <1>1 DEF Backlog, Unsynced
<1>3. Backlog' \subseteq 1..arrived
  BY DEF Backlog, Unsynced, OnlyArrived, Known, Range
<1> QED BY <1>2, <1>3

\* A frame the kernel accepts is written, and no other.
LEMMA KernelWritesOne ==
  ASSUME TypeOK, NEW f \in Frame, KernelAccepts(f), conn \in Conns, UNCHANGED got
  PROVE  Written' = Written \cup {f}
<1>0. GoneOK /\ NetOK BY DEF TypeOK
<1>1. CASE link[conn] = "up"
  <2>1. net' = [net EXCEPT ![conn] = Append(@, f)] /\ UNCHANGED gone
    BY <1>1 DEF KernelAccepts
  <2>2. Range(Append(net[conn], f)) = Range(net[conn]) \cup {f}
    BY <1>0, RangeAppend DEF NetOK
  <2>3. \A c \in Conns : Range(net'[c]) \subseteq Range(net[c]) \cup {f}
    BY <1>0, <2>1, <2>2 DEF NetOK
  <2>4. Written' \subseteq Written \cup {f}
    BY <2>1, <2>3, WrittenCases
  <2> QED BY <2>4, KernelWrites
<1>2. CASE link[conn] # "up"
  <2>1. Drop("wire", {f}) /\ UNCHANGED net
    BY <1>2 DEF KernelAccepts
  <2>2. gone'["wire"] = gone["wire"] \cup {f}
    BY <1>0, <2>1 DEF Drop, GoneOK, Cause
  <2>3. Written' \subseteq Written \cup {f}
    BY <2>1, <2>2, WrittenCases
  <2> QED BY <2>3, KernelWrites
<1> QED BY <1>1, <1>2

\* What the server reads had been written, and reading it writes nothing.
LEMMA DeliverRefines ==
  ASSUME TypeOK, NEW c \in Conns, Deliver(c)
  PROVE  /\ \E f \in Written : Delivered' = Delivered \cup {f}
         /\ Written' = Written
<1> DEFINE h == Head(net[c])
<1>0. NetOK BY DEF TypeOK
<1>1. /\ net' = [net EXCEPT ![c] = Tail(@)] /\ UNCHANGED gone
      /\ got' = [got EXCEPT ![h] = Least(@ + 1, MaxCopies)]
      /\ net[c] # <<>> /\ net[c] \in Seq(Frame)
  BY <1>0 DEF Deliver, NetOK
<1>2. h \in Frame /\ Range(net[c]) = {h} \cup Range(Tail(net[c]))
  BY <1>1, RangeTail
<1>3. h \in Written
  BY <1>2, WrittenCases
<1>4. \A f \in Frame : got'[f] > 0 <=> (got[f] > 0 \/ f = h)
  BY <1>0, <1>1, <1>2, ConstantFacts DEF NetOK, Least
<1>5. Delivered' = Delivered \cup {h}
  BY <1>2, <1>4 DEF Delivered
<1>6. \A d \in Conns : Range(net'[d]) \subseteq Range(net[d])
  BY <1>0, <1>1, <1>2 DEF NetOK
<1>7. Written' \subseteq Written
  BY <1>1, <1>3, <1>4, <1>6, WrittenCases
<1>8. Written \subseteq Written'
  BY WrittenGrows DEF Next, Network
<1> QED BY <1>3, <1>5, <1>7, <1>8

\* What is lost in flight still counts as written.
LEMMA LossRefines ==
  ASSUME TypeOK, NEW c \in Conns, LoseInFlight(c)
  PROVE  Written' = Written
<1>0. NetOK /\ GoneOK BY DEF TypeOK
<1>1. /\ net' = [net EXCEPT ![c] = <<>>] /\ UNCHANGED got
      /\ gone'["wire"] = gone["wire"] \cup Range(net[c])
  BY <1>0 DEF LoseInFlight, Drop, GoneOK, Cause
<1>2. \A d \in Conns : Range(net'[d]) \subseteq Range(net[d])
  BY <1>0, <1>1, EmptyRange DEF NetOK
<1>3. Written' \subseteq Written
  BY <1>1, <1>2, WrittenCases
<1>4. Written \subseteq Written'
  BY WrittenGrows DEF Next, Network
<1> QED BY <1>3, <1>4

\* Marking takes frames off the backlog that were written, and no other.
LEMMA MarkRefines ==
  ASSUME TypeOK, SettledWereWritten, Mark
  PROVE  \E S \in SUBSET (Backlog \cap Written) : Backlog' = Backlog \ S
<1>1. /\ rows' = rows
      /\ synced' = synced \/ synced' = synced \cup syncedIds
  BY DEF Mark, IdsToMark
<1>2. Backlog' \subseteq Backlog
  BY <1>1 DEF Backlog, Unsynced
<1>3. Backlog \ Backlog' \subseteq Written
  <2> SUFFICES ASSUME NEW i \in Unsynced, rows[i] \notin Backlog'
               PROVE  rows[i] \in Written
    BY DEF Backlog
  <2>1. i \in syncedIds
    BY <1>1 DEF Backlog, Unsynced
  <2> QED BY <2>1 DEF SettledWereWritten, Settled
<1>4. Backlog' = Backlog \ (Backlog \ Backlog')
  BY <1>2
<1>5. (Backlog \ Backlog') \in SUBSET (Backlog \cap Written)
  BY <1>3
<1> QED BY <1>4, <1>5

\* The writer only stores, whether its transaction commits or fails.
LEMMA FlushRefines ==
  ASSUME TypeOK, OnlyArrived', UNCHANGED <<arrived, synced, got, net>>,
         NEW frames \in Seq(Frame), Flush(frames)
  PROVE  /\ \E S \in SUBSET (1..arrived) : Backlog' = Backlog \cup S
         /\ Written' = Written
<1>1. rows' = rows \o frames \/ rows' = rows
  BY FlushKnown
<1>2. rows' = rows => Backlog' = Backlog \cup {}
  BY SameView
<1>3. Written' = Written
  BY FlushKnown, SameView
<1> QED BY <1>1, <1>2, <1>3, RowsAreStored

\* Every step of the edge is a step of StoreForward or leaves its state alone.
LEMMA StepRefines ==
  ASSUME TypeOK, SettledWereWritten, OnlyArrived, OnlyArrived', [Next]_vars, ~PowerLoss
  PROVE  [Abstract!Next]_(Abstract!vars)
<1>0. GoneOK /\ LoopOK /\ TableOK /\ WriterOK /\ PipelineOK
  BY DEF TypeOK
<1> DEFINE SameArrived   == arrived' = arrived
           SameBacklog   == Backlog' = Backlog
           SameWritten   == Written' = Written
           SameDelivered == Delivered' = Delivered
           Arrives       == arrived' = arrived + 1
           Stores        == \E S \in SUBSET (1..arrived) : Backlog' = Backlog \cup S
           Writes        == \E f \in 1..arrived : Written' = Written \cup {f}
           Settles       == \E S \in SUBSET (Backlog \cap Written) : Backlog' = Backlog \ S
           Delivers      == \E f \in Written : Delivered' = Delivered \cup {f}
           Goal          == [Abstract!Next]_(Abstract!vars)
<1>a. Arrives /\ SameBacklog /\ SameWritten /\ SameDelivered => Goal
  BY DEF Abstract!Next, Abstract!Accept
<1>b. Stores /\ SameArrived /\ SameWritten /\ SameDelivered => Goal
  BY DEF Abstract!Next, Abstract!Store, Abstract!Frames
<1>c. Writes /\ SameArrived /\ SameBacklog /\ SameDelivered => Goal
  BY DEF Abstract!Next, Abstract!Write, Abstract!Frames
<1>d. Settles /\ SameArrived /\ SameWritten /\ SameDelivered => Goal
  BY DEF Abstract!Next, Abstract!Settle
<1>e. Delivers /\ SameArrived /\ SameBacklog /\ SameWritten => Goal
  BY DEF Abstract!Next, Abstract!Deliver
<1>f. SameArrived /\ SameBacklog /\ SameWritten /\ SameDelivered => Goal
  BY DEF Abstract!vars
<1> HIDE DEF SameArrived, SameBacklog, SameWritten, SameDelivered, Arrives, Stores, Writes,
             Settles, Delivers, Goal
<1>1. CASE BusFrame
  <2>1. Arrives /\ UNCHANGED <<rows, synced, got, net>>
    BY <1>1 DEF BusFrame, dbVars, netVars, Arrives
  <2>2. gone'["wire"] = gone["wire"]
    BY <1>0, <1>1, OtherDrop DEF BusFrame, Cause
  <2>3. SameBacklog /\ SameWritten /\ SameDelivered
    BY <2>1, <2>2, SameView DEF SameBacklog, SameWritten, SameDelivered
  <2> QED BY <1>a, <2>1, <2>3 DEF Goal
<1>2. CASE Writer
  <2>1. UNCHANGED <<arrived, synced, got, net>>
    BY <1>2 DEF Writer, WriterRecv, WriterTick, netVars
  <2>2. Stores /\ SameWritten
    <3>1. CASE WriterTick
      BY <1>0, <2>1, <3>1, FlushRefines DEF WriterTick, WriterOK, Stores, SameWritten
    <3>2. CASE WriterRecv
      <4> DEFINE frames == Append(pending, Head(sqlite))
      <4>1. frames \in Seq(Frame)
        BY <1>0, <3>2, HeadTailProperties DEF WriterRecv, WriterOK
      <4> HIDE DEF frames
      <4>2. Flush(frames) \/ UNCHANGED <<rows, gone>>
        BY <3>2 DEF WriterRecv, frames
      <4>3. UNCHANGED <<rows, gone>> => Backlog' = Backlog \cup {} /\ SameWritten
        BY <2>1, SameView DEF SameWritten
      <4> QED BY <2>1, <4>1, <4>2, <4>3, FlushRefines DEF Stores, SameWritten
    <3> QED BY <1>2, <3>1, <3>2 DEF Writer
  <2>3. SameArrived /\ SameDelivered
    BY <2>1, SameView DEF SameArrived, SameDelivered
  <2> QED BY <1>b, <2>2, <2>3 DEF Goal
<1>3. CASE ReturnFromMain
  <2>1. UNCHANGED <<arrived, synced, got, net>>
    BY <1>3 DEF ReturnFromMain, Die
  <2>2. gone'["wire"] = gone["wire"]
    BY <1>0, <1>3, OtherDrop DEF ReturnFromMain, Cause
  <2>3. Stores
    <3>1. pending \o sqlite \in Seq(Frame) /\ rows \o pending \o sqlite = rows \o (pending \o sqlite)
      BY <1>0 DEF WriterOK, TableOK
    <3>2. rows' = rows \o (pending \o sqlite) \/ rows' = rows
      BY <1>3, <3>1 DEF ReturnFromMain
    <3>3. rows' = rows => Backlog' = Backlog \cup {}
      BY <2>1, SameView
    <3> QED BY <2>1, <3>1, <3>2, <3>3, RowsAreStored DEF Stores
  <2>4. SameArrived /\ SameWritten /\ SameDelivered
    BY <2>1, <2>2, SameView DEF SameArrived, SameWritten, SameDelivered
  <2> QED BY <1>b, <2>3, <2>4 DEF Goal
<1>4. ASSUME NEW f \in Frame, f \in Known, KernelAccepts(f), conn \in Conns,
             UNCHANGED <<arrived, got, rows, synced>>
      PROVE  Goal
  <2>1. Writes
    BY <1>4, KernelWritesOne DEF OnlyArrived, Writes
  <2>2. SameArrived /\ SameBacklog /\ SameDelivered
    BY <1>4, SameView DEF SameArrived, SameBacklog, SameDelivered
  <2> QED BY <1>c, <2>1, <2>2
<1>5. ASSUME NEW id \in todo, Replay(id) PROVE Goal
  <2>1. rows[id] \in Frame /\ rows[id] \in Known
    BY <1>0, <1>5 DEF TableOK, Known, Range
  <2>2. /\ KernelAccepts(rows[id]) /\ conn \in Conns
        /\ UNCHANGED <<arrived, got, rows, synced>>
    BY <1>0, <1>5 DEF Replay, LoopOK, dbVars
  <2> QED BY <1>4, <2>1, <2>2
<1>6. CASE Send
  <2>1. pos \in 1..Len(batch) /\ DOMAIN batch = 1..Len(batch) /\ batch \in Seq(Frame)
    BY <1>0, <1>6 DEF Send, LoopOK
  <2>2. batch[pos] \in Frame /\ batch[pos] \in Known
    BY <2>1 DEF Known, Range
  <2>3. /\ KernelAccepts(batch[pos]) /\ conn \in Conns
        /\ UNCHANGED <<arrived, got, rows, synced>>
    BY <1>0, <1>6 DEF Send, LoopOK, dbVars
  <2> QED BY <1>4, <2>2, <2>3 DEF Goal
<1>7. CASE Mark
  <2>1. Settles
    BY <1>7, MarkRefines DEF Settles
  <2>2. SameArrived /\ SameWritten /\ SameDelivered
    BY <1>7, SameView DEF Mark, netVars, SameArrived, SameWritten, SameDelivered
  <2> QED BY <1>d, <2>1, <2>2 DEF Goal
<1>8. ASSUME NEW c \in Conns, Deliver(c) PROVE Goal
  <2>1. Delivers /\ SameWritten
    BY <1>8, DeliverRefines DEF Delivers, SameWritten
  <2>2. SameArrived /\ SameBacklog
    BY <1>8, SameView DEF Deliver, dbVars, SameArrived, SameBacklog
  <2> QED BY <1>e, <2>1, <2>2
<1>9. ASSUME NEW c \in Conns, LoseInFlight(c) PROVE Goal
  <2>1. SameWritten
    BY <1>9, LossRefines DEF SameWritten
  <2>2. SameArrived /\ SameBacklog /\ SameDelivered
    BY <1>9, SameView DEF LoseInFlight, dbVars, SameArrived, SameBacklog, SameDelivered
  <2> QED BY <1>f, <2>1, <2>2
<1>10. CASE UNCHANGED <<arrived, rows, synced, got, net>> /\ gone'["wire"] = gone["wire"]
  BY <1>f, <1>10, SameView DEF SameArrived, SameBacklog, SameWritten, SameDelivered, Goal
<1>11. CASE BackUp \/ Exit \/ Crash
  <2>1. gone'["wire"] = gone["wire"]
    BY <1>0, <1>11, OtherDrop DEF BackUp, Exit, Crash, Cause
  <2> QED BY <1>10, <1>11, <2>1 DEF BackUp, Exit, Crash, Die, dbVars, netVars
<1>12. \/ BusFrame \/ Writer \/ ReturnFromMain \/ Send \/ Mark \/ BackUp \/ Exit \/ Crash
       \/ \E id \in todo : Replay(id)
       \/ \E c \in Conns : Deliver(c) \/ LoseInFlight(c)
       \/ UNCHANGED <<arrived, rows, synced, got, net, gone>>
  BY DEF Next, Network, MainLoop, Environment, Break, Close, Shutdown, Checkpoint, Restart,
         Connect, Select, ReplayFails, Collect, SendFails, Reconnect,
         vars, loopVars, dbVars, netVars
<1> QED
  BY <1>1, <1>2, <1>3, <1>5, <1>6, <1>7, <1>8, <1>9, <1>10, <1>11, <1>12 DEF Goal

\* Unless power is lost, the edge's tasks, channels and connections do what
\* StoreForward promises: the backlog grows by frames that arrived and shrinks only by
\* frames that were handed to the kernel, and the server reads only those.
THEOREM EdgeImplementsStoreForward ==
  ASSUME "power" \notin Faults
  PROVE  Spec => ImplementsStoreForward
<1>1. Init => OnlyArrived /\ SettledWereWritten
  BY EmptyRange DEF Init, OnlyArrived, Known, SettledWereWritten, Settled
<1>2. Init => Abstract!Init
  <2> SUFFICES ASSUME Init PROVE Abstract!Init
    OBVIOUS
  <2>1. arrived = 0 /\ Backlog = {} /\ Delivered = {}
    BY DEF Init, Backlog, Unsynced, Delivered
  <2>2. Written = {}
    BY EmptyRange DEF Init, Written, Cause
  <2> QED BY <2>1, <2>2 DEF Abstract!Init
<1>3. ~PowerLoss
  BY DEF PowerLoss
<1>4. TypeOK /\ SettledWereWritten /\ OnlyArrived /\ [Next]_vars
        => TypeOK' /\ SettledWereWritten' /\ OnlyArrived'
  BY <1>3, NextType, SettledStep, ArrivedStep
<1>5. TypeOK /\ SettledWereWritten /\ OnlyArrived /\ OnlyArrived' /\ [Next]_vars
        => [Abstract!Next]_(Abstract!vars)
  BY <1>3, StepRefines
<1> QED
  BY <1>1, <1>2, <1>4, <1>5, InitType, PTL DEF Spec, ImplementsStoreForward, Abstract!Spec


(***************************************************************************)
(* Order on the edge.  A frame passes the pipeline, the batch, the channel *)
(* to the writer, the writer's batch and the table, and overtakes no other *)
(* on the way: what is in a later stage is older.                          *)
(***************************************************************************)

Older(S, T) == \A f \in S, g \in T : f < g

Ordered(table, batched, channel, diverted, pipeline) ==
  /\ Older(table, batched \cup channel \cup diverted \cup pipeline)
  /\ Older(batched, channel \cup diverted \cup pipeline)
  /\ Older(channel, diverted \cup pipeline)
  /\ Older(diverted, pipeline)

Stages ==
  /\ Increasing(rows) /\ Increasing(pending) /\ Increasing(sqlite)
  /\ Increasing(batch) /\ Increasing(rx)

Chain ==
  /\ Stages
  /\ Ordered(Range(rows), Range(pending), Range(sqlite), Buffered, Range(rx))

LEMMA FrameIsNat == Frame \subseteq Nat \ {0}
BY DEF Frame

LEMMA EmptyIncreasing == Increasing(<<>>)
BY DEF Increasing

LEMMA AppendIncreasing ==
  ASSUME NEW s \in Seq(Frame), NEW e \in Frame, Increasing(s), Older(Range(s), {e})
  PROVE  Increasing(Append(s, e)) /\ Range(Append(s, e)) = Range(s) \cup {e}
<1> DEFINE t == Append(s, e)
<1>1. /\ DOMAIN s = 1..Len(s) /\ Len(s) \in Nat /\ DOMAIN t = 1..(Len(s) + 1)
      /\ \A i \in 1..Len(s) : t[i] = s[i] /\ s[i] \in Range(s)
      /\ t[Len(s) + 1] = e
  BY DEF Range
<1>0. Range(t) = Range(s) \cup {e}
  BY RangeAppend
<1> HIDE DEF t
<1>2. ASSUME NEW i \in DOMAIN t, NEW j \in DOMAIN t, i < j PROVE t[i] < t[j]
  <2>1. CASE j = Len(s) + 1
    <3>1. i \in 1..Len(s)
      BY <1>1, <1>2, <2>1
    <3> QED BY <1>1, <2>1, <3>1 DEF Older
  <2>2. CASE j # Len(s) + 1
    <3>1. i \in 1..Len(s) /\ j \in 1..Len(s)
      BY <1>1, <1>2, <2>2
    <3> QED BY <1>1, <1>2, <3>1 DEF Increasing
  <2> QED BY <2>1, <2>2
<1> QED BY <1>0, <1>2 DEF t, Increasing

LEMMA ConcatIncreasing ==
  ASSUME NEW s \in Seq(Frame), NEW t \in Seq(Frame), Increasing(s), Increasing(t),
         Older(Range(s), Range(t))
  PROVE  Increasing(s \o t)
<1> DEFINE u == s \o t
<1>1. /\ DOMAIN s = 1..Len(s) /\ DOMAIN t = 1..Len(t) /\ Len(s) \in Nat /\ Len(t) \in Nat
      /\ DOMAIN u = 1..(Len(s) + Len(t))
      /\ \A i \in 1..Len(s) : u[i] = s[i]
      /\ \A i \in 1..Len(t) : u[Len(s) + i] = t[i]
  BY ConcatProperties
<1>2. \A i \in DOMAIN u \ 1..Len(s) : i - Len(s) \in DOMAIN t /\ u[i] = t[i - Len(s)]
  <2> SUFFICES ASSUME NEW i \in 1..(Len(s) + Len(t)), i \notin 1..Len(s)
               PROVE  i - Len(s) \in 1..Len(t) /\ u[i] = t[i - Len(s)]
    BY <1>1
  <2>1. i - Len(s) \in 1..Len(t) /\ i = Len(s) + (i - Len(s))
    BY <1>1
  <2> QED BY <1>1, <2>1
<1>3. (\A i \in DOMAIN s : s[i] \in Range(s)) /\ (\A i \in DOMAIN t : t[i] \in Range(t))
  BY DEF Range
<1> HIDE DEF u
<1>4. ASSUME NEW i \in DOMAIN u, NEW j \in DOMAIN u, i < j PROVE u[i] < u[j]
  <2>1. CASE j \in 1..Len(s)
    <3>1. i \in 1..Len(s)
      BY <1>1, <1>4, <2>1
    <3> QED BY <1>1, <1>4, <2>1, <3>1 DEF Increasing
  <2>2. CASE i \in 1..Len(s) /\ j \notin 1..Len(s)
    BY <1>1, <1>2, <1>3, <2>2 DEF Older
  <2>3. CASE i \notin 1..Len(s) /\ j \notin 1..Len(s)
    <3>1. i - Len(s) < j - Len(s)
      BY <1>1, <1>4
    <3> QED BY <1>2, <2>3, <3>1 DEF Increasing
  <2> QED BY <2>1, <2>2, <2>3
<1> QED BY <1>4 DEF u, Increasing

LEMMA SplitIncreasing ==
  ASSUME NEW s \in Seq(Frame), NEW n \in 0..Len(s), Increasing(s)
  PROVE  /\ Increasing(SubSeq(s, 1, n)) /\ Increasing(SubSeq(s, n + 1, Len(s)))
         /\ Older(Range(SubSeq(s, 1, n)), Range(SubSeq(s, n + 1, Len(s))))
<1> DEFINE a == SubSeq(s, 1, n)
           b == SubSeq(s, n + 1, Len(s))
<1>1. /\ Len(s) \in Nat /\ n \in Nat /\ DOMAIN s = 1..Len(s)
      /\ a \in Seq(Frame) /\ b \in Seq(Frame)
      /\ \A i \in DOMAIN a : i \in 1..n /\ a[i] = s[i]
      /\ \A i \in DOMAIN b : n + i \in DOMAIN s /\ b[i] = s[n + i]
  BY RangeSplit, SplitElements
<1>2. (\A i \in DOMAIN a : i \in Nat) /\ (\A i \in DOMAIN b : i \in Nat \ {0})
  BY <1>1
<1> HIDE DEF a, b
<1>3. Increasing(a)
  BY <1>1 DEF Increasing
<1>4. Increasing(b)
  <2> SUFFICES ASSUME NEW i \in DOMAIN b, NEW j \in DOMAIN b, i < j PROVE b[i] < b[j]
    BY DEF Increasing
  <2>1. n + i < n + j
    BY <1>1, <1>2
  <2> QED BY <1>1, <2>1 DEF Increasing
<1>5. \A i \in DOMAIN a, j \in DOMAIN b : a[i] < b[j]
  <2> SUFFICES ASSUME NEW i \in DOMAIN a, NEW j \in DOMAIN b PROVE a[i] < b[j]
    OBVIOUS
  <2>1. i \in DOMAIN s /\ a[i] = s[i] /\ i < n + j
    BY <1>1, <1>2
  <2> QED BY <1>1, <2>1 DEF Increasing
<1> QED BY <1>3, <1>4, <1>5 DEF a, b, Older, Range

LEMMA TailIncreasing ==
  ASSUME NEW s \in Seq(Frame), s # <<>>, Increasing(s)
  PROVE  Increasing(Tail(s)) /\ Older({Head(s)}, Range(Tail(s)))
<1>1. /\ Len(s) \in Nat \ {0} /\ Tail(s) \in Seq(Frame) /\ Len(Tail(s)) = Len(s) - 1
      /\ DOMAIN s = 1..Len(s) /\ Head(s) = s[1]
      /\ \A i \in 1..Len(Tail(s)) : Tail(s)[i] = s[i + 1]
  BY HeadTailProperties, EmptySeq
<1> DEFINE t == Tail(s)
<1>2. DOMAIN t = 1..(Len(s) - 1) /\ \A i \in DOMAIN t : t[i] = s[i + 1]
  BY <1>1
<1> HIDE DEF t
<1>3. \A i \in DOMAIN t : s[1] < t[i]
  BY <1>1, <1>2 DEF Increasing
<1>4. \A i, j \in DOMAIN t : i < j => t[i] < t[j]
  BY <1>1, <1>2 DEF Increasing
<1>5. Increasing(t)
  BY <1>4 DEF Increasing
<1>6. Older({Head(s)}, Range(t))
  BY <1>1, <1>3 DEF Older, Range
<1> QED BY <1>5, <1>6 DEF t

\* What has not been backed up of a batch shrinks from its oldest frame on.
LEMMA BufferedInBackup ==
  ASSUME LoopOK, pc = "backup", Increasing(batch)
  PROVE  LET rest == {batch[i] : i \in (pos + 1)..Len(batch)}
         IN /\ batch[pos] \in Frame /\ Buffered = {batch[pos]} \cup rest
            /\ Older({batch[pos]}, rest)
<1>1. batch \in Seq(Frame) /\ Len(batch) \in Nat /\ pos \in 1..Len(batch)
      /\ DOMAIN batch = 1..Len(batch)
  BY DEF LoopOK
<1>2. pos..Len(batch) = {pos} \cup (pos + 1)..Len(batch)
  BY <1>1
<1>3. \A i \in (pos + 1)..Len(batch) : batch[pos] < batch[i]
  BY <1>1 DEF Increasing
<1> QED BY <1>1, <1>2, <1>3 DEF Buffered, Older

LEMMA BufferedInBatch ==
  ASSUME LoopOK
  PROVE  Buffered \subseteq Range(batch) /\ (pc # "backup" => Buffered = Range(batch))
BY DEF Buffered, LoopOK, Range

\* The frames on the edge arrived, also after a loss of power.
LEMMA OnlyArrivedStep ==
  ASSUME TypeOK, OnlyArrived, [Next]_vars
  PROVE  OnlyArrived'
<1>1. CASE PowerLoss
  <2>1. /\ rx' = <<>> /\ batch' = <<>> /\ sqlite' = <<>> /\ pending' = <<>>
        /\ arrived' = arrived /\ rows' = SubSeq(rows, 1, disk.rows)
    BY <1>1 DEF PowerLoss, Die
  <2>2. rows \in Seq(Frame) /\ disk.rows \in 0..Len(rows)
    BY DEF TypeOK, TableOK
  <2>3. Range(rows') \subseteq Range(rows)
    BY <2>1, <2>2, RangeSplit
  <2> QED BY <2>1, <2>3, EmptyRange DEF OnlyArrived, Known
<1> QED BY <1>1, ArrivedStep

\* What moves on to the next stage is the oldest of its stage, so that nothing is overtaken.
LEMMA FlushOrdered ==
  ASSUME TypeOK, Chain, NEW frames \in Seq(Frame), Flush(frames), Increasing(frames),
         Older(Range(rows), Range(frames)), Increasing(sqlite'),
         Older(Range(rows) \cup Range(frames), Range(sqlite') \cup Buffered \cup Range(rx)),
         Older(Range(sqlite'), Buffered \cup Range(rx)),
         UNCHANGED <<batch, rx>>, Buffered' = Buffered
  PROVE  Chain'
<1>1. rows \in Seq(Frame)
  BY DEF TypeOK, TableOK
<1>2. /\ Range(rows') \subseteq Range(rows) \cup Range(frames) /\ Range(pending') = {}
      /\ rows' = rows \o frames \/ rows' = rows
  BY FlushKnown
<1>3. Increasing(rows') /\ Increasing(pending')
  BY <1>1, <1>2, ConcatIncreasing, EmptyIncreasing DEF Chain, Stages, Flush, PendingAfterFlush
<1>4. Stages'
  BY <1>3 DEF Chain, Stages
<1>5. Ordered(Range(rows'), Range(pending'), Range(sqlite'), Buffered', Range(rx'))
  BY <1>2 DEF Chain, Ordered, Older
<1> QED BY <1>4, <1>5 DEF Chain

LEMMA ChainStep ==
  ASSUME TypeOK, OnlyArrived, Chain, [Next]_vars
  PROVE  Chain'
<1> DEFINE R == Range(rows)
           P == Range(pending)
           Q == Range(sqlite)
           D == Buffered
           X == Range(rx)
<1>0. /\ rx \in Seq(Frame) /\ sqlite \in Seq(Frame) /\ pending \in Seq(Frame)
      /\ rows \in Seq(Frame) /\ batch \in Seq(Frame) /\ LoopOK
      /\ Stages /\ Ordered(R, P, Q, D, X) /\ D \subseteq Range(batch)
  BY BufferedInBatch DEF TypeOK, PipelineOK, LoopOK, WriterOK, TableOK, Chain
<1>1. CASE BusFrame
  <2>1. arrived + 1 \in Frame /\ arrived \in Nat
    BY <1>1, ConstantFacts DEF BusFrame, TypeOK, PipelineOK, Frame
  <2>2. UNCHANGED <<batch, sqlite, pending, rows>> /\ Buffered' = D
    BY <1>1 DEF BusFrame, loopVars, dbVars, Buffered
  <2>3. Older(R \cup P \cup Q \cup D \cup X, {arrived + 1})
    <3>1. R \cup P \cup Q \cup D \cup X \subseteq 1..arrived
      BY <1>0 DEF OnlyArrived, Known
    <3> QED BY <2>1, <3>1 DEF Older
  <2>4. rx' = rx \/ (/\ Increasing(rx') /\ Range(rx') = X \cup {arrived + 1})
    <3>1. rx' = rx \/ rx' = Append(rx, arrived + 1)
      BY <1>1 DEF BusFrame
    <3>2. Older(X, {arrived + 1})
      BY <2>3 DEF Older
    <3> QED BY <1>0, <2>1, <3>1, <3>2, AppendIncreasing DEF Stages
  <2>5. Stages'
    BY <1>0, <2>2, <2>4 DEF Stages
  <2>6. Ordered(R, P, Q, D, Range(rx'))
    BY <1>0, <2>3, <2>4 DEF Ordered, Older
  <2> QED BY <2>2, <2>5, <2>6 DEF Chain
<1>2. CASE Collect
  <2> DEFINE n == Least(BatchSize, Len(rx))
  <2>1. /\ batch' = SubSeq(rx, 1, n) /\ rx' = SubSeq(rx, n + 1, Len(rx)) /\ pc' = "send"
        /\ UNCHANGED <<sqlite, pending, rows>>
    BY <1>2 DEF Collect, RestAfter, dbVars
  <2>2. n \in 0..Len(rx)
    <3>1. Len(rx) \in Nat BY <1>0
    <3> QED BY <3>1, ConstantFacts DEF Least
  <2> HIDE DEF n
  <2>3. /\ X = Range(batch') \cup Range(rx') /\ Increasing(batch') /\ Increasing(rx')
        /\ Older(Range(batch'), Range(rx'))
    BY <1>0, <2>1, <2>2, RangeSplit, SplitIncreasing DEF Stages
  <2>4. Buffered' = Range(batch')
    BY <2>1 DEF Buffered
  <2>5. Stages'
    BY <1>0, <2>1, <2>3 DEF Stages
  <2>6. Ordered(R, P, Q, Range(batch'), Range(rx'))
    BY <1>0, <2>3 DEF Ordered, Older
  <2> QED BY <2>1, <2>4, <2>5, <2>6 DEF Chain
<1>3. CASE Send \/ SendFails
  <2>1. /\ UNCHANGED <<sqlite, pending, rows, rx>> /\ pc # "backup"
        /\ batch' = batch \/ (batch' = <<>> /\ pc' # "backup")
    BY <1>3 DEF Send, SendFails, dbVars
  <2>2. D = Range(batch) /\ pos' \in Nat \ {0}
    BY <1>0, <1>3, <2>1, BufferedInBatch DEF Send, SendFails, FirstToBackUp, LoopOK
  <2>3. Buffered' \subseteq D
    <3>1. {batch[i] : i \in pos'..Len(batch)} \subseteq Range(batch)
      BY <1>0, <2>2 DEF Range
    <3> QED BY <2>1, <2>2, <3>1, EmptyRange DEF Buffered
  <2>4. Stages'
    BY <1>0, <2>1, EmptyIncreasing DEF Stages
  <2>5. Ordered(R, P, Q, Buffered', X)
    BY <1>0, <2>3 DEF Ordered, Older
  <2> QED BY <2>1, <2>4, <2>5 DEF Chain
<1>4. CASE BackUp
  <2> DEFINE rest == {batch[i] : i \in (pos + 1)..Len(batch)}
             f == batch[pos]
  <2>1. pc = "backup" /\ UNCHANGED <<pending, rows, rx>>
    BY <1>4 DEF BackUp, dbVars
  <2>2. f \in Frame /\ D = {f} \cup rest /\ Older({f}, rest)
    BY <1>0, <2>1, BufferedInBackup DEF Stages
  <2>3. Buffered' \subseteq rest /\ (batch' = batch \/ batch' = <<>>)
    BY <1>4, EmptyRange DEF BackUp, Buffered
  <2>4. sqlite' = sqlite \/ sqlite' = Append(sqlite, f)
    BY <1>4 DEF BackUp
  <2> HIDE DEF rest, f
  <2>5. Older(Q, {f})
    BY <1>0, <2>2 DEF Ordered, Older
  <2>6. Increasing(sqlite') /\ Range(sqlite') \subseteq Q \cup {f}
    <3>1. Increasing(Append(sqlite, f)) /\ Range(Append(sqlite, f)) = Q \cup {f}
      BY <1>0, <2>2, <2>5, AppendIncreasing DEF Stages
    <3> QED BY <1>0, <2>4, <3>1 DEF Stages
  <2>7. Stages'
    BY <1>0, <2>1, <2>3, <2>6, EmptyIncreasing DEF Stages
  <2>8. Ordered(R, P, Range(sqlite'), Buffered', X)
    BY <1>0, <2>2, <2>3, <2>6 DEF Ordered, Older
  <2> QED BY <2>1, <2>7, <2>8 DEF Chain
<1>5. CASE WriterTick
  <2>1. Flush(pending) /\ UNCHANGED <<sqlite, rx, batch, pc, pos>>
    BY <1>5 DEF WriterTick, loopVars
  <2>2. Buffered' = D
    BY <2>1 DEF Buffered
  <2>3. /\ Older(R, P) /\ Older(R \cup P, Q \cup D \cup X) /\ Older(Q, D \cup X)
    BY <1>0 DEF Ordered, Older
  <2> QED BY <1>0, <2>1, <2>2, <2>3, FlushOrdered DEF Stages
<1>6. CASE WriterRecv
  <2> DEFINE h == Head(sqlite)
             frames == Append(pending, h)
  <2>1. /\ sqlite # <<>> /\ sqlite' = Tail(sqlite) /\ UNCHANGED <<rx, batch, pc, pos>>
        /\ Flush(frames) \/ (pending' = frames /\ UNCHANGED rows)
    BY <1>6 DEF WriterRecv, loopVars
  <2>2. /\ h \in Frame /\ Q = {h} \cup Range(sqlite')
        /\ Increasing(sqlite') /\ Older({h}, Range(sqlite'))
    BY <1>0, <2>1, RangeTail, TailIncreasing DEF Stages
  <2>3. Older(P, {h}) /\ Older(R, P \cup {h})
    BY <1>0, <2>2 DEF Ordered, Older
  <2>4. frames \in Seq(Frame) /\ Range(frames) = P \cup {h} /\ Increasing(frames)
    <3>1. pending \in Seq(Frame) /\ Increasing(pending) /\ Older(Range(pending), {h})
      BY <1>0, <2>3 DEF Stages
    <3>2. h \in Frame
      BY <2>2
    <3> HIDE DEF h
    <3> QED BY <3>1, <3>2, AppendIncreasing
  <2>5. Buffered' = D
    BY <2>1 DEF Buffered
  <2> HIDE DEF h, frames
  <2>6. /\ Older(R, Range(frames)) /\ Older(Range(sqlite'), D \cup X)
        /\ Older(R \cup Range(frames), Range(sqlite') \cup D \cup X)
    BY <1>0, <2>2, <2>3, <2>4 DEF Ordered, Older
  <2>7. CASE Flush(frames)
    BY <1>0, <2>1, <2>2, <2>4, <2>5, <2>6, <2>7, FlushOrdered
  <2>8. CASE pending' = frames /\ UNCHANGED rows
    <3>1. Stages'
      BY <1>0, <2>1, <2>2, <2>4, <2>8 DEF Stages
    <3>2. Ordered(R, Range(frames), Range(sqlite'), D, X)
      BY <1>0, <2>6 DEF Ordered, Older
    <3> QED BY <2>1, <2>5, <2>8, <3>1, <3>2 DEF Chain
  <2> QED BY <2>1, <2>7, <2>8
<1>7. CASE Exit \/ Crash \/ ReturnFromMain \/ PowerLoss
  <2>1. /\ rx' = <<>> /\ batch' = <<>> /\ sqlite' = <<>> /\ pending' = <<>> /\ pc' = "exited"
        /\ \/ rows' = rows \/ rows' = SubSeq(rows, 1, disk.rows)
           \/ rows' = (rows \o pending) \o sqlite
    BY <1>7 DEF Exit, Crash, ReturnFromMain, PowerLoss, Die, dbVars
  <2>2. Increasing(rows')
    <3>1. CASE rows' = SubSeq(rows, 1, disk.rows)
      <4>1. disk.rows \in 0..Len(rows)
        BY DEF TypeOK, TableOK
      <4> QED BY <1>0, <3>1, <4>1, SplitIncreasing DEF Stages
    <3>2. CASE rows' = (rows \o pending) \o sqlite
      <4>1. Older(R, P) /\ Older(R \cup P, Q)
        BY <1>0 DEF Ordered, Older
      <4>2. /\ rows \o pending \in Seq(Frame) /\ Range(rows \o pending) = R \cup P
            /\ Increasing(rows \o pending)
        BY <1>0, <4>1, RangeConcat, ConcatIncreasing, ConcatProperties DEF Stages
      <4> QED BY <1>0, <3>2, <4>1, <4>2, ConcatIncreasing DEF Stages
    <3> QED BY <1>0, <2>1, <3>1, <3>2 DEF Stages
  <2>3. Range(rx') = {} /\ Range(sqlite') = {} /\ Range(pending') = {} /\ Buffered' = {}
    BY <2>1, EmptyRange DEF Buffered
  <2>4. Stages'
    BY <2>1, <2>2, EmptyIncreasing DEF Stages
  <2>5. Ordered(Range(rows'), {}, {}, {}, {})
    BY DEF Ordered, Older
  <2> QED BY <2>3, <2>4, <2>5 DEF Chain
<1>8. CASE /\ UNCHANGED <<rx, batch, pos, sqlite, pending, rows>>
           /\ pc' = pc \/ "backup" \notin {pc, pc'}
  <2>1. Buffered' = D
    BY <1>8 DEF Buffered
  <2> QED BY <1>0, <1>8, <2>1 DEF Chain, Stages
<1>9. \/ /\ UNCHANGED <<rx, batch, pos, sqlite, pending, rows>>
         /\ pc' = pc \/ "backup" \notin {pc, pc'}
      \/ BusFrame \/ Collect \/ (Send \/ SendFails) \/ BackUp \/ WriterTick \/ WriterRecv
      \/ (Exit \/ Crash \/ ReturnFromMain \/ PowerLoss)
  BY DEF Next, Network, MainLoop, Environment, Writer, Break, Deliver, LoseInFlight, Close,
         Shutdown, Checkpoint, Restart, Connect, Select, Replay, ReplayFails, Mark,
         Reconnect, vars, loopVars, dbVars, netVars
<1> QED BY <1>1, <1>2, <1>3, <1>4, <1>5, <1>6, <1>7, <1>8, <1>9

\* Rows are in the order of arrival, whatever is flushed late, lost, killed or powered off.
LEMMA ChainInvariant == Spec => [](TypeOK /\ OnlyArrived /\ Chain)
<1>1. Init => OnlyArrived /\ Chain
  <2> SUFFICES ASSUME Init PROVE OnlyArrived /\ Chain
    OBVIOUS
  <2>1. /\ Range(rx) = {} /\ Range(sqlite) = {} /\ Range(pending) = {} /\ Range(rows) = {}
        /\ Range(batch) = {} /\ Buffered = {}
    BY EmptyRange DEF Init, Buffered
  <2>2. Stages
    BY EmptyIncreasing DEF Init, Stages
  <2> QED BY <2>1, <2>2 DEF OnlyArrived, Known, Chain, Ordered, Older
<1>2. TypeOK /\ OnlyArrived /\ Chain /\ [Next]_vars => TypeOK' /\ OnlyArrived' /\ Chain'
  BY NextType, OnlyArrivedStep, ChainStep
<1> QED BY <1>1, <1>2, InitType, PTL DEF Spec

(***************************************************************************)
(* Order on a connection.  What the loop will hand to the kernel of its    *)
(* connection - the rest of the replay, the rest of the batch, and the     *)
(* pipeline - is younger than all that this connection has taken.          *)
(***************************************************************************)

Reached(c) == {last[c]} \cup Range(net[c])
Unsent == IF pc = "send" THEN {batch[i] : i \in pos..Len(batch)} ELSE {}
Ahead == {rows[i] : i \in todo} \cup Unsent \cup Range(rx)

Line(c) ==
  /\ Increasing(net[c]) /\ Older({last[c]}, Range(net[c]))
  /\ Reached(c) \subseteq 0..arrived
  /\ link[c] = "free" => net[c] = <<>> /\ last[c] = 0

\* What the loop replays it has neither replayed before nor marked.
Phases ==
  /\ pc # "replay" => todo = {}
  /\ pc \notin {"replay", "mark"} => syncedIds = {}
  /\ todo \cap (synced \cup syncedIds) = {}

Lines == \A c \in Conns : Line(c)

Sending ==
  /\ conn \in Conns => link[conn] # "free"
  /\ pc = "select" => net[conn] = <<>> /\ last[conn] = 0
  /\ pc \in {"select", "replay", "mark", "collect", "send"} => Older(Reached(conn), Ahead)

\* The loop hands frame f to the kernel: the next of its batch or of the backup.
Hands(f) ==
  \/ Send /\ f = batch[pos]
  \/ \E id \in todo : Replay(id) /\ f = rows[id]

AheadOK == Ahead \subseteq Frame

LEMMA AheadAreFrames == TypeOK => AheadOK
<1> SUFFICES ASSUME TypeOK PROVE Ahead \subseteq Frame
  BY DEF AheadOK
<1>1. /\ rx \in Seq(Frame) /\ rows \in Seq(Frame) /\ todo \subseteq DOMAIN rows
      /\ batch \in Seq(Frame) /\ pos \in Nat \ {0}
  BY DEF TypeOK, PipelineOK, TableOK, LoopOK
<1>2. Range(rx) \subseteq Frame
  BY <1>1, RangeInSet
<1>3. {rows[i] : i \in todo} \subseteq Frame /\ Unsent \subseteq Frame
  BY <1>1 DEF Unsent
<1> QED BY <1>2, <1>3 DEF Ahead

LEMMA PhasesStep == Phases /\ [Next]_vars => Phases'
<1> SUFFICES ASSUME Phases, [Next]_vars PROVE Phases'
  OBVIOUS
<1>1. CASE Select
  BY <1>1 DEF Select, Fetched, Unsynced, dbVars, Phases
<1>2. ASSUME NEW id \in todo, Replay(id) PROVE Phases'
  BY <1>2 DEF Replay, dbVars, Phases
<1>3. CASE ReplayFails
  BY <1>3 DEF ReplayFails, dbVars, Phases
<1>4. CASE Mark
  BY <1>4 DEF Mark, Phases
<1>5. CASE Exit \/ Crash \/ ReturnFromMain \/ PowerLoss
  BY <1>5 DEF Exit, Crash, ReturnFromMain, PowerLoss, Die, Phases
<1>6. CASE /\ UNCHANGED <<todo, syncedIds, synced>>
           /\ pc' = pc \/ (pc \notin {"replay", "mark"} /\ pc' \notin {"replay", "mark"})
  BY <1>6 DEF Phases
<1>7. \/ /\ UNCHANGED <<todo, syncedIds, synced>>
         /\ pc' = pc \/ (pc \notin {"replay", "mark"} /\ pc' \notin {"replay", "mark"})
      \/ Select \/ ReplayFails \/ Mark \/ (Exit \/ Crash \/ ReturnFromMain \/ PowerLoss)
      \/ \E id \in todo : Replay(id)
  BY DEF Next, Network, MainLoop, Environment, Writer, WriterRecv, WriterTick, BusFrame, Break,
         Deliver, LoseInFlight, Close, Shutdown, Checkpoint, Restart, Connect, Collect, Send,
         SendFails, AfterFailedSend, BackUp, Reconnect, vars, loopVars, dbVars, netVars
<1> QED BY <1>1, <1>2, <1>3, <1>4, <1>5, <1>6, <1>7

LEMMA HandsFacts ==
  ASSUME TypeOK, OnlyArrived, Chain, Phases, Sending, NEW f, Hands(f)
  PROVE  /\ f \in Frame /\ f \in 1..arrived /\ conn \in Conns /\ link[conn] # "free"
         /\ KernelAccepts(f) /\ UNCHANGED <<arrived, rx, conn, link, last, got, rows, synced>>
         /\ Older(Reached(conn), {f}) /\ Older(Reached(conn), Ahead)
         /\ f \in Ahead /\ Ahead' \subseteq Ahead /\ Older({f}, Ahead')
         /\ pc' \in {"replay", "mark", "collect", "send"}
<1>0. /\ rows \in Seq(Frame) /\ batch \in Seq(Frame) /\ Stages
      /\ Ordered(Range(rows), Range(pending), Range(sqlite), Buffered, Range(rx))
      /\ LoopOK /\ todo \subseteq DOMAIN rows
  BY DEF TypeOK, LoopOK, TableOK, Chain
<1>1. CASE Send /\ f = batch[pos]
  <2> DEFINE rest == {batch[i] : i \in (pos + 1)..Len(batch)}
  <2>1. /\ pc = "send" /\ conn \in Conns /\ pos \in 1..Len(batch) /\ Len(batch) \in Nat
        /\ DOMAIN batch = 1..Len(batch)
    BY <1>0, <1>1 DEF Send, LoopOK
  <2>2. pos..Len(batch) = {pos} \cup (pos + 1)..Len(batch)
    BY <2>1
  <2>3. Unsent = {f} \cup rest /\ f \in Frame /\ f \in Range(batch)
    BY <1>0, <1>1, <2>1, <2>2 DEF Unsent, Range
  <2>4. Older({f}, rest)
    <3>1. \A i \in (pos + 1)..Len(batch) : batch[pos] < batch[i]
      BY <1>0, <2>1 DEF Stages, Increasing
    <3> QED BY <1>1, <3>1 DEF Older
  <2>5. UNCHANGED <<arrived, rx, conn, link, last, got, rows, synced, todo>> /\ KernelAccepts(f)
    BY <1>1 DEF Send, dbVars
  <2>6. Unsent' \subseteq rest /\ pc' \in {"collect", "send"}
    BY <1>1, <2>1 DEF Send, Unsent
  <2>7. Older({f}, Range(rx))
    <3>1. Buffered = Range(batch)
      BY <1>0, <2>1, BufferedInBatch
    <3> QED BY <1>0, <2>3, <3>1 DEF Ordered, Older
  <2>8. todo = {}
    BY <2>1 DEF Phases
  <2> QED
    BY <1>0, <2>1, <2>3, <2>4, <2>5, <2>6, <2>7, <2>8
       DEF Sending, Older, Ahead, OnlyArrived, Known
<1>2. ASSUME NEW id \in todo, Replay(id), f = rows[id]
      PROVE  /\ f \in Frame /\ f \in Range(rows) /\ conn \in Conns /\ pc = "replay"
             /\ KernelAccepts(f)
             /\ UNCHANGED <<arrived, rx, conn, link, last, got, rows, synced>>
             /\ f \in Ahead /\ Ahead' \subseteq Ahead /\ Older({f}, Ahead')
             /\ pc' \in {"replay", "mark"}
  <2>1. /\ f \in Frame /\ f \in Range(rows) /\ conn \in Conns /\ pc = "replay"
        /\ \A j \in todo : j \in Nat /\ id \in Nat
    BY <1>0, <1>2 DEF Replay, LoopOK, Range
  <2>2. /\ KernelAccepts(f) /\ todo' = todo \ {id} /\ pc' \in {"replay", "mark"}
        /\ UNCHANGED <<arrived, rx, conn, link, last, got, rows, synced>>
    BY <1>2 DEF Replay, dbVars
  <2>3. Unsent = {} /\ Unsent' = {}
    BY <2>1, <2>2 DEF Unsent
  <2>4. \A j \in todo' : rows[id] < rows[j]
    <3>1. \A j \in todo' : id < j /\ j \in DOMAIN rows
      BY <1>0, <1>2, <2>1, <2>2 DEF Replay, OldestFirst
    <3> QED BY <1>0, <3>1 DEF Stages, Increasing
  <2>5. Older({f}, Range(rx))
    BY <1>0, <2>1 DEF Ordered, Older
  <2> QED BY <1>2, <2>1, <2>2, <2>3, <2>4, <2>5 DEF Ahead, Older
<1> QED BY <1>1, <1>2 DEF Hands, Sending, Older, OnlyArrived, Known

\* What the kernel, the server and the network do to the frames of a connection.
LEMMA KernelTakes ==
  ASSUME NetOK, NEW f \in Frame, KernelAccepts(f), conn \in Conns
  PROVE  /\ net' \in [Conns -> Seq(Frame)]
         /\ \A c \in Conns : c # conn => net'[c] = net[c]
         /\ \/ net'[conn] = net[conn]
            \/ net'[conn] = Append(net[conn], f) /\ Range(net'[conn]) = Range(net[conn]) \cup {f}
<1>1. CASE link[conn] = "up"
  <2>1. net' = [net EXCEPT ![conn] = Append(net[conn], f)] /\ net[conn] \in Seq(Frame)
    BY <1>1 DEF KernelAccepts, NetOK
  <2>2. /\ Range(Append(net[conn], f)) = Range(net[conn]) \cup {f}
        /\ Append(net[conn], f) \in Seq(Frame)
    BY <2>1, RangeAppend
  <2> QED BY <2>1, <2>2 DEF NetOK
<1>2. CASE link[conn] # "up"
  BY <1>2 DEF KernelAccepts, NetOK
<1> QED BY <1>1, <1>2

LEMMA ServerReads ==
  ASSUME NetOK, Lines, NEW c \in Conns, Deliver(c)
  PROVE  /\ Head(net[c]) \in Frame /\ net[c] \in Seq(Frame) /\ net[c] # <<>>
         /\ net'[c] = Tail(net[c]) /\ last'[c] = Head(net[c]) /\ Increasing(net'[c])
         /\ Range(net[c]) = {Head(net[c])} \cup Range(net'[c])
         /\ Older({last'[c]}, Range(net'[c]))
         /\ \A d \in Conns : d # c => net'[d] = net[d] /\ last'[d] = last[d]
         /\ Reached(c)' \subseteq Reached(c)
<1>1. net[c] \in Seq(Frame) /\ net[c] # <<>> /\ Increasing(net[c])
  BY DEF NetOK, Deliver, Lines, Line
<1>2. /\ Range(net[c]) = {Head(net[c])} \cup Range(Tail(net[c])) /\ Head(net[c]) \in Frame
      /\ Increasing(Tail(net[c])) /\ Older({Head(net[c])}, Range(Tail(net[c])))
  <2>1. Range(net[c]) = {Head(net[c])} \cup Range(Tail(net[c])) /\ Head(net[c]) \in Frame
    BY <1>1, RangeTail
  <2>2. Increasing(Tail(net[c])) /\ Older({Head(net[c])}, Range(Tail(net[c])))
    BY <1>1, TailIncreasing
  <2> QED BY <2>1, <2>2
<1>3. /\ net'[c] = Tail(net[c]) /\ last'[c] = Head(net[c])
      /\ \A d \in Conns : d # c => net'[d] = net[d] /\ last'[d] = last[d]
  BY DEF Deliver, NetOK
<1> QED BY <1>1, <1>2, <1>3 DEF Reached

LEMMA LineStep ==
  ASSUME TypeOK, OnlyArrived, Chain, Phases, Lines, Sending, [Next]_vars
  PROVE  Lines'
<1>0. NetOK /\ arrived \in Nat
  BY ConstantFacts DEF TypeOK, PipelineOK
<1>1. CASE BusFrame
  <2>1. UNCHANGED <<link, net, last>> /\ 0..arrived \subseteq 0..arrived'
    BY <1>0, <1>1 DEF BusFrame, netVars
  <2> QED BY <2>1 DEF Lines, Line, Reached
<1>2. ASSUME NEW c \in Conns, Break(c) PROVE Lines'
  BY <1>0, <1>2 DEF Break, Lines, Line, Reached, NetOK
<1>3. ASSUME NEW c \in Conns, Deliver(c) PROVE Lines'
  <2>1. UNCHANGED <<arrived, link>>
    BY <1>3 DEF Deliver
  <2>2. \A d \in Conns : d # c => Line(d)'
    BY <1>0, <1>3, <2>1, ServerReads DEF Lines, Line, Reached
  <2>3. Line(c)'
    BY <1>0, <1>3, <2>1, ServerReads DEF Lines, Line
  <2> QED BY <2>2, <2>3 DEF Lines
<1>4. ASSUME NEW c \in Conns, LoseInFlight(c) PROVE Lines'
  <2>1. /\ UNCHANGED <<arrived, link, last>> /\ net'[c] = <<>> /\ link[c] # "free"
        /\ \A d \in Conns : d # c => net'[d] = net[d]
    BY <1>0, <1>4 DEF LoseInFlight, NetOK
  <2>2. \A d \in Conns : d # c => Line(d)'
    BY <2>1 DEF Lines, Line, Reached
  <2>3. Line(c)'
    BY <2>1, EmptyRange, EmptyIncreasing DEF Lines, Line, Reached, Older
  <2> QED BY <2>2, <2>3 DEF Lines
<1>5. ASSUME NEW c \in Conns, Close(c) PROVE Lines'
  <2>1. /\ UNCHANGED <<arrived, net>> /\ net[c] = <<>> /\ last'[c] = 0
        /\ \A d \in Conns : d # c => link'[d] = link[d] /\ last'[d] = last[d]
    BY <1>0, <1>5 DEF Close, NetOK
  <2>2. \A d \in Conns : d # c => Line(d)'
    BY <2>1 DEF Lines, Line, Reached
  <2>3. Line(c)'
    BY <1>0, <2>1, EmptyRange, EmptyIncreasing DEF Line, Reached, Older
  <2> QED BY <2>2, <2>3 DEF Lines
<1>6. CASE Exit \/ Crash \/ ReturnFromMain \/ PowerLoss
  <2>1. /\ UNCHANGED <<arrived, net, last>>
        /\ \A d \in Conns : link'[d] \in {"dead", link[d]}
    BY <1>6 DEF Exit, Crash, ReturnFromMain, PowerLoss, Die
  <2> QED BY <2>1 DEF Lines, Line, Reached
<1>7. ASSUME NEW c \in Conns, Connect(c) PROVE Lines'
  <2>1. UNCHANGED <<arrived, net, last>> /\ \A d \in Conns : link'[d] \in {"up", link[d]}
    BY <1>0, <1>7 DEF Connect, NetOK
  <2> QED BY <2>1 DEF Lines, Line, Reached
<1>8. ASSUME NEW f, Hands(f) PROVE Lines'
  <2>1. /\ f \in Frame /\ f \in 1..arrived /\ conn \in Conns /\ link[conn] # "free"
        /\ KernelAccepts(f) /\ UNCHANGED <<arrived, link, last>> /\ Older(Reached(conn), {f})
    BY <1>8, HandsFacts
  <2>2. \A d \in Conns : d # conn => Line(d)'
    BY <1>0, <2>1, KernelTakes DEF Lines, Line, Reached
  <2>3. ASSUME NEW k \in Conns, k = conn PROVE Line(k)'
    <3>0. /\ last'[k] = last[k] /\ link'[k] = link[k] /\ link[k] # "free" /\ Line(k)
          /\ Older(Reached(k), {f}) /\ net[k] \in Seq(Frame)
      BY <1>0, <2>1, <2>3 DEF Lines, NetOK
    <3>1. CASE net'[k] = net[k]
      BY <2>1, <3>0, <3>1 DEF Line, Reached
    <3>2. CASE net'[k] = Append(net[k], f) /\ Range(net'[k]) = Range(net[k]) \cup {f}
      <4>1. Increasing(net[k]) /\ Older(Range(net[k]), {f})
        BY <3>0 DEF Line, Reached, Older
      <4>2. Increasing(net'[k])
        BY <2>1, <3>0, <3>2, <4>1, AppendIncreasing
      <4>3. Older({last[k]}, Range(net[k]) \cup {f})
        BY <3>0 DEF Line, Reached, Older
      <4>4. Reached(k)' = Reached(k) \cup {f} /\ f \in 0..arrived
        BY <1>0, <2>1, <3>0, <3>2 DEF Reached
      <4> QED BY <2>1, <3>0, <3>2, <4>2, <4>3, <4>4 DEF Line
    <3> QED BY <1>0, <2>1, <2>3, <3>1, <3>2, KernelTakes
  <2> QED BY <2>2, <2>3 DEF Lines
<1>9. CASE UNCHANGED <<arrived, link, net, last>>
  BY <1>9 DEF Lines, Line, Reached
<1>10. \/ UNCHANGED <<arrived, link, net, last>> \/ BusFrame
       \/ \E c \in Conns : Break(c) \/ Deliver(c) \/ LoseInFlight(c) \/ Close(c) \/ Connect(c)
       \/ (Exit \/ Crash \/ ReturnFromMain \/ PowerLoss) \/ \E f : Hands(f)
  BY DEF Next, Network, MainLoop, Environment, Writer, WriterRecv, WriterTick, Shutdown,
         Checkpoint, Restart, Select, ReplayFails, Mark, Collect, SendFails, BackUp, Reconnect,
         Hands, vars, netVars
<1> QED BY <1>1, <1>2, <1>3, <1>4, <1>5, <1>6, <1>7, <1>8, <1>9, <1>10

\* The loop goes on with its connection and has no more ahead of it than before.
LEMMA StillAhead ==
  ASSUME Sending, conn' = conn, link' = link,
         pc \in {"select", "replay", "mark", "collect", "send"}, pc' # "select",
         pc' \in {"select", "replay", "mark", "collect", "send"} => conn \in Conns,
         UNCHANGED <<net, last>>, Ahead' \subseteq Ahead
  PROVE  Sending'
BY DEF Sending, Reached, Older

\* Outside of these states the loop sends nothing.
Talks == pc \in {"select", "replay", "mark", "collect", "send"}

LEMMA SendingStep ==
  ASSUME TypeOK, TypeOK', OnlyArrived, Chain, Phases, Lines, Sending, [Next]_vars
  PROVE  Sending'
<1>0. /\ rx \in Seq(Frame) /\ rows \in Seq(Frame) /\ batch \in Seq(Frame) /\ NetOK /\ LoopOK
      /\ arrived \in 0..MaxFrame /\ MaxFrame \in Nat
      /\ Talks => conn \in Conns
  BY ConstantFacts DEF TypeOK, PipelineOK, TableOK, LoopOK, Talks
<1>1. CASE BusFrame
  <2>1. /\ UNCHANGED <<pc, conn, todo, batch, pos, rows, link, net, last>>
        /\ arrived + 1 \in Frame
        /\ rx' = rx \/ rx' = Append(rx, arrived + 1)
    BY <1>0, <1>1, ConstantFacts DEF BusFrame, loopVars, dbVars, netVars, Frame
  <2>2. Ahead' \subseteq Ahead \cup {arrived + 1}
    <3>1. Range(Append(rx, arrived + 1)) = Range(rx) \cup {arrived + 1}
      BY <1>0, <2>1, RangeAppend
    <3>2. Unsent' = Unsent /\ Range(rx') \subseteq Range(rx) \cup {arrived + 1}
      BY <2>1, <3>1 DEF Unsent
    <3> QED BY <2>1, <3>2 DEF Ahead
  <2>3. Talks => Reached(conn)' = Reached(conn) /\ Older(Reached(conn), {arrived + 1})
    <3>1. Talks => Reached(conn) \subseteq 0..arrived
      BY <1>0 DEF Lines, Line
    <3>2. \A n \in 0..arrived : n < arrived + 1
      BY <1>0
    <3>3. Reached(conn)' = Reached(conn)
      BY <2>1 DEF Reached
    <3> QED BY <3>1, <3>2, <3>3 DEF Older
  <2> QED BY <2>1, <2>2, <2>3 DEF Sending, Older, Talks
<1>2. ASSUME NEW c \in Conns, Deliver(c) PROVE Sending'
  <2>1. UNCHANGED <<pc, conn, todo, batch, pos, rows, rx, link>>
    BY <1>2 DEF Deliver, loopVars, dbVars
  <2>2. Ahead' = Ahead
    BY <2>1 DEF Ahead, Unsent
  <2>3. Talks => Reached(conn)' \subseteq Reached(conn)
    <3>1. \A d \in Conns : {last'[d]} \cup Range(net'[d]) \subseteq Reached(d)
      BY <1>0, <1>2, ServerReads DEF Reached
    <3> QED BY <1>0, <2>1, <3>1 DEF Reached
  <2>4. pc = "select" => net'[conn] = net[conn] /\ last'[conn] = last[conn]
    BY <1>0, <1>2, ServerReads DEF Sending, Talks
  <2> QED BY <2>1, <2>2, <2>3, <2>4 DEF Sending, Older, Talks
<1>3. ASSUME NEW c \in Conns, LoseInFlight(c) PROVE Sending'
  <2>1. UNCHANGED <<pc, conn, todo, batch, pos, rows, rx, link, last>>
    BY <1>3 DEF LoseInFlight, loopVars, dbVars
  <2>2. Ahead' = Ahead
    BY <2>1 DEF Ahead, Unsent
  <2>3. \A d \in Conns : net'[d] = net[d] \/ net'[d] = <<>>
    BY <1>0, <1>3 DEF LoseInFlight, NetOK
  <2>4. Talks => /\ Reached(conn)' \subseteq Reached(conn)
                 /\ net[conn] = <<>> => net'[conn] = <<>>
    BY <1>0, <2>1, <2>3, EmptyRange DEF Reached
  <2> QED BY <1>0, <2>1, <2>2, <2>4 DEF Sending, Older, Talks
<1>4. ASSUME NEW c \in Conns, Break(c) \/ Close(c) PROVE Sending'
  <2>1. /\ UNCHANGED <<pc, conn, todo, batch, pos, rows, rx, net>>
        /\ \A d \in Conns : d # c => link'[d] = link[d] /\ last'[d] = last[d]
        /\ c = conn => link'[conn] = "dead" /\ last' = last
    BY <1>0, <1>4 DEF Break, Close, NetOK, loopVars, dbVars
  <2>2. Ahead' = Ahead
    BY <2>1 DEF Ahead, Unsent
  <2>3. conn \in Conns => last'[conn] = last[conn] /\ link'[conn] \in {"dead", link[conn]}
    BY <2>1
  <2> QED BY <1>0, <2>1, <2>2, <2>3 DEF Sending, Reached, Older, Talks
<1>5. ASSUME NEW c \in Conns, Connect(c) PROVE Sending'
  <2>1. /\ conn' = c /\ pc' = "select" /\ UNCHANGED <<net, last>> /\ link'[c] = "up"
        /\ net[c] = <<>> /\ last[c] = 0
    BY <1>0, <1>5 DEF Connect, NetOK, Lines, Line
  <2>2. Reached(conn)' = {0}
    BY <2>1, EmptyRange DEF Reached
  <2>3. \A f \in Ahead' : f \in Frame /\ 0 < f
    <3>1. AheadOK'
      BY AheadAreFrames, PTL
    <3> QED BY <3>1, FrameIsNat DEF AheadOK
  <2> QED BY <2>1, <2>2, <2>3 DEF Sending, Older
<1>6. CASE Select
  <2>1. /\ pc = "select" /\ pc' \in {"collect", "replay"} /\ conn \in Conns
        /\ UNCHANGED <<conn, link, net, last>> /\ net[conn] = <<>> /\ last[conn] = 0
    BY <1>0, <1>6 DEF Select, netVars, Sending, Talks
  <2>2. Reached(conn)' = {0}
    BY <2>1, EmptyRange DEF Reached
  <2>3. \A f \in Ahead' : f \in Frame /\ 0 < f
    <3>1. AheadOK'
      BY AheadAreFrames, PTL
    <3> QED BY <3>1, FrameIsNat DEF AheadOK
  <2> QED BY <2>1, <2>2, <2>3 DEF Sending, Older
<1>7. ASSUME NEW f, Hands(f) PROVE Sending'
  <2>1. /\ f \in Frame /\ conn \in Conns /\ link[conn] # "free" /\ KernelAccepts(f)
        /\ UNCHANGED <<conn, link, last>> /\ Older(Reached(conn), Ahead)
        /\ Ahead' \subseteq Ahead /\ Older({f}, Ahead') /\ pc' # "select"
    BY <1>7, HandsFacts
  <2>2. Reached(conn)' \subseteq Reached(conn) \cup {f}
    <3>1. Range(net'[conn]) \subseteq Range(net[conn]) \cup {f}
      BY <1>0, <2>1, KernelTakes
    <3> QED BY <2>1, <3>1 DEF Reached
  <2>3. Older(Reached(conn)', Ahead')
    BY <2>1, <2>2 DEF Older
  <2> QED BY <2>1, <2>3 DEF Sending
<1>8. CASE ReplayFails \/ Mark
  <2>1. /\ UNCHANGED <<conn, batch, pos, rows, rx, link, net, last>> /\ todo' \subseteq todo
        /\ pc \in {"replay", "mark"} /\ pc' \in {"mark", "collect"}
    BY <1>8 DEF ReplayFails, Mark, dbVars, netVars
  <2>2. Ahead' \subseteq Ahead
    BY <2>1 DEF Ahead, Unsent
  <2> QED BY <1>0, <2>1, <2>2, StillAhead DEF Talks
<1>9. CASE Collect
  <2> DEFINE n == Least(BatchSize, Len(rx))
  <2>1. /\ batch' = SubSeq(rx, 1, n) /\ rx' = SubSeq(rx, n + 1, Len(rx)) /\ pos' = 1
        /\ pc = "collect" /\ pc' = "send"
        /\ UNCHANGED <<conn, todo, rows, link, net, last>>
    BY <1>9 DEF Collect, RestAfter, dbVars, netVars
  <2>2. n \in 0..Len(rx)
    <3>1. Len(rx) \in Nat BY <1>0
    <3> QED BY <3>1, ConstantFacts DEF Least
  <2> HIDE DEF n
  <2>3. Range(rx) = Range(batch') \cup Range(rx') /\ batch' \in Seq(Frame)
    BY <1>0, <2>1, <2>2, RangeSplit
  <2>4. Unsent' \subseteq Range(batch')
    <3>1. \A i \in 1..Len(batch') : batch'[i] \in Range(batch')
      BY <2>3 DEF Range
    <3> QED BY <2>1, <3>1 DEF Unsent
  <2>5. Ahead' \subseteq Ahead
    BY <2>1, <2>3, <2>4 DEF Ahead
  <2> QED BY <1>0, <2>1, <2>5, StillAhead DEF Talks
<1>10. CASE Writer
  <2>1. UNCHANGED <<pc, conn, todo, batch, pos, rx, link, net, last>> /\ ~PowerLoss
    BY <1>10 DEF Writer, WriterRecv, WriterTick, loopVars, netVars, PowerLoss, Die
  <2>2. \A i \in todo : rows'[i] = rows[i]
    BY <2>1, RowsKept DEF TypeOK, TableOK
  <2>3. Ahead' = Ahead
    BY <2>1, <2>2 DEF Ahead, Unsent
  <2> QED BY <2>1, <2>3 DEF Sending, Reached, Older
<1>11. CASE conn' \notin Conns /\ ~Talks'
  BY <1>11 DEF Sending, Talks
<1>12. CASE UNCHANGED <<conn, link>> /\ ~Talks'
  BY <1>12 DEF Sending, Talks
<1>13. CASE UNCHANGED <<pc, conn, todo, batch, pos, rows, rx, link, net, last>>
  <2>1. Ahead' = Ahead
    BY <1>13 DEF Ahead, Unsent
  <2> QED BY <1>13, <2>1 DEF Sending, Reached, Older
<1>14. ASSUME Exit \/ Crash \/ ReturnFromMain \/ PowerLoss
       PROVE  conn' \notin Conns /\ ~Talks'
  BY <1>14, ConstantFacts DEF Exit, Crash, ReturnFromMain, PowerLoss, Die, Talks
<1>15. ASSUME SendFails \/ BackUp \/ Reconnect \/ Restart
       PROVE  (conn' \notin Conns \/ UNCHANGED <<conn, link>>) /\ ~Talks'
  BY <1>15, ConstantFacts
     DEF SendFails, AfterFailedSend, BackUp, Reconnect, Restart, netVars, Talks
<1>16. ASSUME Shutdown \/ Checkpoint \/ UNCHANGED vars
       PROVE  UNCHANGED <<pc, conn, todo, batch, pos, rows, rx, link, net, last>>
  BY <1>16 DEF Shutdown, Checkpoint, vars, loopVars, dbVars, netVars
<1> QED
  BY <1>1, <1>2, <1>3, <1>4, <1>5, <1>6, <1>7, <1>8, <1>9, <1>10, <1>11, <1>12, <1>13, <1>14,
     <1>15, <1>16
  DEF Next, Network, MainLoop, Environment, Hands

LEMMA OrderInvariant == Spec => [](TypeOK /\ OnlyArrived /\ Chain /\ Phases /\ Lines /\ Sending)
<1>1. Init => Phases /\ Lines /\ Sending
  <2> SUFFICES ASSUME Init PROVE Phases /\ Lines /\ Sending
    OBVIOUS
  <2>1. Phases
    BY DEF Init, Phases
  <2>2. Lines
    BY EmptyRange, EmptyIncreasing DEF Init, Lines, Line, Reached, Older
  <2>3. Sending
    BY ConstantFacts DEF Init, Sending
  <2> QED BY <2>1, <2>2, <2>3
<1>2. TypeOK /\ TypeOK' /\ OnlyArrived /\ Chain /\ Phases /\ Lines /\ Sending /\ [Next]_vars
        => Phases' /\ Lines' /\ Sending'
  BY PhasesStep, LineStep, SendingStep
<1> QED BY <1>1, <1>2, ChainInvariant, PTL DEF Spec

\* Each connection carries its frames oldest first, whatever was diverted, replayed,
\* flushed in the meantime, cut off, killed or powered off.
THEOREM EveryConnectionInOrder == Spec => []InOrderPerConnection
<1>1. TypeOK /\ Lines => InOrderPerConnection
  <2> SUFFICES ASSUME TypeOK, Lines, NEW c \in Conns
               PROVE  Increasing(<<last[c]>> \o net[c])
    BY DEF InOrderPerConnection
  <2> DEFINE s == <<last[c]>> \o net[c]
  <2>1. /\ net[c] \in Seq(Nat) /\ last[c] \in Nat /\ <<last[c]>> \in Seq(Nat)
        /\ Increasing(net[c]) /\ Older({last[c]}, Range(net[c]))
    BY ConstantFacts DEF TypeOK, NetOK, Frame, Lines, Line
  <2>2. /\ Len(net[c]) \in Nat /\ DOMAIN net[c] = 1..Len(net[c])
        /\ DOMAIN s = 1..(1 + Len(net[c])) /\ s[1] = last[c]
        /\ \A i \in 1..Len(net[c]) : s[1 + i] = net[c][i]
    BY <2>1, ConcatProperties
  <2>3. \A i \in DOMAIN s : i # 1 => i - 1 \in DOMAIN net[c] /\ s[i] = net[c][i - 1]
    <3> SUFFICES ASSUME NEW i \in DOMAIN s, i # 1
                 PROVE  i - 1 \in DOMAIN net[c] /\ s[i] = net[c][i - 1]
      OBVIOUS
    <3>1. i - 1 \in 1..Len(net[c]) /\ i = 1 + (i - 1)
      BY <2>2
    <3> QED BY <2>2, <3>1
  <2> HIDE DEF s
  <2>4. ASSUME NEW i \in DOMAIN s, NEW j \in DOMAIN s, i < j PROVE s[i] < s[j]
    <3>1. j # 1 /\ j - 1 \in DOMAIN net[c] /\ s[j] = net[c][j - 1] /\ i \in Nat /\ j \in Nat
      BY <2>2, <2>3, <2>4
    <3>2. CASE i = 1
      BY <2>1, <2>2, <3>1, <3>2 DEF Older, Range
    <3>3. CASE i # 1
      <4>1. i - 1 < j - 1
        BY <2>4, <3>1
      <4> QED BY <2>1, <2>3, <3>1, <3>3, <4>1 DEF Increasing
    <3> QED BY <3>2, <3>3
  <2> QED BY <2>4 DEF s, Increasing
<1> QED BY <1>1, OrderInvariant, PTL

(***************************************************************************)
(* Copies.  What the server has read of a frame and what is in flight of   *)
(* it, over all connections, is counted together: a frame the loop has     *)
(* still to send has no copy, one that is in no row has at most one, and a *)
(* row gives a second one only when it is replayed.                        *)
(***************************************************************************)

InNet(f) == {c \in Conns : f \in Range(net[c])}

Zero(f) == got[f] = 0 /\ InNet(f) = {}
Once(f) ==
  /\ got[f] <= 1
  /\ got[f] = 1 => InNet(f) = {}
  /\ \A c, d \in InNet(f) : c = d
Twice(f) ==
  /\ got[f] <= 2
  /\ got[f] = 2 => InNet(f) = {}
  /\ got[f] = 1 => \A c, d \in InNet(f) : c = d
  /\ \A c, d, e \in InNet(f) : c = d \/ c = e \/ d = e

NoNewCopy(f) == (Zero(f) => Zero(f)') /\ (Once(f) => Once(f)') /\ (Twice(f) => Twice(f)')

LEMMA MoreCopies ==
  ASSUME NetOK, NEW f \in Frame
  PROVE  (Zero(f) => Once(f)) /\ (Once(f) => Twice(f))
<1>1. got[f] \in Nat
  BY ConstantFacts DEF NetOK
<1> QED BY <1>1 DEF Zero, Once, Twice

LEMMA FewerInNet ==
  ASSUME NEW f \in Frame, got'[f] = got[f], InNet(f)' \subseteq InNet(f)
  PROVE  NoNewCopy(f)
BY DEF NoNewCopy, Zero, Once, Twice

\* Reading a frame moves a copy from the network to the server.
LEMMA ReadingMoves ==
  ASSUME NetOK, Lines, NEW c \in Conns, Deliver(c), NEW f \in Frame
  PROVE  NoNewCopy(f)
<1>0. /\ got \in [Frame -> 0..MaxCopies] /\ MaxCopies \in Nat \ {0}
      /\ Head(net[c]) \in Frame /\ Range(net[c]) = {Head(net[c])} \cup Range(net'[c])
      /\ Older({Head(net[c])}, Range(net'[c]))
      /\ \A d \in Conns : d # c => net'[d] = net[d]
  BY ServerReads, ConstantFacts DEF NetOK
<1>1. CASE f # Head(net[c])
  <2>1. got'[f] = got[f]
    BY <1>0, <1>1 DEF Deliver
  <2>2. \A d \in Conns : f \in Range(net'[d]) => f \in Range(net[d])
    BY <1>0, <1>1
  <2>3. InNet(f)' \subseteq InNet(f)
    BY <2>2 DEF InNet
  <2> QED BY <2>1, <2>3, FewerInNet
<1>2. CASE f = Head(net[c])
  <2>1. c \in InNet(f) /\ c \notin InNet(f)' /\ InNet(f)' \subseteq InNet(f)
    <3>1. f \in Range(net[c]) /\ f \notin Range(net'[c])
      BY <1>0, <1>2, FrameIsNat DEF Older
    <3>2. \A d \in Conns : f \in Range(net'[d]) => f \in Range(net[d])
      BY <1>0, <3>1
    <3> QED BY <3>1, <3>2 DEF InNet
  <2>2. got[f] \in Nat /\ got'[f] \in Nat /\ got'[f] <= got[f] + 1
    BY <1>0, <1>2 DEF Deliver, Least
  <2>3. ~Zero(f)
    BY <2>1 DEF Zero
  <2>4. Once(f) => Once(f)'
    BY <2>1, <2>2 DEF Once
  <2>5. Twice(f) => Twice(f)'
    <3> SUFFICES ASSUME Twice(f) PROVE Twice(f)'
      OBVIOUS
    <3>1. got[f] \in {0, 1}
      BY <2>1, <2>2 DEF Twice
    <3>2. CASE got[f] = 1
      <4>1. InNet(f)' = {} /\ got'[f] <= 2
        BY <2>1, <2>2, <3>2 DEF Twice
      <4> QED BY <4>1 DEF Twice
    <3>3. CASE got[f] = 0
      <4>1. (\A d, e \in InNet(f)' : d = e) /\ got'[f] \in {0, 1}
        BY <2>1, <2>2, <3>3 DEF Twice
      <4> QED BY <4>1 DEF Twice
    <3> QED BY <3>1, <3>2, <3>3
  <2> QED BY <2>3, <2>4, <2>5 DEF NoNewCopy
<1> QED BY <1>1, <1>2

\* Handing a frame to the kernel adds at most one copy of it, and none of another.
LEMMA SendingAdds ==
  ASSUME NetOK, NEW f \in Frame, KernelAccepts(f), conn \in Conns, UNCHANGED got
  PROVE  /\ \A g \in Frame : g # f => NoNewCopy(g)
         /\ Zero(f) => Once(f)'
         /\ Once(f) => Twice(f)'
<1>1. /\ \A c \in Conns : c # conn => net'[c] = net[c]
      /\ Range(net'[conn]) \subseteq Range(net[conn]) \cup {f}
  BY KernelTakes
<1>2. ASSUME NEW g \in Frame, g # f PROVE NoNewCopy(g)
  <2>1. \A c \in Conns : g \in Range(net'[c]) => g \in Range(net[c])
    BY <1>1, <1>2
  <2>2. InNet(g)' \subseteq InNet(g)
    BY <2>1 DEF InNet
  <2> QED BY <2>2, FewerInNet
<1>3. InNet(f)' \subseteq InNet(f) \cup {conn}
  BY <1>1 DEF InNet
<1>4. Zero(f) => Once(f)'
  BY <1>3 DEF Zero, Once
<1>5. Once(f) => Twice(f)'
  <2>1. got[f] \in Nat
    BY ConstantFacts DEF NetOK
  <2> QED BY <1>3, <2>1 DEF Once, Twice
<1> QED BY <1>2, <1>4, <1>5

\* All other steps leave the network and the server as they are.
LEMMA CopySteps ==
  ASSUME TypeOK, OnlyArrived, Chain, Phases, Lines, Sending, [Next]_vars, NEW f \in Frame
  PROVE  NoNewCopy(f) \/ Hands(f)
<1>0. NetOK
  BY DEF TypeOK
<1>1. CASE UNCHANGED <<got, net>>
  BY <1>1, FewerInNet DEF InNet
<1>2. ASSUME NEW c \in Conns, Deliver(c) PROVE NoNewCopy(f)
  BY <1>0, <1>2, ReadingMoves
<1>3. ASSUME NEW c \in Conns, LoseInFlight(c) PROVE NoNewCopy(f)
  <2>1. got' = got /\ \A d \in Conns : net'[d] = net[d] \/ net'[d] = <<>>
    BY <1>0, <1>3 DEF LoseInFlight, NetOK
  <2>2. \A d \in Conns : f \in Range(net'[d]) => f \in Range(net[d])
    BY <2>1, EmptyRange
  <2> QED BY <2>1, <2>2, FewerInNet DEF InNet
<1>4. ASSUME NEW g, Hands(g), g # f PROVE NoNewCopy(f)
  <2>1. g \in Frame /\ KernelAccepts(g) /\ conn \in Conns /\ UNCHANGED got
    BY <1>4, HandsFacts
  <2> QED BY <1>0, <1>4, <2>1, SendingAdds
<1>5. \/ UNCHANGED <<got, net>>
      \/ \E c \in Conns : Deliver(c) \/ LoseInFlight(c)
      \/ \E g : Hands(g)
  BY DEF Next, Network, MainLoop, Environment, Writer, WriterRecv, WriterTick, BusFrame, Break,
         Close, Shutdown, Exit, Crash, ReturnFromMain, PowerLoss, Die, Checkpoint, Restart,
         Connect, Select, ReplayFails, Mark, Collect, SendFails, BackUp, Reconnect,
         Hands, vars, netVars
<1> QED BY <1>1, <1>2, <1>3, <1>4, <1>5

\* What has not been sent: the rest of the batch, the pipeline, what is yet to arrive.
Coming == Unsent \cup Range(rx) \cup {f \in Frame : f > arrived}
ComingIsNew == \A f \in Coming : Zero(f)

LEMMA ComingCases ==
  /\ \A f : f \in Coming <=> f \in Unsent \/ f \in Range(rx) \/ (f \in Frame /\ f > arrived)
  /\ \A f : f \in Coming' <=> f \in Unsent' \/ f \in Range(rx') \/ (f \in Frame /\ f > arrived')
BY DEF Coming

LEMMA ComingShrinks ==
  ASSUME TypeOK, OnlyArrived, Chain, Phases, Sending, [Next]_vars
  PROVE  /\ Coming' \subseteq Coming /\ Coming \subseteq Frame
         /\ \A f : Hands(f) => f \notin Coming'
<1>0. /\ rx \in Seq(Frame) /\ arrived \in Nat /\ arrived' \in Nat /\ arrived <= arrived'
      /\ batch \in Seq(Frame)
  <2>1. arrived \in Nat /\ rx \in Seq(Frame) /\ batch \in Seq(Frame)
    BY ConstantFacts DEF TypeOK, PipelineOK, LoopOK
  <2>2. CASE PowerLoss
    BY <2>1, <2>2 DEF PowerLoss, Die
  <2>3. CASE ~PowerLoss
    BY <2>1, <2>3, KnownStep
  <2> QED BY <2>1, <2>2, <2>3
<1>1. Coming \subseteq Frame
  BY AheadAreFrames DEF AheadOK, Ahead, Coming
<1>2. ASSUME NEW f, Hands(f) PROVE f \notin Coming' /\ Coming' \subseteq Coming
  <2>1. /\ f \in 1..arrived /\ arrived' = arrived /\ rx' = rx
        /\ \A g \in Unsent' \cup Range(rx') : f < g
    BY <1>2, HandsFacts DEF Older, Ahead
  <2>2. Unsent' \subseteq Unsent
    <3>1. CASE Send
      BY <3>1, ConstantFacts DEF Send, Unsent, TypeOK, LoopOK
    <3>2. ASSUME NEW id \in todo, Replay(id) PROVE Unsent' = {}
      BY <3>2 DEF Replay, Unsent
    <3> QED BY <1>2, <3>1, <3>2 DEF Hands
  <2> QED BY <1>0, <2>1, <2>2 DEF Coming
<1>3. ASSUME BusFrame PROVE Coming' \subseteq Coming
  <2>1. /\ arrived' = arrived + 1 /\ arrived + 1 \in Frame
        /\ UNCHANGED <<pc, batch, pos>>
        /\ rx' = rx \/ rx' = Append(rx, arrived + 1)
    BY <1>0, <1>3, ConstantFacts DEF BusFrame, loopVars, Frame
  <2>2. Range(rx') \subseteq Range(rx) \cup {arrived + 1}
    <3>1. Range(Append(rx, arrived + 1)) = Range(rx) \cup {arrived + 1}
      BY <1>0, <2>1, RangeAppend
    <3> QED BY <2>1, <3>1
  <2>3. Unsent' = Unsent
    BY <2>1 DEF Unsent
  <2>4. arrived + 1 > arrived /\ \A f \in Frame : f > arrived + 1 => f > arrived
    BY <1>0, FrameIsNat
  <2> QED BY <2>1, <2>2, <2>3, <2>4, ComingCases
<1>4. ASSUME Collect PROVE Coming' \subseteq Coming
  <2> DEFINE n == Least(BatchSize, Len(rx))
  <2>1. /\ batch' = SubSeq(rx, 1, n) /\ rx' = SubSeq(rx, n + 1, Len(rx)) /\ pos' = 1
        /\ pc' = "send" /\ arrived' = arrived
    BY <1>4 DEF Collect, RestAfter
  <2>2. n \in 0..Len(rx)
    <3>1. Len(rx) \in Nat BY <1>0
    <3> QED BY <3>1, ConstantFacts DEF Least
  <2> HIDE DEF n
  <2>3. Range(rx) = Range(batch') \cup Range(rx') /\ batch' \in Seq(Frame)
    BY <1>0, <2>1, <2>2, RangeSplit
  <2>4. Unsent' \subseteq Range(batch')
    <3>1. \A i \in 1..Len(batch') : batch'[i] \in Range(batch')
      BY <2>3 DEF Range
    <3> QED BY <2>1, <3>1 DEF Unsent
  <2> QED BY <2>1, <2>3, <2>4, ComingCases
<1>5. ASSUME UNCHANGED <<pc, batch, pos, rx, arrived>> PROVE Coming' \subseteq Coming
  <2>1. Unsent' = Unsent
    BY <1>5 DEF Unsent
  <2> QED BY <1>5, <2>1, ComingCases
<1>6. ASSUME arrived' = arrived, pc' # "send", rx' = rx \/ rx' = <<>>
      PROVE  Coming' \subseteq Coming
  <2>1. Unsent' = {} /\ Range(rx') \subseteq Range(rx)
    BY <1>6, EmptyRange DEF Unsent
  <2> QED BY <1>6, <2>1, ComingCases
<1>7. \/ UNCHANGED <<pc, batch, pos, rx, arrived>>
      \/ arrived' = arrived /\ pc' # "send" /\ (rx' = rx \/ rx' = <<>>)
      \/ BusFrame \/ Collect \/ \E f : Hands(f)
  <2>1. ASSUME Network \/ Writer \/ Shutdown \/ Checkpoint \/ UNCHANGED vars
        PROVE  UNCHANGED <<pc, batch, pos, rx, arrived>>
    BY <2>1 DEF Network, Writer, WriterRecv, WriterTick, Break, Deliver, LoseInFlight, Close,
                Shutdown, Checkpoint, vars, loopVars
  <2>2. ASSUME \/ Exit \/ Crash \/ ReturnFromMain \/ PowerLoss \/ Restart \/ Select
               \/ ReplayFails \/ Mark \/ SendFails \/ BackUp \/ Reconnect
               \/ \E c \in Conns : Connect(c)
        PROVE  arrived' = arrived /\ pc' # "send" /\ (rx' = rx \/ rx' = <<>>)
    BY <2>2 DEF Exit, Crash, ReturnFromMain, PowerLoss, Die, Restart, Connect, Select,
                ReplayFails, Mark, SendFails, AfterFailedSend, BackUp, Reconnect
  <2> QED BY <2>1, <2>2 DEF Next, MainLoop, Environment, Hands
<1> QED BY <1>1, <1>2, <1>3, <1>4, <1>5, <1>6, <1>7

LEMMA ComingStep ==
  ASSUME TypeOK, OnlyArrived, Chain, Phases, Lines, Sending, ComingIsNew, [Next]_vars
  PROVE  ComingIsNew'
<1> SUFFICES ASSUME NEW f \in Coming' PROVE Zero(f)'
  BY DEF ComingIsNew
<1>1. f \in Frame /\ Zero(f) /\ ~Hands(f)
  BY ComingShrinks DEF ComingIsNew
<1> QED BY <1>1, CopySteps DEF NoNewCopy

(***************************************************************************)
(* A frame in no row                                                       *)
(***************************************************************************)

\* The frames that have, or had before a loss of power, a row.
Stored == Range(rows) \cup gone["power"]
StoredOnce == \A f \in Frame : f \notin Stored => Once(f)

LEMMA StoredGrows == TypeOK /\ [Next]_vars => Stored \subseteq Stored'
<1> SUFFICES ASSUME TypeOK, [Next]_vars PROVE Stored \subseteq Stored'
  OBVIOUS
<1>0. /\ rows \in Seq(Frame) /\ pending \in Seq(Frame) /\ sqlite \in Seq(Frame) /\ GoneOK
      /\ gone["power"] \subseteq gone'["power"]
  BY GoneGrows DEF TypeOK, TableOK, WriterOK, Cause
<1>1. CASE PowerLoss
  BY <1>0, <1>1 DEF PowerLoss, GoneOK, Cause, Stored
<1>2. ASSUME NEW s \in Seq(Frame), rows' = rows \o s PROVE Stored \subseteq Stored'
  <2>1. Range(rows') = Range(rows) \cup Range(s)
    BY <1>0, <1>2, RangeConcat
  <2> QED BY <1>0, <2>1 DEF Stored
<1>3. CASE UNCHANGED rows
  BY <1>0, <1>3 DEF Stored
<1>4. CASE ReturnFromMain
  <2>1. pending \o sqlite \in Seq(Frame) /\ rows \o pending \o sqlite = rows \o (pending \o sqlite)
    BY <1>0
  <2> QED BY <1>2, <1>3, <1>4, <2>1 DEF ReturnFromMain
<1>5. CASE Writer
  <2>1. ASSUME NEW s \in Seq(Frame), Flush(s) PROVE Stored \subseteq Stored'
    BY <1>2, <1>3, <2>1 DEF Flush
  <2>2. CASE WriterTick
    BY <1>0, <2>1, <2>2 DEF WriterTick
  <2>3. CASE WriterRecv
    <3>1. Append(pending, Head(sqlite)) \in Seq(Frame)
      BY <1>0, <2>3 DEF WriterRecv
    <3> QED BY <1>3, <2>1, <2>3, <3>1 DEF WriterRecv
  <2> QED BY <1>5, <2>2, <2>3 DEF Writer
<1>6. \/ UNCHANGED rows \/ ReturnFromMain \/ Writer \/ PowerLoss
  BY DEF Next, Network, MainLoop, Environment, BusFrame, Break, Deliver, LoseInFlight, Close,
         Shutdown, Exit, Crash, Checkpoint, Restart, Connect, Select, Replay,
         ReplayFails, Mark, Collect, Send, SendFails, BackUp, Reconnect,
         vars, loopVars, dbVars, netVars
<1> QED BY <1>1, <1>3, <1>4, <1>5, <1>6

\* What the loop sends is new or comes from a row.
LEMMA SentOnce ==
  ASSUME TypeOK, OnlyArrived, Chain, Phases, Lines, Sending, ComingIsNew, NEW f, Hands(f)
  PROVE  \/ Zero(f) /\ Once(f)'
         \/ \E id \in todo : Replay(id) /\ f = rows[id] /\ f \in Range(rows)
<1>1. f \in Frame /\ conn \in Conns /\ KernelAccepts(f) /\ UNCHANGED got
  BY HandsFacts
<1>2. CASE Send /\ f = batch[pos]
  <2>1. pos \in pos..Len(batch) /\ pc = "send"
    BY <1>2 DEF Send, TypeOK, LoopOK
  <2>2. Zero(f)
    BY <1>2, <2>1 DEF Unsent, Coming, ComingIsNew
  <2> QED BY <1>1, <2>2, SendingAdds DEF TypeOK
<1>3. ASSUME NEW id \in todo, Replay(id), f = rows[id] PROVE f \in Range(rows)
  BY <1>3 DEF TypeOK, TableOK, Range
<1> QED BY <1>2, <1>3 DEF Hands

LEMMA StoredOnceStep ==
  ASSUME TypeOK, OnlyArrived, Chain, Phases, Lines, Sending, ComingIsNew, StoredOnce,
         [Next]_vars
  PROVE  StoredOnce'
<1> SUFFICES ASSUME NEW f \in Frame, f \notin Stored' PROVE Once(f)'
  BY DEF StoredOnce
<1>1. f \notin Stored /\ Once(f)
  BY StoredGrows DEF StoredOnce
<1>2. CASE Hands(f)
  BY <1>1, <1>2, SentOnce DEF Stored
<1>3. CASE ~Hands(f)
  BY <1>1, <1>3, CopySteps DEF NoNewCopy
<1> QED BY <1>2, <1>3

CopyInv ==
  /\ TypeOK /\ OnlyArrived /\ Chain /\ Phases /\ Lines /\ Sending
  /\ ComingIsNew /\ StoredOnce

LEMMA CopyInvariant == Spec => []CopyInv
<1>1. Init => ComingIsNew /\ StoredOnce
  <2> SUFFICES ASSUME Init PROVE ComingIsNew /\ StoredOnce
    OBVIOUS
  <2>1. \A f \in Frame : Zero(f) /\ Once(f)
    BY EmptyRange DEF Init, Zero, Once, InNet
  <2>2. Coming \subseteq Frame
    BY InitType, AheadAreFrames DEF AheadOK, Ahead, Coming
  <2> QED BY <2>1, <2>2 DEF ComingIsNew, StoredOnce
<1>2. CopyInv /\ [Next]_vars => ComingIsNew' /\ StoredOnce'
  BY ComingStep, StoredOnceStep DEF CopyInv
<1> QED BY <1>1, <1>2, OrderInvariant, PTL DEF CopyInv, Spec

\* The backup is a faithful record whatever fails: its rows are in the order of arrival,
\* each frame once, and the server sees a frame again only because of its row.
THEOREM TheBackupIsFaithful == Spec => []BackupIsFaithful
<1>1. CopyInv => BackupIsOrdered
  BY DEF CopyInv, Chain, Stages, BackupIsOrdered
<1>2. ASSUME CopyInv PROVE CopiesComeFromBackup
  <2> SUFFICES ASSUME NEW f \in Frame, got[f] > 1 PROVE f \in Stored
    BY DEF CopiesComeFromBackup, Stored
  <2>1. ~(got[f] <= 1)
    BY <1>2, ConstantFacts DEF CopyInv, TypeOK, NetOK
  <2> QED BY <1>2, <2>1 DEF CopyInv, StoredOnce, Once
<1>3. CopyInv => BackupIsFaithful
  BY <1>1, <1>2 DEF BackupIsFaithful
<1> QED BY <1>3, CopyInvariant, PTL

(***************************************************************************)
(* A frame in a row, if the process only ends after a signal: the row is   *)
(* replayed once, and marked before the loop goes on to live frames.       *)
(***************************************************************************)

Replayed == {rows[i] : i \in synced \cup syncedIds}
ReplayedTwice == \A f \in Frame : Twice(f) /\ (f \notin Replayed => Once(f))

LEMMA ReplayedGrows ==
  ASSUME Faults \subseteq {"shutdown"}, TypeOK, Phases, [Next]_vars
  PROVE  Replayed \subseteq Replayed'
<1>0. ~PowerLoss /\ ~Crash /\ synced \cup syncedIds \subseteq DOMAIN rows
  BY DEF PowerLoss, Crash, TypeOK, TableOK
<1>1. \A i \in synced \cup syncedIds : rows'[i] = rows[i]
  BY <1>0, RowsKept
<1>2. synced \cup syncedIds \subseteq synced' \cup syncedIds'
  <2>1. CASE Mark
    BY <2>1 DEF Mark, IdsToMark
  <2>2. CASE Exit \/ ReturnFromMain
    BY <2>2 DEF Exit, ReturnFromMain, dbVars, Phases
  <2>3. ASSUME NEW id \in todo, Replay(id)
        PROVE  synced \cup syncedIds \subseteq synced' \cup syncedIds'
    BY <2>3 DEF Replay, dbVars
  <2>4. CASE UNCHANGED <<synced, syncedIds>>
    BY <2>4
  <2>5. \/ UNCHANGED <<synced, syncedIds>> \/ Mark \/ (Exit \/ ReturnFromMain)
        \/ \E id \in todo : Replay(id)
    BY <1>0 DEF Next, Network, MainLoop, Environment, Writer, WriterRecv, WriterTick, BusFrame,
         Break, Deliver, LoseInFlight, Close, Shutdown, Checkpoint, Restart, Connect, Select,
         ReplayFails, Collect, Send, SendFails, BackUp, Reconnect, vars, loopVars, dbVars
  <2> QED BY <2>1, <2>2, <2>3, <2>4, <2>5
<1> QED BY <1>1, <1>2 DEF Replayed

LEMMA ReplayedTwiceStep ==
  ASSUME Faults \subseteq {"shutdown"}, CopyInv, ReplayedTwice, [Next]_vars
  PROVE  ReplayedTwice'
<1> SUFFICES ASSUME NEW f \in Frame PROVE Twice(f)' /\ (f \notin Replayed' => Once(f)')
  BY DEF ReplayedTwice
<1>0. TypeOK' /\ NetOK' /\ NetOK
  BY NextType DEF CopyInv, TypeOK
<1>1. Once(f)' => Twice(f)'
  BY <1>0, ConstantFacts DEF NetOK, Once, Twice
<1>2. Replayed \subseteq Replayed'
  BY ReplayedGrows DEF CopyInv
<1>3. CASE ~Hands(f)
  BY <1>2, <1>3, CopySteps DEF CopyInv, ReplayedTwice, NoNewCopy
<1>4. ASSUME NEW id \in todo, Replay(id), f = rows[id]
      PROVE  Twice(f)' /\ f \in Replayed'
  <2>1. id \notin synced \cup syncedIds
    BY <1>4 DEF CopyInv, Phases
  <2>2. \A i \in synced \cup syncedIds : rows[i] # f
    <3>1. /\ rows \in Seq(Frame) /\ Increasing(rows) /\ id \in DOMAIN rows
          /\ synced \cup syncedIds \subseteq DOMAIN rows
      BY <1>4 DEF CopyInv, TypeOK, TableOK, Chain, Stages
    <3>2. ASSUME NEW i \in synced \cup syncedIds PROVE rows[i] # rows[id]
      <4>1. i < id \/ id < i
        BY <2>1, <3>1
      <4>2. rows[i] \in Nat /\ rows[id] \in Nat
        <5>1. rows[i] \in Frame /\ rows[id] \in Frame
          BY <3>1
        <5> QED BY <5>1, FrameIsNat
      <4> QED BY <3>1, <4>1, <4>2 DEF Increasing
    <3> QED BY <1>4, <3>2
  <2>3. Once(f)
    BY <2>2 DEF ReplayedTwice, Replayed
  <2>4. conn \in Conns /\ KernelAccepts(f) /\ UNCHANGED got
    BY <1>4 DEF Replay, CopyInv, TypeOK, LoopOK
  <2>5. Twice(f)'
    BY <1>0, <2>3, <2>4, SendingAdds
  <2>6. syncedIds' = syncedIds \cup {id} /\ rows' = rows
    BY <1>4 DEF Replay, dbVars
  <2> QED BY <1>4, <2>5, <2>6 DEF Replayed
<1>5. CASE Hands(f)
  <2>1. Once(f)' \/ \E id \in todo : Replay(id) /\ f = rows[id]
    BY <1>5, SentOnce DEF CopyInv
  <2> QED BY <1>1, <1>4, <2>1
<1> QED BY <1>3, <1>5

\* As long as the process only ends after a signal, the server reads each connection
\* oldest first and no frame a third time, however often connections break.
THEOREM FramesInOrderAndTwiceAtMost ==
  ASSUME Faults \subseteq {"shutdown"}
  PROVE  Spec => []DeliveredInOrder
<1>1. Init => ReplayedTwice
  <2> SUFFICES ASSUME Init, NEW f \in Frame PROVE Twice(f) /\ Once(f)
    BY DEF ReplayedTwice
  <2>1. got[f] = 0 /\ InNet(f) = {}
    BY EmptyRange DEF Init, InNet
  <2> QED BY <2>1 DEF Twice, Once
<1>2. CopyInv /\ ReplayedTwice /\ [Next]_vars => ReplayedTwice'
  BY ReplayedTwiceStep
<1>3. ReplayedTwice => AtMostTwoCopies
  BY DEF ReplayedTwice, Twice, AtMostTwoCopies
<1> QED BY <1>1, <1>2, <1>3, CopyInvariant, EveryConnectionInOrder, PTL
        DEF Spec, DeliveredInOrder

===============================================================================
