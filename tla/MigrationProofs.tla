---------------------------- MODULE MigrationProofs ---------------------------
(***************************************************************************)
(* Proofs about Migration for every finite set of rows, their timestamps,  *)
(* the LIMIT, the migrations that overlap and the faults.                  *)
(***************************************************************************)
EXTENDS Migration, FiniteSetTheorems, WellFoundedInduction, TLAPS

LEMMA ConstantFacts ==
  /\ IsFiniteSet(Rows) /\ Limit \in Nat \ {0} /\ MaxTime \in Nat
  /\ \A r \in Rows : Ts[r] \in Nat \ {0}
BY ConstantsAssumption

(***************************************************************************)
(* Batches                                                                 *)
(***************************************************************************)

LEMMA LeastNatural ==
  ASSUME NEW T \in SUBSET Nat, T # {}
  PROVE  \E x \in T : \A y \in T : x <= y
<1> DEFINE R == OpToRel(<, Nat)
<1>1. IsWellFoundedOn(R, Nat)
  BY NatLessThanWellFounded
<1>2. \A x, y \in Nat : x < y => <<x, y>> \in R
  BY DEF OpToRel
<1> HIDE DEF R
<1>3. PICK x \in T : \A y \in T : <<y, x>> \notin R
  BY <1>1, WFMin
<1>4. ASSUME NEW y \in T PROVE x <= y
  <2>1. x \in Nat /\ y \in Nat
    OBVIOUS
  <2>2. ~(y < x)
    BY <1>2, <1>3, <2>1
  <2> QED BY <2>1, <2>2
<1> QED BY <1>4

\* What ORDER BY puts last: rows that are not in the future have a newest one.
LEMMA LatestIsLatest ==
  ASSUME NEW rows \in SUBSET Rows, rows # {}, NEW bound \in Nat, \A r \in rows : Ts[r] <= bound
  PROVE  /\ \E r \in rows : Ts[r] = LatestTs(rows)
         /\ \A q \in rows : Ts[q] <= LatestTs(rows)
<1> DEFINE T == {bound - Ts[r] : r \in rows}
<1>1. \A r \in rows : Ts[r] \in Nat /\ bound - Ts[r] \in Nat
  BY ConstantFacts
<1>2. T \in SUBSET Nat /\ T # {}
  BY <1>1
<1>3. PICK x \in T : \A y \in T : x <= y
  BY <1>2, LeastNatural
<1>4. PICK newest \in rows : x = bound - Ts[newest]
  BY <1>3
<1>5. ASSUME NEW q \in rows PROVE Ts[q] <= Ts[newest]
  <2>1. bound - Ts[newest] <= bound - Ts[q]
    BY <1>3, <1>4
  <2> QED BY <1>1, <2>1
<1>6. \E r \in rows : \A q \in rows : ~Older(r, q)
  BY <1>1, <1>5 DEF Older
<1> QED BY <1>1, <1>6 DEF LatestTs, Older

\* The LIMIT is positive: a SELECT that finds something fetches something.
LEMMA BatchHasRows ==
  ASSUME NEW from \in SUBSET Rows, from # {}, NEW rows, IsBatch(rows, from)
  PROVE  rows # {} /\ rows \subseteq from
<1>1. IsFiniteSet(from) /\ Cardinality(from) \in Nat /\ Cardinality(from) # 0
  BY ConstantFacts, FS_Subset, FS_CardinalityType, FS_EmptySet
<1> QED BY <1>1, ConstantFacts, FS_EmptySet DEF IsBatch

\* What a SELECT leaves behind at or before the last row of its batch are the rows the
\* LIMIT has cut off from that instant.
LEMMA BatchIsPrefix ==
  ASSUME NEW from \in SUBSET Rows, NEW bound \in Nat, \A r \in from : Ts[r] <= bound,
         from # {}, NEW rows, IsBatch(rows, from),
         NEW r \in from \ rows, Ts[r] <= LatestTs(rows)
  PROVE  Ts[r] = LatestTs(rows)
<1>1. rows # {} /\ rows \subseteq from
  BY BatchHasRows
<1>2. PICK newest \in rows : Ts[newest] = LatestTs(rows)
  BY <1>1, LatestIsLatest
<1>3. ~Older(r, newest)
  BY <1>1 DEF IsBatch, OldestFirst
<1> QED BY <1>1, <1>2, <1>3, ConstantFacts DEF Older

(***************************************************************************)
(* The inductive invariant                                                 *)
(***************************************************************************)

Excepted == cut \cup tardy

\* An idle migration has no cursor; none has one in the future; one with a batch has
\* fetched it from the range it is going to delete, and copied it before it does.
RunInv(t) ==
  /\ pc[t] = "idle" => cursor[t] = 0
  /\ pc[t] \in {"idle", "select"} => batch[t] = {}
  /\ cursor[t] <= horizon
  /\ batch[t] \subseteq ingested
  /\ \A r \in batch[t] : Ts[r] > prev[t]
  /\ pc[t] = "delete" => batch[t] \subseteq hist

\* What is left at or before the cursor is in the batch or an exception.
Passed(t) == \A r \in pg : Ts[r] <= cursor[t] => r \in batch[t] \cup Excepted

IInv ==
  /\ TypeOK /\ NoRowLost
  /\ \A t \in Runs : RunInv(t) /\ Passed(t)

LEMMA InvInit == Init => IInv
<1> SUFFICES ASSUME Init PROVE IInv
  OBVIOUS
<1>1. TypeOK
  BY ConstantFacts DEF Init, TypeOK
<1>2. NoRowLost
  BY DEF Init, NoRowLost
<1>3. \A t \in Runs : RunInv(t) /\ Passed(t)
  BY DEF Init, RunInv, Passed
<1> QED BY <1>1, <1>2, <1>3 DEF IInv

\* The steps that leave the migrations alone.
LEMMA AgeKeeps == IInv /\ Age => IInv'
<1> SUFFICES ASSUME IInv, Age PROVE IInv'
  OBVIOUS
<1>1. /\ horizon' = horizon + 1 /\ horizon < MaxTime
      /\ UNCHANGED <<ingested, pg, hist, pc, cursor, prev, batch, cut, tardy>>
  BY DEF Age, run
<1>2. TypeOK'
  BY <1>1, ConstantFacts DEF IInv, TypeOK
<1>3. NoRowLost'
  BY <1>1 DEF IInv, NoRowLost
<1>4. ASSUME NEW t \in Runs PROVE RunInv(t)' /\ Passed(t)'
  <2>1. cursor[t] \in Nat /\ horizon \in Nat
    BY ConstantFacts DEF IInv, TypeOK
  <2> QED BY <1>1, <2>1 DEF IInv, RunInv, Passed, Excepted
<1> QED BY <1>2, <1>3, <1>4 DEF IInv

LEMMA IngestKeeps ==
  ASSUME NEW r \in Rows
  PROVE  IInv /\ Ingest(r) => IInv'
<1> SUFFICES ASSUME IInv, Ingest(r) PROVE IInv'
  OBVIOUS
<1>1. /\ ingested' = ingested \cup {r} /\ pg' = pg \cup {r}
      /\ hist' = hist \cup {r} \/ hist' = hist
      /\ tardy' = IF Ts[r] <= horizon THEN tardy \cup {r} ELSE tardy
      /\ UNCHANGED <<horizon, pc, cursor, prev, batch, cut>>
  BY DEF Ingest, run
<1>2. TypeOK'
  BY <1>1 DEF IInv, TypeOK
<1>3. NoRowLost'
  BY <1>1 DEF IInv, NoRowLost
<1>4. ASSUME NEW t \in Runs PROVE RunInv(t)' /\ Passed(t)'
  <2>1. cursor[t] \in Nat /\ horizon \in Nat /\ cursor[t] <= horizon /\ Ts[r] \in Nat
    BY ConstantFacts DEF IInv, TypeOK, RunInv
  <2>2. RunInv(t)'
    BY <1>1 DEF IInv, RunInv
  <2>3. Ts[r] <= cursor[t] => r \in tardy'
    BY <1>1, <2>1
  <2>4. Passed(t)'
    BY <1>1, <2>3 DEF IInv, Passed, Excepted
  <2> QED BY <2>2, <2>4
<1> QED BY <1>2, <1>3, <1>4 DEF IInv

\* A migration is not disturbed by what another one moves, nor by its end.
LEMMA OthersKeep ==
  ASSUME NEW t \in Runs, RunInv(t), Passed(t),
         UNCHANGED <<horizon, ingested>>,
         pg' \subseteq pg, hist \subseteq hist', cut \subseteq cut', tardy' = tardy,
         UNCHANGED <<pc[t], cursor[t], prev[t], batch[t]>>
  PROVE  RunInv(t)' /\ Passed(t)'
<1>1. RunInv(t)'
  BY DEF RunInv
<1>2. Passed(t)'
  BY DEF Passed, Excepted
<1> QED BY <1>1, <1>2

LEMMA StoppedKeeps ==
  ASSUME IInv, NEW t \in Runs, UNCHANGED <<horizon, ingested, pg, cut, tardy>>,
         pc'[t] \in {"idle", "select"}, cursor'[t] = 0, batch'[t] = {}
  PROVE  RunInv(t)' /\ Passed(t)'
<1>1. horizon \in Nat /\ pg \subseteq Rows
  BY ConstantFacts DEF IInv, TypeOK
<1>2. RunInv(t)'
  BY <1>1 DEF RunInv
<1>3. \A r \in pg : ~(Ts[r] <= 0)
  BY <1>1, ConstantFacts
<1>4. Passed(t)'
  BY <1>3 DEF Passed
<1> QED BY <1>2, <1>4

LEMMA BeginKeeps ==
  ASSUME NEW t \in Runs
  PROVE  IInv /\ Begin(t) => IInv'
<1> SUFFICES ASSUME IInv, Begin(t) PROVE IInv'
  OBVIOUS
<1>1. /\ pc[t] = "idle" /\ pc' = [pc EXCEPT ![t] = "select"]
      /\ UNCHANGED <<horizon, ingested, pg, hist, cursor, prev, batch, cut, tardy>>
  BY DEF Begin
<1>2. TypeOK'
  BY <1>1 DEF IInv, TypeOK
<1>3. NoRowLost'
  BY <1>1 DEF IInv, NoRowLost
<1>4. ASSUME NEW u \in Runs, u # t PROVE RunInv(u)' /\ Passed(u)'
  <2>1. pc'[u] = pc[u]
    BY <1>1, <1>4 DEF IInv, TypeOK
  <2> QED BY <1>1, <2>1, OthersKeep DEF IInv
<1>5. RunInv(t)' /\ Passed(t)'
  <2>1. pc'[t] = "select" /\ cursor'[t] = 0 /\ batch'[t] = {}
    BY <1>1 DEF IInv, TypeOK, RunInv
  <2> QED BY <1>1, <2>1, StoppedKeeps
<1> QED BY <1>2, <1>3, <1>4, <1>5 DEF IInv

LEMMA AbortKeeps ==
  ASSUME NEW t \in Runs
  PROVE  IInv /\ Abort(t) => IInv'
<1> SUFFICES ASSUME IInv, Abort(t) PROVE IInv'
  OBVIOUS
<1>1. /\ pc' = [pc EXCEPT ![t] = "idle"] /\ cursor' = [cursor EXCEPT ![t] = 0]
      /\ prev' = [prev EXCEPT ![t] = 0] /\ batch' = [batch EXCEPT ![t] = {}]
      /\ UNCHANGED <<horizon, ingested, pg, hist, cut, tardy>>
  BY DEF Abort
<1>2. TypeOK'
  BY <1>1 DEF IInv, TypeOK
<1>3. NoRowLost'
  BY <1>1 DEF IInv, NoRowLost
<1>4. ASSUME NEW u \in Runs, u # t PROVE RunInv(u)' /\ Passed(u)'
  <2>1. UNCHANGED <<pc[u], cursor[u], prev[u], batch[u]>>
    BY <1>1, <1>4 DEF IInv, TypeOK
  <2> QED BY <1>1, <2>1, OthersKeep DEF IInv
<1>5. RunInv(t)' /\ Passed(t)'
  <2>1. pc'[t] = "idle" /\ cursor'[t] = 0 /\ batch'[t] = {}
    BY <1>1 DEF IInv, TypeOK
  <2> QED BY <1>1, <2>1, StoppedKeeps
<1> QED BY <1>2, <1>3, <1>4, <1>5 DEF IInv

LEMMA CrashKeeps == IInv /\ Crash => IInv'
<1> SUFFICES ASSUME IInv, Crash PROVE IInv'
  OBVIOUS
<1>1. /\ pc' = [t \in Runs |-> "idle"] /\ cursor' = [t \in Runs |-> 0]
      /\ prev' = [t \in Runs |-> 0] /\ batch' = [t \in Runs |-> {}]
      /\ UNCHANGED <<horizon, ingested, pg, hist, cut, tardy>>
  BY DEF Crash
<1>2. TypeOK'
  BY <1>1 DEF IInv, TypeOK
<1>3. NoRowLost'
  BY <1>1 DEF IInv, NoRowLost
<1>4. ASSUME NEW t \in Runs PROVE RunInv(t)' /\ Passed(t)'
  <2>1. pc'[t] = "idle" /\ cursor'[t] = 0 /\ batch'[t] = {}
    BY <1>1
  <2> QED BY <1>1, <2>1, StoppedKeeps
<1> QED BY <1>2, <1>3, <1>4 DEF IInv

LEMMA InsertKeeps ==
  ASSUME NEW t \in Runs
  PROVE  IInv /\ Insert(t) => IInv'
<1> SUFFICES ASSUME IInv, Insert(t) PROVE IInv'
  OBVIOUS
<1>1. /\ pc[t] = "insert" /\ pc' = [pc EXCEPT ![t] = "delete"]
      /\ hist' = hist \cup batch[t]
      /\ UNCHANGED <<horizon, ingested, pg, cursor, prev, batch, cut, tardy>>
  BY DEF Insert
<1>2. TypeOK'
  BY <1>1 DEF IInv, TypeOK, RunInv
<1>3. NoRowLost'
  BY <1>1 DEF IInv, NoRowLost
<1>4. ASSUME NEW u \in Runs, u # t PROVE RunInv(u)' /\ Passed(u)'
  <2>1. pc'[u] = pc[u]
    BY <1>1, <1>4 DEF IInv, TypeOK
  <2> QED BY <1>1, <2>1, OthersKeep DEF IInv
<1>5. RunInv(t)' /\ Passed(t)'
  <2>1. pc'[t] = "delete"
    BY <1>1 DEF IInv, TypeOK
  <2>2. RunInv(t)'
    BY <1>1, <2>1 DEF IInv, RunInv
  <2>3. Passed(t)'
    BY <1>1 DEF IInv, Passed, Excepted
  <2> QED BY <2>2, <2>3
<1> QED BY <1>2, <1>3, <1>4, <1>5 DEF IInv

\* What the DELETE takes was copied, or is an exception; what it leaves at or before the
\* cursor is of before the batch.
LEMMA DeleteKeeps ==
  ASSUME NEW t \in Runs
  PROVE  IInv /\ Delete(t) => IInv'
<1> SUFFICES ASSUME IInv, Delete(t) PROVE IInv'
  OBVIOUS
<1>1. /\ pc[t] = "delete" /\ pc' = [pc EXCEPT ![t] = "select"]
      /\ pg' = pg \ Migrated(t)
      /\ batch' = [batch EXCEPT ![t] = {}] /\ prev' = [prev EXCEPT ![t] = 0]
      /\ UNCHANGED <<horizon, ingested, hist, cursor, cut, tardy>>
  BY DEF Delete
<1>2. TypeOK'
  BY <1>1 DEF IInv, TypeOK
<1>3. NoRowLost'
  <2>1. \A r \in Migrated(t) : r \in hist \cup Excepted
    BY <1>1 DEF IInv, RunInv, Passed, Migrated
  <2> QED BY <1>1, <2>1 DEF IInv, NoRowLost, Excepted
<1>4. ASSUME NEW u \in Runs, u # t PROVE RunInv(u)' /\ Passed(u)'
  <2>1. UNCHANGED <<pc[u], cursor[u], prev[u], batch[u]>>
    BY <1>1, <1>4 DEF IInv, TypeOK
  <2> QED BY <1>1, <2>1, OthersKeep DEF IInv
<1>5. RunInv(t)' /\ Passed(t)'
  <2>1. pc'[t] = "select" /\ batch'[t] = {}
    BY <1>1 DEF IInv, TypeOK
  <2>2. RunInv(t)'
    BY <1>1, <2>1 DEF IInv, RunInv
  <2>3. \A r \in pg' : Ts[r] <= cursor[t] => r \in Excepted
    BY <1>1 DEF IInv, RunInv, Passed, Migrated
  <2>4. Passed(t)'
    BY <1>1, <2>3 DEF Passed, Excepted
  <2> QED BY <2>2, <2>4
<1> QED BY <1>2, <1>3, <1>4, <1>5 DEF IInv

LEMMA SelectKeeps ==
  ASSUME NEW t \in Runs
  PROVE  IInv /\ Select(t) => IInv'
<1> SUFFICES ASSUME IInv, Select(t) PROVE IInv'
  OBVIOUS
<1>1. /\ pc[t] = "select" /\ batch[t] = {} /\ cursor[t] \in Nat /\ horizon \in Nat
      /\ pg \subseteq Rows
      /\ UNCHANGED <<horizon, ingested, pg, hist, tardy>>
  BY ConstantFacts DEF Select, IInv, TypeOK, RunInv
<1>2. CASE Candidates(t) = {}
  <2>1. /\ pc' = [pc EXCEPT ![t] = "idle"] /\ cursor' = [cursor EXCEPT ![t] = 0]
        /\ UNCHANGED <<prev, batch, cut>>
    BY <1>2 DEF Select, AfterLastBatch
  <2>2. TypeOK'
    BY <1>1, <2>1 DEF IInv, TypeOK
  <2>3. NoRowLost'
    BY <1>1, <2>1 DEF IInv, NoRowLost
  <2>4. ASSUME NEW u \in Runs, u # t PROVE RunInv(u)' /\ Passed(u)'
    <3>1. UNCHANGED <<pc[u], cursor[u], prev[u], batch[u]>>
      BY <2>1, <2>4 DEF IInv, TypeOK
    <3> QED BY <1>1, <2>1, <3>1, OthersKeep DEF IInv
  <2>5. RunInv(t)' /\ Passed(t)'
    <3>1. pc'[t] = "idle" /\ cursor'[t] = 0 /\ batch'[t] = {}
      BY <1>1, <2>1 DEF IInv, TypeOK
    <3> QED BY <1>1, <2>1, <3>1, StoppedKeeps
  <2> QED BY <2>2, <2>3, <2>4, <2>5 DEF IInv
<1>3. CASE Candidates(t) # {}
  <2> DEFINE from == Candidates(t)
  <2>1. PICK rows \in SUBSET from :
          /\ IsBatch(rows, from)
          /\ batch' = [batch EXCEPT ![t] = rows]
          /\ prev' = [prev EXCEPT ![t] = cursor[t]]
          /\ cursor' = [cursor EXCEPT ![t] = LatestTs(rows)]
          /\ cut' = cut \cup {r \in from \ rows : Ts[r] = LatestTs(rows)}
          /\ pc' = [pc EXCEPT ![t] = "insert"]
    BY <1>3 DEF Select, SavedCursor
  <2>2. /\ from \in SUBSET Rows /\ from \subseteq pg
        /\ \A r \in from : Ts[r] \in Nat /\ Ts[r] <= horizon /\ Ts[r] > cursor[t]
        /\ \A r \in pg : Ts[r] <= horizon /\ Ts[r] > cursor[t] => r \in from
    BY <1>1, ConstantFacts DEF Candidates
  <2>3. from # {}
    BY <1>3
  <2> HIDE DEF from
  <2>4. rows # {} /\ rows \subseteq from
    BY <2>1, <2>2, <2>3, BatchHasRows
  <2>5. /\ \E r \in rows : Ts[r] = LatestTs(rows)
        /\ \A q \in rows : Ts[q] <= LatestTs(rows)
    BY <1>1, <2>2, <2>4, LatestIsLatest
  <2>6. LatestTs(rows) \in Nat /\ LatestTs(rows) <= horizon /\ LatestTs(rows) > cursor[t]
    BY <2>2, <2>4, <2>5
  <2>7. \A r \in from \ rows : Ts[r] <= LatestTs(rows) => r \in cut'
    BY <1>1, <2>1, <2>2, <2>3, BatchIsPrefix
  <2>8. TypeOK'
    BY <1>1, <2>1, <2>2, <2>4, <2>6 DEF IInv, TypeOK
  <2>9. NoRowLost'
    BY <1>1, <2>1 DEF IInv, NoRowLost
  <2>10. ASSUME NEW u \in Runs, u # t PROVE RunInv(u)' /\ Passed(u)'
    <3>1. UNCHANGED <<pc[u], cursor[u], prev[u], batch[u]>>
      BY <2>1, <2>10 DEF IInv, TypeOK
    <3>2. cut \subseteq cut'
      BY <2>1
    <3> QED BY <1>1, <3>1, <3>2, OthersKeep DEF IInv
  <2>11. /\ pc'[t] = "insert" /\ cursor'[t] = LatestTs(rows)
         /\ prev'[t] = cursor[t] /\ batch'[t] = rows
    BY <2>1 DEF IInv, TypeOK
  <2>12. RunInv(t)'
    <3>1. rows \subseteq ingested'
      BY <1>1, <2>2, <2>4 DEF IInv, TypeOK
    <3>2. \A r \in rows : Ts[r] > cursor[t]
      BY <2>2, <2>4
    <3> QED BY <1>1, <2>6, <2>11, <3>1, <3>2 DEF RunInv
  <2>13. Passed(t)'
    <3> SUFFICES ASSUME NEW r \in pg, Ts[r] <= LatestTs(rows)
                 PROVE  r \in rows \cup cut' \cup tardy
      BY <1>1, <2>11 DEF Passed, Excepted
    <3>1. CASE Ts[r] <= cursor[t]
      BY <1>1, <2>1, <3>1 DEF IInv, Passed, Excepted
    <3>2. CASE Ts[r] > cursor[t]
      <4>1. Ts[r] \in Nat /\ Ts[r] <= horizon
        BY <1>1, <2>6, ConstantFacts
      <4> QED BY <2>2, <2>7, <3>2, <4>1
    <3> QED BY <1>1, <3>1, <3>2, ConstantFacts
  <2> QED BY <2>8, <2>9, <2>10, <2>12, <2>13 DEF IInv
<1> QED BY <1>2, <1>3

LEMMA InvNext == IInv /\ [Next]_vars => IInv'
<1> SUFFICES ASSUME IInv, [Next]_vars PROVE IInv'
  OBVIOUS
<1>1. CASE Age
  BY <1>1, AgeKeeps
<1>2. CASE Crash
  BY <1>2, CrashKeeps
<1>3. ASSUME NEW r \in Rows, Ingest(r) PROVE IInv'
  BY <1>3, IngestKeeps
<1>4. ASSUME NEW t \in Runs, Begin(t) PROVE IInv'
  BY <1>4, BeginKeeps
<1>5. ASSUME NEW t \in Runs, Step(t) PROVE IInv'
  BY <1>5, SelectKeeps, InsertKeeps, DeleteKeeps DEF Step
<1>6. ASSUME NEW t \in Runs, Abort(t) PROVE IInv'
  BY <1>6, AbortKeeps
<1>7. CASE UNCHANGED vars
  BY <1>7 DEF vars, run, IInv, TypeOK, NoRowLost, RunInv, Passed, Excepted
<1> QED BY <1>1, <1>2, <1>3, <1>4, <1>5, <1>6, <1>7 DEF Next

(***************************************************************************)
(* Theorems                                                                *)
(***************************************************************************)

\* A migration with a batch has rows in it and a range to delete, whatever the others do.
THEOREM TypeCorrect == Spec => []TypeOK
<1>1. IInv => TypeOK
  BY DEF IInv
<1> QED BY InvInit, InvNext, <1>1, PTL DEF Spec

\* No row is lost, whatever the LIMIT and however many migrations overlap, fail or are
\* interrupted at each of their statements (db.rs 310-395), except where the range of the
\* DELETE is wider than the batch.
THEOREM NothingIsLost == Spec => []RowsAreKept
<1>1. IInv => RowsAreKept
  BY DEF IInv, RowsAreKept, NoRowLost, CursorLeavesNothingBehind, Passed, Excepted
<1> QED BY InvInit, InvNext, <1>1, PTL DEF Spec
===============================================================================
