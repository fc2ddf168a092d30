------------------------------ MODULE Migration ------------------------------
(***************************************************************************)
(* migrate_old_data (telemetry-server/src/db.rs): rows older than seven    *)
(* days move in batches from the TimescaleDB table sensor_data to the      *)
(* SQLite table historico.  The server starts one migration when it boots  *)
(* (main.rs) and one for every POST /migrate (api/migrate.rs); nothing     *)
(* keeps two of them apart.  Meanwhile the ingest keeps writing to both    *)
(* tables.                                                                 *)
(*                                                                         *)
(* The two databases share no transaction: a batch is a SELECT, an INSERT  *)
(* and a DELETE that anything may come between.  Definitions marked        *)
(* "mutant" are wrong variants of the one that follows them; no part of    *)
(* the specification uses them.                                            *)
(***************************************************************************)
EXTENDS Naturals, FiniteSets

CONSTANTS
  Rows,        (* the measurements                                        *)
  Ts,          (* the timestamp of each row                               *)
  Limit,       (* rows per batch: 5000 in the code                        *)
  Runs,        (* migrations that may run at the same time                *)
  MaxTime,     (* the age limit stops moving here: bounds the model       *)
  Faults       (* what may go wrong: FaultKinds                           *)

(* "db": a statement fails; "crash": the server stops and is restarted.    *)
FaultKinds == {"db", "crash"}

ASSUME ConstantsAssumption ==
  /\ IsFiniteSet(Rows) /\ Ts \in [Rows -> Nat \ {0}]
  /\ Limit \in Nat \ {0} /\ MaxTime \in Nat
  /\ Faults \subseteq FaultKinds

VARIABLES
  horizon,   (* rows up to this timestamp are older than seven days       *)
  ingested,  (* rows received from the car so far                         *)
  pg,        (* sensor_data                                               *)
  hist,      (* the rows of which historico holds a copy or several       *)
  pc,        (* what each migration does next                             *)
  cursor,    (* its last_ts; 0 when it is not running                     *)
  prev,      (* its prev_ts, while it has a batch                         *)
  batch,     (* the rows it has fetched                                   *)
  cut,       (* rows a LIMIT separated from a row of the same instant (history) *)
  tardy      (* rows already too old when they were ingested (history)    *)

run == <<pc, cursor, prev, batch>>
vars == <<horizon, ingested, pg, hist, run, cut, tardy>>

Init ==
  /\ horizon = 0
  /\ ingested = {} /\ pg = {}
  /\ hist = {}
  /\ pc = [t \in Runs |-> "idle"]
  /\ cursor = [t \in Runs |-> 0]
  /\ prev = [t \in Runs |-> 0]
  /\ batch = [t \in Runs |-> {}]
  /\ cut = {} /\ tardy = {}

Older(a, b) == Ts[a] < Ts[b]
LatestTs(rows) == LET r == CHOOSE r \in rows : \A q \in rows : ~Older(r, q) IN Ts[r]

-----------------------------------------------------------------------------
Age ==
  /\ horizon < MaxTime
  /\ horizon' = horizon + 1
  /\ UNCHANGED <<ingested, pg, hist, run, cut, tardy>>

(* The ingest stores a row in sensor_data; its other writer stores it in    *)
(* historico too, unless it loses the batch.                               *)
Ingest(r) ==
  /\ r \notin ingested
  /\ ingested' = ingested \cup {r}
  /\ pg' = pg \cup {r}
  /\ \/ hist' = hist \cup {r}
     \/ UNCHANGED hist
  /\ tardy' = IF Ts[r] <= horizon THEN tardy \cup {r} ELSE tardy
  /\ UNCHANGED <<horizon, run, cut>>

(* The COUNT finds something to do. *)
Begin(t) ==
  /\ pc[t] = "idle"
  /\ \E r \in pg : Ts[r] <= horizon
  /\ pc' = [pc EXCEPT ![t] = "select"]
  /\ UNCHANGED <<horizon, ingested, pg, hist, cursor, prev, batch, cut, tardy>>

Candidates(t) == {r \in pg : Ts[r] <= horizon /\ Ts[r] > cursor[t]}

(* Mutant: the rows come in no order. *)
AnyFirst(rows, from) == TRUE
(* ORDER BY time ASC *)
OldestFirst(rows, from) == \A r \in rows, q \in from \ rows : ~Older(q, r)

IsBatch(rows, from) ==
  /\ rows \subseteq from
  /\ Cardinality(rows) = IF Cardinality(from) < Limit THEN Cardinality(from) ELSE Limit
  /\ OldestFirst(rows, from)

(* Mutant: the cursor is saved after it has been moved. *)
SavedTooLate(before, after) == after
SavedCursor(before, after) == before

(* Mutant: an empty result is asked for again. *)
TryAgain == "select"
AfterLastBatch == "idle"

Select(t) ==
  /\ pc[t] = "select"
  /\ IF Candidates(t) = {}
     THEN /\ pc' = [pc EXCEPT ![t] = AfterLastBatch]
          /\ cursor' = [cursor EXCEPT ![t] = 0]
          /\ UNCHANGED <<prev, batch, cut>>
     ELSE \E rows \in SUBSET Candidates(t) :
            /\ IsBatch(rows, Candidates(t))
            /\ batch' = [batch EXCEPT ![t] = rows]
            /\ prev' = [prev EXCEPT ![t] = SavedCursor(cursor[t], LatestTs(rows))]
            /\ cursor' = [cursor EXCEPT ![t] = LatestTs(rows)]
            /\ cut' = cut \cup {r \in Candidates(t) \ rows : Ts[r] = LatestTs(rows)}
            /\ pc' = [pc EXCEPT ![t] = "insert"]
  /\ UNCHANGED <<horizon, ingested, pg, hist, tardy>>

(* INSERT OR IGNORE: historico has no key, so a row may get a second copy. *)
Insert(t) ==
  /\ pc[t] = "insert"
  /\ hist' = hist \cup batch[t]
  /\ pc' = [pc EXCEPT ![t] = "delete"]
  /\ UNCHANGED <<horizon, ingested, pg, cursor, prev, batch, cut, tardy>>

(* Mutant: everything old is deleted, not the range of the batch. *)
AllOld(t) == {r \in pg : Ts[r] <= horizon}
Migrated(t) == {r \in pg : Ts[r] > prev[t] /\ Ts[r] <= cursor[t]}

Delete(t) ==
  /\ pc[t] = "delete"
  /\ pg' = pg \ Migrated(t)
  /\ batch' = [batch EXCEPT ![t] = {}]
  /\ prev' = [prev EXCEPT ![t] = 0]
  /\ pc' = [pc EXCEPT ![t] = "select"]
  /\ UNCHANGED <<horizon, ingested, hist, cursor, cut, tardy>>

(* `?': the first statement that fails ends the migration where it is.     *)
Abort(t) ==
  /\ "db" \in Faults /\ pc[t] # "idle"
  /\ pc' = [pc EXCEPT ![t] = "idle"]
  /\ cursor' = [cursor EXCEPT ![t] = 0]
  /\ prev' = [prev EXCEPT ![t] = 0]
  /\ batch' = [batch EXCEPT ![t] = {}]
  /\ UNCHANGED <<horizon, ingested, pg, hist, cut, tardy>>

Crash ==
  /\ "crash" \in Faults /\ \E t \in Runs : pc[t] # "idle"
  /\ pc' = [t \in Runs |-> "idle"]
  /\ cursor' = [t \in Runs |-> 0]
  /\ prev' = [t \in Runs |-> 0]
  /\ batch' = [t \in Runs |-> {}]
  /\ UNCHANGED <<horizon, ingested, pg, hist, cut, tardy>>

Step(t) == Select(t) \/ Insert(t) \/ Delete(t)

Next ==
  \/ Age \/ Crash
  \/ \E r \in Rows : Ingest(r)
  \/ \E t \in Runs : Begin(t) \/ Step(t) \/ Abort(t)

Spec == Init /\ [][Next]_vars

(* The databases answer each statement. *)
FairSpec == Spec /\ \A t \in Runs : WF_vars(Step(t))

-----------------------------------------------------------------------------
(* Types of all variables; a migration at work on a batch has rows in it,  *)
(* and a range of timestamps to delete.                                    *)
TypeOK ==
  /\ horizon \in 0..MaxTime
  /\ ingested \subseteq Rows /\ pg \subseteq ingested
  /\ hist \subseteq ingested
  /\ pc \in [Runs -> {"idle", "select", "insert", "delete"}]
  /\ cursor \in [Runs -> Nat] /\ prev \in [Runs -> Nat]
  /\ batch \in [Runs -> SUBSET Rows]
  /\ cut \subseteq Rows /\ tardy \subseteq Rows
  /\ \A t \in Runs : pc[t] \in {"insert", "delete"} => batch[t] # {} /\ prev[t] < cursor[t]

(* A row is in one of the tables, whatever migrations overlap, fail or are *)
(* interrupted, with two exceptions: it was old already when it was        *)
(* ingested, so that it may come between a SELECT and its DELETE, or it    *)
(* has the timestamp of the last row of a batch that the LIMIT cut.        *)
NoRowLost == \A r \in ingested : r \in pg \cup hist \cup cut \cup tardy

(* The cursor of a migration never passes over a row it has not copied: a  *)
(* row older than its cursor that is still there is an exception as above  *)
(* or part of the batch in hand.                                           *)
CursorLeavesNothingBehind ==
  \A t \in Runs : pc[t] # "idle" =>
    \A r \in pg : Ts[r] <= cursor[t] => r \in batch[t] \cup cut \cup tardy

(* Every migration comes to its end. *)
MigrationsEnd == \A t \in Runs : pc[t] # "idle" ~> pc[t] = "idle"

(* No row is lost: neither one that a migration has deleted nor one that   *)
(* its cursor has passed.                                                  *)
RowsAreKept == NoRowLost /\ CursorLeavesNothingBehind
===============================================================================
