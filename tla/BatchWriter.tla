------------------------------ MODULE BatchWriter ------------------------------
(***************************************************************************)
(* One of the server's two database writers (telemetry-server/src/main.rs, *)
(* db.rs): a bounded channel filled with try_send, a task that collects    *)
(* what it receives in `pending' and writes it in one transaction when it  *)
(* holds enough signals or on a tick, and the table it writes to.          *)
(* The writers of SQLite and of TimescaleDB are two instances.             *)
(*                                                                         *)
(* An item is the signals of one CAN frame.  The task does not receive     *)
(* while it awaits the transaction: the end of it is the step here, and    *)
(* what is sent meanwhile waits in the channel.                            *)
(***************************************************************************)
EXTENDS Naturals, Sequences

CONSTANTS
  QueueCap,   (* capacity of the channel: 50_000 in the code              *)
  FlushAt,    (* pending items that make the task write: 500 signals      *)
  MayFail     (* can a transaction fail                                   *)

VARIABLE w    (* channel, task and table *)

Empty == [queue |-> <<>>, pending |-> <<>>, table |-> <<>>,
          lost |-> {}]

Items(seq) == {seq[i] : i \in DOMAIN seq}
Waiting == Items(w.queue) \cup Items(w.pending)
Stored == Items(w.table)

\* Definitions marked "mutant" are wrong variants of the one that follows them.
SendWaits(x) == Len(w.queue) < QueueCap /\ w' = [w EXCEPT !.queue = Append(@, x)]  \* mutant

\* try_send: never waits; a full channel drops the item without a trace.
TrySend(x) ==
  w' = IF Len(w.queue) < QueueCap
       THEN [w EXCEPT !.queue = Append(@, x)]
       ELSE [w EXCEPT !.lost = @ \cup {x}]

NewestOnly(x) == <<x>>                                           \* mutant
Extended(x) == Append(w.pending, x)

KeepsReceiving == TRUE                                           \* mutant
HasRoom == Len(w.pending) < FlushAt

\* With enough signals pending the task writes before it receives again.
Receive ==
  /\ HasRoom
  /\ w.queue # <<>>
  /\ w' = [w EXCEPT !.queue = Tail(@), !.pending = Extended(Head(w.queue))]

KeptAfter(batch) == batch                                        \* mutant
AfterWrite(batch) == <<>>

\* save_sqlite, save_timescale: on a tick with something pending, or when full.
Commit ==
  /\ w.pending # <<>>
  /\ w' = [w EXCEPT !.table = @ \o w.pending, !.pending = AfterWrite(@)]

\* The transaction is rolled back; pending is cleared all the same.
Fail ==
  /\ MayFail
  /\ w.pending # <<>>
  /\ w' = [w EXCEPT !.lost = @ \cup Items(w.pending),
                    !.pending = AfterWrite(@)]

\* The process ends: what is not in the table is gone, and with it the items
\* that were about to be sent.
Die(items) ==
  w' = [w EXCEPT !.queue = <<>>, !.pending = <<>>,
                 !.lost = @ \cup Waiting \cup items]

Step == Receive \/ Commit \/ Fail

TypeOK(item) ==
  /\ w.queue \in Seq(item) /\ Len(w.queue) <= QueueCap
  /\ w.pending \in Seq(item) /\ Len(w.pending) <= FlushAt
  /\ w.table \in Seq(item)
  /\ w.lost \subseteq item
===============================================================================
