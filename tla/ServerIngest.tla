------------------------------ MODULE ServerIngest ------------------------------
(***************************************************************************)
(* The server's reception of telemetry (telemetry-server/src/ingest.rs,    *)
(* main.rs, track_state.rs): one task per TCP connection decodes the       *)
(* frames it reads and hands each one, in this order, to the SQLite        *)
(* writer, to the dashboards (at most once per CAN id in 50 ms), to the    *)
(* TimescaleDB writer and to the shared track state.  No step of it may    *)
(* wait for a database.                                                    *)
(*                                                                         *)
(* Tasks of several connections run side by side: when the car reconnects, *)
(* what it wrote into the old connection is still being read.  A task's    *)
(* handling of one frame is one action per shared object it touches.       *)
(*                                                                         *)
(* A frame is its number in `frames', the log of the packets read.         *)
(* Left out are the gauges of the admin page (latency, rate, Wi-Fi): cells *)
(* that a later frame overwrites and nothing but the page reads.  Packets  *)
(* of fewer than 20 bytes and frames with a CAN id of no DBC file change   *)
(* nothing but these gauges and counts: they are steps that stutter.       *)
(* Definitions marked "mutant" are wrong variants of the one that follows  *)
(* them and no part of the specification.                                  *)
(***************************************************************************)
EXTENDS Naturals, Sequences, FiniteSets

CONSTANTS
  Conns,        (* TCP connections; each is accepted once                 *)
  CanIds,       (* CAN ids that the DBC files define                      *)
  QueueCap,     (* capacity of the channel to a writer                    *)
  FlushAt,      (* pending items that make a writer write                 *)
  Throttle,     (* 50 ms, in units of time                                *)
  MaxFrames,    (* frames read in a behaviour: bounds the model           *)
  Faults        (* FaultKinds that happen                                 *)

FaultKinds == {"sqlite", "timescale", "crash"}

ASSUME ConstantsAssumption ==
  /\ {QueueCap, FlushAt, Throttle} \subseteq Nat \ {0}
  /\ MaxFrames \in Nat
  /\ Faults \subseteq FaultKinds

VARIABLES
  frames,     (* the frames read so far, in the order they were read      *)
  task,       (* per connection: where its task is, and with which frame  *)
  elapsed,    (* time since the entry of a task's last_ws_sent_map, or     *)
              (* Throttle when it is longer: a new entry is 1 s old        *)
  shown,      (* time since it published a frame of a CAN id (history)     *)
  sqlite,     (* the SQLite writer                                        *)
  timescale   (* the TimescaleDB writer                                   *)

Sqlite == INSTANCE BatchWriter WITH w <- sqlite, MayFail <- "sqlite" \in Faults
Timescale == INSTANCE BatchWriter WITH w <- timescale, MayFail <- "timescale" \in Faults

dashVars == <<elapsed, shown>>
vars == <<frames, task, dashVars, sqlite, timescale>>

FrameNo == 1..MaxFrames
Stages == {"sqlite", "ws", "shown", "kept"}

At(c, stage) == task[c].at = stage
Current(c) == task[c].frame
Goto(c, stage) == task' = [task EXCEPT ![c].at = stage]
Rest(stage) == [at |-> stage, frame |-> 0]
Leave(c, stage) == task' = [task EXCEPT ![c] = Rest(stage)]

Init ==
  /\ frames = <<>>
  /\ task = [c \in Conns |-> Rest("none")]
  /\ elapsed = [c \in Conns |-> [i \in CanIds |-> Throttle]]
  /\ shown = elapsed
  /\ sqlite = Sqlite!Empty
  /\ timescale = Timescale!Empty

-----------------------------------------------------------------------------
Older(age) == [c \in Conns |-> [i \in CanIds |-> IF age[c][i] < Throttle THEN age[c][i] + 1
                                                  ELSE Throttle]]

Tick ==
  /\ elapsed' = Older(elapsed)
  /\ shown' = Older(shown)
  /\ UNCHANGED <<frames, task, sqlite, timescale>>

Accept(c) ==
  /\ At(c, "none")
  /\ Leave(c, "read")
  /\ UNCHANGED <<frames, dashVars, sqlite, timescale>>

\* End of the stream, a failed read, or a length that is not one of a packet.
Disconnect(c) ==
  /\ At(c, "read")
  /\ Leave(c, "ended")
  /\ UNCHANGED <<frames, dashVars, sqlite, timescale>>

\* A packet is read and decoded.
Read(c) ==
  /\ At(c, "read")
  /\ Len(frames) < MaxFrames
  /\ \E id \in CanIds : frames' = Append(frames, [conn |-> c, id |-> id])
  /\ task' = [task EXCEPT ![c] = [at |-> "sqlite", frame |-> Len(frames) + 1]]
  /\ UNCHANGED <<dashVars, sqlite, timescale>>

SendSqlite(c) ==
  /\ At(c, "sqlite")
  /\ Sqlite!TrySend(Current(c))
  /\ Goto(c, "ws")
  /\ UNCHANGED <<frames, dashVars, timescale>>

\* Throttling of the dashboards, per task and CAN id.
Always(c, id) == TRUE                                            \* mutant
Due(c, id) == elapsed[c][id] >= Throttle

ResetAll(c, id) == 0                                             \* mutant
Restarted(c, id) == IF Due(c, id) THEN 0 ELSE elapsed[c][id]

\* A published frame goes on to TimescaleDB as "shown", another one as "kept".
SendWs(c) ==
  /\ At(c, "ws")
  /\ LET id == frames[Current(c)].id
     IN /\ elapsed' = [elapsed EXCEPT ![c][id] = Restarted(c, id)]
        /\ \/ Due(c, id) /\ shown' = [shown EXCEPT ![c][id] = 0] /\ Goto(c, "shown")
           \/ ~Due(c, id) /\ UNCHANGED shown /\ Goto(c, "kept")
  /\ UNCHANGED <<frames, sqlite, timescale>>

\* And then the track state, which keeps no frame.
SendTimescale(c) ==
  /\ At(c, "shown") \/ At(c, "kept")
  /\ Timescale!TrySend(Current(c))
  /\ Leave(c, "read")
  /\ UNCHANGED <<frames, dashVars, sqlite>>

Handle(c) == SendSqlite(c) \/ SendWs(c) \/ SendTimescale(c)

-----------------------------------------------------------------------------
SqliteWriter ==
  /\ Sqlite!Step
  /\ UNCHANGED <<frames, task, dashVars, timescale>>

TimescaleWriter ==
  /\ Timescale!Step
  /\ UNCHANGED <<frames, task, dashVars, sqlite>>

\* Frames read and not yet offered to a writer.
ForSqlite == {Current(c) : c \in {d \in Conns : At(d, "sqlite")}}
ForTimescale ==
  {Current(c) : c \in {d \in Conns : task[d].at \in Stages}}

\* The process dies and is started again: connections end, tables remain.
Crash ==
  /\ "crash" \in Faults
  /\ task' = [c \in Conns |-> Rest(IF At(c, "none") THEN "none" ELSE "ended")]
  /\ Sqlite!Die(ForSqlite)
  /\ Timescale!Die(ForTimescale)
  /\ UNCHANGED <<frames, dashVars>>

Next ==
  \/ Tick
  \/ \E c \in Conns : Accept(c) \/ Read(c) \/ Disconnect(c) \/ Handle(c)
  \/ SqliteWriter
  \/ TimescaleWriter
  \/ Crash

Spec == Init /\ [][Next]_vars

\* The runtime schedules the connections' tasks and the TimescaleDB writer.
\* SQLite may hang: its only pooled connection is shared with every handler.
Fairness ==
  /\ \A c \in Conns : WF_vars(Handle(c))
  /\ WF_vars(TimescaleWriter)

FairSpec == Spec /\ Fairness

-----------------------------------------------------------------------------
TypeOK ==
  /\ frames \in Seq([conn : Conns, id : CanIds]) /\ Len(frames) <= MaxFrames
  /\ task \in [Conns -> [at : {"none", "read", "ended"} \cup Stages, frame : 0..MaxFrames]]
  /\ elapsed \in [Conns -> [CanIds -> 0..Throttle]]
  /\ shown \in [Conns -> [CanIds -> 0..Throttle]]
  /\ Sqlite!TypeOK(FrameNo)
  /\ Timescale!TypeOK(FrameNo)

\* Each database has, or will still be given, every frame that was read,
\* except those dropped by a full channel, a failed transaction or the end of the
\* process: what goes wrong with one database takes nothing from the other.
NoUnexplainedLoss ==
  /\ DOMAIN frames \subseteq ForSqlite \cup Sqlite!Waiting \cup Sqlite!Stored \cup sqlite.lost
  /\ DOMAIN frames \subseteq
       ForTimescale \cup Timescale!Waiting \cup Timescale!Stored \cup timescale.lost

InOrderOnce(table) ==
  \A i, j \in DOMAIN table :
    i < j /\ frames[table[i]].conn = frames[table[j]].conn => table[i] < table[j]

\* A table has the frames of one connection in the order they were read, and none
\* twice, whatever transactions failed between them.
RowsInOrderOnce == InOrderOnce(sqlite.table) /\ InOrderOnce(timescale.table)

\* A frame is kept from the dashboards exactly if one of its CAN id went out on the
\* same connection less than 50 ms before: no id is flooding them or starved.
DashboardRate ==
  [][\A c \in Conns : At(c, "ws") /\ task'[c].at \in {"shown", "kept"} =>
       (At(c, "shown")' <=> shown[c][frames[Current(c)].id] >= Throttle)]_vars

\* Once no more frames come, nothing is left on the way to TimescaleDB, though SQLite
\* may hang: no task waits for a database it does not write to.
NothingLeftForTimescale == []<>(ForTimescale \cup Timescale!Waiting = {})

\* No consumer of the frames waits for another: dashboards get them at their rate,
\* and TimescaleDB all of them.
ConsumersAreServed == DashboardRate /\ NothingLeftForTimescale
===============================================================================
