--------------------------- MODULE EdgeStoreForward ---------------------------
(***************************************************************************)
(* The store-and-forward path of the car's telemetry-edge process          *)
(* (telemetry-edge/src/main.rs): the main loop that connects, replays the  *)
(* SQLite backup, sends batches of live frames over TCP and diverts a      *)
(* batch whose send failed; the dedicated SQLite writer task; and the      *)
(* death and restart of the process.                                       *)
(*                                                                         *)
(* A frame is the number of its arrival on the CAN bus.  "rx" stands for   *)
(* everything between the bus and the main loop (kernel queue, raw         *)
(* channel, reorder heap, ordered channel: module ReorderBuffer).          *)
(* A connection is a slot: "up", "dead" (the path is gone, which the edge  *)
(* learns only from a failing write) or "free".  net[c] holds the frames   *)
(* the kernel accepted on c that the server has not read yet.              *)
(*                                                                         *)
(* A definition marked "mutant" is a wrong variant of the one that follows *)
(* it and not a part of the model.                                         *)
(***************************************************************************)
EXTENDS Naturals, Sequences, FiniteSets, Functions

CONSTANTS
  MaxFrame,    (* frames that arrive on the bus: bounds the model         *)
  ChanCap,     (* frames the reader-to-main-loop pipeline can hold        *)
  BatchSize,   (* --batch_size: frames per send_batch                     *)
  SqliteCap,   (* capacity of the channel to the SQLite writer            *)
  FlushAt,     (* pending frames that make the writer flush at once       *)
  SyncLimit,   (* LIMIT of the SELECT that replays the backup             *)
  NetCap,      (* frames the kernel accepts before a write blocks         *)
  MaxCopies,   (* deliveries of one frame are counted up to this number   *)
  Conns,       (* connection slots                                        *)
  NoConn,      (* the main loop holds no connection                       *)
  Faults       (* what may go wrong besides the network: FaultKinds       *)

FaultKinds == {"shutdown", "crash", "power", "sql"}

ASSUME ConstantsAssumption ==
  /\ {MaxFrame, ChanCap, BatchSize, SqliteCap, FlushAt, SyncLimit, NetCap,
      MaxCopies} \subseteq Nat \ {0}
  /\ NoConn \notin Conns
  /\ Faults \subseteq FaultKinds

VARIABLES
  arrived,     (* frames that have arrived on the bus so far               *)
  rx,          (* the pipeline, oldest frame first                         *)
  running,     (* the shared AtomicBool: cleared by Ctrl-C or SIGINT       *)
  pc,          (* where the main loop is                                   *)
  conn,        (* the connection it holds                                  *)
  batch,       (* frame_buffer                                             *)
  pos,         (* next frame of batch to send or to back up                *)
  todo,        (* ids of the fetched backup rows still to be replayed      *)
  syncedIds,   (* ids replayed and not yet marked                          *)
  sqlite,      (* the channel to the SQLite writer                         *)
  pending,     (* the writer's in-memory batch                             *)
  rows,        (* raw_can_logs: the frame of each row, by id               *)
  synced,      (* ids of the rows with synced = 1                          *)
  disk,        (* what a loss of power leaves of rows and synced           *)
  link,        (* state of each connection slot                            *)
  net,         (* frames in flight on each slot                            *)
  last,        (* newest frame the server read from each slot (history)    *)
  got,         (* how often the server read each frame (history)           *)
  gone         (* by cause, the frames of which a copy was dropped (history) *)

loopVars == <<pc, conn, batch, pos, todo, syncedIds>>
dbVars   == <<rows, synced, disk>>
netVars  == <<link, net, last, got>>
vars == <<arrived, rx, running, loopVars, sqlite, pending, dbVars, netVars, gone>>

Frame  == 1..MaxFrame
Cause  == {"bus", "wire", "overflow", "flush", "death", "power"}
PC     == {"connect", "select", "replay", "mark", "collect", "send", "backup",
           "reconnect", "exited"}

Least(a, b) == IF a <= b THEN a ELSE b
Drop(cause, frames) == gone' = [gone EXCEPT ![cause] = @ \cup frames]

Unsynced == (DOMAIN rows) \ synced
Backlog  == {rows[i] : i \in Unsynced}
Written  == {f \in Frame : got[f] > 0} \cup gone["wire"]
              \cup UNION {Range(net[c]) : c \in Conns}
Buffered == IF pc = "backup" THEN {batch[i] : i \in pos..Len(batch)} ELSE Range(batch)
Held     == Range(rx) \cup Buffered \cup Range(sqlite) \cup Range(pending)
              \cup Range(rows)

Init ==
  /\ arrived = 0
  /\ rx = <<>>
  /\ running = TRUE
  /\ pc = "connect"
  /\ conn = NoConn
  /\ batch = <<>>
  /\ pos = 1
  /\ todo = {}
  /\ syncedIds = {}
  /\ sqlite = <<>>
  /\ pending = <<>>
  /\ rows = <<>>
  /\ synced = {}
  /\ disk = [rows |-> 0, synced |-> {}]
  /\ link = [c \in Conns |-> "free"]
  /\ net = [c \in Conns |-> <<>>]
  /\ last = [c \in Conns |-> 0]
  /\ got = [f \in Frame |-> 0]
  /\ gone = [x \in Cause |-> {}]

(***************************************************************************)
(* The CAN bus and the network                                             *)
(***************************************************************************)

\* A frame arrives; with the pipeline full the reader is blocked in tx.send
\* and the kernel's socket queue drops it.
BusFrame ==
  /\ pc # "exited"
  /\ arrived < MaxFrame
  /\ arrived' = arrived + 1
  /\ IF Len(rx) < ChanCap
     THEN rx' = Append(rx, arrived + 1) /\ UNCHANGED gone
     ELSE Drop("bus", {arrived + 1}) /\ UNCHANGED rx
  /\ UNCHANGED <<running, loopVars, sqlite, pending, dbVars, netVars>>

\* The path of a connection breaks; nothing tells the edge.
Break(c) ==
  /\ link[c] = "up"
  /\ link' = [link EXCEPT ![c] = "dead"]
  /\ UNCHANGED <<arrived, rx, running, loopVars, sqlite, pending, dbVars, net, last, got, gone>>

\* The server reads the next frame of a connection, also of one the edge has
\* given up while its last bytes were on their way.
Deliver(c) ==
  /\ net[c] # <<>>
  /\ net' = [net EXCEPT ![c] = Tail(@)]
  /\ last' = [last EXCEPT ![c] = Head(net[c])]
  /\ got' = [got EXCEPT ![Head(net[c])] = Least(@ + 1, MaxCopies)]
  /\ UNCHANGED <<arrived, rx, running, loopVars, sqlite, pending, dbVars, link, gone>>

\* What is still in flight on a broken connection is lost.
LoseInFlight(c) ==
  /\ link[c] = "dead"
  /\ net[c] # <<>>
  /\ net' = [net EXCEPT ![c] = <<>>]
  /\ Drop("wire", Range(net[c]))
  /\ UNCHANGED <<arrived, rx, running, loopVars, sqlite, pending, dbVars, link, last, got>>

\* Both ends have closed a drained connection: its slot can be used again.
Close(c) ==
  /\ link[c] = "dead"
  /\ net[c] = <<>>
  /\ conn # c
  /\ link' = [link EXCEPT ![c] = "free"]
  /\ last' = [last EXCEPT ![c] = 0]
  /\ UNCHANGED <<arrived, rx, running, loopVars, sqlite, pending, dbVars, net, got, gone>>

(***************************************************************************)
(* The end of the process: exit, crash or loss of power, and the restart   *)
(* by systemd                                                              *)
(***************************************************************************)

Volatile == Range(rx) \cup Buffered \cup Range(sqlite) \cup Range(pending)

\* The memory of the process disappears, and with it its end of the connection.
Die ==
  /\ pc' = "exited"
  /\ conn' = NoConn
  /\ rx' = <<>>
  /\ batch' = <<>>
  /\ pos' = 1
  /\ todo' = {}
  /\ syncedIds' = {}
  /\ sqlite' = <<>>
  /\ pending' = <<>>
  /\ link' = [c \in Conns |-> IF c = conn THEN "dead" ELSE link[c]]
  /\ UNCHANGED <<arrived, running, net, last, got>>

Shutdown ==
  /\ "shutdown" \in Faults
  /\ pc # "exited"
  /\ running
  /\ running' = FALSE
  /\ UNCHANGED <<arrived, rx, loopVars, sqlite, pending, dbVars, netVars, gone>>

\* The checks of "running" at the top of the send loop, after it and at the top
\* of the main loop all end in std::process::exit(0): the writer task never
\* sees its channel closed, so what it and the channel hold is not flushed.
\* (rx.recv() giving None, which needs every reader gone, ends the same way.)
Exit ==
  /\ pc \in {"collect", "reconnect"}
  /\ ~running
  /\ Die
  /\ Drop("death", Volatile)
  /\ UNCHANGED dbVars

\* A connection attempt fails after the signal: main returns, the sender of the
\* SQLite channel is dropped, and the writer's final flush races the end of the
\* runtime.
ReturnFromMain ==
  /\ pc = "connect"
  /\ ~running
  /\ Die
  /\ \/ /\ rows' = rows \o pending \o sqlite
        /\ Drop("death", Range(rx) \cup Buffered)
     \/ /\ UNCHANGED rows
        /\ Drop("death", Volatile)
  /\ UNCHANGED <<synced, disk>>

Crash ==
  /\ "crash" \in Faults
  /\ pc # "exited"
  /\ Die
  /\ Drop("death", Volatile)
  /\ UNCHANGED dbVars

\* synchronous=NORMAL in WAL mode: a commit is durable at the next checkpoint.
Checkpoint ==
  /\ "power" \in Faults
  /\ disk' = [rows |-> Len(rows), synced |-> synced]
  /\ disk' # disk
  /\ UNCHANGED <<arrived, rx, running, loopVars, sqlite, pending, rows, synced, netVars, gone>>

PowerLoss ==
  /\ "power" \in Faults
  /\ pc # "exited"
  /\ Die
  /\ rows' = SubSeq(rows, 1, disk.rows)
  /\ synced' = disk.synced
  /\ gone' = [gone EXCEPT !["death"] = @ \cup Volatile,
                          !["power"] = @ \cup Range(rows)]
  /\ UNCHANGED disk

\* Restart=always in telemetry-edge.service.
Restart ==
  /\ pc = "exited"
  /\ pc' = "connect"
  /\ running' = TRUE
  /\ UNCHANGED <<arrived, rx, conn, batch, pos, todo, syncedIds, sqlite, pending,
                 dbVars, netVars, gone>>

(***************************************************************************)
(* The main loop: connect and replay the backup                            *)
(***************************************************************************)

Connect(c) ==
  /\ pc = "connect"
  /\ link[c] = "free"
  /\ link' = [link EXCEPT ![c] = "up"]
  /\ conn' = c
  /\ pc' = "select"
  /\ UNCHANGED <<arrived, rx, running, batch, pos, todo, syncedIds, sqlite, pending,
                 dbVars, net, last, got, gone>>

\* SELECT ... WHERE synced = 0 LIMIT SyncLimit has no ORDER BY: the index on synced
\* answers it in the order of the ids.
Fetched == {i \in Unsynced : Cardinality({j \in Unsynced : j < i}) < SyncLimit}

Select ==
  /\ pc = "select"
  /\ \/ todo' = Fetched
     \/ "sql" \in Faults /\ todo' = {}
  /\ pc' = IF todo' = {} THEN "collect" ELSE "replay"
  /\ UNCHANGED <<arrived, rx, running, conn, batch, pos, syncedIds, sqlite, pending,
                 dbVars, netVars, gone>>

\* The kernel accepts a frame: into the send buffer of a live path, where it
\* waits for room, or, until the break is noticed, into one that leads nowhere.
KernelAccepts(f) ==
  IF link[conn] = "up"
  THEN /\ Len(net[conn]) < NetCap
       /\ net' = [net EXCEPT ![conn] = Append(@, f)]
       /\ UNCHANGED gone
  ELSE Drop("wire", {f}) /\ UNCHANGED net

NewestFirst(id) == \A j \in todo : id >= j               \* mutant
OldestFirst(id) == \A j \in todo : id <= j

Replay(id) ==
  /\ pc = "replay"
  /\ id \in todo /\ OldestFirst(id)
  /\ KernelAccepts(rows[id])
  /\ todo' = todo \ {id}
  /\ syncedIds' = syncedIds \cup {id}
  /\ pc' = IF todo' = {} THEN "mark" ELSE "replay"
  /\ UNCHANGED <<arrived, rx, running, conn, batch, pos, sqlite, pending, dbVars,
                 link, last, got>>

ReplayFails ==
  /\ pc = "replay"
  /\ link[conn] = "dead"
  /\ todo' = {}
  /\ pc' = "mark"
  /\ UNCHANGED <<arrived, rx, running, conn, batch, pos, syncedIds, sqlite, pending,
                 dbVars, netVars, gone>>

MarkEverything == Unsynced                               \* mutant
MarkNothing == {}                                        \* mutant
IdsToMark == syncedIds

\* UPDATE ... SET synced = 1 for the replayed ids.  Whether it succeeds or not,
\* and whether or not the replay broke off, the loop goes on to live frames.
Mark ==
  /\ pc = "mark"
  /\ \/ synced' = synced \cup IdsToMark
     \/ "sql" \in Faults /\ UNCHANGED synced
  /\ syncedIds' = {}
  /\ pc' = "collect"
  /\ UNCHANGED <<arrived, rx, running, conn, batch, pos, todo, sqlite, pending, rows,
                 disk, netVars, gone>>

(***************************************************************************)
(* The main loop: send live frames, divert a batch that failed             *)
(***************************************************************************)

RestPeeked(n) == rx                                      \* mutant
RestAfter(n) == SubSeq(rx, n + 1, Len(rx))

Collect ==
  LET n == Least(BatchSize, Len(rx))
  IN /\ pc = "collect"
     /\ running
     /\ rx # <<>>
     /\ batch' = SubSeq(rx, 1, n)
     /\ rx' = RestAfter(n)
     /\ pos' = 1
     /\ pc' = "send"
     /\ UNCHANGED <<arrived, running, conn, todo, syncedIds, sqlite, pending, dbVars,
                    netVars, gone>>

Send ==
  /\ pc = "send"
  /\ KernelAccepts(batch[pos])
  /\ IF pos = Len(batch)
     THEN pc' = "collect" /\ batch' = <<>> /\ pos' = 1
     ELSE pos' = pos + 1 /\ UNCHANGED <<pc, batch>>
  /\ UNCHANGED <<arrived, rx, running, conn, todo, syncedIds, sqlite, pending, dbVars,
                 link, last, got>>

Retry == "send"                                          \* mutant
AfterFailedSend == "backup"
AfterTheFailed == pos + 1                                \* mutant
FirstToBackUp == 1

\* A write fails: the whole batch is diverted, the frames already written too.
SendFails ==
  /\ pc = "send"
  /\ link[conn] = "dead"
  /\ pos' = FirstToBackUp
  /\ pc' = AfterFailedSend
  /\ UNCHANGED <<arrived, rx, running, conn, batch, todo, syncedIds, sqlite, pending,
                 dbVars, netVars, gone>>

NoLimit == TRUE                                          \* mutant
RoomForBackup == Len(sqlite) < SqliteCap

\* try_send of one frame to the writer; afterwards the connection is given up.
BackUp ==
  /\ pc = "backup"
  /\ IF RoomForBackup
     THEN sqlite' = Append(sqlite, batch[pos]) /\ UNCHANGED gone
     ELSE Drop("overflow", {batch[pos]}) /\ UNCHANGED sqlite
  /\ IF pos = Len(batch)
     THEN pc' = "reconnect" /\ conn' = NoConn /\ batch' = <<>> /\ pos' = 1
     ELSE pos' = pos + 1 /\ UNCHANGED <<pc, conn, batch>>
  /\ UNCHANGED <<arrived, rx, running, todo, syncedIds, pending, dbVars, netVars>>

Reconnect ==
  /\ pc = "reconnect"
  /\ running
  /\ pc' = "connect"
  /\ UNCHANGED <<arrived, rx, running, conn, batch, pos, todo, syncedIds, sqlite,
                 pending, dbVars, netVars, gone>>

(***************************************************************************)
(* The SQLite writer task                                                  *)
(***************************************************************************)

KeptAfterFlush(frames) == frames                         \* mutant
PendingAfterFlush(frames) == <<>>

\* One transaction for the whole of "frames"; pending is cleared even if it fails.
Flush(frames) ==
  /\ \/ rows' = rows \o frames /\ UNCHANGED gone
     \/ "sql" \in Faults /\ Drop("flush", Range(frames)) /\ UNCHANGED rows
  /\ pending' = PendingAfterFlush(frames)

WriterRecv ==
  /\ pc # "exited"
  /\ sqlite # <<>>
  /\ sqlite' = Tail(sqlite)
  /\ LET frames == Append(pending, Head(sqlite))
     IN IF Len(frames) >= FlushAt
        THEN Flush(frames)
        ELSE pending' = frames /\ UNCHANGED <<rows, gone>>
  /\ UNCHANGED <<arrived, rx, running, loopVars, synced, disk, netVars>>

NeverDue == FALSE                                        \* mutant
TickDue == pending # <<>>

WriterTick ==
  /\ pc # "exited"
  /\ TickDue
  /\ Flush(pending)
  /\ UNCHANGED <<arrived, rx, running, loopVars, sqlite, synced, disk, netVars>>

-----------------------------------------------------------------------------

Network == \E c \in Conns : Break(c) \/ Deliver(c) \/ LoseInFlight(c) \/ Close(c)

MainLoop ==
  \/ \E c \in Conns : Connect(c)
  \/ \E id \in todo : Replay(id)
  \/ Select \/ ReplayFails \/ Mark
  \/ Collect \/ Send \/ SendFails \/ BackUp \/ Reconnect
  \/ Exit \/ ReturnFromMain

Writer == WriterRecv \/ WriterTick

Environment == BusFrame \/ Shutdown \/ Crash \/ Checkpoint \/ PowerLoss \/ Restart

Next == Network \/ MainLoop \/ Writer \/ Environment

Spec == Init /\ [][Next]_vars

\* The tasks of the runtime are scheduled fairly, a reachable server accepts a
\* connection in the end and reads what arrives, systemd restarts the process.
Fairness ==
  /\ WF_vars(MainLoop)
  /\ WF_vars(Writer)
  /\ WF_vars(Restart)
  /\ \A c \in Conns : WF_vars(Deliver(c)) /\ WF_vars(Close(c))

FairSpec == Spec /\ Fairness

-----------------------------------------------------------------------------
(* Properties *)

Increasing(s) == \A i, j \in DOMAIN s : i < j => s[i] < s[j]

PipelineOK ==
  /\ arrived \in 0..MaxFrame
  /\ rx \in Seq(Frame) /\ Len(rx) <= ChanCap
  /\ running \in BOOLEAN

LoopOK ==
  /\ pc \in PC
  /\ conn \in Conns \cup {NoConn}
  /\ batch \in Seq(Frame) /\ Len(batch) <= BatchSize
  /\ pos \in Nat \ {0}
  /\ pc \in {"send", "backup"} => pos <= Len(batch)
  /\ pc \in {"select", "replay", "mark", "collect", "send", "backup"} => conn \in Conns

WriterOK ==
  /\ sqlite \in Seq(Frame) /\ Len(sqlite) <= SqliteCap
  /\ pending \in Seq(Frame) /\ Len(pending) < FlushAt

TableOK ==
  /\ rows \in Seq(Frame)
  /\ synced \subseteq DOMAIN rows
  /\ todo \subseteq DOMAIN rows
  /\ syncedIds \subseteq DOMAIN rows
  /\ disk \in [rows : Nat, synced : SUBSET Nat]
  /\ disk.rows <= Len(rows) /\ disk.synced \subseteq 1..disk.rows

NetOK ==
  /\ link \in [Conns -> {"free", "up", "dead"}]
  /\ net \in [Conns -> Seq(Frame)]
  /\ last \in [Conns -> 0..MaxFrame]
  /\ got \in [Frame -> 0..MaxCopies]

GoneOK == gone \in [Cause -> SUBSET Frame]

\* Channels and batches stay within their capacities, ids name rows of the table
\* (also after a loss of power), a batch is sent or backed up at one of its
\* positions, and the loop holds a connection from Connect to the end of the backup.
TypeOK == PipelineOK /\ LoopOK /\ WriterOK /\ TableOK /\ NetOK /\ GoneOK

\* Every frame that arrived is held by the edge, has been read by the server, is
\* in flight, or a copy of it was dropped at one of the six points where the code
\* can drop one: no handover between tasks, and no error path, loses another.
NoUnexplainedLoss ==
  \A f \in 1..arrived : f \in Held \cup Written \cup UNION {gone[x] : x \in Cause}

\* A row is marked only if its own frame was handed to the kernel: a replay that
\* breaks off, or rows flushed by the writer in the meantime, never mark more.
SyncedRowsWereWritten == \A i \in synced : rows[i] \in Written

\* The frames of one connection are read oldest first, the backlog before the
\* live frames, whatever was diverted and replayed before.
InOrderPerConnection == \A c \in Conns : Increasing(<<last[c]>> \o net[c])

\* The server sees a frame twice only if a row of the backup holds it (or held it,
\* before a loss of power).
CopiesComeFromBackup == \A f \in Frame : got[f] > 1 => f \in Range(rows) \cup gone["power"]

\* Without a crash and without an SQLite error a frame is delivered at most twice:
\* once from a batch that failed later on, once by the replay.
AtMostTwoCopies == \A f \in Frame : got[f] <= 2

\* Rows are in the order of arrival, so the LIMIT of the replay takes the oldest,
\* and no frame is stored twice.
BackupIsOrdered == Increasing(rows)

\* The backlog only grows by what arrived and only shrinks by what was written.
Delivered == {f \in Frame : got[f] > 0}
Abstract == INSTANCE StoreForward
              WITH accepted <- arrived, backlog <- Backlog,
                   written <- Written, delivered <- Delivered
ImplementsStoreForward == Abstract!Spec

\* A failing connection, at whatever moment it fails, never wedges the main loop:
\* a frame in the pipeline is taken out of it.
PipelineMovesOn == \A f \in Frame : f \in Range(rx) ~> f \notin Range(rx)

\* A diverted frame reaches the table unless the process ends first.
DivertedFramesAreStored ==
  \A f \in Frame : f \in Range(sqlite) ~> f \in Range(rows) \cup gone["death"]

\* checklist_telemetria.md:186, "Backup local SQLite quando offline ... aguenta
\* 2h+ sem conexao": while the edge is offline, a frame is not dropped at the bus
\* as long as the backup still takes frames.
OfflineFramesAreBackedUp ==
  [][gone'["bus"] # gone["bus"] /\ conn = NoConn => ~RoomForBackup]_vars

\* The backup is a faithful record of the frames that were diverted: in the order of
\* arrival, each once, and the only source of what the server receives a second time.
BackupIsFaithful == CopiesComeFromBackup /\ BackupIsOrdered

\* The server reads each connection in order and no frame a third time.
DeliveredInOrder == InOrderPerConnection /\ AtMostTwoCopies

\* No frame stays on the edge for ever outside its backup.
FramesMoveOn == PipelineMovesOn /\ DivertedFramesAreStored
===============================================================================
