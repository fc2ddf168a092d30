---------------------------- MODULE TelemetryWorker ----------------------------
(***************************************************************************)
(* The dashboard's Web Worker (static/src/workers/worker.js): the          *)
(* WebSocket and its reconnection, the collection it records, and the      *)
(* coalescing of signals into one message to the page every 50 ms.         *)
(*                                                                         *)
(* Each handler of the worker runs to completion, so it is one action; the *)
(* page and the worker talk over two FIFO channels.  Frames are numbered   *)
(* as they are handled: the number stands for the timestamp, 0 for null.   *)
(* The buffers of the charts are the module SeriesOps; the counters of the *)
(* console and the frame rate are left out.                                *)
(***************************************************************************)
EXTENDS CanSignals

CONSTANTS
  CanIds,      (* the ids of the frames sent by the server                  *)
  CanMap,      (* /api/can-map: the descriptors of an id, or none           *)
  Payload,     (* the data of the n-th frame handled                        *)
  MaxFrames,   (* frames handled (bound)                                    *)
  MaxQueue,    (* events wait while the page is that far behind (bound)     *)
  MaxLate      (* sockets given up, or timers forgotten, at a time (bound)  *)

ASSUME WorkerAssumption ==
  /\ DOMAIN CanMap \subseteq CanIds
  /\ MaxFrames \in Nat /\ MaxQueue \in Nat /\ MaxLate \in Nat

VARIABLES
  toWorker,   (* messages of the page, in order                             *)
  toPage,     (* messages of the worker, in order                           *)
  ws,         (* readyState of ws, or "none"                                *)
  late,       (* abandoned sockets whose error event is still to come       *)
  timer,      (* the timer whose handle is in reconnectTimer is running     *)
  strays,     (* reconnection timers whose handle was overwritten           *)
  canMap,     (* CAN_MAP: empty, empty but requested, or loaded             *)
  enabled,    (* telemetryCollectionEnabled                                 *)
  first,      (* sessionStartTimestamp                                      *)
  last,       (* latestFrameTimestamp                                       *)
  latest,     (* latest: the entry of each signal                           *)
  pending,    (* pendingSignals                                             *)
  handle,     (* uiFlushTimer # null                                        *)
  flushes,    (* flush timers running                                       *)
  clock,      (* frames handled so far                                      *)
  told        (* what the last status posted was worth (history)            *)

socket == <<ws, late, timer, strays>>
session == <<enabled, first, last>>
signals == <<latest, pending, handle, flushes>>
workerVars == <<toPage, socket, canMap, session, signals, clock, told>>

Generator == 1792  \* 0x700

WorkerInit ==
  /\ ws = "none" /\ late = 0 /\ timer = FALSE /\ strays = 0
  /\ canMap = "empty"
  /\ enabled = FALSE /\ first = 0 /\ last = 0
  /\ latest = << >> /\ pending = {} /\ handle = FALSE /\ flushes = 0
  /\ told = "truth"

(* A new page makes a new worker.                                          *)
NewWorker ==
  /\ ws' = "none" /\ late' = 0 /\ timer' = FALSE /\ strays' = 0
  /\ canMap' = "empty"
  /\ enabled' = FALSE /\ first' = 0 /\ last' = 0
  /\ latest' = << >> /\ pending' = {} /\ handle' = FALSE /\ flushes' = 0
  /\ told' = "truth"

Post(messages) == toPage' = toPage \o messages
Status(state) == [type |-> "status", state |-> state]
Bounds(from, to) == [type |-> "bounds", from |-> from, to |-> to]
Room == Len(toPage) < MaxQueue

-----------------------------------------------------------------------------
(* Coalescing.                                                             *)

(* What flushSignals posts.                                                *)
Batch == IF pending = {} THEN << >>
         ELSE << [type |-> "signals", items |-> [n \in pending |-> latest[n]]] >>

(* What flushSignals leaves.  Called other than by the timer, it does not  *)
(* stop the timer.                                                         *)
(* Mutant: the handle of the timer is kept.                                *)
FlushedOnly == pending' = {} /\ UNCHANGED handle
Flushed == pending' = {} /\ handle' = FALSE

FlushTimer ==
  /\ flushes > 0 /\ Room
  /\ flushes' = flushes - 1
  /\ Flushed
  /\ Post(Batch)
  /\ UNCHANGED <<socket, canMap, session, latest, clock, told>>

(* The entries of a table with those of another put over them.             *)
Over(new, old) == [n \in DOMAIN new \cup DOMAIN old |-> IF n \in DOMAIN new THEN new[n] ELSE old[n]]

(* emitSignal, for all that a frame publishes.                             *)
Emit(values, id) ==
  /\ latest' = Over([n \in DOMAIN values |-> [value |-> values[n], at |-> clock + 1, id |-> id]], latest)
  /\ pending' = pending \cup DOMAIN values
  /\ handle' = TRUE
  /\ flushes' = IF handle THEN flushes ELSE flushes + 1

-----------------------------------------------------------------------------
(* Frames.  The frame rate is posted, as a status, once in five seconds.   *)

NewSession(id) == id # Generator /\ first = 0

HandleFrame(id) ==
  LET known == canMap = "loaded" /\ id \in DOMAIN CanMap IN
  /\ ws = "open" /\ enabled /\ Room /\ clock < MaxFrames
  /\ clock' = clock + 1
  /\ first' = IF NewSession(id) THEN clock + 1 ELSE first
  /\ last' = IF id = Generator THEN last ELSE clock + 1
  /\ IF known THEN Emit(Published(id, Payload[clock + 1], CanMap[id]), id)
              ELSE UNCHANGED signals
  /\ \E rate \in {<< >>} \cup (IF known THEN {<< Status("connected") >>} ELSE {}) :
       /\ Post(rate)
       /\ told' = IF rate = << >> THEN told ELSE "truth"
  /\ UNCHANGED <<socket, canMap, enabled>>

(* A failure to load the map is posted, but nobody handles it; and the     *)
(* request is made again only with another login.                          *)
MapAnswer ==
  /\ canMap = "loading"
  /\ canMap' \in {"loaded", "empty"}
  /\ UNCHANGED <<toPage, socket, session, signals, clock, told>>

-----------------------------------------------------------------------------
(* The WebSocket.                                                          *)

(* Closing a socket that has not opened yet makes an error event, and its  *)
(* onerror is still there.                                                 *)
GivenUp == late + (IF ws = "connecting" THEN 1 ELSE 0)

(* connect(): the reconnection timer, if one is set, is left alone.        *)
Connect ==
  /\ ws' = "connecting"
  /\ late' = GivenUp

Opened ==
  /\ ws = "connecting" /\ Room
  /\ ws' = "open" /\ timer' = FALSE
  /\ Post(<< Status("connected") >>)
  /\ told' = "truth"
  /\ UNCHANGED <<late, strays, canMap, session, signals, clock>>

(* A new timer takes the place of the handle of one that may still run.    *)
Closed(posts) ==
  /\ ws \in {"connecting", "open"} /\ Room
  /\ timer => strays < MaxLate
  /\ ws' = "closed"
  /\ timer' = TRUE
  /\ strays' = strays + (IF timer THEN 1 ELSE 0)
  /\ Post(posts)
  /\ told' = "truth"
  /\ UNCHANGED <<late, canMap, session, signals, clock>>

(* Mutant: the page is not told.                                           *)
NothingPosted == << >>
OnClosePosts == << Status("disconnected") >>

ClosedCleanly == ws = "open" /\ Closed(OnClosePosts)
Failed == Closed(<< Status("error") >> \o OnClosePosts)

LateError ==
  /\ late > 0 /\ Room
  /\ late' = late - 1
  /\ Post(<< Status("error") >>)
  /\ told' = "late"
  /\ UNCHANGED <<ws, timer, strays, canMap, session, signals, clock>>

ReconnectTimer ==
  /\ timer /\ late < MaxLate
  /\ timer' = FALSE
  /\ Connect
  /\ UNCHANGED <<toPage, strays, canMap, session, signals, clock, told>>

StrayTimer ==
  /\ strays > 0 /\ late < MaxLate
  /\ strays' = strays - 1
  /\ Connect
  /\ UNCHANGED <<toPage, timer, canMap, session, signals, clock, told>>

-----------------------------------------------------------------------------
(* Commands of the page.                                                   *)

Command(cmd) == Room /\ toWorker # << >> /\ Head(toWorker).cmd = cmd /\ toWorker' = Tail(toWorker)

(* loadCanMap and connect, which the page posts together.  A map that is    *)
(* there stays until it is replaced by the same one.                       *)
DoConnect ==
  /\ Command("connect") /\ GivenUp <= MaxLate
  /\ canMap' = IF canMap = "empty" THEN "loading" ELSE canMap
  /\ Connect
  /\ UNCHANGED <<toPage, timer, strays, session, signals, clock, told>>

DoEnable ==
  /\ Command("enable")
  /\ enabled' = TRUE
  /\ UNCHANGED <<toPage, socket, canMap, first, last, signals, clock, told>>

(* Mutant: the limit of the log is where it begins.                        *)
StopAtStart == first
StopLimit == last

(* The limits of the log come with the end of the collection.  Any socket, *)
(* even one that is closed or not yet open, is called connected.           *)
DoDisable ==
  /\ Command("disable")
  /\ enabled' = FALSE
  /\ Flushed
  /\ Post(Batch \o << Bounds(first, StopLimit),
                      Status(IF ws = "none" THEN "disconnected" ELSE "connected") >>)
  /\ told' = IF ws \in {"none", "open"} THEN "truth" ELSE "bluff"
  /\ UNCHANGED <<socket, canMap, first, last, latest, flushes, clock>>

DoReset ==
  /\ Command("reset")
  /\ latest' = << >> /\ pending' = {}
  /\ flushes' = IF handle THEN flushes - 1 ELSE flushes
  /\ handle' = FALSE
  /\ first' = 0 /\ last' = 0
  /\ UNCHANGED <<toPage, socket, canMap, enabled, clock, told>>

(* Mutant: the timer is left running.                                      *)
KeepTimer == timer
TimerAfterDisconnect == FALSE

DoDisconnect ==
  /\ Command("disconnect") /\ GivenUp <= MaxLate
  /\ timer' = TimerAfterDisconnect
  /\ ws' = "none" /\ late' = GivenUp
  /\ enabled' = FALSE
  /\ Flushed
  /\ Post(Batch \o << Status("disconnected") >>)
  /\ told' = "truth"
  /\ UNCHANGED <<strays, canMap, first, last, latest, flushes, clock>>

DoCommand == DoConnect \/ DoEnable \/ DoDisable \/ DoReset \/ DoDisconnect

(* What happens in the worker by itself.                                   *)
WorkerEvent ==
  /\ \/ \E id \in CanIds : HandleFrame(id)
     \/ FlushTimer \/ MapAnswer
     \/ Opened \/ ClosedCleanly \/ Failed \/ LateError
     \/ ReconnectTimer \/ StrayTimer
  /\ UNCHANGED toWorker

-----------------------------------------------------------------------------
Frames == 0..MaxFrames
Messages(s) == \A i \in DOMAIN s : s[i].type \in {"signals", "status", "bounds"}

(* Types of the worker's variables.                                        *)
WorkerTypeOK ==
  /\ Messages(toPage)
  /\ ws \in {"none", "connecting", "open", "closed"}
  /\ late \in 0..MaxLate /\ strays \in 0..MaxLate
  /\ timer \in BOOLEAN
  /\ canMap \in {"empty", "loading", "loaded"}
  /\ enabled \in BOOLEAN /\ first \in Frames /\ last \in Frames /\ first <= last
  /\ pending \subseteq DOMAIN latest
  /\ \A n \in DOMAIN latest : latest[n].at \in 1..clock /\ latest[n].id \in CanIds
  /\ handle \in BOOLEAN /\ flushes \in Nat /\ (pending # {} => handle)
  /\ (handle => flushes > 0)
  /\ clock \in Frames /\ told \in {"truth", "bluff", "late"}
=============================================================================
