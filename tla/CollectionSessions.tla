-------------------------- MODULE CollectionSessions --------------------------
(***************************************************************************)
(* Starting and stopping a collection: the HTTP handlers of the server     *)
(* (telemetry-server/src/api/collection.rs) over the SQLite table          *)
(* telemetry_log_sessions, and the dashboards that call them               *)
(* (static/src/App.jsx, store.js, workers/worker.js).                      *)
(*                                                                         *)
(* Every HTTP request is a task of the server, so the statements of two    *)
(* handlers interleave: a handler is one action per SQL statement.  On the *)
(* dashboard the rest of a handler after an await runs when the answer     *)
(* arrives, whatever the page has become meanwhile; a reload of the page   *)
(* is what discards it.                                                    *)
(*                                                                         *)
(* `clock' is the time stamped on the frames and, the car's clock being    *)
(* synchronised with it, the server's.  Instants are positive: 0 is null.  *)
(* Definitions marked "mutant" are wrong variants of the one that follows  *)
(* them; no part of the specification uses them.                           *)
(***************************************************************************)
EXTENDS Integers, Sequences, FiniteSets, FiniteSetsExt

CONSTANTS
  Dashboards,   (* open browser pages                                     *)
  NoDash,       (* the page that made a call has been reloaded            *)
  Controllers,  (* dashboards of users with the start and stop permissions *)
  Flaky,        (* dashboards on a bad link: answers are lost, and users   *)
                (* log in, log out or reload without waiting for one      *)
  Calls,        (* slots for the requests in flight                       *)
  MaxTime,      (* the clock stops here: bounds the model                 *)
  MaxSessions,  (* no start is requested beyond these sessions (bound)    *)
  MaxLog,       (* longest log accepted: 7200 seconds in the code         *)
  Faults        (* what may go wrong: FaultKinds                          *)

(* "db": a statement fails; "expired": a token expires; "replay": the car  *)
(* sends frames of the past, kept in its backup while it had no connection. *)
FaultKinds == {"db", "expired", "replay"}

ASSUME ConstantsAssumption ==
  /\ MaxTime \in Nat \ {0} /\ MaxSessions \in Nat /\ MaxLog \in Nat
  /\ NoDash \notin Dashboards
  /\ Controllers \subseteq Dashboards /\ Flaky \subseteq Dashboards
  /\ IsFiniteSet(Calls)
  /\ Faults \subseteq FaultKinds

VARIABLES
  clock,     (* the current instant                                       *)
  sessions,  (* telemetry_log_sessions, by id                             *)
  track,     (* the session whose start last cleared the track map        *)
  call,      (* the request in each slot                                  *)
  user,      (* session(): is somebody logged in on the page              *)
  mode,      (* telemetryMode()                                           *)
  pending,   (* telemetryActionPending()                                  *)
  enabled,   (* the worker's telemetryCollectionEnabled                   *)
  first,     (* the worker's sessionStartTimestamp                        *)
  latest,    (* the worker's latestFrameTimestamp                         *)
  linked,    (* the worker has a WebSocket, or tries to get one back      *)
  replayed   (* some frame handled was one of the past (history)          *)

page == <<user, mode, pending>>
worker == <<enabled, first, latest, linked, replayed>>
server == <<sessions, track>>
vars == <<clock, server, call, page, worker>>

Time == 0..MaxTime
Ops == {"none", "status", "start", "stop", "bounds"}
Answers == {"live", "idle", "ok", "refused", "denied"}
Stages == {"sent", "write", "reset"} \cup Answers
SessionIds == 1..(MaxSessions + Cardinality(Calls))
SessionRow == [start : Time, end : Time, from : Time, to : Time, length : Time]
CallState == [op : Ops, by : Dashboards \cup {NoDash}, at : Stages,
              id : SessionIds \cup {0}, from : Time, to : Time]

Free == [op |-> "none", by |-> NoDash, at |-> "sent", id |-> 0, from |-> 0, to |-> 0]
Request(op, d) == [Free EXCEPT !.op = op, !.by = d]
InFlight(d) == {c \in Calls : call[c].by = d}

Init ==
  /\ clock = 1
  /\ sessions = << >>
  /\ track = 0
  /\ call = [c \in Calls |-> Free]
  /\ user = [d \in Dashboards |-> "out"]
  /\ mode = [d \in Dashboards |-> "idle"]
  /\ pending = [d \in Dashboards |-> FALSE]
  /\ enabled = [d \in Dashboards |-> FALSE]
  /\ first = [d \in Dashboards |-> 0]
  /\ latest = [d \in Dashboards |-> 0]
  /\ linked = [d \in Dashboards |-> FALSE]
  /\ replayed = FALSE

-----------------------------------------------------------------------------
(* The car: time passes, and a frame reaches a dashboard that collects.    *)

Tick ==
  /\ clock < MaxTime
  /\ clock' = clock + 1
  /\ UNCHANGED <<server, call, page, worker>>

Stamps == IF "replay" \in Faults THEN 1..clock ELSE {clock}

(* Only a page that can stop collections has a use for the timestamps.     *)
HandleFrame(d) ==
  /\ d \in Controllers
  /\ linked[d] /\ enabled[d]
  /\ \E t \in Stamps :
       /\ first' = [first EXCEPT ![d] = IF @ = 0 THEN t ELSE @]
       /\ latest' = [latest EXCEPT ![d] = t]
       /\ replayed' = (replayed \/ t < clock)
  /\ UNCHANGED <<clock, server, call, page, enabled, linked>>

-----------------------------------------------------------------------------
(* What a user does.                                                       *)

FreeSlots == {c \in Calls : call[c] = Free}
Send(op, d) ==
  /\ FreeSlots # {}
  /\ call' = [call EXCEPT ![CHOOSE c \in FreeSlots : TRUE] = Request(op, d)]

MayMove(d) == InFlight(d) = {} \/ d \in Flaky

(* A login, or the page mounting with a stored token that is still valid.  *)
Login(d) ==
  /\ user[d] = "out" /\ MayMove(d)
  /\ linked' = [linked EXCEPT ![d] = TRUE]
  /\ Send("status", d)
  /\ UNCHANGED <<clock, server, page, enabled, first, latest, replayed>>

StartTelemetry(d) ==
  /\ d \in Controllers
  /\ user[d] = "in" /\ mode[d] # "live" /\ ~pending[d]
  /\ Len(sessions) < MaxSessions
  /\ Send("start", d)
  /\ pending' = [pending EXCEPT ![d] = TRUE]
  /\ UNCHANGED <<clock, server, user, mode, worker>>

StopTelemetry(d) ==
  /\ d \in Controllers
  /\ user[d] = "in" /\ mode[d] = "live" /\ ~pending[d]
  /\ Send("stop", d)
  /\ pending' = [pending EXCEPT ![d] = TRUE]
  /\ UNCHANGED <<clock, server, user, mode, worker>>

(* handleLogout, with the worker's 'disconnect': the calls go on.          *)
LogOut(d) ==
  /\ user' = [user EXCEPT ![d] = "out"]
  /\ mode' = [mode EXCEPT ![d] = "idle"]
  /\ pending' = [pending EXCEPT ![d] = FALSE]
  /\ enabled' = [enabled EXCEPT ![d] = FALSE]
  /\ linked' = [linked EXCEPT ![d] = FALSE]
  /\ UNCHANGED <<first, latest, replayed>>

Logout(d) ==
  /\ user[d] = "in" /\ MayMove(d)
  /\ LogOut(d)
  /\ UNCHANGED <<clock, server, call>>

(* A reload builds a new page and worker; the server still runs the calls. *)
Reload(d) ==
  /\ user[d] = "in" /\ MayMove(d)
  /\ user' = [user EXCEPT ![d] = "out"]
  /\ mode' = [mode EXCEPT ![d] = "idle"]
  /\ pending' = [pending EXCEPT ![d] = FALSE]
  /\ enabled' = [enabled EXCEPT ![d] = FALSE]
  /\ first' = [first EXCEPT ![d] = 0]
  /\ latest' = [latest EXCEPT ![d] = 0]
  /\ linked' = [linked EXCEPT ![d] = FALSE]
  /\ call' = [c \in Calls |-> IF call[c].by = d THEN [call[c] EXCEPT !.by = NoDash] ELSE call[c]]
  /\ UNCHANGED <<clock, server, replayed>>

-----------------------------------------------------------------------------
(* The server's handlers, one statement at a time.                         *)

Active(rows) == {i \in DOMAIN rows : rows[i].end = 0}

Ended == DOMAIN sessions \ Active(sessions)
Newest(ids) == Max(ids)

(* ORDER BY ended_at_unix DESC, id DESC LIMIT 1 *)
LatestEnded ==
  CHOOSE i \in Ended : \A j \in Ended :
    \/ sessions[j].end < sessions[i].end
    \/ sessions[j].end = sessions[i].end /\ j <= i

(* Mutant: the newest session is reported whatever its state. *)
AnyStatus(rows) == IF rows # << >> THEN "live" ELSE "idle"
Status(rows) == IF Active(rows) # {} THEN "live" ELSE "idle"

(* Mutant: the conflict is not looked for. *)
Always(rows) == TRUE
MayStart(rows) == Active(rows) = {}

At(c, op, stage) == call[c].op = op /\ call[c].at = stage
Become(c, stage) == call' = [call EXCEPT ![c].at = stage]
Pick(c, i) == call' = [call EXCEPT ![c].at = "write", ![c].id = i]

StatusSelect(c) ==
  /\ At(c, "status", "sent")
  /\ Become(c, Status(sessions))
  /\ UNCHANGED <<clock, server, page, worker>>

StartSelect(c) ==
  /\ At(c, "start", "sent")
  /\ Become(c, IF MayStart(sessions) THEN "write" ELSE "refused")
  /\ UNCHANGED <<clock, server, page, worker>>

StartInsert(c) ==
  /\ At(c, "start", "write")
  /\ sessions' = Append(sessions, [start |-> clock, end |-> 0, from |-> 0, to |-> 0, length |-> 0])
  /\ call' = [call EXCEPT ![c].at = "reset", ![c].id = Len(sessions) + 1]
  /\ UNCHANGED <<clock, track, page, worker>>

(* Mutant: the map of the previous collection is kept. *)
KeepTrack(id) == track
TrackAfter(id) == id

StartReset(c) ==
  /\ At(c, "start", "reset")
  /\ track' = TrackAfter(call[c].id)
  /\ Become(c, "ok")
  /\ UNCHANGED <<clock, sessions, page, worker>>

StopSelect(c) ==
  /\ At(c, "stop", "sent")
  /\ IF Active(sessions) = {} THEN Become(c, "refused")
                              ELSE Pick(c, Newest(Active(sessions)))
  /\ UNCHANGED <<clock, server, page, worker>>

StopUpdate(c) ==
  /\ At(c, "stop", "write")
  /\ sessions' = [sessions EXCEPT ![call[c].id].end = clock]
  /\ Become(c, "ok")
  /\ UNCHANGED <<clock, track, page, worker>>

ValidBounds(r) == r.from <= r.to /\ r.to - r.from <= MaxLog

BoundsSelect(c) ==
  /\ At(c, "bounds", "sent")
  /\ IF ValidBounds(call[c]) /\ Ended # {} THEN Pick(c, LatestEnded)
                                           ELSE Become(c, "refused")
  /\ UNCHANGED <<clock, server, page, worker>>

(* Mutant: the operands are swapped. *)
SwappedLength(r) == r.from - r.to
LogLength(r) == r.to - r.from

BoundsUpdate(c) ==
  /\ At(c, "bounds", "write")
  /\ sessions' = [sessions EXCEPT ![call[c].id].from = call[c].from,
                                  ![call[c].id].to = call[c].to,
                                  ![call[c].id].length = LogLength(call[c])]
  /\ Become(c, "ok")
  /\ UNCHANGED <<clock, track, page, worker>>

(* 401, before the handler does anything; the status needs no permission.  *)
Deny(c) ==
  /\ "expired" \in Faults
  /\ call[c].op \in {"start", "stop", "bounds"} /\ call[c].at = "sent"
  /\ Become(c, "denied")
  /\ UNCHANGED <<clock, server, page, worker>>

(* A statement fails: the handler answers 500. *)
StatementFails(c) ==
  /\ "db" \in Faults
  /\ call[c].op # "none" /\ call[c].at \in {"sent", "write"}
  /\ Become(c, "refused")
  /\ UNCHANGED <<clock, server, page, worker>>

(* The answer does not reach the page, whose fetch fails. *)
ReplyLost(c) ==
  /\ call[c].by \in Flaky
  /\ call[c].at \in Answers \ {"refused"}
  /\ Become(c, "refused")
  /\ UNCHANGED <<clock, server, page, worker>>

-----------------------------------------------------------------------------
(* The rest of the dashboard's handlers, once the answer is there.         *)

Answered(c, op) == call[c].op = op /\ call[c].at \in Answers /\ call[c].by \in Dashboards
Release(c) == call' = [call EXCEPT ![c] = Free]

(* authenticateDashboard: the collection is live exactly if the answer is. *)
StatusAnswer(c) ==
  LET d == call[c].by
      live == call[c].at = "live"
  IN /\ Answered(c, "status")
     /\ enabled' = [enabled EXCEPT ![d] = live]
     /\ mode' = [mode EXCEPT ![d] = IF live THEN "live" ELSE "idle"]
     /\ user' = [user EXCEPT ![d] = "in"]
     /\ Release(c)
     /\ UNCHANGED <<clock, server, pending, first, latest, linked, replayed>>

(* handleTelemetryActionError, then the `finally'. *)
ActionFails(c, d) ==
  /\ Release(c)
  /\ IF call[c].at = "denied"
     THEN LogOut(d)
     ELSE /\ pending' = [pending EXCEPT ![d] = FALSE]
          /\ UNCHANGED <<user, mode, worker>>

(* Mutant: the data of the previous collection is not cleared. *)
KeepFirst(d) == first[d]
FirstAfterStart(d) == 0

StartAnswer(c) ==
  LET d == call[c].by IN
  /\ Answered(c, "start")
  /\ IF call[c].at = "ok"
     THEN /\ first' = [first EXCEPT ![d] = FirstAfterStart(d)]
          /\ latest' = [latest EXCEPT ![d] = 0]
          /\ enabled' = [enabled EXCEPT ![d] = TRUE]
          /\ mode' = [mode EXCEPT ![d] = "live"]
          /\ pending' = [pending EXCEPT ![d] = FALSE]
          /\ Release(c)
          /\ UNCHANGED <<user, linked, replayed>>
     ELSE ActionFails(c, d)
  /\ UNCHANGED <<clock, server>>

(* Mutant: the button stays disabled after an error of the bounds. *)
StillPending(r) == r.at # "ok"
PendingAfterBounds(r) == FALSE

(* The worker stops collecting and reports its limits, which are sent to   *)
(* the server if both are known.                                           *)
StopAnswer(c) ==
  LET d == call[c].by IN
  /\ Answered(c, "stop")
  /\ IF call[c].at = "ok"
     THEN /\ enabled' = [enabled EXCEPT ![d] = FALSE]
          /\ IF first[d] # 0 /\ latest[d] # 0
             THEN /\ call' = [call EXCEPT ![c] = [Request("bounds", d) EXCEPT
                                                    !.from = first[d], !.to = latest[d]]]
                  /\ UNCHANGED page
             ELSE /\ mode' = [mode EXCEPT ![d] = "stopped"]
                  /\ pending' = [pending EXCEPT ![d] = FALSE]
                  /\ Release(c)
                  /\ UNCHANGED user
          /\ UNCHANGED <<first, latest, linked, replayed>>
     ELSE ActionFails(c, d)
  /\ UNCHANGED <<clock, server>>

(* Whatever the answer: an error only adds a message. *)
BoundsAnswer(c) ==
  LET d == call[c].by IN
  /\ Answered(c, "bounds")
  /\ mode' = [mode EXCEPT ![d] = "stopped"]
  /\ pending' = [pending EXCEPT ![d] = PendingAfterBounds(call[c])]
  /\ Release(c)
  /\ UNCHANGED <<clock, server, user, worker>>

(* Nobody waits for the answer any more. *)
Unheard(c) ==
  /\ call[c].op # "none" /\ call[c].at \in Answers /\ call[c].by = NoDash
  /\ Release(c)
  /\ UNCHANGED <<clock, server, page, worker>>

-----------------------------------------------------------------------------
Serve(c) ==
  \/ StatusSelect(c) \/ StartSelect(c) \/ StartInsert(c) \/ StartReset(c)
  \/ StopSelect(c) \/ StopUpdate(c) \/ BoundsSelect(c) \/ BoundsUpdate(c)

Answer(c) ==
  \/ StatusAnswer(c) \/ StartAnswer(c) \/ StopAnswer(c) \/ BoundsAnswer(c) \/ Unheard(c)

Next ==
  \/ Tick
  \/ \E d \in Dashboards :
       \/ HandleFrame(d) \/ Login(d) \/ StartTelemetry(d) \/ StopTelemetry(d)
       \/ Logout(d) \/ Reload(d)
  \/ \E c \in Calls :
       \/ Serve(c) \/ Answer(c)
       \/ Deny(c) \/ StatementFails(c) \/ ReplyLost(c)

Spec == Init /\ [][Next]_vars

-----------------------------------------------------------------------------
(* Types of all variables. *)
TypeOK ==
  /\ clock \in Time
  /\ sessions \in Seq(SessionRow) /\ Len(sessions) \in SessionIds \cup {0}
  /\ track \in SessionIds \cup {0}
  /\ call \in [Calls -> CallState]
  /\ user \in [Dashboards -> {"out", "in"}]
  /\ mode \in [Dashboards -> {"idle", "live", "stopped"}]
  /\ pending \in [Dashboards -> BOOLEAN]
  /\ enabled \in [Dashboards -> BOOLEAN]
  /\ first \in [Dashboards -> Time]
  /\ latest \in [Dashboards -> Time]
  /\ linked \in [Dashboards -> BOOLEAN] /\ replayed \in BOOLEAN

(* There is one collection at a time, as every SELECT ... LIMIT 1 over the *)
(* active sessions supposes.                                               *)
AtMostOneActive == Cardinality(Active(sessions)) <= 1

(* Outside a start under way, the track map is the one begun with the      *)
(* newest session.                                                         *)
TrackFollowsSession ==
  (\A c \in Calls : ~At(c, "start", "reset")) => track = Len(sessions)

(* The log recorded for a session holds no frame from before its start,    *)
(* whichever page measured it and however often it was reloaded, unless    *)
(* the car replayed its backup to a page.                                  *)
LogInsideSession ==
  ~replayed => \A i \in DOMAIN sessions : sessions[i].from # 0 => sessions[i].start <= sessions[i].from

(* The logs of two sessions have no stretch of time in common, unless the   *)
(* car replayed its backup to a page.                                      *)
LogsDisjoint ==
  ~replayed => \A i, j \in DOMAIN sessions :
    i < j /\ sessions[i].from # 0 /\ sessions[j].from # 0 => sessions[i].to <= sessions[j].from

(* A page that can stop collections, shows a live one and waits for nothing *)
(* is right: its stop button has something to stop.  (The page of a member *)
(* is never told that the collection it joined has ended.)                 *)
LiveIsLive ==
  \A d \in Controllers : mode[d] = "live" /\ InFlight(d) = {} => Active(sessions) # {}

(* A disabled button waits for an answer that is under way, so that no      *)
(* error on the way, nor a logout, leaves the page without its controls.   *)
DisabledButtonWaits ==
  \A d \in Dashboards : pending[d] => \E c \in InFlight(d) : call[c].op # "status"

(* The log of a session is of its own frames: none from before its start   *)
(* and none that the log of another session has.                           *)
LogsAreOfTheirSessions == LogInsideSession /\ LogsDisjoint

(* The controls of a page neither offer what cannot be done nor wait for   *)
(* what will not come.                                                     *)
ControlsAreTrue == LiveIsLive /\ DisabledButtonWaits
===============================================================================
