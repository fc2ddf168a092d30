------------------------------- MODULE Dashboard -------------------------------
(***************************************************************************)
(* A dashboard: the page with its login and its collection controls        *)
(* (static/src/App.jsx, utils/auth.js, utils/permissions.js) and the store *)
(* of what the worker reports (static/src/store.js), with the worker       *)
(* itself (TelemetryWorker).                                               *)
(*                                                                         *)
(* A handler of the page that awaits something is one action up to there   *)
(* and one for what follows.  The server is what its answers may be; how   *)
(* its handlers interleave is CollectionSessions.                          *)
(***************************************************************************)
EXTENDS TelemetryWorker

CONSTANTS
  MaxAsked,    (* logins whose status request is unanswered (bound)         *)
  MaxCommands  (* the user waits while the worker is that far behind (bound) *)

ASSUME PageAssumption == MaxAsked \in Nat /\ MaxCommands \in Nat

VARIABLES
  user,      (* is there a session(): "in" or "out"                         *)
  asked,     (* status requests in flight                                   *)
  mode,      (* telemetryMode()                                             *)
  call,      (* what a start or a stop under way awaits                     *)
  resolver,  (* pendingCollectionBounds: whose promise it resolves          *)
  shown,     (* signals                                                     *)
  status,    (* status.state                                                *)
  crossed,   (* a login overtook an unfinished one (history)                *)
  behind,    (* a stop was sent with limits still to come (history)         *)
  leftover   (* the store was cleared with signals on their way (history)   *)

controls == <<asked, mode, call, resolver>>
store == <<shown, status>>
history == <<crossed, behind, leftover>>
pageVars == <<user, controls, store, history>>
vars == <<toWorker, workerVars, pageVars>>

PageInit ==
  /\ user = "out"
  /\ asked = 0
  /\ mode = "idle" /\ call = "none" /\ resolver = "none"
  /\ shown = << >> /\ status = "disconnected"
  /\ crossed = FALSE /\ behind = FALSE /\ leftover = FALSE

Init ==
  /\ WorkerInit /\ PageInit
  /\ toWorker = << >> /\ toPage = << >> /\ clock = 0

Send(commands) == toWorker' = toWorker \o commands
Cmd(name) == << [cmd |-> name] >>
Ready == Len(toWorker) < MaxCommands

-----------------------------------------------------------------------------
(* Logging in and out.                                                     *)

(* authenticateDashboard, up to its request for the status.                *)
Authenticate ==
  /\ status' = "connecting"
  /\ Send(Cmd("connect"))
  /\ asked' = asked + 1

(* The form is there until the first status answer, and may be used again: *)
(* what a login may overtake.                                              *)
Unfinished == asked > 0 \/ call # "none" \/ strays > 0

(* Two logins overlap only before anything is recorded (bound).            *)
Login ==
  /\ user = "out" /\ Ready
  /\ asked < MaxAsked /\ late < MaxLate
  /\ asked > 0 => clock = 0 /\ call = "none"
  /\ Authenticate
  /\ crossed' = (Unfinished \/ (crossed /\ (toWorker # << >> \/ ws # "none")))
  /\ UNCHANGED <<workerVars, user, mode, call, resolver, shown, behind, leftover>>

(* A new page and a new worker.  A stored token that is still valid logs   *)
(* in; an expired one is removed.                                          *)
Reload ==
  /\ user = "in"
  /\ NewWorker /\ toPage' = << >> /\ UNCHANGED clock
  /\ user' = "out" /\ mode' = "idle"
  /\ call' = "none" /\ resolver' = "none"
  /\ shown' = << >>
  /\ crossed' = FALSE /\ behind' = FALSE /\ leftover' = FALSE
  /\ \/ /\ toWorker' = Cmd("connect") /\ asked' = 1 /\ status' = "connecting"
     \/ /\ toWorker' = << >> /\ asked' = 0 /\ status' = "disconnected"

(* The status request is answered, or fails, which means not live.  The    *)
(* promise of the limits is made, and nobody waits for it.                 *)
StatusAnswer(live) ==
  /\ asked > 0
  /\ asked' = asked - 1
  /\ Send(Cmd(IF live THEN "enable" ELSE "disable"))
  /\ resolver' = IF live THEN resolver ELSE "nobody"
  /\ mode' = IF live THEN "live" ELSE "idle"
  /\ user' = "in"
  /\ UNCHANGED <<workerVars, call, store, history>>

(* handleLogout *)
LogOut ==
  /\ user' = "out"
  /\ Send(Cmd("disconnect"))
  /\ mode' = "idle"

Logout ==
  /\ user = "in" /\ Ready
  /\ LogOut
  /\ UNCHANGED <<workerVars, asked, call, resolver, store, history>>

-----------------------------------------------------------------------------
(* Starting and stopping.                                                  *)

(* After an overlap of two logins only the connection is followed (bound). *)
MayControl == user = "in" /\ call = "none" /\ Ready /\ ~crossed

Begin(what) ==
  /\ call' = what
  /\ UNCHANGED <<toWorker, workerVars, user, asked, mode, resolver, store, history>>

StartTelemetry == MayControl /\ mode # "live" /\ Begin("start")
StopTelemetry == MayControl /\ mode = "live" /\ Begin("stop")

(* Mutant: the signals of the collection before stay.                      *)
KeepShown == shown
ShownAfterReset == << >>

(* What may still bring a signal of before the reset to the store.         *)
SignalsOnTheirWay ==
  \/ enabled \/ pending # {}
  \/ \E i \in DOMAIN toPage : toPage[i].type = "signals"
  \/ \E i \in DOMAIN toWorker : toWorker[i].cmd = "enable"

StartAnswer ==
  /\ call = "start"
  /\ shown' = ShownAfterReset
  /\ Send(Cmd("reset") \o Cmd("enable"))
  /\ mode' = "live" /\ call' = "none"
  /\ leftover' = SignalsOnTheirWay
  /\ UNCHANGED <<workerVars, user, asked, resolver, status, crossed, behind>>

(* Some limits of the log are still to reach the page.                     *)
LimitsToCome ==
  \/ \E i \in DOMAIN toWorker : toWorker[i].cmd = "disable"
  \/ \E i \in DOMAIN toPage : toPage[i].type = "bounds"

(* The stop is done: the worker is asked for the limits of the log.        *)
StopAnswer ==
  /\ call = "stop"
  /\ Send(Cmd("disable"))
  /\ resolver' = "stop" /\ call' = "limits"
  /\ behind' = LimitsToCome
  /\ UNCHANGED <<workerVars, user, asked, mode, store, crossed, leftover>>

(* The limits are recorded, or not: the collection is over.                *)
LimitsAnswer ==
  /\ call = "record"
  /\ mode' = "stopped" /\ call' = "none"
  /\ UNCHANGED <<toWorker, workerVars, user, asked, resolver, store, history>>

(* Refused, or failed.                                                     *)
Refused ==
  /\ call \in {"start", "stop"}
  /\ call' = "none"
  /\ UNCHANGED <<toWorker, workerVars, user, asked, mode, resolver, store, history>>

(* 401: the token has expired.                                             *)
Denied ==
  /\ call \in {"start", "stop"}
  /\ LogOut /\ call' = "none"
  /\ UNCHANGED <<workerVars, asked, resolver, store, history>>

-----------------------------------------------------------------------------
(* Messages of the worker.                                                 *)

Message(type) == toPage # << >> /\ Head(toPage).type = type /\ toPage' = Tail(toPage)
Received == Head(toPage)
workerButPosts == <<socket, canMap, session, signals, clock, told>>

OnSignals ==
  /\ Message("signals")
  /\ shown' = Over(Received.items, shown)
  /\ UNCHANGED <<status, mode, call, resolver>>

OnStatus ==
  /\ Message("status")
  /\ status' = Received.state
  /\ UNCHANGED <<shown, mode, call, resolver>>

(* The promise goes to whoever asked last; a stop goes on with it, and has *)
(* nothing to record if there was no frame.                                *)
OnBounds ==
  /\ Message("bounds")
  /\ resolver' = "none"
  /\ IF resolver # "stop" THEN UNCHANGED <<mode, call>>
     ELSE IF Received.from # 0 /\ Received.to # 0
     THEN call' = "record" /\ UNCHANGED mode
     ELSE mode' = "stopped" /\ call' = "none"
  /\ UNCHANGED store

Receive ==
  /\ OnSignals \/ OnStatus \/ OnBounds
  /\ UNCHANGED <<toWorker, workerButPosts, user, asked, history>>

-----------------------------------------------------------------------------
Next ==
  \/ \E live \in BOOLEAN : StatusAnswer(live)
  \/ Login \/ Reload \/ Logout
  \/ StartTelemetry \/ StopTelemetry
  \/ StartAnswer \/ StopAnswer \/ LimitsAnswer \/ Refused \/ Denied
  \/ Receive
  \/ DoCommand /\ UNCHANGED pageVars
  \/ WorkerEvent /\ UNCHANGED pageVars /\ (crossed => UNCHANGED clock)

(* The event loops of page and worker leave no task waiting for ever; a    *)
(* task of the worker may be held up by the bound on its messages, again   *)
(* and again.                                                              *)
Fairness ==
  /\ WF_vars(Receive)
  /\ SF_vars(DoCommand /\ UNCHANGED pageVars)
  /\ SF_vars(LateError /\ UNCHANGED <<toWorker, pageVars>>)
  /\ SF_vars(FlushTimer /\ UNCHANGED <<toWorker, pageVars>>)

Spec == Init /\ [][Next]_vars /\ Fairness

-----------------------------------------------------------------------------
(* Types, with what ties the pending signals to the timer that posts them. *)
TypeOK ==
  /\ WorkerTypeOK
  /\ user \in {"in", "out"}
  /\ asked \in 0..MaxAsked
  /\ mode \in {"idle", "live", "stopped"}
  /\ call \in {"none", "start", "stop", "limits", "record"}
  /\ resolver \in {"none", "nobody", "stop"}
  /\ status \in {"disconnected", "connecting", "connected", "error"}
  /\ crossed \in BOOLEAN /\ behind \in BOOLEAN /\ leftover \in BOOLEAN

Quiet == toWorker = << >> /\ toPage = << >>

(* With nobody logged in there is no socket and no timer that would make   *)
(* one; with somebody there is one, of that user, or it is on its way      *)
(* back.  Two logins that overlap are the exception: the later status      *)
(* answer decides whose page it is, even after a logout.                   *)
SocketFollowsSession ==
  toWorker = << >> /\ asked = 0 /\ ~crossed =>
    IF user = "out"
    THEN ws = "none" /\ ~timer /\ strays = 0
    ELSE ws \in {"connecting", "open"} \/ timer

(* What the page says of the connection is so, but for the end of a        *)
(* collection, which calls any socket connected, and the late error of a   *)
(* socket given up before it opened.                                       *)
StatusTellsSocket ==
  Quiet /\ told = "truth" /\ ~crossed => (status = "connected" <=> ws = "open")

(* The connection is that of the session, and the page says how it is.     *)
ConnectionTellsTheTruth == SocketFollowsSession /\ StatusTellsSocket

(* The page shows no signal of an earlier collection, unless the store was *)
(* cleared with some on their way from the worker, and none that is newer  *)
(* than what the worker has.                                               *)
NothingStaleShown ==
  ~leftover /\ (\A i \in DOMAIN toWorker : toWorker[i].cmd # "reset") =>
    \A n \in DOMAIN shown : n \in DOMAIN latest /\ shown[n].at <= latest[n].at

(* The signals of a frame change together, whatever is on the screen: so   *)
(* the speed shown is that of the components shown beside it.              *)
FramesShownWhole ==
  /\ \A n, m \in DOMAIN shown : shown[n].id = shown[m].id => shown[n].at = shown[m].at
  /\ Plain("INS_SPEED") \in DOMAIN shown =>
       shown[Plain("INS_SPEED")].value =
         shown[Plain("VELOCITY_N")].value^2 + shown[Plain("Speed_Linear_Y")].value^2

(* With nothing under way the worker records exactly when the page says    *)
(* so.                                                                     *)
ModeMatchesWorker ==
  Quiet /\ asked = 0 /\ call = "none" /\ ~crossed /\ user = "in" => (enabled <=> mode = "live")

(* A stop goes on with the limits of what was recorded, not with those an  *)
(* earlier command left behind.                                            *)
StopGetsItsBounds ==
  resolver = "stop" /\ toPage # << >> /\ Received.type = "bounds" /\ ~behind /\ ~crossed =>
    Received.from = first /\ Received.to = last

(* A stop, or a status answer, leaves the page and the worker agreed, on   *)
(* whether there is a collection and on what its log is.                   *)
StopIsExact == ModeMatchesWorker /\ StopGetsItsBounds

(* Again and again the page shows what the worker has, without waiting for *)
(* another frame.                                                          *)
LastValueShown == []<>(leftover \/ shown = latest)
=============================================================================
