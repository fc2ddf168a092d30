---------------------------- MODULE EmergencyCommand ----------------------------
(***************************************************************************)
(* Stopping the car from the dashboard, and resuming it: the button of an  *)
(* administrator's page (EmergencyButton.jsx), the POST handlers           *)
(* (api/emergency.rs), one command task per TCP connection that receives   *)
(* the broadcast and writes into the connection (ingest.rs), and the       *)
(* edge's reader that puts the command on both CAN buses (main.rs).        *)
(*                                                                         *)
(* A command is its number in `accepted'.  The broadcast channel keeps the *)
(* last BroadcastCap of them; the task of a connection receives those that *)
(* were sent after it subscribed, and outlives the connection.             *)
(* The edge waits a second before it connects again, time enough for the   *)
(* reader of the old connection to end: it has one reader at a time.       *)
(* Copies of a command that go to the dashboards' WebSockets are left out: *)
(* no page uses them.                                                      *)
(* Definitions marked "mutant" are wrong variants of the one that follows  *)
(* them and no part of the specification.                                  *)
(***************************************************************************)
EXTENDS Naturals, Sequences, FiniteSets

CONSTANTS
  Pages,         (* pages of administrators                               *)
  NoPage,        (* the page of a request was reloaded                    *)
  Calls,         (* requests in flight at a time: bounds the model        *)
  Conns,         (* connections of the edge, each made once               *)
  BroadcastCap,  (* messages the broadcast channel keeps: 32 in the code  *)
  MaxCommands,   (* commands sent in a behaviour: bounds the model        *)
  Faults         (* FaultKinds that happen                                *)

FaultKinds == {"can", "reply", "refusal", "reload", "edge", "server"}

ASSUME ConstantsAssumption ==
  /\ BroadcastCap \in Nat \ {0}
  /\ MaxCommands \in Nat
  /\ NoPage \notin Pages
  /\ Faults \subseteq FaultKinds

VARIABLES
  page,       (* per page: the signals of its button, its timers, and as  *)
              (* history: what it was opened for (asked), whether a timer *)
              (* closed it while it waited (cut), whether a command of it *)
              (* has an outcome it was not told (doubt)                   *)
  call,       (* per slot: a request, or Free                             *)
  accepted,   (* commands accepted by the server, in order                *)
  conn,       (* per connection: "none", "backlog" (connected, not yet     *)
              (* accepted), "up", "broken" (its reader still runs), "gone" *)
  task,       (* per connection: next command its task receives, 0 without *)
  wire,       (* per connection: commands written and not yet read        *)
  hand,       (* the command the edge is executing, and the buses left    *)
  executed,   (* per bus: commands put on it                              *)
  since,      (* per connection: what `task' was at first (history)       *)
  unsent      (* commands that were refused by both buses (history)       *)

webVars == <<page, call, accepted>>
serverVars == <<task, since>>
carVars == <<hand, executed, unsent>>
vars == <<webVars, conn, serverVars, wire, carVars>>

Kinds == {"stop", "resume"}
Buses == {"can0", "can1"}
BusOrder == <<"can0", "can1">>
Nothing == [cmd |-> 0, buses |-> <<>>]

Fresh == [killed |-> FALSE, modal |-> FALSE, pending |-> FALSE, timers |-> 0,
          feedback |-> FALSE, asked |-> "stop", cut |-> FALSE, doubt |-> FALSE]
Free == [page |-> NoPage, kind |-> "stop", at |-> "free"]

Init ==
  /\ page = [p \in Pages |-> Fresh]
  /\ call = [r \in Calls |-> Free]
  /\ accepted = <<>>
  /\ conn = [c \in Conns |-> "none"]
  /\ task = [c \in Conns |-> 0]
  /\ since = task
  /\ wire = [c \in Conns |-> <<>>]
  /\ hand = Nothing
  /\ executed = [b \in Buses |-> <<>>]
  /\ unsent = {}

-----------------------------------------------------------------------------
(* The button *)

InFlight(p) == {r \in Calls : call[r].page = p /\ call[r].at # "free"}
Offered(p) == IF page[p].killed THEN "resume" ELSE "stop"

\* Opening clears the feedback of the command before.
OpenModal(p) ==
  /\ ~page[p].pending
  /\ ~page[p].modal
  /\ page' = [page EXCEPT ![p].modal = TRUE, ![p].feedback = FALSE, ![p].cut = FALSE,
                          ![p].asked = Offered(p)]
  /\ UNCHANGED <<call, accepted, conn, serverVars, wire, carVars>>

Anytime(p) == TRUE                                               \* mutant
MayClose(p) == ~page[p].pending

CloseModal(p) ==
  /\ page[p].modal
  /\ MayClose(p)
  /\ page' = [page EXCEPT ![p].modal = FALSE, ![p].feedback = FALSE]
  /\ UNCHANGED <<call, accepted, conn, serverVars, wire, carVars>>

MayConfirm(p) == ~page[p].pending

\* confirmEmergencyStop up to its await.  The modal of a command that has succeeded
\* is open for two more seconds, and offers the opposite one.
Confirm(p) ==
  /\ page[p].modal
  /\ MayConfirm(p)
  /\ page' = [page EXCEPT ![p].pending = TRUE, ![p].feedback = FALSE, ![p].cut = FALSE]
  /\ \E r \in Calls :
       /\ call[r].at = "free"
       /\ call' = [call EXCEPT ![r] = [page |-> p, kind |-> Offered(p), at |-> "sent"]]
  /\ UNCHANGED <<accepted, conn, serverVars, wire, carVars>>

\* The await returns.
Success(r) ==
  LET p == call[r].page
  IN /\ call[r].at = "ok"
     /\ page' = [page EXCEPT ![p].killed = call[r].kind = "stop", ![p].pending = FALSE,
                             ![p].feedback = TRUE, ![p].timers = @ + 1, ![p].doubt = FALSE]
     /\ call' = [call EXCEPT ![r] = Free]
     /\ UNCHANGED <<accepted, conn, serverVars, wire, carVars>>

Toggled(p) == ~page[p].killed                                    \* mutant
AfterFailure(p) == page[p].killed

Failure(r) ==
  LET p == call[r].page
  IN /\ call[r].at = "error"
     /\ page' = [page EXCEPT ![p].killed = AfterFailure(p), ![p].pending = FALSE,
                             ![p].feedback = TRUE]
     /\ call' = [call EXCEPT ![r] = Free]
     /\ UNCHANGED <<accepted, conn, serverVars, wire, carVars>>

StaysOpen(p) == page[p].modal                                    \* mutant
AfterTimer(p) == FALSE

\* The timer of a success closes whatever is open two seconds later.
TimerFires(p) ==
  /\ page[p].timers > 0
  /\ page' = [page EXCEPT ![p].timers = @ - 1, ![p].modal = AfterTimer(p),
                          ![p].feedback = FALSE, ![p].cut = page[p].pending]
  /\ UNCHANGED <<call, accepted, conn, serverVars, wire, carVars>>

\* Requests of the page stay on their way, and nobody waits for their answers.
Reload(p) ==
  /\ "reload" \in Faults
  /\ page' = [page EXCEPT ![p] = [Fresh EXCEPT !.doubt = TRUE]]
  /\ call' = [r \in Calls |-> IF r \notin InFlight(p) THEN call[r]
                              ELSE IF call[r].at = "sent" THEN [call[r] EXCEPT !.page = NoPage]
                              ELSE Free]
  /\ UNCHANGED <<accepted, conn, serverVars, wire, carVars>>

-----------------------------------------------------------------------------
(* The server *)

\* handle_emergency_stop, handle_emergency_resume: the answer is the same whether or
\* not a connection's task is there to receive the command.
Handle(r) ==
  /\ call[r].at = "sent"
  /\ Len(accepted) < MaxCommands
  /\ accepted' = Append(accepted, [kind |-> call[r].kind, page |-> call[r].page])
  /\ call' = [call EXCEPT ![r] = IF @.page = NoPage THEN Free ELSE [@ EXCEPT !.at = "ok"]]
  /\ UNCHANGED <<page, conn, serverVars, wire, carVars>>

\* Token missing or expired, or not an administrator's: 401, 403.
Refuse(r) ==
  /\ "refusal" \in Faults
  /\ call[r].at = "sent"
  /\ call' = [call EXCEPT ![r] = IF @.page = NoPage THEN Free ELSE [@ EXCEPT !.at = "error"]]
  /\ UNCHANGED <<page, accepted, conn, serverVars, wire, carVars>>

\* fetch rejects, though the command was accepted.
ReplyLost(r) ==
  /\ "reply" \in Faults
  /\ call[r].at = "ok"
  /\ call' = [call EXCEPT ![r].at = "error"]
  /\ page' = [page EXCEPT ![call[r].page].doubt = TRUE]
  /\ UNCHANGED <<accepted, conn, serverVars, wire, carVars>>

OldestKept == IF Len(accepted) < BroadcastCap THEN 1 ELSE Len(accepted) - BroadcastCap + 1
LeaveOnLag(c) == 0                                               \* mutant
AfterLag(c) == OldestKept

FromTheOldest == OldestKept                                      \* mutant
Subscribed == Len(accepted) + 1

Accept(c) ==
  /\ conn[c] = "backlog"
  /\ conn' = [conn EXCEPT ![c] = "up"]
  /\ task' = [task EXCEPT ![c] = Subscribed]
  /\ since' = [since EXCEPT ![c] = Len(accepted) + 1]
  /\ UNCHANGED <<webVars, wire, carVars>>

\* recv().await and the three writes; errors of a connection that is gone are ignored.
Send(c) ==
  /\ task[c] \in OldestKept..Len(accepted)
  /\ task' = [task EXCEPT ![c] = @ + 1]
  /\ wire' = IF conn[c] = "up" THEN [wire EXCEPT ![c] = Append(@, task[c])] ELSE wire
  /\ UNCHANGED <<webVars, conn, since, carVars>>

\* RecvError::Lagged
Lag(c) ==
  /\ task[c] \in 1..(OldestKept - 1)
  /\ task' = [task EXCEPT ![c] = AfterLag(c)]
  /\ UNCHANGED <<webVars, conn, since, wire, carVars>>

-----------------------------------------------------------------------------
(* The edge *)

Connect(c) ==
  /\ conn[c] = "none"
  /\ \A d \in Conns : conn[d] \in {"none", "gone"}
  /\ conn' = [conn EXCEPT ![c] = "backlog"]
  /\ UNCHANGED <<webVars, serverVars, wire, carVars>>

\* The command reader of main: a command is taken when the last one was executed.
Read(c) ==
  /\ conn[c] \in {"up", "broken"}
  /\ wire[c] # <<>>
  /\ hand = Nothing
  /\ hand' = [cmd |-> Head(wire[c]), buses |-> BusOrder]
  /\ wire' = [wire EXCEPT ![c] = Tail(@)]
  /\ UNCHANGED <<webVars, conn, serverVars, executed, unsent>>

OnBus(b) == hand.cmd \in {executed[b][i] : i \in DOMAIN executed[b]}
SameHand == [hand EXCEPT !.buses = Tail(@)]                      \* mutant
AfterBus == IF Len(hand.buses) > 1 THEN [hand EXCEPT !.buses = Tail(@)] ELSE Nothing

\* send_emergency_can, one bus after the other.  A bus that fails is logged and left.
WriteCan ==
  /\ hand # Nothing
  /\ hand' = AfterBus
  /\ \/ /\ executed' = [executed EXCEPT ![Head(hand.buses)] = Append(@, hand.cmd)]
        /\ UNCHANGED unsent
     \/ /\ "can" \in Faults
        /\ unsent' = IF AfterBus = Nothing /\ \A b \in Buses : ~OnBus(b)
                     THEN unsent \cup {hand.cmd} ELSE unsent
        /\ UNCHANGED executed
  /\ UNCHANGED <<webVars, conn, serverVars, wire>>

\* The reader of a broken connection has read what had arrived.
ReaderEnds(c) ==
  /\ conn[c] = "broken"
  /\ wire[c] = <<>>
  /\ hand = Nothing
  /\ conn' = [conn EXCEPT ![c] = "gone"]
  /\ UNCHANGED <<webVars, serverVars, wire, carVars>>

-----------------------------------------------------------------------------
(* What fails *)

\* What had not arrived on connection c never does.
Cut(c) == \E n \in 0..Len(wire[c]) : wire' = [wire EXCEPT ![c] = SubSeq(@, 1, n)]

Break(c) ==
  /\ conn[c] \in {"backlog", "up"}
  /\ conn' = [conn EXCEPT ![c] = "broken"]
  /\ Cut(c)
  /\ UNCHANGED <<webVars, serverVars, carVars>>

\* The edge's process ends, and systemd starts it again.
EdgeDies(c) ==
  /\ "edge" \in Faults
  /\ conn[c] \in {"backlog", "up", "broken"}
  /\ conn' = [conn EXCEPT ![c] = "gone"]
  /\ wire' = [wire EXCEPT ![c] = <<>>]
  /\ hand' = Nothing
  /\ UNCHANGED <<webVars, serverVars, executed, unsent>>

\* The server's process ends: its tasks, connections and requests end with it.
ServerDies ==
  /\ "server" \in Faults
  /\ task' = [c \in Conns |-> 0]
  /\ conn' = [c \in Conns |-> IF conn[c] \in {"backlog", "up"} THEN "broken" ELSE conn[c]]
  /\ call' = [r \in Calls |-> IF call[r].page = NoPage THEN Free
                              ELSE [call[r] EXCEPT !.at = "error"]]
  /\ page' = [p \in Pages |->
                [page[p] EXCEPT !.doubt = @ \/ \E r \in InFlight(p) : call[r].at = "ok"]]
  /\ UNCHANGED <<accepted, since, wire, carVars>>

Button(p) ==
  OpenModal(p) \/ CloseModal(p) \/ Confirm(p) \/ TimerFires(p) \/ Reload(p)
Request(r) == Success(r) \/ Failure(r) \/ Handle(r) \/ Refuse(r) \/ ReplyLost(r)
Deliver(c) == Send(c) \/ Lag(c) \/ Read(c)

Next ==
  \/ \E p \in Pages : Button(p)
  \/ \E r \in Calls : Request(r)
  \/ \E c \in Conns : Connect(c) \/ Accept(c) \/ Deliver(c) \/ ReaderEnds(c) \/ Break(c)
                      \/ EdgeDies(c)
  \/ WriteCan
  \/ ServerDies

Spec == Init /\ [][Next]_vars

\* The runtimes schedule the command tasks and the edge's reader.
Fairness ==
  /\ \A c \in Conns : WF_vars(Send(c)) /\ WF_vars(Lag(c)) /\ WF_vars(Read(c))
  /\ WF_vars(WriteCan)

FairSpec == Spec /\ Fairness

-----------------------------------------------------------------------------
TypeOK ==
  /\ page \in [Pages -> [killed : BOOLEAN, modal : BOOLEAN, pending : BOOLEAN,
                         timers : 0..MaxCommands, feedback : BOOLEAN, asked : Kinds,
                         cut : BOOLEAN, doubt : BOOLEAN]]
  /\ call \in [Calls -> [page : Pages \cup {NoPage}, kind : Kinds,
                         at : {"free", "sent", "ok", "error"}]]
  /\ accepted \in Seq([kind : Kinds, page : Pages \cup {NoPage}])
  /\ Len(accepted) <= MaxCommands
  /\ conn \in [Conns -> {"none", "backlog", "up", "broken", "gone"}]
  /\ task \in [Conns -> 0..(MaxCommands + 1)]
  /\ since \in [Conns -> 0..(MaxCommands + 1)]
  /\ wire \in [Conns -> Seq(1..MaxCommands)]
  /\ \/ hand = Nothing
     \/ hand \in [cmd : 1..MaxCommands, buses : {BusOrder, Tail(BusOrder)}]
  /\ executed \in [Buses -> Seq(1..MaxCommands)]
  /\ unsent \subseteq 1..MaxCommands

\* Each bus sees the commands in the order they were accepted, and none twice: no
\* reconnection resumes a car that was stopped since.
ExecutedInOrder ==
  \A b \in Buses : \A i, j \in DOMAIN executed[b] : i < j => executed[b][i] < executed[b][j]

\* While a page's command is the last one accepted, its button offers the opposite of
\* it, unless its answer was lost or the page was reloaded.
ButtonTellsTheTruth ==
  accepted # <<>> =>
    LET last == accepted[Len(accepted)]
    IN last.page \in Pages /\ ~page[last.page].pending /\ ~page[last.page].doubt
         => (page[last.page].killed <=> last.kind = "stop")

\* The outcome of a command is there to be read, unless the timer of the command before
\* closed the modal while the administrator waited.
OutcomeIsShown == \A p \in Pages : page[p].feedback => page[p].modal \/ page[p].cut

\* An open modal offers the command it was opened for.  Only in the two seconds after a
\* success is it the opposite one, so that a second click there undoes the first.
ReversalWindow ==
  \A p \in Pages : page[p].modal /\ page[p].asked # Offered(p) => page[p].timers > 0

\* The last command accepted since connection c was, is it executed on a bus?
LastExecuted(c) ==
  \/ Len(accepted) < since[c]
  \/ Len(accepted) \in unsent
  \/ \E b \in Buses : executed[b] # <<>> /\ executed[b][Len(executed[b])] = Len(accepted)

\* A connection that stays up gets the last command to the car, however many were sent
\* before it, unless both buses refuse it.
LastCommandReachesCar ==
  \A c \in Conns : <>[](conn[c] = "up") => <>[]LastExecuted(c)

\* The page tells the truth about the car: what its button offers, what became of the
\* last command, and what an open modal would do.
PageTellsTheTruth == ButtonTellsTheTruth /\ OutcomeIsShown /\ ReversalWindow
===============================================================================
