------------------------------- MODULE LapTimes -------------------------------
(***************************************************************************)
(* The laps: a sensor at the gate counts the passes of the car and sends   *)
(* each one in a UDP packet; the server (src/photogate.rs) makes laps of   *)
(* them and broadcasts the whole list; the store of the dashboard          *)
(* (static/src/store.js) keeps what it receives.                           *)
(*                                                                         *)
(* Every packet is handled by a task of its own, which holds the lock of   *)
(* the list until it has broadcast: one action, in any order.  Times are   *)
(* integers, of the sensor; a sensor without a clock is left out, and so   *)
(* are the counts below one, which are refused, and the row that is saved  *)
(* of a lap, or not: nothing here reads it.                                *)
(***************************************************************************)
EXTENDS View

CONSTANTS
  Gaps,                         \* time from one pass to the next
  MaxPasses,                    \* bound: passes
  MaxFeed                       \* bound: lists on their way to the page

VARIABLES
  gate,                         \* the last pass: [lap, t]; lap 0 before any
  passes,                       \* passes so far
  packets,                      \* packets on their way
  lastPass,                     \* last_pass_time
  laps,                         \* laps of the server, [lap, time]
  since,                        \* ghost: the pass the list of laps begins with
  feed,                         \* lists broadcast and not received
  shownLaps,                    \* lapState of the store: [all, best] or None
  behindLaps                    \* ghost: the last list was lost, or cleared

serverLaps == <<lastPass, laps, since>>
lapVars == <<gate, passes, packets, serverLaps, feed, shownLaps, behindLaps>>

ASSUME LapsAssumption ==
  /\ Gaps \subseteq Nat /\ MaxPasses \in Nat /\ MaxFeed \in Nat \ {0}
  /\ None \notin Int /\ None \notin [lap : Nat, time : Nat]
  /\ None \notin [all : Seq([lap : Nat, time : Nat]), best : [lap : Nat, time : Nat]]

Debounce == 2

(* The first of the shortest.                                              *)
Shortest(list) ==
  list[CHOOSE i \in DOMAIN list : \A k \in DOMAIN list :
         list[i].time < list[k].time \/ (list[i].time = list[k].time /\ i <= k)]

LapsTypeOK ==
  /\ gate.lap \in 0..MaxPasses /\ passes \in 0..MaxPasses
  /\ \A p \in packets : p.lap \in 1..MaxPasses
  /\ \A i \in DOMAIN laps : laps[i].lap \in 1..MaxPasses /\ laps[i].time > 0
  /\ Len(feed) <= MaxFeed
  /\ behindLaps \in BOOLEAN

LapsInit ==
  /\ gate = [lap |-> 0, t |-> 0] /\ passes = 0 /\ packets = {}
  /\ lastPass = None /\ laps = << >> /\ since = None
  /\ feed = << >> /\ shownLaps = None /\ behindLaps = FALSE

-----------------------------------------------------------------------------
(* The gate and the network.                                               *)

(* The count goes on, or starts again with another driver.                 *)
CarPasses ==
  /\ passes < MaxPasses
  /\ passes' = passes + 1
  /\ \E gap \in Gaps, lap \in {1, gate.lap + 1} :
       /\ gate' = [lap |-> lap, t |-> gate.t + gap]
       /\ packets' = packets \union {gate'}
  /\ UNCHANGED <<serverLaps, feed, shownLaps, behindLaps>>

PacketIsLost ==
  /\ \E p \in packets : packets' = packets \ {p}
  /\ UNCHANGED <<gate, passes, serverLaps, feed, shownLaps, behindLaps>>

-----------------------------------------------------------------------------
(* handle_photogate_packet.                                                *)

(* Lap 1, the first packet ever, and a count that has gone back.           *)
Restarts(p) ==
  \/ p.lap = 1 \/ lastPass = None
  \/ laps # << >> /\ p.t - lastPass > Debounce /\ p.lap <= Last(laps).lap

(* Mutant: what is too short for a lap is the time of the last pass.       *)
PassAfterBounce(p) == p.t
LastPassAfterBounce(p) == lastPass

(* broadcast_laps: the list and its best lap.  The channel drops the       *)
(* oldest when the page is slow.                                           *)
BroadcastLaps ==
  LET message == [laps |-> laps', best |-> IF laps' = << >> THEN None ELSE Shortest(laps')]
  IN feed' = IF Len(feed) < MaxFeed THEN Append(feed, message) ELSE Append(Tail(feed), message)

HandlePacket(p) ==
  /\ p \in packets
  /\ packets' = packets \ {p}
  /\ \/ /\ Restarts(p)
        /\ lastPass' = p.t /\ laps' = << >> /\ since' = p.t
        /\ BroadcastLaps
     \/ /\ ~Restarts(p) /\ p.t - lastPass <= Debounce
        /\ lastPass' = LastPassAfterBounce(p)
        /\ UNCHANGED <<laps, since, feed>>
     \/ /\ ~Restarts(p) /\ p.t - lastPass > Debounce
        /\ lastPass' = p.t
        /\ laps' = Append(laps, [lap |-> p.lap - 1, time |-> p.t - lastPass])
        /\ BroadcastLaps
        /\ UNCHANGED since
  /\ UNCHANGED <<gate, passes, shownLaps, behindLaps>>

-----------------------------------------------------------------------------
(* The store.                                                              *)

(* normalizeBackendLaps: the best lap of the message, or of its laps.      *)
NormalizeBackendLaps(message) ==
  [all |-> message.laps,
   best |-> IF message.best # None THEN message.best
            ELSE IF message.laps = << >> THEN None ELSE Shortest(message.laps)]

(* Mutant: the best lap shown so far stays.                                *)
KeepBest(message) ==
  LET new == NormalizeBackendLaps(message)
  IN IF new.all = << >> /\ new.best = None THEN shownLaps
     ELSE [new EXCEPT !.best = IF shownLaps = None THEN @ ELSE shownLaps.best]
(* applyBackendLapTimes: a message without laps changes nothing.           *)
ApplyBackendLapTimes(message) ==
  LET new == NormalizeBackendLaps(message)
  IN IF new.all = << >> /\ new.best = None THEN shownLaps
     ELSE [new EXCEPT !.all = IF @ = << >> THEN << new.best >> ELSE @]

LapsReceived ==
  /\ feed # << >>
  /\ feed' = Tail(feed)
  /\ shownLaps' = ApplyBackendLapTimes(Head(feed))
  /\ behindLaps' = FALSE
  /\ UNCHANGED <<gate, passes, packets, serverLaps>>

(* A page that is slow, or reconnects, loses the oldest.                   *)
LapsAreLost ==
  /\ feed # << >>
  /\ feed' = Tail(feed)
  /\ behindLaps' = (behindLaps \/ feed' = << >>)
  /\ UNCHANGED <<gate, passes, packets, serverLaps, shownLaps>>

(* resetTelemetryData, at the start of a collection.                       *)
LapsCleared ==
  /\ shownLaps # None
  /\ shownLaps' = None
  /\ behindLaps' = TRUE
  /\ UNCHANGED <<gate, passes, packets, serverLaps, feed>>

(* LapTimePanel: the entries marked as the best lap.                       *)
MarkedBest == {i \in DOMAIN shownLaps.all : shownLaps.all[i] = shownLaps.best}

LapsNext ==
  /\ \/ CarPasses \/ PacketIsLost
     \/ \E p \in packets : HandlePacket(p)
     \/ LapsReceived \/ LapsAreLost \/ LapsCleared
  /\ UNCHANGED viewVars

-----------------------------------------------------------------------------
(* Whatever was lost or handled in another order, the times of the laps    *)
(* add up to the time since the pass they are counted from, none is a      *)
(* bounce of the gate, and their numbers do not go back: a pass that is    *)
(* missing makes one lap of two, and never another time.                   *)
LapsAddUp ==
  laps # << >> =>
    /\ SumOf([i \in DOMAIN laps |-> laps[i].time]) = lastPass - since
    /\ \A i \in DOMAIN laps : laps[i].time > Debounce
    /\ \A i \in 1..(Len(laps) - 1) : laps[i].lap <= laps[i + 1].lap

(* The page shows the laps the server has, once nothing is on its way,     *)
(* unless it lost or cleared them, or the list was emptied, which the      *)
(* store ignores; and what it marks as the best lap is the shortest.       *)
LapsShown ==
  /\ feed = << >> /\ ~behindLaps /\ laps # << >> => shownLaps # None /\ shownLaps.all = laps
  /\ shownLaps # None =>
       /\ MarkedBest # {}
       /\ \A i \in DOMAIN shownLaps.all : shownLaps.best.time <= shownLaps.all[i].time
=============================================================================
