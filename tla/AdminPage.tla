------------------------------ MODULE AdminPage -------------------------------
(***************************************************************************)
(* The administrator's page (static/src/components/AdminPage): every 3 s,  *)
(* and on demand, it asks for two reports of the server, whose answers are *)
(* awaited together and may overtake those of an earlier refresh.          *)
(*                                                                         *)
(* A report is the number of the measurement it is of, 0 before the first; *)
(* Measured gives what a measurement says.                                 *)
(***************************************************************************)
EXTENDS View

CONSTANTS
  Measured,                     \* the measurements: [latency, rssi], rssi may be None
  MaxReports,                   \* bound: requests of a kind under way
  MaxFaults                     \* bound: requests that fail

VARIABLES
  measured,                     \* the server's last measurement
  report,                       \* stats() and network(), by kind
  notice,                       \* error(), by what it is about
  awaited,                      \* by kind, the measurements at each request
  faults

adminVars == <<measured, report, notice, awaited, faults>>

Reports == {"stats", "network"}

(* None stands for nothing else.                                           *)
ASSUME AdminAssumption ==
  /\ None \notin Int /\ Measured \in Seq([latency : Int, rssi : Int \union {None}])
  /\ MaxReports \in Nat \ {0} /\ MaxFaults \in Nat
  /\ None \notin {"off", "unknown", "us", "ms"}

AdminTypeOK ==
  /\ measured \in 0..Len(Measured)
  /\ report \in [Reports -> 0..Len(Measured)]
  /\ notice \in Reports \union {None}
  /\ awaited \in [Reports -> BoundedSeq(0..Len(Measured), MaxReports)]
  /\ faults \in 0..MaxFaults

(* refresh is called when the page is mounted.                             *)
AdminInit ==
  /\ measured = 0
  /\ report = [k \in Reports |-> 0]
  /\ notice = None
  /\ awaited = [k \in Reports |-> IF view = "admin" THEN << 0 >> ELSE << >>]
  /\ faults = 0

Measure ==
  /\ measured < Len(Measured)
  /\ measured' = measured + 1
  /\ UNCHANGED <<viewVars, report, notice, awaited, faults>>

(* The interval or the button: refresh, whatever is under way.             *)
RefreshReports ==
  /\ mounted
  /\ \A k \in Reports : Len(awaited[k]) < MaxReports
  /\ awaited' = [k \in Reports |-> Append(awaited[k], measured)]
  /\ UNCHANGED <<viewVars, measured, report, notice, faults>>

(* Mutant: a report that arrives leaves the notice.                        *)
NoticeStays(kind) == notice
NoticeAfter(kind) == IF kind = "stats" THEN None ELSE notice

(* fetchStats and fetchNetwork go on; only the first clears the notice.    *)
ReportArrives(kind, i) ==
  /\ i \in DOMAIN awaited[kind]
  /\ \E m \in awaited[kind][i]..measured : report' = [report EXCEPT ![kind] = m]
  /\ notice' = NoticeAfter(kind)
  /\ awaited' = [awaited EXCEPT ![kind] = RemoveAt(@, i)]
  /\ UNCHANGED <<viewVars, measured, faults>>

ReportFails(kind, i) ==
  /\ i \in DOMAIN awaited[kind]
  /\ faults < MaxFaults
  /\ faults' = faults + 1
  /\ notice' = kind
  /\ awaited' = [awaited EXCEPT ![kind] = RemoveAt(@, i)]
  /\ UNCHANGED <<viewVars, measured, report>>

(* The interval is cleared, what is under way goes on.                     *)
AdminCleanup == Unmounted /\ UNCHANGED adminVars

AdminNext ==
  \/ Measure
  \/ RefreshReports
  \/ \E kind \in Reports, i \in 1..MaxReports : ReportArrives(kind, i) \/ ReportFails(kind, i)
  \/ AdminCleanup

-----------------------------------------------------------------------------
(* What the page says of the two reports: each measure has a colour and a  *)
(* text, chosen by separate functions.                                     *)

LatencyBadge(us) ==
  CASE us <= 0 -> "off" [] 0 < us /\ us < 5000 -> "ok" [] 5000 <= us /\ us < 20000 -> "warn"
    [] 20000 <= us -> "error"
LatencyLabel(us) ==
  CASE us <= 0 -> "unknown" [] 0 < us /\ us < 1000 -> "us" [] 1000 <= us -> "ms"
RssiBadge(rssi) ==
  CASE rssi = None -> "off" [] rssi # None /\ rssi >= -70 -> "ok"
    [] rssi # None /\ rssi < -70 /\ rssi >= -82 -> "warn" [] rssi # None /\ rssi < -82 -> "error"
RssiLabel(rssi) ==
  CASE rssi = None -> "offline" [] rssi # None /\ rssi >= -70 -> "ok"
    [] rssi # None /\ rssi < -70 /\ rssi >= -82 -> "attention" [] rssi # None /\ rssi < -82 -> "bad"

(* What is rendered, nothing being known before the first report.          *)
LatencyCard ==
  IF report["stats"] = 0 THEN [badge |-> "off", label |-> None]
  ELSE LET us == Measured[report["stats"]].latency
       IN [badge |-> LatencyBadge(us), label |-> LatencyLabel(us)]
RssiCard ==
  IF report["network"] = 0 THEN [badge |-> "off", label |-> "offline"]
  ELSE LET rssi == Measured[report["network"]].rssi
       IN [badge |-> RssiBadge(rssi), label |-> RssiLabel(rssi)]

(* Colour and text of a card never contradict each other.                  *)
CardsAgree ==
  /\ LatencyCard.badge = "off" <=> LatencyCard.label \in {None, "unknown"}
  /\ <<RssiCard.badge, RssiCard.label>> \in
       {<<"off", "offline">>, <<"ok", "ok">>, <<"warn", "attention">>, <<"error", "bad">>}

(* Whatever was overtaken or failed, the page ends up with the server's    *)
(* last measurement in both reports and without a notice.                  *)
AdminCatchesUp ==
  <>[](~mounted \/ (notice = None /\ \A k \in Reports : report[k] = measured))
=============================================================================
