------------------------------ MODULE MotecChart ------------------------------
(***************************************************************************)
(* A chart of live signals (static/src/components/MotecChart): ensureChart *)
(* makes the uPlot once there are samples, then each change of a timestamp *)
(* schedules one flush, on an animation frame and no sooner than 200 ms    *)
(* after the one before, which fetches the buffers and gives them to it.   *)
(*                                                                         *)
(* What is drawn is the version of the samples, 0 being no chart.  The     *)
(* effect of onMount is created after an await, where nothing owns it: it  *)
(* outlives the view.  The parts that depend on chartConfigKey are left    *)
(* out: App.jsx makes another chart whenever it would change.              *)
(***************************************************************************)
EXTENDS View

CONSTANT
  MaxFlushes                    \* bound: flushes under way at once

VARIABLES
  opening,                      \* ensureChart under way: [first, asked] or None
  updates,                      \* the versions asked by the flushes under way
  effect,                       \* the reactive effect exists
  observer,                     \* the ResizeObserver is connected
  raf,                          \* rafHandle
  drawn,                        \* the version the chart shows, 0 without chart
  alive,                        \* uPlot instances made and not destroyed
  refused,                      \* the last flush found ensureChart under way
  leftEarly                     \* cleaned up before onMount had finished

(* None stands for nothing else.                                           *)
ASSUME ChartAssumption ==
  MaxFlushes \in Nat /\ None \notin [first : BOOLEAN, asked : 0..MaxRecorded]

chartVars == <<opening, updates, effect, observer, raf, drawn, alive, refused, leftEarly>>

Chart == drawn > 0

ChartTypeOK ==
  /\ opening \in {None} \union [first : BOOLEAN, asked : 0..MaxRecorded]
  /\ updates \in BoundedSeq(0..MaxRecorded, MaxFlushes)
  /\ drawn \in 0..MaxRecorded /\ alive \in Nat
  /\ {effect, observer, raf, refused, leftEarly} \subseteq BOOLEAN

(* onMount calls ensureChart, which asks for the buffers.                  *)
ChartInit ==
  /\ opening = IF view = "chart" THEN [first |-> TRUE, asked |-> recorded] ELSE None
  /\ updates = << >>
  /\ effect = FALSE /\ observer = FALSE /\ raf = FALSE
  /\ drawn = 0 /\ alive = 0 /\ refused = FALSE /\ leftEarly = FALSE

(* Mutant: nothing is scheduled while a flush is under way.                *)
ScheduledWhenQuiet == raf \/ (effect /\ updates = << >>)
(* The effect: scheduleFlush keeps to one animation frame.                 *)
Scheduled == raf \/ effect

ChartRefreshed ==
  /\ Refreshed
  /\ raf' = Scheduled
  /\ UNCHANGED <<opening, updates, effect, observer, drawn, alive, refused, leftEarly>>

(* The animation frame after the interval: updateOrCreateChart.            *)
FlushChart ==
  /\ raf
  /\ raf' = FALSE
  /\ \/ /\ Chart
        /\ Len(updates) < MaxFlushes
        /\ updates' = Append(updates, recorded)
        /\ UNCHANGED <<opening, refused>>
     \/ /\ ~Chart
        /\ mounted /\ opening = None
        /\ opening' = [first |-> FALSE, asked |-> recorded]
        /\ refused' = FALSE
        /\ UNCHANGED updates
     \/ /\ ~Chart
        /\ opening # None \/ ~mounted
        /\ refused' = TRUE
        /\ UNCHANGED <<opening, updates>>
  /\ UNCHANGED <<viewVars, effect, observer, drawn, alive, leftEarly>>

(* Mutant: the view may have gone while the buffers were awaited.          *)
MayCreateAnyway(version) == version > 0
MayCreate(version) == mounted /\ ~Chart /\ version > 0

(* ensureChart goes on; the one of onMount then makes effect and observer. *)
ChartOpens ==
  /\ opening # None
  /\ opening' = None
  /\ \E version \in Answers(opening.asked) :
       IF MayCreate(version) THEN drawn' = version /\ alive' = alive + 1
       ELSE UNCHANGED <<drawn, alive>>
  /\ effect' = (effect \/ opening.first)
  /\ observer' = (observer \/ opening.first)
  /\ raf' = (raf \/ opening.first)
  /\ UNCHANGED <<viewVars, updates, refused, leftEarly>>

(* updateOrCreateChart goes on.  On a chart destroyed in the meantime      *)
(* setData fails, in a promise nobody looks at.                            *)
ChartUpdates ==
  /\ updates # << >>
  /\ updates' = Tail(updates)
  /\ \E version \in Answers(Head(updates)) :
       /\ version >= drawn
       /\ drawn' = IF Chart THEN version ELSE drawn
  /\ UNCHANGED <<viewVars, opening, effect, observer, raf, alive, refused, leftEarly>>

(* Mutant: the observer is forgotten.                                      *)
ObserverStays == observer
ObserverAfterCleanup == FALSE

ChartCleanup ==
  /\ Unmounted
  /\ observer' = ObserverAfterCleanup
  /\ raf' = FALSE
  /\ drawn' = 0
  /\ alive' = alive - (IF Chart THEN 1 ELSE 0)
  /\ leftEarly' = ~effect
  /\ UNCHANGED <<opening, updates, effect, refused>>

(* The grid that says there is nothing to plot.                            *)
EmptyChartShown == mounted /\ ~Chart

ChartNext ==
  \/ Record(MaxRecorded) /\ UNCHANGED chartVars
  \/ ChartRefreshed
  \/ FlushChart
  \/ ChartOpens
  \/ ChartUpdates
  \/ ChartCleanup

-----------------------------------------------------------------------------
(* One uPlot at most, which the component holds and its cleanup destroys,  *)
(* though an answer arrives after it; the observer goes with the view      *)
(* unless the view went before onMount had finished.                       *)
ChartEndsWithView ==
  /\ alive = (IF Chart THEN 1 ELSE 0)
  /\ ~mounted => alive = 0 /\ (observer => leftEarly)

(* When nothing is under way the chart shows the last samples the page was *)
(* told of: no change is lost between an await and the flush after it,     *)
(* unless its flush met an ensureChart under way.                          *)
ChartIsCurrent ==
  mounted /\ effect /\ ~raf /\ opening = None /\ updates = << >> /\ seen = recorded
    => drawn = recorded \/ refused
=============================================================================
