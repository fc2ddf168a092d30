----------------------------- MODULE HistoryChart -----------------------------
(***************************************************************************)
(* The analysis of a finished collection                                   *)
(* (static/src/components/HistoryReferenceChart): loadHistory fetches the  *)
(* whole buffers of the reference and of the selected signals when the     *)
(* view is mounted and, on a timer of 350 ms, when a timestamp or the      *)
(* selection changes; the rows at the cursor and of the selected window    *)
(* are computed from the buffers cached by the last load.                  *)
(*                                                                         *)
(* A buffer is abstracted to its version, 0 if it is empty, and the        *)
(* reference signals to one.  Cursors and windows are positions 0 and 1.   *)
(***************************************************************************)
EXTENDS View

CONSTANTS
  Analysis,                     \* the signals that may be selected
  Reference,                    \* the reference signal
  MaxToggles,                   \* bound: changes of the selection
  MaxTrailing                   \* bound: batches, those of after the stop too

VARIABLES
  selection,                    \* selectedSignals of App.jsx
  timer,                        \* refreshTimer is set
  loading,                      \* the load under way: [names, asked] or None
  buffers,                      \* cachedBuffers: versions by name
  cursor,                       \* cursorSeconds
  range,                        \* selectedRange, by its start
  sampleRows,
  windowRows,
  passed,                       \* the last timer found a load under way
  toggles                       \* changes of the selection so far

(* None stands for nothing else.                                           *)
ASSUME HistoryAssumption ==
  /\ MaxTrailing \in 0..MaxRecorded /\ MaxToggles \in Nat
  /\ None \notin {0, 1}
  /\ None \notin [names : SUBSET ({Reference} \union Analysis), asked : 0..MaxRecorded]

historyVars == <<selection, timer, loading, buffers, cursor, range, sampleRows,
                 windowRows, passed, toggles>>

Positions == {0, 1}
Visible == {Reference} \union selection

(* sessionBounds, set with the buffers: there are some samples.            *)
Bounded(cache) == \E n \in DOMAIN cache : cache[n] > 0
Version(cache, n) == IF n \in DOMAIN cache THEN cache[n] ELSE 0

(* updateSampleRows and updateWindowRows, which read the selection, the    *)
(* cache and the bounds as they are.                                       *)
SampleRows(cache, at) ==
  IF Bounded(cache) /\ at # None
  THEN [at |-> at, of |-> [n \in selection |-> Version(cache, n)]]
  ELSE None
WindowRows(cache, window) ==
  IF Bounded(cache) /\ window # None /\ selection # {}
  THEN [of |-> [n \in selection |-> Version(cache, n)], window |-> window]
  ELSE None

(* The charts, drawn again whenever what they are made of changes: the     *)
(* reference by which cursor and window are chosen, and the selected       *)
(* signals in the window.                                                  *)
ReferenceDrawn == mounted /\ Version(buffers, Reference) > 0
DetailDrawn ==
  mounted /\ Bounded(buffers) /\ range # None /\ \E n \in selection : Version(buffers, n) > 0

HistoryTypeOK ==
  /\ selection \subseteq Analysis
  /\ {timer, passed} \subseteq BOOLEAN
  /\ loading \in {None} \union [names : SUBSET ({Reference} \union Analysis), asked : 0..MaxRecorded]
  /\ DOMAIN buffers \subseteq {Reference} \union Analysis
  /\ \A n \in DOMAIN buffers : buffers[n] \in 0..MaxRecorded
  /\ {cursor, range} \subseteq Positions \union {None}
  /\ toggles \in 0..MaxToggles

(* onMount(loadHistory), and the effect that schedules another load.       *)
HistoryInit ==
  /\ selection \in SUBSET Analysis
  /\ view # "history" => selection = {}
  /\ timer = (view = "history")
  /\ loading = IF view = "history" THEN [names |-> Visible, asked |-> recorded] ELSE None
  /\ buffers = [n \in {} |-> 0]
  /\ cursor = None /\ range = None
  /\ sampleRows = None /\ windowRows = None
  /\ passed = FALSE /\ toggles = 0

(* The effect.                                                             *)
HistoryRefreshed ==
  /\ Refreshed
  /\ timer' = mounted
  /\ UNCHANGED <<selection, loading, buffers, cursor, range, sampleRows, windowRows,
                 passed, toggles>>

(* toggleSignal or clearSignalSelection of App.jsx, then the effect.       *)
SelectSignals ==
  /\ mounted /\ toggles < MaxToggles
  /\ toggles' = toggles + 1
  /\ \/ \E n \in Analysis :
          selection' = IF n \in selection THEN selection \ {n} ELSE selection \union {n}
     \/ selection # {} /\ selection' = {}
  /\ timer' = TRUE
  /\ UNCHANGED <<viewVars, loading, buffers, cursor, range, sampleRows, windowRows, passed>>

(* The timer: loadHistory, which does nothing while it is under way.       *)
HistoryTimer ==
  /\ timer
  /\ timer' = FALSE
  /\ IF loading = None
     THEN loading' = [names |-> Visible, asked |-> recorded] /\ passed' = FALSE
     ELSE UNCHANGED loading /\ passed' = TRUE
  /\ UNCHANGED <<viewVars, selection, buffers, cursor, range, sampleRows, windowRows, toggles>>

(* Mutant: the rows of the window wait for the next window.                *)
KeepWindowRows(cache) == windowRows
WindowRowsAfterLoad(cache) == WindowRows(cache, range)

(* All buffers have been answered.                                         *)
HistoryLoaded ==
  /\ loading # None
  /\ loading' = None
  /\ \/ /\ mounted
        /\ \E cache \in [loading.names -> Answers(loading.asked)] :
             LET at == IF cursor = None THEN 0 ELSE cursor IN
             /\ buffers' = cache
             /\ cursor' = at
             /\ sampleRows' = SampleRows(cache, at)
             /\ windowRows' = WindowRowsAfterLoad(cache)
     \/ ~mounted /\ UNCHANGED <<buffers, cursor, sampleRows, windowRows>>
  /\ UNCHANGED <<viewVars, selection, timer, range, passed, toggles>>

(* handleCursor.                                                           *)
MoveCursor ==
  /\ ReferenceDrawn
  /\ cursor' \in Positions
  /\ sampleRows' = SampleRows(buffers, cursor')
  /\ UNCHANGED <<viewVars, selection, timer, loading, buffers, range, windowRows, passed, toggles>>

(* handleSelect, which moves the cursor too.                               *)
SelectRange ==
  /\ ReferenceDrawn
  /\ range' \in Positions
  /\ cursor' = range'
  /\ sampleRows' = SampleRows(buffers, cursor')
  /\ windowRows' = WindowRows(buffers, range')
  /\ UNCHANGED <<viewVars, selection, timer, loading, buffers, passed, toggles>>

HistoryCleanup ==
  /\ Unmounted
  /\ timer' = FALSE
  /\ UNCHANGED <<selection, loading, buffers, cursor, range, sampleRows, windowRows,
                 passed, toggles>>

HistoryNext ==
  \/ Record(MaxTrailing) /\ UNCHANGED historyVars
  \/ HistoryRefreshed
  \/ SelectSignals
  \/ HistoryTimer
  \/ HistoryLoaded
  \/ MoveCursor
  \/ SelectRange
  \/ HistoryCleanup

-----------------------------------------------------------------------------
(* When no load is set or under way, the rows at the cursor and of the     *)
(* window are those of the selected signals, computed from the last        *)
(* samples, unless the last change found a load under way and was passed   *)
(* over (loadHistory's early return schedules nothing).                    *)
HistoryIsCurrent ==
  view = "history" /\ mounted /\ ~timer /\ loading = None /\ seen = recorded /\ ~passed
    => /\ DOMAIN buffers = Visible
       /\ \A n \in Visible : buffers[n] = recorded
       /\ sampleRows = SampleRows(buffers, cursor)
       /\ windowRows = WindowRows(buffers, range)
=============================================================================
