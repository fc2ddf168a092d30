--------------------------------- MODULE View ---------------------------------
(***************************************************************************)
(* What the views of the dashboard share (static/src/App.jsx): one of them *)
(* is shown at a time, it is mounted when the user opens it and unmounted  *)
(* when another one is opened or the session ends.  A behaviour follows    *)
(* one instance of one view from its mount; a view opened again is another *)
(* instance, which shares no state with it.                                *)
(*                                                                         *)
(* The samples of the worker are abstracted to versions: `recorded' counts *)
(* the batches the worker has put into its buffers, 0 standing for none,   *)
(* and `seen' is the last one whose signals message the page has handled.  *)
(***************************************************************************)
EXTENDS Integers, Sequences, SequencesExt, Sums

CONSTANTS
  None,                         \* no request, no position, nothing to show
  MaxRecorded                   \* bound: batches of samples

ASSUME ViewAssumption == MaxRecorded \in Nat \ {0}

VARIABLES
  view,                         \* the view this behaviour follows
  mounted,                      \* not cleaned up yet
  recorded,
  seen

viewVars == <<view, mounted, recorded, seen>>

Views == {"account", "series", "cards", "laps", "chart", "history", "downloads", "admin"}

ViewTypeOK ==
  /\ view \in Views
  /\ mounted \in BOOLEAN
  /\ recorded \in 0..MaxRecorded
  /\ seen \in 0..recorded

ViewInit ==
  /\ view \in Views
  /\ mounted = TRUE
  /\ recorded \in IF view \in {"chart", "history"} THEN {0, 1} ELSE {0}
  /\ seen = recorded

(* handleFrame of the worker.                                              *)
Record(bound) ==
  /\ recorded < bound
  /\ recorded' = recorded + 1
  /\ UNCHANGED <<view, mounted, seen>>

(* The signals message: every effect that reads a timestamp runs again.    *)
Refreshed ==
  /\ seen < recorded
  /\ seen' = recorded
  /\ UNCHANGED <<view, mounted, recorded>>

Unmounted ==
  /\ mounted
  /\ mounted' = FALSE
  /\ UNCHANGED <<view, recorded, seen>>

(* getBuffer: what the worker may answer to a request made at version      *)
(* `asked': it is handled then or later.                                   *)
Answers(asked) == asked..recorded
=============================================================================
