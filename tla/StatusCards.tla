----------------------------- MODULE StatusCards ------------------------------
(***************************************************************************)
(* The figures of the analysis page (static/src/components/StatusBar and   *)
(* SignalSelector): cards with the value of a signal, or the smallest or   *)
(* largest of many, and its statistics since the page was opened; the      *)
(* indicators of states and faults; and the catalogue of received signals. *)
(*                                                                         *)
(* The memos of the code are functions of the store, so they are operators *)
(* here; the effects, which run when what they read has changed, are part  *)
(* of the action that changes it.  Signals are strings, values integers.   *)
(***************************************************************************)
EXTENDS View, FiniteSets

CONSTANTS
  Cards,                        \* by name: [names, aggregate], names a sequence
  Summed,                       \* the signals of the total
  Indicators,                   \* by name: [kind, names, alerts]
  Faults,                       \* of a sampled group: <<signal, active value or None>>
  Batches,                      \* signals messages: values by signal
  MaxBatches                    \* bound: signals messages

VARIABLES
  values,                       \* the store's signals
  stats,                        \* by card: [max, min, sum, count] or None
  sampled,                      \* sampledFaultSnapshot: [active, state]
  catalog,                      \* signalCatalog, by name
  cleared,                      \* ghost: the store was cleared since the mount
  batches

ASSUME CardsAssumption ==
  /\ \A b \in Batches : b \in [DOMAIN b -> Int] /\ IsFiniteSet(DOMAIN b)
  /\ DOMAIN Cards \subseteq STRING /\ \A c \in DOMAIN Cards : Cards[c].names \in Seq(STRING)
  /\ Summed \in Seq(STRING)
  /\ MaxBatches \in Nat
  /\ None \notin Int /\ None \notin [name : STRING, value : Int]
  /\ None \notin [max : Int, min : Int, sum : Int, count : Nat]

cardVars == <<values, stats, sampled, catalog, cleared, batches>>

-----------------------------------------------------------------------------
(* Cards.                                                                  *)

Shows(shown, name) == name \in DOMAIN shown
ValuesOf(shown, names) == [i \in {k \in DOMAIN names : Shows(shown, names[k])} |-> shown[names[i]]]

(* The first of the best ones.  No card has another aggregate than these.  *)
Better(aggregate, a, b) == IF aggregate = "min" THEN a < b ELSE a > b
BestIndex(aggregate, vals) ==
  CHOOSE i \in DOMAIN vals : \A k \in DOMAIN vals \ {i} :
    Better(aggregate, vals[i], vals[k]) \/ (vals[i] = vals[k] /\ i < k)

(* resolveSource: from the signals of the card, or from its own.           *)
ResolveSource(shown, card) ==
  LET names == Cards[card].names
      vals == ValuesOf(shown, names)
  IN IF DOMAIN vals # {}
     THEN LET i == BestIndex(Cards[card].aggregate, vals) IN [name |-> names[i], value |-> vals[i]]
     ELSE IF Shows(shown, card) THEN [name |-> card, value |-> shown[card]]
     ELSE None

(* Mutant: the total of some of the signals is shown as that of all.       *)
SumOfSome(shown) ==
  IF \A i \in DOMAIN Summed : ~Shows(shown, Summed[i]) THEN None
  ELSE SumOf([i \in DOMAIN Summed |-> IF Shows(shown, Summed[i]) THEN shown[Summed[i]] ELSE 0])
(* resolveSumSource: only if all of them are there.                        *)
ResolveSumSource(shown) ==
  IF \E i \in DOMAIN Summed : ~Shows(shown, Summed[i]) THEN None ELSE SumOfSome(shown)

(* useSignalStats: the effect of a card runs when its source has changed,  *)
(* and leaves the figures if there is no value.                            *)
Added(figures, value) ==
  IF figures = None THEN [max |-> value, min |-> value, sum |-> value, count |-> 1]
  ELSE [max |-> IF value > figures.max THEN value ELSE figures.max,
        min |-> IF value < figures.min THEN value ELSE figures.min,
        sum |-> figures.sum + value, count |-> figures.count + 1]
NextStats(new) ==
  [c \in DOMAIN Cards |->
     LET source == ResolveSource(new, c)
     IN IF source \in {None, ResolveSource(values, c)} THEN stats[c]
        ELSE Added(stats[c], source.value)]

-----------------------------------------------------------------------------
(* Indicators: colour and text are found by separate functions.            *)

(* getSignalEntry: the first of the names that has a value.                *)
Entry(shown, indicator) ==
  LET vals == ValuesOf(shown, Indicators[indicator].names)
  IN IF DOMAIN vals = {} THEN None ELSE vals[CHOOSE i \in DOMAIN vals : \A k \in DOMAIN vals : i <= k]

IndicatorState(shown, indicator) ==
  LET value == Entry(shown, indicator)
      config == Indicators[indicator]
  IN CASE value = None -> "idle"
       [] value # None /\ config.kind = "state" ->
            IF value \in config.alerts THEN "critical" ELSE "active"
       [] value # None /\ config.kind # "state" -> IF value # 0 THEN "active" ELSE "ok"

StateText(shown, indicator) ==
  LET value == Entry(shown, indicator)
  IN IF value = None THEN "unknown"
     ELSE IF Indicators[indicator].kind = "state" THEN "state"
     ELSE IF value # 0 THEN "on" ELSE "off"

(* isFaultActive and getFaultGroupState.                                   *)
ActiveFaults(shown) ==
  {f \in Faults : Shows(shown, f[1]) /\ (IF f[2] = None THEN shown[f[1]] # 0 ELSE shown[f[1]] = f[2])}
FaultGroupState(shown) ==
  IF ActiveFaults(shown) # {} THEN "critical"
  ELSE IF \E f \in Faults : Shows(shown, f[1]) THEN "ok" ELSE "idle"
FaultSnapshot(shown) == [active |-> ActiveFaults(shown), state |-> FaultGroupState(shown)]

(* Mutant: the snapshot changes with the interval only.                    *)
SnapshotOfInterval(new) == sampled
(* The effect that sets the interval reads the signals itself: it runs     *)
(* again, and takes a snapshot, whenever one of them changes.              *)
SnapshotAfter(new) ==
  IF \E f \in Faults : Shows(new, f[1]) # Shows(values, f[1]) \/ (Shows(new, f[1]) /\ new[f[1]] # values[f[1]])
  THEN FaultSnapshot(new) ELSE sampled

-----------------------------------------------------------------------------
(* SignalSelector: what is known stays, unless something has changed.      *)

(* Mutant: only a new name is a change.                                    *)
GrownCatalog(new) == IF DOMAIN new \subseteq catalog THEN catalog ELSE DOMAIN new
CatalogAfter(new) ==
  IF Cardinality(catalog) # Cardinality(DOMAIN new) \/ DOMAIN new \ catalog # {}
  THEN DOMAIN new ELSE catalog

CardsTypeOK ==
  /\ \A n \in DOMAIN values : values[n] \in Int
  /\ \A c \in DOMAIN Cards : stats[c] = None \/ stats[c].count > 0
  /\ sampled.active \subseteq Faults
  /\ cleared \in BOOLEAN /\ batches \in 0..MaxBatches

(* The store may have signals when the page is opened.                     *)
CardsInit ==
  /\ values \in {<< >>} \union (IF view = "cards" THEN Batches ELSE {})
  /\ stats = [c \in DOMAIN Cards |->
                LET source == ResolveSource(values, c)
                IN IF source = None THEN None ELSE Added(None, source.value)]
  /\ sampled = FaultSnapshot(values)
  /\ catalog = DOMAIN values
  /\ cleared = FALSE /\ batches = 0

ShowValues(new) ==
  /\ values' = new
  /\ stats' = NextStats(new)
  /\ sampled' = SnapshotAfter(new)
  /\ catalog' = CatalogAfter(new)

Changed(shown, batch) ==
  [n \in DOMAIN shown \union DOMAIN batch |-> IF n \in DOMAIN batch THEN batch[n] ELSE shown[n]]

(* The signals message: one batch of changes.                              *)
SignalsShown ==
  /\ mounted /\ batches < MaxBatches
  /\ \E batch \in Batches : ShowValues(Changed(values, batch))
  /\ batches' = batches + 1
  /\ UNCHANGED <<viewVars, cleared>>

(* resetTelemetryData: a start of the collection.                          *)
StoreCleared ==
  /\ mounted /\ values # << >>
  /\ ShowValues(<< >>)
  /\ cleared' = TRUE
  /\ UNCHANGED <<viewVars, batches>>

(* The interval.                                                           *)
SampleFaults ==
  /\ mounted
  /\ sampled' = FaultSnapshot(values)
  /\ UNCHANGED <<viewVars, values, stats, catalog, cleared, batches>>

CardsNext == SignalsShown \/ StoreCleared \/ SampleFaults

-----------------------------------------------------------------------------
(* The figures of a card enclose the value it shows, whichever signal that *)
(* is of; figures without a value are left from a collection before.       *)
FiguresEncloseValue ==
  \A c \in DOMAIN Cards :
    LET source == ResolveSource(values, c) IN
    /\ source # None =>
         /\ stats[c].min <= source.value /\ source.value <= stats[c].max
         /\ stats[c].min * stats[c].count <= stats[c].sum
         /\ stats[c].sum <= stats[c].max * stats[c].count
    /\ stats[c] # None => source # None \/ cleared

(* The total lies between as many of the smallest and of the largest.      *)
TotalFitsExtremes ==
  LET total == ResolveSumSource(values) IN
  total # None =>
    \A low, high \in DOMAIN Cards :
      Cards[low] = [names |-> Summed, aggregate |-> "min"]
        /\ Cards[high] = [names |-> Summed, aggregate |-> "max"] =>
        /\ Len(Summed) * ResolveSource(values, low).value <= total
        /\ total <= Len(Summed) * ResolveSource(values, high).value

(* Colour and text of an indicator agree, and faults are those of now.     *)
IndicatorsAgree ==
  /\ \A i \in DOMAIN Indicators :
       /\ IndicatorState(values, i) = "idle" <=> StateText(values, i) = "unknown"
       /\ Indicators[i].kind # "state" =>
            (IndicatorState(values, i) = "active" <=> StateText(values, i) = "on")
  /\ sampled = FaultSnapshot(values)
  /\ sampled.state = "critical" <=> sampled.active # {}

CardsTellTheTruth ==
  view = "cards" =>
    FiguresEncloseValue /\ TotalFitsExtremes /\ IndicatorsAgree /\ catalog = DOMAIN values
=============================================================================
