---------------------------- MODULE DashboardViews ----------------------------
(***************************************************************************)
(* The views of the dashboard: a behaviour follows one instance of one of  *)
(* them, from its mount on, with the worker or the server it talks to.     *)
(***************************************************************************)
EXTENDS Accounts, SignalHistory, StatusCards, LapTimes, MotecChart, HistoryChart, DownloadsPage,
        AdminPage

signalVars == <<seriesVars, cardVars, lapVars, chartVars, historyVars>>
pageVars == <<accountVars, downloadsVars, adminVars>>
vars == <<viewVars, signalVars, pageVars>>

TypeOK ==
  /\ ViewTypeOK /\ AccountsTypeOK /\ SeriesTypeOK /\ CardsTypeOK /\ LapsTypeOK
  /\ ChartTypeOK /\ HistoryTypeOK /\ DownloadsTypeOK /\ AdminTypeOK

Init ==
  /\ ViewInit
  /\ AccountsInit /\ SeriesInit /\ CardsInit /\ LapsInit /\ ChartInit /\ HistoryInit /\ DownloadsInit /\ AdminInit

(* Accounts have no view of their own: they are behind all of them.        *)
Session == view = "account" /\ AccountsNext
             /\ UNCHANGED <<signalVars, downloadsVars, adminVars>>
Series == view = "series" /\ SeriesNext
            /\ UNCHANGED <<cardVars, lapVars, chartVars, historyVars, pageVars>>
StatusBar == view = "cards" /\ CardsNext
               /\ UNCHANGED <<seriesVars, lapVars, chartVars, historyVars, pageVars>>
Cockpit == view = "laps" /\ LapsNext
             /\ UNCHANGED <<seriesVars, cardVars, chartVars, historyVars, pageVars>>
LiveChart == view = "chart" /\ ChartNext
               /\ UNCHANGED <<seriesVars, cardVars, lapVars, historyVars, pageVars>>
History == view = "history" /\ HistoryNext
             /\ UNCHANGED <<seriesVars, cardVars, lapVars, chartVars, pageVars>>
Downloads == view = "downloads" /\ DownloadsNext
               /\ UNCHANGED <<signalVars, accountVars, adminVars>>
Admin == view = "admin" /\ AdminNext
           /\ UNCHANGED <<signalVars, accountVars, downloadsVars>>

Next == Session \/ Series \/ StatusBar \/ Cockpit \/ LiveChart \/ History \/ Downloads \/ Admin

Spec == Init /\ [][Next]_vars

(* The server finishes generating a log, handles what it is sent, and its  *)
(* answers arrive; timers fire, and so does the interval.                  *)
Followed(action) == view = "downloads" /\ action
                      /\ UNCHANGED <<signalVars, accountVars, adminVars>>
Watched(action) == view = "admin" /\ action
                     /\ UNCHANGED <<signalVars, accountVars, downloadsVars>>
Fairness ==
  /\ WF_vars(Followed(LogIsGenerated)) /\ WF_vars(Followed(ServerLists))
  /\ WF_vars(Followed(PollLogs)) /\ WF_vars(Followed(LogsAnswered))
  /\ WF_vars(Watched(RefreshReports))
  /\ \A kind \in Reports : WF_vars(Watched(ReportArrives(kind, 1)))

FairSpec == Spec /\ Fairness

-----------------------------------------------------------------------------
(* The charts: a uPlot lives as long as its view, and what a view shows    *)
(* once nothing is under way is of the last samples (see the two modules). *)
ChartsTellTheTruth == ChartEndsWithView /\ ChartIsCurrent /\ HistoryIsCurrent

(* The pages tell what the server said: of logs, of itself, of the laps,   *)
(* of what the user may do; and the figures of the status bar are those of *)
(* the signals.                                                            *)
PagesTellTheTruth ==
  /\ AccountsAgree /\ DownloadsTellTheTruth /\ CardsAgree
  /\ LapsAddUp /\ LapsShown
  /\ CardsTellTheTruth

(* They end up with what the server has.                                   *)
PagesCatchUp == LogsAreFollowed /\ (view = "admin" => AdminCatchesUp)
=============================================================================
