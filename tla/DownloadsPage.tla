---------------------------- MODULE DownloadsPage -----------------------------
(***************************************************************************)
(* The page of recorded logs (static/src/components/Downloads): the list   *)
(* of a query, fetched on demand and polled every 5 s while one of its     *)
(* logs is still being generated, downloads, and names edited in place.    *)
(*                                                                         *)
(* A log is its status and its name; a query is one of two filters.  The   *)
(* server answers a request with what it has when it handles it, and       *)
(* answers may arrive in any order.                                        *)
(***************************************************************************)
EXTENDS View

CONSTANTS
  Logs,                         \* ids of logs
  Names,                        \* what they may be called
  GivenName,                    \* the name they have at first
  Generating,                   \* the logs still being generated at first
  MaxRequests,                  \* bound: lists and renames under way at once
  MaxActions                    \* bound: actions of the user

VARIABLES
  stored,                       \* what the server has: [status, name] by id
  query,                        \* the filters in the form
  list,                         \* the logs shown, by id
  busy,                         \* loading() and refreshing(): a set of both
  failed,                       \* error()
  poll,                         \* refreshTimer is set
  lists,                        \* lists asked for: [query, polled, state, logs]
  renames,                      \* renames sent: [id, name, state, log]
  renamingId,
  downloadingId,
  downloads,                    \* downloads under way
  editing,                      \* rows whose name is being edited
  doubled,                      \* a list was submitted while another was awaited
  raced,                        \* a rename overlapped a list or another rename
  actions

ASSUME DownloadsAssumption ==
  GivenName \in Names /\ MaxRequests \in Nat \ {0} /\ MaxActions \in Nat

downloadsVars == <<stored, query, list, busy, failed, poll, lists, renames, renamingId,
                   downloadingId, downloads, editing, doubled, raced, actions>>

Queries == {"all", "ready"}
Statuses == {"processing", "ready", "failed"}
Matching(q) == {id \in Logs : q = "all" \/ stored[id].status = "ready"}

Processing(shown) == \E id \in DOMAIN shown : shown[id].status = "processing"

(* Mutant: the timer is set without waiting for the list under way.        *)
PollAnyway(shown, waits, error) == Processing(shown) /\ ~error
(* The effect: it clears the timer and sets it again if there is need.     *)
Polls(shown, waits, error) == Processing(shown) /\ waits = {} /\ ~error

DownloadsTypeOK ==
  /\ stored \in [Logs -> [status : Statuses, name : Names]]
  /\ query \in Queries
  /\ DOMAIN list \subseteq Logs
  /\ busy \subseteq {"loading", "refreshing"}
  /\ {failed, poll, doubled, raced} \subseteq BOOLEAN
  /\ Len(lists) <= MaxRequests /\ Len(renames) <= MaxRequests
  /\ {renamingId, downloadingId} \subseteq Logs \union {None}
  /\ editing \subseteq Logs
  /\ downloads \in 0..MaxRequests
  /\ actions \in 0..MaxActions

(* onMount(loadLogs).                                                      *)
DownloadsInit ==
  /\ stored = [id \in Logs |-> [status |-> IF id \in Generating THEN "processing" ELSE "ready",
                                name |-> GivenName]]
  /\ query = "all" /\ list = << >>
  /\ lists = IF view = "downloads"
             THEN << [query |-> "all", polled |-> FALSE, state |-> "sent", logs |-> << >>] >> ELSE << >>
  /\ busy = IF view = "downloads" THEN {"loading"} ELSE {}
  /\ failed = FALSE /\ poll = FALSE
  /\ renames = << >> /\ renamingId = None /\ downloadingId = None /\ downloads = 0
  /\ editing = {} /\ doubled = FALSE /\ raced = FALSE /\ actions = 0

UserActs == mounted /\ actions < MaxActions /\ actions' = actions + 1

(* The table is there unless the page shows a message instead of it.       *)
TableShown == mounted /\ "loading" \notin busy /\ ~failed /\ list # << >>

-----------------------------------------------------------------------------
(* The server, and what a log goes through there.                          *)

LogIsGenerated ==
  /\ \E id \in Logs : /\ stored[id].status = "processing"
                      /\ \E s \in {"ready", "failed"} : stored' = [stored EXCEPT ![id].status = s]
  /\ UNCHANGED <<viewVars, query, list, busy, failed, poll, lists, renames, renamingId,
                 downloadingId, downloads, editing, doubled, raced, actions>>

ServerLists ==
  /\ \E i \in DOMAIN lists :
       /\ lists[i].state = "sent"
       /\ lists' = [lists EXCEPT ![i].state = "done",
                                ![i].logs = [id \in Matching(lists[i].query) |-> stored[id]]]
  /\ UNCHANGED <<viewVars, stored, query, list, busy, failed, poll, renames, renamingId,
                 downloadingId, downloads, editing, doubled, raced, actions>>

ServerRenames ==
  /\ \E i \in DOMAIN renames :
       /\ renames[i].state = "sent"
       /\ stored' = [stored EXCEPT ![renames[i].id].name = renames[i].name]
       /\ renames' = [renames EXCEPT ![i].state = "done",
                                    ![i].log = stored'[renames[i].id]]
  /\ UNCHANGED <<viewVars, query, list, busy, failed, poll, lists, renamingId,
                 downloadingId, downloads, editing, doubled, raced, actions>>

(* A request or its answer is lost, or refused.                            *)
RequestFails ==
  /\ UserActs
  /\ \/ /\ \E i \in DOMAIN lists : /\ lists[i].state # "refused"
                                    /\ lists' = [lists EXCEPT ![i].state = "refused"]
        /\ UNCHANGED renames
     \/ /\ \E i \in DOMAIN renames : /\ renames[i].state # "refused"
                                      /\ renames' = [renames EXCEPT ![i].state = "refused"]
        /\ UNCHANGED lists
  /\ UNCHANGED <<viewVars, stored, query, list, busy, failed, poll, renamingId,
                 downloadingId, downloads, editing, doubled, raced>>

-----------------------------------------------------------------------------
(* loadLogs, up to the await: the table goes away in the foreground.       *)
Load(polled) ==
  /\ Len(lists) < MaxRequests
  /\ lists' = Append(lists, [query |-> query, polled |-> polled,
                              state |-> "sent", logs |-> << >>])
  /\ busy' = busy \union {IF polled THEN "refreshing" ELSE "loading"}
  /\ failed' = FALSE
  /\ poll' = FALSE
  /\ editing' = IF polled THEN editing ELSE {}
  /\ doubled' = (doubled \/ (~polled /\ lists # << >>))
  /\ raced' = (raced \/ renames # << >>)
  /\ UNCHANGED <<viewVars, stored, query, list, renames, renamingId, downloadingId, downloads>>

(* The button to refresh waits, the form does not.                         *)
SubmitQuery == UserActs /\ Load(FALSE)

ChangeQuery ==
  /\ UserActs
  /\ query' \in Queries \ {query}
  /\ UNCHANGED <<viewVars, stored, list, busy, failed, poll, lists, renames, renamingId,
                 downloadingId, downloads, editing, doubled, raced>>

PollLogs == poll /\ Load(TRUE) /\ UNCHANGED actions

(* Mutant: an error leaves the page loading.                               *)
BusyUnlessRefused(ok, kind) == IF ok THEN busy \ {kind} ELSE busy
BusyAfter(ok, kind) == busy \ {kind}

(* loadLogs goes on.  All rows are made again, and their edits lost.       *)
LogsAnswered ==
  /\ \E i \in DOMAIN lists :
       LET answer == lists[i]
           ok == answer.state = "done"
       IN /\ answer.state # "sent"
          /\ lists' = RemoveAt(lists, i)
          /\ list' = IF ok THEN answer.logs ELSE << >>
          /\ failed' = (failed \/ ~ok)
          /\ busy' = BusyAfter(ok, IF answer.polled THEN "refreshing" ELSE "loading")
          /\ poll' = (mounted /\ Polls(list', busy', failed'))
  /\ editing' = {}
  /\ UNCHANGED <<viewVars, stored, query, renames, renamingId, downloadingId, downloads, doubled,
                 raced, actions>>

-----------------------------------------------------------------------------
(* handleDownload: the browser saves the file, or there is an error.       *)
StartDownload ==
  /\ UserActs
  /\ TableShown
  /\ \E id \in DOMAIN list : list[id].status = "ready" /\ downloadingId # id /\ downloadingId' = id
  /\ downloads < MaxRequests
  /\ downloads' = downloads + 1
  /\ UNCHANGED <<viewVars, stored, query, list, busy, failed, poll, lists, renames, renamingId,
                 editing, doubled, raced>>

EndDownload ==
  /\ downloads > 0
  /\ downloads' = downloads - 1
  /\ downloadingId' = None
  /\ failed' \in {failed, TRUE}
  /\ poll' = (mounted /\ Polls(list, busy, failed'))
  /\ editing' = IF failed' THEN {} ELSE editing
  /\ UNCHANGED <<viewVars, stored, query, list, busy, lists, renames, renamingId, doubled,
                 raced, actions>>

(* EditableLogName: startEditing and cancelEditing.                        *)
EditName ==
  /\ UserActs
  /\ TableShown
  /\ \E id \in DOMAIN list :
       IF id \in editing THEN renamingId # id /\ editing' = editing \ {id}
       ELSE editing' = editing \union {id}
  /\ UNCHANGED <<viewVars, stored, query, list, busy, failed, poll, lists, renames, renamingId,
                 downloadingId, downloads, doubled, raced>>

(* saveName and handleRename, up to the await; the same name ends at once. *)
SaveName ==
  /\ UserActs
  /\ TableShown
  /\ \E id \in editing, name \in Names :
       /\ renamingId # id
       /\ IF name = list[id].name
          THEN /\ editing' = editing \ {id}
               /\ UNCHANGED <<renames, renamingId, raced>>
          ELSE /\ Len(renames) < MaxRequests
               /\ renames' = Append(renames, [id |-> id, name |-> name,
                                             state |-> "sent", log |-> list[id]])
               /\ renamingId' = id
               /\ raced' = (raced \/ lists # << >> \/ renames # << >>)
               /\ UNCHANGED editing
  /\ UNCHANGED <<viewVars, stored, query, list, busy, failed, poll, lists, downloadingId, downloads, doubled>>

(* Mutant: the answer of a rename is shown in the row without its name.    *)
KeepNames(rename) == list
RenamedList(rename) ==
  [id \in DOMAIN list |->
     IF id = rename.id THEN [rename.log EXCEPT !.name = rename.name] ELSE list[id]]

(* handleRename goes on.  An error takes the table, and the edit, away.    *)
RenameAnswered ==
  /\ \E i \in DOMAIN renames :
       LET rename == renames[i]
           ok == rename.state = "done"
       IN /\ rename.state # "sent"
          /\ renames' = RemoveAt(renames, i)
          /\ list' = IF ok THEN RenamedList(rename) ELSE list
          /\ failed' = (failed \/ ~ok)
          /\ editing' = IF ok THEN editing \ {rename.id} ELSE {}
          /\ poll' = (mounted /\ Polls(list', busy, failed'))
  /\ renamingId' = None
  /\ UNCHANGED <<viewVars, stored, query, busy, lists, downloadingId, downloads, doubled, raced, actions>>

DownloadsCleanup ==
  /\ Unmounted
  /\ poll' = FALSE
  /\ editing' = {}
  /\ UNCHANGED <<stored, query, list, busy, failed, lists, renames, renamingId, downloadingId, downloads,
                 doubled, raced, actions>>

DownloadsNext ==
  \/ LogIsGenerated \/ ServerLists \/ ServerRenames \/ RequestFails
  \/ SubmitQuery \/ ChangeQuery \/ PollLogs \/ LogsAnswered
  \/ StartDownload \/ EndDownload
  \/ EditName \/ SaveName \/ RenameAnswered
  \/ DownloadsCleanup

-----------------------------------------------------------------------------
(* The page itself never asks for a list while it awaits one: the timer is *)
(* cleared by every load and not set by a rename or a download that ends   *)
(* meanwhile; only the form, which is never disabled, overlaps them.       *)
PollsWait == Len(lists) > 1 => doubled

(* A name saved is the name shown once nothing is under way, and no list   *)
(* or other rename was under way with it, whatever became of the answer.   *)
RenamesStick ==
  lists = << >> /\ renames = << >> /\ ~raced /\ ~failed
    => \A id \in DOMAIN list : list[id].name = stored[id].name

DownloadsTellTheTruth == PollsWait /\ RenamesStick

(* A log shown as being generated is followed until it is not, unless the  *)
(* page goes or shows an error, which ends the polling.                    *)
LogsAreFollowed ==
  mounted /\ Processing(list) ~> ~mounted \/ failed \/ ~Processing(list)
=============================================================================
