------------------------------- MODULE Accounts -------------------------------
(***************************************************************************)
(* Who may do what, as the server decides it from the token of a request   *)
(* (src/auth.rs, src/models.rs) and as the page shows it from the session  *)
(* it builds of the same token (static/src/utils/auth.js, permissions.js,  *)
(* App.jsx, TopBar.jsx).  The tabs of a browser share the stored token,    *)
(* each has a session of its own.                                          *)
(*                                                                         *)
(* Passwords and signatures are right, the clocks agree, and the login of  *)
(* a development build is left out.  The overlap of two logins of one tab  *)
(* is in Dashboard.                                                        *)
(***************************************************************************)
EXTENDS View

CONSTANTS
  Users, AdminNames,            \* those called admin, adm or administrador
  Tabs,
  Expiry,                       \* JWT_EXPIRY_HOURS
  MaxClock,                     \* bound: hours
  MaxLogins                     \* bound: logins and changes of a role

VARIABLES
  roles,                        \* users.role
  clock,
  jwt,                          \* the token in localStorage, or None
  beginning,                    \* by tab, the session whose status is awaited
  session,                      \* by tab
  logins

browser == <<jwt, beginning, session>>
accountVars == <<roles, clock, browser, logins>>

(* A role is stored as it was typed.                                       *)
StoredRoles == {"Admin", "admin", "member", "driver"}
Permissions == {"telemetry:start", "telemetry:stop", "logs:read", "logs:download"}

-----------------------------------------------------------------------------
(* The server.                                                             *)

ServerRole(role) == IF role \in {"Admin", "admin"} THEN "admin" ELSE "member"
PermissionsForRole(role) == IF role = "admin" THEN Permissions ELSE {"logs:read"}

GenerateJwt(user) ==
  LET role == ServerRole(roles[user])
  IN [sub |-> user, role |-> role, permissions |-> PermissionsForRole(role), exp |-> clock + Expiry]

(* A token of before there were roles has defaults for what it lacks.      *)
Claims(token) ==
  [role |-> IF token.role = None THEN "member" ELSE token.role,
   permissions |-> IF token.permissions = None THEN {} ELSE token.permissions]

Validates(token) == clock < token.exp
Grants(token, permission) == Validates(token) /\ permission \in Claims(token).permissions
GrantsAdmin(token) == Validates(token) /\ Claims(token).role = "admin"

-----------------------------------------------------------------------------
(* The page.  A session is built of the answer to a login or of a token.   *)

NoUser == [username |-> None, role |-> None, permissions |-> None]
Given(first, second) == IF first # None THEN first ELSE second

(* Mutant: the role is that of the answer only.                            *)
RoleOfAnswer(token, user) == Given(user.role, "member")
NormalizeRole(token, user) ==
  LET role == Given(user.role, Given(token.role, "member"))
  IN IF role \in {"admin", "member"} THEN role ELSE "member"

NormalizePermissions(permissions, role) ==
  IF permissions # None THEN permissions \intersect Permissions
  ELSE IF role = "admin" THEN Permissions ELSE {"logs:read", "logs:download"}

BuildSession(token, user) ==
  LET role == NormalizeRole(token, user)
  IN [token |-> token, username |-> Given(user.username, token.sub), role |-> role,
      permissions |-> NormalizePermissions(Given(user.permissions, token.permissions), role)]

IsTokenValid(token) == token # None /\ clock < token.exp

(* What is shown.  The button of the collection and the emergency button   *)
(* appear together, for the action that the mode calls for.                *)
HasPermission(of, permission) == permission \in of.permissions
ControlsShown(of, live) == HasPermission(of, IF live THEN "telemetry:stop" ELSE "telemetry:start")
AdminTabShown(of) == of.role = "admin"
CanDownload(of) == HasPermission(of, "logs:read") \/ HasPermission(of, "logs:download")

-----------------------------------------------------------------------------
OldTokens ==
  [sub : Users, role : {None, "admin", "member"}, permissions : {None}, exp : {Expiry - 1}]
Tokens ==
  OldTokens \union
  {[sub |-> u, role |-> r, permissions |-> PermissionsForRole(r), exp |-> e] :
     u \in Users, r \in {"admin", "member"}, e \in Expiry..(MaxClock + Expiry)}

(* None stands for nothing else.                                           *)
ASSUME AccountsAssumption ==
  /\ Expiry \in Nat \ {0} /\ MaxClock \in Nat /\ MaxLogins \in Nat
  /\ None \notin Users
  /\ \A role \in {"admin", "member"} : None # role
  /\ \A permissions \in SUBSET Permissions : None # permissions
  /\ \A token \in Tokens : None # token

AccountsTypeOK ==
  /\ roles \in [Users -> StoredRoles]
  /\ clock \in 0..MaxClock /\ logins \in 0..MaxLogins
  /\ jwt \in Tokens \union {None}
  /\ DOMAIN beginning = Tabs /\ DOMAIN session = Tabs
  /\ \A tab \in Tabs : \A of \in {beginning[tab], session[tab]} :
       of # None => of.token \in Tokens /\ of.role \in {"admin", "member"}
                      /\ of.username \in Users /\ of.permissions \subseteq Permissions

(* A token may be stored from before.                                      *)
AccountsInit ==
  /\ roles \in IF view = "account" THEN [Users -> StoredRoles] ELSE [Users -> {"member"}]
  /\ clock = 0 /\ logins = 0
  /\ jwt \in {None} \union (IF view = "account" THEN OldTokens ELSE {})
  /\ beginning = [tab \in Tabs |-> None] /\ session = [tab \in Tabs |-> None]

(* Mutant: the token is kept for the session only.                         *)
NothingStored(token) == jwt
StoreToken(token) == token

(* handle_login, and login and authenticateDashboard up to the await.      *)
LogIn(tab, user) ==
  /\ session[tab] = None /\ beginning[tab] = None
  /\ logins < MaxLogins
  /\ logins' = logins + 1
  /\ LET token == GenerateJwt(user) IN
       /\ jwt' = StoreToken(token)
       /\ beginning' = [beginning EXCEPT ![tab] =
            BuildSession(token, [username |-> user, role |-> token.role, permissions |-> token.permissions])]
  /\ UNCHANGED <<viewVars, roles, clock, session>>

(* onMount: the token stored, if it is valid still.                        *)
ReloadTab(tab) ==
  /\ session' = [session EXCEPT ![tab] = None]
  /\ jwt' = IF IsTokenValid(jwt) THEN jwt ELSE None
  /\ beginning' = [beginning EXCEPT ![tab] = IF jwt' = None THEN None ELSE BuildSession(jwt, NoUser)]
  /\ UNCHANGED <<viewVars, roles, clock, logins>>

(* The status of the collection has been answered, or refused.             *)
SessionBegins(tab) ==
  /\ beginning[tab] # None
  /\ session' = [session EXCEPT ![tab] = beginning[tab]]
  /\ beginning' = [beginning EXCEPT ![tab] = None]
  /\ UNCHANGED <<viewVars, roles, clock, jwt, logins>>

(* handleLogout: the button, or an action answered with 401.               *)
SessionEnds(tab) ==
  /\ session[tab] # None
  /\ session' = [session EXCEPT ![tab] = None]
  /\ jwt' = None
  /\ UNCHANGED <<viewVars, roles, clock, beginning, logins>>

(* By hand in the database; at the start of the server, by name.           *)
RoleChanges ==
  /\ logins < MaxLogins
  /\ logins' = logins + 1
  /\ \E u \in Users, r \in StoredRoles : roles' = [roles EXCEPT ![u] = r]
  /\ UNCHANGED <<viewVars, clock, browser>>
ServerStarts ==
  /\ roles' = [u \in Users |-> IF u \in AdminNames /\ roles[u] = "member" THEN "admin" ELSE roles[u]]
  /\ UNCHANGED <<viewVars, clock, browser, logins>>

HourPasses == clock < MaxClock /\ clock' = clock + 1 /\ UNCHANGED <<viewVars, roles, browser, logins>>

AccountsNext ==
  \/ \E tab \in Tabs :
       \/ \E user \in Users : LogIn(tab, user)
       \/ ReloadTab(tab) \/ SessionBegins(tab) \/ SessionEnds(tab)
  \/ RoleChanges \/ ServerStarts \/ HourPasses

-----------------------------------------------------------------------------
(* While its token is valid a session is shown what the server grants and  *)
(* nothing else, though the page and the server decide from different      *)
(* claims: the emergency button is shown by permission and granted by      *)
(* role.  A token without permissions is the exception: the page falls     *)
(* back to those of the role, the server to none.                          *)
ShownIsGranted ==
  \A tab \in Tabs :
    LET of == session[tab] IN
    of # None /\ Validates(of.token) =>
      /\ AdminTabShown(of) <=> GrantsAdmin(of.token)
      /\ of.token.permissions # None =>
           /\ \A live \in BOOLEAN :
                /\ ControlsShown(of, live) <=> GrantsAdmin(of.token)
                /\ ControlsShown(of, live) <=>
                     Grants(of.token, IF live THEN "telemetry:stop" ELSE "telemetry:start")
           /\ CanDownload(of) <=> Grants(of.token, "logs:read")

(* The session a reload would build of its token is the one the login      *)
(* built of the server's answer, whatever has changed since; and the token *)
(* stored, if any, is never older than that of a tab: no reload goes back  *)
(* to an earlier login.                                                    *)
ReloadKeepsSession ==
  \A tab \in Tabs : session[tab] # None =>
    /\ session[tab] = BuildSession(session[tab].token, NoUser)
    /\ jwt # None => jwt.exp >= session[tab].token.exp

AccountsAgree == ShownIsGranted /\ ReloadKeepsSession
=============================================================================
