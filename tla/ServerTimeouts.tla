--------------------------- MODULE ServerTimeouts ---------------------------
(***************************************************************************)
(* What the server does by the clock: administrator sessions (AuthService),*)
(* the saved timeouts (SystemConfigurationService), and the status of a    *)
(* client as the dashboard derives it from its last heartbeat              *)
(* (HeartbeatService, DashboardService).                                   *)
(*                                                                         *)
(* An administrator's request first runs its dependencies, on a thread     *)
(* pool: get_auth_service reads the timeout, require_administrator finds   *)
(* the session and extends it.  Its handler runs afterwards, alone.        *)
(* Between any two of these steps other requests go on.  Time is counted   *)
(* in the unit of the settings, minutes.                                   *)
(***************************************************************************)
EXTENDS Integers

CONSTANTS
    Tokens,          \* the session tokens, each random and issued once
    Clients,         \* clients that send heartbeats
    Threads,         \* bound: the requests served at the same time
    Settings,        \* [session, heartbeat] timeouts an administrator may save
    DefaultSettings, \* those of the environment
    NoRow,           \* stands for a row that does not exist
    Idle,            \* stands for a thread without a request
    Never,           \* stands for a missing last_heartbeat
    MaxTime,         \* bound: how long the clock runs
    MaxSaves         \* bound: how often settings are saved

ASSUME TimeoutsAssumption ==
    /\ Settings \subseteq [session : Nat \ {0}, heartbeat : Nat \ {0}]
    /\ DefaultSettings \in Settings
    /\ MaxTime \in Nat
    /\ MaxSaves \in Nat
    /\ NoRow \notin Settings
    /\ NoRow \notin [last_activity_at : 0..MaxTime, expires_at : Nat, version : 0..MaxSaves]

VARIABLES
    now,          \* the clock
    saved,        \* the system_configuration row
    saves,        \* the number of SYSTEM_CONFIGURATION_UPDATED audit rows
    sessions,     \* the administrator_sessions rows by token
    audit,        \* how often the login and the logout of a token were audited
    requests,     \* the request of each thread
    cookies,      \* until when the browser of a login keeps the token's cookies
    lastHeartbeat \* last_heartbeat of each client

configVars == <<saved, saves>>
timeoutsVars == <<now, configVars, sessions, audit, requests, cookies, lastHeartbeat>>

AuditRows == {"ADMIN_LOGIN_SUCCESS", "ADMIN_LOGOUT"} \X Tokens

\* `version` is a history field: how often settings had been saved when the
\* request read its timeout.
Requests == [purpose : {"login", "page", "logout", "settings"}, token : Tokens,
             stage : {"begun", "found", "authenticated"},
             timeout : {v.session : v \in Settings}, version : 0..MaxSaves]

\* `version` as above, of the request that wrote the row.
SessionRows ==
    [last_activity_at : 0..MaxTime, expires_at : Nat, version : 0..MaxSaves]

TimeoutsTypeOK ==
    /\ now \in 0..MaxTime
    /\ saved \in Settings \cup {NoRow}
    /\ saves \in 0..MaxSaves
    /\ sessions \in [Tokens -> SessionRows \cup {NoRow}]
    /\ audit \in [AuditRows -> Nat]
    /\ requests \in [Threads -> Requests \cup {Idle}]
    /\ cookies \in [Tokens -> Nat]
    /\ lastHeartbeat \in [Clients -> 0..MaxTime \cup {Never}]
    /\ \A k \in Tokens : sessions[k] # NoRow =>
            \E v \in Settings :
                sessions[k].expires_at = sessions[k].last_activity_at + v.session

TimeoutsInit ==
    /\ now = 0
    /\ saved = NoRow
    /\ saves = 0
    /\ sessions = [k \in Tokens |-> NoRow]
    /\ audit = [r \in AuditRows |-> 0]
    /\ requests = [th \in Threads |-> Idle]
    /\ cookies = [k \in Tokens |-> 0]
    /\ lastHeartbeat = [c \in Clients |-> Never]

-----------------------------------------------------------------------------
(* Dependencies of an administrator's request.                             *)

\* Mutant: the saved settings are not read.
EnvironmentSettings == DefaultSettings

\* The saved settings if there are any, else those of the environment.
get_effective_settings == IF saved = NoRow THEN DefaultSettings ELSE saved

Stage(th) == IF requests[th] = Idle THEN "idle" ELSE requests[th].stage
Ends(th) == requests' = [requests EXCEPT ![th] = Idle]
Reaches(th, stage) == requests' = [requests EXCEPT ![th].stage = stage]

ValidSession(k) == sessions[k] # NoRow /\ sessions[k].expires_at > now

\* A row whose expiry is `timeout` away.
ActiveRow(q) ==
    [last_activity_at |-> now, expires_at |-> now + q.timeout, version |-> q.version]

\* A login gets a token of its own; other requests were sent while the browser
\* had the token's cookie, and come at any time after: the token may be logged
\* out or the cookie gone meanwhile.  get_auth_service.
BeginRequest(th, purpose, k) ==
    /\ requests[th] = Idle
    /\ IF purpose = "login"
       THEN /\ audit[<<"ADMIN_LOGIN_SUCCESS", k>>] = 0
            /\ \A u \in Threads : Stage(u) # "idle" => requests[u].token # k
       ELSE audit[<<"ADMIN_LOGIN_SUCCESS", k>>] > 0
    /\ requests' = [requests EXCEPT ![th] =
            [purpose |-> purpose, token |-> k, stage |-> "begun",
             timeout |-> get_effective_settings.session, version |-> saves]]
    /\ UNCHANGED <<now, configVars, sessions, audit, cookies, lastHeartbeat>>

FindSession(th) ==
    /\ Stage(th) = "begun"
    /\ requests[th].purpose # "login"
    /\ ValidSession(requests[th].token)
    /\ Reaches(th, "found")
    /\ UNCHANGED <<now, configVars, sessions, audit, cookies, lastHeartbeat>>

\* 401, or the way to the login page.
RejectRequest(th) ==
    /\ Stage(th) = "begun"
    /\ requests[th].purpose # "login"
    /\ ~ValidSession(requests[th].token)
    /\ Ends(th)
    /\ UNCHANGED <<now, configVars, sessions, audit, cookies, lastHeartbeat>>

\* Mutant: the row is written whether or not it is still there.
TouchMerging(th) ==
    /\ Stage(th) = "found"
    /\ sessions' = [sessions EXCEPT ![requests[th].token] = ActiveRow(requests[th])]
    /\ Reaches(th, "authenticated")
    /\ UNCHANGED <<now, configVars, audit, cookies, lastHeartbeat>>

\* Mutant: only last_activity_at is refreshed.
TouchActivityOnly(th) ==
    /\ Stage(th) = "found"
    /\ sessions[requests[th].token] # NoRow
    /\ sessions' = [sessions EXCEPT ![requests[th].token].last_activity_at = now]
    /\ Reaches(th, "authenticated")
    /\ UNCHANGED <<now, configVars, audit, cookies, lastHeartbeat>>

\* The session that was found is extended by the timeout that was read.
Touch(th) ==
    /\ Stage(th) = "found"
    /\ sessions[requests[th].token] # NoRow
    /\ sessions' = [sessions EXCEPT ![requests[th].token] = ActiveRow(requests[th])]
    /\ Reaches(th, "authenticated")
    /\ UNCHANGED <<now, configVars, audit, cookies, lastHeartbeat>>

\* The row was deleted since it was found: the update matches no row.
TouchFails(th) ==
    /\ Stage(th) = "found"
    /\ sessions[requests[th].token] = NoRow
    /\ Ends(th)
    /\ UNCHANGED <<now, configVars, sessions, audit, cookies, lastHeartbeat>>

-----------------------------------------------------------------------------
(* Handlers.                                                               *)

\* Wrong credentials: only the failure is audited.
RefuseLogin(th) ==
    /\ Stage(th) = "begun"
    /\ requests[th].purpose = "login"
    /\ Ends(th)
    /\ UNCHANGED <<now, configVars, sessions, audit, cookies, lastHeartbeat>>

\* _set_auth_cookies: they last the timeout of the environment.
SetCookies(k) == cookies' = [cookies EXCEPT ![k] = now + DefaultSettings.session]

\* _clear_auth_cookies
ClearCookies(k) == cookies' = [cookies EXCEPT ![k] = 0]

Login(th) ==
    /\ Stage(th) = "begun"
    /\ requests[th].purpose = "login"
    /\ LET k == requests[th].token
       IN  /\ sessions' = [sessions EXCEPT ![k] = ActiveRow(requests[th])]
           /\ audit' = [audit EXCEPT ![<<"ADMIN_LOGIN_SUCCESS", k>>] = @ + 1]
           /\ SetCookies(k)
    /\ Ends(th)
    /\ UNCHANGED <<now, configVars, lastHeartbeat>>

\* A page of the dashboard finds and extends the session in its own handler.
OpenPage(th) ==
    /\ Stage(th) = "begun"
    /\ requests[th].purpose = "page"
    /\ ValidSession(requests[th].token)
    /\ sessions' = [sessions EXCEPT ![requests[th].token] = ActiveRow(requests[th])]
    /\ Ends(th)
    /\ UNCHANGED <<now, configVars, audit, cookies, lastHeartbeat>>

\* Any request for data that changes nothing modelled here.
ServePage(th) ==
    /\ Stage(th) = "authenticated"
    /\ requests[th].purpose = "page"
    /\ Ends(th)
    /\ UNCHANGED <<now, configVars, sessions, audit, cookies, lastHeartbeat>>

\* The session is looked up again; without one, logging out only clears the
\* cookies.
Logout(th) ==
    /\ Stage(th) = "authenticated"
    /\ requests[th].purpose = "logout"
    /\ LET k == requests[th].token
       IN  IF ValidSession(k)
           THEN /\ sessions' = [sessions EXCEPT ![k] = NoRow]
                /\ audit' = [audit EXCEPT ![<<"ADMIN_LOGOUT", k>>] = @ + 1]
           ELSE UNCHANGED <<sessions, audit>>
    /\ ClearCookies(requests[th].token)
    /\ Ends(th)
    /\ UNCHANGED <<now, configVars, lastHeartbeat>>

SaveSettings(th) ==
    /\ Stage(th) = "authenticated"
    /\ requests[th].purpose = "settings"
    /\ saves < MaxSaves
    /\ saved' \in Settings
    /\ saves' = saves + 1
    /\ Ends(th)
    /\ UNCHANGED <<now, sessions, audit, cookies, lastHeartbeat>>

-----------------------------------------------------------------------------
(* Heartbeats and the status derived from them.                            *)

RecordHeartbeat(c) ==
    /\ lastHeartbeat' = [lastHeartbeat EXCEPT ![c] = now]
    /\ UNCHANGED <<now, configVars, sessions, audit, requests, cookies>>

\* The timeout the caller resolved is overwritten with the default.
EffectiveStatus(c) ==
    IF lastHeartbeat[c] = Never THEN "UNKNOWN"
    ELSE IF now - lastHeartbeat[c] <= DefaultSettings.heartbeat THEN "ONLINE" ELSE "OFFLINE"

-----------------------------------------------------------------------------

Tick ==
    /\ now < MaxTime
    /\ now' = now + 1
    /\ UNCHANGED <<configVars, sessions, audit, requests, cookies, lastHeartbeat>>

TimeoutsNext ==
    \/ Tick
    \/ \E c \in Clients : RecordHeartbeat(c)
    \/ \E th \in Threads :
        \/ \E purpose \in {"login", "page", "logout", "settings"}, k \in Tokens :
                BeginRequest(th, purpose, k)
        \/ FindSession(th) \/ RejectRequest(th) \/ Touch(th) \/ TouchFails(th)
        \/ Login(th) \/ RefuseLogin(th) \/ Logout(th)
        \/ OpenPage(th) \/ ServePage(th) \/ SaveSettings(th)

TimeoutsSpec == TimeoutsInit /\ [][TimeoutsNext]_timeoutsVars

-----------------------------------------------------------------------------
(* Properties.                                                             *)

\* A token has its session from its login to its logout, each audited once:
\* no request that found the session before it was logged out brings it back,
\* and of two logouts at the same time one counts (AuthService).
SessionUntilLogout ==
    \A k \in Tokens :
        /\ audit[<<"ADMIN_LOGIN_SUCCESS", k>>] =< 1
        /\ audit[<<"ADMIN_LOGIN_SUCCESS", k>>] - audit[<<"ADMIN_LOGOUT", k>>]
                = IF sessions[k] = NoRow THEN 0 ELSE 1

\* A saved session timeout takes effect on the very next request: a session
\* that was last used by a request begun since the last save expires by the
\* timeout saved (get_auth_service, get_effective_settings).
SessionTimeoutInForce ==
    \A k \in Tokens :
        sessions[k] # NoRow /\ sessions[k].version = saves =>
            sessions[k].expires_at = sessions[k].last_activity_at +
                (IF saved = NoRow THEN DefaultSettings ELSE saved).session

\* The same of the heartbeat timeout, for the status the dashboard shows
\* (backend/services/dashboard_service.py:181-184).
HeartbeatTimeoutInForce ==
    \A c \in Clients : lastHeartbeat[c] # Never =>
        (EffectiveStatus(c) = "ONLINE" <=>
            now - lastHeartbeat[c] <= get_effective_settings.heartbeat)

\* An administrator session expires after the saved minutes of inactivity
\* (backend/templates/dashboard/settings.html:104-106): as long as the server
\* would still serve a session, its browser has the cookie to use it with.
SessionKeepsCookie ==
    \A k \in Tokens : ValidSession(k) => cookies[k] > now

=============================================================================
