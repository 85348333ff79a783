------------------------ MODULE ServerTimeoutsProofs ------------------------
(***************************************************************************)
(* Sessions live from their login to their logout and expire by the        *)
(* timeout in force, for any number of tokens and threads and every        *)
(* choice of settings.                                                     *)
(***************************************************************************)
EXTENDS ServerTimeouts, TLAPS

\* The record constant Idle is no request: it has no fields a request has.
Working(th) == requests[th] # Idle

\* A request that read its timeout since the last save has the one in force.
TimeoutsRead ==
    \A th \in Threads : Working(th) =>
        /\ requests[th].version =< saves
        /\ requests[th].version = saves => requests[th].timeout = get_effective_settings.session

\* A token that is being logged in was never logged in and is in no other
\* request.
LoginsAreNew ==
    \A th \in Threads : Working(th) /\ requests[th].purpose = "login" =>
        /\ requests[th].stage = "begun"
        /\ audit[<<"ADMIN_LOGIN_SUCCESS", requests[th].token>>] = 0
        /\ \A u \in Threads \ {th} : Working(u) => requests[u].token # requests[th].token

\* No session was written by a request of the future.
RowsWritten ==
    \A k \in Tokens : sessions[k] # NoRow => sessions[k].version =< saves

SessionInv ==
    /\ SessionUntilLogout
    /\ SessionTimeoutInForce
    /\ TimeoutsRead
    /\ LoginsAreNew
    /\ RowsWritten

-----------------------------------------------------------------------------

LEMMA EffectiveTyped ==
    ASSUME TimeoutsTypeOK
    PROVE  get_effective_settings \in Settings
BY TimeoutsAssumption DEF TimeoutsTypeOK, get_effective_settings

\* A thread that is at a stage has a request.
LEMMA AtStage ==
    ASSUME TimeoutsTypeOK, NEW th \in Threads, Stage(th) # "idle"
    PROVE  requests[th] \in Requests /\ Working(th) /\ Stage(th) = requests[th].stage
BY DEF TimeoutsTypeOK, Stage, Working

\* The row written for a request is a session row.
LEMMA ActiveRowTyped ==
    ASSUME TimeoutsTypeOK, NEW q \in Requests
    PROVE  /\ ActiveRow(q) \in SessionRows
           /\ \E v \in Settings :
                ActiveRow(q).expires_at = ActiveRow(q).last_activity_at + v.session
<1>1. PICK v \in Settings : q.timeout = v.session
    BY DEF Requests
<1>2. v.session \in Nat /\ now \in 0..MaxTime /\ q.version \in 0..MaxSaves
    BY TimeoutsAssumption DEF TimeoutsTypeOK, Requests
<1> QED
    BY <1>1, <1>2, TimeoutsAssumption DEF ActiveRow, SessionRows

LEMMA TimeoutsTypeInit == TimeoutsInit => TimeoutsTypeOK
BY TimeoutsAssumption DEF TimeoutsInit, TimeoutsTypeOK

LEMMA TimeoutsTypeNext ==
    TimeoutsTypeOK /\ [TimeoutsNext]_timeoutsVars => TimeoutsTypeOK'
<1> SUFFICES ASSUME TimeoutsTypeOK, [TimeoutsNext]_timeoutsVars PROVE TimeoutsTypeOK'
    OBVIOUS
<1> USE TimeoutsAssumption
<1>1. CASE Tick
    BY <1>1 DEF Tick, TimeoutsTypeOK, configVars
<1>2. ASSUME NEW c \in Clients, RecordHeartbeat(c) PROVE TimeoutsTypeOK'
    BY <1>2 DEF RecordHeartbeat, TimeoutsTypeOK, configVars
<1>3. ASSUME NEW th \in Threads, NEW k \in Tokens,
             NEW purpose \in {"login", "page", "logout", "settings"},
             BeginRequest(th, purpose, k)
      PROVE  TimeoutsTypeOK'
  <2>1. [purpose |-> purpose, token |-> k, stage |-> "begun",
         timeout |-> get_effective_settings.session, version |-> saves] \in Requests
    BY EffectiveTyped DEF Requests, TimeoutsTypeOK
  <2> QED
    BY <1>3, <2>1 DEF BeginRequest, TimeoutsTypeOK, configVars
<1>4. ASSUME NEW th \in Threads,
             \/ FindSession(th) \/ RejectRequest(th) \/ TouchFails(th)
             \/ RefuseLogin(th) \/ ServePage(th)
      PROVE  TimeoutsTypeOK'
  <2>1. requests[th] \in Requests
    BY <1>4, AtStage DEF FindSession, RejectRequest, TouchFails, RefuseLogin, ServePage
  <2>2. requests' \in [Threads -> Requests \cup {Idle}]
    BY <1>4, <2>1
       DEF FindSession, RejectRequest, TouchFails, RefuseLogin, ServePage,
           Reaches, Ends, TimeoutsTypeOK, Requests
  <2> QED
    BY <1>4, <2>2
       DEF FindSession, RejectRequest, TouchFails, RefuseLogin, ServePage,
           TimeoutsTypeOK, configVars
<1>5. ASSUME NEW th \in Threads, Touch(th) \/ OpenPage(th) PROVE TimeoutsTypeOK'
  <2>1. requests[th] \in Requests
    BY <1>5, AtStage DEF Touch, OpenPage
  <2>2. requests' \in [Threads -> Requests \cup {Idle}]
    BY <1>5, <2>1 DEF Touch, OpenPage, Reaches, Ends, TimeoutsTypeOK, Requests
  <2>3. /\ sessions' = [sessions EXCEPT ![requests[th].token] = ActiveRow(requests[th])]
        /\ UNCHANGED <<now, configVars, audit, cookies, lastHeartbeat>>
    BY <1>5 DEF Touch, OpenPage
  <2> QED
    BY <2>1, <2>2, <2>3, ActiveRowTyped DEF TimeoutsTypeOK, configVars, Requests
<1>6. ASSUME NEW th \in Threads, Login(th) PROVE TimeoutsTypeOK'
  <2>1. requests[th] \in Requests /\ requests[th].token \in Tokens
    BY <1>6, AtStage DEF Login, Requests
  <2>2. requests' \in [Threads -> Requests \cup {Idle}]
    BY <1>6 DEF Login, Ends, TimeoutsTypeOK
  <2>3. audit' \in [AuditRows -> Nat]
    BY <1>6, <2>1 DEF Login, TimeoutsTypeOK, AuditRows
  <2>4. cookies' \in [Tokens -> Nat]
    <3>1. now + DefaultSettings.session \in Nat
      BY DEF TimeoutsTypeOK
    <3> QED
      BY <1>6, <3>1 DEF Login, SetCookies, TimeoutsTypeOK
  <2> QED
    BY <1>6, <2>1, <2>2, <2>3, <2>4, ActiveRowTyped DEF Login, TimeoutsTypeOK, configVars
<1>7. ASSUME NEW th \in Threads, Logout(th) PROVE TimeoutsTypeOK'
  <2>1. requests' \in [Threads -> Requests \cup {Idle}]
    BY <1>7 DEF Logout, Ends, TimeoutsTypeOK
  <2>2. requests[th].token \in Tokens
    BY <1>7, AtStage DEF Logout, Requests
  <2>3. audit' \in [AuditRows -> Nat]
    <3>1. \/ audit' = [audit EXCEPT ![<<"ADMIN_LOGOUT", requests[th].token>>] = @ + 1]
          \/ audit' = audit
      BY <1>7 DEF Logout
    <3>2. <<"ADMIN_LOGOUT", requests[th].token>> \in AuditRows
      BY <2>2 DEF AuditRows
    <3> QED
      BY <3>1, <3>2 DEF TimeoutsTypeOK
  <2> QED
    BY <1>7, <2>1, <2>3 DEF Logout, ClearCookies, TimeoutsTypeOK, configVars
<1>8. ASSUME NEW th \in Threads, SaveSettings(th) PROVE TimeoutsTypeOK'
    BY <1>8 DEF SaveSettings, Ends, TimeoutsTypeOK
<1>9. CASE UNCHANGED timeoutsVars
    BY <1>9 DEF timeoutsVars, configVars, TimeoutsTypeOK
<1> QED
    BY <1>1, <1>2, <1>3, <1>4, <1>5, <1>6, <1>7, <1>8, <1>9 DEF TimeoutsNext

\* Every variable keeps its type, and a session expires a timeout an
\* administrator could have saved after it was last used (validate_session).
THEOREM TimeoutsTypeCorrect == TimeoutsSpec => []TimeoutsTypeOK
BY TimeoutsTypeInit, TimeoutsTypeNext, PTL DEF TimeoutsSpec

-----------------------------------------------------------------------------

LEMMA SessionInvInit == TimeoutsInit => SessionInv
BY DEF TimeoutsInit, SessionInv, SessionUntilLogout, SessionTimeoutInForce, TimeoutsRead,
       LoginsAreNew, RowsWritten, Working, AuditRows

\* A request that goes on keeps its purpose, token, timeout and version; no
\* request begins.  A login is unchanged: it only ever ends.
RequestsGoOn ==
    \A th \in Threads : Working(th)' =>
        /\ Working(th)
        /\ requests'[th].purpose = requests[th].purpose
        /\ requests'[th].token = requests[th].token
        /\ requests'[th].timeout = requests[th].timeout
        /\ requests'[th].version = requests[th].version
        /\ requests[th].purpose = "login" => requests'[th] = requests[th]

LEMMA GoingOn ==
    ASSUME TimeoutsTypeOK, LoginsAreNew, NEW th \in Threads,
           \/ Ends(th)
           \/ /\ Stage(th) = "found" \/ requests[th].purpose # "login"
              /\ Stage(th) # "idle"
              /\ \E stage \in {"found", "authenticated"} : Reaches(th, stage)
    PROVE  RequestsGoOn
<1>1. \A u \in Threads \ {th} : requests'[u] = requests[u]
    BY DEF Ends, Reaches, TimeoutsTypeOK
<1>2. CASE Ends(th)
    BY <1>1, <1>2 DEF Ends, TimeoutsTypeOK, RequestsGoOn, Working
<1>3. ASSUME Stage(th) = "found" \/ requests[th].purpose # "login", Stage(th) # "idle",
             NEW stage \in {"found", "authenticated"}, Reaches(th, stage)
      PROVE  RequestsGoOn
  <2>1. requests[th] \in Requests /\ Working(th) /\ Stage(th) = requests[th].stage
    BY <1>3, AtStage
  <2>2. requests[th].purpose # "login"
    BY <1>3, <2>1 DEF LoginsAreNew
  <2>3. requests'[th] = [requests[th] EXCEPT !.stage = stage]
    BY <1>3 DEF Reaches, TimeoutsTypeOK
  <2>4. /\ requests'[th].purpose = requests[th].purpose
        /\ requests'[th].token = requests[th].token
        /\ requests'[th].timeout = requests[th].timeout
        /\ requests'[th].version = requests[th].version
    BY <2>1, <2>3 DEF Requests
  <2> QED
    BY <1>1, <2>1, <2>2, <2>4 DEF RequestsGoOn, Working
<1> QED
    BY <1>2, <1>3

\* Requests that go on stay sound while the tables they read stay put.
LEMMA StillSound ==
    ASSUME TimeoutsRead, LoginsAreNew, RequestsGoOn, UNCHANGED configVars,
           \A th \in Threads : Working(th)' /\ requests[th].purpose = "login" =>
                audit'[<<"ADMIN_LOGIN_SUCCESS", requests[th].token>>]
                    = audit[<<"ADMIN_LOGIN_SUCCESS", requests[th].token>>]
    PROVE  TimeoutsRead' /\ LoginsAreNew'
<1>1. TimeoutsRead'
    BY DEF TimeoutsRead, RequestsGoOn, configVars, get_effective_settings
<1>2. LoginsAreNew'
    BY DEF LoginsAreNew, RequestsGoOn
<1> QED
    BY <1>1, <1>2

\* What a request writes as its session is a row, due by the timeout in force
\* if the request read that.
LEMMA RowOfRequest ==
    ASSUME TimeoutsTypeOK, TimeoutsRead, NEW th \in Threads, Working(th)
    PROVE  LET row == ActiveRow(requests[th])
           IN  /\ row # NoRow
               /\ row.version =< saves
               /\ row.version = saves =>
                    row.expires_at = row.last_activity_at + get_effective_settings.session
<1>1. requests[th] \in Requests
    BY DEF TimeoutsTypeOK, Working
<1>2. ActiveRow(requests[th]) \in SessionRows
    BY <1>1, ActiveRowTyped
<1>3. ActiveRow(requests[th]) # NoRow
    BY <1>2, TimeoutsAssumption DEF SessionRows
<1> QED
    BY <1>3 DEF ActiveRow, TimeoutsRead

LEMMA SessionInvNext ==
    TimeoutsTypeOK /\ SessionInv /\ [TimeoutsNext]_timeoutsVars => SessionInv'
<1> SUFFICES ASSUME TimeoutsTypeOK, SessionInv, [TimeoutsNext]_timeoutsVars
             PROVE  SessionInv'
    OBVIOUS
<1> USE DEF SessionInv
<1>1. ASSUME UNCHANGED <<configVars, sessions, audit, requests>> PROVE SessionInv'
    BY <1>1 DEF configVars, SessionUntilLogout, SessionTimeoutInForce, TimeoutsRead,
       LoginsAreNew, RowsWritten, Working, get_effective_settings
<1>2. ASSUME UNCHANGED <<configVars, sessions, audit>>, RequestsGoOn PROVE SessionInv'
  <2>1. TimeoutsRead' /\ LoginsAreNew'
    BY <1>2, StillSound
  <2> QED
    BY <1>2, <2>1 DEF configVars, SessionUntilLogout, SessionTimeoutInForce, RowsWritten
<1>3. ASSUME NEW th \in Threads, NEW k \in Tokens,
             NEW purpose \in {"login", "page", "logout", "settings"},
             BeginRequest(th, purpose, k)
      PROVE  SessionInv'
  <2> DEFINE q == [purpose |-> purpose, token |-> k, stage |-> "begun",
                   timeout |-> get_effective_settings.session, version |-> saves]
  <2>1. /\ requests' = [requests EXCEPT ![th] = q]
        /\ requests'[th] = q
        /\ \A u \in Threads \ {th} : requests'[u] = requests[u]
        /\ UNCHANGED <<configVars, sessions, audit>>
    BY <1>3 DEF BeginRequest, TimeoutsTypeOK
  <2>2. TimeoutsRead'
    <3>1. saves \in Nat
      BY TimeoutsAssumption DEF TimeoutsTypeOK
    <3> QED
      BY <2>1, <3>1 DEF TimeoutsRead, Working, configVars, get_effective_settings
  <2>3. \A u \in Threads \ {th} : Working(u) /\ (purpose = "login" \/ requests[u].purpose = "login")
            => requests[u].token # k
    <3> SUFFICES ASSUME NEW u \in Threads \ {th}, Working(u),
                        purpose = "login" \/ requests[u].purpose = "login"
                 PROVE  requests[u].token # k
      OBVIOUS
    <3>1. CASE purpose = "login"
      <4>1. Stage(u) # "idle"
        BY DEF TimeoutsTypeOK, Working, Stage, Requests
      <4> QED
        BY <1>3, <3>1, <4>1 DEF BeginRequest
    <3>2. CASE purpose # "login"
      <4>1. audit[<<"ADMIN_LOGIN_SUCCESS", k>>] > 0
        BY <1>3, <3>2 DEF BeginRequest
      <4>2. audit[<<"ADMIN_LOGIN_SUCCESS", requests[u].token>>] = 0
        BY <3>2 DEF LoginsAreNew
      <4> QED
        BY <4>1, <4>2
    <3> QED
      BY <3>1, <3>2
  <2>4. purpose = "login" => audit[<<"ADMIN_LOGIN_SUCCESS", k>>] = 0
    BY <1>3 DEF BeginRequest
  <2>5. LoginsAreNew'
    BY <2>1, <2>3, <2>4 DEF LoginsAreNew, Working
  <2> QED
    BY <2>1, <2>2, <2>5 DEF configVars, SessionUntilLogout, SessionTimeoutInForce, RowsWritten
<1>4. ASSUME NEW th \in Threads,
             \/ FindSession(th) \/ RejectRequest(th) \/ TouchFails(th)
             \/ RefuseLogin(th) \/ ServePage(th)
      PROVE  SessionInv'
  <2>1. RequestsGoOn
    BY <1>4, GoingOn DEF FindSession, RejectRequest, TouchFails, RefuseLogin, ServePage
  <2> QED
    BY <1>2, <1>4, <2>1 DEF FindSession, RejectRequest, TouchFails, RefuseLogin, ServePage
<1>5. ASSUME NEW th \in Threads, Touch(th) \/ OpenPage(th) PROVE SessionInv'
  <2> DEFINE k == requests[th].token
             row == ActiveRow(requests[th])
  <2>1. RequestsGoOn
    BY <1>5, GoingOn DEF Touch, OpenPage
  <2>2. TimeoutsRead' /\ LoginsAreNew'
    BY <1>5, <2>1, StillSound DEF Touch, OpenPage
  <2>3. Working(th)
    BY <1>5, AtStage DEF Touch, OpenPage
  <2>4. /\ row # NoRow
        /\ row.version =< saves
        /\ row.version = saves =>
             row.expires_at = row.last_activity_at + get_effective_settings.session
    BY <2>3, RowOfRequest
  <2>5. /\ sessions[k] # NoRow
        /\ UNCHANGED <<configVars, audit>>
        /\ \A j \in Tokens : sessions'[j] = IF j = k THEN row ELSE sessions[j]
    BY <1>5 DEF Touch, OpenPage, ValidSession, TimeoutsTypeOK
  <2> HIDE DEF row, k
  <2>6. SessionUntilLogout'
    BY <2>4, <2>5 DEF SessionUntilLogout
  <2>7. SessionTimeoutInForce'
    BY <2>4, <2>5 DEF SessionTimeoutInForce, configVars, get_effective_settings
  <2>8. RowsWritten'
    BY <2>4, <2>5 DEF RowsWritten, configVars
  <2> QED
    BY <2>2, <2>6, <2>7, <2>8
<1>6. ASSUME NEW th \in Threads, Login(th) PROVE SessionInv'
  <2> DEFINE k == requests[th].token
             row == ActiveRow(requests[th])
  <2>1. Working(th) /\ requests[th] \in Requests /\ requests[th].purpose = "login"
    BY <1>6, AtStage DEF Login
  <2>2. k \in Tokens
    BY <2>1 DEF Requests
  <2>3. /\ row # NoRow
        /\ row.version =< saves
        /\ row.version = saves =>
             row.expires_at = row.last_activity_at + get_effective_settings.session
    BY <2>1, RowOfRequest
  <2>4. /\ audit[<<"ADMIN_LOGIN_SUCCESS", k>>] = 0
        /\ \A u \in Threads \ {th} : Working(u) => requests[u].token # k
    BY <2>1 DEF LoginsAreNew
  <2>5. /\ UNCHANGED configVars
        /\ \A j \in Tokens : sessions'[j] = IF j = k THEN row ELSE sessions[j]
        /\ \A r \in AuditRows :
             audit'[r] = IF r = <<"ADMIN_LOGIN_SUCCESS", k>> THEN audit[r] + 1 ELSE audit[r]
    BY <1>6 DEF Login, TimeoutsTypeOK
  <2>6. \A u \in Threads : Working(u)' => u # th
    BY <1>6 DEF Login, Ends, TimeoutsTypeOK, Working
  <2>7. RequestsGoOn
    BY <1>6, GoingOn DEF Login
  <2>8. TimeoutsRead' /\ LoginsAreNew'
    <3>1. ASSUME NEW u \in Threads, Working(u)', requests[u].purpose = "login"
          PROVE  audit'[<<"ADMIN_LOGIN_SUCCESS", requests[u].token>>]
                    = audit[<<"ADMIN_LOGIN_SUCCESS", requests[u].token>>]
      <4>1. Working(u) /\ u # th
        BY <2>6, <2>7, <3>1 DEF RequestsGoOn
      <4>2. requests[u].token \in Tokens /\ requests[u].token # k
        BY <2>4, <4>1 DEF TimeoutsTypeOK, Working, Requests
      <4> QED
        BY <2>5, <4>2 DEF AuditRows
    <3> QED
      BY <2>5, <2>7, <3>1, StillSound
  <2> HIDE DEF row, k
  <2>9. SessionUntilLogout'
    <3> SUFFICES ASSUME NEW j \in Tokens
                 PROVE  /\ audit'[<<"ADMIN_LOGIN_SUCCESS", j>>] =< 1
                        /\ audit'[<<"ADMIN_LOGIN_SUCCESS", j>>] - audit'[<<"ADMIN_LOGOUT", j>>]
                             = IF sessions'[j] = NoRow THEN 0 ELSE 1
      BY DEF SessionUntilLogout
    <3>1. /\ audit[<<"ADMIN_LOGIN_SUCCESS", j>>] \in Nat
          /\ audit[<<"ADMIN_LOGOUT", j>>] \in Nat
          /\ audit'[<<"ADMIN_LOGOUT", j>>] = audit[<<"ADMIN_LOGOUT", j>>]
          /\ audit'[<<"ADMIN_LOGIN_SUCCESS", j>>] =
               IF j = k THEN audit[<<"ADMIN_LOGIN_SUCCESS", j>>] + 1
               ELSE audit[<<"ADMIN_LOGIN_SUCCESS", j>>]
      BY <2>5 DEF AuditRows, TimeoutsTypeOK
    <3>2. CASE j = k
      <4>1. audit[<<"ADMIN_LOGIN_SUCCESS", j>>] = 0 /\ audit[<<"ADMIN_LOGOUT", j>>] = 0
        BY <2>4, <3>1, <3>2 DEF SessionUntilLogout
      <4> QED
        BY <2>3, <2>5, <3>1, <3>2, <4>1
    <3>3. CASE j # k
      BY <2>5, <3>1, <3>3 DEF SessionUntilLogout
    <3> QED
      BY <3>2, <3>3
  <2>10. SessionTimeoutInForce'
    BY <2>3, <2>5 DEF SessionTimeoutInForce, configVars, get_effective_settings
  <2>11. RowsWritten'
    BY <2>3, <2>5 DEF RowsWritten, configVars
  <2> QED
    BY <2>8, <2>9, <2>10, <2>11
<1>7. ASSUME NEW th \in Threads, Logout(th) PROVE SessionInv'
  <2> DEFINE k == requests[th].token
  <2>1. RequestsGoOn /\ UNCHANGED configVars
    BY <1>7, GoingOn DEF Logout
  <2>2. k \in Tokens
    BY <1>7, AtStage DEF Logout, Requests
  <2>3. CASE ~ValidSession(k)
    BY <1>2, <1>7, <2>1, <2>3 DEF Logout
  <2>4. CASE ValidSession(k)
    <3>1. /\ sessions[k] # NoRow
          /\ \A j \in Tokens : sessions'[j] = IF j = k THEN NoRow ELSE sessions[j]
          /\ \A r \in AuditRows :
               audit'[r] = IF r = <<"ADMIN_LOGOUT", k>> THEN audit[r] + 1 ELSE audit[r]
      BY <1>7, <2>4 DEF Logout, ValidSession, TimeoutsTypeOK
    <3>2. \A j \in Tokens :
            /\ audit[<<"ADMIN_LOGIN_SUCCESS", j>>] \in Nat
            /\ audit[<<"ADMIN_LOGOUT", j>>] \in Nat
            /\ audit'[<<"ADMIN_LOGIN_SUCCESS", j>>] = audit[<<"ADMIN_LOGIN_SUCCESS", j>>]
            /\ audit'[<<"ADMIN_LOGOUT", j>>] =
                 IF j = k THEN audit[<<"ADMIN_LOGOUT", j>>] + 1 ELSE audit[<<"ADMIN_LOGOUT", j>>]
      BY <3>1 DEF AuditRows, TimeoutsTypeOK
    <3>3. TimeoutsRead' /\ LoginsAreNew'
      <4>1. \A u \in Threads : Working(u) => requests[u].token \in Tokens
        BY DEF TimeoutsTypeOK, Working, Requests
      <4> QED
        BY <2>1, <3>2, <4>1, StillSound DEF RequestsGoOn
    <3> HIDE DEF k
    <3>4. SessionUntilLogout'
      <4> SUFFICES ASSUME NEW j \in Tokens
                   PROVE  /\ audit'[<<"ADMIN_LOGIN_SUCCESS", j>>] =< 1
                          /\ audit'[<<"ADMIN_LOGIN_SUCCESS", j>>] - audit'[<<"ADMIN_LOGOUT", j>>]
                               = IF sessions'[j] = NoRow THEN 0 ELSE 1
        BY DEF SessionUntilLogout
      <4>1. CASE j = k
        BY <3>1, <3>2, <4>1 DEF SessionUntilLogout
      <4>2. CASE j # k
        BY <3>1, <3>2, <4>2 DEF SessionUntilLogout
      <4> QED
        BY <4>1, <4>2
    <3>5. SessionTimeoutInForce' /\ RowsWritten'
      BY <2>1, <3>1 DEF SessionTimeoutInForce, RowsWritten, configVars
    <3> QED
      BY <3>3, <3>4, <3>5
  <2> QED
    BY <2>3, <2>4
<1>8. ASSUME NEW th \in Threads, SaveSettings(th) PROVE SessionInv'
  <2>1. /\ RequestsGoOn
        /\ saves' = saves + 1
        /\ UNCHANGED <<sessions, audit>>
    BY <1>8, GoingOn DEF SaveSettings
  <2>2. saves \in Nat
    BY TimeoutsAssumption DEF TimeoutsTypeOK
  <2>3. TimeoutsRead'
    <3>1. \A u \in Threads : Working(u) => requests[u].version \in Nat
      BY TimeoutsAssumption DEF TimeoutsTypeOK, Working, Requests
    <3> QED
      BY <2>1, <2>2, <3>1 DEF TimeoutsRead, RequestsGoOn
  <2>4. LoginsAreNew'
    BY <2>1 DEF LoginsAreNew, RequestsGoOn
  <2>5. SessionTimeoutInForce' /\ RowsWritten'
    <3>1. \A k \in Tokens : sessions[k] # NoRow => sessions[k].version \in Nat
      BY TimeoutsAssumption DEF TimeoutsTypeOK, SessionRows
    <3> QED
      BY <2>1, <2>2, <3>1 DEF RowsWritten, SessionTimeoutInForce
  <2> QED
    BY <2>1, <2>3, <2>4, <2>5 DEF SessionUntilLogout
<1> QED
  <2>1. CASE UNCHANGED timeoutsVars
    BY <1>1, <2>1 DEF timeoutsVars
  <2>2. CASE Tick
    BY <1>1, <2>2 DEF Tick
  <2>3. ASSUME NEW c \in Clients, RecordHeartbeat(c) PROVE SessionInv'
    BY <1>1, <2>3 DEF RecordHeartbeat
  <2> HIDE DEF SessionInv
  <2> QED
    BY <1>3, <1>4, <1>5, <1>6, <1>7, <1>8, <2>1, <2>2, <2>3 DEF TimeoutsNext

\* A token has its session from its login to its logout, and each is audited
\* once, whatever other requests with the token are under way (AuthService).
THEOREM SessionsLastUntilLogout == TimeoutsSpec => []SessionUntilLogout
<1>1. SessionInv => SessionUntilLogout
    BY DEF SessionInv
<1> QED
    BY <1>1, TimeoutsTypeCorrect, SessionInvInit, SessionInvNext, PTL DEF TimeoutsSpec

\* A session used by a request begun since the settings were last saved
\* expires by the timeout saved (get_auth_service, get_effective_settings).
THEOREM SavedTimeoutsTakeEffect == TimeoutsSpec => []SessionTimeoutInForce
<1>1. SessionInv => SessionTimeoutInForce
    BY DEF SessionInv
<1> QED
    BY <1>1, TimeoutsTypeCorrect, SessionInvInit, SessionInvNext, PTL DEF TimeoutsSpec

=============================================================================
