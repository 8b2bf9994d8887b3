------------------------------- MODULE Session -------------------------------
(***************************************************************************)
(* The session of a device with the server: the token pair in the secure   *)
(* store, the 401 interceptor of the API client, AuthProvider's bootstrap, *)
(* login and logout (mobile-app: features/shared/core/api/client.ts,       *)
(* features/auth/context/auth-context.tsx) and the server's rotation of    *)
(* refresh tokens (server: db_operations/token.py).                        *)
(*                                                                         *)
(* A pair of tokens is numbered in the order of issue; 0 is no token.      *)
(* Every step of a call ends at an await.  The server's verdict on a       *)
(* bearer and its arrival are one step: tokens only get worse, so a        *)
(* verdict that travels is a request that travelled longer.  Guests have   *)
(* no tokens and are left out.                                             *)
(***************************************************************************)
EXTENDS Naturals

CONSTANTS Requests,    \* the API calls at work at once, role checks included
          Boot, User,  \* refreshSession() at bootstrap; login() and logout()
          Nobody,
          MaxPairs,    \* bound on the pairs issued
          MaxStarts,   \* bound on the starts of the app
          MaxLogins    \* bound on the attempts to log in

Callers == Requests \cup {Boot, User}

ASSUME SessionAssumption ==
  /\ Boot \notin Requests /\ User \notin Requests /\ Boot # User
  /\ Nobody \notin Callers
  /\ MaxPairs \in Nat \ {0} /\ MaxStarts \in Nat /\ MaxLogins \in Nat

Pairs  == 1 .. MaxPairs
Tokens == 0 .. MaxPairs

Kinds  == {"none", "data", "refresh", "me", "login", "logout"}
Stages == {"idle", "ok", "failed",            \* settled
           "reading", "sent", "checked",      \* under way
           "minted", "half",                  \* a new pair is being stored
           "queued", "repairing",             \* in the interceptor
           "refused", "error",                \* rejected with a 401, or else
           "leaving", "left"}                 \* deleting what is stored

\* A call when n pairs have been issued.
Call(n) == [kind : Kinds, stage : Stages, bearer : 0 .. n, pair : 0 .. n,
            retried : BOOLEAN]

VARIABLES
  access, refresh, uuid,         \* the secure store
  authed, needsRelogin, offlineExpired,  \* AuthProvider's state
  phase,      \* of the app: closed, roles (initialize() awaits them), up
  keep,       \* keepSessionOnRejection of the refresh at bootstrap
  relogin,    \* isRelogin of the login under way
  call,       \* of each caller
  fix,        \* the interceptor's refresh under way
  issued,     \* the last pair issued
  expired,    \* access tokens up to this one have expired
  revoked,    \* access tokens on the blacklist
  spent,      \* refresh tokens on the blacklist
  orphans,    \* refresh tokens posted by calls that were given up
  parent,     \* history: the refresh token a pair was issued for
  rejected,   \* history: the server refused a refresh
  quit,       \* history: the user logged out, or a refused bootstrap did
  overlapped, \* history: two holders of the pair were at work at once, in this run
  starts, logins

storeVars  == <<access, refresh, uuid>>
uiVars     == <<authed, needsRelogin, offlineExpired>>
appVars    == <<phase, keep, relogin, starts, logins>>
serverVars == <<issued, expired, revoked, spent, orphans, parent>>
history    == <<rejected, quit, overlapped>>
vars == <<storeVars, uiVars, appVars, call, fix, serverVars, history>>

Idle  == [kind |-> "none", stage |-> "idle", bearer |-> 0, pair |-> 0,
          retried |-> FALSE]
NoFix == [owner |-> Nobody, stage |-> "idle", pair |-> 0]

Init ==
  /\ access = 1 /\ refresh = 1 /\ uuid = TRUE
  /\ authed = FALSE /\ needsRelogin = FALSE /\ offlineExpired = FALSE
  /\ phase = "closed" /\ keep = FALSE /\ relogin = FALSE
  /\ call = [c \in Callers |-> Idle] /\ fix = NoFix
  /\ issued = 1 /\ expired = 0 /\ revoked = {} /\ spent = {} /\ orphans = {}
  /\ parent = [p \in Pairs |-> 0]
  /\ rejected = FALSE /\ quit = FALSE /\ overlapped = FALSE
  /\ starts = 0 /\ logins = 0

-----------------------------------------------------------------------------
(* What the server does with tokens.                                       *)

\* get_current_user_allow_stale_password()
Live(p) == p > expired /\ p \notin revoked

\* create_token_pair(), for a refresh token or, with 0, for a password
Issue(for) ==
  /\ issued < MaxPairs
  /\ issued' = issued + 1 /\ parent' = [parent EXCEPT ![issued + 1] = for]

\* mutant: the blacklist takes a jti twice
RevokedAgain(t) ==
  /\ Issue(t) /\ spent' = spent \cup {t}

\* add_to_blacklist(): jti is the primary key.
Rotated(t) ==
  /\ t \notin spent /\ Issue(t) /\ spent' = spent \cup {t}

\* A new pair being stored, or one that a repeated request was given.
Fresh(p) ==
  \/ fix.stage \in {"minted", "half"} /\ fix.pair = p
  \/ \E c \in Callers :
       \/ call[c].stage \in {"minted", "half"} /\ call[c].pair = p
       \/ call[c].retried /\ call[c].bearer = p

\* Assumed: a request does not take the thirty minutes its token was given.
Expire ==
  /\ expired < issued /\ ~Fresh(expired + 1) /\ expired' = expired + 1
  /\ UNCHANGED <<storeVars, uiVars, appVars, call, fix, issued, revoked,
                 spent, orphans, parent, history>>

\* A refresh whose caller has gone is served all the same.
OrphanServed(t) ==
  /\ t \in orphans /\ orphans' = orphans \ {t}
  /\ Rotated(t)
  /\ UNCHANGED <<storeVars, uiVars, appVars, call, fix, expired,
                 revoked, history>>

-----------------------------------------------------------------------------
(* The API client: a request and its 401.                                  *)

\* The request interceptor attaches the stored token, a = access.
Sent(k, p, a) == [kind |-> k, stage |-> "sent", bearer |-> a, pair |-> p,
                  retried |-> FALSE]

\* A header that the caller set stays if no token is stored.
Bearer(p) == IF access = 0 THEN p ELSE access

Resent(c, a) == [call[c] EXCEPT !.stage = "sent", !.bearer = a]

\* Only initialize() looks at how a request of the services ends.
Ended(how) == IF phase = "roles" THEN [Idle EXCEPT !.stage = how] ELSE Idle

\* mutant: every failure is taken for a 401
TakenForRefusal(c, how) ==
  IF c \in Requests THEN Ended("failed")
  ELSE [Idle EXCEPT !.kind = call[c].kind, !.stage = "refused"]

Gone(c, how) ==
  IF c \in Requests THEN Ended("failed")
  ELSE [Idle EXCEPT !.kind = call[c].kind, !.stage = how]

IsRefreshing == fix.owner # Nobody
FailedQueue  == {c \in Callers : call[c].stage = "queued"}

\* The server answers 401.
IsRefused(c) ==
  CASE call[c].kind \in {"data", "me"} -> ~Live(call[c].bearer)
    [] call[c].kind = "refresh"        -> call[c].pair \in spent
    [] call[c].kind = "logout"         -> call[c].bearer <= expired
    [] OTHER                           -> TRUE  \* a wrong password

Unauthorized(c) ==
  /\ call[c].stage = "sent" /\ IsRefused(c)
  /\ rejected' = (rejected \/ call[c].kind = "refresh")
  /\ \/ /\ call[c].retried
        /\ call' = [call EXCEPT ![c] = Gone(c, "refused")] /\ UNCHANGED fix
     \/ /\ ~call[c].retried /\ IsRefreshing
        /\ call' = [call EXCEPT ![c] = [@ EXCEPT !.stage = "queued", !.bearer = 0]]
        /\ UNCHANGED fix
     \/ /\ ~call[c].retried /\ ~IsRefreshing
        /\ call' = [call EXCEPT ![c] = [@ EXCEPT !.stage = "repairing", !.bearer = 0,
                                                 !.retried = TRUE]]
        /\ fix' = [owner |-> c, stage |-> "reading", pair |-> 0]
  /\ UNCHANGED <<storeVars, uiVars, appVars, serverVars, quit, overlapped>>

\* Anything but an answer with a 401: no network, a 429, a 500.
Unanswered(c) ==
  /\ call[c].stage \in {"sent", "checked", "minted"}
  /\ call' = [call EXCEPT ![c] = Gone(c, "error")]
  /\ orphans' = IF call[c].kind = "refresh" /\ call[c].stage # "minted"
                  THEN orphans \cup {call[c].pair} ELSE orphans
  /\ revoked' \in IF call[c].kind = "logout"
                    THEN {revoked, revoked \cup ({call[c].bearer} \ {0})}
                    ELSE {revoked}
  /\ UNCHANGED <<storeVars, uiVars, appVars, fix, issued, expired, spent,
                 parent, history>>

-----------------------------------------------------------------------------
(* The interceptor's refresh.                                              *)

\* mutant: the queue is forgotten
OwnerReleased(a) == [call EXCEPT ![fix.owner] = Resent(fix.owner, a)]

\* processQueue(null, token), and the caller that refreshed tries again
Released(a) ==
  [c \in Callers |-> IF c \in FailedQueue \cup {fix.owner} THEN Resent(c, a)
                     ELSE call[c]]

\* processQueue(error)
Abandoned(how) ==
  [c \in Callers |-> IF c \in FailedQueue \cup {fix.owner} THEN Gone(c, how)
                     ELSE call[c]]

\* Another holder of the pair: the refresh at bootstrap, a login, a logout.
OthersAtWork ==
  \E c \in {Boot, User} : call[c].kind # "none" /\ c # fix.owner

FixReads ==
  /\ fix.stage = "reading"
  /\ \/ /\ refresh = 0   \* reject(error): those who queued meanwhile stay queued
        /\ call' = [call EXCEPT ![fix.owner] = Gone(fix.owner, "refused")]
        /\ fix' = NoFix /\ UNCHANGED overlapped
     \/ /\ refresh # 0
        /\ fix' = [fix EXCEPT !.stage = "posted", !.pair = refresh]
        /\ overlapped' = (overlapped \/ OthersAtWork) /\ UNCHANGED call
  /\ UNCHANGED <<storeVars, uiVars, appVars, serverVars, rejected, quit>>

\* is_token_blacklisted(): no.
FixChecked ==
  /\ fix.stage = "posted" /\ fix.pair \notin spent
  /\ fix' = [fix EXCEPT !.stage = "checked"]
  /\ UNCHANGED <<storeVars, uiVars, appVars, call, serverVars, history>>

FixMinted ==
  /\ fix.stage = "checked" /\ Rotated(fix.pair)
  /\ fix' = [fix EXCEPT !.stage = "minted", !.pair = issued']
  /\ UNCHANGED <<storeVars, uiVars, appVars, call, expired, revoked,
                 orphans, history>>

\* mutant: the tokens are deleted whatever the reason
FixFailsAndDrops ==
  /\ fix.stage \in {"posted", "checked", "minted"}
  /\ call' = Abandoned("error") /\ access' = 0
  /\ fix' = [fix EXCEPT !.stage = "dropping"]
  /\ orphans' = IF fix.stage = "minted" THEN orphans ELSE orphans \cup {fix.pair}
  /\ UNCHANGED <<refresh, uuid, uiVars, appVars, issued, expired, revoked,
                 spent, parent, history>>

\* The refresh fails for any reason but a 401: the tokens are kept.
FixFails ==
  /\ fix.stage \in {"posted", "checked", "minted"}
  /\ call' = Abandoned("error") /\ fix' = NoFix
  /\ orphans' = IF fix.stage = "minted" THEN orphans ELSE orphans \cup {fix.pair}
  /\ UNCHANGED <<storeVars, uiVars, appVars, issued, expired, revoked,
                 spent, parent, history>>

\* The server rejects the refresh token: the tokens are deleted.
FixRefused ==
  /\ fix.stage = "posted" /\ fix.pair \in spent
  /\ call' = Abandoned("refused") /\ rejected' = TRUE
  /\ access' = 0 /\ fix' = [fix EXCEPT !.stage = "dropping"]
  /\ UNCHANGED <<refresh, uuid, uiVars, appVars, serverVars, quit,
                 overlapped>>

FixDrops ==
  /\ fix.stage = "dropping"
  /\ refresh' = 0 /\ needsRelogin' = TRUE /\ fix' = NoFix
  /\ UNCHANGED <<access, uuid, authed, offlineExpired, appVars, call,
                 serverVars, history>>

FixStoresAccess ==
  /\ fix.stage = "minted"
  /\ access' = fix.pair /\ fix' = [fix EXCEPT !.stage = "half"]
  /\ UNCHANGED <<refresh, uuid, uiVars, appVars, call, serverVars, history>>

FixStoresRefresh ==
  /\ fix.stage = "half"
  /\ refresh' = fix.pair /\ call' = Released(Bearer(fix.pair)) /\ fix' = NoFix
  /\ UNCHANGED <<access, uuid, uiVars, appVars, serverVars, history>>

-----------------------------------------------------------------------------
(* Requests of the services.                                               *)

Ask(r) ==
  /\ phase = "up" /\ authed
  /\ call[r].stage \in {"idle", "ok", "failed"}
  /\ call' = [call EXCEPT ![r] = Sent("data", 0, access)]
  /\ UNCHANGED <<storeVars, uiVars, appVars, fix, serverVars, history>>

Served(r) ==
  /\ call[r].stage = "sent" /\ Live(call[r].bearer)
  /\ call' = [call EXCEPT ![r] = Ended("ok")]
  /\ UNCHANGED <<storeVars, uiVars, appVars, fix, serverVars, history>>

-----------------------------------------------------------------------------
(* The bootstrap of AuthProvider and refreshSession().                     *)

\* The app starts: initialize() asks for the user's roles.
Launch ==
  /\ phase = "closed" /\ starts < MaxStarts /\ starts' = starts + 1
  /\ IF uuid
       THEN /\ phase' = "roles"
            /\ call' = [c \in Callers |-> IF c \in Requests
                                          THEN Sent("data", 0, access) ELSE Idle]
       ELSE phase' = "up" /\ UNCHANGED call
  /\ UNCHANGED <<storeVars, uiVars, keep, relogin, logins, fix, serverVars,
                 history>>

RolesSettled ==
  \/ \A r \in Requests : call[r].stage = "ok"
  \/ \E r \in Requests : call[r].stage = "failed"

\* record: initialize() found the user in the local database.
Restore(record) ==
  /\ phase = "roles" /\ RolesSettled /\ phase' = "up"
  /\ authed' = record /\ keep' = record
  /\ call' = IF record /\ access > expired THEN call
             ELSE [call EXCEPT ![Boot] = [Idle EXCEPT !.kind = "refresh",
                                                      !.stage = "reading"]]
  /\ UNCHANGED <<storeVars, needsRelogin, offlineExpired, relogin, starts, logins,
                 fix, serverVars, history>>

BootReads ==
  /\ call[Boot].stage = "reading"
  /\ \/ /\ refresh = 0
        /\ needsRelogin' = (needsRelogin \/ keep)
        /\ call' = [call EXCEPT ![Boot] = Idle] /\ UNCHANGED overlapped
     \/ /\ refresh # 0
        /\ call' = [call EXCEPT ![Boot] = Sent("refresh", refresh, 0)]
        /\ overlapped' = (overlapped \/ IsRefreshing \/ call[User].kind # "none")
        /\ UNCHANGED needsRelogin
  /\ UNCHANGED <<storeVars, authed, offlineExpired, appVars, fix, serverVars,
                 rejected, quit>>

BootChecked ==
  /\ call[Boot].kind = "refresh" /\ call[Boot].stage = "sent"
  /\ call[Boot].pair \notin spent
  /\ call' = [call EXCEPT ![Boot].stage = "checked"]
  /\ UNCHANGED <<storeVars, uiVars, appVars, fix, serverVars, history>>

BootMinted ==
  /\ call[Boot].stage = "checked" /\ Rotated(call[Boot].pair)
  /\ call' = [call EXCEPT ![Boot] = [@ EXCEPT !.stage = "minted", !.pair = issued']]
  /\ UNCHANGED <<storeVars, uiVars, appVars, fix, expired, revoked, orphans,
                 history>>

\* setItemAsync("access_token"), of the refresh or, after a wipe, of a login
StoresAccess(c) ==
  /\ call[c].stage = "minted"
  /\ access' = call[c].pair /\ uuid' = (uuid /\ ~(c = User /\ relogin))
  /\ call' = [call EXCEPT ![c].stage = "half"]
  /\ UNCHANGED <<refresh, uiVars, appVars, fix, serverVars, history>>

\* setItemAsync("refresh_token"), then getUserApi()
StoresRefresh(c) ==
  /\ call[c].stage = "half"
  /\ refresh' = call[c].pair
  /\ call' = [call EXCEPT ![c] = Sent("me", 0, Bearer(call[c].pair))]
  /\ UNCHANGED <<access, uuid, uiVars, appVars, fix, serverVars, history>>

\* getUserApi() answers: the rest of refreshSession() or of login()
Welcomed(c) ==
  /\ call[c].kind = "me" /\ call[c].stage = "sent" /\ Live(call[c].bearer)
  /\ uuid' = TRUE /\ authed' = TRUE /\ offlineExpired' = FALSE
  /\ needsRelogin' = (needsRelogin /\ c = Boot)
  /\ call' = [call EXCEPT ![c] = Idle]
  /\ UNCHANGED <<access, refresh, appVars, fix, serverVars, history>>

\* The catch of refreshSession().
BootRefused ==
  /\ call[Boot].stage = "refused"
  /\ IF keep
       THEN /\ needsRelogin' = TRUE /\ call' = [call EXCEPT ![Boot] = Idle]
            /\ UNCHANGED <<access, quit>>
       ELSE /\ access' = 0 /\ quit' = TRUE
            /\ call' = [call EXCEPT ![Boot].stage = "leaving"]
            /\ UNCHANGED needsRelogin
  /\ UNCHANGED <<refresh, uuid, authed, offlineExpired, appVars, fix,
                 serverVars, rejected, overlapped>>

\* known: findPeerById() finds the user in the local database.
BootOffline(known) ==
  /\ call[Boot].stage = "error"
  /\ authed' = (authed \/ (uuid /\ known))
  /\ offlineExpired' = (offlineExpired \/ (uuid /\ known /\ keep))
  /\ call' = [call EXCEPT ![Boot] = Idle]
  /\ UNCHANGED <<storeVars, needsRelogin, appVars, fix, serverVars, history>>

-----------------------------------------------------------------------------
(* login() and logout().                                                   *)

RefreshAtWork == IsRefreshing \/ call[Boot].kind # "none"

Login ==
  /\ phase = "up" /\ call[User] = Idle /\ logins < MaxLogins
  /\ needsRelogin \/ (~authed /\ call[Boot] = Idle)
  /\ logins' = logins + 1 /\ relogin' = needsRelogin
  /\ call' = [call EXCEPT ![User] = Sent("login", 0, 0)]
  /\ overlapped' = (overlapped \/ RefreshAtWork)
  /\ UNCHANGED <<storeVars, uiVars, phase, keep, starts, fix, serverVars,
                 rejected, quit>>

LoginAccepted ==
  /\ call[User].kind = "login" /\ call[User].stage = "sent" /\ Issue(0)
  /\ call' = [call EXCEPT ![User] = [@ EXCEPT !.stage = "minted", !.pair = issued']]
  /\ UNCHANGED <<storeVars, uiVars, appVars, fix, expired, revoked, spent,
                 orphans, history>>

LoginFailed ==
  /\ call[User].kind \in {"login", "me"} /\ call[User].stage \in {"refused", "error"}
  /\ call' = [call EXCEPT ![User] = Idle]
  /\ UNCHANGED <<storeVars, uiVars, appVars, fix, serverVars, history>>

Logout ==
  /\ phase = "up" /\ authed /\ call[User] = Idle
  /\ quit' = TRUE
  /\ call' = [call EXCEPT ![User] = Sent("logout", 0, access)]
  /\ overlapped' = (overlapped \/ RefreshAtWork)
  /\ UNCHANGED <<storeVars, uiVars, appVars, fix, serverVars, rejected>>

\* logout(): only the access token goes to the blacklist.
LogoutServed ==
  /\ call[User].kind = "logout" /\ call[User].stage = "sent"
  /\ call[User].bearer > expired
  /\ revoked' = revoked \cup {call[User].bearer}
  /\ call' = [call EXCEPT ![User] = Gone(User, "error")]
  /\ UNCHANGED <<storeVars, uiVars, appVars, fix, issued, expired, spent,
                 orphans, parent, history>>

\* However logoutApi() ends, the tokens are deleted.
LogoutGoesOn ==
  /\ call[User].kind = "logout" /\ call[User].stage \in {"refused", "error"}
  /\ access' = 0 /\ call' = [call EXCEPT ![User].stage = "leaving"]
  /\ UNCHANGED <<refresh, uuid, uiVars, appVars, fix, serverVars, history>>

Leaves(c) ==
  /\ call[c].stage = "leaving"
  /\ refresh' = 0 /\ call' = [call EXCEPT ![c].stage = "left"]
  /\ UNCHANGED <<access, uuid, uiVars, appVars, fix, serverVars, history>>

\* userUUID goes, then the state of AuthProvider.
HasLeft(c) ==
  /\ call[c].stage = "left"
  /\ uuid' = FALSE /\ authed' = FALSE
  /\ needsRelogin' = (needsRelogin /\ c = Boot)
  /\ offlineExpired' = (offlineExpired /\ c = Boot)
  /\ call' = [call EXCEPT ![c] = Idle]
  /\ UNCHANGED <<access, refresh, appVars, fix, serverVars, history>>

-----------------------------------------------------------------------------
(* The server's reachability, and the end of the app.                      *)

\* ServerDownReloginTransition: the health poll finds the server gone, or back.
Transition ==
  /\ \/ /\ needsRelogin /\ needsRelogin' = FALSE /\ offlineExpired' = TRUE
     \/ /\ offlineExpired /\ offlineExpired' = FALSE /\ needsRelogin' = TRUE
  /\ UNCHANGED <<storeVars, authed, appVars, call, fix, serverVars, history>>

\* Refresh tokens on their way to the server.
Posted ==
  {p \in Pairs :
     \/ /\ call[Boot].kind = "refresh" /\ call[Boot].stage \in {"sent", "checked"}
        /\ p = call[Boot].pair
     \/ fix.stage \in {"posted", "checked"} /\ p = fix.pair}

\* The app is killed; what it has posted may be served all the same.
Kill ==
  /\ phase # "closed" /\ starts < MaxStarts /\ phase' = "closed"
  /\ authed' = FALSE /\ needsRelogin' = FALSE /\ offlineExpired' = FALSE
  /\ call' = [c \in Callers |-> Idle] /\ fix' = NoFix
  /\ keep' = FALSE /\ relogin' = FALSE
  /\ orphans' = orphans \cup Posted /\ overlapped' = FALSE
  /\ UNCHANGED <<storeVars, starts, logins, issued, expired, revoked, spent, parent,
                 rejected, quit>>

-----------------------------------------------------------------------------
Interceptor ==
  \/ FixReads \/ FixChecked \/ FixMinted \/ FixFails \/ FixRefused \/ FixDrops
  \/ FixStoresAccess \/ FixStoresRefresh

Bootstrap ==
  \/ \E record \in BOOLEAN : Restore(record)
  \/ BootReads \/ BootChecked \/ BootMinted \/ BootRefused
  \/ \E known \in BOOLEAN : BootOffline(known)

UserStep ==
  \/ LoginAccepted \/ LoginFailed \/ LogoutServed \/ LogoutGoesOn

CallStep(c) == Unauthorized(c) \/ Unanswered(c)

PairStep(c) ==
  StoresAccess(c) \/ StoresRefresh(c) \/ Welcomed(c) \/ Leaves(c) \/ HasLeft(c)

Next ==
  \/ \E c \in Callers : CallStep(c)
  \/ \E c \in {Boot, User} : PairStep(c)
  \/ \E r \in Requests : Ask(r) \/ Served(r)
  \/ Interceptor \/ Bootstrap \/ UserStep
  \/ Launch \/ Login \/ Logout \/ Kill \/ Transition
  \/ Expire \/ \E t \in Pairs : OrphanServed(t)

Spec == Init /\ [][Next]_vars

\* A call that is out is answered or fails; what the app has begun goes on.
\* The user, the poll, expiry and the end of the app are free.
Fairness ==
  /\ \A c \in Callers : WF_vars(CallStep(c) \/ Served(c))
  /\ \A c \in {Boot, User} : WF_vars(PairStep(c))
  /\ WF_vars(Interceptor) /\ WF_vars(Bootstrap) /\ WF_vars(UserStep)

FairSpec == Spec /\ Fairness

-----------------------------------------------------------------------------
FixStages == {"idle", "reading", "posted", "checked", "minted", "half", "dropping"}

CallTypeOK ==
  /\ call \in [Callers -> Call(issued)]
  /\ fix \in [owner : Callers \cup {Nobody}, stage : FixStages, pair : 0 .. issued]

StoreTypeOK ==
  /\ access \in 0 .. issued /\ refresh \in 0 .. issued
  /\ starts \in 0 .. MaxStarts /\ logins \in 0 .. MaxLogins

FlagTypeOK ==
  /\ uuid \in BOOLEAN /\ authed \in BOOLEAN /\ needsRelogin \in BOOLEAN
  /\ offlineExpired \in BOOLEAN /\ phase \in {"closed", "roles", "up"}
  /\ keep \in BOOLEAN /\ relogin \in BOOLEAN
  /\ rejected \in BOOLEAN /\ quit \in BOOLEAN /\ overlapped \in BOOLEAN

ServerTypeOK ==
  /\ issued \in Pairs /\ expired \in 0 .. issued
  /\ revoked \subseteq 0 .. issued /\ spent \subseteq 0 .. issued
  /\ orphans \subseteq 0 .. issued /\ parent \in [Pairs -> Tokens]

\* Every variable keeps its type, and no token is known before it is issued.
TypeOK == ServerTypeOK /\ StoreTypeOK /\ FlagTypeOK /\ CallTypeOK

\* One refresh token buys one pair, however many holders, lost answers, worker
\* processes and restarts post it at once (token.py: rotation, jti unique).
RotatedOnce ==
  \A p, q \in 1 .. issued : parent[p] = parent[q] /\ parent[p] # 0 => p = q

\* A refresh token that the server would still take is deleted only by the
\* user's logout(), or where two holders of the pair overlapped since the app
\* started, as the loser's rejection then deletes what the winner stored.  A 429,
\* a 500, a lost answer or a kill never delete it: one of these may leave a spent
\* token in the store, which goes with its next 401 (client.ts: "keeping tokens
\* for offline use").
KeptThroughFailures ==
  [][ refresh # 0 /\ refresh' = 0 =>
        refresh \in spent \/ overlapped \/ call[User].stage = "leaving" ]_vars

\* The user is asked for the password only if the device had no refresh token
\* the server would take, unless two holders of the pair overlapped since the
\* app started, or it found no server then (auth-context.tsx: setNeedsReloginForServer).
ReloginExplained ==
  [][ ~needsRelogin /\ needsRelogin' =>
        refresh = 0 \/ refresh \in spent \/ overlapped \/ offlineExpired ]_vars

Waiting(r) == call[r].stage \in {"sent", "queued", "repairing"}

\* While the server has refused no refresh and nobody has signed out, a request
\* is answered or fails, though it waits for a refresh that another one makes
\* (client.ts: failedQueue).  After a rejection it may be left in the queue.
RequestSettles ==
  \A r \in Requests : Waiting(r) ~> ~Waiting(r) \/ rejected \/ quit
=============================================================================
