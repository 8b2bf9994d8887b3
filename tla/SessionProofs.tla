---------------------------- MODULE SessionProofs ----------------------------
(***************************************************************************)
(* What holds of the session for any number of requests, pairs, starts and *)
(* logins.                                                                 *)
(*                                                                         *)
(* The argument: one call at a time waits in the interceptor's refresh     *)
(* (RepairInv); and as long as no two holders of the pair were at work at  *)
(* once, the token that a refresh was posted with is still the one that is *)
(* stored (AloneInv), so whoever was refused deletes a spent token or none *)
(* (LostInv).                                                              *)
(***************************************************************************)
EXTENDS Session, TLAPS

\* The calls a holder of the pair makes, from its first await on; and the
\* refresh of the interceptor, once it has read the token.
Begun(c) == call[c].kind # "none" /\ call[c].stage # "reading"
FixBegun == fix.stage \notin {"idle", "reading"}
Repairing == {"reading", "posted", "checked", "minted", "half"}

\* Who makes which call, and that whoever is about to store a pair has one.
CallOK(c, x) ==
  /\ c \in Requests => x.kind \in {"none", "data"}
  /\ c = Boot => x.kind \in {"none", "refresh", "me"}
  /\ c = User => x.kind \in {"none", "login", "logout", "me"}
  /\ c \in {Boot, User} /\ x.kind = "none" => x.stage = "idle"
  /\ x.stage = "checked" => x.kind = "refresh"
  /\ x.stage \in {"minted", "half"} => x.pair # 0

CallInv == \A c \in Callers : CallOK(c, call[c])

\* The interceptor has one refresh, on behalf of the one call that waits in it.
RepairInv ==
  /\ fix.stage = "idle" <=> fix.owner = Nobody
  /\ fix.stage \in {"minted", "half"} => fix.pair # 0
  /\ \A c \in Callers :
       call[c].stage = "repairing" <=> fix.owner = c /\ fix.stage \in Repairing

\* Nothing runs before the app does, and no refresh before the bootstrap's turn.
PhaseInv ==
  /\ phase = "closed" => fix = NoFix /\ call = [c \in Callers |-> Idle]
  /\ phase = "roles" => call[Boot] = Idle /\ fix.owner # Boot

\* A pair was issued for a token that was spent by it.
RotationInv ==
  /\ RotatedOnce
  /\ \A p \in 1 .. issued : parent[p] # 0 => parent[p] \in spent

\* Nobody else holds the pair, and nobody else replaces it: a caller whose
\* refresh was refused does nothing but give up while the tokens are deleted.
AloneInv ==
  /\ ~(Begun(Boot) /\ Begun(User))
  /\ FixBegun => \A c \in {Boot, User} \ {fix.owner} : ~Begun(c)
  /\ \A c \in {Boot, User} : fix.stage = "dropping" /\ fix.owner = c =>
       call[c].kind = "none" \/ call[c].stage \in {"refused", "leaving", "left"}
  /\ fix.stage \in {"posted", "checked", "dropping"} => fix.pair = refresh \/ refresh = 0
  /\ call[Boot].kind = "refresh" /\ call[Boot].stage \in {"sent", "checked", "queued", "repairing"} =>
       call[Boot].pair = refresh \/ refresh = 0

\* A refresh at bootstrap that is refused is not saved by the interceptor ...
SpentInv ==
  /\ call[Boot].kind = "refresh" /\ call[Boot].stage = "sent" => ~call[Boot].retried
  /\ call[Boot].kind = "refresh" /\ call[Boot].stage = "repairing" =>
       \/ fix.stage = "reading" /\ call[Boot].pair \in spent
       \/ fix.stage = "posted" /\ fix.pair \in spent

\* ... and getUserApi() is refused once only.
LiveInv ==
  /\ call[Boot].stage = "repairing" /\ fix.stage \in {"minted", "half"} =>
       Live(fix.pair) /\ (fix.stage = "half" => access = fix.pair)
  /\ call[Boot].kind = "me" /\ call[Boot].stage = "sent" /\ call[Boot].retried =>
       Live(call[Boot].bearer)

HeldInv ==
  /\ AloneInv /\ SpentInv /\ LiveInv
  /\ call[Boot].stage \in {"refused", "leaving"} => refresh = 0 \/ refresh \in spent

LostInv ==
  /\ fix.stage = "dropping" => fix.pair \in spent
  /\ ~overlapped => HeldInv

IInv == TypeOK /\ CallInv /\ RepairInv /\ PhaseInv /\ RotationInv /\ LostInv

-----------------------------------------------------------------------------
USE DEF vars, storeVars, uiVars, appVars, serverVars, history

(* Types.                                                                  *)

\* What the server issues grows, and tokens it has refused stay refused.
LEMMA ServerStep ==
  ASSUME TypeOK, [Next]_vars
  PROVE  /\ ServerTypeOK' /\ issued <= issued' /\ spent \subseteq spent'
<1> USE SessionAssumption DEF ServerTypeOK, Pairs, Tokens
<1>t. ServerTypeOK
  BY DEF TypeOK
<1>c. \A c \in Callers : call[c].bearer \in 0 .. issued /\ call[c].pair \in 0 .. issued
  BY DEF TypeOK, CallTypeOK, Call
<1>f. fix.pair \in 0 .. issued
  BY DEF TypeOK, CallTypeOK
<1>b. Boot \in Callers /\ User \in Callers
  BY DEF Callers
<1>1. ASSUME NEW t \in 0 .. issued, Issue(t), UNCHANGED expired,
             spent' = spent \/ spent' = spent \cup {t}, revoked' = revoked,
             orphans' \subseteq orphans
      PROVE  ServerTypeOK' /\ issued <= issued' /\ spent \subseteq spent'
  <2>1. issued \in Nat /\ issued' = issued + 1 /\ issued' \in Pairs /\ 0 .. issued \subseteq 0 .. issued'
    BY <1>1, <1>t DEF Issue
  <2>2. parent' \in [Pairs -> Tokens]
    BY <1>1, <1>t, <2>1 DEF Issue
  <2>3. spent' \subseteq 0 .. issued' /\ spent \subseteq spent'
    BY <1>1, <1>t, <2>1
  <2>4. expired' \in 0 .. issued' /\ revoked' \subseteq 0 .. issued' /\ orphans' \subseteq 0 .. issued'
    BY <1>1, <1>t, <2>1
  <2> QED
    BY <2>1, <2>2, <2>3, <2>4
<1>2. ASSUME NEW t \in Pairs, OrphanServed(t)
      PROVE  ServerTypeOK' /\ issued <= issued' /\ spent \subseteq spent'
  <2>1. t \in 0 .. issued
    BY <1>2, <1>t DEF OrphanServed
  <2> QED
    BY <1>1, <1>2, <2>1 DEF OrphanServed, Rotated
<1>3. ASSUME FixMinted \/ BootMinted \/ LoginAccepted
      PROVE  ServerTypeOK' /\ issued <= issued' /\ spent \subseteq spent'
  <2>1. CASE FixMinted
    BY <1>1, <1>f, <2>1 DEF FixMinted, Rotated
  <2>2. CASE BootMinted
    BY <1>1, <1>b, <1>c, <2>2 DEF BootMinted, Rotated
  <2>3. CASE LoginAccepted
    <3>1. 0 \in 0 .. issued
      BY <1>t
    <3> QED
      BY <1>1, <2>3, <3>1 DEF LoginAccepted
  <2> QED
    BY <1>3, <2>1, <2>2, <2>3
<1>4. ASSUME NEW c \in Callers, Unanswered(c)
      PROVE  ServerTypeOK' /\ issued <= issued' /\ spent \subseteq spent'
  <2>1. orphans' \subseteq 0 .. issued
    BY <1>4, <1>t, <1>c DEF Unanswered
  <2>2. revoked' = revoked \/ revoked' = revoked \cup ({call[c].bearer} \ {0})
    BY <1>4 DEF Unanswered
  <2>3. revoked' \subseteq 0 .. issued
    <3>1. {call[c].bearer} \subseteq 0 .. issued
      BY <1>c
    <3> QED
      BY <1>t, <2>2, <3>1
  <2> QED
    BY <1>4, <1>t, <2>1, <2>3 DEF Unanswered
<1>5. ASSUME FixFails PROVE ServerTypeOK' /\ issued <= issued' /\ spent \subseteq spent'
  <2>1. orphans' \subseteq 0 .. issued
    BY <1>5, <1>t, <1>f DEF FixFails
  <2> QED
    BY <1>5, <1>t, <2>1 DEF FixFails
<1>6. ASSUME LogoutServed PROVE ServerTypeOK' /\ issued <= issued' /\ spent \subseteq spent'
  <2>1. revoked' \subseteq 0 .. issued
    <3>1. call[User].bearer \in 0 .. issued
      BY <1>b, <1>c
    <3> QED
      BY <1>6, <1>t, <3>1 DEF LogoutServed
  <2> QED
    BY <1>6, <1>t, <2>1 DEF LogoutServed
<1>7. ASSUME Kill PROVE ServerTypeOK' /\ issued <= issued' /\ spent \subseteq spent'
  <2>1. Posted \subseteq 0 .. issued
    BY <1>b, <1>c, <1>f DEF Posted
  <2> QED
    BY <1>7, <1>t, <2>1 DEF Kill
<1>8. ASSUME Expire PROVE ServerTypeOK' /\ issued <= issued' /\ spent \subseteq spent'
  BY <1>8, <1>t DEF Expire
<1>9. ASSUME UNCHANGED serverVars
      PROVE  ServerTypeOK' /\ issued <= issued' /\ spent \subseteq spent'
  BY <1>9, <1>t
<1>10. ASSUME \/ \E c \in Callers : Unauthorized(c)
              \/ \E c \in {Boot, User} : PairStep(c)
              \/ \E r \in Requests : Ask(r) \/ Served(r)
       PROVE  UNCHANGED serverVars
  BY <1>10 DEF Unauthorized, PairStep, StoresAccess, StoresRefresh, Welcomed, Leaves,
     HasLeft, Ask, Served
<1>11. ASSUME FixReads \/ FixChecked \/ FixRefused \/ FixDrops \/ FixStoresAccess
              \/ FixStoresRefresh
       PROVE  UNCHANGED serverVars
  BY <1>11 DEF FixReads, FixChecked, FixRefused, FixDrops, FixStoresAccess,
     FixStoresRefresh
<1>12. ASSUME \/ \E record \in BOOLEAN : Restore(record)
              \/ BootReads \/ BootChecked \/ BootRefused
              \/ \E known \in BOOLEAN : BootOffline(known)
       PROVE  UNCHANGED serverVars
  BY <1>12 DEF Restore, BootReads, BootChecked, BootRefused, BootOffline
<1>13. ASSUME LoginFailed \/ LogoutGoesOn \/ Launch \/ Login \/ Logout \/ Transition
              \/ UNCHANGED vars
       PROVE  UNCHANGED serverVars
  BY <1>13 DEF LoginFailed, LogoutGoesOn, Launch, Login, Logout, Transition
<1> QED
  BY <1>2, <1>3, <1>4, <1>5, <1>6, <1>7, <1>8, <1>9, <1>10, <1>11, <1>12, <1>13
     DEF Next, CallStep, Interceptor, Bootstrap, UserStep

\* What may be put in the place of a call.
LEMMA CallForms ==
  ASSUME NEW n \in Nat
  PROVE  /\ Idle \in Call(n)
         /\ \A k \in Kinds, s \in Stages :
              [Idle EXCEPT !.kind = k, !.stage = s] \in Call(n)
         /\ \A s \in Stages : [Idle EXCEPT !.stage = s] \in Call(n)
         /\ \A k \in Kinds, p, a \in 0 .. n : Sent(k, p, a) \in Call(n)
         /\ \A x \in Call(n), s \in Stages :
              /\ [x EXCEPT !.stage = s] \in Call(n)
              /\ \A a \in 0 .. n : [x EXCEPT !.stage = s, !.bearer = a] \in Call(n)
              /\ \A p \in 0 .. n : [x EXCEPT !.stage = s, !.pair = p] \in Call(n)
              /\ [x EXCEPT !.stage = s, !.bearer = 0, !.retried = TRUE] \in Call(n)
<1>1. "idle" \in Stages /\ "none" \in Kinds /\ "sent" \in Stages /\ 0 \in 0 .. n
  BY DEF Stages, Kinds
<1>2. Idle \in Call(n)
  BY <1>1 DEF Idle, Call
<1>3. \A k \in Kinds, p, a \in 0 .. n : Sent(k, p, a) \in Call(n)
  BY <1>1 DEF Sent, Call
<1> QED
  BY <1>1, <1>2, <1>3 DEF Call

\* What has been issued stays so.
LEMMA CallGrows ==
  ASSUME NEW n \in Nat, NEW m \in Nat, n <= m
  PROVE  Call(n) \subseteq Call(m)
  BY DEF Call

LEMMA GoneForm ==
  ASSUME TypeOK, NEW c \in Callers, NEW how \in {"refused", "error"}
  PROVE  Gone(c, how) \in Call(issued)
<1>1. issued \in Nat /\ call[c].kind \in Kinds /\ {"ok", "failed", "refused", "error"} \subseteq Stages
  BY DEF TypeOK, ServerTypeOK, CallTypeOK, Call, Pairs, Stages
<1>2. Ended("failed") \in Call(issued)
  BY <1>1, CallForms DEF Ended
<1> QED
  BY <1>1, <1>2, CallForms DEF Gone

LEMMA StoreStep ==
  ASSUME TypeOK, [Next]_vars PROVE StoreTypeOK'
<1> USE DEF StoreTypeOK
<1>t. /\ StoreTypeOK /\ Boot \in Callers /\ User \in Callers
      /\ 0 .. issued \subseteq 0 .. issued' /\ 0 \in 0 .. issued
  BY ServerStep DEF TypeOK, ServerTypeOK, Pairs, Callers
<1>p. (\A c \in Callers : call[c].pair \in 0 .. issued) /\ fix.pair \in 0 .. issued
  BY DEF TypeOK, CallTypeOK, Call
<1>s. ASSUME UNCHANGED <<access, refresh, starts, logins>> PROVE StoreTypeOK'
  BY <1>s, <1>t
<1>1. ASSUME NEW c \in {Boot, User}, PairStep(c) PROVE StoreTypeOK'
  <2>1. access' \in {access, call[c].pair} /\ refresh' \in {refresh, call[c].pair, 0}
    BY <1>1 DEF PairStep, StoresAccess, StoresRefresh, Welcomed, Leaves, HasLeft
  <2>2. UNCHANGED <<starts, logins>>
    BY <1>1 DEF PairStep, StoresAccess, StoresRefresh, Welcomed, Leaves, HasLeft
  <2> QED
    BY <1>p, <1>t, <2>1, <2>2
<1>2. ASSUME Interceptor PROVE StoreTypeOK'
  <2>1. access' \in {access, fix.pair, 0} /\ refresh' \in {refresh, fix.pair, 0}
    BY <1>2 DEF Interceptor, FixReads, FixChecked, FixMinted, FixFails, FixRefused,
       FixDrops, FixStoresAccess, FixStoresRefresh
  <2>2. UNCHANGED <<starts, logins>>
    BY <1>2 DEF Interceptor, FixReads, FixChecked, FixMinted, FixFails, FixRefused,
       FixDrops, FixStoresAccess, FixStoresRefresh
  <2> QED
    BY <1>p, <1>t, <2>1, <2>2
<1>3. ASSUME BootRefused \/ LogoutGoesOn PROVE StoreTypeOK'
  <2>1. access' \in {access, 0} /\ UNCHANGED <<refresh, starts, logins>>
    BY <1>3 DEF BootRefused, LogoutGoesOn
  <2> QED
    BY <1>t, <2>1
<1>4. ASSUME Launch \/ Login PROVE StoreTypeOK'
  <2>1. starts' \in 0 .. MaxStarts /\ logins' \in 0 .. MaxLogins
    BY <1>4, <1>t, SessionAssumption DEF Launch, Login
  <2>2. UNCHANGED <<access, refresh>>
    BY <1>4 DEF Launch, Login
  <2> QED
    BY <1>t, <2>1, <2>2
<1>5. ASSUME \/ \E c \in Callers : Unauthorized(c) \/ Unanswered(c)
             \/ \E r \in Requests : Ask(r) \/ Served(r)
             \/ \E b \in BOOLEAN : Restore(b) \/ BootOffline(b)
      PROVE  UNCHANGED <<access, refresh, starts, logins>>
  BY <1>5 DEF Unauthorized, Unanswered, Ask, Served, Restore, BootOffline
<1>6. ASSUME BootReads \/ BootChecked \/ BootMinted \/ LoginAccepted \/ LoginFailed
             \/ LogoutServed
      PROVE  UNCHANGED <<access, refresh, starts, logins>>
  BY <1>6 DEF BootReads, BootChecked, BootMinted, LoginAccepted, LoginFailed, LogoutServed
<1>7. ASSUME Logout \/ Kill \/ Transition \/ Expire \/ (\E t \in Pairs : OrphanServed(t))
             \/ UNCHANGED vars
      PROVE  UNCHANGED <<access, refresh, starts, logins>>
  BY <1>7 DEF Logout, Kill, Transition, Expire, OrphanServed
<1> QED
  BY <1>s, <1>1, <1>2, <1>3, <1>4, <1>5, <1>6, <1>7
     DEF Next, CallStep, Bootstrap, UserStep

LEMMA FlagStep ==
  ASSUME TypeOK, [Next]_vars PROVE FlagTypeOK'
<1> USE DEF FlagTypeOK
<1>t. FlagTypeOK
  BY DEF TypeOK
<1>s. ASSUME UNCHANGED <<uuid, uiVars, phase, keep, relogin, history>> PROVE FlagTypeOK'
  BY <1>s, <1>t
<1>1. ASSUME NEW c \in Callers, Unauthorized(c) \/ Unanswered(c) PROVE FlagTypeOK'
  <2>1. rejected' \in BOOLEAN
    BY <1>1, <1>t DEF Unauthorized, Unanswered
  <2>2. UNCHANGED <<uuid, uiVars, phase, keep, relogin, quit, overlapped>>
    BY <1>1 DEF Unauthorized, Unanswered
  <2> QED
    BY <1>t, <2>1, <2>2
<1>2. ASSUME NEW c \in {Boot, User}, PairStep(c) PROVE FlagTypeOK'
  <2>1. /\ uuid' \in BOOLEAN /\ needsRelogin' \in BOOLEAN
        /\ offlineExpired' \in BOOLEAN /\ authed' \in BOOLEAN
    BY <1>2, <1>t DEF PairStep, StoresAccess, StoresRefresh, Welcomed, Leaves, HasLeft
  <2>2. UNCHANGED <<phase, keep, relogin, history>>
    BY <1>2 DEF PairStep, StoresAccess, StoresRefresh, Welcomed, Leaves, HasLeft
  <2> QED
    BY <1>t, <2>1, <2>2
<1>3. ASSUME Interceptor PROVE FlagTypeOK'
  <2>1. overlapped' \in BOOLEAN /\ needsRelogin' \in BOOLEAN /\ rejected' \in BOOLEAN
    BY <1>3, <1>t DEF Interceptor, FixReads, FixChecked, FixMinted, FixFails, FixRefused,
       FixDrops, FixStoresAccess, FixStoresRefresh, OthersAtWork
  <2>2. UNCHANGED <<uuid, authed, offlineExpired, phase, keep, relogin, quit>>
    BY <1>3 DEF Interceptor, FixReads, FixChecked, FixMinted, FixFails, FixRefused,
       FixDrops, FixStoresAccess, FixStoresRefresh
  <2> QED
    BY <1>t, <2>1, <2>2
<1>4. ASSUME Bootstrap PROVE FlagTypeOK'
  <2>1. authed' \in BOOLEAN /\ offlineExpired' \in BOOLEAN /\ keep' \in BOOLEAN
    BY <1>4, <1>t DEF Bootstrap, Restore, BootReads, BootChecked, BootMinted, BootRefused,
       BootOffline
  <2>2. needsRelogin' \in BOOLEAN /\ overlapped' \in BOOLEAN /\ quit' \in BOOLEAN
    BY <1>4, <1>t DEF Bootstrap, Restore, BootReads, BootChecked, BootMinted, BootRefused,
       BootOffline, IsRefreshing
  <2>3. phase' \in {"closed", "roles", "up"} /\ UNCHANGED <<uuid, relogin, rejected>>
    BY <1>4, <1>t DEF Bootstrap, Restore, BootReads, BootChecked, BootMinted, BootRefused,
       BootOffline
  <2> QED
    BY <1>t, <2>1, <2>2, <2>3
<1>5. ASSUME Login \/ Logout PROVE FlagTypeOK'
  <2>1. overlapped' \in BOOLEAN /\ relogin' \in BOOLEAN /\ quit' \in BOOLEAN
    BY <1>5, <1>t DEF Login, Logout, RefreshAtWork, IsRefreshing
  <2>2. UNCHANGED <<uuid, uiVars, phase, keep, rejected>>
    BY <1>5 DEF Login, Logout
  <2> QED
    BY <1>t, <2>1, <2>2
<1>6. ASSUME Launch \/ Kill \/ Transition PROVE FlagTypeOK'
  <2>1. CASE Launch
    <3>1. phase' \in {"roles", "up"} /\ UNCHANGED <<uuid, uiVars, keep, relogin, history>>
      BY <2>1 DEF Launch
    <3> QED
      BY <1>t, <3>1
  <2>2. CASE Kill
    BY <1>t, <2>2 DEF Kill
  <2>3. CASE Transition
    <3>1. needsRelogin' \in BOOLEAN /\ offlineExpired' \in BOOLEAN
      BY <1>t, <2>3 DEF Transition
    <3> QED
      BY <1>t, <2>3, <3>1 DEF Transition
  <2> QED
    BY <1>6, <2>1, <2>2, <2>3
<1>7. ASSUME \/ \E r \in Requests : Ask(r) \/ Served(r)
             \/ UserStep \/ Expire \/ (\E t \in Pairs : OrphanServed(t))
             \/ UNCHANGED vars
      PROVE  UNCHANGED <<uuid, uiVars, phase, keep, relogin, history>>
  BY <1>7 DEF Ask, Served, UserStep, LoginAccepted, LoginFailed, LogoutServed,
     LogoutGoesOn, Expire, OrphanServed
<1> QED
  BY <1>s, <1>1, <1>2, <1>3, <1>4, <1>5, <1>6, <1>7 DEF Next, CallStep

LEMMA CallStepType ==
  ASSUME TypeOK, [Next]_vars PROVE CallTypeOK'
<1> USE DEF CallTypeOK
<1>t. /\ CallTypeOK /\ issued \in Nat /\ issued' \in Nat /\ issued <= issued'
      /\ Boot \in Callers /\ User \in Callers /\ Requests \subseteq Callers
      /\ Call(issued) \subseteq Call(issued') /\ 0 .. issued \subseteq 0 .. issued'
      /\ access \in 0 .. issued /\ refresh \in 0 .. issued /\ 0 \in 0 .. issued'
      /\ access \in 0 .. issued' /\ refresh \in 0 .. issued' /\ issued' \in 0 .. issued'
  BY ServerStep, CallGrows DEF TypeOK, ServerTypeOK, StoreTypeOK, Pairs, Callers
<1>p. /\ \A c \in Callers : /\ call[c] \in Call(issued) /\ call[c] \in Call(issued')
                               /\ call[c].pair \in 0 .. issued
      /\ \A c \in Callers : call[c].kind \in Kinds
  BY <1>t DEF Call
<1>f. /\ \A how \in {"refused", "error"}, c \in Callers : Gone(c, how) \in Call(issued)
      /\ \A c \in Callers : Resent(c, Bearer(fix.pair)) \in Call(issued)
  <2>1. Bearer(fix.pair) \in 0 .. issued /\ "sent" \in Stages
    BY <1>t DEF Bearer, Stages
  <2>2. \A c \in Callers : Resent(c, Bearer(fix.pair)) \in Call(issued)
    BY <1>t, <1>p, <2>1, CallForms DEF Resent
  <2> QED
    BY <2>2, GoneForm
<1>k. /\ {"ok", "failed", "idle", "checked", "minted", "half", "queued", "repairing", "error",
           "leaving", "left", "reading"} \subseteq Stages
      /\ {"data", "refresh", "me", "login", "logout"} \subseteq Kinds
  BY DEF Stages, Kinds
\* One call moves.
<1>m. ASSUME NEW c \in Callers, NEW x \in Call(issued'), call' = [call EXCEPT ![c] = x],
             fix' \in [owner : Callers \cup {Nobody}, stage : FixStages, pair : 0 .. issued']
      PROVE  CallTypeOK'
  BY <1>m, <1>t
<1>w. ASSUME UNCHANGED fix
      PROVE  fix' \in [owner : Callers \cup {Nobody}, stage : FixStages, pair : 0 .. issued']
  BY <1>w, <1>t
<1>n. NoFix \in [owner : Callers \cup {Nobody}, stage : FixStages, pair : 0 .. issued']
  BY <1>t DEF NoFix, FixStages
<1>1. ASSUME NEW c \in Callers, Unauthorized(c) PROVE CallTypeOK'
  <2>1. ASSUME call' = [call EXCEPT ![c] = Gone(c, "refused")], UNCHANGED fix PROVE CallTypeOK'
    BY <1>f, <1>m, <1>t, <1>w, <2>1
  <2>2. ASSUME call' = [call EXCEPT ![c] = [@ EXCEPT !.stage = "queued", !.bearer = 0]],
               UNCHANGED fix
        PROVE  CallTypeOK'
    <3>1. [call[c] EXCEPT !.stage = "queued", !.bearer = 0] \in Call(issued')
      BY <1>t, <1>p, <1>k, CallForms
    <3> QED
      BY <1>m, <1>w, <2>2, <3>1
  <2>3. ASSUME call' = [call EXCEPT ![c] = [@ EXCEPT !.stage = "repairing", !.bearer = 0,
                                                     !.retried = TRUE]],
               fix' = [owner |-> c, stage |-> "reading", pair |-> 0]
        PROVE  CallTypeOK'
    <3>1. [call[c] EXCEPT !.stage = "repairing", !.bearer = 0, !.retried = TRUE] \in Call(issued')
      BY <1>t, <1>p, <1>k, CallForms
    <3>2. fix' \in [owner : Callers \cup {Nobody}, stage : FixStages, pair : 0 .. issued']
      BY <1>t, <2>3 DEF FixStages
    <3> QED
      BY <1>m, <2>3, <3>1, <3>2
  <2> QED
    BY <1>1, <2>1, <2>2, <2>3 DEF Unauthorized
<1>2. ASSUME NEW c \in Callers, Unanswered(c) PROVE CallTypeOK'
  BY <1>2, <1>f, <1>m, <1>t, <1>w DEF Unanswered
<1>3. ASSUME NEW c \in {Boot, User}, PairStep(c) PROVE CallTypeOK'
  <2>1. Bearer(call[c].pair) \in 0 .. issued
    BY <1>t, <1>p DEF Bearer
  <2>2. Sent("me", 0, Bearer(call[c].pair)) \in Call(issued') /\ Idle \in Call(issued')
    BY <1>t, <1>k, <2>1, CallForms
  <2>3. \A s \in Stages : [call[c] EXCEPT !.stage = s] \in Call(issued')
    BY <1>t, <1>p, CallForms
  <2> QED
    BY <1>3, <1>k, <1>m, <1>t, <1>w, <2>2, <2>3
       DEF PairStep, StoresAccess, StoresRefresh, Welcomed, Leaves, HasLeft
<1>4. ASSUME NEW r \in Requests, Ask(r) \/ Served(r) PROVE CallTypeOK'
  <2>1. Sent("data", 0, access) \in Call(issued') /\ Ended("ok") \in Call(issued')
    BY <1>t, <1>k, CallForms DEF Ended
  <2> QED
    BY <1>4, <1>m, <1>t, <1>w, <2>1 DEF Ask, Served
<1>5. ASSUME FixReads PROVE CallTypeOK'
  <2>1. CASE refresh = 0
    BY <1>5, <1>f, <1>n, <1>t, <2>1 DEF FixReads
  <2>2. CASE refresh # 0
    BY <1>5, <1>t, <2>2 DEF FixReads, FixStages
  <2> QED
    BY <2>1, <2>2
<1>6. ASSUME FixChecked \/ FixMinted \/ FixDrops \/ FixStoresAccess PROVE CallTypeOK'
  <2>1. call' \in [Callers -> Call(issued')]
    BY <1>6, <1>t DEF FixChecked, FixMinted, FixDrops, FixStoresAccess
  <2>2. fix' \in [owner : Callers \cup {Nobody}, stage : FixStages, pair : 0 .. issued']
    <3>1. CASE FixMinted
      BY <1>t, <3>1 DEF FixMinted, FixStages
    <3>2. CASE FixChecked \/ FixStoresAccess
      BY <1>t, <3>2 DEF FixChecked, FixStoresAccess, FixStages
    <3>3. CASE FixDrops
      BY <1>n, <3>3 DEF FixDrops
    <3> QED
      BY <1>6, <3>1, <3>2, <3>3
  <2> QED
    BY <2>1, <2>2
<1>7. ASSUME FixFails \/ FixRefused PROVE CallTypeOK'
  <2>1. call' \in [Callers -> Call(issued')]
    BY <1>7, <1>f, <1>t DEF FixFails, FixRefused, Abandoned
  <2>2. fix' \in [owner : Callers \cup {Nobody}, stage : FixStages, pair : 0 .. issued']
    BY <1>7, <1>n, <1>t DEF FixFails, FixRefused, FixStages
  <2> QED
    BY <2>1, <2>2
<1>8. ASSUME FixStoresRefresh PROVE CallTypeOK'
  <2>1. call' \in [Callers -> Call(issued')]
    BY <1>8, <1>f, <1>t DEF FixStoresRefresh, Released
  <2> QED
    BY <1>8, <1>n, <2>1 DEF FixStoresRefresh
<1>9. ASSUME NEW b \in BOOLEAN, Restore(b) \/ BootOffline(b) PROVE CallTypeOK'
  <2>1. [Idle EXCEPT !.kind = "refresh", !.stage = "reading"] \in Call(issued') /\ Idle \in Call(issued')
    BY <1>t, <1>k, CallForms
  <2>2. call' = call \/ call' = [call EXCEPT ![Boot] = Idle]
        \/ call' = [call EXCEPT ![Boot] = [Idle EXCEPT !.kind = "refresh", !.stage = "reading"]]
    BY <1>9 DEF Restore, BootOffline
  <2>3. UNCHANGED fix
    BY <1>9 DEF Restore, BootOffline
  <2> QED
    BY <1>m, <1>t, <1>w, <2>1, <2>2, <2>3
<1>10. ASSUME BootReads \/ BootChecked \/ BootRefused PROVE CallTypeOK'
  <2>1. Sent("refresh", refresh, 0) \in Call(issued') /\ Idle \in Call(issued')
    BY <1>t, <1>k, CallForms
  <2>2. \A s \in Stages : [call[Boot] EXCEPT !.stage = s] \in Call(issued')
    BY <1>t, <1>p, CallForms
  <2> QED
    BY <1>10, <1>k, <1>m, <1>t, <1>w, <2>1, <2>2 DEF BootReads, BootChecked, BootRefused
<1>11. ASSUME BootMinted \/ LoginAccepted PROVE CallTypeOK'
  <2>1. PICK c \in {Boot, User} :
          call' = [call EXCEPT ![c] = [@ EXCEPT !.stage = "minted", !.pair = issued']]
    BY <1>11 DEF BootMinted, LoginAccepted
  <2>2. call[c] \in Call(issued') /\ c \in Callers /\ issued' \in 0 .. issued'
    BY <1>t, <1>p
  <2>3. [call[c] EXCEPT !.stage = "minted", !.pair = issued'] \in Call(issued')
    BY <1>t, <1>k, <2>2, CallForms
  <2>4. UNCHANGED fix
    BY <1>11 DEF BootMinted, LoginAccepted
  <2> QED
    BY <1>m, <1>w, <2>1, <2>2, <2>3, <2>4
<1>12. ASSUME LoginFailed \/ LogoutServed \/ LogoutGoesOn PROVE CallTypeOK'
  <2>1. [call[User] EXCEPT !.stage = "leaving"] \in Call(issued') /\ Idle \in Call(issued')
    BY <1>t, <1>k, <1>p, CallForms
  <2>2. Gone(User, "error") \in Call(issued')
    BY <1>f, <1>t
  <2> QED
    BY <1>12, <1>m, <1>t, <1>w, <2>1, <2>2 DEF LoginFailed, LogoutServed, LogoutGoesOn
<1>13. ASSUME Launch \/ Kill PROVE CallTypeOK'
  <2>1. Sent("data", 0, access) \in Call(issued') /\ Idle \in Call(issued')
    BY <1>t, <1>k, CallForms
  <2>2. call' \in [Callers -> Call(issued')]
    BY <1>13, <1>t, <2>1 DEF Launch, Kill
  <2>3. fix' \in [owner : Callers \cup {Nobody}, stage : FixStages, pair : 0 .. issued']
    BY <1>13, <1>n, <1>w DEF Launch, Kill
  <2> QED
    BY <2>2, <2>3
<1>14. ASSUME Login \/ Logout PROVE CallTypeOK'
  <2>1. Sent("login", 0, 0) \in Call(issued') /\ Sent("logout", 0, access) \in Call(issued')
    BY <1>t, <1>k, CallForms
  <2> QED
    BY <1>14, <1>m, <1>t, <1>w, <2>1 DEF Login, Logout
<1>15. ASSUME Transition \/ Expire \/ (\E t \in Pairs : OrphanServed(t)) \/ UNCHANGED vars
       PROVE  CallTypeOK'
  <2>1. UNCHANGED <<call, fix>>
    BY <1>15 DEF Transition, Expire, OrphanServed
  <2> QED
    BY <1>t, <1>w, <2>1
<1> QED
  BY <1>1, <1>2, <1>3, <1>4, <1>5, <1>6, <1>7, <1>8, <1>9, <1>10, <1>11, <1>12, <1>13,
     <1>14, <1>15
     DEF Next, CallStep, Interceptor, Bootstrap, UserStep

LEMMA TypeStep == TypeOK /\ [Next]_vars => TypeOK'
  BY ServerStep, StoreStep, FlagStep, CallStepType DEF TypeOK

LEMMA InitType == Init => TypeOK
<1> SUFFICES ASSUME Init PROVE TypeOK
  OBVIOUS
<1>1. issued = 1 /\ issued \in Nat /\ {0, 1} \subseteq 0 .. issued /\ 1 \in Pairs
      /\ 0 \in Tokens /\ 0 \in 0 .. MaxStarts /\ 0 \in 0 .. MaxLogins
  BY SessionAssumption DEF Init, Pairs, Tokens
<1>2. ServerTypeOK /\ StoreTypeOK
  BY <1>1 DEF Init, ServerTypeOK, StoreTypeOK
<1>3. FlagTypeOK
  BY DEF Init, FlagTypeOK
<1>4. CallTypeOK
  BY <1>1, CallForms DEF Init, CallTypeOK, NoFix, FixStages
<1> QED
  BY <1>2, <1>3, <1>4 DEF TypeOK

\* Every variable keeps its type, and no device, request or blacklist knows a
\* token before the server has issued it.
THEOREM TypeCorrect == Spec => []TypeOK
  BY InitType, TypeStep, PTL DEF Spec

-----------------------------------------------------------------------------
(* The calls, the interceptor and the phases.                              *)

LEMMA GoneFields ==
  ASSUME NEW c \in Callers, NEW how
  PROVE  /\ Gone(c, how).pair = 0 /\ Gone(c, how).retried = FALSE
         /\ c \in Requests => /\ Gone(c, how).kind = "none"
                              /\ Gone(c, how).stage \in {"idle", "failed"}
         /\ c \notin Requests => /\ Gone(c, how).kind = call[c].kind
                                 /\ Gone(c, how).stage = how
<1>1. Ended("failed").stage \in {"idle", "failed"} /\ Ended("failed").kind = "none"
      /\ Ended("failed").pair = 0 /\ Ended("failed").retried = FALSE
  BY DEF Ended, Idle
<1>2. /\ [Idle EXCEPT !.kind = call[c].kind, !.stage = how].kind = call[c].kind
      /\ [Idle EXCEPT !.kind = call[c].kind, !.stage = how].stage = how
      /\ [Idle EXCEPT !.kind = call[c].kind, !.stage = how].pair = 0
      /\ [Idle EXCEPT !.kind = call[c].kind, !.stage = how].retried = FALSE
  BY DEF Idle
<1> QED
  BY <1>1, <1>2 DEF Gone

LEMMA Apart == Boot \in Callers /\ User \in Callers /\ Requests \subseteq Callers
               /\ Boot # User /\ Boot \notin Requests /\ User \notin Requests
               /\ Nobody \notin Callers
  BY SessionAssumption DEF Callers

LEMMA GoneOK ==
  ASSUME NEW c \in Callers, NEW how \in {"refused", "error"}, CallOK(c, call[c]),
         call[c].stage # "idle"
  PROVE  CallOK(c, Gone(c, how))
<1>1. CASE c \in Requests
  BY <1>1, GoneFields, Apart DEF CallOK
<1>2. CASE c \notin Requests
  BY <1>2, GoneFields, Apart DEF CallOK
<1> QED
  BY <1>1, <1>2

LEMMA CallInvStep ==
  ASSUME TypeOK, CallInv, RepairInv, [Next]_vars PROVE CallInv'
<1> USE DEF CallInv
<1>t. call \in [Callers -> Call(issued)]
  BY DEF TypeOK, CallTypeOK
<1>m. ASSUME NEW c \in Callers, NEW x, call' = [call EXCEPT ![c] = x], CallOK(c, x)
      PROVE  CallInv'
  BY <1>m, <1>t
\* What may take the place of any call.
<1>i. \A c \in Callers : CallOK(c, Idle)
  BY DEF CallOK, Idle
<1>e. \A c \in Requests, how \in {"ok", "failed"} : CallOK(c, Ended(how))
  BY Apart DEF CallOK, Ended, Idle
<1>d. \A c \in Requests : \A a : CallOK(c, Sent("data", 0, a))
  BY Apart DEF CallOK, Sent
<1>q. \A c \in Callers : call[c].stage # "idle" =>
        /\ CallOK(c, [call[c] EXCEPT !.stage = "queued", !.bearer = 0])
        /\ CallOK(c, [call[c] EXCEPT !.stage = "repairing", !.bearer = 0, !.retried = TRUE])
        /\ \A a : CallOK(c, Resent(c, a))
        /\ \A s \in {"leaving", "left"} : CallOK(c, [call[c] EXCEPT !.stage = s])
  BY <1>t DEF CallOK, Call, Resent
<1>1. ASSUME NEW c \in Callers, CallStep(c) PROVE CallInv'
  BY <1>1, <1>m, <1>q, GoneOK DEF CallStep, Unauthorized, Unanswered
<1>2. ASSUME NEW c \in {Boot, User}, PairStep(c) PROVE CallInv'
  <2>1. call[c].stage = "minted" => CallOK(c, [call[c] EXCEPT !.stage = "half"])
    BY <1>t, Apart DEF CallOK, Call
  <2>2. \A a : CallOK(c, Sent("me", 0, a))
    BY Apart DEF CallOK, Sent
  <2> QED
    BY <1>2, <1>i, <1>m, <1>q, <2>1, <2>2, Apart
       DEF PairStep, StoresAccess, StoresRefresh, Welcomed, Leaves, HasLeft
<1>3. ASSUME NEW r \in Requests, Ask(r) \/ Served(r) PROVE CallInv'
  BY <1>3, <1>d, <1>e, <1>m, Apart DEF Ask, Served
<1>4. ASSUME FixReads \/ FixFails \/ FixRefused \/ FixStoresRefresh PROVE CallInv'
  <2>1. fix.owner \in Callers /\ call[fix.owner].stage = "repairing"
    BY <1>4 DEF RepairInv, Repairing, FixReads, FixFails, FixRefused, FixStoresRefresh,
       TypeOK, CallTypeOK
  <2>2. \A c \in FailedQueue \cup {fix.owner} : c \in Callers /\ call[c].stage # "idle"
    BY <2>1 DEF FailedQueue
  <2>3. CASE FixReads
    BY <1>m, <2>1, <2>3, GoneOK DEF FixReads
  <2>4. CASE FixFails \/ FixRefused
    BY <1>t, <2>2, <2>4, GoneOK DEF FixFails, FixRefused, Abandoned
  <2>5. CASE FixStoresRefresh
    BY <1>t, <1>q, <2>2, <2>5 DEF FixStoresRefresh, Released
  <2> QED
    BY <1>4, <2>3, <2>4, <2>5
<1>5. ASSUME NEW b \in BOOLEAN, Restore(b) \/ BootOffline(b) PROVE CallInv'
  <2>1. CallOK(Boot, [Idle EXCEPT !.kind = "refresh", !.stage = "reading"])
    BY Apart DEF CallOK, Idle
  <2> QED
    BY <1>5, <1>i, <1>m, <2>1, Apart DEF Restore, BootOffline
<1>6. ASSUME BootReads \/ BootRefused PROVE CallInv'
  <2>1. \A p : CallOK(Boot, Sent("refresh", p, 0))
    BY Apart DEF CallOK, Sent
  <2> QED
    BY <1>6, <1>i, <1>m, <1>q, <2>1, Apart DEF BootReads, BootRefused
<1>7. ASSUME BootChecked PROVE CallInv'
  <2>1. CallOK(Boot, [call[Boot] EXCEPT !.stage = "checked"])
    BY <1>7, <1>t, Apart DEF BootChecked, CallOK, Call
  <2> QED
    BY <1>7, <1>m, <2>1, Apart DEF BootChecked
<1>8. ASSUME BootMinted \/ LoginAccepted PROVE CallInv'
  <2>1. issued' # 0
    BY <1>8, ServerStep DEF TypeOK, ServerTypeOK, Pairs
  <2>2. PICK c \in {Boot, User} :
          /\ call' = [call EXCEPT ![c] = [@ EXCEPT !.stage = "minted", !.pair = issued']]
          /\ call[c].stage \in {"sent", "checked"}
    BY <1>8 DEF BootMinted, LoginAccepted
  <2>3. CallOK(c, [call[c] EXCEPT !.stage = "minted", !.pair = issued'])
    BY <1>t, <2>1, <2>2, Apart DEF CallOK, Call
  <2> QED
    BY <1>m, <2>2, <2>3, Apart
<1>9. ASSUME LoginFailed \/ LogoutServed \/ LogoutGoesOn PROVE CallInv'
  BY <1>9, <1>i, <1>m, <1>q, GoneOK, Apart DEF LoginFailed, LogoutServed, LogoutGoesOn
<1>10. ASSUME Login \/ Logout PROVE CallInv'
  <2>1. \A a : CallOK(User, Sent("login", 0, 0)) /\ CallOK(User, Sent("logout", 0, a))
    BY Apart DEF CallOK, Sent
  <2> QED
    BY <1>10, <1>m, <2>1, Apart DEF Login, Logout
<1>11. ASSUME Launch \/ Kill PROVE CallInv'
  BY <1>11, <1>d, <1>i DEF Launch, Kill
<1>12. ASSUME FixChecked \/ FixMinted \/ FixDrops \/ FixStoresAccess \/ Transition \/ Expire
              \/ (\E t \in Pairs : OrphanServed(t)) \/ UNCHANGED vars
       PROVE  UNCHANGED call
  BY <1>12 DEF FixChecked, FixMinted, FixDrops, FixStoresAccess, Transition, Expire, OrphanServed
<1> QED
  BY <1>1, <1>2, <1>3, <1>4, <1>5, <1>6, <1>7, <1>8, <1>9, <1>10, <1>11, <1>12
     DEF Next, Interceptor, Bootstrap, UserStep

LEMMA RepairStep ==
  ASSUME TypeOK, RepairInv, PhaseInv, [Next]_vars PROVE RepairInv'
<1> USE DEF RepairInv, Repairing
<1>t. call \in [Callers -> Call(issued)]
  BY DEF TypeOK, CallTypeOK
<1>f. fix \in [owner : Callers \cup {Nobody}, stage : FixStages, pair : 0 .. issued]
  BY DEF TypeOK, CallTypeOK
<1>m. ASSUME NEW c \in Callers, NEW x, call' = [call EXCEPT ![c] = x], UNCHANGED fix,
             call[c].stage # "repairing", x.stage # "repairing"
      PROVE  RepairInv'
  BY <1>m, <1>t
<1>i. /\ Idle.stage # "repairing"
      /\ \A c \in Callers, how \in {"refused", "error"} : Gone(c, how).stage # "repairing"
      /\ \A how \in {"ok", "failed"} : Ended(how).stage # "repairing"
      /\ \A k, p, a : Sent(k, p, a).stage # "repairing"
  BY GoneFields DEF Idle, Ended, Sent
<1>s. \A c \in Callers :
        /\ \A s \in {"checked", "half", "leaving", "left"} :
             [call[c] EXCEPT !.stage = s].stage # "repairing"
        /\ [call[c] EXCEPT !.stage = "queued", !.bearer = 0].stage # "repairing"
        /\ \A p : [call[c] EXCEPT !.stage = "minted", !.pair = p].stage # "repairing"
        /\ \A a : Resent(c, a).stage # "repairing"
  BY <1>t DEF Call, Resent
<1>1. ASSUME NEW c \in Callers, Unauthorized(c) PROVE RepairInv'
  <2>1. CASE UNCHANGED fix
    <3>1. ~(fix' = [owner |-> c, stage |-> "reading", pair |-> 0] /\ ~IsRefreshing)
      BY <2>1, Apart DEF IsRefreshing
    <3> QED
      BY <1>1, <1>i, <1>m, <1>s, <2>1, <3>1 DEF Unauthorized
  <2>2. CASE ~UNCHANGED fix
    <3>1. /\ call' = [call EXCEPT ![c] = [@ EXCEPT !.stage = "repairing", !.bearer = 0,
                                                   !.retried = TRUE]]
          /\ fix' = [owner |-> c, stage |-> "reading", pair |-> 0] /\ fix.owner = Nobody
      BY <1>1, <2>2 DEF Unauthorized, IsRefreshing
    <3>2. [call[c] EXCEPT !.stage = "repairing", !.bearer = 0, !.retried = TRUE].stage = "repairing"
      BY <1>t DEF Call
    <3>3. \A d \in Callers : call'[d].stage = "repairing" <=> d = c
      BY <1>t, <3>1, <3>2, Apart
    <3> QED
      BY <3>1, <3>3, Apart
  <2> QED
    BY <2>1, <2>2
<1>2. ASSUME NEW c \in Callers, Unanswered(c) PROVE RepairInv'
  BY <1>2, <1>i, <1>m DEF Unanswered
\* One call goes on to another stage.
<1>g. ASSUME NEW c \in Callers, NEW s \in {"checked", "half", "leaving", "left"},
             call' = [call EXCEPT ![c].stage = s], UNCHANGED fix,
             call[c].stage # "repairing"
      PROVE  RepairInv'
  <2>1. call' = [call EXCEPT ![c] = [call[c] EXCEPT !.stage = s]]
    BY <1>g
  <2>2. [call[c] EXCEPT !.stage = s].stage # "repairing"
    BY <1>s
  <2> QED
    BY <1>g, <1>m, <2>1, <2>2
<1>3. ASSUME NEW c \in {Boot, User}, PairStep(c) PROVE RepairInv'
  <2>1. CASE StoresAccess(c) \/ Leaves(c)
    BY <1>g, <2>1, Apart DEF StoresAccess, Leaves
  <2>2. CASE StoresRefresh(c) \/ Welcomed(c) \/ HasLeft(c)
    BY <1>i, <1>m, <2>2, Apart DEF StoresRefresh, Welcomed, HasLeft
  <2> QED
    BY <1>3, <2>1, <2>2 DEF PairStep
<1>4. ASSUME NEW r \in Requests, Ask(r) \/ Served(r) PROVE RepairInv'
  BY <1>4, <1>i, <1>m, Apart DEF Ask, Served
<1>o. ASSUME FixReads \/ FixFails \/ FixRefused \/ FixStoresRefresh
      PROVE  /\ fix.owner \in Callers /\ call[fix.owner].stage = "repairing"
             /\ \A c \in Callers \ {fix.owner} : call[c].stage # "repairing"
  BY <1>o, <1>f DEF FixReads, FixFails, FixRefused, FixStoresRefresh
<1>5. ASSUME FixReads PROVE RepairInv'
  <2>1. CASE refresh = 0
    <3>1. fix' = NoFix /\ call' = [call EXCEPT ![fix.owner] = Gone(fix.owner, "refused")]
      BY <1>5, <2>1 DEF FixReads
    <3>2. \A c \in Callers : call'[c].stage # "repairing"
      BY <1>5, <1>i, <1>o, <1>t, <3>1
    <3> QED
      BY <3>1, <3>2, Apart DEF NoFix
  <2>2. CASE refresh # 0
    BY <1>5, <1>f, <2>2 DEF FixReads
  <2> QED
    BY <2>1, <2>2
<1>6. ASSUME FixFails \/ FixRefused PROVE RepairInv'
  <2>1. \A c \in Callers : call'[c].stage # "repairing"
    BY <1>6, <1>i, <1>o DEF FixFails, FixRefused, Abandoned
  <2>2. fix' = NoFix \/ (fix'.stage = "dropping" /\ fix'.owner = fix.owner)
    BY <1>6, <1>f DEF FixFails, FixRefused
  <2> QED
    BY <1>6, <1>o, <2>1, <2>2, Apart DEF NoFix
<1>7. ASSUME FixStoresRefresh PROVE RepairInv'
  <2>1. \A c \in Callers : call'[c].stage # "repairing"
    BY <1>7, <1>o, <1>s DEF FixStoresRefresh, Released
  <2> QED
    BY <1>7, <2>1, Apart DEF FixStoresRefresh, NoFix
<1>8. ASSUME FixChecked \/ FixStoresAccess PROVE RepairInv'
  BY <1>8, <1>f DEF FixChecked, FixStoresAccess
<1>9. ASSUME FixMinted PROVE RepairInv'
  <2>1. issued' # 0
    BY <1>9, ServerStep DEF TypeOK, ServerTypeOK, Pairs
  <2> QED
    BY <1>9, <1>f, <2>1 DEF FixMinted
<1>10. ASSUME FixDrops PROVE RepairInv'
  BY <1>10, <1>f, Apart DEF FixDrops, NoFix
<1>11. ASSUME NEW b \in BOOLEAN, Restore(b) \/ BootOffline(b) PROVE RepairInv'
  <2>1. call[Boot].stage # "repairing"
    BY <1>11 DEF Restore, BootOffline, PhaseInv, Idle
  <2>2. [Idle EXCEPT !.kind = "refresh", !.stage = "reading"].stage # "repairing"
    BY DEF Idle
  <2> QED
    BY <1>11, <1>i, <1>m, <2>1, <2>2, Apart DEF Restore, BootOffline
<1>12. ASSUME BootReads \/ BootRefused \/ BootChecked PROVE RepairInv'
  <2>1. CASE BootReads
    BY <1>i, <1>m, <2>1, Apart DEF BootReads
  <2>2. CASE BootRefused
    BY <1>g, <1>i, <1>m, <2>2, Apart DEF BootRefused
  <2>3. CASE BootChecked
    BY <1>g, <2>3, Apart DEF BootChecked
  <2> QED
    BY <1>12, <2>1, <2>2, <2>3
<1>13. ASSUME BootMinted \/ LoginAccepted PROVE RepairInv'
  <2>1. PICK c \in {Boot, User} :
          /\ call' = [call EXCEPT ![c] = [@ EXCEPT !.stage = "minted", !.pair = issued']]
          /\ call[c].stage # "repairing" /\ UNCHANGED fix
    BY <1>13 DEF BootMinted, LoginAccepted
  <2>2. [call[c] EXCEPT !.stage = "minted", !.pair = issued'].stage # "repairing"
    BY <1>s, Apart
  <2> QED
    BY <1>m, <2>1, <2>2, Apart
<1>17. ASSUME LoginFailed \/ LogoutServed \/ LogoutGoesOn \/ Login \/ Logout PROVE RepairInv'
  <2>1. CASE LoginFailed \/ LogoutServed
    BY <1>i, <1>m, <2>1, Apart DEF LoginFailed, LogoutServed
  <2>2. CASE LogoutGoesOn
    BY <1>g, <2>2, Apart DEF LogoutGoesOn
  <2>3. CASE Login \/ Logout
    BY <1>i, <1>m, <2>3, Apart DEF Login, Logout
  <2> QED
    BY <1>17, <2>1, <2>2, <2>3
<1>14. ASSUME Launch PROVE RepairInv'
  BY <1>14, <1>i, Apart DEF Launch, PhaseInv, NoFix
<1>15. ASSUME Kill PROVE RepairInv'
  BY <1>15, <1>i, Apart DEF Kill, NoFix
<1>16. ASSUME Transition \/ Expire \/ (\E t \in Pairs : OrphanServed(t)) \/ UNCHANGED vars
       PROVE  RepairInv'
  <2>1. UNCHANGED <<call, fix>>
    BY <1>16 DEF Transition, Expire, OrphanServed
  <2> QED
    BY <2>1
<1> QED
  BY <1>1, <1>2, <1>3, <1>4, <1>5, <1>6, <1>7, <1>8, <1>9, <1>10, <1>11, <1>12, <1>13,
     <1>14, <1>15, <1>16, <1>17
     DEF Next, CallStep, Interceptor, Bootstrap, UserStep

\* The interceptor's refresh goes on for the call it began with, or ends.
LEMMA FixForms ==
  ASSUME TypeOK, Interceptor
  PROVE  fix' = NoFix \/ fix'.owner = fix.owner
<1>f. \A s, p : /\ [fix EXCEPT !.stage = s].owner = fix.owner
                /\ [fix EXCEPT !.stage = s, !.pair = p].owner = fix.owner
  BY DEF TypeOK, CallTypeOK
<1>1. CASE FixReads
  <2>1. fix' = NoFix \/ fix' = [fix EXCEPT !.stage = "posted", !.pair = refresh]
    BY <1>1 DEF FixReads
  <2>2. [fix EXCEPT !.stage = "posted", !.pair = refresh].owner = fix.owner
    BY DEF TypeOK, CallTypeOK
  <2> QED
    BY <2>1, <2>2
<1>2. CASE FixChecked \/ FixRefused \/ FixStoresAccess
  BY <1>2, <1>f DEF FixChecked, FixRefused, FixStoresAccess
<1>3. CASE FixMinted
  BY <1>3, <1>f DEF FixMinted
<1>4. CASE FixFails \/ FixDrops \/ FixStoresRefresh
  BY <1>4 DEF FixFails, FixDrops, FixStoresRefresh
<1> QED
  BY <1>1, <1>2, <1>3, <1>4 DEF Interceptor

LEMMA PhaseStep ==
  ASSUME TypeOK, RepairInv, PhaseInv, [Next]_vars PROVE PhaseInv'
<1> USE DEF PhaseInv
<1>t. call \in [Callers -> Call(issued)]
  BY DEF TypeOK, CallTypeOK
<1>i. Idle.stage = "idle" /\ NoFix.stage = "idle"
  BY DEF Idle, NoFix
<1>m. ASSUME NEW c \in Callers, NEW x, call' = [call EXCEPT ![c] = x], UNCHANGED phase,
             call[c].stage # "idle" \/ phase = "up", fix'.owner \in {fix.owner, c}
      PROVE  PhaseInv'
  BY <1>m, <1>t, <1>i, Apart
<1>n. ASSUME fix.stage # "idle", UNCHANGED phase, phase = "roles" => UNCHANGED call[Boot],
             fix' = NoFix \/ fix'.owner = fix.owner
      PROVE  PhaseInv'
  BY <1>n, <1>i, Apart DEF NoFix
<1>1. ASSUME NEW c \in Callers, CallStep(c) PROVE PhaseInv'
  BY <1>1, <1>m DEF CallStep, Unauthorized, Unanswered
<1>2. ASSUME NEW c \in {Boot, User}, PairStep(c) PROVE PhaseInv'
  BY <1>2, <1>m, Apart DEF PairStep, StoresAccess, StoresRefresh, Welcomed, Leaves, HasLeft
<1>3. ASSUME NEW r \in Requests, Ask(r) \/ Served(r) PROVE PhaseInv'
  BY <1>3, <1>m, Apart DEF Ask, Served
<1>4. ASSUME FixChecked \/ FixMinted \/ FixDrops \/ FixStoresAccess PROVE PhaseInv'
  BY <1>4, <1>n, FixForms DEF FixChecked, FixMinted, FixDrops, FixStoresAccess, Interceptor
<1>5. ASSUME FixReads \/ FixFails \/ FixRefused \/ FixStoresRefresh
      PROVE  PhaseInv'
  <2>1. phase = "roles" => call[Boot].stage \notin {"queued", "repairing"} /\ Boot # fix.owner
    BY <1>5, <1>i, Apart DEF RepairInv, Repairing, FixReads, FixFails, FixRefused, FixStoresRefresh
  <2>2. phase = "roles" => call'[Boot] = call[Boot]
    BY <1>5, <1>t, <2>1, Apart DEF FixReads, FixFails, FixRefused, FixStoresRefresh,
       Abandoned, Released, FailedQueue
  <2>3. fix.stage # "idle" /\ UNCHANGED phase
    BY <1>5 DEF FixReads, FixFails, FixRefused, FixStoresRefresh
  <2> QED
    BY <1>5, <1>n, <2>2, <2>3, FixForms DEF Interceptor
<1>6. ASSUME NEW b \in BOOLEAN, Restore(b) \/ BootOffline(b) PROVE PhaseInv'
  BY <1>6, <1>m, Apart DEF Restore, BootOffline
<1>7. ASSUME BootReads \/ BootChecked \/ BootMinted \/ BootRefused PROVE PhaseInv'
  BY <1>7, <1>m, Apart DEF BootReads, BootChecked, BootMinted, BootRefused
<1>8. ASSUME UserStep \/ Login \/ Logout PROVE PhaseInv'
  BY <1>8, <1>m, Apart
     DEF UserStep, LoginAccepted, LoginFailed, LogoutServed, LogoutGoesOn, Login, Logout
<1>9. ASSUME Launch PROVE PhaseInv'
  BY <1>9, Apart DEF Launch, NoFix
<1>10. ASSUME Kill PROVE PhaseInv'
  BY <1>10, Apart DEF Kill, NoFix
<1>11. ASSUME Transition \/ Expire \/ (\E t \in Pairs : OrphanServed(t)) \/ UNCHANGED vars
       PROVE  PhaseInv'
  <2>1. UNCHANGED <<call, fix, phase>>
    BY <1>11 DEF Transition, Expire, OrphanServed
  <2> QED
    BY <2>1
<1> QED
  BY <1>1, <1>2, <1>3, <1>4, <1>5, <1>6, <1>7, <1>8, <1>9, <1>10, <1>11
     DEF Next, Interceptor, Bootstrap

LEMMA RotationStep ==
  ASSUME TypeOK, RotationInv, [Next]_vars PROVE RotationInv'
<1> USE DEF RotationInv, RotatedOnce
<1>t. /\ issued \in Nat /\ issued \in Pairs /\ issued + 1 \in Nat /\ MaxPairs \in Nat
      /\ parent \in [Pairs -> Tokens]
  BY SessionAssumption DEF TypeOK, ServerTypeOK, Pairs
\* A pair is issued for a password, or for a token that this step spends.
<1>m. ASSUME NEW t, Issue(t), spent \subseteq spent',
             t = 0 \/ (t \notin spent /\ t \in spent')
      PROVE  RotationInv'
  <2>1. issued' = issued + 1 /\ issued + 1 \in Pairs /\ 1 .. issued' = (1 .. issued) \cup {issued + 1}
    BY <1>m, <1>t, SessionAssumption DEF Issue, Pairs
  <2>2. parent'[issued + 1] = t /\ \A p \in 1 .. issued : parent'[p] = parent[p]
    <3>1. parent' = [parent EXCEPT ![issued + 1] = t]
      BY <1>m DEF Issue
    <3>2. \A p \in 1 .. issued : p \in Pairs /\ p # issued + 1
      BY <1>t, <2>1 DEF Pairs
    <3> QED
      BY <1>t, <2>1, <3>1, <3>2
  <2>3. \A p \in 1 .. issued' : parent'[p] # 0 => parent'[p] \in spent'
    BY <1>m, <2>1, <2>2
  <2>4. \A p, q \in 1 .. issued' : parent'[p] = parent'[q] /\ parent'[p] # 0 => p = q
    BY <1>m, <2>1, <2>2
  <2> QED
    BY <2>3, <2>4
<1>n. ASSUME UNCHANGED <<issued, parent>>, spent \subseteq spent' PROVE RotationInv'
  BY <1>n
<1>1. ASSUME FixMinted \/ BootMinted \/ (\E t \in Pairs : OrphanServed(t)) PROVE RotationInv'
  <2>1. \E t : Rotated(t)
    BY <1>1 DEF FixMinted, BootMinted, OrphanServed
  <2> QED
    BY <1>m, <2>1 DEF Rotated
<1>2. ASSUME LoginAccepted PROVE RotationInv'
  BY <1>2, <1>m DEF LoginAccepted
<1>3. ASSUME \/ \E c \in Callers : CallStep(c)
             \/ \E c \in {Boot, User} : PairStep(c)
             \/ \E r \in Requests : Ask(r) \/ Served(r)
      PROVE  UNCHANGED <<issued, parent, spent>>
  BY <1>3 DEF CallStep, Unauthorized, Unanswered, PairStep, StoresAccess, StoresRefresh,
     Welcomed, Leaves, HasLeft, Ask, Served
<1>4. ASSUME FixReads \/ FixChecked \/ FixFails \/ FixRefused \/ FixDrops \/ FixStoresAccess
             \/ FixStoresRefresh
      PROVE  UNCHANGED <<issued, parent, spent>>
  BY <1>4 DEF FixReads, FixChecked, FixFails, FixRefused, FixDrops, FixStoresAccess,
     FixStoresRefresh
<1>5. ASSUME \/ \E b \in BOOLEAN : Restore(b) \/ BootOffline(b)
             \/ BootReads \/ BootChecked \/ BootRefused
             \/ LoginFailed \/ LogoutServed \/ LogoutGoesOn
      PROVE  UNCHANGED <<issued, parent, spent>>
  BY <1>5 DEF Restore, BootOffline, BootReads, BootChecked, BootRefused, LoginFailed,
     LogoutServed, LogoutGoesOn
<1>6. ASSUME Launch \/ Login \/ Logout \/ Kill \/ Transition \/ Expire \/ UNCHANGED vars
      PROVE  UNCHANGED <<issued, parent, spent>>
  BY <1>6 DEF Launch, Login, Logout, Kill, Transition, Expire
<1> QED
  BY <1>n, <1>1, <1>2, <1>3, <1>4, <1>5, <1>6 DEF Next, Interceptor, Bootstrap, UserStep

-----------------------------------------------------------------------------
(* What is deleted, and why the user is asked for the password.            *)

\* Only a refused refresh is followed by the deletion of the tokens.
LEMMA DropStep ==
  ASSUME TypeOK, LostInv, [Next]_vars
  PROVE  (fix.stage = "dropping" => fix.pair \in spent)'
<1>f. fix \in [owner : Callers \cup {Nobody}, stage : FixStages, pair : 0 .. issued]
  BY DEF TypeOK, CallTypeOK
<1>s. spent \subseteq spent'
  BY ServerStep
<1>1. CASE UNCHANGED fix
  BY <1>1, <1>s DEF LostInv
<1>2. CASE fix' = NoFix \/ \E c : fix' = [owner |-> c, stage |-> "reading", pair |-> 0]
  BY <1>2 DEF NoFix
<1>3. CASE FixReads
  <2>1. fix' = NoFix \/ fix' = [fix EXCEPT !.stage = "posted", !.pair = refresh]
    BY <1>3 DEF FixReads
  <2>2. [fix EXCEPT !.stage = "posted", !.pair = refresh].stage # "dropping"
    BY <1>f
  <2> QED
    BY <1>2, <2>1, <2>2
<1>4. CASE FixChecked \/ FixMinted \/ FixStoresAccess
  BY <1>4, <1>f DEF FixChecked, FixMinted, FixStoresAccess
<1>5. CASE FixRefused
  BY <1>5, <1>f, <1>s DEF FixRefused
<1>6. ASSUME NEW c \in Callers, CallStep(c)
      PROVE  UNCHANGED fix \/ \E d : fix' = [owner |-> d, stage |-> "reading", pair |-> 0]
  BY <1>6 DEF CallStep, Unauthorized, Unanswered
<1>7. ASSUME \/ \E c \in {Boot, User} : PairStep(c)
             \/ \E r \in Requests : Ask(r) \/ Served(r)
             \/ Bootstrap \/ UserStep
      PROVE  UNCHANGED fix
  BY <1>7 DEF PairStep, StoresAccess, StoresRefresh, Welcomed, Leaves, HasLeft, Ask, Served,
     Bootstrap, Restore, BootReads, BootChecked, BootMinted, BootRefused, BootOffline,
     UserStep, LoginAccepted, LoginFailed, LogoutServed, LogoutGoesOn
<1>8. ASSUME Launch \/ Login \/ Logout \/ Transition \/ Expire
             \/ (\E t \in Pairs : OrphanServed(t)) \/ UNCHANGED vars
      PROVE  UNCHANGED fix
  BY <1>8 DEF Launch, Login, Logout, Transition, Expire, OrphanServed
<1>9. ASSUME Kill \/ FixFails \/ FixDrops \/ FixStoresRefresh PROVE fix' = NoFix
  BY <1>9 DEF Kill, FixFails, FixDrops, FixStoresRefresh
<1> QED
  BY <1>1, <1>2, <1>3, <1>4, <1>5, <1>6, <1>7, <1>8, <1>9 DEF Next, Interceptor

\* What the steps below have in common: a caller that is at work has a kind,
\* and waits in the interceptor only for a refresh of its own or, if that one
\* has read the token, for nobody else's.
LEMMA AtWork ==
  ASSUME TypeOK, CallInv, RepairInv
  PROVE  /\ \A c \in {Boot, User} : call[c].stage \notin {"idle", "reading"} => Begun(c)
         /\ call[Boot].kind \in {"none", "refresh", "me"}
         /\ \A c \in {Boot, User} : fix.owner = c /\ FixBegun /\ fix.stage # "dropping"
              => call[c].stage = "repairing"
         /\ \A c \in {Boot, User} : call[c].stage = "repairing" => fix.owner = c
         /\ HeldInv /\ FixBegun =>
              \A c \in {Boot, User} \ {fix.owner} : c \notin FailedQueue
<1>1. \A c \in {Boot, User} : call[c].stage \notin {"idle", "reading"} => Begun(c)
  BY Apart DEF Begun, CallInv, CallOK
<1>2. call[Boot].kind \in {"none", "refresh", "me"}
  BY Apart DEF CallInv, CallOK
<1>3. \A c \in {Boot, User} : fix.owner = c /\ FixBegun /\ fix.stage # "dropping"
              => call[c].stage = "repairing"
  BY Apart DEF FixBegun, RepairInv, Repairing, TypeOK, CallTypeOK, FixStages
<1>4. \A c \in {Boot, User} : call[c].stage = "repairing" => fix.owner = c
  BY Apart DEF RepairInv
<1>5. HeldInv /\ FixBegun => \A c \in {Boot, User} \ {fix.owner} : c \notin FailedQueue
  BY <1>1 DEF HeldInv, AloneInv, FailedQueue
<1> QED
  BY <1>1, <1>2, <1>3, <1>4, <1>5

\* Nothing that HeldInv speaks of changes.
LEMMA HeldStill ==
  ASSUME HeldInv, UNCHANGED <<access, refresh, fix, expired, revoked, call[Boot], call[User]>>,
         spent \subseteq spent'
  PROVE  HeldInv'
<1>1. AloneInv'
  BY DEF HeldInv, AloneInv, Begun, FixBegun
<1>2. SpentInv'
  BY DEF HeldInv, SpentInv
<1>3. LiveInv'
  BY DEF HeldInv, LiveInv, Live
<1> QED
  BY <1>1, <1>2, <1>3 DEF HeldInv

\* The user's call goes on, and nobody else is at work.
LEMMA HeldUser ==
  ASSUME TypeOK, CallInv, RepairInv, HeldInv, Begun(User), call[User].stage # "repairing",
         UNCHANGED <<fix, call[Boot]>>,
         refresh' \in {refresh, 0}
           \/ call[User].stage \notin {"refused", "leaving", "left"},
         call[User].stage \in {"refused", "leaving", "left"}
           => call'[User].kind = "none" \/ call'[User].stage \in {"refused", "leaving", "left"}
  PROVE  HeldInv'
<1>b. ~Begun(Boot) /\ ~Begun(Boot)' /\ call[Boot].stage \in {"idle", "reading"}
  BY AtWork DEF HeldInv, AloneInv, Begun
<1>f. FixBegun => fix.owner = User /\ fix.stage = "dropping"
                  /\ call[User].stage \in {"refused", "leaving", "left"}
  <2>1. FixBegun => fix.owner = User
    BY Apart DEF HeldInv, AloneInv
  <2>2. FixBegun => fix.stage = "dropping"
    BY <2>1, AtWork
  <2> QED
    BY <2>1, <2>2 DEF HeldInv, AloneInv, Begun
<1>1. AloneInv'
  <2>1. ~(Begun(Boot)' /\ Begun(User)')
    BY <1>b
  <2>2. FixBegun' => \A c \in {Boot, User} \ {fix'.owner} : ~Begun(c)'
    BY <1>b, <1>f DEF FixBegun
  <2>3. \A c \in {Boot, User} : fix'.stage = "dropping" /\ fix'.owner = c =>
          call'[c].kind = "none" \/ call'[c].stage \in {"refused", "leaving", "left"}
    BY <1>f, Apart DEF FixBegun
  <2>4. fix'.stage \in {"posted", "checked", "dropping"} => fix'.pair = refresh' \/ refresh' = 0
    BY <1>f DEF FixBegun, HeldInv, AloneInv
  <2>5. call'[Boot].stage \notin {"sent", "checked", "queued", "repairing"}
    BY <1>b
  <2> QED
    BY <2>1, <2>2, <2>3, <2>4, <2>5 DEF AloneInv, Begun
<1>2. SpentInv' /\ LiveInv' /\ call'[Boot].stage \notin {"refused", "leaving"}
  BY <1>b DEF SpentInv, LiveInv
<1> QED
  BY <1>1, <1>2 DEF HeldInv

\* The call of the bootstrap goes on, and nobody else is at work.
LEMMA HeldBoot ==
  ASSUME TypeOK, CallInv, RepairInv, HeldInv, Begun(Boot), call[Boot].stage # "repairing",
         UNCHANGED <<fix, call[User]>>,
         refresh' \in {refresh, 0}
           \/ call[Boot].stage \notin {"refused", "leaving", "left"},
         call[Boot].stage \in {"refused", "leaving", "left"}
           => call'[Boot].kind = "none" \/ call'[Boot].stage \in {"refused", "leaving", "left"},
         call'[Boot].stage # "repairing",
         call'[Boot].kind = "refresh" /\ call'[Boot].stage \in {"sent", "checked", "queued"}
           => call'[Boot].pair = refresh' \/ refresh' = 0,
         call'[Boot].stage = "sent" => ~call'[Boot].retried,
         call'[Boot].stage \in {"refused", "leaving"} => refresh' = 0 \/ refresh' \in spent'
  PROVE  HeldInv'
<1>b. ~Begun(User) /\ ~Begun(User)'
  BY DEF HeldInv, AloneInv, Begun
<1>f. FixBegun => fix.owner = Boot /\ fix.stage = "dropping"
                  /\ call[Boot].stage \in {"refused", "leaving", "left"}
  <2>1. FixBegun => fix.owner = Boot
    BY Apart DEF HeldInv, AloneInv
  <2>2. FixBegun => fix.stage = "dropping"
    BY <2>1, AtWork
  <2> QED
    BY <2>1, <2>2 DEF HeldInv, AloneInv, Begun
<1>1. AloneInv'
  <2>1. ~(Begun(Boot)' /\ Begun(User)')
    BY <1>b
  <2>2. FixBegun' => \A c \in {Boot, User} \ {fix'.owner} : ~Begun(c)'
    BY <1>b, <1>f DEF FixBegun
  <2>3. \A c \in {Boot, User} : fix'.stage = "dropping" /\ fix'.owner = c =>
          call'[c].kind = "none" \/ call'[c].stage \in {"refused", "leaving", "left"}
    BY <1>f, Apart DEF FixBegun
  <2>4. fix'.stage \in {"posted", "checked", "dropping"} => fix'.pair = refresh' \/ refresh' = 0
    BY <1>f DEF FixBegun, HeldInv, AloneInv
  <2> QED
    BY <2>1, <2>2, <2>3, <2>4 DEF AloneInv, Begun
<1>2. SpentInv' /\ LiveInv'
  BY DEF SpentInv, LiveInv
<1> QED
  BY <1>1, <1>2 DEF HeldInv

\* The interceptor's refresh ends, and with it the call that waited in it, if
\* that was one of the two.
LEMMA HeldEnds ==
  ASSUME HeldInv, fix' = NoFix, UNCHANGED <<expired, revoked>>, spent \subseteq spent',
         refresh' \in {refresh, 0},
         \A c \in {Boot, User} :
           \/ call[c].stage # "repairing" /\ UNCHANGED call[c]
           \/ call[c].stage = "repairing" /\ call'[c].kind = call[c].kind
              /\ call'[c].stage \in {"refused", "error"},
         call'[Boot].stage \in {"refused", "leaving"} => refresh' = 0 \/ refresh' \in spent'
  PROVE  HeldInv'
<1>f. fix'.stage = "idle"
  BY DEF NoFix
<1>b. \A c \in {Boot, User} : Begun(c)' => Begun(c)
  BY DEF Begun
<1>1. AloneInv'
  <2>1. ~(Begun(Boot)' /\ Begun(User)') /\ ~FixBegun'
    BY <1>b, <1>f DEF HeldInv, AloneInv, FixBegun
  <2>2. call'[Boot].kind = "refresh" /\ call'[Boot].stage \in {"sent", "checked", "queued", "repairing"} =>
          call'[Boot].pair = refresh' \/ refresh' = 0
    BY DEF HeldInv, AloneInv
  <2> QED
    BY <1>f, <2>1, <2>2 DEF AloneInv
<1>2. SpentInv'
  BY DEF HeldInv, SpentInv
<1>3. LiveInv'
  BY <1>f DEF HeldInv, LiveInv, Live
<1> QED
  BY <1>1, <1>2, <1>3 DEF HeldInv

LEMMA HeldInterceptor ==
  ASSUME TypeOK, CallInv, RepairInv, HeldInv, LostInv, Interceptor, ~overlapped'
  PROVE  HeldInv'
<1>t. call \in [Callers -> Call(issued)]
  BY DEF TypeOK, CallTypeOK
<1>f. fix \in [owner : Callers \cup {Nobody}, stage : FixStages, pair : 0 .. issued]
  BY DEF TypeOK, CallTypeOK
<1>s. spent \subseteq spent'
  BY ServerStep DEF Next
<1>g. \A c \in {Boot, User}, how \in {"refused", "error"} :
        Gone(c, how).kind = call[c].kind /\ Gone(c, how).stage = how
  <2> TAKE c \in {Boot, User}, how \in {"refused", "error"}
  <2>1. c \in Callers /\ c \notin Requests
    BY Apart
  <2> QED
    BY <2>1, GoneFields
\* processQueue(error): of the two, only the caller that refreshed was waiting.
<1>a. ASSUME NEW how \in {"refused", "error"}, call' = Abandoned(how),
             FixBegun, fix.stage # "dropping"
      PROVE  \A c \in {Boot, User} :
               \/ call[c].stage # "repairing" /\ fix.owner # c /\ UNCHANGED call[c]
               \/ call[c].stage = "repairing" /\ fix.owner = c /\ call'[c].kind = call[c].kind
                  /\ call'[c].stage = how
  BY <1>a, <1>g, AtWork, Apart DEF Abandoned
<1>1. CASE FixReads
  <2>1. CASE refresh = 0
    <3>1. fix' = NoFix /\ UNCHANGED <<refresh, spent, expired, revoked>>
          /\ call' = [call EXCEPT ![fix.owner] = Gone(fix.owner, "refused")]
      BY <1>1, <2>1 DEF FixReads
    <3>2. fix.owner \in Callers /\ call[fix.owner].stage = "repairing"
      BY <1>1, <1>f DEF FixReads, RepairInv, Repairing
    <3>3. \A c \in {Boot, User} :
            \/ call[c].stage # "repairing" /\ UNCHANGED call[c]
            \/ call[c].stage = "repairing" /\ call'[c].kind = call[c].kind
               /\ call'[c].stage \in {"refused", "error"}
      BY <1>g, <1>t, <3>1, <3>2, AtWork, Apart
    <3> QED
      BY <2>1, <3>1, <3>3, HeldEnds
  <2>2. CASE refresh # 0
    <3>1. /\ fix' = [fix EXCEPT !.stage = "posted", !.pair = refresh]
          /\ UNCHANGED <<access, refresh, spent, expired, revoked, call>> /\ ~OthersAtWork
      BY <1>1, <2>2 DEF FixReads
    <3>2. fix'.stage = "posted" /\ fix'.pair = refresh /\ fix'.owner = fix.owner
      BY <1>f, <3>1
    <3>3. AloneInv'
      BY <3>1, <3>2 DEF HeldInv, AloneInv, OthersAtWork, Begun, FixBegun
    <3>4. SpentInv'
      <4>1. call[Boot].kind = "refresh" /\ call[Boot].stage = "repairing" =>
              call[Boot].pair \in spent /\ call[Boot].pair = refresh
        BY <1>1, <2>2 DEF HeldInv, SpentInv, AloneInv, FixReads
      <4> QED
        BY <3>1, <3>2, <4>1 DEF HeldInv, SpentInv
    <3>5. LiveInv'
      BY <3>1, <3>2 DEF HeldInv, LiveInv, Live
    <3> QED
      BY <3>1, <3>3, <3>4, <3>5 DEF HeldInv
  <2> QED
    BY <2>1, <2>2
<1>2. CASE FixChecked
  <2>1. /\ fix.stage = "posted" /\ fix'.stage = "checked" /\ fix'.pair = fix.pair
        /\ fix'.owner = fix.owner /\ fix.pair \notin spent
        /\ UNCHANGED <<access, refresh, spent, expired, revoked, call>>
    BY <1>2, <1>f DEF FixChecked
  <2>2. AloneInv'
    BY <2>1 DEF HeldInv, AloneInv, Begun, FixBegun
  <2>3. SpentInv' /\ LiveInv'
    BY <2>1 DEF HeldInv, SpentInv, LiveInv, Live
  <2> QED
    BY <2>1, <2>2, <2>3 DEF HeldInv
<1>3. CASE FixMinted
  <2>1. /\ fix.stage = "checked" /\ fix'.stage = "minted" /\ fix'.pair = issued'
        /\ fix'.owner = fix.owner /\ issued' = issued + 1
        /\ UNCHANGED <<access, refresh, expired, revoked, call>>
    BY <1>3, <1>f DEF FixMinted, Rotated, Issue
  <2>2. Live(fix.pair)'
    BY <2>1 DEF Live, TypeOK, ServerTypeOK, Pairs
  <2>3. AloneInv'
    BY <2>1 DEF HeldInv, AloneInv, Begun, FixBegun
  <2>4. SpentInv'
    BY <2>1 DEF HeldInv, SpentInv
  <2>5. LiveInv'
    BY <2>1, <2>2 DEF HeldInv, LiveInv, Live
  <2> QED
    BY <1>s, <2>1, <2>3, <2>4, <2>5 DEF HeldInv
<1>4. CASE FixFails
  <2>1. /\ FixBegun /\ fix.stage # "dropping" /\ call' = Abandoned("error")
        /\ fix' = NoFix /\ UNCHANGED <<refresh, spent, expired, revoked>>
    BY <1>4 DEF FixFails, FixBegun
  <2>2. \A c \in {Boot, User} :
          \/ call[c].stage # "repairing" /\ UNCHANGED call[c]
          \/ call[c].stage = "repairing" /\ call'[c].kind = call[c].kind /\ call'[c].stage = "error"
    BY <1>a, <2>1
  <2>3. call'[Boot].stage \in {"refused", "leaving"} => refresh' = 0 \/ refresh' \in spent'
    BY <2>1, <2>2 DEF HeldInv
  <2> QED
    BY <2>1, <2>2, <2>3, HeldEnds
<1>8. CASE FixRefused
  <2>1. /\ fix.stage = "posted" /\ fix'.stage = "dropping" /\ fix'.pair = fix.pair
        /\ fix'.owner = fix.owner /\ fix.pair \in spent /\ call' = Abandoned("refused")
        /\ UNCHANGED <<refresh, spent, expired, revoked>>
    BY <1>8, <1>f DEF FixRefused
  <2>2. \A c \in {Boot, User} :
          \/ call[c].stage # "repairing" /\ fix.owner # c /\ UNCHANGED call[c]
          \/ call[c].stage = "repairing" /\ fix.owner = c /\ call'[c].kind = call[c].kind
             /\ call'[c].stage = "refused"
    BY <1>a, <2>1 DEF FixBegun
  <2>3. refresh' = 0 \/ refresh' \in spent'
    BY <2>1 DEF HeldInv, AloneInv
  <2>4. AloneInv'
    <3>1. \A c \in {Boot, User} : Begun(c)' => Begun(c)
      BY <2>2 DEF Begun
    <3>2. \A c \in {Boot, User} : fix'.owner = c => call'[c].stage = "refused"
      BY <2>1, <2>2
    <3>3. call'[Boot].kind = "refresh" /\ call'[Boot].stage \in {"sent", "checked", "queued", "repairing"} =>
            call'[Boot].pair = refresh' \/ refresh' = 0
      BY <2>1, <2>2 DEF HeldInv, AloneInv
    <3> QED
      BY <2>1, <3>1, <3>2, <3>3 DEF HeldInv, AloneInv, FixBegun
  <2>5. SpentInv' /\ LiveInv'
    BY <2>1, <2>2 DEF HeldInv, SpentInv, LiveInv, Live
  <2> QED
    BY <2>3, <2>4, <2>5 DEF HeldInv
<1>5. CASE FixDrops
  <2>1. fix.stage = "dropping" /\ fix' = NoFix /\ refresh' = 0
        /\ UNCHANGED <<spent, expired, revoked, call>>
    BY <1>5 DEF FixDrops
  <2>2. \A c \in {Boot, User} : call[c].stage # "repairing"
    BY <2>1, Apart DEF RepairInv, Repairing
  <2> QED
    BY <2>1, <2>2, HeldEnds
<1>6. CASE FixStoresAccess
  <2>1. /\ fix.stage = "minted" /\ fix'.stage = "half" /\ fix'.pair = fix.pair
        /\ fix'.owner = fix.owner /\ access' = fix.pair
        /\ UNCHANGED <<refresh, spent, expired, revoked, call>>
    BY <1>6, <1>f DEF FixStoresAccess
  <2>2. AloneInv'
    BY <2>1 DEF HeldInv, AloneInv, Begun, FixBegun
  <2>3. SpentInv' /\ LiveInv'
    BY <2>1 DEF HeldInv, SpentInv, LiveInv, Live
  <2> QED
    BY <2>1, <2>2, <2>3 DEF HeldInv
<1>7. CASE FixStoresRefresh
  <2>1. /\ fix.stage = "half" /\ fix' = NoFix /\ refresh' = fix.pair /\ fix.pair # 0
        /\ call' = Released(Bearer(fix.pair)) /\ UNCHANGED <<spent, expired, revoked>>
    BY <1>7 DEF FixStoresRefresh, RepairInv
  <2>2. FixBegun /\ fix'.stage = "idle"
    BY <2>1 DEF FixBegun, NoFix
  <2>3. \A c \in {Boot, User} :
          \/ call[c].stage # "repairing" /\ fix.owner # c /\ UNCHANGED call[c] /\ ~Begun(c)
          \/ call[c].stage = "repairing" /\ fix.owner = c /\ call'[c].kind = call[c].kind
             /\ call'[c].stage = "sent" /\ call'[c].bearer = Bearer(fix.pair)
    <3>1. \A c \in {Boot, User} : LET x == Resent(c, Bearer(fix.pair)) IN
            x.kind = call[c].kind /\ x.stage = "sent" /\ x.bearer = Bearer(fix.pair)
      BY <1>t, Apart DEF Resent, Call
    <3>2. \A c \in {Boot, User} : fix.owner # c => c \notin FailedQueue /\ ~Begun(c)
      BY <2>2, AtWork DEF HeldInv, AloneInv
    <3> QED
      BY <2>1, <2>2, <3>1, <3>2, AtWork, Apart DEF Released
  <2>4. call[Boot].stage = "repairing" =>
          call[Boot].kind = "me" /\ Live(Bearer(fix.pair)) /\ Begun(Boot)
    <3>1. call[Boot].stage = "repairing" => call[Boot].kind # "refresh"
      BY <2>1 DEF HeldInv, SpentInv
    <3>2. call[Boot].stage = "repairing" => call[Boot].kind # "none"
      BY AtWork DEF Begun
    <3>3. call[Boot].stage = "repairing" => Live(Bearer(fix.pair))
      BY <2>1 DEF HeldInv, LiveInv, Bearer
    <3> QED
      BY <3>1, <3>2, <3>3, AtWork
  <2>5. call'[Boot].kind = "refresh" => call'[Boot].stage \in {"idle", "reading"}
    BY <2>3, <2>4, AtWork
  <2>6. AloneInv'
    <3>1. \A c \in {Boot, User} : Begun(c)' => fix.owner = c
      BY <2>3 DEF Begun
    <3> QED
      BY <2>2, <2>5, <3>1, Apart DEF AloneInv, FixBegun
  <2>7. SpentInv'
    BY <2>5 DEF SpentInv
  <2>8. LiveInv'
    BY <2>1, <2>2, <2>3, <2>4, AtWork DEF LiveInv, Live, Begun
  <2>9. call'[Boot].stage \notin {"refused", "leaving"}
    BY <2>3, AtWork
  <2> QED
    BY <2>6, <2>7, <2>8, <2>9 DEF HeldInv
<1> QED
  BY <1>1, <1>2, <1>3, <1>4, <1>5, <1>6, <1>7, <1>8 DEF Interceptor

\* The bootstrap has not begun its refresh, and does not now.
LEMMA HeldRest ==
  ASSUME HeldInv, ~Begun(Boot)', call'[Boot].stage \in {"idle", "reading"},
         fix.owner # Boot \/ call'[Boot].kind = "none",
         UNCHANGED <<refresh, fix, spent, call[User]>>
  PROVE  HeldInv'
<1>1. ~Begun(Boot)' /\ (Begun(User)' <=> Begun(User)) /\ (FixBegun' <=> FixBegun)
  BY DEF Begun, FixBegun
<1>2. FixBegun' => \A c \in {Boot, User} \ {fix'.owner} : ~Begun(c)'
  BY <1>1 DEF HeldInv, AloneInv
<1>3. AloneInv'
  BY <1>1, <1>2, Apart DEF HeldInv, AloneInv
<1> QED
  BY <1>3 DEF HeldInv, SpentInv, LiveInv

\* The tokens are picked up while nobody else is at work.
LEMMA HeldBegins ==
  ASSUME fix.stage = "idle", UNCHANGED <<refresh, fix>>,
         \/ call'[Boot].stage = "idle" /\ call'[Boot].kind = "none"
         \/ call'[User].kind = "none" /\ call'[Boot].stage = "sent"
            /\ call'[Boot].pair = refresh /\ ~call'[Boot].retried
  PROVE  HeldInv'
<1>1. AloneInv'
  BY Apart DEF AloneInv, Begun, FixBegun
<1> QED
  BY <1>1 DEF HeldInv, SpentInv, LiveInv

\* A call is answered with a 401, or fails.
LEMMA HeldCallStep ==
  ASSUME TypeOK, CallInv, RepairInv, HeldInv, NEW c \in Callers, CallStep(c)
  PROVE  HeldInv'
<1>t. call \in [Callers -> Call(issued)]
  BY DEF TypeOK, CallTypeOK
<1>x. PICK x : call' = [call EXCEPT ![c] = x]
  BY DEF CallStep, Unauthorized, Unanswered
<1>c. call'[c] = x /\ \A d \in Callers \ {c} : call'[d] = call[d]
  BY <1>t, <1>x
<1>s. /\ call[c].stage \in {"sent", "checked", "minted"}
      /\ UNCHANGED <<access, refresh, expired, spent>>
  BY DEF CallStep, Unauthorized, Unanswered
<1>g. c \notin Requests => \A how : Gone(c, how).kind = call[c].kind /\ Gone(c, how).stage = how
                                    /\ Gone(c, how).retried = FALSE
  BY GoneFields
<1>1. CASE c \in Requests
  <2>1. UNCHANGED <<call[Boot], call[User]>>
    BY <1>1, <1>c, Apart
  <2>2. UNCHANGED revoked
    BY <1>1 DEF CallInv, CallOK, CallStep, Unauthorized, Unanswered
  <2>3. CASE UNCHANGED fix
    BY <1>s, <2>1, <2>2, <2>3, HeldStill
  <2>4. CASE ~UNCHANGED fix
    <3>1. fix'.stage = "reading" /\ fix'.owner = c /\ fix.stage = "idle"
      BY <2>4 DEF CallStep, Unauthorized, Unanswered, RepairInv, IsRefreshing
    <3>2. c # Boot /\ c # User
      BY <1>1, Apart
    <3>3. AloneInv'
      BY <1>s, <2>1, <3>1, <3>2 DEF HeldInv, AloneInv, Begun, FixBegun
    <3>4. call[Boot].stage # "repairing"
      BY <3>1, Apart DEF RepairInv, Repairing
    <3>5. SpentInv' /\ LiveInv'
      BY <1>s, <2>1, <2>2, <3>1, <3>4 DEF HeldInv, SpentInv, LiveInv, Live
    <3> QED
      BY <1>s, <2>1, <3>3, <3>5 DEF HeldInv
  <2> QED
    BY <2>3, <2>4
<1>2. CASE c = User
  <2>1. UNCHANGED call[Boot] /\ Begun(User)
    BY <1>2, <1>c, <1>s, AtWork, Apart
  <2>2. CASE UNCHANGED fix
    BY <1>2, <1>s, <2>1, <2>2, HeldUser
  <2>3. CASE ~UNCHANGED fix
    <3>1. fix'.stage = "reading" /\ fix.stage = "idle"
      BY <2>3 DEF CallStep, Unauthorized, Unanswered, RepairInv, IsRefreshing
    <3>2. ~Begun(Boot) /\ ~Begun(Boot)' /\ call'[Boot].stage \in {"idle", "reading"}
      BY <2>1, AtWork DEF HeldInv, AloneInv, Begun
    <3>3. AloneInv'
      BY <3>1, <3>2 DEF AloneInv, FixBegun
    <3> QED
      BY <3>2, <3>3 DEF HeldInv, SpentInv, LiveInv
  <2> QED
    BY <2>2, <2>3
<1>3. CASE c = Boot
  <2>1. UNCHANGED call[User] /\ Begun(Boot) /\ ~Begun(User)
    BY <1>3, <1>c, <1>s, AtWork, Apart DEF HeldInv, AloneInv
  <2>2. CASE UNCHANGED fix
    <3>1. \/ call'[c] = Gone(c, "error")
          \/ /\ call'[c] = [call[c] EXCEPT !.stage = "queued", !.bearer = 0]
             /\ call[c].stage = "sent"
          \/ /\ call'[c] = Gone(c, "refused")
             /\ call[c].retried /\ call[c].stage = "sent" /\ IsRefused(c)
      <4>1. CASE Unanswered(c)
        BY <1>t, <4>1 DEF Unanswered
      <4>2. CASE Unauthorized(c)
        <5>1. ~(fix' = [owner |-> c, stage |-> "reading", pair |-> 0] /\ ~IsRefreshing)
          BY <2>2, Apart DEF IsRefreshing
        <5> QED
          BY <1>t, <4>2, <5>1 DEF Unauthorized
      <4> QED
        BY <4>1, <4>2 DEF CallStep
    <3>2. ~(call[c].retried /\ call[c].stage = "sent" /\ IsRefused(c))
      BY <1>3, <2>1, AtWork DEF HeldInv, SpentInv, LiveInv, IsRefused, Begun
    <3>3. \/ call'[Boot].stage = "error"
          \/ call'[Boot].stage = "queued" /\ call'[Boot].kind = call[Boot].kind
             /\ call'[Boot].pair = call[Boot].pair /\ call[Boot].stage = "sent"
      <4>1. [call[c] EXCEPT !.stage = "queued", !.bearer = 0].stage = "queued"
            /\ [call[c] EXCEPT !.stage = "queued", !.bearer = 0].kind = call[c].kind
            /\ [call[c] EXCEPT !.stage = "queued", !.bearer = 0].pair = call[c].pair
        BY <1>t DEF Call
      <4>2. Gone(c, "error").stage = "error"
        BY <1>3, <1>g, Apart
      <4> QED
        BY <1>3, <3>1, <3>2, <4>1, <4>2
    <3>4. call'[Boot].kind = "refresh" /\ call'[Boot].stage = "queued" =>
            call'[Boot].pair = refresh' \/ refresh' = 0
      BY <1>s, <3>3 DEF HeldInv, AloneInv
    <3> QED
      BY <1>3, <1>s, <2>1, <2>2, <3>3, <3>4, HeldBoot
  <2>3. CASE ~UNCHANGED fix
    <3>1. /\ fix' = [owner |-> c, stage |-> "reading", pair |-> 0] /\ fix.stage = "idle"
          /\ call'[c] = [call[c] EXCEPT !.stage = "repairing", !.bearer = 0, !.retried = TRUE]
          /\ call[c].stage = "sent" /\ IsRefused(c)
      BY <1>t, <2>3 DEF CallStep, Unauthorized, Unanswered, RepairInv, IsRefreshing
    <3>2. call'[Boot].stage = "repairing" /\ call'[Boot].kind = call[Boot].kind
          /\ call'[Boot].pair = call[Boot].pair
      BY <1>3, <1>t, <3>1 DEF Call
    <3>3. AloneInv'
      BY <1>3, <1>s, <2>1, <3>1, <3>2 DEF HeldInv, AloneInv, Begun, FixBegun
    <3>4. SpentInv' /\ LiveInv'
      BY <1>3, <1>s, <3>1, <3>2 DEF SpentInv, LiveInv, IsRefused
    <3> QED
      BY <3>2, <3>3, <3>4 DEF HeldInv
  <2> QED
    BY <2>2, <2>3
<1> QED
  BY <1>1, <1>2, <1>3 DEF Callers

\* A pair is stored, and what follows it; what is stored is deleted.
LEMMA HeldPairStep ==
  ASSUME TypeOK, CallInv, RepairInv, HeldInv, NEW c \in {Boot, User}, PairStep(c)
  PROVE  HeldInv'
<1>t. call \in [Callers -> Call(issued)]
  BY DEF TypeOK, CallTypeOK
<1>1. /\ UNCHANGED fix /\ \A d \in Callers \ {c} : call'[d] = call[d]
      /\ call[c].stage \in {"minted", "half", "sent", "leaving", "left"}
  BY <1>t, Apart DEF PairStep, StoresAccess, StoresRefresh, Welcomed, Leaves, HasLeft
<1>2. refresh' \in {refresh, 0} \/ call[c].stage = "half"
  BY DEF PairStep, StoresAccess, StoresRefresh, Welcomed, Leaves, HasLeft
<1>3. \/ call'[c].kind = "none" /\ call'[c].stage = "idle"
      \/ call[c].stage = "minted" /\ call'[c].stage = "half"
      \/ call[c].stage = "half" /\ call'[c].kind = "me" /\ call'[c].stage = "sent" /\ ~call'[c].retried
      \/ call[c].stage = "leaving" /\ call'[c].stage = "left"
  <2>1. CASE StoresAccess(c) \/ Leaves(c)
    BY <1>t, <2>1, Apart DEF StoresAccess, Leaves, Call
  <2>2. CASE StoresRefresh(c)
    BY <1>t, <2>2, Apart DEF StoresRefresh, Sent
  <2>3. CASE Welcomed(c) \/ HasLeft(c)
    BY <1>t, <2>3, Apart DEF Welcomed, HasLeft, Idle
  <2> QED
    BY <2>1, <2>2, <2>3 DEF PairStep
<1>4. Begun(c)
  BY <1>1, AtWork
<1>5. CASE c = User
  <2>1. UNCHANGED call[Boot]
    BY <1>1, <1>5, Apart
  <2> QED
    BY <1>1, <1>2, <1>3, <1>4, <1>5, <2>1, HeldUser
<1>6. CASE c = Boot
  <2>1. UNCHANGED call[User]
    BY <1>1, <1>6, Apart
  <2> QED
    BY <1>1, <1>2, <1>3, <1>4, <1>6, <2>1, HeldBoot
<1> QED
  BY <1>5, <1>6

\* The bootstrap of AuthProvider.
LEMMA HeldBootstrap ==
  ASSUME TypeOK, CallInv, RepairInv, PhaseInv, HeldInv, Bootstrap, ~overlapped'
  PROVE  HeldInv'
<1>t. call \in [Callers -> Call(issued)]
  BY DEF TypeOK, CallTypeOK
<1>s. spent \subseteq spent'
  BY ServerStep DEF Next
<1>1. ASSUME NEW record \in BOOLEAN, Restore(record) PROVE HeldInv'
  <2>1. fix.owner # Boot /\ UNCHANGED <<refresh, fix, spent>>
    BY <1>1 DEF Restore, PhaseInv
  <2>2. call'[Boot].stage \in {"idle", "reading"} /\ ~Begun(Boot)'
        /\ UNCHANGED call[User]
    BY <1>1, <1>t, Apart DEF Restore, PhaseInv, Idle, Begun
  <2> QED
    BY <2>1, <2>2, HeldRest
<1>2. CASE BootReads
  <2>1. CASE refresh = 0
    <3>1. call'[Boot] = Idle /\ UNCHANGED <<refresh, fix, spent, call[User]>>
      BY <1>2, <1>t, <2>1, Apart DEF BootReads
    <3> QED
      BY <3>1, HeldRest DEF Idle, Begun
  <2>2. CASE refresh # 0
    <3>1. /\ call'[Boot] = Sent("refresh", refresh, 0) /\ UNCHANGED <<refresh, fix, call[User]>>
          /\ ~IsRefreshing /\ call[User].kind = "none"
      BY <1>2, <1>t, <2>2, Apart DEF BootReads
    <3>2. fix.stage = "idle" /\ call'[User].kind = "none" /\ call'[Boot].stage = "sent"
          /\ call'[Boot].pair = refresh /\ ~call'[Boot].retried
      BY <3>1 DEF IsRefreshing, RepairInv, Sent
    <3> QED
      BY <3>1, <3>2, HeldBegins
  <2> QED
    BY <2>1, <2>2
<1>3. CASE BootChecked
  <2>1. /\ call[Boot].stage = "sent" /\ call[Boot].kind = "refresh"
        /\ call'[Boot].stage = "checked" /\ call'[Boot].pair = call[Boot].pair
        /\ UNCHANGED <<refresh, fix, call[User]>>
    BY <1>3, <1>t, Apart DEF BootChecked, Call
  <2>2. Begun(Boot) /\ (call[Boot].pair = refresh \/ refresh = 0)
    BY <2>1, AtWork DEF HeldInv, AloneInv
  <2> QED
    BY <2>1, <2>2, HeldBoot
<1>4. CASE BootMinted
  <2>1. /\ call[Boot].stage = "checked" /\ UNCHANGED <<refresh, fix, call[User]>>
        /\ call'[Boot] = [call[Boot] EXCEPT !.stage = "minted", !.pair = issued']
    BY <1>4, <1>t, Apart DEF BootMinted
  <2>2. call'[Boot].stage = "minted"
    BY <1>t, <2>1, Apart DEF Call
  <2>3. Begun(Boot)
    BY <2>1, AtWork
  <2> QED
    BY <2>1, <2>2, <2>3, HeldBoot
<1>5. CASE BootRefused
  <2>1. /\ call[Boot].stage = "refused" /\ UNCHANGED <<refresh, fix, call[User]>>
        /\ call'[Boot].stage = "leaving" \/ (call'[Boot].stage = "idle" /\ call'[Boot].kind = "none")
    <3>1. CASE keep
      BY <1>5, <1>t, <3>1, Apart DEF BootRefused, Idle
    <3>2. CASE ~keep
      <4>1. call' = [call EXCEPT ![Boot] = [call[Boot] EXCEPT !.stage = "leaving"]]
        BY <1>5, <3>2 DEF BootRefused
      <4>2. [call[Boot] EXCEPT !.stage = "leaving"].stage = "leaving"
        BY <1>t, Apart DEF Call
      <4>3. call'[Boot].stage = "leaving" /\ UNCHANGED call[User]
        BY <1>t, <4>1, <4>2, Apart
      <4>4. call[Boot].stage = "refused" /\ UNCHANGED <<refresh, fix>>
        BY <1>5 DEF BootRefused
      <4> QED
        BY <4>3, <4>4
    <3> QED
      BY <3>1, <3>2
  <2>2. Begun(Boot)
    BY <2>1, AtWork
  <2>3. (refresh = 0 \/ refresh \in spent) /\ UNCHANGED refresh
    BY <2>1 DEF HeldInv
  <2> QED
    BY <1>s, <2>1, <2>2, <2>3, HeldBoot
<1>6. ASSUME NEW known \in BOOLEAN, BootOffline(known) PROVE HeldInv'
  <2>1. call'[Boot] = Idle /\ UNCHANGED <<refresh, fix, spent, call[User]>>
    BY <1>6, <1>t, Apart DEF BootOffline
  <2> QED
    BY <2>1, HeldRest DEF Idle, Begun
<1> QED
  BY <1>1, <1>2, <1>3, <1>4, <1>5, <1>6 DEF Bootstrap

\* login() and logout().
LEMMA HeldUserStep ==
  ASSUME TypeOK, CallInv, RepairInv, HeldInv, UserStep \/ Login \/ Logout, ~overlapped'
  PROVE  HeldInv'
<1>t. call \in [Callers -> Call(issued)]
  BY DEF TypeOK, CallTypeOK
<1>1. UNCHANGED <<refresh, fix, call[Boot]>>
  BY <1>t, Apart DEF UserStep, LoginAccepted, LoginFailed, LogoutServed, LogoutGoesOn, Login, Logout
<1>2. CASE LoginAccepted \/ LogoutServed
  <2>1. call[User].stage = "sent"
    BY <1>2 DEF LoginAccepted, LogoutServed
  <2> QED
    BY <1>1, <2>1, AtWork, HeldUser
<1>3. CASE LoginFailed \/ LogoutGoesOn
  <2>1. call[User].stage \in {"refused", "error"} /\ (call'[User].kind = "none" \/ call'[User].stage = "leaving")
    BY <1>3, <1>t, Apart DEF LoginFailed, LogoutGoesOn, Idle, Call
  <2> QED
    BY <1>1, <2>1, AtWork, HeldUser
<1>4. CASE Login \/ Logout
  <2>1. ~IsRefreshing /\ call[Boot].kind = "none"
    BY <1>4 DEF Login, Logout, RefreshAtWork
  <2>2. fix.stage = "idle" /\ call[Boot].stage = "idle"
    BY <2>1, Apart DEF IsRefreshing, RepairInv, CallInv, CallOK
  <2> QED
    BY <1>1, <2>1, <2>2, HeldBegins
<1> QED
  BY <1>2, <1>3, <1>4 DEF UserStep

LEMMA HeldStep ==
  ASSUME TypeOK, CallInv, RepairInv, PhaseInv, LostInv, [Next]_vars, ~overlapped'
  PROVE  HeldInv'
<1>t. call \in [Callers -> Call(issued)]
  BY DEF TypeOK, CallTypeOK
<1>s. spent \subseteq spent'
  BY ServerStep
<1>1. CASE Kill
  <2>1. fix'.stage = "idle" /\ call'[Boot] = Idle /\ call'[User] = Idle /\ UNCHANGED refresh
    BY <1>1, Apart DEF Kill, NoFix
  <2>2. AloneInv'
    BY <2>1, Apart DEF AloneInv, Begun, FixBegun, Idle
  <2> QED
    BY <2>1, <2>2 DEF HeldInv, SpentInv, LiveInv, Idle
<1>h. ASSUME ~Kill PROVE HeldInv
  <2>1. ~overlapped
    <3>1. CASE \/ \E c \in Callers : CallStep(c)
               \/ \E c \in {Boot, User} : PairStep(c)
               \/ \E r \in Requests : Ask(r) \/ Served(r)
      BY <3>1 DEF CallStep, Unauthorized, Unanswered, PairStep, StoresAccess, StoresRefresh,
         Welcomed, Leaves, HasLeft, Ask, Served
    <3>2. CASE Interceptor
      BY <3>2 DEF Interceptor, FixReads, FixChecked, FixMinted, FixFails, FixRefused, FixDrops,
         FixStoresAccess, FixStoresRefresh
    <3>3. CASE Bootstrap
      BY <3>3 DEF Bootstrap, Restore, BootReads, BootChecked, BootMinted, BootRefused, BootOffline
    <3>4. CASE UserStep \/ Login \/ Logout
      BY <3>4 DEF UserStep, LoginAccepted, LoginFailed, LogoutServed, LogoutGoesOn, Login, Logout
    <3>5. CASE Launch \/ Transition \/ Expire \/ (\E t \in Pairs : OrphanServed(t)) \/ UNCHANGED vars
      BY <3>5 DEF Launch, Transition, Expire, OrphanServed
    <3> QED
      BY <1>h, <3>1, <3>2, <3>3, <3>4, <3>5 DEF Next
  <2> QED
    BY <2>1 DEF LostInv
<1>2. ASSUME NEW c \in Callers, CallStep(c), HeldInv PROVE HeldInv'
  BY <1>2, HeldCallStep
<1>3. ASSUME NEW c \in {Boot, User}, PairStep(c), HeldInv PROVE HeldInv'
  BY <1>3, HeldPairStep
<1>4. ASSUME NEW r \in Requests, Ask(r) \/ Served(r), HeldInv PROVE HeldInv'
  <2>1. UNCHANGED <<access, refresh, fix, expired, revoked, call[Boot], call[User]>>
    BY <1>4, <1>t, Apart DEF Ask, Served
  <2> QED
    BY <1>4, <1>s, <2>1, HeldStill
<1>5. CASE Expire /\ HeldInv
  <2>1. AloneInv' /\ SpentInv'
    BY <1>5 DEF Expire, HeldInv, AloneInv, SpentInv, Begun, FixBegun
  <2>2. \A p \in 0 .. issued : Live(p) /\ Fresh(p) => Live(p)'
    BY <1>5 DEF Expire, Live, TypeOK, ServerTypeOK, Pairs
  <2>3. fix.pair \in 0 .. issued /\ call[Boot].bearer \in 0 .. issued
    BY <1>t, Apart DEF TypeOK, CallTypeOK, Call
  <2>4. LiveInv'
    <3>1. fix.stage \in {"minted", "half"} => Fresh(fix.pair)
      BY DEF Fresh
    <3>2. call[Boot].retried => Fresh(call[Boot].bearer)
      BY Apart DEF Fresh
    <3>3. UNCHANGED <<fix, call, access>>
      BY <1>5 DEF Expire
    <3> QED
      BY <1>5, <2>2, <2>3, <3>1, <3>2, <3>3 DEF HeldInv, LiveInv
  <2> QED
    BY <1>5, <2>1, <2>4 DEF HeldInv, Expire
<1>6. ASSUME Launch \/ Transition \/ (\E t \in Pairs : OrphanServed(t)) \/ UNCHANGED vars, HeldInv
      PROVE  HeldInv'
  <2>1. UNCHANGED <<access, refresh, fix, expired, revoked>>
    BY <1>6 DEF Launch, Transition, OrphanServed
  <2>2. UNCHANGED <<call[Boot], call[User]>>
    BY <1>6, Apart DEF Launch, Transition, OrphanServed, PhaseInv
  <2> QED
    BY <1>6, <1>s, <2>1, <2>2, HeldStill
<1> QED
  BY <1>1, <1>h, <1>2, <1>3, <1>4, <1>5, <1>6, HeldInterceptor, HeldBootstrap, HeldUserStep DEF Next

LEMMA LostStep ==
  ASSUME TypeOK, CallInv, RepairInv, PhaseInv, LostInv, [Next]_vars PROVE LostInv'
<1>1. (fix.stage = "dropping" => fix.pair \in spent)'
  BY DropStep
<1>2. ~overlapped' => HeldInv'
  BY HeldStep
<1> QED
  BY <1>1, <1>2 DEF LostInv

-----------------------------------------------------------------------------
(* The theorems.                                                           *)

LEMMA InitInv == Init => IInv
<1> SUFFICES ASSUME Init PROVE IInv
  OBVIOUS
<1>1. \A c \in Callers : call[c] = Idle
  BY DEF Init
<1>2. Idle.kind = "none" /\ Idle.stage = "idle" /\ NoFix.stage = "idle" /\ NoFix.owner = Nobody
  BY DEF Idle, NoFix
<1>3. CallInv /\ RepairInv /\ PhaseInv
  BY <1>1, <1>2, Apart DEF Init, CallInv, CallOK, RepairInv, Repairing, PhaseInv
<1>4. RotationInv
  BY SessionAssumption DEF Init, RotationInv, RotatedOnce, Pairs
<1>5. LostInv
  BY <1>1, <1>2, Apart DEF Init, LostInv, HeldInv, AloneInv, SpentInv, LiveInv, Begun, FixBegun
<1> QED
  BY <1>3, <1>4, <1>5, InitType DEF IInv

LEMMA StepInv == IInv /\ [Next]_vars => IInv'
  BY TypeStep, CallInvStep, RepairStep, PhaseStep, RotationStep, LostStep DEF IInv

LEMMA Invariant == Spec => []IInv
  BY InitInv, StepInv, PTL DEF Spec

\* However many requests, restarts and lost answers post a refresh token, the
\* server issues one pair for it: token.py writes the jti, its primary key, in
\* the transaction that rotates, whichever check saw the token unspent before.
THEOREM OnePairPerToken == Spec => []RotatedOnce
<1>1. IInv => RotatedOnce
  BY DEF IInv, RotationInv
<1> QED
  BY <1>1, Invariant, PTL

\* A refresh token that is deleted is one the server takes no longer, unless the
\* user is logging out or two holders of the pair overlapped: the interceptor and
\* the bootstrap delete only after a 401 for the token that is still stored
\* (client.ts, auth-context.tsx), and no other failure deletes it.
THEOREM TokenKept == Spec => KeptThroughFailures
<1> DEFINE Kept ==
      refresh # 0 /\ refresh' = 0 =>
        refresh \in spent \/ overlapped \/ call[User].stage = "leaving"
<1>1. ASSUME IInv, [Next]_vars PROVE Kept
  <2> SUFFICES ASSUME refresh # 0, refresh' = 0
               PROVE  refresh \in spent \/ overlapped \/ call[User].stage = "leaving"
    OBVIOUS
  <2>1. CASE FixDrops
    <3>1. fix.stage = "dropping" /\ fix.pair \in spent
      BY <1>1, <2>1 DEF FixDrops, IInv, LostInv
    <3>2. ~overlapped => fix.pair = refresh
      BY <1>1, <3>1 DEF IInv, LostInv, HeldInv, AloneInv
    <3> QED
      BY <3>1, <3>2
  <2>2. ASSUME NEW c \in {Boot, User}, Leaves(c)
        PROVE  refresh \in spent \/ overlapped \/ call[User].stage = "leaving"
    BY <1>1, <2>2 DEF Leaves, IInv, LostInv, HeldInv
  <2>3. ASSUME NEW c \in {Boot, User},
               StoresAccess(c) \/ StoresRefresh(c) \/ Welcomed(c) \/ HasLeft(c)
        PROVE  refresh' # 0
    BY <1>1, <2>3, Apart DEF StoresAccess, StoresRefresh, Welcomed, HasLeft, IInv, CallInv, CallOK
  <2>4. FixStoresRefresh => refresh' # 0
    BY <1>1 DEF FixStoresRefresh, IInv, RepairInv
  <2>5. ASSUME FixReads \/ FixChecked \/ FixMinted \/ FixFails \/ FixRefused \/ FixStoresAccess
        PROVE  UNCHANGED refresh
    BY <2>5 DEF FixReads, FixChecked, FixMinted, FixFails, FixRefused, FixStoresAccess
  <2>6. ASSUME Bootstrap \/ UserStep PROVE UNCHANGED refresh
    BY <2>6 DEF Bootstrap, Restore, BootReads, BootChecked, BootMinted, BootRefused, BootOffline,
       UserStep, LoginAccepted, LoginFailed, LogoutServed, LogoutGoesOn
  <2>7. ASSUME \/ \E c \in Callers : CallStep(c)
               \/ \E r \in Requests : Ask(r) \/ Served(r)
        PROVE  UNCHANGED refresh
    BY <2>7 DEF CallStep, Unauthorized, Unanswered, Ask, Served
  <2>8. ASSUME Launch \/ Login \/ Logout \/ Kill \/ Transition \/ Expire
               \/ (\E t \in Pairs : OrphanServed(t)) \/ UNCHANGED vars
        PROVE  UNCHANGED refresh
    BY <2>8 DEF Launch, Login, Logout, Kill, Transition, Expire, OrphanServed
  <2> QED
    BY <1>1, <2>1, <2>2, <2>3, <2>4, <2>5, <2>6, <2>7, <2>8
       DEF Next, Interceptor, PairStep
<1>2. IInv /\ [Next]_vars => [Kept]_vars
  BY <1>1
<1>3. Spec => [][Kept]_vars
  BY <1>2, Invariant, PTL DEF Spec
<1> QED
  BY <1>3 DEF KeptThroughFailures

\* The password is asked for when there is no refresh token or a spent one, or
\* when two holders of the pair were at work at once, or the server was gone.
THEOREM ReloginHasReason == Spec => ReloginExplained
<1> DEFINE Explained ==
      ~needsRelogin /\ needsRelogin' =>
        refresh = 0 \/ refresh \in spent \/ overlapped \/ offlineExpired
<1>1. ASSUME IInv, [Next]_vars PROVE Explained
  <2> SUFFICES ASSUME ~needsRelogin, needsRelogin'
               PROVE  refresh = 0 \/ refresh \in spent \/ overlapped \/ offlineExpired
    OBVIOUS
  <2>1. CASE FixDrops
    <3>1. fix.stage = "dropping" /\ fix.pair \in spent
      BY <1>1, <2>1 DEF FixDrops, IInv, LostInv
    <3>2. ~overlapped => fix.pair = refresh \/ refresh = 0
      BY <1>1, <3>1 DEF IInv, LostInv, HeldInv, AloneInv
    <3> QED
      BY <3>1, <3>2
  <2>2. CASE BootReads
    BY <2>2 DEF BootReads
  <2>3. CASE BootRefused
    BY <1>1, <2>3 DEF BootRefused, IInv, LostInv, HeldInv
  <2>4. CASE Transition
    BY <2>4 DEF Transition
  <2>5. ASSUME \/ \E c \in Callers : CallStep(c)
               \/ \E c \in {Boot, User} : PairStep(c)
               \/ \E r \in Requests : Ask(r) \/ Served(r)
        PROVE  needsRelogin' => needsRelogin
    BY <2>5 DEF CallStep, Unauthorized, Unanswered, PairStep, StoresAccess, StoresRefresh,
       Welcomed, Leaves, HasLeft, Ask, Served
  <2>6. ASSUME FixReads \/ FixChecked \/ FixMinted \/ FixFails \/ FixRefused
               \/ FixStoresAccess \/ FixStoresRefresh
        PROVE  UNCHANGED needsRelogin
    BY <2>6 DEF FixReads, FixChecked, FixMinted, FixFails, FixRefused, FixStoresAccess,
       FixStoresRefresh
  <2>7. ASSUME BootChecked \/ BootMinted \/ (\E b \in BOOLEAN : Restore(b) \/ BootOffline(b))
               \/ UserStep
        PROVE  UNCHANGED needsRelogin
    BY <2>7 DEF BootChecked, BootMinted, Restore, BootOffline, UserStep, LoginAccepted,
       LoginFailed, LogoutServed, LogoutGoesOn
  <2>8. ASSUME Launch \/ Login \/ Logout \/ Kill \/ Expire
               \/ (\E t \in Pairs : OrphanServed(t)) \/ UNCHANGED vars
        PROVE  needsRelogin' => needsRelogin
    BY <2>8 DEF Launch, Login, Logout, Kill, Expire, OrphanServed
  <2> QED
    BY <1>1, <2>1, <2>2, <2>3, <2>4, <2>5, <2>6, <2>7, <2>8
       DEF Next, Interceptor, Bootstrap
<1>2. IInv /\ [Next]_vars => [Explained]_vars
  BY <1>1
<1>3. Spec => [][Explained]_vars
  BY <1>2, Invariant, PTL DEF Spec
<1> QED
  BY <1>3 DEF ReloginExplained
=============================================================================
